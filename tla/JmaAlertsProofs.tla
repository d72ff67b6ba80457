-------------------------- MODULE JmaAlertsProofs --------------------------
(***************************************************************************)
(* The watermark of a series and the alerts it guards, for any number of   *)
(* bulletins, areas and phenomena, proved from one inductive invariant.    *)
(***************************************************************************)
EXTENDS JmaAlerts, FiniteSetTheorems, TLAPS

\* Bulletins are numbered in the order in which they are issued.
Numbered ==
    /\ IsFiniteSet(issued) /\ \A b \in issued : b.id <= Last
    /\ \A b, c \in issued : b.id = c.id => b = c

\* An area with an item in force is not listed as cleared.
Apart == \A b \in issued, a \in Areas, e \in Events :
            [area |-> a, event |-> e, status |-> "active"] \in b.items => a \notin b.cleared

\* The latest live bulletin tells what is in force.
Reported ==
    \A b \in issued : Newest(b) =>
        \A a \in Areas, p \in Phenomena : truth[<<a, p>>] > 0 =>
            /\ b.info # "cancel"
            /\ \E s \in {"active", "other"} :
                  [area |-> a, event |-> <<p, truth[<<a, p>>]>>, status |-> s] \in b.items

\* The watermark comes from a bulletin that was taken and is not older than
\* any other, where a cancellation stands and otherwise the identifier decides.
Origin ==
    \/ series = {} /\ Taken = {}
    \/ \E b \in Taken :
          /\ series = {Watermark(b)}
          /\ \A c \in Taken : c.sent <= b.sent
          /\ b.info # "cancel" =>
                \A c \in Taken : c.sent = b.sent => c.info # "cancel" /\ c.id <= b.id

\* No row is ahead of the watermark.
Behind ==
    /\ series = {} => \A e \in Events : alert[e] = NoRow
    /\ \A s \in series, e \in Events :
          /\ alert[e].sent <= s.sent
          /\ ~s.cancelled /\ alert[e].sent = s.sent => alert[e].id <= s.id

\* Only live bulletins wait for their INSERT.
Started == \A b \in first : b.live

\* The rows show what the watermark's bulletin has in force.
Shown ==
    \A b \in Taken : series = {Watermark(b)} /\ b.info # "cancel" =>
        \A e \in Events : InForce(b, e) # {} =>
            alert[e].active /\ alert[e].areas = InForce(b, e)

IInv == /\ TypeOK /\ Numbered /\ Apart /\ Reported
        /\ Started /\ Origin /\ Behind /\ CancelEndsAll /\ Shown

----------------------------------------------------------------------------
(* The watermark that a bulletin leaves.                                   *)

\* The fields of the row that check_and_update_watermark stores for a bulletin.
LEMMA WatermarkFields ==
    ASSUME NEW c
    PROVE  /\ Watermark(c).sent = c.sent /\ Watermark(c).id = c.id
           /\ Watermark(c).cancelled <=> c.info = "cancel"
BY DEF Watermark

\* check_and_update_watermark's decision against a watermark left by bulletin c.
LEMMA SupersedesBulletin ==
    ASSUME NEW b, NEW c
    PROVE  Supersedes(b, Watermark(c)) <=>
              \/ b.sent > c.sent
              \/ /\ b.sent = c.sent /\ c.info # "cancel"
                 /\ \/ b.info = "cancel"
                    \/ b.info = "correction" /\ b.id >= c.id
                    \/ b.info = "issue" /\ b.id > c.id
BY WatermarkFields DEF Supersedes

----------------------------------------------------------------------------
(* One row under one bulletin.                                             *)

\* A row stays a row.
LEMMA NewRowType ==
    ASSUME NEW r \in Rows, NEW b \in Bulletins, NEW e \in Events
    PROVE  NewRow(r, b, e) \in Rows
<1>1. EndRow(r, b) \in Rows  BY DEF EndRow, Rows
<1>2. InForce(b, e) \in SUBSET Areas  BY DEF InForce
<1>3. ASSUME NEW S \in SUBSET Areas PROVE Upsert(r, b, S) \in Rows
  BY <1>3, BoundsAssumption DEF Upsert, Rows, Bulletins
<1>4. LiveRow(r, b, e) \in Rows  BY <1>1, <1>2, <1>3 DEF LiveRow
<1>5. ASSUME NEW q \in Rows PROVE ClearRow(q, b) \in Rows
  BY DEF ClearRow, EndRow, Rows
<1> QED  BY <1>1, <1>4, <1>5 DEF NewRow

\* A row not ahead of an accepted bulletin is not ahead of it afterwards.
LEMMA NewRowBehind ==
    ASSUME NEW r \in Rows, NEW b \in Bulletins, NEW e \in Events, r.sent <= b.sent
    PROVE  /\ NewRow(r, b, e).sent <= b.sent
           /\ r.sent = b.sent => NewRow(r, b, e).id \in {r.id, b.id}
           /\ r.sent < b.sent /\ NewRow(r, b, e).sent = b.sent => NewRow(r, b, e).id = b.id
           /\ b.info = "cancel" => ~NewRow(r, b, e).active
<1>1. /\ EndRow(r, b).sent = r.sent /\ EndRow(r, b).id = r.id /\ ~EndRow(r, b).active
  BY DEF EndRow, Rows
<1>2. ASSUME NEW S
      PROVE  \/ Upsert(r, b, S) = r
             \/ Upsert(r, b, S).sent = b.sent /\ Upsert(r, b, S).id = b.id
  BY DEF Upsert
<1>3. ASSUME NEW q PROVE ClearRow(q, b).sent = q.sent /\ ClearRow(q, b).id = q.id
  BY DEF ClearRow, EndRow
<1>4. \/ LiveRow(r, b, e).sent = r.sent /\ LiveRow(r, b, e).id = r.id
      \/ LiveRow(r, b, e).sent = b.sent /\ LiveRow(r, b, e).id = b.id
  BY <1>1, <1>2 DEF LiveRow
<1> QED  BY <1>1, <1>3, <1>4 DEF NewRow, Rows, Bulletins

\* An accepted bulletin's items in force are shown.
LEMMA NewRowShown ==
    ASSUME NEW r \in Rows, NEW b \in Bulletins, NEW e \in Events,
           b.info # "cancel", InForce(b, e) # {}, InForce(b, e) \cap b.cleared = {},
           r = NoRow \/ r.sent < b.sent \/ (r.sent = b.sent /\ r.id <= b.id)
    PROVE  NewRow(r, b, e).active /\ NewRow(r, b, e).areas = InForce(b, e)
<1>1. PICK i \in ItemsFor(b, e) : i.status # "lifted"
  <2>1. PICK a \in Areas : [area |-> a, event |-> e, status |-> "active"] \in b.items
    BY DEF InForce
  <2> DEFINE i == [area |-> a, event |-> e, status |-> "active"]
  <2>2. i \in ItemsFor(b, e) /\ i.status # "lifted"  BY <2>1 DEF ItemsFor
  <2> HIDE DEF i
  <2> QED  BY <2>2
<1>2. Upsert(r, b, InForce(b, e)) =
        [sent |-> b.sent, id |-> b.id, areas |-> InForce(b, e), active |-> TRUE]
  BY DEF Upsert, Rows, Bulletins
<1>3. LiveRow(r, b, e) =
        [sent |-> b.sent, id |-> b.id, areas |-> InForce(b, e), active |-> TRUE]
  BY <1>1, <1>2 DEF LiveRow
<1>4. ClearRow(LiveRow(r, b, e), b) = LiveRow(r, b, e)  BY <1>3 DEF ClearRow
<1> QED  BY <1>3, <1>4 DEF NewRow

----------------------------------------------------------------------------
\* The invariant holds before the first bulletin is issued.
LEMMA InitIInv == Init => IInv
<1> SUFFICES ASSUME Init PROVE IInv  OBVIOUS
<1>1. Clear \in [Areas \X Phenomena -> 0..MaxLevel]  BY BoundsAssumption DEF Clear
<1>2. NoRow \in Rows  BY BoundsAssumption DEF NoRow, Rows
<1>3. TypeOK  BY <1>1, <1>2, BoundsAssumption DEF Init, TypeOK
<1>4. Numbered /\ Apart /\ Reported  BY FS_EmptySet DEF Init, Numbered, Apart, Reported
<1>5. Started /\ Origin /\ Behind /\ CancelEndsAll /\ Shown
  BY DEF Init, Started, Origin, Behind, CancelEndsAll, Shown, Taken
<1> QED  BY <1>3, <1>4, <1>5 DEF IInv

\* What both kinds of issue do to the set of bulletins.
LEMMA IssueNumbered ==
    ASSUME Numbered, TypeOK, NEW b, issued' = issued \cup {b}, b.id = Last + 1
    PROVE  Numbered' /\ \A c \in issued : c.id < b.id
<1>1. Last \in Nat  BY FS_CardinalityType DEF Numbered, Last
<1>2. \A c \in issued : c.id \in Nat /\ c.id < b.id
  BY <1>1 DEF Numbered, TypeOK, Bulletins
<1>3. b \notin issued  BY <1>2, <1>1
<1>4. IsFiniteSet(issued') /\ Last' = Last + 1
  BY <1>3, FS_AddElement DEF Numbered, Last
<1>5. \A c \in issued' : c.id <= Last'
  BY <1>1, <1>2, <1>4
<1>6. \A c, d \in issued' : c.id = d.id => c = d
  BY <1>1, <1>2 DEF Numbered
<1> QED  BY <1>2, <1>4, <1>5, <1>6 DEF Numbered

\* The core's side does not move when a bulletin is issued.
LEMMA IssueCore ==
    ASSUME IInv, UNCHANGED <<archived, first, series, alert>>
    PROVE  Started' /\ Origin' /\ Behind' /\ CancelEndsAll' /\ Shown'
BY DEF IInv, Started, Origin, Behind, CancelEndsAll, Shown, Taken

\* A live bulletin, issued with a number of its own, keeps the invariant.
LEMMA IssueStep ==
    ASSUME IInv, NEW t \in [Areas \X Phenomena -> 0..MaxLevel], NEW odd, NEW info \in InfoTypes,
           NEW sent \in 1..MaxSent, Issue(t, odd, info, sent)
    PROVE  IInv'
<1> DEFINE items == IF info = "cancel" THEN {} ELSE ItemsOf(t, odd)
           b == [id |-> Last + 1, sent |-> sent, info |-> info, live |-> TRUE,
                 items |-> items,
                 cleared |-> IF info = "cancel" THEN {} ELSE ClearedOf(items)]
<1>1. issued' = issued \cup {b} /\ truth' = t /\ clock' = sent  BY DEF Issue
<1>2. Last \in Nat /\ Last < MaxBulletins
  BY FS_CardinalityType DEF Issue, IInv, Numbered, Last
<1>3. ItemsOf(t, odd) \subseteq Items
  <2>1. ASSUME NEW x \in Areas \X Phenomena, t[x] > 0
        PROVE  [area |-> x[1], event |-> <<x[2], t[x]>>,
                status |-> IF x \in odd THEN "other" ELSE "active"] \in Items
    BY <2>1, BoundsAssumption DEF Items, Events, Statuses
  <2>2. ASSUME NEW x \in Areas \X Phenomena, truth[x] > 0
        PROVE  [area |-> x[1], event |-> <<x[2], truth[x]>>, status |-> "lifted"] \in Items
    BY <2>2, BoundsAssumption DEF Items, Events, Statuses, IInv, TypeOK
  <2> QED  BY <2>1, <2>2 DEF ItemsOf
<1>4. items \subseteq Items  BY <1>3
<1>5. ClearedOf(items) \subseteq Areas  BY DEF ClearedOf
<1>6. b \in Bulletins  BY <1>2, <1>4, <1>5, BoundsAssumption DEF Bulletins
<1>7. TypeOK'  BY <1>1, <1>6 DEF Issue, IInv, TypeOK
<1>8. Numbered' /\ \A c \in issued : c.id < b.id
  <2>1. b.id = Last + 1  OBVIOUS
  <2> HIDE DEF b
  <2> QED  BY <1>1, <2>1, IssueNumbered DEF IInv
<1>9. Apart'
  <2>1. \A a \in Areas, e \in Events :
           [area |-> a, event |-> e, status |-> "active"] \in b.items => a \notin b.cleared
    BY DEF ClearedOf
  <2> HIDE DEF b
  <2> QED  BY <1>1, <2>1 DEF IInv, Apart
<1>10. Reported'
  <2> SUFFICES ASSUME NEW c \in issued', Newest(c)', NEW a \in Areas, NEW p \in Phenomena,
                      t[<<a, p>>] > 0
               PROVE  /\ c.info # "cancel"
                      /\ \E s \in {"active", "other"} :
                            [area |-> a, event |-> <<p, t[<<a, p>>]>>, status |-> s] \in c.items
    BY <1>1 DEF Reported
  <2>1. c = b
    <3>1. b \in issued' /\ b.live  BY <1>1
    <3>2. b.id <= c.id  BY <3>1 DEF Newest
    <3>3. c \notin issued  BY <3>2, <1>8, <1>2 DEF IInv, TypeOK, Bulletins
    <3> QED  BY <3>3, <1>1
  <2>2. info # "cancel"  BY DEF Issue, Clear
  <2>3. \E s \in {"active", "other"} :
           [area |-> a, event |-> <<p, t[<<a, p>>]>>, status |-> s] \in ItemsOf(t, odd)
    <3> DEFINE x == <<a, p>>
    <3>1. x \in {y \in Areas \X Phenomena : t[y] > 0} /\ x[1] = a /\ x[2] = p  OBVIOUS
    <3> HIDE DEF x
    <3>2. [area |-> x[1], event |-> <<x[2], t[x]>>,
           status |-> IF x \in odd THEN "other" ELSE "active"] \in ItemsOf(t, odd)
      BY <3>1 DEF ItemsOf
    <3> QED  BY <3>1, <3>2 DEF x
  <2> QED  BY <2>1, <2>2, <2>3
<1>11. Started' /\ Origin' /\ Behind' /\ CancelEndsAll' /\ Shown'  BY IssueCore DEF Issue
<1> QED  BY <1>7, <1>8, <1>9, <1>10, <1>11 DEF IInv

\* A drill or a test bulletin changes nothing of what is in force.
LEMMA DrillStep ==
    ASSUME IInv, NEW info \in InfoTypes, NEW sent \in 1..MaxSent, IssueDrill(info, sent)
    PROVE  IInv'
<1> DEFINE b == [id |-> Last + 1, sent |-> sent, info |-> info, live |-> FALSE,
                 items |-> {}, cleared |-> {}]
<1>1. issued' = issued \cup {b} /\ truth' = truth /\ clock' = sent  BY DEF IssueDrill
<1>2. Last \in Nat /\ Last < MaxBulletins
  BY FS_CardinalityType DEF IssueDrill, IInv, Numbered, Last
<1>3. b \in Bulletins  BY <1>2, BoundsAssumption DEF Bulletins
<1>4. TypeOK'  BY <1>1, <1>3 DEF IssueDrill, IInv, TypeOK
<1>5. Numbered' /\ \A c \in issued : c.id < b.id
  BY <1>1, IssueNumbered DEF IInv
<1>6. Apart'  BY <1>1 DEF IInv, Apart
<1>7. \A c \in issued' : Newest(c)' => Newest(c)
  BY <1>1 DEF Newest
<1>8. Reported'  BY <1>1, <1>7 DEF IInv, Reported, Newest
<1>9. Started' /\ Origin' /\ Behind' /\ CancelEndsAll' /\ Shown'  BY IssueCore DEF IssueDrill
<1> QED  BY <1>4, <1>5, <1>6, <1>8, <1>9 DEF IInv

----------------------------------------------------------------------------
\* The issuing side does not move when a bulletin is posted.
LEMMA PostIssued ==
    ASSUME IInv, UNCHANGED <<truth, clock, issued>>
    PROVE  Numbered' /\ Apart' /\ Reported'
BY DEF IInv, Numbered, Apart, Reported, Newest, Last

\* A bulletin that supersedes the watermark, or comes first, is taken.
LEMMA AcceptStep ==
    ASSUME IInv, NEW b \in issued, b.live, b \notin archived, Accept(b),
           series = {} \/ \A s \in series : Supersedes(b, s),
           UNCHANGED <<truth, clock, issued>>, first' \subseteq first \ {b}
    PROVE  IInv'
<1>1. b \in Bulletins /\ \A e \in Events : alert[e] \in Rows  BY DEF IInv, TypeOK
<1>2. Taken' = Taken \cup {b}  BY DEF Accept, Taken
<1>3. Taken \subseteq Bulletins /\ b \notin Taken  BY DEF IInv, TypeOK, Taken
<1>4. Watermark(b) \in [sent : 1..MaxSent, cancelled : BOOLEAN, id : 1..MaxBulletins]
  BY <1>1 DEF Watermark, Bulletins
<1>5. \A e \in Events : alert'[e] = NewRow(alert[e], b, e)  BY DEF Accept
<1>6. TypeOK'
  <2>1. alert' \in [Events -> Rows]  BY <1>1, NewRowType DEF Accept
  <2> QED  BY <1>4, <2>1 DEF Accept, IInv, TypeOK
<1>7. \A e \in Events : alert[e].sent <= b.sent
  BY <1>1 DEF IInv, Behind, Supersedes, NoRow, Bulletins, Rows, TypeOK
<1>8. Origin'
  <2>1. CASE Taken = {}  BY <1>1, <1>2, <2>1 DEF Origin, Accept, Bulletins
  <2>2. CASE Taken # {}
    <3>1. PICK w \in Taken :
            /\ series = {Watermark(w)}
            /\ \A c \in Taken : c.sent <= w.sent
            /\ w.info # "cancel" =>
                  \A c \in Taken : c.sent = w.sent => c.info # "cancel" /\ c.id <= w.id
      BY <2>2 DEF IInv, Origin
    <3>2. Supersedes(b, Watermark(w))  BY <3>1
    <3>3. \A c \in Taken : c.sent <= b.sent
      BY <1>1, <1>3, <3>1, <3>2, SupersedesBulletin DEF Bulletins
    <3>4. b.info # "cancel" =>
            \A c \in Taken : c.sent = b.sent => c.info # "cancel" /\ c.id <= b.id
      BY <1>1, <1>3, <3>1, <3>2, SupersedesBulletin DEF Bulletins
    <3> QED  BY <1>1, <1>2, <3>3, <3>4 DEF Origin, Accept, Bulletins
  <2> QED  BY <2>1, <2>2
<1>9. Behind'
  <2> SUFFICES ASSUME NEW e \in Events
               PROVE  /\ alert'[e].sent <= b.sent
                      /\ b.info # "cancel" /\ alert'[e].sent = b.sent => alert'[e].id <= b.id
    BY WatermarkFields DEF Behind, Accept
  <2>1. b.info # "cancel" /\ alert[e].sent = b.sent => alert[e].id <= b.id
    BY <1>1 DEF IInv, Behind, Supersedes, NoRow, Bulletins, Rows, TypeOK
  <2> QED  BY <1>1, <1>5, <1>7, <2>1, NewRowBehind DEF Rows, Bulletins
<1>10. CancelEndsAll'
  BY <1>1, <1>5, <1>7, NewRowBehind, WatermarkFields DEF CancelEndsAll, Accept
<1>11. Shown'
  <2> SUFFICES ASSUME b.info # "cancel", NEW e \in Events, InForce(b, e) # {}
               PROVE  alert'[e].active /\ alert'[e].areas = InForce(b, e)
    <3>1. ASSUME NEW c \in Taken', series' = {Watermark(c)} PROVE c = b
      <4>1. Watermark(c) = Watermark(b)  BY <3>1 DEF Accept
      <4>2. c.id = b.id  BY <4>1, WatermarkFields
      <4> QED  BY <4>2, <3>1, <1>2 DEF IInv, Numbered, Taken, TypeOK
    <3> QED  BY <3>1 DEF Shown
  <2>1. InForce(b, e) \cap b.cleared = {}  BY DEF InForce, IInv, Apart
  <2>2. alert[e] = NoRow \/ alert[e].sent < b.sent
          \/ (alert[e].sent = b.sent /\ alert[e].id <= b.id)
    BY <1>1 DEF IInv, Behind, Supersedes, Bulletins, Rows, TypeOK
  <2> QED  BY <1>1, <1>5, <2>1, <2>2, NewRowShown
<1> QED  BY <1>6, <1>8, <1>9, <1>10, <1>11, PostIssued DEF IInv, Started

\* A stale bulletin is archived, and the watermark is still the latest.
LEMMA RejectStep ==
    ASSUME IInv, NEW b \in issued, b \notin archived, b \notin first, Reject(b),
           b.live => series # {} /\ ~\A s \in series : Supersedes(b, s),
           UNCHANGED <<truth, clock, issued, first>>
    PROVE  IInv'
<1>1. b \in Bulletins  BY DEF IInv, TypeOK
<1>2. Taken' = IF b.live THEN Taken \cup {b} ELSE Taken  BY DEF Reject, Taken
<1>3. Taken \subseteq Bulletins  BY DEF IInv, TypeOK, Taken
<1>4. TypeOK'  BY DEF Reject, IInv, TypeOK
<1>5. Origin'
  <2>1. CASE ~b.live  BY <2>1, <1>2 DEF Reject, IInv, Origin
  <2>2. CASE b.live
    <3>1. PICK c \in Taken :
            /\ series = {Watermark(c)}
            /\ \A d \in Taken : d.sent <= c.sent
            /\ c.info # "cancel" =>
                  \A d \in Taken : d.sent = c.sent => d.info # "cancel" /\ d.id <= c.id
      BY <2>2 DEF IInv, Origin
    <3>2. ~Supersedes(b, Watermark(c))  BY <2>2, <3>1
    <3>3. b.sent <= c.sent  BY <3>2, <1>1, <1>3, SupersedesBulletin DEF Bulletins
    <3>4. c.info # "cancel" /\ b.sent = c.sent => b.info # "cancel" /\ b.id <= c.id
      BY <3>2, <1>1, <1>3, SupersedesBulletin DEF Bulletins, InfoTypes
    <3> QED  BY <1>2, <2>2, <3>1, <3>3, <3>4 DEF Origin, Reject
  <2> QED  BY <2>1, <2>2
<1>6. Behind' /\ CancelEndsAll'  BY DEF Reject, IInv, Behind, CancelEndsAll
<1>7. Shown'
  <2>1. ASSUME b.live, series = {Watermark(b)} PROVE FALSE
    <3>1. PICK c \in Taken : series = {Watermark(c)}  BY <2>1 DEF IInv, Origin
    <3>2. c.id = b.id  BY <2>1, <3>1 DEF Watermark
    <3>3. c = b  BY <3>2 DEF IInv, Numbered, Taken, TypeOK
    <3> QED  BY <3>3 DEF Taken
  <2> QED  BY <1>2, <2>1 DEF Reject, IInv, Shown
<1> QED  BY <1>4, <1>5, <1>6, <1>7, PostIssued DEF IInv, Started

\* Every step of JMA and of the core keeps the invariant.
LEMMA NextIInv == IInv /\ [Next]_vars => IInv'
<1> SUFFICES ASSUME IInv, [Next]_vars PROVE IInv'  OBVIOUS
<1>1. CASE UNCHANGED vars
  BY <1>1 DEF vars, IInv, TypeOK, Numbered, Apart, Reported, Newest, Started, Origin,
              Behind, CancelEndsAll, Shown, Taken, Last
<1>2. ASSUME NEW t \in [Areas \X Phenomena -> 0..MaxLevel], NEW odd,
             NEW info \in InfoTypes, NEW sent \in 1..MaxSent, Issue(t, odd, info, sent)
      PROVE  IInv'
  BY <1>2, IssueStep
<1>3. ASSUME NEW info \in InfoTypes, NEW sent \in 1..MaxSent, IssueDrill(info, sent)
      PROVE  IInv'
  BY <1>3, DrillStep
<1>4. ASSUME NEW b \in issued, Post(b) PROVE IInv'
  BY <1>4, AcceptStep, RejectStep DEF Post, IInv, TypeOK
<1>5. ASSUME NEW b \in issued, PostDrill(b) PROVE IInv'
  BY <1>5, RejectStep DEF PostDrill, IInv, TypeOK
<1>6. ASSUME NEW b \in issued, PostAgain(b) PROVE IInv'
  BY <1>6, <1>1 DEF PostAgain
<1>7. ASSUME NEW b \in issued, PostFirst(b) PROVE IInv'
  BY <1>7 DEF PostFirst, vars, IInv, TypeOK, Numbered, Apart, Reported, Newest, Started,
              Origin, Behind, CancelEndsAll, Shown, Taken, Last
<1>8. ASSUME NEW b \in issued, InsertFirst(b) PROVE IInv'
  <2>1. CASE series = {}
    BY <1>8, <2>1, AcceptStep DEF InsertFirst, IInv, TypeOK, Started
  <2>2. CASE series # {}
    BY <1>8, <2>2 DEF InsertFirst, IInv, TypeOK, Numbered, Apart, Reported, Newest,
                      Started, Origin, Behind, CancelEndsAll, Shown, Taken, Last
  <2> QED  BY <2>1, <2>2
<1> QED  BY <1>1, <1>2, <1>3, <1>4, <1>5, <1>6, <1>7, <1>8 DEF Next

\* The invariant holds throughout every behaviour of the core and of JMA.
THEOREM Inductive == Spec => []IInv
BY InitIInv, NextIInv, PTL DEF Spec

\* In every behaviour the watermark of sea.jma_series is the latest bulletin
\* taken, whatever the order of delivery (check_and_update_watermark).
THEOREM WatermarkSound == Spec => []WatermarkIsLatest
<1>1. IInv => WatermarkIsLatest
  <2> SUFFICES ASSUME IInv PROVE WatermarkIsLatest  OBVIOUS
  <2>1. CASE series = {} /\ Taken = {}  BY <2>1 DEF WatermarkIsLatest
  <2>2. ASSUME NEW b \in Taken, series = {Watermark(b)},
               \A c \in Taken : c.sent <= b.sent,
               b.info # "cancel" =>
                 \A c \in Taken : c.sent = b.sent => c.info # "cancel" /\ c.id <= b.id
        PROVE  WatermarkIsLatest
    <3>1. Taken \subseteq Bulletins  BY DEF IInv, TypeOK, Taken
    <3>2. b \in Latest  BY <2>2 DEF Latest
    <3>3. \A c \in Latest : c \in Taken /\ c.sent = b.sent
      BY <2>2, <3>1 DEF Latest, Bulletins
    <3> QED  BY <2>2, <3>2, <3>3, WatermarkFields DEF WatermarkIsLatest
  <2> QED  BY <2>1, <2>2 DEF IInv, Origin
<1> QED  BY <1>1, Inductive, PTL

\* A cancelled series never shows an alert (handle_alert_cancellation and the
\* tombstone in sea.jma_series).
THEOREM CancelSound == Spec => []CancelEndsAll
BY Inductive, PTL DEF IInv

\* When the core has caught up with JMA no warning in force is missing, but for
\* those whose status in the latest bulletin is not one the core knows.
THEOREM NoWarningMissing == Spec => []InForceShown
<1>1. IInv => InForceShown
  <2> SUFFICES ASSUME IInv, NEW b \in issued, Newest(b), NEW s \in series, s.id = b.id,
                      NEW a \in Areas, NEW p \in Phenomena, truth[<<a, p>>] > 0,
                      [area |-> a, event |-> <<p, truth[<<a, p>>]>>, status |-> "other"]
                          \notin b.items
               PROVE  /\ alert[<<p, truth[<<a, p>>]>>].active
                      /\ a \in alert[<<p, truth[<<a, p>>]>>].areas
    BY DEF InForceShown
  <2>1. PICK c \in Taken : series = {Watermark(c)}  BY DEF IInv, Origin
  <2>2. c \in issued /\ s.id = c.id  BY <2>1 DEF IInv, TypeOK, Taken, Watermark
  <2>3. b \in Taken /\ series = {Watermark(b)}  BY <2>1, <2>2 DEF IInv, Numbered
  <2>4. /\ b.info # "cancel"
        /\ [area |-> a, event |-> <<p, truth[<<a, p>>]>>, status |-> "active"] \in b.items
    BY DEF IInv, Reported
  <2>5. <<p, truth[<<a, p>>]>> \in Events
    BY BoundsAssumption DEF Events, IInv, TypeOK
  <2>6. a \in InForce(b, <<p, truth[<<a, p>>]>>)  BY <2>4 DEF InForce
  <2> QED  BY <2>3, <2>4, <2>5, <2>6 DEF IInv, Shown
<1> QED  BY <1>1, Inductive, PTL

=============================================================================
