----------------------------- MODULE JmaAlerts -----------------------------
(***************************************************************************)
(* How the core turns the weather warning bulletins of one JMA series into *)
(* rows of sea.alert (jma_message_writer.gleam), when they are delivered   *)
(* late, out of order, again, or by two transactions at once.              *)
(*                                                                         *)
(* A bulletin lists what is in force in every area, what has been lifted   *)
(* since the one before, and the areas without any warning (telegram.go).  *)
(* Its identifier starts with the time it was issued.                      *)
(***************************************************************************)
EXTENDS Naturals, FiniteSets

CONSTANTS
    Areas,         \* geocodes
    Phenomena,     \* rain, wind, ...
    MaxLevel,      \* 1: advisory only, 2: advisory and warning
    MaxBulletins,  \* bound on the number of bulletins issued
    MaxSent        \* bound on the report times

ASSUME BoundsAssumption == /\ MaxLevel \in Nat \ {0} /\ MaxBulletins \in Nat
                           /\ MaxSent \in Nat \ {0}

\* A kind of warning: the name of the alert, such as heavy rain advisory.
Events == Phenomena \X (1..MaxLevel)
\* What an item says of its warning: lifted (解除), in force under one of the four
\* names that is_active_alert_status knows, or in force under another one, such as
\* the step down from an emergency warning to an advisory (特別警報から注意報).
Statuses == {"active", "other", "lifted"}
Items == [area : Areas, event : Events, status : Statuses]
InfoTypes == {"issue", "correction", "cancel"}
Bulletins == [id : 1..MaxBulletins, sent : 1..MaxSent, info : InfoTypes, live : BOOLEAN,
              items : SUBSET Items, cleared : SUBSET Areas]
Rows == [sent : 0..MaxSent, id : 0..MaxBulletins, areas : SUBSET Areas, active : BOOLEAN]

VARIABLES
    truth,    \* the level in force per area and phenomenon (0: none)
    clock,    \* the report time of the latest bulletin
    issued,   \* bulletins JMA has issued
    archived, \* sea.jma_message
    first,    \* bulletins whose transaction found no row in sea.jma_series
    series,   \* sea.jma_series: a set of at most one row
    alert     \* sea.alert, per event

vars == <<truth, clock, issued, archived, first, series, alert>>

NoRow == [sent |-> 0, id |-> 0, areas |-> {}, active |-> FALSE]
Clear == [x \in Areas \X Phenomena |-> 0]
Last == Cardinality(issued)

TypeOK ==
    /\ truth \in [Areas \X Phenomena -> 0..MaxLevel] /\ clock \in 1..MaxSent
    /\ issued \subseteq Bulletins /\ archived \subseteq issued
    /\ first \subseteq issued \ archived
    /\ series \subseteq [sent : 1..MaxSent, cancelled : BOOLEAN, id : 1..MaxBulletins]
    /\ alert \in [Events -> Rows]

Init ==
    /\ truth = Clear /\ clock = 1 /\ issued = {}
    /\ archived = {} /\ first = {} /\ series = {}
    /\ alert = [e \in Events |-> NoRow]

----------------------------------------------------------------------------
(* JMA and the parser.                                                     *)

\* The items of a bulletin that reports the change from truth to t: what is in
\* force, under its name, and what was in force and is not any more. The parser
\* hands on the status as JMA wrote it: the steps down in odd have another one.
ItemsOf(t, odd) ==
    {[area |-> x[1], event |-> <<x[2], t[x]>>,
      status |-> IF x \in odd THEN "other" ELSE "active"] :
        x \in {y \in Areas \X Phenomena : t[y] > 0}} \cup
    {[area |-> x[1], event |-> <<x[2], truth[x]>>, status |-> "lifted"] :
        x \in {y \in Areas \X Phenomena : t[y] = 0 /\ truth[y] > 0}}

\* Areas listed without a warning and without an item of their own.
ClearedOf(items) == {a \in Areas : \A i \in items : i.area # a}

Issue(t, odd, info, sent) ==
    /\ Last < MaxBulletins /\ sent \in clock..MaxSent
    /\ odd \subseteq {x \in Areas \X Phenomena : 0 < t[x] /\ t[x] < truth[x]}
    /\ info = "cancel" => t = Clear
    /\ truth' = t /\ clock' = sent
    /\ LET items == IF info = "cancel" THEN {} ELSE ItemsOf(t, odd) IN
       issued' = issued \cup
           {[id |-> Last + 1, sent |-> sent, info |-> info, live |-> TRUE, items |-> items,
             cleared |-> IF info = "cancel" THEN {} ELSE ClearedOf(items)]}
    /\ UNCHANGED <<archived, first, series, alert>>

\* A drill carries no items (the parser keeps its envelope only).
IssueDrill(info, sent) ==
    /\ Last < MaxBulletins /\ sent \in clock..MaxSent /\ clock' = sent
    /\ issued' = issued \cup
           {[id |-> Last + 1, sent |-> sent, info |-> info, live |-> FALSE,
             items |-> {}, cleared |-> {}]}
    /\ UNCHANGED <<truth, archived, first, series, alert>>

----------------------------------------------------------------------------
(* The alert table.                                                        *)

\* Mutant: a row of the same report time stays.
EndRowOlder(r, b) == IF r.sent < b.sent THEN [r EXCEPT !.active = FALSE] ELSE r

\* An active row that is not newer than the bulletin is ended.
EndRow(r, b) == IF r.sent <= b.sent THEN [r EXCEPT !.active = FALSE] ELSE r

\* Mutant: a bulletin of the same report time writes nothing.
UpsertLater(r, b, areas) ==
    IF r = NoRow \/ b.sent > r.sent
    THEN [sent |-> b.sent, id |-> b.id, areas |-> areas, active |-> TRUE]
    ELSE r

\* upsert_alert_sql.
Upsert(r, b, areas) ==
    IF \/ r = NoRow \/ b.sent > r.sent
       \/ b.sent = r.sent /\ (b.info = "correction" \/ b.id >= r.id)
    THEN [sent |-> b.sent, id |-> b.id, areas |-> areas, active |-> TRUE]
    ELSE r

ItemsFor(b, e) == {i \in b.items : i.event = e}
InForce(b, e) == {a \in Areas : [area |-> a, event |-> e, status |-> "active"] \in b.items}

\* handle_alert_live for one event: ended when every item lifts it, written with
\* the areas in force otherwise, and left alone when no status is a known one.
LiveRow(r, b, e) ==
    IF ItemsFor(b, e) # {} /\ \A i \in ItemsFor(b, e) : i.status = "lifted" THEN EndRow(r, b)
    ELSE IF InForce(b, e) # {} THEN Upsert(r, b, InForce(b, e))
    ELSE r

\* ... and then every row that names a cleared area is ended.
ClearRow(r, b) == IF r.areas \cap b.cleared # {} THEN EndRow(r, b) ELSE r

\* A cancellation has no items: handle_alert_cancellation ends the series.
NewRow(r, b, e) == IF b.info = "cancel" THEN EndRow(r, b)
                                        ELSE ClearRow(LiveRow(r, b, e), b)

----------------------------------------------------------------------------
(* check_and_update_watermark.                                             *)

\* Mutant: the identifier of a bulletin of the same report time is not compared.
SupersedesAnyId(b, s) ==
    b.sent > s.sent \/ (b.sent = s.sent /\ ~s.cancelled)

\* A later report time wins; at the same time a cancellation wins and stands,
\* then the greater identifier.
Supersedes(b, s) ==
    \/ b.sent > s.sent
    \/ /\ b.sent = s.sent /\ ~s.cancelled
       /\ \/ b.info = "cancel"
          \/ b.info = "correction" /\ b.id >= s.id
          \/ b.info = "issue" /\ b.id > s.id

Watermark(b) == [sent |-> b.sent, cancelled |-> (b.info = "cancel"), id |-> b.id]

----------------------------------------------------------------------------
(* process_one_result, one transaction per posted bulletin.                *)

Accept(b) ==
    /\ archived' = archived \cup {b}
    /\ series' = {Watermark(b)}
    /\ alert' = [e \in Events |-> NewRow(alert[e], b, e)]

\* Claimed for the first time, and stale: archived, nothing else.
Reject(b) == archived' = archived \cup {b} /\ UNCHANGED <<series, alert>>

\* The series row exists and is locked for the rest of the transaction.
Post(b) ==
    /\ b \in issued \ (archived \cup first) /\ b.live /\ series # {}
    /\ IF \A s \in series : Supersedes(b, s) THEN Accept(b) ELSE Reject(b)
    /\ UNCHANGED <<truth, clock, issued, first>>

\* A drill is archived and touches neither series nor alerts.
PostDrill(b) ==
    /\ b \in issued \ (archived \cup first) /\ ~b.live /\ Reject(b)
    /\ UNCHANGED <<truth, clock, issued, first>>

\* Posted again after a lost answer: the identifier is not claimed a second time.
PostAgain(b) == b \in archived /\ UNCHANGED vars

\* No series row yet: SELECT ... FOR UPDATE finds nothing to lock ...
PostFirst(b) ==
    /\ b \in issued \ (archived \cup first) /\ b.live /\ series = {}
    /\ first' = first \cup {b}
    /\ UNCHANGED <<truth, clock, issued, archived, series, alert>>

\* ... so the INSERT decides: the second one violates the key, its transaction
\* is rolled back, and the adapter posts the bulletin again.
InsertFirst(b) ==
    /\ b \in first /\ first' = first \ {b}
    /\ IF series = {} THEN Accept(b) ELSE UNCHANGED <<archived, series, alert>>
    /\ UNCHANGED <<truth, clock, issued>>

Next ==
    \/ \E t \in [Areas \X Phenomena -> 0..MaxLevel], odd \in SUBSET (Areas \X Phenomena) :
          \E info \in InfoTypes, sent \in 1..MaxSent : Issue(t, odd, info, sent)
    \/ \E info \in InfoTypes, sent \in 1..MaxSent : IssueDrill(info, sent)
    \/ \E b \in issued : \/ Post(b) \/ PostDrill(b) \/ PostAgain(b) \/ PostFirst(b)
                          \/ InsertFirst(b)
Spec == Init /\ [][Next]_vars

----------------------------------------------------------------------------
(* Properties.                                                             *)

Taken == {b \in archived : b.live}
Latest == {b \in Taken : \A c \in Taken : c.sent <= b.sent}

\* Whatever the order of delivery, the watermark is the latest of the bulletins
\* taken so far: the greatest report time, a cancellation of that time before
\* anything else of it, and otherwise the greatest identifier.
WatermarkIsLatest ==
    /\ series = {} <=> Taken = {}
    /\ \A s \in series :
          /\ \A b \in Latest : s.sent = b.sent
          /\ s.cancelled <=> \E b \in Latest : b.info = "cancel"
          /\ \E b \in Latest : s.id = b.id
          /\ ~s.cancelled => \A b \in Latest : b.id <= s.id

\* A cancelled series has no active alert, also when the bulletins that the
\* cancellation refers to arrive after it.
CancelEndsAll == (\E s \in series : s.cancelled) => \A e \in Events : ~alert[e].active

\* The latest live bulletin that JMA has issued.
Newest(b) == b \in issued /\ b.live /\ \A c \in issued : c.live => c.id <= b.id

\* Once the core's watermark is the latest bulletin JMA has issued, every
\* warning in force is an active alert that names its area, whatever came late,
\* out of order or twice before; but for the warnings that this bulletin gives
\* a status outside is_active_alert_status, which the core passes over.
InForceShown ==
    \A b \in issued : Newest(b) /\ (\E s \in series : s.id = b.id) =>
        \A a \in Areas, p \in Phenomena :
            truth[<<a, p>>] > 0 =>
                LET e == <<p, truth[<<a, p>>]>>
                IN  \/ alert[e].active /\ a \in alert[e].areas
                    \/ [area |-> a, event |-> e, status |-> "other"] \in b.items

\* A change of level updates the alert of the phenomenon: no area is under two
\* active alerts for the same one (telegram.go: "Ensures transitions ... update
\* the same alert record").
OneLevelShown ==
    \A d, e \in Events :
        /\ d[1] = e[1] /\ d # e /\ alert[d].active /\ alert[e].active
        => alert[d].areas \cap alert[e].areas = {}

=============================================================================
