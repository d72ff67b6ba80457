------------------------- MODULE EmscAdapterProofs -------------------------
(***************************************************************************)
(* What the EMSC adapter keeps for any clock, skew, lookback and sizes of  *)
(* pages, channels and batches, and any number of lost connections and     *)
(* restarts: the live pipeline drops and reorders nothing, and no gap-fill *)
(* asks for less than is missing.                                          *)
(***************************************************************************)
EXTENDS EmscAdapter, SequenceTheorems, WellFoundedInduction, TLAPS

\* Outside runLive nothing is in its channels; only an open connection has
\* messages on the wire.
StageInv ==
    /\ pc # "live" => Idle
    /\ conn # "open" => wire = <<>>
    /\ conn = "dial" => raw = <<>> /\ buf = <<>> /\ sending = <<>>

\* Events are dated by a clock; the stream is not later than Skew.
ClockInv ==
    /\ published \subseteq 1..clock /\ after <= until /\ until <= clock
    /\ maxLastUpdate <= clock
    /\ \A u \in unpushed : clock <= u + Skew
    /\ Members(sending) \cup Members(buf) \cup Members(raw) \cup Members(wire) \subseteq published

\* What the sync has still to bring: events after its endtime have not been
\* carried yet or fell into the blind spot, those before its start are there, and no
\* deletion is any query's to bring.
SyncInv ==
    /\ synced \subseteq core
    /\ pc = "sync" \/ conn = "dial" =>
         \A u \in published : u > until => u \in unpushed \cup blind
    /\ pc = "sync" => \A u \in published \ blind : u <= after => u \in core
    /\ pc # "sync" => \A u \in published \ (blind \cup deletions) : u <= until => u \in core

\* A deletion is on its way from the stream to the core, or lost; what has been
\* deleted is not looked for.
LossInv ==
    /\ deletions \subseteq unpushed \cup blind \cup core \cup Held
    /\ withdrawn \subseteq blind

\* While the connection is open everything the stream carried is on its way.
StreamInv ==
    conn = "open" =>
        published \subseteq unpushed \cup blind \cup core \cup Members(sending)
                              \cup Members(buf) \cup Members(raw) \cup Members(wire)

\* An event that is missing is not yet out of reach of the next gap-fill, and
\* on its way nothing is ahead of it that would put it there.
Missing == published \ (blind \cup core)
Beyond(u, v) == u + GapFillLookback <= v
Front(s, k) == {s[j] : j \in 1..(k - 1)}
InReach(u) ==
    /\ ~Beyond(u, maxLastUpdate)
    /\ \A v \in Members(sending) : Beyond(u, v) => u \in Members(sending)
    /\ \A v \in Members(buf) : Beyond(u, v) => u \in Members(sending) \cup Members(buf)
    /\ \A k \in DOMAIN raw : Beyond(u, raw[k]) =>
          u \in Members(sending) \cup Members(buf) \cup Front(raw, k)
    /\ \A k \in DOMAIN wire : Beyond(u, wire[k]) =>
          u \in Members(sending) \cup Members(buf) \cup Members(raw) \cup Front(wire, k)
ReachInv == pc # "sync" => \A u \in Missing : InReach(u)

IInv == TypeOK /\ StageInv /\ ClockInv /\ LossInv /\ SyncInv /\ StreamInv /\ ReachInv
-----------------------------------------------------------------------------
(* Sequences and the greatest of a set.                                    *)

\* An empty queue has no members.
LEMMA MembersEmpty == Members(<<>>) = {}
  BY DEF Members

\* A queue after a message has been put at its end.
LEMMA MembersAppend ==
  ASSUME NEW s \in Seq(Times), NEW x \in Times
  PROVE  /\ Append(s, x) \in Seq(Times) /\ Len(Append(s, x)) = Len(s) + 1
         /\ DOMAIN Append(s, x) = 1..(Len(s) + 1)
         /\ \A k \in 1..Len(s) : Append(s, x)[k] = s[k]
         /\ Append(s, x)[Len(s) + 1] = x
         /\ Members(Append(s, x)) = Members(s) \cup {x}
<1>1. /\ Append(s, x) \in Seq(Times) /\ Len(Append(s, x)) = Len(s) + 1
      /\ DOMAIN Append(s, x) = 1..(Len(s) + 1) /\ DOMAIN s = 1..Len(s) /\ Len(s) \in Nat
      /\ \A k \in 1..Len(s) : Append(s, x)[k] = s[k]
      /\ Append(s, x)[Len(s) + 1] = x
  BY AppendProperties, LenProperties
<1>2. Members(Append(s, x)) = Members(s) \cup {x}
  <2>1. ASSUME NEW y \in Members(Append(s, x)) PROVE y \in Members(s) \cup {x}
    <3>1. PICK k \in 1..(Len(s) + 1) : y = Append(s, x)[k]
      BY <1>1 DEF Members
    <3>2. CASE k \in 1..Len(s)
      BY <1>1, <3>1, <3>2 DEF Members
    <3>3. CASE k = Len(s) + 1
      BY <1>1, <3>1, <3>3
    <3> QED BY <1>1, <3>2, <3>3
  <2>2. ASSUME NEW y \in Members(s) PROVE y \in Members(Append(s, x))
    <3>1. PICK k \in 1..Len(s) : y = s[k]
      BY <1>1 DEF Members
    <3>2. k \in 1..(Len(s) + 1) /\ y = Append(s, x)[k]
      BY <1>1, <3>1
    <3> QED BY <1>1, <3>2 DEF Members
  <2>3. x \in Members(Append(s, x))
    <3>1. Len(s) + 1 \in 1..(Len(s) + 1)
      BY <1>1
    <3> QED BY <1>1, <3>1 DEF Members
  <2> QED BY <2>1, <2>2, <2>3
<1> QED BY <1>1, <1>2

\* A queue after its first message has been taken.
LEMMA MembersTail ==
  ASSUME NEW s \in Seq(Times), s # <<>>
  PROVE  /\ Head(s) \in Times /\ Tail(s) \in Seq(Times) /\ Len(Tail(s)) = Len(s) - 1
         /\ Len(s) \in Nat \ {0} /\ DOMAIN Tail(s) = 1..(Len(s) - 1) /\ DOMAIN s = 1..Len(s)
         /\ Head(s) = s[1] /\ \A k \in 1..(Len(s) - 1) : Tail(s)[k] = s[k + 1]
         /\ Members(s) = {Head(s)} \cup Members(Tail(s))
<1>1. /\ Head(s) \in Times /\ Tail(s) \in Seq(Times) /\ Len(Tail(s)) = Len(s) - 1
      /\ Len(s) \in Nat \ {0} /\ DOMAIN Tail(s) = 1..(Len(s) - 1) /\ DOMAIN s = 1..Len(s)
      /\ Head(s) = s[1]
  <2>1. Len(s) \in Nat /\ Len(s) # 0 /\ DOMAIN s = 1..Len(s)
    BY EmptySeq, LenProperties
  <2>2. Tail(s) \in Seq(Times) /\ Len(Tail(s)) = Len(s) - 1
    BY HeadTailProperties
  <2>3. DOMAIN Tail(s) = 1..Len(Tail(s))
    BY <2>2, LenProperties
  <2> QED BY <2>1, <2>2, <2>3, HeadTailProperties
<1>2. \A k \in 1..(Len(s) - 1) : Tail(s)[k] = s[k + 1]
  BY <1>1, HeadTailProperties
<1>3. Members(s) = {Head(s)} \cup Members(Tail(s))
  <2>1. ASSUME NEW y \in Members(s) PROVE y \in {Head(s)} \cup Members(Tail(s))
    <3>1. PICK k \in 1..Len(s) : y = s[k]
      BY <1>1 DEF Members
    <3>2. CASE k = 1
      BY <1>1, <3>1, <3>2
    <3>3. CASE k # 1
      <4>1. k - 1 \in 1..(Len(s) - 1) /\ (k - 1) + 1 = k
        BY <1>1, <3>3
      <4>2. y = Tail(s)[k - 1]
        BY <1>2, <3>1, <4>1
      <4> QED BY <1>1, <4>1, <4>2 DEF Members
    <3> QED BY <3>2, <3>3
  <2>2. ASSUME NEW y \in Members(Tail(s)) PROVE y \in Members(s)
    <3>1. PICK k \in 1..(Len(s) - 1) : y = Tail(s)[k]
      BY <1>1 DEF Members
    <3>2. k + 1 \in 1..Len(s) /\ y = s[k + 1]
      BY <1>1, <1>2, <3>1
    <3> QED BY <1>1, <3>2 DEF Members
  <2>3. Head(s) \in Members(s)
    <3>1. 1 \in DOMAIN s
      BY <1>1
    <3> QED BY <1>1, <3>1 DEF Members
  <2> QED BY <2>1, <2>2, <2>3
<1> QED BY <1>1, <1>2, <1>3

\* What is ahead of a message stays when another is put at the end.
LEMMA FrontAppend ==
  ASSUME NEW s \in Seq(Times), NEW x \in Times
  PROVE  /\ \A k \in 1..Len(s) : Front(Append(s, x), k) = Front(s, k)
         /\ Front(Append(s, x), Len(s) + 1) = Members(s)
<1>1. /\ Len(s) \in Nat /\ DOMAIN s = 1..Len(s)
      /\ \A k \in 1..Len(s) : Append(s, x)[k] = s[k]
  BY MembersAppend, LenProperties
<1>2. ASSUME NEW k \in 1..Len(s) PROVE Front(Append(s, x), k) = Front(s, k)
  <2>1. \A j \in 1..(k - 1) : Append(s, x)[j] = s[j]
    BY <1>1, <1>2
  <2> QED BY <2>1 DEF Front
<1>3. Front(Append(s, x), Len(s) + 1) = Members(s)
  <2>1. (Len(s) + 1) - 1 = Len(s)
    BY <1>1
  <2> QED BY <1>1, <2>1 DEF Front, Members
<1> QED BY <1>2, <1>3

\* What is ahead of a message when the first one is taken.
LEMMA FrontTail ==
  ASSUME NEW s \in Seq(Times), s # <<>>, NEW k \in 1..(Len(s) - 1)
  PROVE  Front(s, k + 1) = {Head(s)} \cup Front(Tail(s), k)
<1>1. /\ Len(s) \in Nat \ {0} /\ Head(s) = s[1]
      /\ \A j \in 1..(Len(s) - 1) : Tail(s)[j] = s[j + 1]
  BY MembersTail
<1>2. ASSUME NEW y \in Front(s, k + 1) PROVE y \in {Head(s)} \cup Front(Tail(s), k)
  <2>1. PICK j \in 1..k : y = s[j]
    BY <1>1 DEF Front
  <2>2. CASE j = 1
    BY <1>1, <2>1, <2>2
  <2>3. CASE j # 1
    <3>1. j - 1 \in 1..(k - 1) /\ j - 1 \in 1..(Len(s) - 1) /\ (j - 1) + 1 = j
      BY <1>1, <2>1, <2>3
    <3>2. y = Tail(s)[j - 1]
      BY <1>1, <2>1, <3>1
    <3> QED BY <3>1, <3>2 DEF Front
  <2> QED BY <2>2, <2>3
<1>3. ASSUME NEW y \in Front(Tail(s), k) PROVE y \in Front(s, k + 1)
  <2>1. PICK j \in 1..(k - 1) : y = Tail(s)[j]
    BY DEF Front
  <2>2. j + 1 \in 1..((k + 1) - 1) /\ y = s[j + 1]
    BY <1>1, <2>1
  <2> QED BY <2>2 DEF Front
<1>4. Head(s) \in Front(s, k + 1)
  <2>1. 1 \in 1..((k + 1) - 1)
    BY <1>1
  <2> QED BY <1>1, <2>1 DEF Front
<1> QED BY <1>2, <1>3, <1>4

\* A set of natural numbers has a least element.
LEMMA Least ==
  ASSUME NEW T \in SUBSET Nat, T # {}
  PROVE  \E x \in T : \A y \in T : x <= y
<1>1. PICK R : R = OpToRel(<, Nat)
  OBVIOUS
<1>2. IsWellFoundedOn(R, Nat)
  BY <1>1, NatLessThanWellFounded
<1>3. \A x, y \in Nat : y < x => <<y, x>> \in R
  BY <1>1 DEF OpToRel
<1>4. PICK x \in T : \A y \in T : ~ (<<y, x>> \in R)
  BY <1>2, WFMin
<1>5. \A y \in T : ~ (y < x)
  BY <1>3, <1>4
<1>6. \A y \in T : x <= y
  BY <1>5
<1> QED BY <1>6

\* Greatest is the greatest: the instants of a run are bounded by MaxTime.
LEMMA GreatestOf ==
  ASSUME NEW S \in SUBSET (0..MaxTime), S # {}
  PROVE  Greatest(S) \in S /\ \A u \in S : u <= Greatest(S)
<1> USE BoundsAssumption
<1> DEFINE T == {MaxTime - u : u \in S}
<1>1. T \in SUBSET Nat /\ T # {}
  <2>1. \A u \in S : MaxTime - u \in Nat
    OBVIOUS
  <2>2. PICK u \in S : TRUE
    OBVIOUS
  <2>3. MaxTime - u \in T
    BY <2>2
  <2> QED BY <2>1, <2>3
<1>2. PICK x \in T : \A y \in T : x <= y
  <2> HIDE DEF T
  <2> QED BY <1>1, Least
<1>3. PICK m \in S : x = MaxTime - m
  BY <1>2
<1>4. \A u \in S : u <= m
  <2> SUFFICES ASSUME NEW u \in S PROVE u <= m
    OBVIOUS
  <2>1. MaxTime - m <= MaxTime - u
    BY <1>2, <1>3
  <2> QED BY <2>1, <1>3
<1> QED BY <1>3, <1>4 DEF Greatest

\* maxLastUpdate after a batch.
LEMMA AdvanceOf ==
  ASSUME NEW S \in SUBSET Times, maxLastUpdate \in 0..MaxTime, Advance(S)
  PROVE  /\ maxLastUpdate' \in S \cup {maxLastUpdate} /\ maxLastUpdate' \in 0..MaxTime
         /\ maxLastUpdate <= maxLastUpdate' /\ \A u \in S : u <= maxLastUpdate'
<1>1. S \cup {maxLastUpdate} \in SUBSET (0..MaxTime) /\ S \cup {maxLastUpdate} # {}
  BY BoundsAssumption DEF Times
<1> QED BY <1>1, GreatestOf DEF Advance
-----------------------------------------------------------------------------
(* Types and stages.                                                       *)

USE SkewAssumption, SizesAssumption, GarbledAssumption, BoundsAssumption

\* Time passes, with a new event, with a deletion or with neither.
LEMMA PassOf ==
  ASSUME TypeOK, Tick \/ \E v \in Times : Delete(v)
  PROVE  \E new \in {{}, {clock'}} :
           /\ published' = published \cup new /\ unpushed' = unpushed \cup new
           /\ deletions' \subseteq deletions \cup new /\ deletions \subseteq deletions'
           /\ clock' = clock + 1 /\ clock < MaxTime /\ \A u \in unpushed : clock < u + Skew
           /\ blind \subseteq blind' /\ blind' \subseteq blind \cup published
           /\ withdrawn' \subseteq published /\ (withdrawn \subseteq blind => withdrawn' \subseteq blind')
           /\ UNCHANGED <<wire, pc, until, after, synced, conn, raw, buf, sending, maxLastUpdate,
                          core, drops, restarts, heard, posted>>
<1> USE DEF Pass, sync, live, log, bounds
<1>1. CASE Tick
  <2>1. PICK new \in {{}, {clock + 1}} : Pass(new)
    BY <1>1 DEF Tick
  <2>2. UNCHANGED <<deletions, withdrawn, blind>> /\ withdrawn \subseteq published
    BY <1>1 DEF Tick, TypeOK
  <2> QED BY <2>1, <2>2
<1>2. ASSUME NEW v \in Times, Delete(v)
      PROVE  /\ Pass({clock + 1}) /\ deletions' = deletions \cup {clock + 1} /\ v \in published
             /\ withdrawn' = withdrawn \cup {v} /\ blind' = blind \cup {v}
             /\ withdrawn \subseteq published
  BY <1>2 DEF Delete, TypeOK
<1>3. CASE \E v \in Times : Delete(v)
  BY <1>2, <1>3
<1> QED BY <1>1, <1>3

\* Every variable keeps its type.
LEMMA TypeNext == TypeOK /\ ClockInv /\ [Next]_vars => TypeOK'
<1> SUFFICES ASSUME TypeOK, ClockInv, [Next]_vars PROVE TypeOK'
  OBVIOUS
<1> USE DEF TypeOK, emsc, sync, live, log, bounds
<1>1. CASE Tick \/ \E v \in Times : Delete(v)
  <2>1. PICK new \in {{}, {clock'}} :
           /\ published' = published \cup new /\ unpushed' = unpushed \cup new
           /\ deletions' \subseteq deletions \cup new
           /\ clock' = clock + 1 /\ clock < MaxTime
           /\ blind' \subseteq blind \cup published /\ withdrawn' \subseteq published
           /\ UNCHANGED <<wire, pc, until, after, synced, conn, raw, buf, sending, maxLastUpdate,
                          core, drops, restarts, heard, posted>>
    BY <1>1, PassOf
  <2>2. clock' \in 0..MaxTime /\ clock' \in Times
    BY <2>1 DEF Times
  <2>3. /\ published' \subseteq Times /\ unpushed' \subseteq published'
        /\ deletions' \subseteq published' /\ withdrawn' \subseteq published'
        /\ published \subseteq published' /\ blind' \subseteq published'
        /\ synced' \subseteq published' /\ core' \subseteq published'
    BY <2>1, <2>2
  <2> QED BY <2>1, <2>2, <2>3
<1>2. ASSUME NEW u \in Times, Push(u) PROVE TypeOK'
  <2>1. wire' \in Seq(Times)
    BY <1>2, MembersAppend DEF Push
  <2> QED BY <1>2, <2>1 DEF Push
<1>3. ASSUME NEW P \in SUBSET published, SyncFails(P) PROVE TypeOK'
  BY <1>3 DEF SyncFails
<1>4. ASSUME NEW P \in SUBSET published, SyncPage(P) PROVE TypeOK'
  <2>1. maxLastUpdate' \in 0..MaxTime
    <3>1. P \in SUBSET Times /\ Advance(P)
      BY <1>4 DEF SyncPage
    <3> QED BY <3>1, AdvanceOf
  <2>2. heard' \in Seq(Times) /\ posted' \in Seq(Times)
    <3>1. \/ heard' = <<>> /\ posted' = <<>>
          \/ heard' = heard /\ posted' = posted
      BY <1>4 DEF SyncPage
    <3>2. <<>> \in Seq(Times)
      OBVIOUS
    <3> QED BY <3>1, <3>2
  <2>3. pc' \in {"sync", "live"} /\ conn' \in {"dial", "open", "closed"}
    BY <1>4 DEF SyncPage
  <2> QED BY <1>4, <2>1, <2>2, <2>3 DEF SyncPage
<1>5. CASE DialOk \/ Disconnect \/ RunLiveReturns
  <2>1. wire' \in Seq(Times)
    <3>1. wire' = wire \/ wire' = <<>>
      BY <1>5 DEF DialOk, Disconnect, RunLiveReturns
    <3>2. <<>> \in Seq(Times) /\ wire \in Seq(Times)
      OBVIOUS
    <3> QED BY ONLY <3>1, <3>2
  <2>2. DialOk => TypeOK'
    BY <2>1 DEF DialOk
  <2>3. Disconnect => TypeOK'
    BY <2>1 DEF Disconnect, Held
  <2>4. RunLiveReturns => TypeOK'
    BY <2>1 DEF RunLiveReturns
  <2> QED BY <1>5, <2>2, <2>3, <2>4
<1>6. CASE Read
  <2>1. /\ wire' \in Seq(Times) /\ raw' \in Seq(Times) /\ heard' \in Seq(Times)
        /\ Len(raw') <= LiveChannelSize
    <3>1. Head(wire) \in Times /\ Tail(wire) \in Seq(Times)
      BY <1>6, MembersTail DEF Read
    <3>2. Len(raw) \in Nat
      BY LenProperties
    <3> QED BY <1>6, <3>1, <3>2, MembersAppend DEF Read
  <2> QED BY <1>6, <2>1 DEF Read
<1>7. CASE ReadGarbled
  <2>1. wire' \in Seq(Times) /\ blind' \subseteq published
    <3>1. Tail(wire) \in Seq(Times) /\ Head(wire) \in Members(wire)
      BY <1>7, MembersTail DEF ReadGarbled
    <3> QED BY <1>7, <3>1 DEF ReadGarbled, ClockInv
  <2> QED BY <1>7, <2>1 DEF ReadGarbled
<1>8. CASE Collect
  <2>1. raw' \in Seq(Times) /\ Len(raw') <= LiveChannelSize
    <3>1. Tail(raw) \in Seq(Times) /\ Len(Tail(raw)) = Len(raw) - 1 /\ Len(raw) \in Nat
      BY <1>8, MembersTail DEF Collect
    <3> QED BY <1>8, <3>1 DEF Collect
  <2>2. buf' \in Seq(Times) /\ Len(buf') <= LiveBatchSize
    <3>1. Head(raw) \in Times /\ Len(buf) \in Nat
      BY <1>8, MembersTail, LenProperties DEF Collect
    <3> QED BY <1>8, <3>1, MembersAppend DEF Collect
  <2> QED BY <1>8, <2>1, <2>2 DEF Collect
<1>9. CASE Flush
  <2>1. sending' \in Seq(Times) /\ buf' \in Seq(Times) /\ Len(buf') <= LiveBatchSize
    BY <1>9 DEF Flush
  <2> QED BY <1>9, <2>1 DEF Flush
<1>10. CASE SendOk
  <2>1. maxLastUpdate' \in 0..MaxTime
    <3>1. Members(sending) \in SUBSET Times /\ Advance(Members(sending))
      BY <1>10 DEF SendOk, Members
    <3> QED BY <3>1, AdvanceOf
  <2>2. posted' \in Seq(Times) /\ sending' \in Seq(Times)
    BY <1>10 DEF SendOk
  <2>3. core' \subseteq published
    BY <1>10 DEF SendOk, ClockInv
  <2> QED BY <1>10, <2>1, <2>2, <2>3 DEF SendOk
<1>11. CASE SendFails
  BY <1>11 DEF SendFails, ClockInv
<1>12. CASE GapFill
  BY <1>12 DEF GapFill, GapFillUpdatedAfter
<1>13. CASE Restart
  BY <1>13 DEF Restart
<1>14. CASE UNCHANGED vars
  BY <1>14 DEF vars
<1> QED BY <1>1, <1>2, <1>3, <1>4, <1>5, <1>6, <1>7, <1>8, <1>9, <1>10, <1>11, <1>12,
           <1>13, <1>14 DEF Next

\* Outside runLive the pipeline is empty.
LEMMA StageNext == TypeOK /\ StageInv /\ [Next]_vars => StageInv'
<1> SUFFICES ASSUME TypeOK, StageInv, [Next]_vars PROVE StageInv'
  OBVIOUS
<1> USE DEF StageInv, Idle, emsc, sync, live, log, bounds
<1>1. CASE Tick \/ \E v \in Times : Delete(v)
  BY <1>1, PassOf
<1>2. ASSUME NEW u \in Times, Push(u) PROVE StageInv'
  BY <1>2 DEF Push
<1>3. ASSUME NEW P \in SUBSET published, SyncFails(P) \/ SyncPage(P) PROVE StageInv'
  BY <1>3 DEF SyncFails, SyncPage
<1>4. CASE DialOk \/ Disconnect \/ RunLiveReturns
  BY <1>4 DEF DialOk, Disconnect, RunLiveReturns
<1>5. CASE Read
  BY <1>5 DEF Read
<1>6. CASE ReadGarbled
  BY <1>6 DEF ReadGarbled
<1>7. CASE Collect
  BY <1>7 DEF Collect
<1>8. CASE Flush
  BY <1>8 DEF Flush
<1>9. CASE SendOk \/ SendFails
  BY <1>9 DEF SendOk, SendFails
<1>10. CASE GapFill
  BY <1>10 DEF GapFill
<1>11. CASE Restart
  BY <1>11 DEF Restart
<1>12. CASE UNCHANGED vars
  BY <1>12 DEF vars
<1> QED BY <1>1, <1>2, <1>3, <1>4, <1>5, <1>6, <1>7, <1>8, <1>9, <1>10, <1>11, <1>12
        DEF Next
-----------------------------------------------------------------------------
(* The order of the live pipeline.                                         *)

\* A message that joins the last of two queues.
LEMMA JoinsLast ==
  ASSUME NEW s \in Seq(Times), NEW t \in Seq(Times), NEW x \in Times
  PROVE  s \o Append(t, x) = Append(s \o t, x)
<1>1. s \o t \in Seq(Times) /\ <<x>> \in Seq(Times)
  BY ConcatProperties
<1>2. Append(t, x) = t \o <<x>>
  BY AppendIsConcat
<1>3. Append(s \o t, x) = (s \o t) \o <<x>>
  BY <1>1, AppendIsConcat
<1>4. (s \o t) \o <<x>> = s \o (t \o <<x>>)
  BY <1>1, ConcatAssociative
<1> QED BY <1>2, <1>3, <1>4

\* A message that moves from the head of one queue to the end of the one before.
LEMMA MovesAhead ==
  ASSUME NEW s \in Seq(Times), NEW t \in Seq(Times), t # <<>>
  PROVE  Append(s, Head(t)) \o Tail(t) = s \o t
<1>1. /\ Head(t) \in Times /\ Tail(t) \in Seq(Times) /\ Len(Tail(t)) = Len(t) - 1
      /\ Len(t) \in Nat \ {0} /\ Head(t) = t[1]
      /\ \A k \in 1..(Len(t) - 1) : Tail(t)[k] = t[k + 1]
  BY MembersTail
<1>2. PICK a \in Seq(Times) : a = Append(s, Head(t))
  BY <1>1, MembersAppend
<1>3. /\ Len(a) = Len(s) + 1 /\ a[Len(s) + 1] = Head(t) /\ Len(s) \in Nat
      /\ \A k \in 1..Len(s) : a[k] = s[k]
  BY <1>1, <1>2, MembersAppend, LenProperties
<1>4. PICK b \in Seq(Times) : b = Tail(t)
  BY <1>1
<1>5. /\ a \o b \in Seq(Times) /\ Len(a \o b) = Len(a) + Len(b)
      /\ \A i \in 1..(Len(a) + Len(b)) : (a \o b)[i] = IF i <= Len(a) THEN a[i] ELSE b[i - Len(a)]
  BY ConcatProperties
<1>6. /\ s \o t \in Seq(Times) /\ Len(s \o t) = Len(s) + Len(t)
      /\ \A i \in 1..(Len(s) + Len(t)) : (s \o t)[i] = IF i <= Len(s) THEN s[i] ELSE t[i - Len(s)]
  BY ConcatProperties
<1>7. Len(a) + Len(b) = Len(s) + Len(t)
  BY <1>1, <1>3, <1>4
<1>8. ASSUME NEW i \in 1..(Len(s) + Len(t)) PROVE (a \o b)[i] = (s \o t)[i]
  <2>1. CASE i <= Len(s)
    BY <1>1, <1>3, <1>5, <1>6, <1>7, <2>1
  <2>2. CASE i = Len(s) + 1
    <3>1. (a \o b)[i] = a[i]
      BY <1>3, <1>5, <1>7, <2>2
    <3>2. (s \o t)[i] = t[i - Len(s)]
      BY <1>3, <1>6, <2>2
    <3>3. i - Len(s) = 1
      BY <1>3, <2>2
    <3>4. (s \o t)[i] = t[1]
      BY <3>2, <3>3
    <3>5. a[i] = t[1]
      BY <1>1, <1>3, <2>2
    <3> QED BY <3>1, <3>4, <3>5
  <2>3. CASE i > Len(s) + 1
    <3>1. (a \o b)[i] = b[i - (Len(s) + 1)]
      BY <1>1, <1>3, <1>5, <1>7, <2>3
    <3>2. i - (Len(s) + 1) \in 1..(Len(t) - 1) /\ (i - (Len(s) + 1)) + 1 = i - Len(s)
      BY <1>1, <1>3, <2>3
    <3>3. (s \o t)[i] = t[i - Len(s)]
      BY <1>1, <1>3, <1>6, <2>3
    <3> QED BY <1>1, <1>4, <3>1, <3>2, <3>3
  <2>4. i <= Len(s) \/ i = Len(s) + 1 \/ i > Len(s) + 1
    BY <1>1, <1>3
  <2> QED BY <2>1, <2>2, <2>3, <2>4
<1>9. a \o b = s \o t
  BY <1>5, <1>6, <1>7, <1>8, SeqEqual
<1> QED BY <1>2, <1>4, <1>9

\* No step drops or reorders a message between the socket and the core.
LEMMA OrderNext == TypeOK /\ StageInv /\ LiveInOrder /\ [Next]_vars => LiveInOrder'
<1> SUFFICES ASSUME TypeOK, StageInv, LiveInOrder, [Next]_vars PROVE LiveInOrder'
  OBVIOUS
<1> USE DEF LiveInOrder, emsc, sync, live, log, bounds
<1> DEFINE ps == posted \o sending
           psb == ps \o buf
<1>1. ps \in Seq(Times) /\ psb \in Seq(Times)
  BY ConcatProperties DEF TypeOK
<1>2. /\ \A s \in Seq(Times) : s \o <<>> = s /\ <<>> \o s = s
      /\ <<>> \o <<>> = <<>>
  <2>1. <<>> \in Seq(Times)
    OBVIOUS
  <2> QED BY <2>1, ConcatEmptySeq
<1>3. CASE UNCHANGED <<heard, posted, sending, buf, raw>>
  BY <1>3
<1>4. ASSUME heard' = <<>>, posted' = <<>>, sending' = <<>>, buf' = <<>>, raw' = <<>>
      PROVE  LiveInOrder'
  BY <1>2, <1>4
<1>5. ASSUME NEW P \in SUBSET published, SyncPage(P) PROVE LiveInOrder'
  <2>1. sending = <<>> /\ buf = <<>> /\ raw = <<>> /\ UNCHANGED <<raw, buf, sending>>
    BY <1>5 DEF SyncPage, StageInv, Idle
  <2>2. (heard' = <<>> /\ posted' = <<>>) \/ UNCHANGED <<heard, posted>>
    BY <1>5 DEF SyncPage
  <2> QED BY <1>3, <1>4, <2>1, <2>2
<1>6. CASE Read
  <2>1. /\ heard' = Append(heard, Head(wire)) /\ raw' = Append(raw, Head(wire))
        /\ UNCHANGED <<posted, sending, buf>> /\ raw \in Seq(Times) /\ heard = psb \o raw
    BY <1>6 DEF Read, TypeOK
  <2>2. Head(wire) \in Times
    BY <1>6, MembersTail DEF Read, TypeOK
  <2>3. psb \o Append(raw, Head(wire)) = Append(psb \o raw, Head(wire))
    <3> HIDE DEF psb
    <3> QED BY <1>1, <2>1, <2>2, JoinsLast
  <2> QED BY <2>1, <2>3
<1>7. CASE Collect
  <2>1. /\ raw # <<>> /\ raw' = Tail(raw) /\ buf' = Append(buf, Head(raw))
        /\ UNCHANGED <<posted, sending, heard>> /\ buf \in Seq(Times) /\ raw \in Seq(Times)
        /\ heard = psb \o raw
    BY <1>7 DEF Collect, TypeOK
  <2>2. Head(raw) \in Times
    BY <2>1, MembersTail
  <2>3. ps \o Append(buf, Head(raw)) = Append(psb, Head(raw))
    <3> HIDE DEF ps
    <3> QED BY <1>1, <2>1, <2>2, JoinsLast
  <2>4. Append(psb, Head(raw)) \o Tail(raw) = psb \o raw
    <3> HIDE DEF psb
    <3> QED BY <1>1, <2>1, MovesAhead
  <2> QED BY <2>1, <2>3, <2>4
<1>8. CASE Flush
  <2>1. /\ sending = <<>> /\ sending' = buf /\ buf' = <<>> /\ UNCHANGED <<posted, raw, heard>>
        /\ posted \in Seq(Times) /\ buf \in Seq(Times)
    BY <1>8 DEF Flush, TypeOK
  <2>2. ps = posted /\ posted \o buf \in Seq(Times)
    BY <1>2, <2>1, ConcatProperties
  <2>3. (posted \o buf) \o <<>> = posted \o buf
    BY <1>2, <2>2
  <2> QED BY <2>1, <2>2, <2>3
<1>9. CASE SendOk
  <2>1. posted' = ps /\ sending' = <<>> /\ UNCHANGED <<heard, buf, raw>>
    BY <1>9 DEF SendOk
  <2>2. ps \o <<>> = ps
    <3> HIDE DEF ps
    <3> QED BY <1>1, <1>2
  <2> QED BY <2>1, <2>2
<1>10. CASE Restart
  BY <1>4, <1>10 DEF Restart
<1>11. CASE (\E u \in Times : Push(u)) \/ (\E P \in SUBSET published : SyncFails(P))
  BY <1>3, <1>11 DEF Push, SyncFails
<1>14. CASE Tick \/ \E v \in Times : Delete(v)
  BY <1>3, <1>14, PassOf
<1>12. CASE DialOk \/ Disconnect \/ ReadGarbled \/ SendFails \/ RunLiveReturns \/ GapFill
  BY <1>3, <1>12 DEF DialOk, Disconnect, ReadGarbled, SendFails, RunLiveReturns, GapFill
<1>13. CASE UNCHANGED vars
  BY <1>3, <1>13 DEF vars
<1> QED BY <1>5, <1>6, <1>7, <1>8, <1>9, <1>10, <1>11, <1>12, <1>13, <1>14 DEF Next
-----------------------------------------------------------------------------
(* What a step does to the members of the pipeline.                        *)

\* A message that moves from the head of t to the end of s.
LEMMA Moves ==
  ASSUME NEW s \in Seq(Times), NEW t \in Seq(Times), t # <<>>
  PROVE  /\ Head(t) \in Times /\ Members(t) = {Head(t)} \cup Members(Tail(t))
         /\ Members(Append(s, Head(t))) = Members(s) \cup {Head(t)}
<1>1. Head(t) \in Times /\ Members(t) = {Head(t)} \cup Members(Tail(t))
  BY MembersTail
<1> QED BY <1>1, MembersAppend

\* What is on its way has been published, and nothing is dated after the clock.
LEMMA ClockNext == TypeOK /\ ClockInv /\ [Next]_vars => ClockInv'
<1> SUFFICES ASSUME TypeOK, ClockInv, [Next]_vars PROVE ClockInv'
  OBVIOUS
<1> USE DEF emsc, sync, live, log, bounds
<1> DEFINE InPipe == Members(sending) \cup Members(buf) \cup Members(raw) \cup Members(wire)
<1>1. /\ clock \in Nat /\ published \subseteq 1..clock /\ until <= clock /\ until \in Nat
      /\ after \in Nat /\ after <= until
      /\ maxLastUpdate \in Nat /\ maxLastUpdate <= clock /\ unpushed \subseteq published
      /\ \A u \in unpushed : clock <= u + Skew
      /\ InPipe \subseteq published
  BY DEF TypeOK, ClockInv
<1>2. ASSUME UNCHANGED <<clock, published, after, until, maxLastUpdate>>,
             unpushed' \subseteq unpushed, InPipe' \subseteq published
      PROVE  ClockInv'
  BY <1>1, <1>2 DEF ClockInv
<1>3. ASSUME UNCHANGED <<clock, published, unpushed, maxLastUpdate>>, after' <= clock,
             until' = clock, InPipe' \subseteq published
      PROVE  ClockInv'
  BY <1>1, <1>3 DEF ClockInv
<1>4. CASE Tick \/ \E v \in Times : Delete(v)
  <2>1. PICK new \in {{}, {clock'}} : /\ published' = published \cup new
                                      /\ unpushed' = unpushed \cup new
    BY <1>4, PassOf
  <2>2. /\ clock' = clock + 1 /\ UNCHANGED <<after, until, maxLastUpdate, sending, buf, raw, wire>>
        /\ \A u \in unpushed : clock < u + Skew
    BY <1>4, PassOf
  <2>3. /\ published' \subseteq 1..clock' /\ after' <= until' /\ until' <= clock'
        /\ maxLastUpdate' <= clock'
    <3>1. 1..clock \subseteq 1..clock' /\ clock' \in 1..clock'
      BY <1>1, <2>2
    <3>2. published' \subseteq 1..clock'
      BY <1>1, <2>1, <3>1
    <3>3. after' <= until' /\ until' <= clock' /\ maxLastUpdate' <= clock'
      BY <1>1, <2>2
    <3> QED BY <3>2, <3>3
  <2>4. \A u \in unpushed' : clock' <= u + Skew
    BY <1>1, <2>1, <2>2
  <2>5. InPipe' \subseteq published'
    BY <1>1, <2>1, <2>2
  <2> QED BY <2>3, <2>4, <2>5 DEF ClockInv
<1>5. ASSUME NEW u \in Times, Push(u) PROVE ClockInv'
  <2>1. /\ UNCHANGED <<clock, published, after, until, maxLastUpdate, sending, buf, raw>>
        /\ unpushed' \subseteq unpushed /\ u \in published
    BY <1>5, <1>1 DEF Push
  <2>2. Members(wire)' \subseteq Members(wire) \cup {u}
    <3>1. wire' = wire \/ wire' = Append(wire, u)
      BY <1>5 DEF Push
    <3>2. Members(Append(wire, u)) = Members(wire) \cup {u}
      BY MembersAppend DEF TypeOK
    <3> QED BY <3>1, <3>2
  <2> QED BY <1>1, <1>2, <2>1, <2>2
<1>6. ASSUME NEW P \in SUBSET published, SyncFails(P) PROVE ClockInv'
  BY <1>1, <1>2, <1>6 DEF SyncFails
<1>7. ASSUME NEW P \in SUBSET published, SyncPage(P) PROVE ClockInv'
  <2>1. P \in SUBSET Times /\ Advance(P) /\ maxLastUpdate \in 0..MaxTime
    BY <1>7 DEF SyncPage, TypeOK
  <2>2. maxLastUpdate' \in P \cup {maxLastUpdate}
    BY <2>1, AdvanceOf
  <2>3. maxLastUpdate' <= clock
    BY <1>1, <2>2
  <2>4. UNCHANGED <<clock, published, unpushed, after, until, sending, buf, raw, wire>>
    BY <1>7 DEF SyncPage
  <2> QED BY <1>1, <2>3, <2>4 DEF ClockInv
<1>8. CASE DialOk \/ RunLiveReturns
  BY <1>1, <1>2, <1>8 DEF DialOk, RunLiveReturns
<1>9. CASE Disconnect
  BY <1>1, <1>2, <1>9, MembersEmpty DEF Disconnect
<1>10. CASE Read
  <2>1. /\ wire \in Seq(Times) /\ wire # <<>> /\ wire' = Tail(wire) /\ raw \in Seq(Times)
        /\ raw' = Append(raw, Head(wire))
        /\ UNCHANGED <<clock, published, after, until, maxLastUpdate, unpushed, sending, buf>>
    BY <1>10 DEF Read, TypeOK
  <2>2. /\ Members(wire) = {Head(wire)} \cup Members(Tail(wire))
        /\ Members(Append(raw, Head(wire))) = Members(raw) \cup {Head(wire)}
    BY <2>1, Moves
  <2> QED BY <1>1, <1>2, <2>1, <2>2
<1>11. CASE ReadGarbled
  <2>1. /\ wire \in Seq(Times) /\ wire # <<>> /\ wire' = Tail(wire)
        /\ UNCHANGED <<clock, published, after, until, maxLastUpdate, unpushed, sending, buf, raw>>
    BY <1>11 DEF ReadGarbled, TypeOK
  <2>2. Members(wire) = {Head(wire)} \cup Members(Tail(wire))
    BY <2>1, MembersTail
  <2> QED BY <1>1, <1>2, <2>1, <2>2
<1>12. CASE Collect
  <2>1. /\ raw \in Seq(Times) /\ raw # <<>> /\ raw' = Tail(raw) /\ buf \in Seq(Times)
        /\ buf' = Append(buf, Head(raw))
        /\ UNCHANGED <<clock, published, after, until, maxLastUpdate, unpushed, sending, wire>>
    BY <1>12 DEF Collect, TypeOK
  <2>2. /\ Members(raw) = {Head(raw)} \cup Members(Tail(raw))
        /\ Members(Append(buf, Head(raw))) = Members(buf) \cup {Head(raw)}
    BY <2>1, Moves
  <2> QED BY <1>1, <1>2, <2>1, <2>2
<1>13. CASE Flush
  BY <1>1, <1>2, <1>13, MembersEmpty DEF Flush
<1>14. CASE SendOk
  <2>1. /\ Members(sending) \in SUBSET Times /\ Advance(Members(sending))
        /\ maxLastUpdate \in 0..MaxTime
    BY <1>1, <1>14 DEF SendOk, TypeOK
  <2>2. maxLastUpdate' \in Members(sending) \cup {maxLastUpdate}
    BY <2>1, AdvanceOf
  <2>3. maxLastUpdate' <= clock
    <3>1. maxLastUpdate' \in published \cup {maxLastUpdate}
      BY <1>1, <2>2
    <3>2. \A u \in published : u <= clock
      BY <1>1
    <3> QED BY ONLY <1>1, <3>1, <3>2
  <2>4. UNCHANGED <<clock, published, unpushed, after, until, buf, raw, wire>> /\ sending' = <<>>
    BY <1>14 DEF SendOk
  <2> QED BY <1>1, <2>3, <2>4, MembersEmpty DEF ClockInv
<1>15. CASE SendFails
  BY <1>1, <1>2, <1>15 DEF SendFails
<1>16. CASE GapFill
  <2>1. after' <= clock
    BY <1>1, <1>16 DEF GapFill, GapFillUpdatedAfter
  <2> QED BY <1>1, <1>3, <1>16, <2>1 DEF GapFill
<1>17. CASE Restart
  <2>1. /\ UNCHANGED <<clock, published, unpushed>> /\ until' = clock /\ after' = 0
        /\ maxLastUpdate' = 0
        /\ wire' = <<>> /\ raw' = <<>> /\ buf' = <<>> /\ sending' = <<>>
    BY <1>17 DEF Restart
  <2> QED BY <1>1, <2>1, MembersEmpty DEF ClockInv
<1>18. CASE UNCHANGED vars
  BY <1>1, <1>2, <1>18 DEF vars
<1> QED BY <1>4, <1>5, <1>6, <1>7, <1>8, <1>9, <1>10, <1>11, <1>12, <1>13, <1>14, <1>15,
           <1>16, <1>17, <1>18 DEF Next
\* What a sync leaves to the stream and what it has brought.
LEMMA SyncNext ==
  TypeOK /\ StageInv /\ ClockInv /\ LossInv /\ SyncInv /\ ReachInv /\ [Next]_vars => SyncInv'
<1> SUFFICES ASSUME TypeOK, StageInv, ClockInv, LossInv, SyncInv, ReachInv, [Next]_vars
             PROVE  SyncInv'
  OBVIOUS
<1> USE DEF emsc, sync, live, log, bounds
<1>1. ASSUME UNCHANGED <<published, deletions, until, after, synced>>, core \subseteq core',
             blind \subseteq blind', pc' = "sync" => pc = "sync", pc = "sync" => pc' = "sync",
             conn' = "dial" => conn = "dial",
             pc = "sync" \/ conn = "dial" =>
                 \A w \in unpushed : w > until => w \in unpushed' \cup blind'
      PROVE  SyncInv'
  <2>1. synced' \subseteq core'
    BY <1>1 DEF SyncInv
  <2>2. ASSUME pc' = "sync" \/ conn' = "dial", NEW u \in published', u > until'
        PROVE  u \in unpushed' \cup blind'
    BY <1>1, <2>2 DEF SyncInv
  <2>3. ASSUME pc' = "sync", NEW u \in (published \ blind)', u <= after' PROVE u \in core'
    BY <1>1, <2>3 DEF SyncInv
  <2>4. ASSUME pc' # "sync", NEW u \in (published \ (blind \cup deletions))', u <= until'
        PROVE  u \in core'
    BY <1>1, <2>4 DEF SyncInv
  <2> QED BY <2>1, <2>2, <2>3, <2>4 DEF SyncInv
<1>2. CASE Tick \/ \E v \in Times : Delete(v)
  <2>1. PICK new \in {{}, {clock'}} : /\ published' = published \cup new
                                      /\ unpushed' = unpushed \cup new
    BY <1>2, PassOf
  <2>2. /\ clock' = clock + 1 /\ blind \subseteq blind' /\ deletions \subseteq deletions'
        /\ UNCHANGED <<pc, conn, until, after, synced, core>>
    BY <1>2, PassOf
  <2>3. after < clock' /\ until < clock'
    BY <2>2 DEF TypeOK, ClockInv
  <2>4. /\ published' \subseteq published \cup {clock'}
        /\ \A u \in published' : u \in published \/ (u = clock' /\ u \in unpushed')
    BY <2>1
  <2>5. until \in Int /\ after \in Int /\ clock' \in Int
    BY <2>2 DEF TypeOK
  <2>6. ASSUME pc' = "sync" \/ conn' = "dial", NEW u \in published', u > until'
        PROVE  u \in unpushed' \cup blind'
    BY <2>1, <2>2, <2>4, <2>6 DEF SyncInv
  <2>7. ASSUME pc' = "sync", NEW u \in (published \ blind)', u <= after' PROVE u \in core'
    <3>1. u \in published
      BY <2>2, <2>3, <2>4, <2>5, <2>7
    <3> QED BY <2>2, <2>7, <3>1 DEF SyncInv
  <2>8. ASSUME pc' # "sync", NEW u \in (published \ (blind \cup deletions))', u <= until'
        PROVE  u \in core'
    <3>1. u \in published
      BY <2>2, <2>3, <2>4, <2>5, <2>8
    <3> QED BY <2>2, <2>8, <3>1 DEF SyncInv
  <2>9. synced' \subseteq core'
    BY <2>2 DEF SyncInv
  <2> QED BY <2>6, <2>7, <2>8, <2>9 DEF SyncInv
<1>3. ASSUME NEW u \in Times, Push(u) PROVE SyncInv'
  <2>1. /\ UNCHANGED <<published, deletions, until, after, synced, core, pc, conn>>
        /\ blind \subseteq blind' /\ unpushed' = unpushed \ {u}
        /\ u > until /\ (pc = "sync" \/ conn = "dial") => u \in blind'
    BY <1>3 DEF Push
  <2> QED BY <1>1, <2>1
<1>4. ASSUME NEW P \in SUBSET published, SyncFails(P) PROVE SyncInv'
  BY <1>1, <1>4 DEF SyncFails
<1>5. ASSUME NEW P \in SUBSET published, SyncPage(P) PROVE SyncInv'
  <2>1. /\ pc = "sync" /\ core' = core \cup P /\ synced' = synced \cup P
        /\ UNCHANGED <<published, unpushed, deletions, blind, until, after>>
    BY <1>5 DEF SyncPage
  <2>2. synced' \subseteq core'
    BY <2>1 DEF SyncInv
  <2>3. \A u \in published' : u > until' => u \in unpushed' \cup blind'
    BY <2>1 DEF SyncInv
  <2>4. \A u \in (published \ blind)' : u <= after' => u \in core'
    BY <2>1 DEF SyncInv
  <2>5. ASSUME pc' # "sync", NEW u \in (published \ (blind \cup deletions))', u <= until'
        PROVE  u \in core'
    <3>1. Due \subseteq synced \cup P
      BY <1>5, <2>1, <2>5 DEF SyncPage, Page
    <3>2. CASE u <= after
      BY <2>1, <2>4, <3>2
    <3>3. CASE ~(u <= after)
      <4>1. u \in published /\ u \in Nat /\ after \in Nat
        BY <2>1 DEF TypeOK, Times
      <4>2. u \in Due
        BY <2>1, <2>5, <3>3, <4>1 DEF Due, Rows, LossInv
      <4> QED BY <2>1, <2>2, <3>1, <4>2
    <3> QED BY <3>2, <3>3
  <2> QED BY <2>2, <2>3, <2>4, <2>5 DEF SyncInv
<1>6. CASE DialOk
  BY <1>1, <1>6 DEF DialOk
<1>7. CASE Disconnect
  BY <1>1, <1>7 DEF Disconnect
<1>8. CASE Read
  BY <1>1, <1>8 DEF Read
<1>9. CASE ReadGarbled
  BY <1>1, <1>9 DEF ReadGarbled
<1>10. CASE Collect \/ Flush
  BY <1>1, <1>10 DEF Collect, Flush
<1>11. CASE SendOk
  BY <1>1, <1>11 DEF SendOk
<1>12. CASE SendFails
  BY <1>1, <1>12 DEF SendFails
<1>13. CASE RunLiveReturns
  BY <1>1, <1>13 DEF RunLiveReturns
<1>14. CASE GapFill
  <2>1. /\ pc = "pause" /\ pc' = "sync" /\ synced' = {} /\ until' = clock
        /\ after' = GapFillUpdatedAfter /\ UNCHANGED <<published, unpushed, blind, core>>
    BY <1>14 DEF GapFill
  <2>2. \A u \in published : u \in 1..clock
    BY DEF ClockInv
  <2>3. \A u \in published' : ~(u > until')
    <3>1. clock \in Nat
      BY DEF TypeOK
    <3> QED BY <2>1, <2>2, <3>1
  <2>4. ASSUME NEW u \in (published \ blind)', u <= after' PROVE u \in core'
    <3>1. u \in Nat \ {0} /\ clock \in Nat /\ maxLastUpdate \in Nat
      BY <2>1, <2>2 DEF TypeOK
    <3>2. Beyond(u, maxLastUpdate)
      BY <2>1, <2>4, <3>1 DEF GapFillUpdatedAfter, Beyond
    <3>3. u \notin Missing
      BY <2>1, <3>2 DEF ReachInv, InReach
    <3> QED BY <2>1, <3>3 DEF Missing
  <2> QED BY <2>1, <2>3, <2>4 DEF SyncInv
<1>15. CASE Restart
  <2>1. /\ pc' = "sync" /\ synced' = {} /\ until' = clock /\ after' = 0
        /\ UNCHANGED <<published, unpushed, core>>
    BY <1>15 DEF Restart
  <2>2. \A u \in published : u \in 1..clock
    BY DEF ClockInv
  <2>3. clock \in Nat
    BY DEF TypeOK
  <2>4. \A u \in published' : ~(u > until') /\ ~(u <= after')
    BY <2>1, <2>2, <2>3
  <2> QED BY <2>1, <2>4 DEF SyncInv
<1>16. CASE UNCHANGED vars
  BY <1>1, <1>16 DEF vars
<1> QED BY <1>2, <1>3, <1>4, <1>5, <1>6, <1>7, <1>8, <1>9, <1>10, <1>11, <1>12, <1>13, <1>14,
           <1>15, <1>16 DEF Next
\* No deletion gets lost unnoticed.
LEMMA LossNext == TypeOK /\ LossInv /\ [Next]_vars => LossInv'
<1> SUFFICES ASSUME TypeOK, LossInv, [Next]_vars PROVE LossInv'
  OBVIOUS
<1> USE DEF emsc, sync, live, log, bounds
<1> DEFINE Known == unpushed \cup blind \cup core \cup Held
<1>1. ASSUME UNCHANGED <<deletions, withdrawn>>, blind \subseteq blind',
             deletions \cap Known \subseteq Known'
      PROVE  LossInv'
  BY <1>1 DEF LossInv
<1>2. CASE Tick \/ \E v \in Times : Delete(v)
  <2>1. PICK new \in {{}, {clock'}} :
           /\ unpushed' = unpushed \cup new /\ deletions' \subseteq deletions \cup new
           /\ blind \subseteq blind' /\ (withdrawn \subseteq blind => withdrawn' \subseteq blind')
           /\ UNCHANGED <<core, sending, buf, raw, wire>>
    BY <1>2, PassOf
  <2>2. Held' = Held
    BY <2>1 DEF Held
  <2> QED BY <2>1, <2>2 DEF LossInv
<1>3. ASSUME NEW u \in Times, Push(u) PROVE LossInv'
  <2>1. /\ UNCHANGED <<deletions, withdrawn, core, sending, buf, raw>> /\ blind \subseteq blind'
        /\ unpushed' = unpushed \ {u}
        /\ IF conn = "open" THEN wire' = Append(wire, u)
           ELSE wire' = wire /\ (u \in deletions => u \in blind')
    BY <1>3 DEF Push
  <2>2. Members(Append(wire, u)) = Members(wire) \cup {u}
    BY MembersAppend DEF TypeOK
  <2>3. Members(wire) \subseteq Members(wire') /\ (conn = "open" => u \in Members(wire'))
    BY <2>1, <2>2
  <2>4. Held \subseteq Held' /\ (conn = "open" => u \in Held')
    BY <2>1, <2>3 DEF Held
  <2>5. deletions \cap Known \subseteq Known'
    BY <2>1, <2>4
  <2> QED BY <1>1, <2>1, <2>5
<1>4. ASSUME UNCHANGED <<deletions, withdrawn, unpushed>>, blind \subseteq blind',
             core \subseteq core', Held \subseteq Held' \cup blind' \cup core'
      PROVE  LossInv'
  BY <1>1, <1>4
<1>5. ASSUME NEW P \in SUBSET published, SyncFails(P) \/ SyncPage(P) PROVE LossInv'
  <2>1. /\ UNCHANGED <<deletions, withdrawn, unpushed, blind, sending, buf, raw, wire>>
        /\ core \subseteq core'
    BY <1>5 DEF SyncFails, SyncPage
  <2> QED BY <1>4, <2>1 DEF Held
<1>6. CASE DialOk \/ RunLiveReturns \/ GapFill \/ UNCHANGED vars
  <2>1. UNCHANGED <<deletions, withdrawn, unpushed, blind, core, sending, buf, raw, wire>>
    BY <1>6 DEF DialOk, RunLiveReturns, GapFill, vars
  <2> QED BY <1>4, <2>1 DEF Held
<1>7. CASE Disconnect
  <2>1. /\ UNCHANGED <<deletions, withdrawn, unpushed, core, sending, buf, raw>>
        /\ blind' = blind \cup (deletions \cap Members(wire))
    BY <1>7 DEF Disconnect
  <2>2. deletions \cap Held \subseteq Held' \cup blind'
    BY <2>1 DEF Held
  <2>3. deletions \cap Known \subseteq Known'
    BY <2>1, <2>2
  <2> QED BY <1>1, <2>1, <2>3
<1>8. CASE Restart
  <2>1. /\ UNCHANGED <<deletions, withdrawn, unpushed, core>>
        /\ blind' = blind \cup ((deletions \cap Held) \ core)
    BY <1>8 DEF Restart
  <2>2. deletions \cap Known \subseteq Known'
    BY <2>1
  <2> QED BY <1>1, <2>1, <2>2
<1>9. CASE Read \/ ReadGarbled
  <2>1. /\ wire \in Seq(Times) /\ wire # <<>> /\ wire' = Tail(wire) /\ raw \in Seq(Times)
        /\ \/ raw' = Append(raw, Head(wire)) /\ blind' = blind
           \/ raw' = raw /\ blind' = blind \cup {Head(wire)}
        /\ UNCHANGED <<deletions, withdrawn, unpushed, core, sending, buf>>
    BY <1>9 DEF Read, ReadGarbled, TypeOK
  <2>2. /\ Members(wire) = {Head(wire)} \cup Members(Tail(wire))
        /\ Members(Append(raw, Head(wire))) = Members(raw) \cup {Head(wire)}
    BY <2>1, Moves
  <2>3. Held \subseteq Held' \cup blind'
    BY <2>1, <2>2 DEF Held
  <2> QED BY <1>4, <2>1, <2>3
<1>10. CASE Collect
  <2>1. /\ raw \in Seq(Times) /\ raw # <<>> /\ raw' = Tail(raw) /\ buf \in Seq(Times)
        /\ buf' = Append(buf, Head(raw))
        /\ UNCHANGED <<deletions, withdrawn, unpushed, blind, core, sending, wire>>
    BY <1>10 DEF Collect, TypeOK
  <2>2. /\ Members(raw) = {Head(raw)} \cup Members(Tail(raw))
        /\ Members(Append(buf, Head(raw))) = Members(buf) \cup {Head(raw)}
    BY <2>1, Moves
  <2> QED BY <1>4, <2>1, <2>2 DEF Held
<1>11. CASE Flush
  <2>1. /\ sending = <<>> /\ sending' = buf /\ buf' = <<>>
        /\ UNCHANGED <<deletions, withdrawn, unpushed, blind, core, raw, wire>>
    BY <1>11 DEF Flush
  <2> QED BY <1>4, <2>1, MembersEmpty DEF Held
<1>12. CASE SendOk \/ SendFails
  <2>1. /\ core' = core \cup Members(sending) /\ (sending' = sending \/ sending' = <<>>)
        /\ UNCHANGED <<deletions, withdrawn, unpushed, blind, buf, raw, wire>>
    BY <1>12 DEF SendOk, SendFails
  <2> QED BY <1>4, <2>1 DEF Held
<1> QED BY <1>2, <1>3, <1>5, <1>6, <1>7, <1>8, <1>9, <1>10, <1>11, <1>12 DEF Next

\* While the connection is open everything the stream carried is on its way.
LEMMA StreamNext ==
  TypeOK /\ StageInv /\ ClockInv /\ LossInv /\ SyncInv /\ StreamInv /\ [Next]_vars => StreamInv'
<1> SUFFICES ASSUME TypeOK, StageInv, ClockInv, LossInv, SyncInv, StreamInv, [Next]_vars
             PROVE  StreamInv'
  OBVIOUS
<1> USE DEF emsc, sync, live, log, bounds
<1> DEFINE InPipe == Members(sending) \cup Members(buf) \cup Members(raw) \cup Members(wire)
           Known == unpushed \cup blind \cup core \cup InPipe
<1>1. ASSUME conn' = "open" => conn = "open", published' \subseteq published \cup Known',
             conn = "open" => Known \subseteq Known'
      PROVE  StreamInv'
  BY <1>1 DEF StreamInv
<1>2. ASSUME conn' # "open" PROVE StreamInv'
  BY <1>2 DEF StreamInv
<1>3. CASE Tick \/ \E v \in Times : Delete(v)
  <2>1. PICK new \in {{}, {clock'}} : /\ published' = published \cup new
                                      /\ unpushed' = unpushed \cup new
    BY <1>3, PassOf
  <2>2. UNCHANGED <<conn, core, sending, buf, raw, wire>> /\ blind \subseteq blind'
    BY <1>3, PassOf
  <2> QED BY <1>1, <2>1, <2>2
<1>4. ASSUME NEW u \in Times, Push(u) PROVE StreamInv'
  <2>1. /\ UNCHANGED <<conn, published, core, sending, buf, raw>> /\ unpushed' = unpushed \ {u}
        /\ blind \subseteq blind'
        /\ conn = "open" => wire' = Append(wire, u)
    BY <1>4 DEF Push
  <2>2. Members(Append(wire, u)) = Members(wire) \cup {u}
    BY MembersAppend DEF TypeOK
  <2>3. conn = "open" => Known \subseteq Known'
    BY <2>1, <2>2
  <2> QED BY <1>1, <2>1, <2>3
<1>5. ASSUME NEW P \in SUBSET published, SyncFails(P) PROVE StreamInv'
  <2>1. /\ UNCHANGED <<conn, published, unpushed, blind, sending, buf, raw, wire>>
        /\ core \subseteq core'
    BY <1>5 DEF SyncFails
  <2> QED BY <1>1, <2>1
<1>6. ASSUME NEW P \in SUBSET published, SyncPage(P) PROVE StreamInv'
  <2>1. conn' # "open"
    BY <1>6 DEF SyncPage, StageInv, Idle
  <2> QED BY <1>2, <2>1
<1>7. CASE DialOk
  <2>1. /\ pc = "live" /\ conn = "dial"
        /\ UNCHANGED <<published, unpushed, blind, core>>
    BY <1>7 DEF DialOk
  <2>2. ASSUME NEW u \in published PROVE u \in unpushed \cup blind \cup core
    <3>1. u > until \/ u <= until
      BY DEF TypeOK, Times
    <3>2. CASE u > until
      BY <2>1, <3>2 DEF SyncInv
    <3>3. CASE u <= until /\ u \notin deletions
      BY <2>1, <3>3 DEF SyncInv
    <3>4. CASE u \in deletions
      <4>1. Held = {}
        BY <2>1, MembersEmpty DEF StageInv, Held
      <4> QED BY <3>4, <4>1 DEF LossInv
    <3> QED BY <3>1, <3>2, <3>3, <3>4
  <2>3. published' \subseteq Known'
    BY <2>1, <2>2
  <2> QED BY <2>3 DEF StreamInv
<1>8. CASE Disconnect \/ Restart
  BY <1>2, <1>8 DEF Disconnect, Restart
<1>9. CASE Read
  <2>1. /\ wire \in Seq(Times) /\ wire # <<>> /\ wire' = Tail(wire) /\ raw \in Seq(Times)
        /\ raw' = Append(raw, Head(wire))
        /\ UNCHANGED <<conn, published, unpushed, blind, core, sending, buf>>
    BY <1>9 DEF Read, TypeOK
  <2>2. /\ Members(wire) = {Head(wire)} \cup Members(Tail(wire))
        /\ Members(Append(raw, Head(wire))) = Members(raw) \cup {Head(wire)}
    BY <2>1, Moves
  <2> QED BY <1>1, <2>1, <2>2
<1>10. CASE ReadGarbled
  <2>1. /\ wire \in Seq(Times) /\ wire # <<>> /\ wire' = Tail(wire)
        /\ blind' = blind \cup {Head(wire)}
        /\ UNCHANGED <<conn, published, unpushed, core, sending, buf, raw>>
    BY <1>10 DEF ReadGarbled, TypeOK
  <2>2. Members(wire) = {Head(wire)} \cup Members(Tail(wire))
    BY <2>1, Moves
  <2> QED BY <1>1, <2>1, <2>2
<1>11. CASE Collect
  <2>1. /\ raw \in Seq(Times) /\ raw # <<>> /\ raw' = Tail(raw) /\ buf \in Seq(Times)
        /\ buf' = Append(buf, Head(raw))
        /\ UNCHANGED <<conn, published, unpushed, blind, core, sending, wire>>
    BY <1>11 DEF Collect, TypeOK
  <2>2. /\ Members(raw) = {Head(raw)} \cup Members(Tail(raw))
        /\ Members(Append(buf, Head(raw))) = Members(buf) \cup {Head(raw)}
    BY <2>1, Moves
  <2> QED BY <1>1, <2>1, <2>2
<1>12. CASE Flush
  <2>1. /\ sending = <<>> /\ sending' = buf /\ buf' = <<>>
        /\ UNCHANGED <<conn, published, unpushed, blind, core, raw, wire>>
    BY <1>12 DEF Flush
  <2> QED BY <1>1, <2>1, MembersEmpty
<1>13. CASE SendOk
  <2>1. /\ core' = core \cup Members(sending)
        /\ UNCHANGED <<conn, published, unpushed, blind, buf, raw, wire>>
    BY <1>13 DEF SendOk
  <2> QED BY <1>1, <2>1
<1>14. CASE SendFails
  <2>1. /\ core \subseteq core'
        /\ UNCHANGED <<conn, published, unpushed, blind, sending, buf, raw, wire>>
    BY <1>14 DEF SendFails
  <2> QED BY <1>1, <2>1
<1>15. CASE RunLiveReturns \/ GapFill \/ UNCHANGED vars
  <2>1. UNCHANGED <<conn, published, unpushed, blind, core, sending, buf, raw, wire>>
    BY <1>15 DEF RunLiveReturns, GapFill, vars
  <2> QED BY <1>1, <2>1
<1> QED BY <1>3, <1>4, <1>5, <1>6, <1>7, <1>8, <1>9, <1>10, <1>11, <1>12, <1>13, <1>14, <1>15
        DEF Next
-----------------------------------------------------------------------------
(* No gap-fill asks for less than is missing.                              *)

\* An event of the stream's last ticks is not out of reach.
LEMMA Recent ==
  ASSUME NEW u \in Nat, NEW v \in Nat, NEW c \in Nat, c <= u + Skew, v <= c
  PROVE  ~Beyond(u, v)
  BY DEF Beyond
\* No step puts what is missing out of the next gap-fill's reach: an event older
\* than the lookback cannot still be waiting for the stream, so it is ahead in the
\* pipeline of whatever would move maxLastUpdate past it.
LEMMA ReachNext ==
  TypeOK /\ StageInv /\ ClockInv /\ ClockInv' /\ TypeOK' /\ LossInv /\ SyncInv /\ SyncInv'
    /\ StreamInv /\ ReachInv /\ [Next]_vars => ReachInv'
<1> SUFFICES ASSUME TypeOK, TypeOK', StageInv, ClockInv, ClockInv', LossInv, SyncInv, SyncInv',
                    StreamInv, ReachInv, [Next]_vars, pc' # "sync", NEW u \in Missing'
             PROVE  InReach(u)'
  BY DEF ReachInv
<1> USE DEF emsc, sync, live, log, bounds
<1>1. ASSUME u \in Missing, pc # "sync",
             UNCHANGED <<maxLastUpdate, sending, buf, raw, wire>>
      PROVE  InReach(u)'
  BY <1>1 DEF ReachInv, InReach
<1>2. ASSUME u \in Missing, pc # "sync"
      PROVE  /\ ~Beyond(u, maxLastUpdate)
             /\ \A v \in Members(sending) : Beyond(u, v) => u \in Members(sending)
             /\ \A v \in Members(buf) : Beyond(u, v) => u \in Members(sending) \cup Members(buf)
             /\ \A k \in DOMAIN raw : Beyond(u, raw[k]) =>
                   u \in Members(sending) \cup Members(buf) \cup Front(raw, k)
             /\ \A k \in DOMAIN wire : Beyond(u, wire[k]) =>
                   u \in Members(sending) \cup Members(buf) \cup Members(raw) \cup Front(wire, k)
  BY <1>2 DEF ReachInv, InReach
<1>3. u \in published' /\ u \notin blind' /\ u \notin core' /\ u \in Nat
  BY DEF Missing, TypeOK, Times
<1>4. u \in published /\ blind \subseteq blind' /\ core \subseteq core' => u \in Missing
  BY <1>3 DEF Missing
<1>5. Front(raw, 1) = {} /\ Front(wire, 1) = {}
  BY DEF Front
<1>6. CASE Tick \/ \E v \in Times : Delete(v)
  <2>1. PICK new \in {{}, {clock'}} : published' = published \cup new
    BY <1>6, PassOf
  <2>2. /\ UNCHANGED <<pc, maxLastUpdate, sending, buf, raw, wire, core>>
        /\ blind \subseteq blind' /\ clock' = clock + 1
    BY <1>6, PassOf
  <2>5. clock \in Nat /\ maxLastUpdate \in Nat /\ maxLastUpdate <= clock
    BY DEF TypeOK, ClockInv
  <2>3. CASE u \in published
    BY <1>1, <1>4, <2>2, <2>3
  <2>4. CASE u = clock'
    <3>1. \A v \in 1..clock : ~Beyond(u, v)
      BY <2>2, <2>4, <2>5 DEF Beyond
    <3>2. Members(sending) \cup Members(buf) \cup Members(raw) \cup Members(wire) \subseteq 1..clock
      BY DEF ClockInv
    <3>3. /\ \A k \in DOMAIN raw : raw[k] \in Members(raw)
          /\ \A k \in DOMAIN wire : wire[k] \in Members(wire)
      BY DEF Members
    <3>4. ~Beyond(u, maxLastUpdate)
      BY <2>2, <2>4, <2>5 DEF Beyond
    <3> QED BY <2>2, <3>1, <3>2, <3>3, <3>4 DEF InReach
  <2> QED BY <1>3, <2>1, <2>3, <2>4
<1>7. ASSUME NEW w \in Times, Push(w) PROVE InReach(u)'
  <2>1. /\ UNCHANGED <<pc, clock, published, maxLastUpdate, conn, sending, buf, raw, core>>
        /\ unpushed' = unpushed \ {w} /\ blind \subseteq blind' /\ w \in published
        /\ wire' = wire \/ (conn = "open" /\ wire' = Append(wire, w))
    BY <1>7 DEF Push, TypeOK
  <2>2. u \in Missing /\ pc # "sync"
    BY <1>3, <1>4, <2>1
  <2>3. CASE wire' = wire
    BY <1>1, <2>1, <2>2, <2>3
  <2>4. CASE conn = "open" /\ wire' = Append(wire, w)
    <3>0. wire \in Seq(Times) /\ Len(wire) \in Nat /\ DOMAIN wire = 1..Len(wire)
      BY LenProperties DEF TypeOK
    <3>1. /\ DOMAIN wire' = 1..(Len(wire) + 1) /\ \A k \in 1..Len(wire) : wire'[k] = wire[k]
          /\ wire'[Len(wire) + 1] = w
      BY <2>4, <3>0, MembersAppend
    <3>2. /\ \A k \in 1..Len(wire) : Front(wire', k) = Front(wire, k)
          /\ Front(wire', Len(wire) + 1) = Members(wire)
      BY <2>4, <3>0, FrontAppend
    <3>3. ASSUME NEW k \in 1..Len(wire), Beyond(u, wire'[k])
          PROVE  u \in Members(sending) \cup Members(buf) \cup Members(raw) \cup Front(wire', k)
      BY <1>2, <2>2, <3>0, <3>1, <3>2, <3>3
    <3>4. ASSUME Beyond(u, w)
          PROVE  u \in Members(sending) \cup Members(buf) \cup Members(raw) \cup Members(wire)
      <4>1. w \in 1..clock /\ clock \in Nat
        BY <2>1 DEF ClockInv, TypeOK
      <4>2. ~(clock <= u + Skew)
        BY <1>3, <3>4, <4>1 DEF Beyond
      <4>3. u \notin unpushed
        BY <4>2 DEF ClockInv
      <4>4. u \in published /\ u \notin blind /\ u \notin core
        BY <2>2 DEF Missing
      <4> QED BY <2>4, <4>3, <4>4 DEF StreamInv
    <3>5. ASSUME NEW k \in DOMAIN wire', Beyond(u, wire'[k])
          PROVE  u \in Members(sending) \cup Members(buf) \cup Members(raw) \cup Front(wire', k)
      <4>1. k \in 1..Len(wire) \/ k = Len(wire) + 1
        BY <3>0, <3>1
      <4>2. CASE k \in 1..Len(wire)
        BY <3>3, <3>5, <4>2
      <4>3. CASE k = Len(wire) + 1
        BY <3>1, <3>2, <3>4, <3>5, <4>3
      <4> QED BY <4>1, <4>2, <4>3
    <3> QED BY <1>2, <2>1, <2>2, <3>5 DEF InReach
  <2> QED BY <2>1, <2>3, <2>4
<1>8. ASSUME NEW P \in SUBSET published, SyncPage(P) PROVE InReach(u)'
  <2>1. /\ UNCHANGED <<clock, published, unpushed, blind, until, wire, sending, buf, raw>>
        /\ pc = "sync"
    BY <1>8 DEF SyncPage
  <2>2. wire = <<>> /\ sending = <<>> /\ buf = <<>> /\ raw = <<>>
    BY <2>1 DEF StageInv, Idle
  <2>3. u \in unpushed
    <3>1. CASE u \in deletions
      <4>1. Held = {} /\ u \notin blind /\ u \notin core
        BY <1>3, <1>8, <2>2, MembersEmpty DEF Held, SyncPage
      <4> QED BY <3>1, <4>1 DEF LossInv
    <3>2. CASE u \notin deletions
      <4>1. deletions' = deletions
        BY <1>8 DEF SyncPage
      <4>2. ~(u <= until)
        BY <1>3, <2>1, <3>2, <4>1 DEF SyncInv
      <4>3. u > until
        BY <1>3, <4>2 DEF TypeOK
      <4> QED BY <1>3, <2>1, <4>3 DEF SyncInv
    <3> QED BY <3>1, <3>2
  <2>4. clock <= u + Skew /\ clock \in Nat /\ maxLastUpdate' <= clock /\ maxLastUpdate' \in Nat
    BY <2>1, <2>3 DEF ClockInv, TypeOK
  <2>5. ~Beyond(u, maxLastUpdate')
    BY <1>3, <2>4, Recent
  <2>6. DOMAIN <<>> = {} /\ Members(<<>>) = {}
    BY MembersEmpty
  <2> QED BY <2>1, <2>2, <2>5, <2>6 DEF InReach
<1>9. CASE Disconnect
  <2>1. /\ UNCHANGED <<pc, published, core, maxLastUpdate, sending, buf, raw>> /\ wire' = <<>>
        /\ blind \subseteq blind'
    BY <1>9 DEF Disconnect
  <2>2. u \in Missing /\ pc # "sync"
    BY <1>3, <1>4, <2>1
  <2>3. DOMAIN <<>> = {}
    OBVIOUS
  <2> QED BY <1>2, <2>1, <2>2, <2>3 DEF InReach
<1>10. CASE Read
  <2>1. /\ wire \in Seq(Times) /\ wire # <<>> /\ wire' = Tail(wire) /\ raw \in Seq(Times)
        /\ raw' = Append(raw, Head(wire))
        /\ UNCHANGED <<pc, published, blind, core, maxLastUpdate, sending, buf>>
    BY <1>10 DEF Read, TypeOK
  <2>2. u \in Missing /\ pc # "sync"
    BY <1>3, <1>4, <2>1
  <2>3. /\ Len(raw) \in Nat /\ DOMAIN raw = 1..Len(raw) /\ Head(wire) \in Times
        /\ DOMAIN raw' = 1..(Len(raw) + 1) /\ \A k \in 1..Len(raw) : raw'[k] = raw[k]
        /\ raw'[Len(raw) + 1] = Head(wire) /\ Members(raw') = Members(raw) \cup {Head(wire)}
    BY <2>1, Moves, MembersAppend, LenProperties
  <2>4. /\ \A k \in 1..Len(raw) : Front(raw', k) = Front(raw, k)
        /\ Front(raw', Len(raw) + 1) = Members(raw)
    BY <2>1, <2>3, FrontAppend
  <2>5. /\ Len(wire) \in Nat \ {0} /\ DOMAIN wire = 1..Len(wire) /\ Head(wire) = wire[1]
        /\ DOMAIN wire' = 1..(Len(wire) - 1)
        /\ \A k \in 1..(Len(wire) - 1) : wire'[k] = wire[k + 1]
    BY <2>1, MembersTail
  <2>6. ASSUME Beyond(u, Head(wire))
        PROVE  u \in Members(sending) \cup Members(buf) \cup Members(raw)
    <3>1. 1 \in DOMAIN wire /\ Beyond(u, wire[1])
      BY <2>5, <2>6
    <3> QED BY <1>2, <1>5, <2>2, <3>1
  <2>7. ASSUME NEW k \in DOMAIN raw', Beyond(u, raw'[k])
        PROVE  u \in Members(sending) \cup Members(buf) \cup Front(raw', k)
    <3>1. CASE k \in 1..Len(raw)
      BY <1>2, <2>2, <2>3, <2>4, <2>7, <3>1
    <3>2. CASE k = Len(raw) + 1
      BY <2>3, <2>4, <2>6, <2>7, <3>2
    <3>3. k \in 1..Len(raw) \/ k = Len(raw) + 1
      BY <2>3
    <3> QED BY <3>1, <3>2, <3>3
  <2>8. ASSUME NEW k \in DOMAIN wire', Beyond(u, wire'[k])
        PROVE  u \in Members(sending) \cup Members(buf) \cup Members(raw') \cup Front(wire', k)
    <3>1. k \in 1..(Len(wire) - 1) /\ k + 1 \in DOMAIN wire /\ Beyond(u, wire[k + 1])
      BY <2>5, <2>8
    <3>2. u \in Members(sending) \cup Members(buf) \cup Members(raw) \cup Front(wire, k + 1)
      BY <1>2, <2>2, <3>1
    <3>3. Front(wire, k + 1) = {Head(wire)} \cup Front(wire', k)
      BY <2>1, <3>1, FrontTail
    <3> QED BY <2>3, <3>2, <3>3
  <2> QED BY <1>2, <2>1, <2>2, <2>7, <2>8 DEF InReach
<1>11. CASE ReadGarbled
  <2>1. /\ wire \in Seq(Times) /\ wire # <<>> /\ wire' = Tail(wire)
        /\ blind' = blind \cup {Head(wire)}
        /\ UNCHANGED <<pc, published, core, maxLastUpdate, sending, buf, raw>>
    BY <1>11 DEF ReadGarbled, TypeOK
  <2>2. u \in Missing /\ pc # "sync" /\ u # Head(wire)
    BY <1>3, <1>4, <2>1
  <2>3. /\ Len(wire) \in Nat \ {0} /\ DOMAIN wire = 1..Len(wire)
        /\ DOMAIN wire' = 1..(Len(wire) - 1)
        /\ \A k \in 1..(Len(wire) - 1) : wire'[k] = wire[k + 1]
    BY <2>1, MembersTail
  <2>4. ASSUME NEW k \in DOMAIN wire', Beyond(u, wire'[k])
        PROVE  u \in Members(sending) \cup Members(buf) \cup Members(raw) \cup Front(wire', k)
    <3>1. k \in 1..(Len(wire) - 1) /\ k + 1 \in DOMAIN wire /\ Beyond(u, wire[k + 1])
      BY <2>3, <2>4
    <3>2. u \in Members(sending) \cup Members(buf) \cup Members(raw) \cup Front(wire, k + 1)
      BY <1>2, <2>2, <3>1
    <3>3. Front(wire, k + 1) = {Head(wire)} \cup Front(wire', k)
      BY <2>1, <3>1, FrontTail
    <3> QED BY <2>2, <3>2, <3>3
  <2> QED BY <1>2, <2>1, <2>2, <2>4 DEF InReach
<1>12. CASE Collect
  <2>1. /\ raw \in Seq(Times) /\ raw # <<>> /\ raw' = Tail(raw) /\ buf \in Seq(Times)
        /\ buf' = Append(buf, Head(raw))
        /\ UNCHANGED <<pc, published, blind, core, maxLastUpdate, sending, wire>>
    BY <1>12 DEF Collect, TypeOK
  <2>2. u \in Missing /\ pc # "sync"
    BY <1>3, <1>4, <2>1
  <2>3. /\ Members(raw) = {Head(raw)} \cup Members(raw')
        /\ Members(buf') = Members(buf) \cup {Head(raw)}
    BY <2>1, Moves
  <2>4. /\ Len(raw) \in Nat \ {0} /\ DOMAIN raw = 1..Len(raw) /\ Head(raw) = raw[1]
        /\ DOMAIN raw' = 1..(Len(raw) - 1)
        /\ \A k \in 1..(Len(raw) - 1) : raw'[k] = raw[k + 1]
    BY <2>1, MembersTail
  <2>5. ASSUME NEW v \in Members(buf'), Beyond(u, v)
        PROVE  u \in Members(sending) \cup Members(buf')
    <3>1. CASE v \in Members(buf)
      BY <1>2, <2>2, <2>3, <2>5, <3>1
    <3>2. CASE v = Head(raw)
      <4>1. 1 \in DOMAIN raw /\ Beyond(u, raw[1])
        BY <2>4, <2>5, <3>2
      <4> QED BY <1>2, <1>5, <2>2, <2>3, <4>1
    <3> QED BY <2>3, <2>5, <3>1, <3>2
  <2>6. ASSUME NEW k \in DOMAIN raw', Beyond(u, raw'[k])
        PROVE  u \in Members(sending) \cup Members(buf') \cup Front(raw', k)
    <3>1. k \in 1..(Len(raw) - 1) /\ k + 1 \in DOMAIN raw /\ Beyond(u, raw[k + 1])
      BY <2>4, <2>6
    <3>2. u \in Members(sending) \cup Members(buf) \cup Front(raw, k + 1)
      BY <1>2, <2>2, <3>1
    <3>3. Front(raw, k + 1) = {Head(raw)} \cup Front(raw', k)
      BY <2>1, <3>1, FrontTail
    <3> QED BY <2>3, <3>2, <3>3
  <2>7. ASSUME NEW k \in DOMAIN wire, Beyond(u, wire[k])
        PROVE  u \in Members(sending) \cup Members(buf') \cup Members(raw') \cup Front(wire, k)
    BY <1>2, <2>2, <2>3, <2>7
  <2> QED BY <1>2, <2>1, <2>2, <2>5, <2>6, <2>7 DEF InReach
<1>13. CASE Flush
  <2>1. /\ sending = <<>> /\ sending' = buf /\ buf' = <<>>
        /\ UNCHANGED <<pc, published, blind, core, maxLastUpdate, raw, wire>>
    BY <1>13 DEF Flush
  <2>2. u \in Missing /\ pc # "sync"
    BY <1>3, <1>4, <2>1
  <2>3. Members(sending) = {} /\ Members(buf') = {} /\ Members(sending') = Members(buf)
    BY <2>1, MembersEmpty
  <2> QED BY <1>2, <2>1, <2>2, <2>3 DEF InReach
<1>14. CASE SendOk
  <2>1. /\ core' = core \cup Members(sending) /\ sending' = <<>> /\ Advance(Members(sending))
        /\ UNCHANGED <<pc, published, blind, buf, raw, wire>>
    BY <1>14 DEF SendOk
  <2>2. u \in Missing /\ pc # "sync" /\ u \notin Members(sending)
    BY <1>3, <1>4, <2>1
  <2>3. maxLastUpdate' \in Members(sending) \cup {maxLastUpdate}
    <3>1. Members(sending) \in SUBSET Times /\ maxLastUpdate \in 0..MaxTime
      BY DEF ClockInv, TypeOK
    <3> QED BY <2>1, <3>1, AdvanceOf
  <2>4. ~Beyond(u, maxLastUpdate')
    BY <1>2, <2>2, <2>3
  <2> QED BY <1>2, <2>1, <2>2, <2>4, MembersEmpty DEF InReach
<1>15. CASE DialOk \/ SendFails \/ RunLiveReturns \/ UNCHANGED vars
  <2>1. /\ UNCHANGED <<published, blind, maxLastUpdate, sending, buf, raw, wire>>
        /\ core \subseteq core' /\ pc # "sync"
    BY <1>15 DEF DialOk, SendFails, RunLiveReturns, vars
  <2> QED BY <1>1, <1>3, <1>4, <2>1
<1>16. CASE (\E P \in SUBSET published : SyncFails(P)) \/ GapFill \/ Restart
  BY <1>16 DEF SyncFails, GapFill, Restart
<1> QED BY <1>6, <1>7, <1>8, <1>9, <1>10, <1>11, <1>12, <1>13, <1>14, <1>15, <1>16 DEF Next
-----------------------------------------------------------------------------
(* The theorems.                                                           *)

\* The process starts in a state that satisfies the invariant.
LEMMA EmscInit == Init => IInv /\ LiveInOrder
<1> SUFFICES ASSUME Init PROVE IInv /\ LiveInOrder
  OBVIOUS
<1> USE DEF Init, Idle
<1>1. <<>> \in Seq(Times) /\ Len(<<>>) = 0 /\ <<>> \o <<>> = <<>>
  <2>1. <<>> \in Seq(Times)
    OBVIOUS
  <2> QED BY <2>1, ConcatEmptySeq
<1>2. TypeOK
  BY <1>1 DEF TypeOK
<1>3. StageInv /\ LossInv /\ SyncInv /\ StreamInv
  BY DEF StageInv, LossInv, SyncInv, StreamInv
<1>4. ClockInv
  BY MembersEmpty DEF ClockInv
<1>5. ReachInv
  BY DEF ReachInv
<1>6. LiveInOrder
  BY <1>1 DEF LiveInOrder
<1> QED BY <1>2, <1>3, <1>4, <1>5, <1>6 DEF IInv

\* Every step keeps the invariant.
LEMMA EmscStep == IInv /\ LiveInOrder /\ [Next]_vars => IInv' /\ LiveInOrder'
<1> SUFFICES ASSUME IInv, LiveInOrder, [Next]_vars PROVE IInv' /\ LiveInOrder'
  OBVIOUS
<1>1. TypeOK' /\ StageInv' /\ ClockInv' /\ LiveInOrder'
  BY TypeNext, StageNext, ClockNext, OrderNext DEF IInv
<1>2. LossInv' /\ SyncInv' /\ StreamInv'
  BY LossNext, SyncNext, StreamNext DEF IInv
<1>3. ReachInv'
  BY <1>1, <1>2, ReachNext DEF IInv
<1> QED BY <1>1, <1>2, <1>3 DEF IInv

\* LiveInOrder, for every size of channels and batches: what runLive reads from
\* a connection is what it has posted, is sending, collects and has queued, in
\* this order (Subscribe, Batcher.Run, the send loop).
THEOREM NothingReordered == Spec => []LiveInOrder
<1>1. IInv /\ LiveInOrder => LiveInOrder
  OBVIOUS
<1> QED BY EmscInit, EmscStep, <1>1, PTL DEF Spec

\* GapFillSound, for every skew smaller than the lookback: what is missing in
\* the core when no sync runs is not older than the updatedafter of the next
\* gap-fill, save what no query brings: what fell into the blind spot, came
\* garbled, was deleted, or is a deletion lost on its way (runFDSNSync,
\* gapFillUpdatedAfter).
THEOREM GapFillReaches == Spec => []GapFillSound
<1>1. IInv => GapFillSound
  <2> SUFFICES ASSUME IInv, pc # "sync", NEW u \in published \ blind,
                      u <= maxLastUpdate - GapFillLookback
               PROVE  u \in core
    BY DEF GapFillSound
  <2>1. u \in Nat /\ maxLastUpdate \in Nat
    BY DEF IInv, TypeOK, Times
  <2>2. Beyond(u, maxLastUpdate)
    BY <2>1 DEF Beyond
  <2> QED BY <2>2 DEF IInv, ReachInv, InReach, Missing
<1> QED BY EmscInit, EmscStep, <1>1, PTL DEF Spec
=============================================================================
