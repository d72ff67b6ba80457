--------------------------- MODULE NoaaFeedProofs ---------------------------
(***************************************************************************)
(* Types of the NOAA intake, the soundness of its seen set, and what the   *)
(* table and the subscribers hold once a list is taken, for any number of  *)
(* alerts, handlers, chunks and failures.                                  *)
(***************************************************************************)
EXTENDS NoaaFeed, FiniteSetTheorems, TLAPS

JobFields == {"pc", "list", "left", "chunk", "present", "diff", "wrote", "alone"}

\* A request in hand is a record, and a well-formed one.
JobsInv == /\ DOMAIN job = Handlers
           /\ \A h \in Handlers : DOMAIN job[h] = JobFields /\ JobOK(job[h])

RestInv ==
    /\ feed \in Lists /\ latest \in Lists /\ got \in Lists
    /\ version \in 1..(MaxVersions + 1) /\ validator \in 0..version
    /\ phase \in {"poll", "post", "wait"} /\ owner \in Handlers \cup {Nobody}
    /\ told \in Lists
    /\ faults \in 0..MaxFaults
    /\ mirrored \in Lists \cup {NoList}
    /\ raced \subseteq Alerts /\ behind \subseteq Alerts

TableInv ==
    /\ db \in [Alerts -> [st : {"absent", "active", "withdrawn"}, rev : Revs]]
    /\ \A a \in Alerts : db[a].st = "absent" => db[a].rev = 0
    /\ seen \subseteq Alerts \X (1..MaxRev)

IInv == JobsInv /\ RestInv /\ TableInv /\ SeenStored

LEMMA EmptyChunk == Cardinality({}) <= ChunkSize
  BY FS_EmptySet, BoundsAssumption

LEMMA IdleOK == DOMAIN Idle = JobFields /\ JobOK(Idle)
<1>1. NoDiff \in Diffs
  <2>1. NoDiff \in [{} -> Revs]
    BY DEF NoDiff
  <2> QED
    BY <2>1 DEF Diffs
<1> QED
  BY <1>1, EmptyChunk, BoundsAssumption DEF Idle, JobFields, JobOK, Lists, Revs, Listed

LEMMA InitInv == Init => IInv
<1> SUFFICES ASSUME Init PROVE IInv
  OBVIOUS
<1>1. JobsInv
  BY IdleOK DEF Init, JobsInv
<1>2. RestInv
  BY BoundsAssumption DEF Init, RestInv, Lists, Revs
<1>3. TableInv /\ SeenStored
  BY BoundsAssumption DEF Init, TableInv, SeenStored, Revs
<1> QED
  BY <1>1, <1>2, <1>3 DEF IInv

\* Nothing that leaves the table alone and marks nothing can break the seen set.
LEMMA TableKept ==
    ASSUME IInv, UNCHANGED db, seen' \subseteq seen, UNCHANGED raced
    PROVE  TableInv' /\ SeenStored'
  BY DEF IInv, TableInv, SeenStored

LEMMA FaultOK == ASSUME RestInv, Fault PROVE faults' \in 0..MaxFaults
  BY BoundsAssumption DEF RestInv, Fault

LEMMA AnswerOK ==
    ASSUME RestInv, NEW h \in Handlers, Answer(h)
    PROVE  /\ validator' = validator /\ got' = got
           /\ phase' \in {"poll", "post", "wait"} /\ owner' \in Handlers \cup {Nobody}
  BY DEF RestInv, Answer, adapter

\* A request begins with a list the core has decoded.
LEMMA BeginOK ==
    ASSUME IInv, NEW h \in Handlers, NEW l \in Lists, Begin(h, l)
    PROVE  JobsInv'
<1>1. DOMAIN job' = Handlers
  BY DEF Begin
<1>2. \A o \in Handlers \ {h} : job'[o] = [job[o] EXCEPT !.alone = FALSE]
  BY DEF Begin
<1>3. \A o \in Handlers \ {h} : DOMAIN job'[o] = JobFields /\ JobOK(job'[o])
  <2> SUFFICES ASSUME NEW o \in Handlers \ {h}
               PROVE  DOMAIN job'[o] = JobFields /\ JobOK(job'[o])
    OBVIOUS
  <2>1. DOMAIN job[o] = JobFields /\ JobOK(job[o])
    BY DEF IInv, JobsInv
  <2>2. /\ DOMAIN job'[o] = JobFields /\ job'[o].alone = FALSE
        /\ job'[o].pc = job[o].pc /\ job'[o].list = job[o].list /\ job'[o].left = job[o].left
        /\ job'[o].chunk = job[o].chunk /\ job'[o].present = job[o].present
        /\ job'[o].diff = job[o].diff /\ job'[o].wrote = job[o].wrote
    BY <1>2, <2>1 DEF JobFields
  <2> QED
    BY <2>1, <2>2 DEF JobOK
<1>4. job'[h] = [Idle EXCEPT !.pc = IF Unseen(l) = {} THEN "publish" ELSE "load",
                             !.list = l, !.left = Unseen(l),
                             !.alone = \A p \in Handlers \ {h} : job[p].pc = "idle"]
  BY DEF Begin
<1>5. Unseen(l) \subseteq Listed(l)
  BY DEF Unseen
<1>6. DOMAIN job'[h] = JobFields
  BY <1>4, IdleOK
<1>7. /\ job'[h].pc \in {"load", "publish"} /\ job'[h].list = l /\ job'[h].left = Unseen(l)
      /\ job'[h].chunk = {} /\ job'[h].present = {} /\ job'[h].diff = NoDiff
      /\ job'[h].wrote = FALSE /\ job'[h].alone \in BOOLEAN
  BY <1>4 DEF Idle
<1>8. NoDiff \in Diffs
  BY IdleOK DEF JobOK, Idle
<1>9. JobOK(job'[h])
  BY <1>5, <1>7, <1>8, EmptyChunk DEF JobOK
<1> QED
  BY <1>1, <1>3, <1>6, <1>9 DEF JobsInv

LEMMA LoadOK ==
    ASSUME IInv, NEW h \in Handlers, Load(h)
    PROVE  JobsInv'
<1>1. PICK c \in Chunks(h) :
        job' = [job EXCEPT ![h].pc = "write", ![h].chunk = c,
                           ![h].present = Listed(job[h].list) \cap Present]
  BY DEF Load
<1>2. c \subseteq job[h].left /\ job[h].left \subseteq Alerts
  BY DEF Chunks, IInv, JobsInv, JobOK, Listed
<1>3. Cardinality(job[h].left) \in Nat
  BY <1>2, FS_Subset, FS_CardinalityType, SetsAssumption
<1>4. Cardinality(c) <= ChunkSize
  BY <1>3, BoundsAssumption DEF Chunks
<1>5. DOMAIN job = Handlers /\ DOMAIN job[h] = JobFields /\ JobOK(job[h])
  BY DEF IInv, JobsInv
<1>6. DOMAIN job' = Handlers /\ \A o \in Handlers \ {h} : job'[o] = job[o]
  BY <1>1, <1>5
<1>7. /\ DOMAIN job'[h] = JobFields
      /\ job'[h].pc = "write" /\ job'[h].chunk = c
      /\ job'[h].present = Listed(job[h].list) \cap Present
      /\ job'[h].list = job[h].list /\ job'[h].left = job[h].left
      /\ job'[h].diff = job[h].diff /\ job'[h].wrote = job[h].wrote
      /\ job'[h].alone = job[h].alone
  BY <1>1, <1>5 DEF JobFields
<1>8. JobOK(job'[h])
  BY <1>2, <1>4, <1>5, <1>7 DEF JobOK
<1> QED
  BY <1>6, <1>7, <1>8 DEF JobsInv, IInv

\* A committed chunk: the joint diff is a diff, and what is marked has been stored.
LEMMA WriteOK ==
    ASSUME IInv, NEW h \in Handlers, Write(h)
    PROVE  JobsInv' /\ TableInv' /\ SeenStored'
<1> DEFINE j == job[h]
           left == j.left \ j.chunk
           diff == Joined(h, Revived(h), Missing(h))
<1>1. /\ db' = Written(h, Missing(h))
      /\ seen' = seen \cup {<<a, j.list[a]>> : a \in j.chunk}
      /\ raced' = raced \cup Lost(h)
      /\ job' = [job EXCEPT ![h].pc = IF left = {} THEN "publish" ELSE "load",
                            ![h].left = left, ![h].chunk = {}, ![h].present = {},
                            ![h].diff = diff, ![h].wrote = TRUE]
  BY DEF Write, Transact
<1>2. DOMAIN job = Handlers /\ DOMAIN j = JobFields /\ JobOK(j)
  BY DEF IInv, JobsInv
<1>3. /\ j.list \in [Alerts -> 0..MaxRev] /\ j.chunk \subseteq Alerts
      /\ \A a \in j.chunk : j.list[a] \in 1..MaxRev
  BY <1>2, BoundsAssumption DEF JobOK, Lists, Revs, Listed
<1>4. db \in [Alerts -> [st : {"absent", "active", "withdrawn"}, rev : 0..MaxRev]]
  BY DEF IInv, TableInv, Revs
<1>5. /\ Inserted(h) \subseteq Alerts /\ Updated(h) \subseteq Alerts
      /\ Revived(h) \subseteq Alerts /\ Missing(h) \subseteq Alerts
  BY <1>3 DEF Inserted, Updated, Revived, Missing, Active, Listed
<1>6. diff \in Diffs
  <2>1. j.diff \in Diffs
    BY <1>2 DEF JobOK
  <2>2. PICK d \in SUBSET Alerts : j.diff \in [d -> Revs]
    BY <2>1 DEF Diffs
  <2>3. diff \in [d \cup Inserted(h) \cup Updated(h) \cup Revived(h) \cup Missing(h) -> Revs]
    BY <1>3, <1>4, <1>5, <2>2, BoundsAssumption DEF Joined, Revs
  <2>4. d \cup Inserted(h) \cup Updated(h) \cup Revived(h) \cup Missing(h) \in SUBSET Alerts
    BY <1>5
  <2> QED
    BY <2>3, <2>4 DEF Diffs
<1>7. JobsInv'
  <2> HIDE DEF left, diff
  <2>1. DOMAIN job' = Handlers /\ \A o \in Handlers \ {h} : job'[o] = job[o]
    BY <1>1, <1>2
  <2>2. /\ DOMAIN job'[h] = JobFields
        /\ job'[h].pc \in {"publish", "load"} /\ job'[h].left = left
        /\ job'[h].chunk = {} /\ job'[h].present = {}
        /\ job'[h].diff = diff /\ job'[h].wrote = TRUE
        /\ job'[h].list = j.list /\ job'[h].alone = j.alone
    BY <1>1, <1>2 DEF JobFields
  <2>3. left \subseteq Listed(j.list)
    BY <1>2 DEF JobOK, left
  <2>4. JobOK(job'[h])
    BY <1>2, <1>6, <2>2, <2>3, EmptyChunk DEF JobOK
  <2> QED
    BY <2>1, <2>2, <2>4 DEF JobsInv, IInv
<1>8. TableInv'
  <2>1. db' \in [Alerts -> [st : {"absent", "active", "withdrawn"}, rev : 0..MaxRev]]
    <3>1. \A a \in Alerts : db'[a] \in [st : {"absent", "active", "withdrawn"}, rev : 0..MaxRev]
      BY <1>1, <1>3, <1>4 DEF Written
    <3> QED
      BY <1>1, <3>1 DEF Written
  <2>2. seen' \subseteq Alerts \X (1..MaxRev)
    <3>1. \A a \in j.chunk : <<a, j.list[a]>> \in Alerts \X (1..MaxRev)
      BY <1>3
    <3> QED
      BY <1>1, <3>1 DEF IInv, TableInv
  <2>3. \A a \in Alerts : db'[a].st = "absent" => db'[a].rev = 0
    <3>1. \A a \in Alerts : db[a].st = "absent" => db[a].rev = 0
      BY DEF IInv, TableInv
    <3>2. \A a \in Alerts : db'[a].st = "absent" => db'[a] = db[a]
      BY <1>1, <1>4 DEF Written
    <3> QED
      BY <3>1, <3>2
  <2> QED
    BY <2>1, <2>2, <2>3 DEF TableInv, Revs
<1>9. SeenStored'
  <2>1. \A a \in Alerts : db'[a].rev \in Nat /\ db[a].rev \in Nat /\ db'[a].rev >= db[a].rev
    <3>1. \A a \in Inserted(h) : db[a].rev = 0
      BY <1>5 DEF Inserted, Present, IInv, TableInv
    <3>2. \A a \in Updated(h) : j.list[a] > db[a].rev
      BY DEF Updated
    <3> SUFFICES ASSUME NEW a \in Alerts
                 PROVE  db'[a].rev \in Nat /\ db[a].rev \in Nat /\ db'[a].rev >= db[a].rev
      OBVIOUS
    <3>3. db[a].rev \in Nat /\ j.list[a] \in Nat
      BY <1>3, <1>4
    <3>4. CASE a \in Inserted(h) \cup Updated(h)
      <4>1. db'[a].rev = j.list[a]
        BY <1>1, <3>4 DEF Written
      <4> QED
        BY <3>1, <3>2, <3>3, <3>4, <4>1
    <3>5. CASE a \notin Inserted(h) \cup Updated(h)
      <4>1. db'[a].rev = db[a].rev
        BY <1>1, <1>4, <3>5 DEF Written
      <4> QED
        BY <3>3, <4>1
    <3> QED
      BY <3>4, <3>5
  <2>2. \A a \in j.chunk \ Lost(h) : db'[a].rev >= j.list[a]
    <3> SUFFICES ASSUME NEW a \in j.chunk \ Lost(h) PROVE db'[a].rev >= j.list[a]
      OBVIOUS
    <3>0. /\ a \in Alerts /\ a \in j.chunk /\ a \notin Lost(h)
          /\ j.list[a] \in Nat /\ db[a].rev \in Nat /\ db'[a].rev \in Nat
          /\ db'[a].rev >= db[a].rev
      BY <1>3, <2>1
    <3>1. CASE a \notin j.present
      <4>1. a \in Inserted(h)
        BY <1>3, <3>0, <3>1 DEF Inserted, Lost
      <4>2. db'[a] = [st |-> "active", rev |-> j.list[a]]
        BY <1>1, <3>0, <4>1 DEF Written
      <4> QED
        BY <3>0, <4>2
    <3>2. CASE a \in Updated(h)
      <4>1. db'[a] = [st |-> "active", rev |-> j.list[a]]
        BY <1>1, <3>0, <3>2 DEF Written
      <4> QED
        BY <3>0, <4>1
    <3>3. CASE a \in j.present /\ a \notin Updated(h)
      <4>1. ~(j.list[a] > db[a].rev)
        BY <3>0, <3>3 DEF Updated
      <4> QED
        BY <3>0, <4>1
    <3> QED
      BY <3>1, <3>2, <3>3
  <2>3. ASSUME NEW a \in Alerts \ raced', NEW n \in 1..MaxRev, <<a, n>> \in seen'
        PROVE  db'[a].rev >= n
    <3>1. a \in Alerts \ raced /\ a \notin Lost(h)
      BY <1>1, <2>3
    <3>2. CASE <<a, n>> \in seen
      <4>1. db[a].rev >= n
        BY <3>1, <3>2 DEF IInv, SeenStored
      <4> QED
        BY <2>1, <4>1
    <3>3. CASE <<a, n>> \notin seen
      <4>1. PICK b \in j.chunk : <<a, n>> = <<b, j.list[b]>>
        BY <1>1, <2>3, <3>3
      <4>2. b = a /\ n = j.list[a]
        BY <4>1
      <4> QED
        BY <2>2, <3>1, <4>2
    <3> QED
      BY <3>2, <3>3
  <2> QED
    BY <2>3 DEF SeenStored
<1> QED
  BY <1>7, <1>8, <1>9

\* The invariant is inductive.
LEMMA NextInv == IInv /\ [Next]_vars => IInv'
<1> SUFFICES ASSUME IInv, [Next]_vars PROVE IInv'
  OBVIOUS
<1>0. JobsInv /\ RestInv
  BY DEF IInv
<1>1. ASSUME NEW a \in Alerts, Change(a) PROVE IInv'
  <2>1. TableInv' /\ SeenStored'
    BY <1>1, TableKept DEF Change
  <2>2. JobsInv'
    BY <1>0, <1>1 DEF Change, JobsInv
  <2>3. PICK r \in Revs : /\ feed' = [feed EXCEPT ![a] = r]
                          /\ latest' = [latest EXCEPT ![a] = IF r = 0 THEN @ ELSE r]
    BY <1>1 DEF Change
  <2>4. feed' \in Lists /\ latest' \in Lists
    BY <1>0, <2>3 DEF RestInv, Lists
  <2>5. version' \in 1..(MaxVersions + 1) /\ validator \in 0..version'
    BY <1>0, <1>1, BoundsAssumption DEF RestInv, Change
  <2>6. RestInv'
    BY <1>0, <1>1, <2>4, <2>5 DEF RestInv, Change, adapter
  <2> QED
    BY <2>1, <2>2, <2>6 DEF IInv
<1>2. ASSUME NEW a \in Alerts, NEW r \in 1..MaxRev, SeenExpires(a, r) PROVE IInv'
  <2>1. TableInv' /\ SeenStored'
    BY <1>2, TableKept DEF SeenExpires
  <2>2. JobsInv' /\ RestInv'
    BY <1>0, <1>2 DEF SeenExpires, JobsInv, RestInv, source, adapter
  <2> QED
    BY <2>1, <2>2 DEF IInv
<1>3. CASE Poll
  <2>1. TableInv' /\ SeenStored'
    BY <1>3, TableKept DEF Poll
  <2>2. JobsInv'
    BY <1>0, <1>3 DEF Poll, JobsInv
  <2>3. RestInv'
    BY <1>0, <1>3 DEF Poll, RestInv, source
  <2> QED
    BY <2>1, <2>2, <2>3 DEF IInv
<1>4. CASE Refused
  <2>1. TableInv' /\ SeenStored'
    BY <1>4, TableKept DEF Refused
  <2>2. JobsInv'
    BY <1>0, <1>4 DEF Refused, JobsInv
  <2>3. RestInv'
    BY <1>0, <1>4, FaultOK DEF Refused, RestInv, source
  <2> QED
    BY <2>1, <2>2, <2>3 DEF IInv
<1>5. CASE TimeOut
  <2>1. TableInv' /\ SeenStored'
    BY <1>5, TableKept DEF TimeOut
  <2>2. JobsInv'
    BY <1>0, <1>5 DEF TimeOut, JobsInv
  <2>3. RestInv'
    BY <1>0, <1>5, FaultOK DEF TimeOut, RestInv, source
  <2> QED
    BY <2>1, <2>2, <2>3 DEF IInv
<1>6. CASE AdapterRestart
  <2>1. TableInv' /\ SeenStored'
    BY <1>6, TableKept DEF AdapterRestart
  <2>2. JobsInv'
    BY <1>0, <1>6 DEF AdapterRestart, JobsInv
  <2>3. RestInv'
    BY <1>0, <1>6, FaultOK DEF AdapterRestart, RestInv, source
  <2> QED
    BY <2>1, <2>2, <2>3 DEF IInv
<1>7. ASSUME NEW h \in Handlers, Receive(h) PROVE IInv'
  <2>1. TableInv' /\ SeenStored'
    BY <1>7, TableKept DEF Receive
  <2>2. \E l \in Lists : Begin(h, l)
    <3>1. CASE Begin(h, got)
      BY <1>0, <3>1 DEF RestInv
    <3>2. CASE \E a \in Listed(got) : Begin(h, [got EXCEPT ![a] = 0])
      <4>1. PICK a \in Listed(got) : Begin(h, [got EXCEPT ![a] = 0])
        BY <3>2
      <4>2. [got EXCEPT ![a] = 0] \in Lists
        <5>1. 0 \in Revs /\ got \in [Alerts -> Revs]
          BY <1>0, BoundsAssumption DEF RestInv, Lists, Revs
        <5> QED
          BY <5>1 DEF Lists
      <4> QED
        BY <4>1, <4>2
    <3> QED
      BY <1>7, <3>1, <3>2 DEF Receive
  <2>3. JobsInv'
    BY <2>2, BeginOK
  <2>4. faults' \in 0..MaxFaults
    BY <1>0, <1>7, FaultOK DEF Receive, RestInv
  <2>5. RestInv'
    BY <1>0, <1>7, <2>4 DEF Receive, RestInv, source
  <2> QED
    BY <2>1, <2>3, <2>5 DEF IInv
<1>8. ASSUME NEW h \in Handlers, Load(h) PROVE IInv'
  <2>1. TableInv' /\ SeenStored'
    BY <1>8, TableKept DEF Load
  <2>2. RestInv'
    BY <1>0, <1>8 DEF Load, RestInv, source, adapter
  <2> QED
    BY <1>8, <2>1, <2>2, LoadOK DEF IInv
<1>9. ASSUME NEW h \in Handlers, Write(h) PROVE IInv'
  <2>1. Lost(h) \subseteq Alerts
    BY DEF Lost, Present
  <2>2. RestInv'
    BY <1>0, <1>9, <2>1 DEF Write, Transact, RestInv, source, adapter
  <2> QED
    BY <1>9, <2>2, WriteOK DEF IInv
<1>10. ASSUME NEW h \in Handlers PROVE Differs(h) \subseteq Alerts /\ job[h].list \in Lists
                                       /\ job[h].diff \in [Differs(h) -> Revs]
  <2>1. job[h].diff \in Diffs /\ job[h].list \in Lists
    BY <1>0, <1>10 DEF JobsInv, JobOK
  <2>2. PICK d \in SUBSET Alerts : job[h].diff \in [d -> Revs]
    BY <2>1 DEF Diffs
  <2> QED
    BY <2>1, <2>2 DEF Differs
<1>11. ASSUME NEW h \in Handlers, job' = [job EXCEPT ![h] = Idle] PROVE JobsInv'
  BY <1>0, <1>11, IdleOK DEF JobsInv
<1>12. ASSUME NEW h \in Handlers, WriteFails(h) PROVE IInv'
  <2>1. TableInv' /\ SeenStored'
    BY <1>12, TableKept DEF WriteFails
  <2>2. JobsInv'
    BY <1>11, <1>12 DEF WriteFails
  <2>3. faults' \in 0..MaxFaults
    BY <1>0, <1>12, FaultOK DEF WriteFails, RestInv
  <2>4. /\ validator' = validator /\ got' = got
        /\ phase' \in {"poll", "post", "wait"} /\ owner' \in Handlers \cup {Nobody}
    BY <1>0, <1>12, AnswerOK DEF WriteFails
  <2>5. RestInv'
    BY <1>0, <1>10, <1>12, <2>3, <2>4 DEF WriteFails, RestInv, source
  <2> QED
    BY <2>1, <2>2, <2>5 DEF IInv
<1>13. ASSUME NEW h \in Handlers, Publish(h) PROVE IInv'
  <2>1. TableInv' /\ SeenStored'
    BY <1>13, TableKept DEF Publish
  <2>2. JobsInv'
    BY <1>11, <1>13 DEF Publish
  <2>3. told' \in Lists /\ mirrored' \in Lists \cup {NoList} /\ behind' \subseteq Alerts
    BY <1>0, <1>10, <1>13 DEF Publish, RestInv, Lists
  <2>4. /\ validator' = validator /\ got' = got
        /\ phase' \in {"poll", "post", "wait"} /\ owner' \in Handlers \cup {Nobody}
    BY <1>0, <1>13, AnswerOK DEF Publish
  <2>5. RestInv'
    BY <1>0, <1>13, <2>3, <2>4 DEF Publish, RestInv, source
  <2> QED
    BY <2>1, <2>2, <2>5 DEF IInv
<1>14. CASE CoreRestart
  <2>1. TableInv' /\ SeenStored'
    BY <1>14, TableKept DEF CoreRestart
  <2>2. JobsInv'
    BY <1>14, IdleOK DEF CoreRestart, JobsInv
  <2>3. told' \in Lists
    BY <1>14, BoundsAssumption DEF CoreRestart, Lists, Revs, IInv, TableInv
  <2>4. /\ validator' = validator /\ got' = got
        /\ phase' \in {"poll", "post", "wait"} /\ owner' \in Handlers \cup {Nobody}
    BY <1>0, <1>14 DEF CoreRestart, RestInv, adapter
  <2>5. RestInv'
    BY <1>0, <1>14, <2>3, <2>4, FaultOK DEF CoreRestart, RestInv, source
  <2> QED
    BY <2>1, <2>2, <2>5 DEF IInv
<1>15. CASE UNCHANGED vars
  BY <1>15 DEF IInv, JobsInv, RestInv, TableInv, SeenStored, vars, source, adapter
<1> QED
  BY <1>1, <1>2, <1>3, <1>4, <1>5, <1>6, <1>7, <1>8, <1>9, <1>12, <1>13, <1>14, <1>15 DEF Next

LEMMA Inductive == Spec => []IInv
  BY InitInv, NextInv, PTL DEF Spec

\* The requests in hand, the chunks among them, and everything else have their types.
THEOREM TypeCorrect == Spec => []TypeOK
<1>1. IInv => TypeOK
  BY DEF IInv, JobsInv, RestInv, TableInv, TypeOK
<1> QED
  BY <1>1, Inductive, PTL

\* However chunks fail, lists overlap and processes restart, pipeline.gleam marks as seen
\* only what alert_writer has stored, with the one exception of a lost insert.
THEOREM SeenSound == Spec => []SeenStored
<1>1. IInv => SeenStored
  BY DEF IInv
<1> QED
  BY <1>1, Inductive, PTL

-----------------------------------------------------------------------------
(* The table and the subscribers.  A request that is alone is the only one  *)
(* that writes, from its beginning to its end.                              *)

\* What a subscriber that reads the table would see of an alert.
Shown(a) == IF a \in Active THEN db[a].rev ELSE 0

AloneInv ==
    \A h \in Handlers :
        /\ job[h].alone => job[h].pc # "idle" /\ \A o \in Handlers \ {h} : job[o].pc = "idle"
        /\ job[h].pc = "idle" => Differs(h) = {}
        /\ job[h].pc = "publish" => job[h].left = {}
        /\ job[h].alone /\ job[h].pc = "write" =>
              job[h].present = Listed(job[h].list) \cap Present

\* What has changed and was not told is in a diff or written off; the diff of
\* a request that is alone says what the table says.
ToldInv ==
    /\ \A a \in Alerts \ behind : (\A h \in Handlers : a \notin Differs(h)) => told[a] = Shown(a)
    /\ \A h \in Handlers : job[h].alone => \A a \in Differs(h) : job[h].diff[a] = Shown(a)

\* NOAA lists the latest revision of an alert or none: no list that is in hand
\* and no row has a later revision than the list polled last.
RevInv ==
    \A a \in Alerts :
        /\ feed[a] \in {0, latest[a]}
        /\ got[a] <= latest[a] /\ db[a].rev <= latest[a]
        /\ \A h \in Handlers : job[h].list[a] <= latest[a]
        /\ got[a] # 0 => db[a].rev <= got[a] /\ \A h \in Handlers : job[h].list[a] <= got[a]

\* The request the adapter waits for is the list polled last; if it is alone,
\* the table agrees with it but for the chunks to come, and from its first
\* transaction on also in what is listed at all.
Copied(h) ==
    /\ phase = "wait"
    /\ \A a \in Listed(job[h].list) : job[h].list[a] = got[a]
    /\ job[h].alone => \A a \in Listed(job[h].list) \ (job[h].left \cup raced) :
                          db[a].rev = job[h].list[a]
    /\ job[h].alone /\ job[h].wrote =>
          /\ Active \subseteq Listed(job[h].list)
          /\ \A a \in Listed(job[h].list) \ (job[h].left \cup raced) : a \in Active

CopyInv ==
    /\ \A h \in Handlers : owner = h => Copied(h)
    /\ mirrored # NoList => \A h \in Handlers : job[h].pc = "idle"
    /\ MirrorsList

\* The fields of a request that an operation changes, one lemma per operation.

Same(h) == job'[h] = job[h]

\* All but alone.
SameWork(h) ==
    /\ job'[h].pc = job[h].pc /\ job'[h].list = job[h].list /\ job'[h].left = job[h].left
    /\ job'[h].present = job[h].present /\ job'[h].diff = job[h].diff

LEMMA BeginFacts ==
    ASSUME IInv, NEW h \in Handlers, NEW l, Begin(h, l)
    PROVE  /\ \A o \in Handlers \ {h} : SameWork(o) /\ ~job'[o].alone
           /\ job'[h].list = l /\ job'[h].left = Unseen(l) /\ job'[h].diff = NoDiff
           /\ job'[h].pc = IF Unseen(l) = {} THEN "publish" ELSE "load"
           /\ job'[h].alone <=> \A o \in Handlers \ {h} : job[o].pc = "idle"
           /\ ~job'[h].wrote
<1>1. ASSUME NEW o \in Handlers \ {h} PROVE SameWork(o) /\ ~job'[o].alone
  <2>1. DOMAIN job[o] = JobFields
    BY DEF IInv, JobsInv
  <2>2. job'[o] = [job[o] EXCEPT !.alone = FALSE]
    BY DEF Begin
  <2> QED
    BY <2>1, <2>2 DEF JobFields, SameWork
<1>3. job'[h] = [Idle EXCEPT !.pc = IF Unseen(l) = {} THEN "publish" ELSE "load",
                             !.list = l, !.left = Unseen(l),
                             !.alone = \A p \in Handlers \ {h} : job[p].pc = "idle"]
  BY DEF Begin
<1>4. /\ job'[h].list = l /\ job'[h].left = Unseen(l) /\ job'[h].diff = NoDiff
      /\ job'[h].pc = IF Unseen(l) = {} THEN "publish" ELSE "load"
  BY <1>3 DEF Idle
<1>5. job'[h].alone <=> \A o \in Handlers \ {h} : job[o].pc = "idle"
  BY <1>3 DEF Idle
<1>6. ~job'[h].wrote
  BY <1>3 DEF Idle
<1> QED
  BY <1>1, <1>4, <1>5, <1>6

LEMMA LoadFacts ==
    ASSUME IInv, NEW h \in Handlers, Load(h)
    PROVE  /\ \A o \in Handlers \ {h} : Same(o)
           /\ job[h].pc = "load" /\ job'[h].pc = "write"
           /\ job'[h].present = Listed(job[h].list) \cap Present
           /\ job'[h].list = job[h].list /\ job'[h].left = job[h].left
           /\ job'[h].diff = job[h].diff /\ job'[h].wrote = job[h].wrote
           /\ job'[h].alone = job[h].alone
<1>1. PICK c \in Chunks(h) :
        job' = [job EXCEPT ![h].pc = "write", ![h].chunk = c,
                           ![h].present = Listed(job[h].list) \cap Present]
  BY DEF Load
<1>2. DOMAIN job = Handlers /\ DOMAIN job[h] = JobFields /\ job[h].pc = "load"
  BY DEF IInv, JobsInv, Load
<1> QED
  BY <1>1, <1>2 DEF JobFields, Same

LEMMA WriteFacts ==
    ASSUME IInv, NEW h \in Handlers, Write(h)
    PROVE  /\ \A o \in Handlers \ {h} : Same(o)
           /\ job[h].pc = "write"
           /\ job'[h].pc = IF job[h].left \ job[h].chunk = {} THEN "publish" ELSE "load"
           /\ job'[h].left = job[h].left \ job[h].chunk
           /\ job'[h].diff = Joined(h, Revived(h), Missing(h))
           /\ job'[h].list = job[h].list /\ job'[h].alone = job[h].alone
           /\ job'[h].wrote
<1>1. PICK left, diff : left = job[h].left \ job[h].chunk /\ diff = Joined(h, Revived(h), Missing(h))
  OBVIOUS
<1>2. job' = [job EXCEPT ![h].pc = IF left = {} THEN "publish" ELSE "load",
                         ![h].left = left, ![h].chunk = {}, ![h].present = {},
                         ![h].diff = diff, ![h].wrote = TRUE]
  BY <1>1 DEF Write, Transact
<1>3. DOMAIN job = Handlers /\ DOMAIN job[h] = JobFields /\ job[h].pc = "write"
  BY DEF IInv, JobsInv, Write, Transact
<1> QED
  BY <1>1, <1>2, <1>3 DEF JobFields, Same

LEMMA EndFacts ==
    ASSUME IInv, NEW h \in Handlers, job' = [job EXCEPT ![h] = Idle]
    PROVE  /\ \A o \in Handlers \ {h} : Same(o)
           /\ job'[h].pc = "idle" /\ DOMAIN job'[h].diff = {} /\ ~job'[h].alone
           /\ job'[h].list = [a \in Alerts |-> 0]
<1>1. (\A o \in Handlers \ {h} : Same(o)) /\ job'[h] = Idle
  BY DEF IInv, JobsInv, Same
<1>2. /\ Idle.pc = "idle" /\ DOMAIN Idle.diff = {} /\ ~Idle.alone /\ Idle.list = [a \in Alerts |-> 0]
  BY DEF Idle, NoDiff
<1> QED
  BY <1>1, <1>2

LEMMA RestartFacts ==
    ASSUME CoreRestart
    PROVE  \A h \in Handlers : /\ job'[h].pc = "idle" /\ DOMAIN job'[h].diff = {} /\ ~job'[h].alone
                               /\ job'[h].list = [a \in Alerts |-> 0]
<1>1. \A h \in Handlers : job'[h] = Idle
  BY DEF CoreRestart
<1>2. /\ Idle.pc = "idle" /\ DOMAIN Idle.diff = {} /\ ~Idle.alone /\ Idle.list = [a \in Alerts |-> 0]
  BY DEF Idle, NoDiff
<1> QED
  BY <1>1, <1>2

LEMMA NoDiffEmpty == DOMAIN NoDiff = {}
  BY DEF NoDiff

\* The steps of others than the core.
Outside ==
    \/ \E a \in Alerts : Change(a) \/ \E r \in 1..MaxRev : SeenExpires(a, r)
    \/ Poll \/ Refused \/ TimeOut \/ AdapterRestart \/ UNCHANGED vars

LEMMA OutsideFacts == ASSUME Outside PROVE UNCHANGED <<job, db, told, raced, behind>>
  BY DEF Outside, Change, SeenExpires, Poll, Refused, TimeOut, AdapterRestart, vars

LEMMA Cases ==
    ASSUME [Next]_vars
    PROVE  \/ Outside \/ CoreRestart
           \/ \E h \in Handlers : Receive(h) \/ Load(h) \/ Write(h) \/ WriteFails(h) \/ Publish(h)
  BY DEF Next, Outside

LEMMA ReceiveBegins ==
    ASSUME IInv, NEW h \in Handlers, Receive(h)
    PROVE  \E l : /\ Begin(h, l) /\ l \in Lists
                  /\ \A a \in Alerts : l[a] \in {0, got[a]}
<1>1. got \in [Alerts -> Revs] /\ 0 \in Revs
  BY BoundsAssumption DEF IInv, RestInv, Lists, Revs
<1>2. CASE Begin(h, got)
  BY <1>1, <1>2 DEF Lists
<1>3. ASSUME NEW b \in Listed(got), Begin(h, [got EXCEPT ![b] = 0])
      PROVE  \E l : /\ Begin(h, l) /\ l \in Lists
                    /\ \A a \in Alerts : l[a] \in {0, got[a]}
  <2>1. PICK l : l = [got EXCEPT ![b] = 0]
    OBVIOUS
  <2>2. l \in Lists /\ \A a \in Alerts : l[a] \in {0, got[a]}
    BY <1>1, <2>1 DEF Lists
  <2> QED
    BY <1>3, <2>1, <2>2
<1> QED
  BY <1>2, <1>3 DEF Receive

-----------------------------------------------------------------------------
LEMMA InitAlone == Init => AloneInv
  BY NoDiffEmpty DEF Init, AloneInv, Idle, Differs

LEMMA NextAlone == IInv /\ AloneInv /\ [Next]_vars => AloneInv'
<1> SUFFICES ASSUME IInv, AloneInv, [Next]_vars PROVE AloneInv'
  OBVIOUS
<1>1. CASE Outside
  BY <1>1, OutsideFacts DEF AloneInv, Differs, Present
<1>2. CASE CoreRestart
  BY <1>2, RestartFacts DEF AloneInv, Differs
<1>3. ASSUME NEW h \in Handlers, Receive(h) PROVE AloneInv'
  <2>1. PICK l : Begin(h, l)
    BY <1>3, ReceiveBegins
  <2>2. job[h].pc = "idle"
    BY <1>3 DEF Receive
  <2> QED
    BY <2>1, <2>2, BeginFacts DEF AloneInv, Differs, SameWork
<1>4. ASSUME NEW h \in Handlers, Load(h) PROVE AloneInv'
  <2>1. Present' = Present
    BY <1>4 DEF Load, Present
  <2> QED
    BY <1>4, <2>1, LoadFacts DEF AloneInv, Differs, Same, Listed
<1>5. ASSUME NEW h \in Handlers, Write(h) PROVE AloneInv'
  BY <1>5, WriteFacts DEF AloneInv, Differs, Same
<1>6. ASSUME NEW h \in Handlers, WriteFails(h) \/ Publish(h) PROVE AloneInv'
  <2>1. job' = [job EXCEPT ![h] = Idle]
    BY <1>6 DEF WriteFails, Publish
  <2>2. /\ \A o \in Handlers \ {h} : Same(o)
        /\ job'[h].pc = "idle" /\ DOMAIN job'[h].diff = {} /\ ~job'[h].alone
    BY <2>1, EndFacts
  <2>3. Present' = Present
    BY <1>6 DEF WriteFails, Publish, Present
  <2> QED
    BY <2>2, <2>3 DEF AloneInv, Differs, Same, Listed
<1> QED
  BY <1>1, <1>2, <1>3, <1>4, <1>5, <1>6, Cases

LEMMA AloneInvariant == Spec => []AloneInv
  BY Inductive, InitAlone, NextAlone, PTL DEF Spec

\* What a transaction does to a row, and to the diff of its request.
LEMMA Rows ==
    ASSUME IInv, NEW h \in Handlers, Write(h), NEW a \in Alerts
    PROVE  /\ a \in Inserted(h) \cup Updated(h) =>
                 db'[a].st = "active" /\ db'[a].rev = job[h].list[a]
           /\ a \in Revived(h) \ (Inserted(h) \cup Updated(h)) =>
                 db'[a].st = "active" /\ db'[a].rev = db[a].rev
           /\ a \in Missing(h) \ (Inserted(h) \cup Updated(h) \cup Revived(h)) =>
                 db'[a].st = "withdrawn" /\ db'[a].rev = db[a].rev
           /\ a \notin Inserted(h) \cup Updated(h) \cup Revived(h) \cup Missing(h) =>
                 db'[a] = db[a]
<1>1. db' = Written(h, Missing(h))
  BY DEF Write, Transact
<1>2. db[a] \in [st : {"absent", "active", "withdrawn"}, rev : Revs]
  BY DEF IInv, TableInv
<1> QED
  BY <1>1, <1>2 DEF Written

LEMMA InitTold == Init => ToldInv
<1> SUFFICES ASSUME Init PROVE ToldInv
  OBVIOUS
<1>1. /\ \A a \in Alerts : told[a] = 0 /\ a \notin Active
      /\ \A h \in Handlers : job[h] = Idle
  BY DEF Init, Active
<1>2. ~Idle.alone
  BY DEF Idle
<1> QED
  BY <1>1, <1>2 DEF ToldInv, Shown

LEMMA WriteTold == ASSUME IInv, AloneInv, ToldInv, NEW h \in Handlers, Write(h) PROVE ToldInv'
<1>1. PICK ins, rev, mis : ins = Inserted(h) \cup Updated(h) /\ rev = Revived(h) /\ mis = Missing(h)
  OBVIOUS
<1>2. /\ job'[h].diff = [a \in Differs(h) \cup ins \cup rev \cup mis |->
                           IF a \in ins THEN job[h].list[a]
                           ELSE IF a \in rev THEN db[a].rev
                           ELSE IF a \in mis THEN 0
                           ELSE job[h].diff[a]]
  BY <1>1, WriteFacts DEF Joined, Differs
<1>3. DOMAIN job'[h].diff = Differs(h) \cup ins \cup rev \cup mis
  BY <1>2
<1>4. ASSUME NEW a \in Alerts
      PROVE  Shown(a)' = IF a \in ins THEN job[h].list[a]
                         ELSE IF a \in rev THEN db[a].rev
                         ELSE IF a \in mis THEN 0
                         ELSE Shown(a)
  <2>1. Shown(a)' = IF db'[a].st = "active" THEN db'[a].rev ELSE 0
    BY DEF Shown, Active
  <2>2. Shown(a) = IF db[a].st = "active" THEN db[a].rev ELSE 0
    BY DEF Shown, Active
  <2> QED
    BY <1>1, <2>1, <2>2, Rows
<1>5. UNCHANGED <<told, behind>> /\ \A o \in Handlers \ {h} : Same(o)
  BY WriteFacts DEF Write, Transact
<1>6. ASSUME NEW a \in Alerts \ behind, \A o \in Handlers : a \notin DOMAIN job'[o].diff
      PROVE  told[a] = Shown(a)'
  <2>1. a \notin ins /\ a \notin rev /\ a \notin mis /\ a \notin Differs(h)
    BY <1>3, <1>6
  <2>2. \A o \in Handlers : a \notin Differs(o)
    BY <1>5, <1>6, <2>1 DEF Differs, Same
  <2>3. told[a] = Shown(a)
    BY <2>2 DEF ToldInv
  <2> QED
    BY <1>4, <2>1, <2>3
<1>7. ASSUME NEW o \in Handlers, job'[o].alone PROVE o = h /\ job[h].alone
  BY <1>5, <1>7, WriteFacts DEF AloneInv, Same
<1>8. ASSUME job[h].alone, NEW a \in DOMAIN job'[h].diff PROVE job'[h].diff[a] = Shown(a)'
  <2>1. a \in Alerts
    <3>1. JobsInv'
      BY WriteOK
    <3>2. job'[h].diff \in Diffs
      BY <3>1 DEF JobsInv, JobOK
    <3> QED
      BY <1>8, <3>2 DEF Diffs
  <2>2. a \in Differs(h) => job[h].diff[a] = Shown(a)
    BY <1>8 DEF ToldInv
  <2> QED
    BY <1>2, <1>3, <1>4, <1>8, <2>1, <2>2
<1> QED
  BY <1>5, <1>6, <1>7, <1>8 DEF ToldInv, Differs

LEMMA NextTold == IInv /\ AloneInv /\ ToldInv /\ [Next]_vars => ToldInv'
<1> SUFFICES ASSUME IInv, AloneInv, ToldInv, [Next]_vars PROVE ToldInv'
  OBVIOUS
<1>0. ASSUME UNCHANGED db PROVE \A a : Shown(a)' = Shown(a)
  BY <1>0 DEF Shown, Active
<1>1. CASE Outside
  <2>1. UNCHANGED <<job, db, told, raced, behind>> /\ \A a : Shown(a)' = Shown(a)
    BY <1>0, <1>1, OutsideFacts
  <2> QED
    BY <2>1 DEF ToldInv, Differs
<1>2. CASE CoreRestart
  <2>1. UNCHANGED db /\ told' = [a \in Alerts |-> IF a \in Active THEN db[a].rev ELSE 0]
    BY <1>2 DEF CoreRestart
  <2> QED
    BY <1>0, <1>2, <2>1, RestartFacts DEF ToldInv, Shown
<1>3. ASSUME NEW h \in Handlers, Receive(h) PROVE ToldInv'
  <2>1. PICK l : Begin(h, l)
    BY <1>3, ReceiveBegins
  <2>2. /\ job[h].pc = "idle" /\ UNCHANGED <<db, told, behind>>
        /\ \A a : Shown(a)' = Shown(a)
    BY <1>0, <1>3 DEF Receive
  <2>3. \A o \in Handlers : Differs(o)' = Differs(o)
    <3>1. Differs(h) = {} /\ Differs(h)' = {}
      BY <2>1, <2>2, BeginFacts, NoDiffEmpty DEF AloneInv, Differs
    <3>2. ASSUME NEW o \in Handlers \ {h} PROVE Differs(o)' = Differs(o)
      BY <2>1, BeginFacts DEF Differs, SameWork
    <3> QED
      BY <3>1, <3>2
  <2>4. \A o \in Handlers : job'[o].alone => Differs(o)' = {}
    BY <2>1, BeginFacts, NoDiffEmpty DEF Differs
  <2> QED
    BY <2>2, <2>3, <2>4 DEF ToldInv
<1>4. ASSUME NEW h \in Handlers, Load(h) PROVE ToldInv'
  <2>1. UNCHANGED <<db, told, behind>> /\ \A a : Shown(a)' = Shown(a)
    BY <1>0, <1>4 DEF Load
  <2>2. \A o \in Handlers : job'[o].diff = job[o].diff /\ job'[o].alone = job[o].alone
    BY <1>4, LoadFacts DEF Same
  <2> QED
    BY <2>1, <2>2 DEF ToldInv, Differs
<1>5. ASSUME NEW h \in Handlers, Write(h) PROVE ToldInv'
  BY <1>5, WriteTold
<1>6. ASSUME NEW h \in Handlers, WriteFails(h) PROVE ToldInv'
  <2>1. /\ UNCHANGED <<db, told>> /\ behind' = behind \cup Differs(h)
        /\ \A a : Shown(a)' = Shown(a)
    BY <1>0, <1>6 DEF WriteFails
  <2>2. /\ \A o \in Handlers \ {h} : Same(o)
        /\ DOMAIN job'[h].diff = {} /\ ~job'[h].alone
    BY <1>6, EndFacts DEF WriteFails
  <2> QED
    BY <2>1, <2>2 DEF ToldInv, Differs, Same
<1>7. ASSUME NEW h \in Handlers, Publish(h) PROVE ToldInv'
  <2>1. /\ job' = [job EXCEPT ![h] = Idle] /\ UNCHANGED db /\ job[h].pc = "publish"
        /\ told' = [a \in Alerts |-> IF a \in Differs(h) THEN job[h].diff[a] ELSE told[a]]
        /\ behind' = IF job[h].alone THEN behind \ Differs(h) ELSE behind \cup Differs(h)
        /\ \A a : Shown(a)' = Shown(a)
    BY <1>0, <1>7 DEF Publish
  <2>2. /\ \A o \in Handlers \ {h} : Same(o)
        /\ DOMAIN job'[h].diff = {} /\ ~job'[h].alone
    BY <2>1, EndFacts
  <2>3. CASE job[h].alone
    <3>1. \A o \in Handlers \ {h} : Differs(o) = {} /\ ~job[o].alone
      BY <2>1, <2>3 DEF AloneInv
    <3>2. ASSUME NEW a \in Alerts \ behind' PROVE told'[a] = Shown(a)
      BY <2>1, <2>3, <3>1, <3>2 DEF ToldInv
    <3> QED
      BY <2>1, <2>2, <3>1, <3>2 DEF ToldInv, Same
  <2>4. CASE ~job[h].alone
    BY <2>1, <2>2, <2>4 DEF ToldInv, Differs, Same
  <2> QED
    BY <2>3, <2>4
<1> QED
  BY <1>1, <1>2, <1>3, <1>4, <1>5, <1>6, <1>7, Cases

\* noaa_controller publishes the joint diff of all chunks after the last: with no
\* request in hand the subscribers of alert_hub know every row as it is, but
\* for those that two lists wrote at once and those of a list that failed.
THEOREM SubscribersInformed == Spec => []SubscribersTold
<1>1. AloneInv /\ ToldInv => SubscribersTold
  BY DEF AloneInv, ToldInv, SubscribersTold, Shown
<1>2. Spec => []ToldInv
  BY AloneInvariant, Inductive, InitTold, NextTold, PTL DEF Spec
<1> QED
  BY <1>1, <1>2, AloneInvariant, PTL

-----------------------------------------------------------------------------
LEMMA RevNat ==
    ASSUME IInv, NEW a \in Alerts
    PROVE  /\ feed[a] \in Nat /\ latest[a] \in Nat /\ got[a] \in Nat /\ db[a].rev \in Nat
           /\ \A h \in Handlers : job[h].list[a] \in Nat
<1>1. Revs \subseteq Nat
  BY BoundsAssumption DEF Revs
<1>2. feed \in [Alerts -> Revs] /\ latest \in [Alerts -> Revs] /\ got \in [Alerts -> Revs]
  BY DEF IInv, RestInv, Lists
<1>3. db[a].rev \in Revs
  BY DEF IInv, TableInv
<1>4. \A h \in Handlers : job[h].list \in [Alerts -> Revs]
  BY DEF IInv, JobsInv, JobOK, Lists
<1> QED
  BY <1>1, <1>2, <1>3, <1>4

LEMMA InitRev == Init => RevInv
<1> SUFFICES ASSUME Init, NEW a \in Alerts
             PROVE  /\ feed[a] = 0 /\ latest[a] = 0 /\ got[a] = 0 /\ db[a].rev = 0
                    /\ \A h \in Handlers : job[h].list[a] = 0
  BY DEF RevInv
<1> QED
  BY DEF Init, Idle

LEMMA NextRev == IInv /\ RevInv /\ [Next]_vars => RevInv'
<1> SUFFICES ASSUME IInv, RevInv, [Next]_vars PROVE RevInv'
  OBVIOUS
<1>0. \A a \in Alerts : /\ feed[a] \in Nat /\ latest[a] \in Nat /\ got[a] \in Nat /\ db[a].rev \in Nat
                        /\ \A h \in Handlers : job[h].list[a] \in Nat
  BY RevNat
<1>1. ASSUME UNCHANGED <<source, got, db>>,
             \A a \in Alerts, h \in Handlers : job'[h].list[a] \in {0, got[a], job[h].list[a]}
      PROVE  RevInv'
  BY <1>0, <1>1 DEF RevInv, source
<1>2. ASSUME NEW b \in Alerts, Change(b) PROVE RevInv'
  <2>1. PICK r \in {0, latest[b], latest[b] + 1} :
             /\ feed' = [feed EXCEPT ![b] = r]
             /\ latest' = [latest EXCEPT ![b] = IF r = 0 THEN latest[b] ELSE r]
    BY <1>2 DEF Change
  <2>2. UNCHANGED <<got, db, job>> /\ feed \in [Alerts -> Revs] /\ latest \in [Alerts -> Revs]
    BY <1>2 DEF Change, adapter, IInv, RestInv, Lists
  <2>3. \A a \in Alerts : latest'[a] >= latest[a] /\ latest'[a] \in Nat /\ feed'[a] \in {0, latest'[a]}
    <3> SUFFICES ASSUME NEW a \in Alerts
                 PROVE  latest'[a] >= latest[a] /\ latest'[a] \in Nat /\ feed'[a] \in {0, latest'[a]}
      OBVIOUS
    <3>1. CASE a = b
      BY <1>0, <2>1, <2>2, <3>1
    <3>2. CASE a # b
      BY <1>0, <2>1, <2>2, <3>2 DEF RevInv
    <3> QED
      BY <3>1, <3>2
  <2> QED
    BY <1>0, <2>2, <2>3 DEF RevInv
<1>3. CASE Poll
  <2>1. UNCHANGED <<feed, latest, db, job>> /\ got' = feed
    BY <1>3 DEF Poll, source
  <2> QED
    BY <1>0, <2>1 DEF RevInv
<1>4. CASE Outside /\ ~Poll /\ \A a \in Alerts : ~Change(a)
  BY <1>1, <1>4 DEF Outside, SeenExpires, Refused, TimeOut, AdapterRestart, adapter, vars
<1>5. CASE CoreRestart
  <2>1. UNCHANGED <<source, got, db>>
    BY <1>5 DEF CoreRestart, adapter
  <2> QED
    BY <1>1, <1>5, <2>1, RestartFacts
<1>6. ASSUME NEW h \in Handlers, Receive(h) PROVE RevInv'
  <2>1. PICK l : Begin(h, l) /\ \A a \in Alerts : l[a] \in {0, got[a]}
    BY <1>6, ReceiveBegins
  <2>2. job'[h].list = l /\ \A o \in Handlers \ {h} : job'[o].list = job[o].list
    BY <2>1, BeginFacts DEF SameWork
  <2>3. UNCHANGED <<source, got, db>>
    BY <1>6 DEF Receive
  <2> QED
    BY <1>1, <2>1, <2>2, <2>3
<1>7. ASSUME NEW h \in Handlers, Load(h) PROVE RevInv'
  <2>1. \A o \in Handlers : job'[o].list = job[o].list
    BY <1>7, LoadFacts DEF Same
  <2> QED
    BY <1>1, <1>7, <2>1 DEF Load, adapter
<1>8. ASSUME NEW h \in Handlers, Write(h) PROVE RevInv'
  <2>1. \A o \in Handlers : job'[o].list = job[o].list
    BY <1>8, WriteFacts DEF Same
  <2>2. \A a \in Alerts : db'[a].rev = db[a].rev \/ db'[a].rev = job[h].list[a]
    BY <1>8, Rows
  <2>3. UNCHANGED <<feed, latest, got>>
    BY <1>8 DEF Write, Transact, source, adapter
  <2> QED
    BY <1>0, <2>1, <2>2, <2>3 DEF RevInv
<1>9. ASSUME NEW h \in Handlers, WriteFails(h) \/ Publish(h) PROVE RevInv'
  <2>1. job' = [job EXCEPT ![h] = Idle]
    BY <1>9 DEF WriteFails, Publish
  <2>2. job'[h].list = [a \in Alerts |-> 0] /\ \A o \in Handlers \ {h} : job'[o].list = job[o].list
    BY <2>1, EndFacts DEF Same
  <2>3. UNCHANGED <<source, got, db>>
    BY <1>9 DEF WriteFails, Publish, Answer, adapter
  <2> QED
    BY <1>1, <2>2, <2>3
<1> QED
  BY <1>2, <1>3, <1>4, <1>5, <1>6, <1>7, <1>8, <1>9, Cases DEF Outside

-----------------------------------------------------------------------------
\* What another does leaves the request that the adapter waits for as it is.
LEMMA CopiedKept ==
    ASSUME NEW o \in Handlers, Copied(o), UNCHANGED <<phase, got, raced, db>>,
           job'[o].list = job[o].list, job'[o].left = job[o].left, job'[o].wrote = job[o].wrote,
           job'[o].alone => job[o].alone
    PROVE  Copied(o)'
  BY DEF Copied, Listed, Active

LEMMA InitCopy == Init => CopyInv
<1> SUFFICES ASSUME Init PROVE CopyInv
  OBVIOUS
<1>1. owner = Nobody /\ mirrored = NoList
  BY DEF Init
<1> QED
  BY <1>1, SetsAssumption DEF CopyInv, MirrorsList

LEMMA ReceiveCopy ==
    ASSUME IInv, RevInv, CopyInv, NEW h \in Handlers, Receive(h)
    PROVE  CopyInv'
<1>1. PICK l : Begin(h, l) /\ l \in Lists /\ \A a \in Alerts : l[a] \in {0, got[a]}
  BY ReceiveBegins
<1>2. /\ phase' = "wait" /\ owner' = h /\ mirrored' = NoList /\ UNCHANGED <<got, db, seen, raced>>
  BY DEF Receive
<1>3. job'[h].list = l /\ job'[h].left = Unseen(l) /\ ~job'[h].wrote
  BY <1>1, BeginFacts
<1>4. \A a \in Listed(l) : a \in Alerts /\ l[a] = got[a] /\ got[a] # 0
  BY <1>1 DEF Listed
<1>5. ASSUME NEW a \in Listed(l) \ (Unseen(l) \cup raced) PROVE db[a].rev = l[a]
  <2>1. <<a, l[a]>> \in seen /\ a \in Alerts \ raced
    BY <1>4, <1>5 DEF Unseen
  <2>2. l[a] \in 1..MaxRev
    BY <2>1 DEF IInv, TableInv
  <2>3. db[a].rev >= l[a]
    BY <2>1, <2>2 DEF IInv, SeenStored
  <2>4. db[a].rev <= l[a]
    BY <1>4, <1>5 DEF RevInv
  <2> QED
    BY <2>1, <2>2, <2>3, <2>4, RevNat
<1>6. Copied(h)'
  <2>1. Listed(job'[h].list) = Listed(l)
    BY <1>3
  <2> QED
    BY <1>2, <1>3, <1>4, <1>5, <2>1 DEF Copied, Listed
<1> QED
  BY <1>2, <1>6 DEF CopyInv, MirrorsList

\* A transaction of the request the adapter waits for, when it is alone.
LEMMA WriteCopied ==
    ASSUME IInv, AloneInv, RevInv, NEW h \in Handlers, Copied(h), Write(h)
    PROVE  Copied(h)'
<1>0. PICK j : j = job[h]
  OBVIOUS
<1>1. /\ j.pc = "write" /\ job'[h].list = j.list /\ job'[h].left = j.left \ j.chunk
      /\ job'[h].alone = j.alone /\ j.chunk \subseteq j.left /\ j.left \subseteq Listed(j.list)
  BY <1>0, WriteFacts DEF IInv, JobsInv, JobOK
<1>2. UNCHANGED <<phase, got>> /\ raced' = raced \cup Lost(h)
  BY DEF Write, Transact, adapter
<1>3. phase' = "wait" /\ \A a \in Listed(j.list) : j.list[a] = got[a]
  BY <1>0, <1>2 DEF Copied
<1>4. Listed(job[h].list)' = Listed(j.list) /\ Listed(j.list) \subseteq Alerts
  BY <1>1 DEF Listed
<1>5. ASSUME j.alone
      PROVE  /\ Active' \subseteq Listed(j.list)
             /\ \A a \in Listed(j.list) \ ((j.left \ j.chunk) \cup raced) :
                   db'[a].rev = j.list[a] /\ db'[a].st = "active"
  <2>1. j.present = Listed(j.list) \cap Present
    BY <1>0, <1>1, <1>5 DEF AloneInv
  <2>2. \A a \in Alerts : db[a].st \in {"absent", "active", "withdrawn"}
    BY DEF IInv, TableInv
  <2>3. ASSUME NEW a \in Listed(j.list) \ ((j.left \ j.chunk) \cup raced)
        PROVE  db'[a].rev = j.list[a] /\ db'[a].st = "active"
    <3>0. a \in Alerts /\ j.list[a] \in Nat /\ db[a].rev \in Nat /\ j.list[a] # 0
      BY <1>0, <2>3, RevNat DEF Listed
    <3>1. CASE a \in Inserted(h) \cup Updated(h)
      BY <1>0, <3>0, <3>1, Rows
    <3>2. CASE a \notin Inserted(h) \cup Updated(h)
      <4>1. db[a].rev = j.list[a]
        <5>1. CASE a \in j.chunk
          <6>1. a \in j.present
            BY <1>0, <2>1, <2>3, <3>2, <5>1 DEF Inserted
          <6>2. ~(j.list[a] > db[a].rev)
            BY <1>0, <3>2, <5>1, <6>1 DEF Updated
          <6>3. db[a].rev <= j.list[a]
            BY <1>3, <2>3, <3>0 DEF RevInv
          <6> QED
            BY <3>0, <6>2, <6>3
        <5>2. CASE a \notin j.chunk
          BY <1>0, <1>5, <2>3, <5>2 DEF Copied
        <5> QED
          BY <5>1, <5>2
      <4>2. db[a].st # "absent"
        BY <3>0, <4>1 DEF IInv, TableInv
      <4>3. CASE db[a].st = "withdrawn"
        <5>1. a \in Revived(h)
          BY <1>0, <2>3, <3>2, <4>3 DEF Revived
        <5> QED
          BY <3>0, <3>2, <4>1, <5>1, Rows
      <4>4. CASE db[a].st = "active"
        <5>1. a \notin Revived(h) /\ a \notin Missing(h)
          BY <1>0, <2>3, <4>4 DEF Revived, Missing
        <5> QED
          BY <3>0, <3>2, <4>1, <4>4, <5>1, Rows
      <4> QED
        BY <2>2, <3>0, <4>2, <4>3, <4>4
    <3> QED
      BY <3>1, <3>2
  <2>4. ASSUME NEW a \in Active' PROVE a \in Listed(j.list)
    <3>0. a \in Alerts /\ db'[a].st = "active"
      BY <2>4 DEF Active
    <3> SUFFICES ASSUME a \notin Listed(j.list) PROVE FALSE
      OBVIOUS
    <3>1. a \notin Inserted(h) /\ a \notin Updated(h) /\ a \notin Revived(h)
      BY <1>0, <1>1 DEF Inserted, Updated, Revived
    <3>2. a \notin Missing(h)
      BY <3>0, <3>1, Rows
    <3>3. db'[a] = db[a]
      BY <3>0, <3>1, <3>2, Rows
    <3> QED
      BY <1>0, <3>0, <3>2, <3>3 DEF Missing, Active
  <2> QED
    BY <2>3, <2>4
<1>6. \A a \in Alerts : db'[a].st = "active" => a \in Active'
  BY DEF Active
<1> QED
  BY <1>1, <1>2, <1>3, <1>4, <1>5, <1>6 DEF Copied

LEMMA NextCopy == IInv /\ AloneInv /\ RevInv /\ CopyInv /\ [Next]_vars => CopyInv'
<1> SUFFICES ASSUME IInv, AloneInv, RevInv, CopyInv, [Next]_vars PROVE CopyInv'
  OBVIOUS
<1>0. \A h \in Handlers : h # Nobody
  BY SetsAssumption
<1>1. CASE Outside
  <2>1. UNCHANGED <<job, db, raced>> /\ (mirrored' = mirrored \/ mirrored' = NoList)
    BY <1>1 DEF Outside, Change, SeenExpires, Poll, Refused, TimeOut, AdapterRestart, vars
  <2>2. ASSUME NEW o \in Handlers, owner' = o PROVE owner = o /\ UNCHANGED <<phase, got>>
    <3>1. owner = o => phase = "wait"
      BY DEF CopyInv, Copied
    <3> QED
      BY <1>0, <1>1, <2>2, <3>1 DEF Outside, Change, SeenExpires, Poll, Refused, TimeOut,
                                    AdapterRestart, vars, adapter
  <2>3. \A o \in Handlers : owner' = o => Copied(o)'
    BY <2>1, <2>2, CopiedKept DEF CopyInv
  <2>4. MirrorsList'
    BY <2>1 DEF CopyInv, MirrorsList
  <2> QED
    BY <2>1, <2>3, <2>4 DEF CopyInv
<1>2. CASE CoreRestart
  <2>1. UNCHANGED <<db, raced, mirrored>> /\ \A h \in Handlers : job'[h].pc = "idle"
    BY <1>2, RestartFacts DEF CoreRestart
  <2>2. \A o \in Handlers : owner' # o
    BY <1>0, <1>2 DEF CoreRestart, adapter, CopyInv, Copied
  <2> QED
    BY <2>1, <2>2 DEF CopyInv, MirrorsList
<1>3. ASSUME NEW h \in Handlers, Receive(h) PROVE CopyInv'
  BY <1>3, ReceiveCopy
<1>4. ASSUME NEW h \in Handlers, Load(h) PROVE CopyInv'
  <2>1. UNCHANGED <<phase, got, owner, db, raced, mirrored>> /\ mirrored = NoList
    BY <1>4 DEF Load, adapter, CopyInv
  <2>2. \A o \in Handlers : /\ job'[o].list = job[o].list /\ job'[o].left = job[o].left
                            /\ job'[o].wrote = job[o].wrote /\ job'[o].alone = job[o].alone
    BY <1>4, LoadFacts DEF Same
  <2>3. \A o \in Handlers : owner' = o => Copied(o)'
    BY <2>1, <2>2, CopiedKept DEF CopyInv
  <2> QED
    BY <2>1, <2>3 DEF CopyInv, MirrorsList
<1>5. ASSUME NEW h \in Handlers, Write(h) PROVE CopyInv'
  <2>1. UNCHANGED <<phase, got, owner, mirrored>> /\ mirrored = NoList
    BY <1>5 DEF Write, Transact, adapter, CopyInv
  <2>2. owner = h => Copied(h)'
    BY <1>5, WriteCopied DEF CopyInv
  <2>3. ASSUME NEW o \in Handlers, owner = o, o # h PROVE Copied(o)'
    <3>1. job'[o] = job[o] /\ ~job[o].alone /\ Copied(o)
      BY <1>5, <2>3, WriteFacts DEF Same, AloneInv, CopyInv
    <3> QED
      BY <2>1, <3>1 DEF Copied, Listed
  <2> QED
    BY <2>1, <2>2, <2>3 DEF CopyInv, MirrorsList
<1>6. ASSUME NEW h \in Handlers, WriteFails(h) \/ Publish(h) PROVE CopyInv'
  <2>1. job' = [job EXCEPT ![h] = Idle]
    BY <1>6 DEF WriteFails, Publish
  <2>2. /\ \A o \in Handlers \ {h} : Same(o)
        /\ job'[h].pc = "idle"
    BY <2>1, EndFacts
  <2>3. UNCHANGED <<db, raced, got>> /\ owner' # h
        /\ \A o \in Handlers \ {h} : owner' = o => owner = o /\ phase' = phase
    BY <1>0, <1>6 DEF WriteFails, Publish, Answer, adapter
  <2>4. ASSUME NEW o \in Handlers, owner' = o PROVE Copied(o)'
    BY <2>2, <2>3, <2>4, CopiedKept DEF CopyInv, Same
  <2>5. mirrored = NoList
    BY <1>6 DEF CopyInv, WriteFails, Publish
  <2>6. CASE mirrored' = NoList
    BY <2>4, <2>6 DEF CopyInv, MirrorsList
  <2>7. CASE mirrored' # NoList
    <3>1. /\ mirrored' = job[h].list /\ owner = h /\ job[h].alone /\ job[h].wrote
          /\ job[h].pc = "publish"
      BY <1>6, <2>5, <2>7 DEF WriteFails, Publish
    <3>2. job[h].left = {} /\ \A o \in Handlers \ {h} : job[o].pc = "idle"
      BY <3>1 DEF AloneInv
    <3>3. \A o \in Handlers : job'[o].pc = "idle"
      BY <2>2, <3>2 DEF Same
    <3>4. /\ Active \subseteq Listed(job[h].list)
          /\ \A a \in Listed(job[h].list) \ raced : a \in Active /\ db[a].rev = job[h].list[a]
      BY <3>1, <3>2 DEF CopyInv, Copied
    <3>5. MirrorsList'
      BY <2>3, <3>1, <3>4 DEF MirrorsList, Listed, Active
    <3> QED
      BY <2>4, <3>3, <3>5 DEF CopyInv
  <2> QED
    BY <2>6, <2>7
<1> QED
  BY <1>1, <1>2, <1>3, <1>4, <1>5, <1>6, Cases

\* A list that the core has taken with nothing else in hand, and of which it
\* had to write anything, is the table afterwards: the insertions, updates and
\* revivals of alert_writer in chunks, the sweep of what is no longer listed,
\* and what the seen set had filtered out add up to the list, however much of
\* earlier lists failed, overlapped or was lost.
THEOREM TableMirrorsList == Spec => []MirrorsList
<1>1. CopyInv => MirrorsList
  BY DEF CopyInv
<1>2. Spec => []RevInv
  BY Inductive, InitRev, NextRev, PTL DEF Spec
<1>3. Spec => []CopyInv
  BY <1>2, AloneInvariant, Inductive, InitCopy, NextCopy, PTL DEF Spec
<1> QED
  BY <1>1, <1>3, PTL
=============================================================================
