-------------------------- MODULE AlertStreamProofs --------------------------
(***************************************************************************)
(* The response cache never keeps a snapshot that a finished write has     *)
(* made obsolete, an open page never buffers without a snapshot on its     *)
(* way, and once everything has arrived the page shows the alerts in       *)
(* force, whatever the number of alerts, handlers, posts and connections.  *)
(*                                                                         *)
(* The last of these (PageInSync) rests on a chain of invariants, each of  *)
(* which needs those before it: WriterInv and SeenInv (the writers and the *)
(* clocks of events and snapshots), DiffInv (what a writer has yet to      *)
(* publish), BodyInv and PageBody (what a snapshot is right about, of the  *)
(* alerts whose changes have been published or will be: Trusted),          *)
(* LineInv (what the last event on its way to an alert says) and ViewInv   *)
(* (what the page shows when nothing of an alert is on its way).           *)
(***************************************************************************)
EXTENDS AlertStream, NaturalsInduction, WellFoundedInduction, SequenceTheorems, FiniteSetTheorems,
        TLAPS

----------------------------------------------------------------------------
(* The response cache, and the buffer of the page.                         *)

\* A body says of every alert that no writer leaves in doubt what the database says, time
\* having run out aside.
Current(body) == \A a \in Alerts \ Doubtful : body[a] = Active[a] \/ db[a].st = "due"

WriterFields == {"pc", "diff", "wrote", "behind", "late"}

WriterShape ==
    /\ DOMAIN writer = Writers
    /\ \A w \in Writers :
         /\ DOMAIN writer[w] = WriterFields
         /\ writer[w].pc = "idle" => writer[w].wrote = {}

ShapeInv ==
    /\ DOMAIN db = Alerts
    /\ WriterShape
    /\ cache = [gen |-> cache.gen, entry |-> cache.entry]
    /\ cache.gen \in Nat \ {0}
    /\ DOMAIN req = Readers
    /\ \A r \in Readers : /\ req[r] = [pc |-> req[r].pc, gen |-> req[r].gen, body |-> req[r].body]
                          /\ req[r].gen \in Nat

\* A request was given its generation in the past.
GenInv == \A r \in Readers : req[r].gen <= cache.gen

\* A body that would be accepted is current.
PutInv == \A r \in Readers :
            req[r].pc = "put" /\ req[r].gen = cache.gen => Current(req[r].body)

CacheInv == ShapeInv /\ GenInv /\ PutInv /\ CacheFresh

LEMMA CacheInit == Init => CacheInv
  BY DEF Init, CacheInv, ShapeInv, WriterShape, WriterFields, GenInv, PutInv, CacheFresh, NoReq,
         Asking, Idle

\* A step that leaves the cache alone, and every row of which no doubt is left.
LEMMA RowsKeep ==
    ASSUME CacheInv, UNCHANGED <<cache, req>>, WriterShape', DOMAIN db' = Alerts,
           \A a \in Alerts \ Doubtful' :
              /\ a \notin Doubtful
              /\ db'[a].st = "due" \/ (db'[a] = db[a] /\ Active'[a] = Active[a])
              /\ db[a].st = "due" => db'[a].st = "due"
    PROVE  CacheInv'
<1>1. ShapeInv' /\ GenInv'
  BY DEF CacheInv, ShapeInv, GenInv
<1>2. ASSUME NEW body, Current(body)
      PROVE  \A a \in Alerts \ Doubtful' : body[a] = Active'[a] \/ db'[a].st = "due"
  BY <1>2 DEF Current
<1>3. PutInv'
  BY <1>2 DEF CacheInv, PutInv, Current
<1>4. CacheFresh'
  BY <1>2 DEF CacheInv, CacheFresh, Current
<1> QED
  BY <1>1, <1>3, <1>4 DEF CacheInv

\* A transaction leaves doubt of the rows that it has written.
LEMMA CommitKeeps ==
    ASSUME CacheInv, NEW w \in Writers, NEW rows, DOMAIN rows = Alerts, NEW diff,
           Commit(w, rows, diff), UNCHANGED <<cache, req, spared>>
    PROVE  CacheInv'
<1> DEFINE wrote == {a \in Alerts : rows[a] # db[a]}
           behind == {o \in Writers \ {w} : writer[o].pc = "publish"}
           new == [pc |-> "publish", diff |-> diff, wrote |-> wrote, behind |-> behind, late |-> {}]
<1>1. /\ DOMAIN writer' = Writers /\ writer'[w] = new /\ writer[w].wrote = {}
      /\ \A o \in Writers \ {w} : writer'[o] = writer[o]
      /\ db' = rows
  BY DEF Commit, CacheInv, ShapeInv, WriterShape
<1>2. new.pc = "publish" /\ new.wrote = wrote /\ DOMAIN new = WriterFields
  BY DEF WriterFields
<1> HIDE DEF new
<1>3. WriterShape'
  BY <1>1, <1>2 DEF CacheInv, ShapeInv, WriterShape
<1>4. ASSUME NEW a \in Alerts, a \notin Doubtful'
      PROVE  a \notin Doubtful /\ db'[a] = db[a] /\ Active'[a] = Active[a]
  <2>1. a \notin spared /\ \A o \in Writers : a \notin writer'[o].wrote
    BY <1>4 DEF Doubtful
  <2>2. a \notin wrote /\ \A o \in Writers : a \notin writer[o].wrote
    BY <1>1, <1>2, <2>1
  <2>3. a \notin Doubtful
    BY <2>1, <2>2 DEF Doubtful
  <2>4. db'[a] = db[a]
    BY <1>1, <2>2
  <2> QED
    BY <2>3, <2>4 DEF Active
<1> QED
  BY <1>1, <1>3, <1>4, RowsKeep

\* A writer that is done with its diff has written what it had.
LEMMA DoneWrote ==
    ASSUME WriterShape, NEW w \in Writers, NEW state, Done(w, state)
    PROVE  /\ DOMAIN writer' = Writers /\ writer'[w] = state
           /\ \A o \in Writers \ {w} : /\ DOMAIN writer'[o] = WriterFields
                                       /\ writer'[o].pc = writer[o].pc
                                       /\ writer'[o].wrote = writer[o].wrote
<1>1. DOMAIN writer' = Writers /\ writer'[w] = state
  BY DEF Done
<1>2. \A o \in Writers \ {w} : \E b, l : writer'[o] = [writer[o] EXCEPT !.behind = b, !.late = l]
  BY DEF Done
<1>3. \A o \in Writers : DOMAIN writer[o] = WriterFields
  BY DEF WriterShape
<1> QED
  BY <1>1, <1>2, <1>3 DEF WriterFields

\* A step that leaves rows, writers and cache alone, and the request or its end.
LEMMA ReqKeeps ==
    ASSUME CacheInv, UNCHANGED <<db, writer, cache, spared>>,
           req' = req \/ \E q \in {NoReq, Asking} : req' = [req EXCEPT !["page"] = q]
    PROVE  CacheInv'
<1>1. Active' = Active /\ Doubtful' = Doubtful
  BY DEF Active, Doubtful
<1>2. DOMAIN req' = Readers
      /\ \A r \in Readers : req'[r] = req[r] \/ req'[r] = NoReq \/ req'[r] = Asking
  BY DEF CacheInv, ShapeInv
<1>3. ShapeInv' /\ GenInv' /\ PutInv'
  BY <1>1, <1>2 DEF CacheInv, ShapeInv, WriterShape, GenInv, PutInv, Current, NoReq, Asking
<1>4. CacheFresh'
  BY <1>1 DEF CacheInv, CacheFresh
<1> QED
  BY <1>3, <1>4 DEF CacheInv

\* One request moves on, and what it would put into the cache is current.
LEMMA StepKeeps ==
    ASSUME CacheInv, UNCHANGED <<db, writer, spared>>, NEW r \in Readers,
           DOMAIN req' = Readers, \A o \in Readers \ {r} : req'[o] = req[o],
           req'[r] = [pc |-> req'[r].pc, gen |-> req'[r].gen, body |-> req'[r].body],
           req'[r].gen \in Nat, req'[r].gen <= cache.gen,
           req'[r].pc = "put" => req'[r].body = Active,
           cache' = cache \/ ( /\ cache' = [cache EXCEPT !.entry = req[r].body]
                               /\ req[r].pc = "put" /\ req[r].gen = cache.gen)
    PROVE  CacheInv'
<1>1. Active' = Active /\ Doubtful' = Doubtful
  BY DEF Active, Doubtful
<1>3. cache' = [gen |-> cache'.gen, entry |-> cache'.entry] /\ cache'.gen = cache.gen
  BY DEF CacheInv, ShapeInv
<1>4. ShapeInv' /\ GenInv'
  BY <1>3 DEF CacheInv, ShapeInv, WriterShape, GenInv
<1>5. PutInv'
  BY <1>1, <1>3 DEF CacheInv, PutInv, Current
<1>6. CacheFresh'
  <2>1. CASE cache' = cache
    BY <1>1, <2>1 DEF CacheInv, CacheFresh
  <2>2. CASE cache' # cache
    <3>1. cache'.entry = req[r].body /\ req[r].pc = "put" /\ req[r].gen = cache.gen
      BY <2>2 DEF CacheInv, ShapeInv
    <3> QED
      BY <1>1, <3>1 DEF CacheInv, PutInv, CacheFresh, Current
  <2> QED
    BY <2>1, <2>2
<1> QED
  BY <1>4, <1>5, <1>6 DEF CacheInv

\* Every step keeps the cache current.
LEMMA CacheNext == CacheInv /\ [Next]_vars => CacheInv'
<1> SUFFICES ASSUME CacheInv, [Next]_vars PROVE CacheInv'
  OBVIOUS
<1>0. DOMAIN db = Alerts /\ WriterShape
  BY DEF CacheInv, ShapeInv
<1>1. ASSUME NEW w \in Posters, NEW a \in Alerts,
             PostRow(w, a) \/ PostSame(w, a) \/ PostWithout(w, a)
      PROVE  CacheInv'
  <2>1. \E row, diff : Commit(w, [db EXCEPT ![a] = row], diff)
    <3>1. CASE PostRow(w, a)
      BY <3>1, Zenon DEF PostRow
    <3>2. CASE PostSame(w, a)
      BY <3>2, Zenon DEF PostSame
    <3>3. CASE PostWithout(w, a)
      BY <3>3 DEF PostWithout
    <3> QED
      BY <1>1, <3>1, <3>2, <3>3
  <2>2. PICK row, diff : Commit(w, [db EXCEPT ![a] = row], diff)
    BY <2>1
  <2>3. w \in Writers /\ UNCHANGED <<cache, req, spared>> /\ DOMAIN [db EXCEPT ![a] = row] = Alerts
    BY <1>0, <1>1 DEF PostRow, PostSame, PostWithout, excuses, Writers
  <2> QED
    BY <2>2, <2>3, CommitKeeps
<1>4. ASSUME NEW a \in Alerts, Expires(a) PROVE CacheInv'
  <2>1. \A b \in Alerts : db'[b].st = "due" \/ (db'[b] = db[b] /\ Active'[b] = Active[b])
    BY <1>4 DEF Expires, Active, CacheInv, ShapeInv
  <2>2. \A b \in Alerts : db[b].st = "due" => db'[b].st = "due"
    BY <1>4, <2>1
  <2>3. UNCHANGED <<writer, cache, req, spared>> /\ DOMAIN db' = Alerts
    BY <1>4 DEF Expires, CacheInv, ShapeInv, excuses
  <2>4. Doubtful' = Doubtful /\ WriterShape'
    BY <1>0, <2>3 DEF Doubtful, WriterShape
  <2> QED
    BY <2>1, <2>2, <2>3, <2>4, RowsKeep
<1>5. ASSUME Sweep PROVE CacheInv'
  <2>1. PICK order \in [1..Cardinality(Due) -> Due] :
          Commit("sweep", [a \in Alerts |-> IF a \in Due THEN [db[a] EXCEPT !.st = "expired"]
                                            ELSE db[a]],
                 [i \in DOMAIN order |-> Event("ended", order[i], db[order[i]])])
    BY <1>5 DEF Sweep
  <2>2. "sweep" \in Writers /\ UNCHANGED <<cache, req, spared>>
    BY <1>5 DEF Sweep, excuses, Writers
  <2>3. DOMAIN [a \in Alerts |-> IF a \in Due THEN [db[a] EXCEPT !.st = "expired"] ELSE db[a]] = Alerts
    OBVIOUS
  <2> QED
    BY <2>1, <2>2, <2>3, CommitKeeps
<1>6. ASSUME NEW w \in Writers, Publish(w) \/ Abandon(w) PROVE CacheInv'
  <2>1. PICK state \in {[writer[w] EXCEPT !.pc = "invalidate", !.behind = {}], Idle} :
          /\ Done(w, state)
          /\ state = Idle => spared' = spared \cup writer[w].wrote
          /\ state # Idle => spared' = spared
    <3>1. [writer[w] EXCEPT !.pc = "invalidate", !.behind = {}] # Idle
      <4>1. [writer[w] EXCEPT !.pc = "invalidate", !.behind = {}].pc = "invalidate"
        BY <1>0 DEF WriterShape, WriterFields
      <4> QED
        BY <4>1 DEF Idle
    <3> QED
      BY <1>6, <3>1 DEF Publish, Abandon
  <2>2. UNCHANGED <<db, cache, req>>
    BY <1>6 DEF Publish, Abandon
  <2>3. /\ DOMAIN state = WriterFields
        /\ state.pc = "idle" => state.wrote = {}
        /\ state = Idle \/ state.wrote = writer[w].wrote
    <3>1. CASE state = Idle
      BY <3>1 DEF Idle, WriterFields
    <3>2. CASE state # Idle
      BY <1>0, <2>1, <3>2 DEF WriterShape, WriterFields
    <3> QED
      BY <3>1, <3>2
  <2>4. WriterShape'
    BY <1>0, <2>1, <2>3, DoneWrote DEF WriterShape
  <2>5. ASSUME NEW a \in Alerts, a \notin Doubtful' PROVE a \notin Doubtful
    <3>1. a \notin spared' /\ \A o \in Writers : a \notin writer'[o].wrote
      BY <2>5 DEF Doubtful
    <3>2. writer'[w] = state /\ \A o \in Writers \ {w} : writer'[o].wrote = writer[o].wrote
      BY <1>0, <2>1, DoneWrote
    <3>3. a \notin spared /\ a \notin writer[w].wrote
      BY <2>1, <2>3, <3>1, <3>2
    <3> QED
      BY <3>1, <3>2, <3>3 DEF Doubtful
  <2>6. \A a \in Alerts : Active'[a] = Active[a]
    BY <2>2 DEF Active
  <2> QED
    BY <1>0, <2>2, <2>4, <2>5, <2>6, RowsKeep
<1>7. ASSUME NEW w \in Writers, Invalidate(w) PROVE CacheInv'
  <2>1. cache'.entry = NoBody /\ cache'.gen = cache.gen + 1 /\ UNCHANGED <<db, req>>
    BY <1>7 DEF Invalidate
  <2>2. \A r \in Readers : req'[r].gen # cache'.gen
    BY <2>1 DEF CacheInv, ShapeInv, GenInv
  <2>3. WriterShape'
    <3>1. writer'[w] = Idle /\ DOMAIN writer' = Writers
          /\ \A o \in Writers \ {w} : writer'[o] = writer[o]
      BY <1>0, <1>7 DEF Invalidate, WriterShape
    <3>2. DOMAIN Idle = WriterFields /\ Idle.wrote = {}
      BY DEF Idle, WriterFields
    <3> QED
      BY <1>0, <3>1, <3>2 DEF WriterShape
  <2>4. cache' = [gen |-> cache'.gen, entry |-> cache'.entry] /\ cache'.gen \in Nat \ {0}
        /\ cache.gen <= cache'.gen
    BY <1>7, <2>1 DEF Invalidate, CacheInv, ShapeInv
  <2>5. ShapeInv' /\ GenInv'
    BY <2>1, <2>3, <2>4 DEF CacheInv, ShapeInv, GenInv
  <2> QED
    BY <2>1, <2>2, <2>5 DEF CacheInv, PutInv, CacheFresh
<1>8. ASSUME NEW r \in Readers, CacheGet(r) PROVE CacheInv'
  <2>1. UNCHANGED <<db, writer, cache, spared>> /\ cache.gen \in Nat /\ DOMAIN req = Readers
    BY <1>8 DEF CacheGet, core, excuses, CacheInv, ShapeInv
  <2>2. CASE req' = [req EXCEPT ![r] = Answer(r, cache.entry)]
    <3>1. req'[r] = Answer(r, cache.entry) /\ DOMAIN req' = Readers
          /\ \A o \in Readers \ {r} : req'[o] = req[o]
      BY <2>1, <2>2
    <3> QED
      BY <2>1, <3>1, StepKeeps DEF Answer, Asking
  <2>3. ASSUME NEW g \in {cache.gen, 0},
               req' = [req EXCEPT ![r] = [pc |-> "build", gen |-> g, body |-> NoBody]]
        PROVE  CacheInv'
    <3>1. req'[r] = [pc |-> "build", gen |-> g, body |-> NoBody] /\ DOMAIN req' = Readers
          /\ \A o \in Readers \ {r} : req'[o] = req[o]
      BY <2>1, <2>3
    <3> QED
      BY <2>1, <3>1, StepKeeps
  <2> QED
    BY <1>8, <2>2, <2>3 DEF CacheGet
<1>9. ASSUME NEW r \in Readers, ReadDb(r) PROVE CacheInv'
  <2>1. UNCHANGED <<db, writer, cache, spared>> /\ DOMAIN req' = Readers
        /\ req'[r] = [pc |-> "put", gen |-> req[r].gen, body |-> Active]
        /\ \A o \in Readers \ {r} : req'[o] = req[o]
    BY <1>9 DEF ReadDb, core, excuses, CacheInv, ShapeInv
  <2>2. req[r].gen \in Nat /\ req[r].gen <= cache.gen
    BY DEF CacheInv, ShapeInv, GenInv
  <2> QED
    BY <2>1, <2>2, StepKeeps
<1>10. ASSUME NEW r \in Readers, CachePut(r) PROVE CacheInv'
  <2>1. UNCHANGED <<db, writer, spared>> /\ DOMAIN req' = Readers /\ cache.gen \in Nat
        /\ req'[r] = Answer(r, req[r].body)
        /\ \A o \in Readers \ {r} : req'[o] = req[o]
    BY <1>10 DEF CachePut, core, excuses, CacheInv, ShapeInv
  <2>2. cache' = cache \/ ( /\ cache' = [cache EXCEPT !.entry = req[r].body]
                            /\ req[r].pc = "put" /\ req[r].gen = cache.gen)
    BY <1>10 DEF CachePut
  <2>3. req'[r] = [pc |-> req'[r].pc, gen |-> 0, body |-> req'[r].body] /\ req'[r].pc # "put"
    BY <2>1 DEF Answer, Asking
  <2> QED
    BY <2>1, <2>2, <2>3, StepKeeps
<1>11. CASE StartBridge \/ Heartbeat \/ Frame \/ Lose \/ Watchdog \/ \E a \in Alerts : FadeOut(a)
  BY <1>11, ReqKeeps DEF StartBridge, Heartbeat, Frame, Lose, Watchdog, NextConn, FadeOut, core, excuses
<1>12. CASE Open \/ RetrySnapshot
  BY <1>12, ReqKeeps DEF Open, RetrySnapshot, Load, core, excuses
<1>13. CASE Deliver
  BY <1>13, ReqKeeps DEF Deliver, Load, core, excuses
<1>14. CASE SnapshotOk \/ SnapshotFails
  BY <1>14, ReqKeeps DEF SnapshotOk, SnapshotFails, SnapshotEnds, core, excuses
<1>15. CASE UNCHANGED vars
  BY <1>15, ReqKeeps DEF vars, core, excuses
<1> QED
  BY <1>1, <1>4, <1>5, <1>6, <1>7, <1>8, <1>9, <1>10, <1>11, <1>12, <1>13, <1>14,
     <1>15 DEF Next

\* A snapshot in the cache says of every alert what the database would answer, unless a
\* writer has changed it and is before its invalidation or has failed before it
\* (response_cache.gleam, put; noaa_controller.gleam).
THEOREM SnapshotCurrent == Spec => []CacheFresh
<1>1. Spec => []CacheInv
  BY CacheInit, CacheNext, PTL DEF Spec
<1>2. CacheInv => CacheFresh
  BY DEF CacheInv
<1> QED
  BY <1>1, <1>2, PTL

\* While the stream is open the page never buffers events without a snapshot on its way
\* (alerts/store.svelte.ts, doLoadSnapshot's finally block and handleOpen).
THEOREM NeverStuck == Spec => []BufferDrains
<1>1. Init => BufferDrains
  BY DEF Init, BufferDrains
<1>2. ASSUME CacheInv, BufferDrains, [Next]_vars PROVE BufferDrains'
  <2>1. ASSUME UNCHANGED <<req, link, buffering>> PROVE BufferDrains'
    BY <1>2, <2>1 DEF BufferDrains
  <2>2. CASE \/ \E w \in Posters, a \in Alerts : PostRow(w, a) \/ PostSame(w, a) \/ PostWithout(w, a)
             \/ \E a \in Alerts : Expires(a) \/ FadeOut(a)
    BY <2>1, <2>2 DEF PostRow, PostSame, PostWithout, Expires, FadeOut, page, store
  <2>3. CASE Sweep \/ (\E w \in Writers : Publish(w) \/ Abandon(w) \/ Invalidate(w)) \/ Heartbeat \/ Frame
    BY <2>1, <2>3 DEF Sweep, Publish, Abandon, Invalidate, Heartbeat, Frame, page, store
  <2>4. CASE \E r \in Readers : CacheGet(r) \/ ReadDb(r) \/ CachePut(r)
    <3>1. PICK r \in Readers : CacheGet(r) \/ ReadDb(r) \/ CachePut(r)
      BY <2>4
    <3>2. DOMAIN req = Readers /\ "page" \in Readers /\ UNCHANGED <<link, buffering>>
      BY <1>2, <3>1 DEF CacheGet, ReadDb, CachePut, CacheInv, ShapeInv, page, store, Readers
    <3>3. ASSUME r = "page" PROVE req'["page"].pc # "idle"
      <4>1. CASE CacheGet(r)
        <5>1. CASE req' = [req EXCEPT ![r] = Answer(r, cache.entry)]
          BY <3>2, <3>3, <5>1 DEF Answer
        <5>2. ASSUME NEW g \in {cache.gen, 0},
                     req' = [req EXCEPT ![r] = [pc |-> "build", gen |-> g, body |-> NoBody]]
              PROVE  req'["page"].pc # "idle"
          BY <3>2, <3>3, <5>2
        <5> QED
          BY <4>1, <5>1, <5>2 DEF CacheGet
      <4>2. CASE ReadDb(r)
        BY <3>2, <3>3, <4>2 DEF ReadDb
      <4>3. CASE CachePut(r)
        BY <3>2, <3>3, <4>3 DEF CachePut, Answer
      <4> QED
        BY <3>1, <4>1, <4>2, <4>3
    <3>4. r # "page" => req'["page"] = req["page"]
      BY <3>1, <3>2 DEF CacheGet, ReadDb, CachePut
    <3> QED
      BY <1>2, <3>2, <3>3, <3>4 DEF BufferDrains
  <2>5. CASE StartBridge \/ Lose \/ Watchdog
    <3>1. link' # "open"
      BY <2>5 DEF StartBridge, Lose, Watchdog, NextConn
    <3> QED
      BY <3>1 DEF BufferDrains
  <2>6. CASE Open \/ RetrySnapshot
    <3>1. req'["page"].pc = "sent"
      BY <1>2, <2>6 DEF Open, RetrySnapshot, Load, Asking, CacheInv, ShapeInv, Readers
    <3> QED
      BY <3>1 DEF BufferDrains
  <2>7. CASE Deliver
    <3>1. link' = link /\ (UNCHANGED <<req, buffering>> \/ req'["page"].pc = "sent")
      BY <1>2, <2>7 DEF Deliver, Load, Asking, CacheInv, ShapeInv, Readers
    <3> QED
      BY <1>2, <3>1 DEF BufferDrains
  <2>8. CASE SnapshotOk \/ SnapshotFails
    BY <2>8 DEF SnapshotOk, SnapshotFails, SnapshotEnds, BufferDrains
  <2>9. CASE UNCHANGED vars
    BY <2>1, <2>9 DEF vars, page, store
  <2> QED
    BY <1>2, <2>2, <2>3, <2>4, <2>5, <2>6, <2>7, <2>8, <2>9 DEF Next
<1> QED
  BY <1>1, <1>2, CacheInit, CacheNext, PTL DEF Spec

----------------------------------------------------------------------------
(* What the folds of the page make of a view.                              *)

\* A set of naturals that some natural is missing from misses a least one.
LEMMA Induction ==
    ASSUME NEW n \in Nat, NEW S, 0 \in S,
           \A i \in 0..(n - 1) : i \in S => i + 1 \in S
    PROVE  \A i \in 0..n : i \in S
<1> SUFFICES ASSUME NEW k \in 0..n, k \notin S PROVE FALSE
  OBVIOUS
<1> DEFINE Missing == {i \in Nat : i <= n /\ i \notin S}
<1>1. k \in Missing /\ Missing \subseteq Nat
  OBVIOUS
<1>2. PICK m \in Missing : \A y \in Nat : <<y, m>> \in OpToRel(<, Nat) => y \notin Missing
  BY <1>1, NatLessThanWellFounded, WFMin
<1>3. \A y \in Nat : y < m => y \notin Missing
  BY <1>2 DEF OpToRel
<1>4. m # 0 /\ m - 1 \in 0..(n - 1)
  OBVIOUS
<1>5. m - 1 \in S
  BY <1>3, <1>4
<1> QED
  BY <1>4, <1>5

Unfolds(g, V, F, v, s) ==
    /\ g \in [0..Len(s) -> V]
    /\ g[0] = v /\ \A i \in 1..Len(s) : g[i] = F[g[i - 1]][s[i]]

\* What a function of two arguments makes of a sequence, element by element.
LEMMA Unfolding ==
    ASSUME NEW V, NEW E, NEW F \in [V -> [E -> V]], NEW v \in V, NEW s \in Seq(E)
    PROVE  \E g : Unfolds(g, V, F, v, s)
<1> DEFINE Upto(n) == \E g \in [0..n -> V] :
                        g[0] = v /\ \A i \in 1..n : g[i] = F[g[i - 1]][s[i]]
           S == {n \in Nat : Upto(n)}
<1>1. Upto(0)
  <2> DEFINE h == [i \in 0..0 |-> v]
  <2>1. h \in [0..0 -> V] /\ h[0] = v /\ \A i \in 1..0 : h[i] = F[h[i - 1]][s[i]]
    OBVIOUS
  <2> QED
    BY <2>1
<1>2. ASSUME NEW n \in 0..(Len(s) - 1), Upto(n) PROVE Upto(n + 1)
  <2>1. n \in Nat /\ n + 1 \in 1..Len(s) /\ s[n + 1] \in E
    OBVIOUS
  <2>2. PICK g \in [0..n -> V] : g[0] = v /\ \A i \in 1..n : g[i] = F[g[i - 1]][s[i]]
    BY <1>2
  <2> DEFINE h == [i \in 0..(n + 1) |-> IF i = n + 1 THEN F[g[n]][s[n + 1]] ELSE g[i]]
  <2>3. h \in [0..(n + 1) -> V]
    BY <2>1, <2>2
  <2>4. h[0] = v
    BY <2>1, <2>2
  <2>5. ASSUME NEW i \in 1..(n + 1) PROVE h[i] = F[h[i - 1]][s[i]]
    <3>1. CASE i = n + 1
      BY <2>1, <3>1
    <3>2. CASE i # n + 1
      <4>1. i \in 1..n /\ i - 1 \in 0..n /\ i - 1 # n + 1
        BY <2>1, <3>2
      <4> QED
        BY <2>1, <2>2, <3>2, <4>1
    <3> QED
      BY <3>1, <3>2
  <2> HIDE DEF h
  <2> QED
    BY <2>3, <2>4, <2>5
<1> HIDE DEF Upto
<1>3. Len(s) \in Nat /\ 0 \in S /\ \A n \in 0..(Len(s) - 1) : n \in S => n + 1 \in S
  BY <1>1, <1>2
<1> HIDE DEF S
<1>4. \A n \in 0..Len(s) : n \in S
  BY <1>3, Induction
<1>5. Upto(Len(s))
  BY <1>3, <1>4 DEF S
<1> QED
  BY <1>5 DEF Upto, Unfolds

Shows == [row : Rows, fading : BOOLEAN]
Views == [Alerts -> Shows]

\* A view stays a view.
LEMMA ApplyType == \A v \in Views, e \in Events : Apply(v, e) \in Views
  BY DEF Apply, Views, Shows, Events

LEMMA ReplayType == \A v \in Views, e \in Events : Replay(v, e) \in Views
  BY ApplyType DEF Replay

\* The events of a frame are applied one after the other.
LEMMA FoldApply ==
    ASSUME NEW v \in Views, NEW s \in Seq(Events)
    PROVE  \E g \in [0..Len(s) -> Views] :
              /\ g[0] = v
              /\ \A i \in 1..Len(s) : g[i] = Apply(g[i - 1], s[i])
              /\ Fold(Apply, v, s) = g[Len(s)]
<1> DEFINE F == [x \in Views |-> [e \in Events |-> Apply(x, e)]]
           Is(f) == f = [i \in 0..Len(s) |-> IF i = 0 THEN v ELSE Apply(f[i - 1], s[i])]
           f0 == CHOOSE f : Is(f)
<1>1. F \in [Views -> [Events -> Views]]
  BY ApplyType
<1>2. PICK g : Unfolds(g, Views, F, v, s)
  <2> HIDE DEF F
  <2> QED
    BY <1>1, Unfolding, Zenon
<1>3. ASSUME NEW i \in 1..Len(s) PROVE g[i] = Apply(g[i - 1], s[i])
  <2>1. i - 1 \in 0..Len(s) /\ s[i] \in Events
    BY <1>3
  <2>2. g[i] = F[g[i - 1]][s[i]] /\ g[i - 1] \in Views
    BY <1>2, <2>1 DEF Unfolds
  <2> QED
    BY <2>1, <2>2
<1> HIDE DEF F
<1>9. g \in [0..Len(s) -> Views] /\ g[0] = v
  BY <1>2 DEF Unfolds
<1>4. Is(g)
  <2>1. \A i \in 0..Len(s) : i # 0 => i \in 1..Len(s)
    OBVIOUS
  <2> QED
    BY <1>9, <1>3, <2>1
<1>5. Is(f0)
  <2> HIDE DEF Is
  <2> QED
    BY <1>4
<1>6. f0[0] = v /\ \A i \in 1..Len(s) : f0[i] = Apply(f0[i - 1], s[i])
  <2> HIDE DEF f0
  <2> QED
    BY <1>5
<1>7. \A i \in 0..Len(s) : f0[i] = g[i]
  <2> DEFINE S == {i \in 0..Len(s) : f0[i] = g[i]}
  <2> HIDE DEF f0
  <2>1. 0 \in S
    BY <1>9, <1>6
  <2>2. ASSUME NEW i \in 0..(Len(s) - 1), i \in S PROVE i + 1 \in S
    <3>1. i + 1 \in 1..Len(s) /\ (i + 1) - 1 = i /\ f0[i] = g[i]
      BY <2>2
    <3>2. f0[i + 1] = Apply(f0[i], s[i + 1]) /\ g[i + 1] = Apply(g[i], s[i + 1])
      BY <1>3, <1>6, <3>1
    <3> QED
      BY <3>1, <3>2
  <2> HIDE DEF S
  <2>3. Len(s) \in Nat
    OBVIOUS
  <2>4. \A i \in 0..Len(s) : i \in S
    BY <2>1, <2>2, <2>3, Induction
  <2> QED
    BY <2>4 DEF S
<1>8. Fold(Apply, v, s) = f0[Len(s)]
  BY DEF Fold
<1>10. Fold(Apply, v, s) = g[Len(s)]
  <2>1. Len(s) \in 0..Len(s)
    OBVIOUS
  <2> HIDE DEF f0
  <2> QED
    BY <1>7, <1>8, <2>1
<1> QED
  BY <1>9, <1>3, <1>10

\* The buffered events are replayed one after the other.
LEMMA FoldReplay ==
    ASSUME NEW v \in Views, NEW s \in Seq(Events)
    PROVE  \E g \in [0..Len(s) -> Views] :
              /\ g[0] = v
              /\ \A i \in 1..Len(s) : g[i] = Replay(g[i - 1], s[i])
              /\ Fold(Replay, v, s) = g[Len(s)]
<1> DEFINE F == [x \in Views |-> [e \in Events |-> Replay(x, e)]]
           Is(f) == f = [i \in 0..Len(s) |-> IF i = 0 THEN v ELSE Replay(f[i - 1], s[i])]
           f0 == CHOOSE f : Is(f)
<1>1. F \in [Views -> [Events -> Views]]
  BY ReplayType
<1>2. PICK g : Unfolds(g, Views, F, v, s)
  <2> HIDE DEF F
  <2> QED
    BY <1>1, Unfolding, Zenon
<1>3. ASSUME NEW i \in 1..Len(s) PROVE g[i] = Replay(g[i - 1], s[i])
  <2>1. i - 1 \in 0..Len(s) /\ s[i] \in Events
    BY <1>3
  <2>2. g[i] = F[g[i - 1]][s[i]] /\ g[i - 1] \in Views
    BY <1>2, <2>1 DEF Unfolds
  <2> QED
    BY <2>1, <2>2
<1> HIDE DEF F
<1>9. g \in [0..Len(s) -> Views] /\ g[0] = v
  BY <1>2 DEF Unfolds
<1>4. Is(g)
  <2>1. \A i \in 0..Len(s) : i # 0 => i \in 1..Len(s)
    OBVIOUS
  <2> QED
    BY <1>9, <1>3, <2>1
<1>5. Is(f0)
  <2> HIDE DEF Is
  <2> QED
    BY <1>4
<1>6. f0[0] = v /\ \A i \in 1..Len(s) : f0[i] = Replay(f0[i - 1], s[i])
  <2> HIDE DEF f0
  <2> QED
    BY <1>5
<1>7. \A i \in 0..Len(s) : f0[i] = g[i]
  <2> DEFINE S == {i \in 0..Len(s) : f0[i] = g[i]}
  <2> HIDE DEF f0
  <2>1. 0 \in S
    BY <1>9, <1>6
  <2>2. ASSUME NEW i \in 0..(Len(s) - 1), i \in S PROVE i + 1 \in S
    <3>1. i + 1 \in 1..Len(s) /\ (i + 1) - 1 = i /\ f0[i] = g[i]
      BY <2>2
    <3>2. f0[i + 1] = Replay(f0[i], s[i + 1]) /\ g[i + 1] = Replay(g[i], s[i + 1])
      BY <1>3, <1>6, <3>1
    <3> QED
      BY <3>1, <3>2
  <2> HIDE DEF S
  <2>3. Len(s) \in Nat
    OBVIOUS
  <2>4. \A i \in 0..Len(s) : i \in S
    BY <2>1, <2>2, <2>3, Induction
  <2> QED
    BY <2>4 DEF S
<1>8. Fold(Replay, v, s) = f0[Len(s)]
  BY DEF Fold
<1>10. Fold(Replay, v, s) = g[Len(s)]
  <2>1. Len(s) \in 0..Len(s)
    OBVIOUS
  <2> HIDE DEF f0
  <2> QED
    BY <1>7, <1>8, <2>1
<1> QED
  BY <1>9, <1>3, <1>10

Of(a, m) == m \in Events /\ m.alert = a
Silent(a, s) == \A i \in DOMAIN s : ~Of(a, s[i])
Last(a, s, i) == Of(a, s[i]) /\ \A j \in DOMAIN s : j > i => ~Of(a, s[j])

\* The revision that the list of alerts shows, and the one an event stands for; 0 is none.
Shown(x) == IF x.fading THEN 0 ELSE x.row.rev
ShownBy(e) == IF e.kind = "ended" THEN 0 ELSE e.row.rev

\* An event changes the view of its own alert, to what it says.
LEMMA ApplyOne ==
    ASSUME NEW v \in Views, NEW e \in Events, NEW a \in Alerts
    PROVE  /\ e.alert # a => Apply(v, e)[a] = v[a]
           /\ e.alert = a => /\ Shown(Apply(v, e)[a]) = ShownBy(e)
                             /\ Apply(v, e)[a] = v[a] \/ Apply(v, e)[a].row = e.row
<1>1. DOMAIN v = Alerts /\ v[a] \in Shows /\ e.alert \in Alerts
  BY DEF Views, Events
<1>2. ASSUME e.alert # a PROVE Apply(v, e)[a] = v[a]
  BY <1>1, <1>2 DEF Apply
<1>3. ASSUME e.alert = a
      PROVE  /\ Shown(Apply(v, e)[a]) = ShownBy(e)
             /\ Apply(v, e)[a] = v[a] \/ Apply(v, e)[a].row = e.row
  <2>1. CASE e.kind # "ended"
    <3>1. Apply(v, e)[a] = [row |-> e.row, fading |-> FALSE]
      BY <1>1, <1>3, <2>1 DEF Apply
    <3> QED
      BY <2>1, <3>1 DEF Shown, ShownBy
  <2>2. CASE e.kind = "ended" /\ v[a].row = NoRow
    <3>1. Apply(v, e) = v
      BY <1>3, <2>2 DEF Apply
    <3>2. v[a].row.rev = 0
      BY <2>2 DEF NoRow
    <3> QED
      BY <2>2, <3>1, <3>2 DEF Shown, ShownBy
  <2>3. CASE e.kind = "ended" /\ v[a].row # NoRow
    <3>1. Apply(v, e)[a] = [row |-> e.row, fading |-> TRUE]
      BY <1>1, <1>3, <2>3 DEF Apply
    <3> QED
      BY <2>3, <3>1 DEF Shown, ShownBy
  <2> QED
    BY <2>1, <2>2, <2>3
<1> QED
  BY <1>2, <1>3

\* What a frame makes of the view of an alert is decided by the last event of it.
LEMMA AfterFrame ==
    ASSUME NEW v \in Views, NEW s \in Seq(Events), NEW a \in Alerts
    PROVE  /\ Fold(Apply, v, s) \in Views
           /\ Silent(a, s) => Fold(Apply, v, s)[a] = v[a]
           /\ \A k \in DOMAIN s : Last(a, s, k) => Shown(Fold(Apply, v, s)[a]) = ShownBy(s[k])
<1>1. PICK g \in [0..Len(s) -> Views] :
        /\ g[0] = v
        /\ \A i \in 1..Len(s) : g[i] = Apply(g[i - 1], s[i])
        /\ Fold(Apply, v, s) = g[Len(s)]
  BY FoldApply
<1>2. Len(s) \in Nat /\ DOMAIN s = 1..Len(s)
  OBVIOUS
<1>3. ASSUME NEW i \in 0..(Len(s) - 1)
      PROVE  /\ i + 1 \in DOMAIN s /\ g[i] \in Views /\ s[i + 1] \in Events
             /\ g[i + 1] = Apply(g[i], s[i + 1])
  <2>1. i + 1 \in 1..Len(s) /\ (i + 1) - 1 = i /\ i \in 0..Len(s)
    BY <1>2
  <2>2. g[i + 1] = Apply(g[(i + 1) - 1], s[i + 1])
    BY <1>1, <2>1
  <2> QED
    BY <1>1, <1>2, <2>1, <2>2
<1>4. ASSUME Silent(a, s) PROVE g[Len(s)][a] = v[a]
  <2> DEFINE S == {i \in 0..Len(s) : g[i][a] = v[a]}
  <2>1. 0 \in S
    BY <1>1, <1>2
  <2>2. ASSUME NEW i \in 0..(Len(s) - 1), i \in S PROVE i + 1 \in S
    <3>1. i + 1 \in 0..Len(s) /\ g[i][a] = v[a]
      BY <1>2, <2>2
    <3>2. s[i + 1].alert # a
      BY <1>3, <1>4 DEF Silent, Of
    <3>3. g[i + 1][a] = g[i][a]
      BY <1>3, <3>2, ApplyOne
    <3> QED
      BY <3>1, <3>3
  <2> HIDE DEF S
  <2>3. \A i \in 0..Len(s) : i \in S
    BY <1>2, <2>1, <2>2, Induction
  <2>4. Len(s) \in S
    BY <1>2, <2>3
  <2> QED
    BY <2>4 DEF S
<1>5. ASSUME NEW k \in DOMAIN s, Last(a, s, k) PROVE Shown(g[Len(s)][a]) = ShownBy(s[k])
  <2> DEFINE S == {i \in 0..Len(s) : i < k \/ Shown(g[i][a]) = ShownBy(s[k])}
  <2>1. k \in 1..Len(s)
    BY <1>2
  <2>2. 0 \in S
    BY <1>2, <2>1
  <2>3. ASSUME NEW i \in 0..(Len(s) - 1), i \in S PROVE i + 1 \in S
    <3>1. i + 1 \in 0..Len(s) /\ (i < k \/ Shown(g[i][a]) = ShownBy(s[k]))
      BY <1>2, <2>3
    <3>2. CASE i + 1 < k
      BY <3>1, <3>2
    <3>3. CASE i + 1 = k
      <4>1. s[i + 1].alert = a
        BY <1>5, <3>3 DEF Last, Of
      <4>2. g[i] \in Views /\ s[i + 1] \in Events /\ g[i + 1] = Apply(g[i], s[i + 1])
        BY <1>3
      <4>3. Shown(g[i + 1][a]) = ShownBy(s[i + 1])
        BY <4>1, <4>2, ApplyOne
      <4> QED
        BY <3>1, <3>3, <4>3
    <3>4. CASE i + 1 > k
      <4>1. s[i + 1].alert # a
        BY <1>3, <1>5, <3>4 DEF Last, Of
      <4>2. g[i + 1][a] = g[i][a]
        BY <1>3, <4>1, ApplyOne
      <4> QED
        BY <2>1, <3>1, <3>4, <4>2
    <3> QED
      BY <2>1, <3>2, <3>3, <3>4
  <2> HIDE DEF S
  <2>4. \A i \in 0..Len(s) : i \in S
    BY <1>2, <2>2, <2>3, Induction
  <2>5. Len(s) \in S /\ ~(Len(s) < k)
    BY <1>2, <2>1, <2>4
  <2> QED
    BY <2>5 DEF S
<1>6. g[Len(s)] \in Views
  BY <1>1, <1>2
<1> QED
  BY <1>1, <1>4, <1>5, <1>6

\* The same for a replayed event, unless the view has seen the alert later.
LEMMA ReplayOne ==
    ASSUME NEW v \in Views, NEW e \in Events, NEW a \in Alerts
    PROVE  /\ e.alert # a => Replay(v, e)[a] = v[a]
           /\ e.alert = a =>
                /\ \/ v[a].row # NoRow /\ e.row.seen < v[a].row.seen /\ Replay(v, e)[a] = v[a]
                   \/ Shown(Replay(v, e)[a]) = ShownBy(e)
                /\ Replay(v, e)[a] = v[a] \/ Replay(v, e)[a].row = e.row
  BY ApplyOne DEF Replay

\* What the replay of the buffer over a snapshot makes of an alert is decided by the last
\* event of it when that has been seen last, unless the snapshot has seen the alert later.
LEMMA AfterReplay ==
    ASSUME NEW v \in Views, NEW s \in Seq(Events), NEW a \in Alerts
    PROVE  /\ Fold(Replay, v, s) \in Views
           /\ Silent(a, s) => Fold(Replay, v, s)[a] = v[a]
           /\ \A k \in DOMAIN s :
                Last(a, s, k) /\ (\A j \in DOMAIN s : Of(a, s[j]) => s[j].row.seen <= s[k].row.seen)
                => \/ Shown(Fold(Replay, v, s)[a]) = ShownBy(s[k])
                   \/ /\ s[k].row.seen < v[a].row.seen
                      /\ Fold(Replay, v, s)[a] = v[a]
<1>1. PICK g \in [0..Len(s) -> Views] :
        /\ g[0] = v
        /\ \A i \in 1..Len(s) : g[i] = Replay(g[i - 1], s[i])
        /\ Fold(Replay, v, s) = g[Len(s)]
  BY FoldReplay
<1>2. Len(s) \in Nat /\ DOMAIN s = 1..Len(s)
  OBVIOUS
<1>3. ASSUME NEW i \in 0..(Len(s) - 1)
      PROVE  /\ i + 1 \in DOMAIN s /\ g[i] \in Views /\ s[i + 1] \in Events
             /\ g[i + 1] = Replay(g[i], s[i + 1])
  <2>1. i + 1 \in 1..Len(s) /\ (i + 1) - 1 = i /\ i \in 0..Len(s)
    BY <1>2
  <2>2. g[i + 1] = Replay(g[(i + 1) - 1], s[i + 1])
    BY <1>1, <2>1
  <2> QED
    BY <1>1, <1>2, <2>1, <2>2
<1>4. ASSUME Silent(a, s) PROVE g[Len(s)][a] = v[a]
  <2> DEFINE S == {i \in 0..Len(s) : g[i][a] = v[a]}
  <2>1. 0 \in S
    BY <1>1, <1>2
  <2>2. ASSUME NEW i \in 0..(Len(s) - 1), i \in S PROVE i + 1 \in S
    <3>1. i + 1 \in 0..Len(s) /\ g[i][a] = v[a]
      BY <1>2, <2>2
    <3>2. s[i + 1].alert # a
      BY <1>3, <1>4 DEF Silent, Of
    <3>3. g[i + 1][a] = g[i][a]
      BY <1>3, <3>2, ReplayOne
    <3> QED
      BY <3>1, <3>3
  <2> HIDE DEF S
  <2>3. \A i \in 0..Len(s) : i \in S
    BY <1>2, <2>1, <2>2, Induction
  <2>4. Len(s) \in S
    BY <1>2, <2>3
  <2> QED
    BY <2>4 DEF S
<1>5. ASSUME NEW k \in DOMAIN s, Last(a, s, k),
             \A j \in DOMAIN s : Of(a, s[j]) => s[j].row.seen <= s[k].row.seen
      PROVE  \/ Shown(g[Len(s)][a]) = ShownBy(s[k])
             \/ s[k].row.seen < v[a].row.seen /\ g[Len(s)][a] = v[a]
  <2> DEFINE Early(x) == x = v[a] \/ x.row.seen <= s[k].row.seen
             Late(x) == \/ Shown(x) = ShownBy(s[k])
                        \/ s[k].row.seen < v[a].row.seen /\ x = v[a]
             S == {i \in 0..Len(s) : IF i < k THEN Early(g[i][a]) ELSE Late(g[i][a])}
  <2>1. k \in 1..Len(s)
    BY <1>2
  <2>2. 0 \in S
    BY <1>1, <1>2, <2>1
  <2>3. ASSUME NEW i \in 0..(Len(s) - 1), i \in S PROVE i + 1 \in S
    <3>1. i + 1 \in 0..Len(s) /\ (IF i < k THEN Early(g[i][a]) ELSE Late(g[i][a]))
      BY <1>2, <2>3
    <3> HIDE DEF Early, Late
    <3>2. CASE i + 1 < k
      <4>1. i < k /\ Early(g[i][a])
        BY <2>1, <3>1, <3>2
      <4>2. CASE s[i + 1].alert # a
        <5>1. g[i + 1][a] = g[i][a]
          BY <1>3, <4>2, ReplayOne
        <5> QED
          BY <3>1, <3>2, <4>1, <5>1
      <4>3. CASE s[i + 1].alert = a
        <5>1. g[i + 1][a] = g[i][a] \/ g[i + 1][a].row = s[i + 1].row
          BY <1>3, <4>3, ReplayOne
        <5>2. s[i + 1].row.seen <= s[k].row.seen
          BY <1>3, <1>5, <4>3 DEF Of
        <5>3. Early(g[i + 1][a])
          BY <4>1, <5>1, <5>2 DEF Early
        <5> QED
          BY <3>1, <3>2, <5>3
      <4> QED
        BY <4>2, <4>3
    <3>3. CASE i + 1 = k
      <4>1. s[i + 1].alert = a /\ i < k
        BY <1>5, <2>1, <3>3 DEF Last, Of
      <4>2. Early(g[i][a])
        BY <3>1, <4>1
      <4>3. \/ s[k].row.seen < g[i][a].row.seen /\ g[i + 1][a] = g[i][a]
            \/ Shown(g[i + 1][a]) = ShownBy(s[k])
        BY <1>3, <3>3, <4>1, ReplayOne
      <4>4. s[k].row.seen \in Nat /\ g[i][a].row.seen \in Nat
        <5>1. s[k] \in Events /\ g[i] \in Views
          BY <1>3
        <5>2. s[k].row \in Rows /\ g[i][a] \in Shows
          BY <5>1 DEF Events, Views
        <5> QED
          BY <5>2, BoundsAssumption DEF Shows, Rows
      <4>5. Late(g[i + 1][a])
        BY <4>2, <4>3, <4>4 DEF Early, Late
      <4> QED
        BY <3>1, <3>3, <4>5
    <3>4. CASE i + 1 > k
      <4>1. s[i + 1].alert # a /\ ~(i < k) /\ ~(i + 1 < k)
        BY <1>3, <1>5, <2>1, <3>4 DEF Last, Of
      <4>2. g[i + 1][a] = g[i][a]
        BY <1>3, <4>1, ReplayOne
      <4> QED
        BY <3>1, <4>1, <4>2
    <3> QED
      BY <2>1, <3>2, <3>3, <3>4
  <2> HIDE DEF S
  <2>4. \A i \in 0..Len(s) : i \in S
    BY <1>2, <2>2, <2>3, Induction
  <2>5. Len(s) \in S /\ ~(Len(s) < k)
    BY <1>2, <2>1, <2>4
  <2> QED
    BY <2>5 DEF S
<1>6. g[Len(s)] \in Views
  BY <1>1, <1>2
<1> QED
  BY <1>1, <1>4, <1>5, <1>6

----------------------------------------------------------------------------
(* Messages of an alert in a sequence.                                     *)

\* An event of the alert in a sequence of messages, and the last one.
Has(a, s, e) == Of(a, e) /\ \E i \in DOMAIN s : s[i] = e
Ends(a, s, e) == \E i \in DOMAIN s : Last(a, s, i) /\ s[i] = e

\* A resync is told from an event by its fields.
LEMMA ResyncNoEvent == Resync \notin Events
<1> SUFFICES ASSUME Resync \in Events PROVE FALSE
  OBVIOUS
<1>1. DOMAIN Resync = {"kind", "alert", "row"}
  BY DEF Events
<1>2. DOMAIN Resync = {"kind"}
  BY DEF Resync
<1> QED
  BY <1>1, <1>2

\* No message at all.
LEMMA EmptySilent ==
    ASSUME NEW a
    PROVE  Silent(a, <<>>) /\ \A e : ~Has(a, <<>>, e) /\ ~Ends(a, <<>>, e)
  BY DEF Silent, Has, Ends

\* One message.
LEMMA OneMessage ==
    ASSUME NEW a, NEW m
    PROVE  /\ Silent(a, <<m>>) <=> ~Of(a, m)
           /\ \A e : Has(a, <<m>>, e) <=> Of(a, m) /\ e = m
           /\ \A e : Ends(a, <<m>>, e) <=> Of(a, m) /\ e = m
<1>1. DOMAIN <<m>> = {1} /\ <<m>>[1] = m
  OBVIOUS
<1>2. Silent(a, <<m>>) <=> ~Of(a, m)
  BY <1>1 DEF Silent
<1>3. \A e : Has(a, <<m>>, e) <=> Of(a, m) /\ e = m
  BY <1>1 DEF Has
<1>4. \A e : Ends(a, <<m>>, e) <=> Of(a, m) /\ e = m
  BY <1>1 DEF Ends, Last
<1> QED
  BY <1>2, <1>3, <1>4

\* Where no event of the alert is, it is silent.
LEMMA HasNothing ==
    ASSUME NEW a, NEW s
    PROVE  Silent(a, s) <=> \A e \in Events : ~Has(a, s, e)
  BY DEF Silent, Has, Of

\* The last event is one of the events.
LEMMA EndsHas ==
    ASSUME NEW a, NEW s, NEW e, Ends(a, s, e)
    PROVE  Has(a, s, e)
  BY DEF Has, Ends, Last

\* Two sequences of messages, one behind the other.
LEMMA TwoParts ==
    ASSUME NEW a, NEW s \in Seq(Messages), NEW t \in Seq(Messages)
    PROVE  /\ Silent(a, s \o t) <=> Silent(a, s) /\ Silent(a, t)
           /\ \A e : Has(a, s \o t, e) <=> Has(a, s, e) \/ Has(a, t, e)
           /\ \A e : Ends(a, s \o t, e) <=> Ends(a, t, e) \/ (Silent(a, t) /\ Ends(a, s, e))
<1> DEFINE c == s \o t
<1>1. /\ Len(s) \in Nat /\ Len(t) \in Nat
      /\ DOMAIN s = 1..Len(s) /\ DOMAIN t = 1..Len(t) /\ DOMAIN c = 1..(Len(s) + Len(t))
  OBVIOUS
<1>2. /\ \A i \in 1..Len(s) : i \in DOMAIN c /\ c[i] = s[i]
      /\ \A i \in 1..Len(t) : Len(s) + i \in DOMAIN c /\ c[Len(s) + i] = t[i]
  OBVIOUS
<1>3. \A i \in DOMAIN c : i \in 1..Len(s) \/ (i - Len(s) \in 1..Len(t) /\ i = Len(s) + (i - Len(s)))
  BY <1>1
<1> HIDE DEF c
<1>4. Silent(a, c) <=> Silent(a, s) /\ Silent(a, t)
  BY <1>1, <1>2, <1>3 DEF Silent
<1>5. ASSUME NEW e PROVE Has(a, c, e) <=> Has(a, s, e) \/ Has(a, t, e)
  BY <1>1, <1>2, <1>3 DEF Has
<1>6. ASSUME NEW e PROVE Ends(a, c, e) <=> Ends(a, t, e) \/ (Silent(a, t) /\ Ends(a, s, e))
  <2>1. ASSUME Ends(a, t, e) PROVE Ends(a, c, e)
    <3>1. PICK i \in 1..Len(t) : Last(a, t, i) /\ t[i] = e
      BY <1>1, <2>1 DEF Ends
    <3>2. ASSUME NEW j \in DOMAIN c, j > Len(s) + i PROVE ~Of(a, c[j])
      <4>1. j - Len(s) \in 1..Len(t) /\ j - Len(s) > i /\ c[j] = t[j - Len(s)]
        BY <1>1, <1>2, <1>3, <3>2
      <4> QED
        BY <1>1, <3>1, <4>1 DEF Last
    <3>3. Last(a, c, Len(s) + i)
      BY <1>2, <3>1, <3>2 DEF Last
    <3> QED
      BY <1>2, <3>1, <3>3 DEF Ends
  <2>2. ASSUME Silent(a, t), Ends(a, s, e) PROVE Ends(a, c, e)
    <3>1. PICK i \in 1..Len(s) : Last(a, s, i) /\ s[i] = e
      BY <1>1, <2>2 DEF Ends
    <3>2. ASSUME NEW j \in DOMAIN c, j > i PROVE ~Of(a, c[j])
      <4>1. CASE j \in 1..Len(s)
        BY <1>1, <1>2, <3>1, <3>2, <4>1 DEF Last
      <4>2. CASE j - Len(s) \in 1..Len(t) /\ j = Len(s) + (j - Len(s))
        BY <1>1, <1>2, <2>2, <4>2 DEF Silent
      <4> QED
        BY <1>3, <4>1, <4>2
    <3>3. Last(a, c, i)
      BY <1>2, <3>1, <3>2 DEF Last
    <3> QED
      BY <1>2, <3>1, <3>3 DEF Ends
  <2>3. ASSUME Ends(a, c, e) PROVE Ends(a, t, e) \/ (Silent(a, t) /\ Ends(a, s, e))
    <3>1. PICK i \in DOMAIN c : Last(a, c, i) /\ c[i] = e
      BY <2>3 DEF Ends
    <3>2. CASE i \in 1..Len(s)
      <4>1. \A j \in 1..Len(t) : Len(s) + j > i
        BY <1>1, <3>2
      <4>2. Silent(a, t)
        BY <1>1, <1>2, <3>1, <4>1 DEF Silent, Last
      <4>3. Last(a, s, i)
        BY <1>1, <1>2, <3>1, <3>2 DEF Last
      <4> QED
        BY <1>1, <1>2, <3>1, <3>2, <4>2, <4>3 DEF Ends
    <3>3. CASE i - Len(s) \in 1..Len(t) /\ i = Len(s) + (i - Len(s))
      <4> DEFINE k == i - Len(s)
      <4>1. k \in 1..Len(t) /\ c[i] = t[k]
        BY <1>2, <3>3
      <4>2. ASSUME NEW j \in 1..Len(t), j > k PROVE ~Of(a, t[j])
        <5>1. Len(s) + j \in DOMAIN c /\ Len(s) + j > i /\ c[Len(s) + j] = t[j]
          BY <1>1, <1>2, <3>3, <4>2
        <5> QED
          BY <3>1, <5>1 DEF Last
      <4>3. Last(a, t, k)
        BY <1>1, <3>1, <4>1, <4>2 DEF Last
      <4> QED
        BY <1>1, <3>1, <4>1, <4>3 DEF Ends
    <3> QED
      BY <1>3, <3>2, <3>3
  <2> QED
    BY <2>1, <2>2, <2>3
<1> QED
  BY <1>4, <1>5, <1>6 DEF c

\* Where there is an event of the alert, one is the last.
LEMMA SomeEnd ==
    ASSUME NEW a, NEW s \in Seq(Messages), ~Silent(a, s)
    PROVE  \E k \in DOMAIN s : Last(a, s, k)
<1> DEFINE S == {n \in 0..Len(s) : (\E i \in 1..n : Of(a, s[i])) =>
                    \E i \in 1..n : Of(a, s[i]) /\ \A j \in 1..n : j > i => ~Of(a, s[j])}
<1>1. Len(s) \in Nat /\ DOMAIN s = 1..Len(s)
  OBVIOUS
<1>2. 0 \in S
  BY <1>1
<1>3. ASSUME NEW n \in 0..(Len(s) - 1), n \in S PROVE n + 1 \in S
  <2>1. n + 1 \in 0..Len(s) /\ n \in Nat
    BY <1>1
  <2>2. CASE Of(a, s[n + 1])
    <3>1. n + 1 \in 1..(n + 1) /\ \A j \in 1..(n + 1) : ~(j > n + 1)
      BY <2>1
    <3> QED
      BY <2>1, <2>2, <3>1
  <2>3. CASE ~Of(a, s[n + 1])
    <3>1. \A j \in 1..(n + 1) : j \in 1..n \/ j = n + 1
      BY <2>1
    <3>2. \A j \in 1..n : j \in 1..(n + 1)
      BY <2>1
    <3> QED
      BY <1>3, <2>1, <2>3, <3>1, <3>2
  <2> QED
    BY <2>2, <2>3
<1> HIDE DEF S
<1>4. \A n \in 0..Len(s) : n \in S
  BY <1>1, <1>2, <1>3, Induction
<1>5. Len(s) \in S
  BY <1>1, <1>4
<1> QED
  BY <1>1, <1>5 DEF S, Silent, Last

\* The first message and the rest.
LEMMA Taken ==
    ASSUME NEW a, NEW s \in Seq(Messages), s # <<>>
    PROVE  LET m == Head(s)
               t == Tail(s)
           IN  /\ m \in Messages /\ t \in Seq(Messages)
               /\ Silent(a, s) <=> ~Of(a, m) /\ Silent(a, t)
               /\ \A e : Has(a, s, e) <=> (Of(a, m) /\ e = m) \/ Has(a, t, e)
               /\ \A e : Ends(a, s, e) <=> Ends(a, t, e) \/ (Silent(a, t) /\ Of(a, m) /\ e = m)
<1>1. Head(s) \in Messages /\ Tail(s) \in Seq(Messages) /\ s = <<Head(s)>> \o Tail(s)
      /\ <<Head(s)>> \in Seq(Messages)
  OBVIOUS
<1>2. PICK m : m = Head(s)
  OBVIOUS
<1>3. PICK t : t = Tail(s)
  OBVIOUS
<1>4. /\ Silent(a, s) <=> ~Of(a, m) /\ Silent(a, t)
      /\ \A e : Has(a, s, e) <=> (Of(a, m) /\ e = m) \/ Has(a, t, e)
      /\ \A e : Ends(a, s, e) <=> Ends(a, t, e) \/ (Silent(a, t) /\ Of(a, m) /\ e = m)
  <2>1. s = <<m>> \o t /\ <<m>> \in Seq(Messages) /\ t \in Seq(Messages)
    BY <1>1, <1>2, <1>3
  <2>2. /\ Silent(a, <<m>>) <=> ~Of(a, m)
        /\ \A e : Has(a, <<m>>, e) <=> Of(a, m) /\ e = m
        /\ \A e : Ends(a, <<m>>, e) <=> Of(a, m) /\ e = m
    BY OneMessage
  <2>3. /\ Silent(a, <<m>> \o t) <=> Silent(a, <<m>>) /\ Silent(a, t)
        /\ \A e : Has(a, <<m>> \o t, e) <=> Has(a, <<m>>, e) \/ Has(a, t, e)
        /\ \A e : Ends(a, <<m>> \o t, e) <=> Ends(a, t, e) \/ (Silent(a, t) /\ Ends(a, <<m>>, e))
    BY <2>1, TwoParts
  <2> QED
    BY <2>1, <2>2, <2>3, Zenon
<1> QED
  BY <1>1, <1>2, <1>3, <1>4

\* A resync that is slipped in changes nothing for any alert.
LEMMA Slipped ==
    ASSUME NEW s \in Seq(Messages), NEW k \in 0..Len(s)
    PROVE  LET t == SubSeq(s, 1, k) \o <<Resync>> \o SubSeq(s, k + 1, Len(s))
           IN  /\ t \in Seq(Messages)
               /\ \A a : /\ Silent(a, t) <=> Silent(a, s)
                         /\ \A e : Has(a, t, e) <=> Has(a, s, e)
                         /\ \A e : Ends(a, t, e) <=> Ends(a, s, e)
<1>1. PICK l : l = SubSeq(s, 1, k)
  OBVIOUS
<1>2. PICK r : r = SubSeq(s, k + 1, Len(s))
  OBVIOUS
<1>3. PICK q : q = <<Resync>>
  OBVIOUS
<1>4. l \in Seq(Messages) /\ r \in Seq(Messages) /\ q \in Seq(Messages)
  <2>1. q \in Seq(Messages)
    BY <1>3 DEF Messages
  <2> QED
    BY <1>1, <1>2, <2>1
<1>5. s = l \o r
  <2>1. /\ Len(s) \in Nat /\ 1 \in 1..(Len(s) + 1)
        /\ k \in (1 - 1)..Len(s) /\ Len(s) \in k..Len(s)
    OBVIOUS
  <2>2. SubSeq(s, 1, k) \o SubSeq(s, k + 1, Len(s)) = SubSeq(s, 1, Len(s))
    BY <2>1, ConcatAdjacentSubSeq
  <2> QED
    BY <1>1, <1>2, <2>2, SubSeqFull
<1>6. ASSUME NEW a PROVE Silent(a, q) /\ \A e : ~Has(a, q, e) /\ ~Ends(a, q, e)
  BY <1>3, OneMessage, ResyncNoEvent DEF Of
<1>7. PICK h : h = l \o q
  OBVIOUS
<1>8. h \in Seq(Messages)
  BY <1>4, <1>7
<1>9. ASSUME NEW a PROVE /\ Silent(a, h \o r) <=> Silent(a, s)
                         /\ \A e : Has(a, h \o r, e) <=> Has(a, s, e)
                         /\ \A e : Ends(a, h \o r, e) <=> Ends(a, s, e)
  <2>1. /\ Silent(a, l \o r) <=> Silent(a, l) /\ Silent(a, r)
        /\ \A e : Has(a, l \o r, e) <=> Has(a, l, e) \/ Has(a, r, e)
        /\ \A e : Ends(a, l \o r, e) <=> Ends(a, r, e) \/ (Silent(a, r) /\ Ends(a, l, e))
    BY <1>4, TwoParts
  <2>2. /\ Silent(a, h \o r) <=> Silent(a, h) /\ Silent(a, r)
        /\ \A e : Has(a, h \o r, e) <=> Has(a, h, e) \/ Has(a, r, e)
        /\ \A e : Ends(a, h \o r, e) <=> Ends(a, r, e) \/ (Silent(a, r) /\ Ends(a, h, e))
    BY <1>4, <1>8, TwoParts
  <2>3. /\ Silent(a, l \o q) <=> Silent(a, l) /\ Silent(a, q)
        /\ \A e : Has(a, l \o q, e) <=> Has(a, l, e) \/ Has(a, q, e)
        /\ \A e : Ends(a, l \o q, e) <=> Ends(a, q, e) \/ (Silent(a, q) /\ Ends(a, l, e))
    BY <1>4, TwoParts
  <2>4. /\ Silent(a, h) <=> Silent(a, l)
        /\ \A e : Has(a, h, e) <=> Has(a, l, e)
        /\ \A e : Ends(a, h, e) <=> Ends(a, l, e)
    BY <1>6, <1>7, <2>3, Zenon
  <2> QED
    BY <1>5, <2>1, <2>2, <2>4, Zenon
<1>10. h \o r \in Seq(Messages)
  BY <1>4, <1>8
<1>11. SubSeq(s, 1, k) \o <<Resync>> \o SubSeq(s, k + 1, Len(s)) = h \o r
  BY <1>1, <1>2, <1>3, <1>7
<1> QED
  BY <1>9, <1>10, <1>11

----------------------------------------------------------------------------
(* Types, and what a transaction leaves behind.                            *)

DbRows == [st : Statuses, rev : 0..MaxPosts, seen : 0..MaxPosts]
WriterStates == [pc : {"idle", "publish", "invalidate"}, diff : Seq(Events),
                 wrote : SUBSET Alerts, behind : SUBSET Writers, late : SUBSET Alerts]
Requests == [pc : {"idle", "sent", "build", "put", "done"}, gen : Nat,
             body : Bodies \cup {NoBody}]

CoreTypes ==
    /\ db \in [Alerts -> DbRows]
    /\ writer \in [Writers -> WriterStates]
    /\ posts \in 0..MaxPosts
    /\ \A a \in Alerts : db[a].seen <= posts
CacheTypes == cache \in [gen : Nat \ {0}, entry : Bodies \cup {NoBody}]
ReqTypes ==
    /\ req \in [Readers -> Requests]
    /\ \A r \in Readers : req[r].pc \in {"put", "done"} => req[r].body \in Bodies
PageTypes ==
    /\ wire \in Seq(Messages)
    /\ es \in 1..MaxConns
    /\ link \in {"connecting", "subscribed", "open"}
    /\ cursor \in BOOLEAN
StoreTypes ==
    /\ buffering \in BOOLEAN /\ buffer \in Seq(Events) /\ pending \in Seq(Events)
    /\ view \in Views
FaultTypes ==
    /\ faults \in 0..MaxFaults
    /\ overtaken \in BOOLEAN /\ misled \subseteq Alerts /\ spared \subseteq Alerts
    /\ leftover \in BOOLEAN /\ failed \in BOOLEAN

TypeInv == CoreTypes /\ CacheTypes /\ ReqTypes /\ PageTypes /\ StoreTypes /\ FaultTypes

LEMMA TypeInvImplies == TypeInv => TypeOK
  BY DEF TypeInv, TypeOK, CoreTypes, CacheTypes, ReqTypes, PageTypes, StoreTypes, FaultTypes,
         DbRows, WriterStates, Requests, Views, Shows

LEMMA NoRowType == NoRow \in Rows
  BY BoundsAssumption DEF NoRow, Rows

LEMMA EventType ==
    ASSUME NEW kind \in {"new", "update", "ended"}, NEW a \in Alerts, NEW row,
           row.rev \in 0..MaxPosts, row.seen \in 0..MaxPosts
    PROVE  Event(kind, a, row) \in Events
  BY DEF Event, Events, Rows

LEMMA TypeInit == Init => TypeInv
<1> SUFFICES ASSUME Init PROVE TypeInv
  OBVIOUS
<1>1. CoreTypes
  BY BoundsAssumption DEF Init, CoreTypes, DbRows, WriterStates, Statuses, Idle
<1>2. CacheTypes
  BY DEF Init, CacheTypes
<1>3. ReqTypes
  BY DEF Init, ReqTypes, Requests, NoReq, Asking
<1>4. PageTypes
  <2>1. wire = <<>> /\ es = 1 /\ link = "connecting" /\ cursor = FALSE
    BY DEF Init
  <2>2. 1 \in 1..MaxConns
    BY BoundsAssumption
  <2>3. <<>> \in Seq(Messages)
    OBVIOUS
  <2> QED
    BY <2>1, <2>2, <2>3 DEF PageTypes
<1>5. StoreTypes
  BY NoRowType DEF Init, StoreTypes, Views, Shows
<1>6. FaultTypes
  <2>1. /\ faults = 0 /\ overtaken = FALSE /\ misled = {} /\ spared = {}
        /\ leftover = FALSE /\ failed = FALSE
    BY DEF Init
  <2>2. 0 \in 0..MaxFaults
    BY BoundsAssumption
  <2> QED
    BY <2>1, <2>2 DEF FaultTypes
<1> QED
  BY <1>1, <1>2, <1>3, <1>4, <1>5, <1>6 DEF TypeInv

\* An event tells what the row of its alert says.
Tells(row, e) == IF e.kind = "ended" THEN row.st # "active"
                 ELSE row.rev = e.row.rev /\ row.st \in {"active", "due"}

Single(diff) == \A i, j \in DOMAIN diff : diff[i].alert = diff[j].alert => i = j

\* What a transaction leaves: the rows and what the diff tells of them.
Leaves(rows, diff) ==
    \A a \in Alerts : /\ db[a].seen <= rows[a].seen
                      /\ rows[a].seen <= posts'
                      /\ Silent(a, diff) => rows[a].rev = db[a].rev /\ rows[a].st = db[a].st
                      /\ \A e \in Events : Has(a, diff, e) =>
                            Tells(rows[a], e) /\ e.row.seen = rows[a].seen

Committed(w) ==
    /\ writer[w].pc = "idle" /\ posts' \in 0..MaxPosts /\ db' \in [Alerts -> DbRows]
    /\ writer'[w].pc = "publish" /\ writer'[w].late = {}
    /\ writer'[w].behind = {o \in Writers \ {w} : writer[o].pc = "publish"}
    /\ writer' \in [Writers -> WriterStates]
    /\ \A o \in Writers \ {w} : writer'[o] = writer[o]
    /\ Single(writer'[w].diff) /\ Leaves(db', writer'[w].diff)
    /\ UNCHANGED <<cache, req, wire, page, store, faults, excuses>>

\* A Commit with types and clocks in order is a Committed step.
LEMMA CommitLeaves ==
    ASSUME CoreTypes, NEW w \in Writers, NEW rows \in [Alerts -> DbRows], NEW diff \in Seq(Events),
           Commit(w, rows, diff), posts' \in 0..MaxPosts, Single(diff), Leaves(rows, diff),
           UNCHANGED <<cache, req, wire, page, store, faults, excuses>>
    PROVE  Committed(w)
<1> DEFINE wrote == {a \in Alerts : rows[a] # db[a]}
           behind == {o \in Writers \ {w} : writer[o].pc = "publish"}
           new == [pc |-> "publish", diff |-> diff, wrote |-> wrote, behind |-> behind, late |-> {}]
<1>1. db' = rows /\ writer' = [writer EXCEPT ![w] = new] /\ writer[w].pc = "idle"
  BY DEF Commit
<1>2. wrote \subseteq Alerts /\ behind \subseteq Writers
  OBVIOUS
<1> HIDE DEF wrote, behind
<1>3. new \in WriterStates
  BY <1>2 DEF WriterStates
<1>4. new.diff = diff /\ new.pc = "publish" /\ new.behind = behind /\ new.late = {}
  OBVIOUS
<1> HIDE DEF new
<1>5. writer \in [Writers -> WriterStates]
  BY DEF CoreTypes
<1>6. /\ writer' \in [Writers -> WriterStates] /\ writer'[w] = new
      /\ \A o \in Writers \ {w} : writer'[o] = writer[o]
  BY <1>1, <1>3, <1>5
<1> QED
  BY <1>1, <1>4, <1>6 DEF Committed, behind

\* A transaction of the request handler that says one thing of one alert, or nothing.
LEMMA PostLeaves ==
    ASSUME CoreTypes, NEW w \in Posters, NEW a \in Alerts, NEW row \in DbRows, NEW diff,
           Commit(w, [db EXCEPT ![a] = row], diff), posts' = posts + 1, posts < MaxPosts,
           db[a].seen <= row.seen, row.seen = posts + 1 \/ row.seen = db[a].seen,
           \/ diff = <<>> /\ row.rev = db[a].rev /\ row.st = db[a].st
           \/ \E e \in Events : /\ diff = <<e>> /\ e.alert = a
                                 /\ Tells(row, e) /\ e.row.seen = row.seen,
           UNCHANGED <<cache, req, wire, page, store, faults, excuses>>
    PROVE  Committed(w)
<1> DEFINE rows == [db EXCEPT ![a] = row]
<1>1. rows \in [Alerts -> DbRows] /\ rows[a] = row /\ \A b \in Alerts \ {a} : rows[b] = db[b]
  BY DEF CoreTypes
<1>2. posts' \in 0..MaxPosts /\ posts \in Nat
  BY BoundsAssumption DEF CoreTypes
<1>3. \A b \in Alerts : db[b].seen \in Nat /\ db[b].seen <= posts
  BY BoundsAssumption DEF CoreTypes, DbRows
<1>4. Commit(w, rows, diff)
  OBVIOUS
<1> HIDE DEF rows
<1>5. \A b \in Alerts : /\ db[b].seen <= rows[b].seen
                        /\ rows[b].seen <= posts'
  BY <1>1, <1>2, <1>3
<1>6. CASE diff = <<>> /\ row.rev = db[a].rev /\ row.st = db[a].st
  <2>1. \A b \in Alerts : rows[b].rev = db[b].rev /\ rows[b].st = db[b].st
    BY <1>1, <1>6
  <2>2. \A b : Silent(b, diff) /\ \A e : ~Has(b, diff, e)
    BY <1>6, EmptySilent
  <2>3. Leaves(rows, diff)
    BY <1>5, <2>1, <2>2 DEF Leaves
  <2>4. Single(diff) /\ diff \in Seq(Events)
    BY <1>6 DEF Single
  <2> QED
    BY <1>1, <1>2, <1>4, <2>3, <2>4, CommitLeaves DEF Writers
<1>7. ASSUME NEW e \in Events, diff = <<e>>, e.alert = a, Tells(row, e), e.row.seen = row.seen
      PROVE  Committed(w)
  <2>1. Of(a, e) /\ \A b \in Alerts \ {a} : ~Of(b, e)
    BY <1>7 DEF Of
  <2>2. \A b : /\ Silent(b, diff) <=> ~Of(b, e)
               /\ \A x : Has(b, diff, x) <=> Of(b, e) /\ x = e
    BY <1>7, OneMessage
  <2>3. Leaves(rows, diff)
    BY <1>1, <1>5, <1>7, <2>1, <2>2 DEF Leaves
  <2>4. Single(diff) /\ diff \in Seq(Events)
    BY <1>7 DEF Single
  <2> QED
    BY <1>1, <1>2, <1>4, <2>3, <2>4, CommitLeaves DEF Writers
<1> QED
  BY <1>6, <1>7

\* The four transactions, one by one.
LEMMA PostRowCommits ==
    ASSUME CoreTypes, NEW w \in Posters, NEW a \in Alerts, PostRow(w, a) PROVE Committed(w)
<1>1. PICK st \in {"active", "expired"} :
        LET row == [st |-> st, rev |-> posts + 1, seen |-> posts + 1]
            kind == IF st = "expired" THEN "ended"
                    ELSE IF Present(a) THEN "update" ELSE "new"
        IN  Commit(w, [db EXCEPT ![a] = row], <<Event(kind, a, row)>>)
  BY DEF PostRow
<1> DEFINE row == [st |-> st, rev |-> posts + 1, seen |-> posts + 1]
           kind == IF st = "expired" THEN "ended"
                   ELSE IF Present(a) THEN "update" ELSE "new"
           e == Event(kind, a, row)
<1>2. posts + 1 \in 0..MaxPosts /\ posts' = posts + 1 /\ posts < MaxPosts
      /\ UNCHANGED <<cache, req, wire, page, store, faults, excuses>>
  BY BoundsAssumption DEF PostRow, CoreTypes
<1>3. row \in DbRows
  BY <1>2 DEF DbRows, Statuses
<1>4. e \in Events
  BY <1>2, EventType
<1>5. e.alert = a /\ e.row.seen = row.seen /\ Tells(row, e)
  BY DEF Event, Tells
<1>6. db[a].seen <= row.seen /\ row.seen = posts + 1
  <2>1. db[a].seen \in 0..MaxPosts /\ db[a].seen <= posts /\ posts \in Nat
    BY BoundsAssumption DEF CoreTypes, DbRows
  <2> QED
    BY <2>1
<1>7. Commit(w, [db EXCEPT ![a] = row], <<e>>)
  BY <1>1
<1> HIDE DEF row, e
<1> QED
  BY <1>2, <1>3, <1>4, <1>5, <1>6, <1>7, PostLeaves

LEMMA PostSameCommits ==
    ASSUME CoreTypes, NEW w \in Posters, NEW a \in Alerts, PostSame(w, a) PROVE Committed(w)
<1>1. PICK revived \in {db[a].st = "withdrawn", FALSE} :
        LET row == [db[a] EXCEPT !.seen = posts + 1, !.st = IF revived THEN "active" ELSE @]
        IN  Commit(w, [db EXCEPT ![a] = row],
                   IF revived THEN <<Event("update", a, row)>> ELSE <<>>)
  BY DEF PostSame
<1> DEFINE row == [db[a] EXCEPT !.seen = posts + 1, !.st = IF revived THEN "active" ELSE @]
           e == Event("update", a, row)
<1>2. posts + 1 \in 0..MaxPosts /\ posts' = posts + 1 /\ posts < MaxPosts /\ posts \in Nat
      /\ UNCHANGED <<cache, req, wire, page, store, faults, excuses>>
  BY BoundsAssumption DEF PostSame, CoreTypes
<1>3. db[a] \in DbRows /\ db[a].seen \in Nat /\ db[a].seen <= posts
  BY BoundsAssumption DEF CoreTypes, DbRows
<1>4. /\ row \in DbRows /\ row.seen = posts + 1 /\ row.rev = db[a].rev
      /\ row.st = IF revived THEN "active" ELSE db[a].st
  BY <1>2, <1>3 DEF DbRows, Statuses
<1>5. db[a].seen <= row.seen
  BY <1>2, <1>3, <1>4
<1>6. Commit(w, [db EXCEPT ![a] = row], IF revived THEN <<e>> ELSE <<>>)
  BY <1>1
<1> HIDE DEF row
<1>7. CASE revived
  <2>1. e \in Events
    <3>1. row.rev \in 0..MaxPosts /\ row.seen \in 0..MaxPosts
      BY <1>4 DEF DbRows
    <3> QED
      BY <3>1, EventType
  <2>2. e.alert = a /\ e.row.seen = row.seen /\ Tells(row, e)
    BY <1>4, <1>7 DEF Event, Tells
  <2>3. Commit(w, [db EXCEPT ![a] = row], <<e>>)
    BY <1>6, <1>7
  <2> HIDE DEF e
  <2> QED
    BY <1>2, <1>4, <1>5, <2>1, <2>2, <2>3, PostLeaves
<1>8. CASE ~revived
  <2>1. Commit(w, [db EXCEPT ![a] = row], <<>>)
    BY <1>6, <1>8
  <2> QED
    BY <1>2, <1>4, <1>5, <1>8, <2>1, PostLeaves
<1> QED
  BY <1>7, <1>8

LEMMA PostWithoutCommits ==
    ASSUME CoreTypes, NEW w \in Posters, NEW a \in Alerts, PostWithout(w, a) PROVE Committed(w)
<1> DEFINE row == [db[a] EXCEPT !.st = "withdrawn"]
           e == Event("ended", a, db[a])
<1>1. Commit(w, [db EXCEPT ![a].st = "withdrawn"], <<e>>)
  BY DEF PostWithout
<1>2. posts + 1 \in 0..MaxPosts /\ posts' = posts + 1 /\ posts < MaxPosts
      /\ UNCHANGED <<cache, req, wire, page, store, faults, excuses>>
  BY BoundsAssumption DEF PostWithout, CoreTypes
<1>3. db[a] \in DbRows /\ db[a].seen \in Nat
  BY BoundsAssumption DEF CoreTypes, DbRows
<1>4. row \in DbRows /\ row.seen = db[a].seen /\ row.st = "withdrawn"
  BY <1>3 DEF DbRows, Statuses
<1>5. e \in Events
  <2>1. db[a].rev \in 0..MaxPosts /\ db[a].seen \in 0..MaxPosts
    BY <1>3 DEF DbRows
  <2> QED
    BY <2>1, EventType
<1>6. e.alert = a /\ e.row.seen = row.seen /\ Tells(row, e)
  BY <1>4 DEF Event, Tells
<1>7. Commit(w, [db EXCEPT ![a] = row], <<e>>)
  BY <1>1
<1> HIDE DEF row, e
<1>8. db[a].seen <= row.seen
  BY <1>3, <1>4
<1> QED
  BY <1>2, <1>4, <1>5, <1>6, <1>7, <1>8, PostLeaves

\* The expiry job's diff has one event for every alert that was due.
LEMMA SweepCommits == ASSUME CoreTypes, Sweep PROVE Committed("sweep")
<1>1. PICK order \in [1..Cardinality(Due) -> Due] :
        /\ \A i, j \in DOMAIN order : i # j => order[i] # order[j]
        /\ Commit("sweep", [a \in Alerts |-> IF a \in Due THEN [db[a] EXCEPT !.st = "expired"]
                                            ELSE db[a]],
                  [i \in DOMAIN order |-> Event("ended", order[i], db[order[i]])])
  BY DEF Sweep
<1> DEFINE rows == [a \in Alerts |-> IF a \in Due THEN [db[a] EXCEPT !.st = "expired"] ELSE db[a]]
           diff == [i \in DOMAIN order |-> Event("ended", order[i], db[order[i]])]
<1>2. posts' = posts /\ posts \in 0..MaxPosts
      /\ UNCHANGED <<cache, req, wire, page, store, faults, excuses>>
  BY DEF Sweep, CoreTypes
<1>3. Due \subseteq Alerts /\ IsFiniteSet(Due) /\ Cardinality(Due) \in Nat
  <2>1. Due \subseteq Alerts
    BY DEF Due
  <2> QED
    BY <2>1, AlertsAssumption, FS_Subset, FS_CardinalityType
<1>4. PICK n \in Nat : n = Cardinality(Due)
  BY <1>3
<1>5. DOMAIN order = 1..n /\ \A i \in 1..n : order[i] \in Due
  BY <1>1, <1>4
<1>6. \A a \in Alerts : /\ db[a] \in DbRows /\ db[a].rev \in 0..MaxPosts /\ db[a].seen \in 0..MaxPosts
                        /\ db[a].seen \in Nat /\ db[a].seen <= posts
  BY BoundsAssumption DEF CoreTypes, DbRows
<1>7. ASSUME NEW a \in Alerts
      PROVE  /\ rows[a] \in DbRows /\ rows[a].rev = db[a].rev /\ rows[a].seen = db[a].seen
             /\ rows[a].st = IF a \in Due THEN "expired" ELSE db[a].st
  BY <1>6 DEF DbRows, Statuses
<1>8. rows \in [Alerts -> DbRows]
  BY <1>7
<1>9. ASSUME NEW i \in 1..n
      PROVE  /\ diff[i] \in Events /\ diff[i].alert = order[i] /\ order[i] \in Due
             /\ diff[i].kind = "ended" /\ diff[i].row.seen = db[order[i]].seen
  <2>1. diff[i] = Event("ended", order[i], db[order[i]]) /\ order[i] \in Due
    BY <1>5
  <2>2. Event("ended", order[i], db[order[i]]) \in Events
    BY <1>3, <1>6, <2>1, EventType
  <2> QED
    BY <2>1, <2>2 DEF Event
<1>10. DOMAIN diff = 1..n
  BY <1>5
<1>11. Commit("sweep", rows, diff)
  BY <1>1
<1>12. diff = [i \in 1..n |-> diff[i]]
  BY <1>5
<1> HIDE DEF rows, diff
<1>13. diff \in Seq(Events)
  BY <1>9, <1>12
<1>14. Single(diff)
  BY <1>1, <1>5, <1>9, <1>10 DEF Single
<1>15. ASSUME NEW d \in Due PROVE \E i \in 1..n : order[i] = d
  <2> SUFFICES ASSUME \A i \in 1..n : order[i] # d PROVE FALSE
    OBVIOUS
  <2>1. order \in [1..n -> Due \ {d}]
    BY <1>1, <1>4, <1>5
  <2>2. IsFiniteSet(1..n) /\ Cardinality(1..n) = n
    BY FS_Interval
  <2>3. IsFiniteSet(Due \ {d}) /\ Cardinality(Due \ {d}) = n - 1
    BY <1>3, <1>4, FS_RemoveElement
  <2>4. n - 1 < n
    OBVIOUS
  <2>5. \E i, j \in 1..n : i # j /\ order[i] = order[j]
    <3>1. PICK S : S = 1..n
      OBVIOUS
    <3>2. PICK T : T = Due \ {d}
      OBVIOUS
    <3>3. IsFiniteSet(S) /\ IsFiniteSet(T) /\ Cardinality(T) < Cardinality(S) /\ order \in [S -> T]
      BY <2>1, <2>2, <2>3, <2>4, <3>1, <3>2
    <3>4. \E i, j \in S : i # j /\ order[i] = order[j]
      BY <3>3, FS_PigeonHole
    <3> QED
      BY <3>1, <3>4
  <2> QED
    BY <1>1, <1>5, <2>5
<1>16. ASSUME NEW a \in Alerts, Silent(a, diff) PROVE a \notin Due
  <2> SUFFICES ASSUME a \in Due PROVE FALSE
    OBVIOUS
  <2>1. PICK i \in 1..n : order[i] = a
    BY <1>15
  <2>2. Of(a, diff[i])
    BY <1>9, <2>1 DEF Of
  <2> QED
    BY <1>10, <1>16, <2>2 DEF Silent
<1>17. ASSUME NEW a \in Alerts, NEW e \in Events, Has(a, diff, e)
       PROVE  Tells(rows[a], e) /\ e.row.seen = rows[a].seen
  <2>1. PICK i \in 1..n : diff[i] = e /\ e.alert = a
    BY <1>10, <1>17 DEF Has, Of
  <2>2. e.kind = "ended" /\ a \in Due /\ e.row.seen = db[a].seen
    BY <1>9, <2>1
  <2> QED
    BY <1>7, <2>2 DEF Tells
<1>18. Leaves(rows, diff)
  <2>1. \A a \in Alerts : db[a].seen <= rows[a].seen /\ rows[a].seen <= posts'
    BY <1>2, <1>6, <1>7
  <2>2. \A a \in Alerts : Silent(a, diff) => rows[a].rev = db[a].rev /\ rows[a].st = db[a].st
    BY <1>7, <1>16
  <2> QED
    BY <1>17, <2>1, <2>2 DEF Leaves
<1> QED
  BY <1>2, <1>8, <1>11, <1>13, <1>14, <1>18, CommitLeaves DEF Writers

Commits == \E w \in Writers : Committed(w)

\* Every transaction of a writer is a Committed step.
LEMMA TransactionCommits ==
    ASSUME CoreTypes,
           \/ Sweep
           \/ \E w \in Posters, a \in Alerts : PostRow(w, a) \/ PostSame(w, a) \/ PostWithout(w, a)
    PROVE  Commits
  BY PostRowCommits, PostSameCommits, PostWithoutCommits, SweepCommits DEF Commits, Writers

\* What the database answers is a snapshot.
LEMMA ActiveType == CoreTypes => Active \in Bodies
<1> SUFFICES ASSUME CoreTypes, NEW a \in Alerts
             PROVE  (IF db[a].st = "active" THEN [rev |-> db[a].rev, seen |-> db[a].seen]
                     ELSE NoRow) \in Rows
  BY DEF Active, Bodies
<1>1. db[a].rev \in 0..MaxPosts /\ db[a].seen \in 0..MaxPosts
  BY DEF CoreTypes, DbRows
<1> QED
  BY <1>1, NoRowType DEF Rows

\* Variables that a step leaves alone keep their types.
LEMMA CoreKept == CoreTypes /\ UNCHANGED core => CoreTypes'
  BY DEF CoreTypes, core

LEMMA CacheKept == CacheTypes /\ UNCHANGED cache => CacheTypes'
  BY DEF CacheTypes

LEMMA ReqKept == ReqTypes /\ UNCHANGED req => ReqTypes'
  BY DEF ReqTypes

LEMMA PageKept == PageTypes /\ UNCHANGED <<wire, page>> => PageTypes'
  BY DEF PageTypes, page

LEMMA StoreKept == StoreTypes /\ UNCHANGED store => StoreTypes'
  BY DEF StoreTypes, store

LEMMA FaultKept == FaultTypes /\ UNCHANGED <<faults, excuses>> => FaultTypes'
  BY DEF FaultTypes, excuses

\* The page's request starts or is over.
LEMMA PageAsks ==
    ASSUME ReqTypes, NEW q \in {NoReq, Asking}, req' = [req EXCEPT !["page"] = q]
    PROVE  ReqTypes' /\ req'["page"] = q /\ \A r \in Others : req'[r] = req[r]
<1>1. q \in Requests /\ q.pc \notin {"put", "done"}
  BY DEF NoReq, Asking, Requests
<1>2. req' \in [Readers -> Requests] /\ req'["page"] = q
      /\ \A r \in Readers : r # "page" => req'[r] = req[r]
  BY <1>1 DEF ReqTypes, Readers
<1> QED
  BY <1>1, <1>2, OthersAssumption DEF ReqTypes, Readers

\* The steps keep the types, one by one.
LEMMA ExpiresType == ASSUME TypeInv, NEW a \in Alerts, Expires(a) PROVE TypeInv'
<1>1. db \in [Alerts -> DbRows] /\ \A b \in Alerts : db[b].seen <= posts
  BY DEF TypeInv, CoreTypes
<1>2. [db[a] EXCEPT !.st = "due"] \in DbRows /\ [db[a] EXCEPT !.st = "due"].seen = db[a].seen
  BY <1>1 DEF DbRows, Statuses
<1>3. db' = [db EXCEPT ![a] = [db[a] EXCEPT !.st = "due"]] /\ UNCHANGED <<writer, posts>>
  BY DEF Expires
<1>4. CoreTypes'
  BY <1>1, <1>2, <1>3 DEF TypeInv, CoreTypes
<1> QED
  BY <1>4, CacheKept, ReqKept, PageKept, StoreKept, FaultKept DEF TypeInv, Expires

LEMMA CommitsType == ASSUME TypeInv, Commits PROVE TypeInv'
<1>1. PICK w \in Writers : Committed(w)
  BY DEF Commits
<1>2. db' \in [Alerts -> DbRows] /\ posts' \in 0..MaxPosts /\ writer' \in [Writers -> WriterStates]
      /\ \A a \in Alerts : db'[a].seen <= posts'
  BY <1>1 DEF Committed, Leaves
<1>3. CoreTypes'
  BY <1>2 DEF CoreTypes
<1> QED
  BY <1>1, <1>3, CacheKept, ReqKept, PageKept, StoreKept, FaultKept DEF TypeInv, Committed

\* A sequence of events can stand on the wire.
LEMMA EventsAreMessages == Events \subseteq Messages /\ Seq(Events) \subseteq Seq(Messages)
<1>1. Events \subseteq Messages
  BY DEF Messages
<1>2. ASSUME NEW s \in Seq(Events) PROVE s \in Seq(Messages)
  BY <1>1
<1> QED
  BY <1>1, <1>2

\* The writers once one of them is done with its diff.
LEMMA DoneWriters ==
    ASSUME NEW w, NEW state, Done(w, state)
    PROVE  /\ writer' = [o \in Writers |-> writer'[o]]
           /\ w \in Writers => writer'[w] = state
           /\ \A o \in Writers \ {w} : \E behind, late :
                /\ behind = writer[o].behind \ {w}
                /\ late = IF o \in writer[w].behind
                          THEN writer[o].late \cup (Changed(o) \cap Changed(w))
                          ELSE writer[o].late
                /\ writer'[o] = [writer[o] EXCEPT !.behind = behind, !.late = late]
<1>1. writer' = [o \in Writers |-> writer'[o]] /\ (w \in Writers => writer'[w] = state)
  BY DEF Done
<1>2. ASSUME NEW o \in Writers \ {w}
      PROVE  \E behind, late :
                /\ behind = writer[o].behind \ {w}
                /\ late = IF o \in writer[w].behind
                          THEN writer[o].late \cup (Changed(o) \cap Changed(w))
                          ELSE writer[o].late
                /\ writer'[o] = [writer[o] EXCEPT !.behind = behind, !.late = late]
  BY Zenon DEF Done
<1> QED
  BY <1>1, <1>2

\* What a writer's diff is about, and the writers once it is done with it.
LEMMA DoneType ==
    ASSUME CoreTypes, NEW w \in Writers, NEW state \in WriterStates, Done(w, state),
           UNCHANGED <<db, posts>>
    PROVE  /\ CoreTypes'
           /\ \A o \in Writers : /\ Changed(o) \subseteq Alerts /\ writer[o].diff \in Seq(Events)
                                /\ writer[o] \in WriterStates
<1>1. writer \in [Writers -> WriterStates]
  BY DEF CoreTypes
<1>2. ASSUME NEW o \in Writers
      PROVE  Changed(o) \subseteq Alerts /\ writer[o].late \subseteq Alerts
             /\ writer[o].diff \in Seq(Events)
  <2>1. writer[o].diff \in Seq(Events) /\ writer[o].late \subseteq Alerts
    BY <1>1 DEF WriterStates
  <2>2. \A i \in DOMAIN writer[o].diff : writer[o].diff[i] \in Events
    BY <2>1
  <2>3. \A i \in DOMAIN writer[o].diff : writer[o].diff[i].alert \in Alerts
    BY <2>2 DEF Events
  <2> QED
    BY <2>1, <2>3 DEF Changed
<1>3. ASSUME NEW o \in Writers PROVE writer'[o] \in WriterStates
  <2>1. CASE o = w
    BY <2>1, DoneWriters
  <2>2. CASE o # w
    <3>1. PICK behind, late :
            /\ behind = writer[o].behind \ {w}
            /\ late = IF o \in writer[w].behind
                      THEN writer[o].late \cup (Changed(o) \cap Changed(w))
                      ELSE writer[o].late
            /\ writer'[o] = [writer[o] EXCEPT !.behind = behind, !.late = late]
      BY <2>2, DoneWriters
    <3>2. writer[o] \in WriterStates
      BY <1>1
    <3>3. behind \in SUBSET Writers /\ late \in SUBSET Alerts
      BY <1>2, <3>1, <3>2 DEF WriterStates
    <3> QED
      BY <3>1, <3>2, <3>3 DEF WriterStates
  <2> QED
    BY <2>1, <2>2
<1>4. writer' = [o \in Writers |-> writer'[o]]
  BY DoneWriters
<1>5. writer' \in [Writers -> WriterStates]
  BY <1>3, <1>4
<1> QED
  BY <1>1, <1>2, <1>5 DEF CoreTypes

LEMMA PublishType == ASSUME TypeInv, NEW w \in Writers, Publish(w) PROVE TypeInv'
<1>1. writer[w] \in WriterStates /\ wire \in Seq(Messages) /\ CoreTypes
  BY DEF TypeInv, CoreTypes, PageTypes
<1>2. PICK state : state = [writer[w] EXCEPT !.pc = "invalidate", !.behind = {}]
  OBVIOUS
<1>3. state \in WriterStates
  BY <1>1, <1>2 DEF WriterStates
<1>4. Done(w, state) /\ UNCHANGED <<db, posts>>
  BY <1>2 DEF Publish
<1>5. CoreTypes' /\ writer[w].diff \in Seq(Events) /\ writer[w].late \subseteq Alerts
  BY <1>1, <1>3, <1>4, DoneType DEF WriterStates
<1>6. wire' \in Seq(Messages)
  <2>1. writer[w].diff \in Seq(Messages)
    BY <1>5, EventsAreMessages
  <2>2. PICK d \in Seq(Messages) : d = writer[w].diff
    BY <2>1
  <2>3. wire' = wire \/ wire' = wire \o d
    BY <2>2 DEF Publish
  <2>4. wire \o d \in Seq(Messages)
    BY <1>1, <2>2
  <2> QED
    BY <1>1, <2>3, <2>4
<1>7. PageTypes'
  BY <1>6 DEF TypeInv, PageTypes, Publish, page
<1>8. FaultTypes'
  <2>1. misled' \subseteq Alerts
    BY <1>5 DEF Publish, TypeInv, FaultTypes
  <2> QED
    BY <2>1 DEF Publish, TypeInv, FaultTypes
<1> QED
  BY <1>5, <1>7, <1>8, CacheKept, ReqKept, StoreKept DEF TypeInv, Publish

LEMMA AbandonType == ASSUME TypeInv, NEW w \in Writers, Abandon(w) PROVE TypeInv'
<1>1. writer[w] \in WriterStates /\ CoreTypes
  BY DEF TypeInv, CoreTypes
<1>2. Idle \in WriterStates
  BY DEF Idle, WriterStates
<1>3. Done(w, Idle) /\ UNCHANGED <<db, posts>>
  BY DEF Abandon
<1>4. CoreTypes' /\ Changed(w) \subseteq Alerts /\ writer[w].wrote \subseteq Alerts
  BY <1>1, <1>2, <1>3, DoneType DEF WriterStates
<1>5. FaultTypes'
  <2>1. faults' \in 0..MaxFaults
    BY BoundsAssumption DEF Abandon, TypeInv, FaultTypes
  <2>2. misled' \subseteq Alerts /\ spared' \subseteq Alerts
    BY <1>4 DEF Abandon, TypeInv, FaultTypes
  <2> QED
    BY <2>1, <2>2 DEF Abandon, TypeInv, FaultTypes
<1> QED
  BY <1>4, <1>5, CacheKept, ReqKept, PageKept, StoreKept DEF TypeInv, Abandon

LEMMA InvalidateType == ASSUME TypeInv, NEW w \in Writers, Invalidate(w) PROVE TypeInv'
<1>1. writer \in [Writers -> WriterStates]
  BY DEF TypeInv, CoreTypes
<1>2. Idle \in WriterStates
  BY DEF Idle, WriterStates
<1>3. writer' \in [Writers -> WriterStates]
  BY <1>1, <1>2 DEF Invalidate
<1>4. CoreTypes'
  BY <1>3 DEF TypeInv, CoreTypes, Invalidate
<1>5. CacheTypes'
  BY DEF TypeInv, CacheTypes, Invalidate
<1>6. FaultTypes'
  BY DEF TypeInv, FaultTypes, Invalidate
<1> QED
  BY <1>4, <1>5, <1>6, ReqKept, PageKept, StoreKept DEF TypeInv, Invalidate

LEMMA AnswerType ==
    ASSUME NEW r, NEW body \in Bodies
    PROVE  Answer(r, body) \in Requests
  BY DEF Answer, Requests, Asking

LEMMA RequestType ==
    ASSUME ReqTypes, NEW r \in Readers, NEW q \in Requests,
           q.pc \in {"put", "done"} => q.body \in Bodies, req' = [req EXCEPT ![r] = q]
    PROVE  ReqTypes' /\ req'[r] = q /\ \A o \in Readers \ {r} : req'[o] = req[o]
  BY DEF ReqTypes

LEMMA ReaderType ==
    ASSUME TypeInv, NEW r \in Readers, CacheGet(r) \/ ReadDb(r) \/ CachePut(r)
    PROVE  TypeInv'
<1>1. req[r] \in Requests /\ cache.gen \in Nat /\ cache.entry \in Bodies \cup {NoBody}
      /\ ReqTypes /\ CoreTypes /\ CacheTypes
  BY DEF TypeInv, ReqTypes, CacheTypes
<1>2. CoreTypes' /\ PageTypes' /\ StoreTypes'
  BY CoreKept, PageKept, StoreKept DEF TypeInv, CacheGet, ReadDb, CachePut
<1>3. CASE CacheGet(r)
  <2>1. ASSUME cache.entry # NoBody, req' = [req EXCEPT ![r] = Answer(r, cache.entry)]
        PROVE  ReqTypes'
    <3>1. cache.entry \in Bodies
      BY <1>1, <2>1
    <3>2. Answer(r, cache.entry) \in Requests
          /\ (Answer(r, cache.entry).pc \in {"put", "done"} => Answer(r, cache.entry).body \in Bodies)
      BY <3>1, AnswerType DEF Answer, Asking
    <3> QED
      BY <1>1, <2>1, <3>2, RequestType
  <2>2. ASSUME NEW g \in {cache.gen, 0},
               req' = [req EXCEPT ![r] = [pc |-> "build", gen |-> g, body |-> NoBody]]
        PROVE  ReqTypes'
    <3>1. [pc |-> "build", gen |-> g, body |-> NoBody] \in Requests
      BY <1>1, <2>2 DEF Requests
    <3> QED
      BY <1>1, <2>2, <3>1, RequestType
  <2>3. ReqTypes'
    BY <1>3, <2>1, <2>2 DEF CacheGet
  <2>4. overtaken' \in BOOLEAN
    BY <1>3 DEF CacheGet, TypeInv, FaultTypes
  <2>5. CacheTypes' /\ FaultTypes'
    BY <1>1, <1>3, <2>4, CacheKept DEF CacheGet, TypeInv, FaultTypes
  <2> QED
    BY <1>2, <2>3, <2>5 DEF TypeInv
<1>4. CASE ReadDb(r)
  <2>1. Active \in Bodies
    BY <1>1, ActiveType
  <2>2. [pc |-> "put", gen |-> req[r].gen, body |-> Active] \in Requests
    BY <1>1, <2>1 DEF Requests
  <2>3. req' = [req EXCEPT ![r] = [pc |-> "put", gen |-> req[r].gen, body |-> Active]]
    BY <1>4 DEF ReadDb
  <2>4. ReqTypes'
    BY <1>1, <2>1, <2>2, <2>3, RequestType
  <2> QED
    BY <1>2, <1>4, <2>4, CacheKept, FaultKept DEF TypeInv, ReadDb
<1>5. CASE CachePut(r)
  <2>1. req[r].body \in Bodies
    BY <1>5, <1>1 DEF CachePut, ReqTypes
  <2>2. Answer(r, req[r].body) \in Requests
        /\ (Answer(r, req[r].body).pc \in {"put", "done"} => Answer(r, req[r].body).body \in Bodies)
    BY <2>1, AnswerType DEF Answer, Asking
  <2>3. req' = [req EXCEPT ![r] = Answer(r, req[r].body)]
    BY <1>5 DEF CachePut
  <2>4. ReqTypes'
    BY <1>1, <2>2, <2>3, RequestType
  <2>5. CacheTypes'
    BY <1>1, <1>5, <2>1 DEF CachePut, CacheTypes
  <2> QED
    BY <1>2, <1>5, <2>4, <2>5, FaultKept DEF TypeInv, CachePut
<1> QED
  BY <1>3, <1>4, <1>5

\* A frame and a replay make a view of a view.
LEMMA FoldTypes ==
    ASSUME NEW v \in Views, NEW s \in Seq(Events)
    PROVE  Fold(Apply, v, s) \in Views /\ Fold(Replay, v, s) \in Views
<1>1. Len(s) \in 0..Len(s)
  OBVIOUS
<1>2. Fold(Apply, v, s) \in Views
  <2>1. PICK g \in [0..Len(s) -> Views] : Fold(Apply, v, s) = g[Len(s)]
    BY FoldApply
  <2> QED
    BY <1>1, <2>1
<1>3. Fold(Replay, v, s) \in Views
  <2>1. PICK g \in [0..Len(s) -> Views] : Fold(Replay, v, s) = g[Len(s)]
    BY FoldReplay
  <2> QED
    BY <1>1, <2>1
<1> QED
  BY <1>2, <1>3

\* The snapshot as a view.
Fresh(body) == [a \in Alerts |-> [row |-> body[a], fading |-> FALSE]]

LEMMA FreshType == \A body \in Bodies : Fresh(body) \in Views
  BY DEF Fresh, Bodies, Views, Shows

LEMMA SnapshotType ==
    ASSUME TypeInv, NEW v \in Views, SnapshotEnds(v), UNCHANGED pending
    PROVE  StoreTypes' /\ ReqTypes'
<1>1. view' \in Views
  BY FoldTypes DEF SnapshotEnds, TypeInv, StoreTypes
<1>2. StoreTypes'
  <2>1. buffering' = FALSE /\ buffer' = <<>> /\ pending' \in Seq(Events) /\ <<>> \in Seq(Events)
    BY DEF SnapshotEnds, TypeInv, StoreTypes
  <2> QED
    BY <1>1, <2>1 DEF StoreTypes
<1>3. ReqTypes'
  BY PageAsks DEF SnapshotEnds, TypeInv
<1> QED
  BY <1>2, <1>3

\* A bridge that is attached carries messages.
LEMMA AttachedType == PageTypes => Attached \subseteq Seq(Messages)
<1> SUFFICES ASSUME PageTypes, NEW t \in Attached PROVE t \in Seq(Messages)
  OBVIOUS
<1>1. wire \in Seq(Messages)
  BY DEF PageTypes
<1>2. CASE t = wire
  BY <1>1, <1>2
<1>3. ASSUME NEW k \in 0..Len(wire),
             t = SubSeq(wire, 1, k) \o <<Resync>> \o SubSeq(wire, k + 1, Len(wire))
      PROVE  t \in Seq(Messages)
  BY <1>1, <1>3, Slipped
<1> QED
  BY <1>2, <1>3 DEF Attached

LEMMA DeliverType == ASSUME TypeInv, Deliver PROVE TypeInv'
<1>1. wire \in Seq(Messages) /\ wire # <<>> /\ buffer \in Seq(Events) /\ pending \in Seq(Events)
  BY DEF Deliver, TypeInv, PageTypes, StoreTypes
<1>2. wire' \in Seq(Messages) /\ cursor' = TRUE /\ UNCHANGED <<es, link>>
  BY <1>1 DEF Deliver
<1>3. PageTypes'
  BY <1>2 DEF TypeInv, PageTypes
<1>4. buffering' \in BOOLEAN /\ buffer' \in Seq(Events) /\ pending' \in Seq(Events) /\ view' = view
  <2>1. \A m \in Events : Append(buffer, m) \in Seq(Events) /\ Append(pending, m) \in Seq(Events)
    BY <1>1
  <2>2. buffering \in BOOLEAN
    BY DEF TypeInv, StoreTypes
  <2> QED
    BY <1>1, <2>1, <2>2 DEF Deliver
<1>5. StoreTypes'
  BY <1>4 DEF TypeInv, StoreTypes
<1>6. ReqTypes'
  <2>1. req' = req \/ req' = [req EXCEPT !["page"] = Asking]
    BY DEF Deliver, Load
  <2> QED
    BY <2>1, ReqKept, PageAsks DEF TypeInv
<1> QED
  BY <1>3, <1>5, <1>6, CoreKept, CacheKept, FaultKept DEF TypeInv, Deliver

LEMMA PageStepType ==
    ASSUME TypeInv,
           StartBridge \/ Open \/ Heartbeat \/ Frame \/ (\E a \in Alerts : FadeOut(a))
           \/ SnapshotOk \/ SnapshotFails \/ RetrySnapshot \/ Lose \/ Watchdog
    PROVE  TypeInv'
<1>1. CoreTypes' /\ CacheTypes'
  BY CoreKept, CacheKept DEF TypeInv, StartBridge, Open, Heartbeat, Frame, FadeOut, SnapshotOk,
     SnapshotFails, RetrySnapshot, Lose, Watchdog, NextConn
<1>2. CASE StartBridge \/ Heartbeat
  <2>1. PageTypes'
    BY <1>2 DEF TypeInv, PageTypes, StartBridge, Heartbeat
  <2> QED
    BY <1>1, <1>2, <2>1, ReqKept, StoreKept, FaultKept DEF TypeInv, StartBridge, Heartbeat
<1>3. CASE Open
  <2>1. wire' \in Seq(Messages)
    BY <1>3, AttachedType DEF Open, TypeInv
  <2>2. PageTypes'
    BY <1>3, <2>1 DEF TypeInv, PageTypes, Open
  <2>3. ReqTypes'
    BY <1>3, PageAsks DEF TypeInv, Open, Load
  <2>4. StoreTypes'
    <3>1. buffering' = TRUE /\ buffer' = <<>> /\ <<>> \in Seq(Events) /\ UNCHANGED <<pending, view>>
      BY <1>3 DEF Open
    <3> QED
      BY <3>1 DEF TypeInv, StoreTypes
  <2> QED
    BY <1>1, <1>3, <2>2, <2>3, <2>4, FaultKept DEF TypeInv, Open
<1>4. CASE Frame
  <2>1. view' \in Views /\ pending' = <<>> /\ <<>> \in Seq(Events) /\ UNCHANGED <<buffering, buffer>>
    BY <1>4, FoldTypes DEF Frame, TypeInv, StoreTypes
  <2>2. StoreTypes'
    BY <2>1 DEF TypeInv, StoreTypes
  <2> QED
    BY <1>1, <1>4, <2>2, ReqKept, PageKept, FaultKept DEF TypeInv, Frame
<1>5. ASSUME NEW a \in Alerts, FadeOut(a) PROVE TypeInv'
  <2>1. view' \in Views
    BY <1>5, NoRowType DEF FadeOut, TypeInv, StoreTypes, Views, Shows
  <2>2. StoreTypes'
    BY <1>5, <2>1 DEF FadeOut, TypeInv, StoreTypes
  <2> QED
    BY <1>1, <1>5, <2>2, ReqKept, PageKept, FaultKept DEF TypeInv, FadeOut
<1>6. CASE SnapshotOk
  <2>1. Fresh(req["page"].body) \in Views
    BY <1>6, FreshType DEF SnapshotOk, TypeInv, ReqTypes, Readers
  <2>2. SnapshotEnds(Fresh(req["page"].body)) /\ UNCHANGED pending
    BY <1>6 DEF SnapshotOk, Fresh
  <2>3. StoreTypes' /\ ReqTypes'
    BY <2>1, <2>2, SnapshotType
  <2>4. FaultTypes'
    BY <1>6 DEF SnapshotOk, TypeInv, FaultTypes
  <2> QED
    BY <1>1, <1>6, <2>3, <2>4, PageKept DEF TypeInv, SnapshotOk
<1>7. CASE SnapshotFails
  <2>1. StoreTypes' /\ ReqTypes'
    BY <1>7, SnapshotType DEF SnapshotFails, TypeInv, StoreTypes
  <2>2. faults' \in 0..MaxFaults
    BY <1>7, BoundsAssumption DEF SnapshotFails, TypeInv, FaultTypes
  <2>3. FaultTypes'
    BY <1>7, <2>2 DEF SnapshotFails, TypeInv, FaultTypes
  <2> QED
    BY <1>1, <1>7, <2>1, <2>3, PageKept DEF TypeInv, SnapshotFails
<1>8. CASE RetrySnapshot
  <2>1. ReqTypes'
    BY <1>8, PageAsks DEF TypeInv, RetrySnapshot, Load
  <2>2. StoreTypes'
    BY <1>8 DEF TypeInv, StoreTypes, RetrySnapshot
  <2> QED
    BY <1>1, <1>8, <2>1, <2>2, PageKept, FaultKept DEF TypeInv, RetrySnapshot
<1>9. CASE Lose \/ Watchdog
  <2>1. es' \in 1..MaxConns
    BY <1>9, BoundsAssumption DEF Lose, Watchdog, NextConn, TypeInv, PageTypes
  <2>2. PageTypes'
    <3>1. wire' = <<>> /\ link' = "connecting"
      BY <1>9 DEF Lose, Watchdog, NextConn
    <3>2. cursor' = cursor \/ cursor' = FALSE
      BY <1>9 DEF Lose, Watchdog
    <3>3. <<>> \in Seq(Messages)
      OBVIOUS
    <3> QED
      BY <2>1, <3>1, <3>2, <3>3 DEF TypeInv, PageTypes
  <2> QED
    BY <1>1, <1>9, <2>2, ReqKept, StoreKept, FaultKept DEF TypeInv, Lose, Watchdog, NextConn
<1> QED
  BY <1>2, <1>3, <1>4, <1>5, <1>6, <1>7, <1>8, <1>9

\* The ways in which a step may go.
LEMMA Steps ==
    ASSUME TypeInv, [Next]_vars
    PROVE  \/ Commits
           \/ \E a \in Alerts : Expires(a) \/ FadeOut(a)
           \/ \E w \in Writers : Publish(w) \/ Abandon(w) \/ Invalidate(w)
           \/ \E r \in Readers : CacheGet(r) \/ ReadDb(r) \/ CachePut(r)
           \/ StartBridge \/ Open \/ Deliver \/ Heartbeat \/ Frame
           \/ SnapshotOk \/ SnapshotFails \/ RetrySnapshot \/ Lose \/ Watchdog
           \/ UNCHANGED vars
  BY TransactionCommits DEF TypeInv, Next

LEMMA TypeNext == TypeInv /\ [Next]_vars => TypeInv'
<1> SUFFICES ASSUME TypeInv, [Next]_vars PROVE TypeInv'
  OBVIOUS
<1>1. CASE UNCHANGED vars
  BY <1>1, CoreKept, CacheKept, ReqKept, PageKept, StoreKept, FaultKept DEF vars, TypeInv
<1> QED
  BY <1>1, Steps, CommitsType, ExpiresType, PublishType, AbandonType, InvalidateType, ReaderType, DeliverType,
     PageStepType

\* Every variable keeps its type (AlertStream's TypeOK), and an answer is a snapshot.
THEOREM Typed == Spec => []TypeOK
<1>1. Spec => []TypeInv
  BY TypeInit, TypeNext, PTL DEF Spec
<1> QED
  BY <1>1, TypeInvImplies, PTL

----------------------------------------------------------------------------
(* Writers, and what is on its way to the page.                            *)

\* What the page makes of its answers and of its buffer between connections.
PageShape ==
    /\ link = "connecting" => wire = <<>>
    /\ ~buffering => buffer = <<>>
    /\ req["page"].pc # "idle" => buffering

\* Of two writers that have committed and not yet published one is behind the other.
WriterInv ==
    \A w \in Writers :
       /\ writer[w].pc = "idle" => writer[w].diff = <<>>
       /\ Single(writer[w].diff)
       /\ \A o \in writer[w].behind :
            o \in Writers \ {w} /\ writer[o].pc = "publish" /\ writer[w].pc = "publish"
       /\ \A o \in Writers \ {w} : writer[w].pc = "publish" /\ writer[o].pc = "publish" =>
            (o \in writer[w].behind <=> w \notin writer[o].behind)

OnWay(a, e) == Has(a, wire, e) \/ Has(a, buffer, e) \/ Has(a, pending, e)

\* No event and no snapshot has seen an alert later than the database.
SeenInv ==
    \A a \in Alerts :
       /\ \A e \in Events : OnWay(a, e) => e.row.seen <= db[a].seen
       /\ \A e \in Events, w \in Writers : Has(a, writer[w].diff, e) => e.row.seen <= db[a].seen
       /\ cache.entry # NoBody => cache.entry[a].seen <= db[a].seen
       /\ \A r \in Readers : req[r].pc \in {"put", "done"} => req[r].body[a].seen <= db[a].seen

LEMMA WriterInit == Init => WriterInv
<1> SUFFICES ASSUME Init PROVE WriterInv
  OBVIOUS
<1>1. \A w \in Writers : writer[w].pc = "idle" /\ writer[w].diff = <<>> /\ writer[w].behind = {}
  BY DEF Init, Idle
<1>2. Single(<<>>)
  BY DEF Single
<1> QED
  BY <1>1, <1>2 DEF WriterInv

\* A writer is done with its diff, published or not.
Quits(w) ==
    /\ writer[w].pc = "publish" /\ writer'[w].pc \in {"idle", "invalidate"}
    /\ writer'[w].behind = {}
    /\ writer'[w].diff = IF writer'[w].pc = "idle" THEN <<>> ELSE writer[w].diff
    /\ \A o \in Writers \ {w} :
         /\ writer'[o].pc = writer[o].pc /\ writer'[o].diff = writer[o].diff
         /\ writer'[o].behind = writer[o].behind \ {w}
         /\ writer'[o].late = IF o \in writer[w].behind
                              THEN writer[o].late \cup (Changed(o) \cap Changed(w))
                              ELSE writer[o].late

\* The other writers, when one is done.
LEMMA DoneOthers ==
    ASSUME TypeInv, NEW w \in Writers, NEW state, Done(w, state)
    PROVE  /\ writer'[w] = state
           /\ \A o \in Writers \ {w} :
                /\ writer'[o].pc = writer[o].pc /\ writer'[o].diff = writer[o].diff
                /\ writer'[o].behind = writer[o].behind \ {w}
                /\ writer'[o].late = IF o \in writer[w].behind
                                     THEN writer[o].late \cup (Changed(o) \cap Changed(w))
                                     ELSE writer[o].late
<1>1. writer \in [Writers -> WriterStates]
  BY DEF TypeInv, CoreTypes
<1>2. ASSUME NEW o \in Writers \ {w}
      PROVE  /\ writer'[o].pc = writer[o].pc /\ writer'[o].diff = writer[o].diff
             /\ writer'[o].behind = writer[o].behind \ {w}
             /\ writer'[o].late = IF o \in writer[w].behind
                                  THEN writer[o].late \cup (Changed(o) \cap Changed(w))
                                  ELSE writer[o].late
  <2>1. writer[o] \in WriterStates
    BY <1>1
  <2>2. writer'[o] = [writer[o] EXCEPT !.behind = @ \ {w},
                                       !.late = IF o \in writer[w].behind
                                                THEN @ \cup (Changed(o) \cap Changed(w))
                                                ELSE @]
    BY DEF Done
  <2> QED
    BY <2>1, <2>2 DEF WriterStates
<1> QED
  BY <1>2 DEF Done

\* What a publication does.
LEMMA Published ==
    ASSUME TypeInv, NEW w \in Writers, Publish(w)
    PROVE  /\ Quits(w) /\ writer'[w].pc = "invalidate"
           /\ \A a \in Alerts, e \in Events :
                Has(a, wire', e) => Has(a, wire, e) \/ Has(a, writer[w].diff, e)
<1>1. writer[w] \in WriterStates /\ wire \in Seq(Messages)
  BY DEF TypeInv, CoreTypes, PageTypes
<1>2. PICK state : state = [writer[w] EXCEPT !.pc = "invalidate", !.behind = {}]
  OBVIOUS
<1>3. state.pc = "invalidate" /\ state.behind = {} /\ state.diff = writer[w].diff
  BY <1>1, <1>2 DEF WriterStates
<1>4. Done(w, state) /\ writer[w].pc = "publish"
  BY <1>2 DEF Publish
<1>5. Quits(w) /\ writer'[w].pc = "invalidate"
  BY <1>3, <1>4, DoneOthers DEF Quits
<1>6. PICK d \in Seq(Messages) : d = writer[w].diff
  BY <1>1, EventsAreMessages DEF WriterStates
<1>7. wire' = wire \/ wire' = wire \o d
  BY <1>6 DEF Publish
<1>8. ASSUME NEW a \in Alerts, NEW e \in Events, Has(a, wire', e)
      PROVE  Has(a, wire, e) \/ Has(a, d, e)
  <2>1. Has(a, wire \o d, e) <=> Has(a, wire, e) \/ Has(a, d, e)
    BY <1>1, TwoParts
  <2> QED
    BY <1>7, <1>8, <2>1
<1> QED
  BY <1>5, <1>6, <1>8

\* What the failure of a writer does.
LEMMA Abandoned ==
    ASSUME TypeInv, NEW w \in Writers, Abandon(w)
    PROVE  /\ Quits(w) /\ writer'[w].pc = "idle" /\ misled' = misled \cup Changed(w)
           /\ UNCHANGED <<db, posts, cache, req, wire, page, store, overtaken, leftover, failed>>
<1>1. Idle.pc = "idle" /\ Idle.behind = {} /\ Idle.diff = <<>>
  BY DEF Idle
<1>2. Done(w, Idle) /\ writer[w].pc = "publish"
  BY DEF Abandon
<1>3. Quits(w) /\ writer'[w].pc = "idle"
  BY <1>1, <1>2, DoneOthers DEF Quits
<1> QED
  BY <1>3 DEF Abandon

\* A writer is behind those that have committed before it and not yet published.
LEMMA WriterNext == ASSUME TypeInv, WriterInv, [Next]_vars PROVE WriterInv'
<1>1. ASSUME NEW w \in Writers, Committed(w) PROVE WriterInv'
  <2>1. /\ writer[w].pc = "idle" /\ writer'[w].pc = "publish" /\ Single(writer'[w].diff)
        /\ writer'[w].behind = {o \in Writers \ {w} : writer[o].pc = "publish"}
        /\ \A o \in Writers \ {w} : writer'[o] = writer[o]
    BY <1>1 DEF Committed
  <2>2. \A o \in Writers : w \notin writer[o].behind
    BY <2>1 DEF WriterInv
  <2>3. ASSUME NEW o \in Writers
        PROVE  /\ writer'[o].pc = "idle" => writer'[o].diff = <<>>
               /\ Single(writer'[o].diff)
               /\ \A v \in writer'[o].behind :
                    v \in Writers \ {o} /\ writer'[v].pc = "publish" /\ writer'[o].pc = "publish"
    BY <2>1, <2>2 DEF WriterInv
  <2>4. ASSUME NEW o \in Writers, NEW v \in Writers \ {o},
               writer'[o].pc = "publish", writer'[v].pc = "publish"
        PROVE  v \in writer'[o].behind <=> o \notin writer'[v].behind
    <3>1. CASE o # w /\ v # w
      BY <2>1, <2>4, <3>1 DEF WriterInv
    <3>2. CASE o = w
      BY <2>1, <2>2, <2>4, <3>2
    <3>3. CASE v = w
      BY <2>1, <2>2, <2>4, <3>3
    <3> QED
      BY <3>1, <3>2, <3>3
  <2> QED
    BY <2>3, <2>4 DEF WriterInv
<1>2. ASSUME NEW w \in Writers, Publish(w) \/ Abandon(w) PROVE WriterInv'
  <2>1. Quits(w)
    BY <1>2, Published, Abandoned
  <2>2. Single(<<>>)
    BY DEF Single
  <2>3. ASSUME NEW o \in Writers
        PROVE  /\ writer'[o].pc = "idle" => writer'[o].diff = <<>>
               /\ Single(writer'[o].diff)
               /\ \A v \in writer'[o].behind :
                    v \in Writers \ {o} /\ writer'[v].pc = "publish" /\ writer'[o].pc = "publish"
    <3>1. CASE o = w
      BY <2>1, <2>2, <3>1 DEF Quits, WriterInv
    <3>2. CASE o # w
      <4>1. /\ writer'[o].pc = writer[o].pc /\ writer'[o].diff = writer[o].diff
            /\ writer'[o].behind = writer[o].behind \ {w}
            /\ \A v \in Writers \ {w} : writer'[v].pc = writer[v].pc
        BY <2>1, <3>2 DEF Quits
      <4>2. /\ writer[o].pc = "idle" => writer[o].diff = <<>>
            /\ Single(writer[o].diff)
            /\ \A v \in writer[o].behind :
                 v \in Writers \ {o} /\ writer[v].pc = "publish" /\ writer[o].pc = "publish"
        BY DEF WriterInv
      <4> QED
        BY <4>1, <4>2
    <3> QED
      BY <3>1, <3>2
  <2>4. ASSUME NEW o \in Writers, NEW v \in Writers \ {o},
               writer'[o].pc = "publish", writer'[v].pc = "publish"
        PROVE  v \in writer'[o].behind <=> o \notin writer'[v].behind
    <3>1. o # w /\ v # w
      BY <2>1, <2>4 DEF Quits
    <3>2. /\ writer'[o].pc = writer[o].pc /\ writer'[o].behind = writer[o].behind \ {w}
          /\ writer'[v].pc = writer[v].pc /\ writer'[v].behind = writer[v].behind \ {w}
      BY <2>1, <3>1 DEF Quits
    <3>3. v \in writer[o].behind <=> o \notin writer[v].behind
      BY <2>4, <3>2 DEF WriterInv
    <3> QED
      BY <3>1, <3>2, <3>3
  <2> QED
    BY <2>3, <2>4 DEF WriterInv
<1>3. ASSUME NEW w \in Writers, Invalidate(w) PROVE WriterInv'
  <2>1. writer[w].pc = "invalidate" /\ writer' = [writer EXCEPT ![w] = Idle]
        /\ writer \in [Writers -> WriterStates]
    BY <1>3 DEF Invalidate, TypeInv, CoreTypes
  <2>2. writer'[w] = Idle /\ \A o \in Writers \ {w} : writer'[o] = writer[o]
    BY <2>1
  <2>3. writer'[w].pc = "idle" /\ writer'[w].diff = <<>> /\ writer'[w].behind = {}
        /\ Single(<<>>)
    BY <2>2 DEF Idle, Single
  <2> QED
    BY <2>1, <2>2, <2>3 DEF WriterInv
<1>4. ASSUME UNCHANGED writer PROVE WriterInv'
  BY <1>4 DEF WriterInv
<1>5. CASE \E a \in Alerts : Expires(a) \/ FadeOut(a)
  BY <1>4, <1>5 DEF Expires, FadeOut, core
<1>6. CASE \E r \in Readers : CacheGet(r) \/ ReadDb(r) \/ CachePut(r)
  BY <1>4, <1>6 DEF CacheGet, ReadDb, CachePut, core
<1>7. CASE StartBridge \/ Open \/ Deliver \/ Heartbeat \/ Frame
           \/ SnapshotOk \/ SnapshotFails \/ RetrySnapshot \/ Lose \/ Watchdog
  BY <1>4, <1>7 DEF StartBridge, Open, Deliver, Heartbeat, Frame, SnapshotOk, SnapshotFails,
     RetrySnapshot, Lose, Watchdog, NextConn, core
<1>8. CASE UNCHANGED vars
  BY <1>4, <1>8 DEF vars, core
<1> QED
  BY <1>1, <1>2, <1>3, <1>5, <1>6, <1>7, <1>8, Steps DEF Commits

\* A connection that is not attached carries nothing, and a page that waits buffers.
LEMMA ShapeNext == ASSUME TypeInv, PageShape, [Next]_vars PROVE PageShape'
<1>1. ASSUME UNCHANGED <<wire, link, buffering, buffer, req>> PROVE PageShape'
  BY <1>1 DEF PageShape
<1>2. CASE Commits \/ \E a \in Alerts : Expires(a) \/ FadeOut(a)
  BY <1>1, <1>2 DEF Commits, Committed, Expires, FadeOut, page, store
<1>3. CASE \E w \in Writers : Publish(w) \/ Abandon(w) \/ Invalidate(w)
  <2>1. UNCHANGED <<link, buffering, buffer, req>>
    BY <1>3 DEF Publish, Abandon, Invalidate, page, store
  <2>2. link = "connecting" => wire' = wire
    BY <1>3 DEF Publish, Abandon, Invalidate
  <2> QED
    BY <2>1, <2>2 DEF PageShape
<1>4. CASE \E r \in Readers : CacheGet(r) \/ ReadDb(r) \/ CachePut(r)
  <2>1. PICK r \in Readers : CacheGet(r) \/ ReadDb(r) \/ CachePut(r)
    BY <1>4
  <2>2. UNCHANGED <<wire, link, buffering, buffer>> /\ req[r].pc # "idle"
    BY <2>1 DEF CacheGet, ReadDb, CachePut, page, store
  <2>3. r # "page" => req'["page"] = req["page"]
    BY <2>1 DEF CacheGet, ReadDb, CachePut, TypeInv, ReqTypes, Readers
  <2> QED
    BY <2>2, <2>3 DEF PageShape
<1>5. CASE StartBridge \/ Heartbeat \/ Frame
  BY <1>5 DEF StartBridge, Heartbeat, Frame, page, store, PageShape
<1>10. CASE Lose \/ Watchdog
  <2>1. wire' = <<>> /\ UNCHANGED <<req, buffering, buffer>>
    BY <1>10 DEF Lose, Watchdog, NextConn, store
  <2>2. (~buffering => buffer = <<>>) /\ (req["page"].pc # "idle" => buffering)
    BY DEF PageShape
  <2> QED
    BY <2>1, <2>2 DEF PageShape
<1>6. CASE Open \/ RetrySnapshot
  BY <1>6 DEF Open, RetrySnapshot, page, PageShape
<1>7. CASE Deliver
  BY <1>7 DEF Deliver, PageShape
<1>8. CASE SnapshotOk \/ SnapshotFails
  <2>1. req'["page"].pc = "idle"
    BY <1>8, PageAsks DEF SnapshotOk, SnapshotFails, SnapshotEnds, TypeInv, NoReq
  <2> QED
    BY <1>8, <2>1 DEF SnapshotOk, SnapshotFails, SnapshotEnds, PageShape, page
<1>9. CASE UNCHANGED vars
  BY <1>1, <1>9 DEF vars, page, store
<1> QED
  BY <1>2, <1>3, <1>4, <1>5, <1>6, <1>7, <1>8, <1>9, <1>10, Steps

\* An event that arrives is buffered or waits for a frame, and nothing else arrives.
LEMMA Arrival ==
    ASSUME TypeInv, Deliver
    PROVE  \E m \in Messages :
             /\ \A a \in Alerts :
                  /\ Silent(a, wire) <=> ~Of(a, m) /\ Silent(a, wire')
                  /\ \A e : Has(a, wire, e) <=> (Of(a, m) /\ e = m) \/ Has(a, wire', e)
                  /\ \A e : Ends(a, wire, e) <=>
                       Ends(a, wire', e) \/ (Silent(a, wire') /\ Of(a, m) /\ e = m)
             /\ \/ /\ m \in Events /\ UNCHANGED <<req, buffering>>
                   /\ \/ buffering /\ buffer' = buffer \o <<m>> /\ UNCHANGED pending
                      \/ ~buffering /\ pending' = pending \o <<m>> /\ UNCHANGED buffer
                \/ /\ \A a \in Alerts : ~Of(a, m)
                   /\ UNCHANGED <<buffer, pending>>
                   /\ \/ UNCHANGED <<req, buffering>>
                      \/ req["page"].pc = "idle" /\ Load /\ buffering' = TRUE
<1>1. wire \in Seq(Messages) /\ wire # <<>> /\ buffer \in Seq(Events) /\ pending \in Seq(Events)
  BY DEF Deliver, TypeInv, PageTypes, StoreTypes
<1>2. PICK m \in Messages : m = Head(wire)
  BY <1>1
<1>3. wire' = Tail(wire)
  BY DEF Deliver
<1>4. ASSUME NEW a \in Alerts
      PROVE  /\ Silent(a, wire) <=> ~Of(a, m) /\ Silent(a, wire')
             /\ \A e : Has(a, wire, e) <=> (Of(a, m) /\ e = m) \/ Has(a, wire', e)
             /\ \A e : Ends(a, wire, e) <=>
                  Ends(a, wire', e) \/ (Silent(a, wire') /\ Of(a, m) /\ e = m)
  BY <1>1, <1>2, <1>3, Taken
<1>5. \A x \in Events : Append(buffer, x) = buffer \o <<x>> /\ Append(pending, x) = pending \o <<x>>
  BY <1>1, AppendIsConcat
<1>6. CASE m \in Events /\ UNCHANGED <<req, buffering>>
           /\ IF buffering THEN buffer' = Append(buffer, m) /\ UNCHANGED pending
              ELSE pending' = Append(pending, m) /\ UNCHANGED buffer
  <2>1. \/ buffering /\ buffer' = buffer \o <<m>> /\ UNCHANGED pending
        \/ ~buffering /\ pending' = pending \o <<m>> /\ UNCHANGED buffer
    BY <1>5, <1>6
  <2> QED
    BY <1>4, <1>6, <2>1
<1>7. CASE m = Resync /\ UNCHANGED <<buffer, pending>>
           /\ IF req["page"].pc = "idle" THEN Load /\ buffering' = TRUE
              ELSE UNCHANGED <<req, buffering>>
  <2>1. \A a \in Alerts : ~Of(a, m)
    BY <1>7, ResyncNoEvent DEF Of
  <2> QED
    BY <1>4, <1>7, <2>1
<1> QED
  BY <1>2, <1>6, <1>7 DEF Deliver

PageStep ==
    \/ StartBridge \/ Open \/ Deliver \/ Heartbeat \/ Frame
    \/ SnapshotOk \/ SnapshotFails \/ RetrySnapshot \/ Lose \/ Watchdog
    \/ \E a \in Alerts : FadeOut(a)

\* A step of the page leaves the core alone.
LEMMA PageStepLeaves == PageStep => UNCHANGED <<db, writer, posts, cache, misled>>
  BY DEF PageStep, StartBridge, Open, Deliver, Heartbeat, Frame, SnapshotOk, SnapshotFails,
     RetrySnapshot, Lose, Watchdog, NextConn, FadeOut, core, excuses

\* The event stream opens with the same events for every alert.
LEMMA Reopened ==
    ASSUME TypeInv, Open
    PROVE  \A a \in Alerts : /\ Silent(a, wire') <=> Silent(a, wire)
                             /\ \A e : Has(a, wire', e) <=> Has(a, wire, e)
                             /\ \A e : Ends(a, wire', e) <=> Ends(a, wire, e)
<1>1. wire \in Seq(Messages) /\ wire' \in Attached
  BY DEF Open, TypeInv, PageTypes
<1>2. CASE wire' = wire
  BY <1>2
<1>3. ASSUME NEW k \in 0..Len(wire),
             wire' = SubSeq(wire, 1, k) \o <<Resync>> \o SubSeq(wire, k + 1, Len(wire))
      PROVE  \A a \in Alerts : /\ Silent(a, wire') <=> Silent(a, wire)
                               /\ \A e : Has(a, wire', e) <=> Has(a, wire, e)
                               /\ \A e : Ends(a, wire', e) <=> Ends(a, wire, e)
  <2>1. PICK t : t = SubSeq(wire, 1, k) \o <<Resync>> \o SubSeq(wire, k + 1, Len(wire))
    OBVIOUS
  <2>2. \A a : /\ Silent(a, t) <=> Silent(a, wire)
               /\ \A e : Has(a, t, e) <=> Has(a, wire, e)
               /\ \A e : Ends(a, t, e) <=> Ends(a, wire, e)
    BY <1>1, <2>1, Slipped
  <2>3. wire' = t
    BY <1>3, <2>1
  <2> QED
    BY <2>2, <2>3
<1> QED
  BY <1>1, <1>2, <1>3 DEF Attached

\* An event after one more message.
LEMMA Grown ==
    ASSUME NEW s \in Seq(Events), NEW m \in Events, NEW a
    PROVE  /\ Silent(a, s \o <<m>>) <=> Silent(a, s) /\ ~Of(a, m)
           /\ \A e : Has(a, s \o <<m>>, e) <=> Has(a, s, e) \/ (Of(a, m) /\ e = m)
           /\ \A e : Ends(a, s \o <<m>>, e) <=> (Of(a, m) /\ e = m) \/ (~Of(a, m) /\ Ends(a, s, e))
<1>1. s \in Seq(Messages) /\ <<m>> \in Seq(Messages)
  BY EventsAreMessages
<1>2. PICK t \in Seq(Messages) : t = <<m>>
  BY <1>1
<1>3. /\ Silent(a, s \o t) <=> Silent(a, s) /\ Silent(a, t)
      /\ \A e : Has(a, s \o t, e) <=> Has(a, s, e) \/ Has(a, t, e)
      /\ \A e : Ends(a, s \o t, e) <=> Ends(a, t, e) \/ (Silent(a, t) /\ Ends(a, s, e))
  BY <1>1, TwoParts
<1>4. /\ Silent(a, t) <=> ~Of(a, m)
      /\ \A e : Has(a, t, e) <=> Of(a, m) /\ e = m
      /\ \A e : Ends(a, t, e) <=> Of(a, m) /\ e = m
  BY <1>2, OneMessage
<1>5. /\ Silent(a, s \o t) <=> Silent(a, s) /\ ~Of(a, m)
      /\ \A e : Has(a, s \o t, e) <=> Has(a, s, e) \/ (Of(a, m) /\ e = m)
      /\ \A e : Ends(a, s \o t, e) <=> (Of(a, m) /\ e = m) \/ (~Of(a, m) /\ Ends(a, s, e))
  BY <1>3, <1>4, Zenon
<1> QED
  BY <1>2, <1>5

\* The page adds nothing to what is on its way.
LEMMA PageFlow ==
    ASSUME TypeInv, PageStep, NEW a \in Alerts, NEW e \in Events, OnWay(a, e)'
    PROVE  OnWay(a, e)
<1>1. buffer \in Seq(Events) /\ pending \in Seq(Events)
  BY DEF TypeInv, StoreTypes
<1>2. OnWay(a, e)' <=> Has(a, wire', e) \/ Has(a, buffer', e) \/ Has(a, pending', e)
  BY DEF OnWay
<1>3. ~Has(a, <<>>, e)
  BY EmptySilent
<1>4. CASE Deliver
  <2>1. PICK m \in Messages :
             /\ Has(a, wire, e) <=> (Of(a, m) /\ e = m) \/ Has(a, wire', e)
             /\ \/ m \in Events /\ buffer' = buffer \o <<m>> /\ UNCHANGED pending
                \/ m \in Events /\ pending' = pending \o <<m>> /\ UNCHANGED buffer
                \/ UNCHANGED <<buffer, pending>>
    BY <1>4, Arrival
  <2>2. m \in Events => /\ Has(a, buffer \o <<m>>, e) <=> Has(a, buffer, e) \/ (Of(a, m) /\ e = m)
                        /\ Has(a, pending \o <<m>>, e) <=> Has(a, pending, e) \/ (Of(a, m) /\ e = m)
    BY <1>1, Grown
  <2> QED
    BY <1>2, <2>1, <2>2 DEF OnWay
<1>5. CASE Open
  BY <1>2, <1>3, <1>5, Reopened DEF Open, OnWay
<1>6. CASE SnapshotOk \/ SnapshotFails
  <2>1. UNCHANGED <<wire, pending>> /\ buffer' = <<>>
    BY <1>6 DEF SnapshotOk, SnapshotFails, SnapshotEnds
  <2> QED
    BY <1>2, <1>3, <2>1 DEF OnWay
<1>7. CASE StartBridge \/ Heartbeat \/ RetrySnapshot \/ \E b \in Alerts : FadeOut(b)
  <2>1. UNCHANGED <<wire, buffer, pending>>
    BY <1>7 DEF StartBridge, Heartbeat, RetrySnapshot, FadeOut, store
  <2> QED
    BY <1>2, <2>1 DEF OnWay
<1>8. CASE Frame
  <2>1. UNCHANGED <<wire, buffer>> /\ pending' = <<>>
    BY <1>8 DEF Frame
  <2> QED
    BY <1>2, <1>3, <2>1 DEF OnWay
<1>9. CASE Lose \/ Watchdog
  <2>1. wire' = <<>> /\ UNCHANGED <<buffer, pending>>
    BY <1>9 DEF Lose, Watchdog, NextConn, store
  <2> QED
    BY <1>2, <1>3, <2>1 DEF OnWay
<1> QED
  BY <1>4, <1>5, <1>6, <1>7, <1>8, <1>9 DEF PageStep

\* A step of the page asks anew, forgets its request, or leaves it alone.
LEMMA PageStepAsks ==
    ASSUME TypeInv, PageStep
    PROVE  /\ \A r \in Others : req'[r] = req[r]
           /\ req'["page"] = req["page"] \/ req'["page"].pc \in {"idle", "sent"}
<1>1. UNCHANGED req \/ req' = [req EXCEPT !["page"] = Asking] \/ req' = [req EXCEPT !["page"] = NoReq]
  <2>1. CASE Deliver
    BY <2>1 DEF Deliver, Load
  <2>2. CASE Open \/ RetrySnapshot
    BY <2>2 DEF Open, RetrySnapshot, Load
  <2>3. CASE SnapshotOk \/ SnapshotFails
    BY <2>3 DEF SnapshotOk, SnapshotFails, SnapshotEnds
  <2>4. CASE StartBridge \/ Heartbeat \/ Frame \/ Lose \/ Watchdog \/ \E a \in Alerts : FadeOut(a)
    BY <2>4 DEF StartBridge, Heartbeat, Frame, Lose, Watchdog, NextConn, FadeOut
  <2> QED
    BY <2>1, <2>2, <2>3, <2>4 DEF PageStep
<1> QED
  BY <1>1, PageAsks DEF TypeInv, Asking, NoReq

----------------------------------------------------------------------------
(* Events and snapshots are not ahead of the database.                     *)

\* What a snapshot request does.
Hit(r) == cache.entry # NoBody /\ cache' = cache /\ req'[r] = Answer(r, cache.entry)
          /\ (r = "page" => (overtaken' <=> \E w \in Writers : writer[w].pc = "invalidate"))
Miss(r) == cache' = cache /\ req'[r].pc = "build"
Read(r) == cache' = cache /\ req'[r] = [pc |-> "put", gen |-> req[r].gen, body |-> Active]
           /\ req[r].pc = "build" /\ overtaken' = overtaken
Kept(r) == /\ req[r].pc = "put" /\ req'[r] = Answer(r, req[r].body) /\ overtaken' = overtaken
           /\ cache'.gen = cache.gen
           /\ \/ cache' = cache
              \/ req[r].gen = cache.gen /\ cache'.entry = req[r].body

\* The three steps of a request, in terms of their effect on it and on the cache.
LEMMA ReaderStep ==
    ASSUME TypeInv, NEW r \in Readers, CacheGet(r) \/ ReadDb(r) \/ CachePut(r)
    PROVE  /\ UNCHANGED <<db, writer, posts, wire, page, store, faults, misled, leftover, failed>>
           /\ \A o \in Readers \ {r} : req'[o] = req[o]
           /\ r # "page" => overtaken' = overtaken
           /\ Hit(r) \/ Miss(r) \/ Read(r) \/ Kept(r)
<1>1. req \in [Readers -> Requests] /\ cache \in [gen : Nat \ {0}, entry : Bodies \cup {NoBody}]
      /\ overtaken \in BOOLEAN
  BY DEF TypeInv, ReqTypes, CacheTypes, FaultTypes
<1>2. UNCHANGED <<db, writer, posts, wire, page, store, faults, misled, leftover, failed>>
  BY DEF CacheGet, ReadDb, CachePut, core, excuses
<1>3. \A o \in Readers \ {r} : req'[o] = req[o]
  BY <1>1 DEF CacheGet, ReadDb, CachePut
<1>4. ASSUME r # "page" PROVE overtaken' = overtaken
  BY <1>1, <1>4 DEF CacheGet, ReadDb, CachePut, excuses
<1>5. CASE CacheGet(r)
  <2>1. cache' = cache
    BY <1>5 DEF CacheGet
  <2>2. CASE /\ cache.entry # NoBody
             /\ req' = [req EXCEPT ![r] = Answer(r, cache.entry)]
             /\ overtaken' = IF r = "page" THEN \E w \in Writers : writer[w].pc = "invalidate"
                             ELSE overtaken
    <3>1. req'[r] = Answer(r, cache.entry)
      BY <1>1, <2>2
    <3>2. r = "page" => (overtaken' <=> \E w \in Writers : writer[w].pc = "invalidate")
      BY <2>2
    <3>3. Hit(r)
      BY <2>1, <2>2, <3>1, <3>2 DEF Hit
    <3> QED
      BY <1>2, <1>3, <1>4, <3>3
  <2>3. ASSUME NEW g, req' = [req EXCEPT ![r] = [pc |-> "build", gen |-> g, body |-> NoBody]]
        PROVE  Miss(r)
    BY <1>1, <2>1, <2>3 DEF Miss
  <2> QED
    BY <1>2, <1>3, <1>4, <1>5, <2>2, <2>3 DEF CacheGet
<1>6. CASE ReadDb(r)
  BY <1>1, <1>2, <1>3, <1>4, <1>6 DEF ReadDb, Read, excuses
<1>7. CASE CachePut(r)
  <2>1. /\ req[r].pc = "put" /\ req'[r] = Answer(r, req[r].body) /\ overtaken' = overtaken
        /\ cache' = IF req[r].gen = cache.gen THEN [cache EXCEPT !.entry = req[r].body] ELSE cache
    BY <1>1, <1>7 DEF CachePut, excuses
  <2>2. Kept(r)
    BY <1>1, <2>1 DEF Kept
  <2> QED
    BY <1>2, <1>3, <1>4, <2>2
<1> QED
  BY <1>5, <1>6, <1>7

LEMMA SeenInit == Init => SeenInv
<1> SUFFICES ASSUME Init PROVE SeenInv
  OBVIOUS
<1>1. /\ wire = <<>> /\ buffer = <<>> /\ pending = <<>> /\ cache.entry = NoBody
      /\ \A w \in Writers : writer[w].diff = <<>>
      /\ \A r \in Readers : req[r].pc \notin {"put", "done"}
  BY DEF Init, Idle, NoReq, Asking
<1>2. \A a : \A e : ~Has(a, <<>>, e)
  BY EmptySilent
<1> QED
  BY <1>1, <1>2 DEF SeenInv, OnWay

\* Events and snapshots are taken from rows, and the clock of a row never goes back.
LEMMA SeenNext == ASSUME TypeInv, SeenInv, [Next]_vars PROVE SeenInv'
<1>0. \A a \in Alerts : db[a] \in DbRows /\ db[a].seen \in Nat
  BY BoundsAssumption DEF TypeInv, CoreTypes, DbRows
<1>1. ASSUME NEW w \in Writers, Committed(w) PROVE SeenInv'
  <2>1. /\ \A a \in Alerts : db[a].seen <= db'[a].seen /\ db'[a].seen \in Nat
        /\ \A a \in Alerts, e \in Events : Has(a, writer'[w].diff, e) => e.row.seen = db'[a].seen
        /\ \A o \in Writers \ {w} : writer'[o] = writer[o]
        /\ UNCHANGED <<cache, req, wire, buffer, pending>>
    BY <1>1, BoundsAssumption DEF Committed, Leaves, DbRows, store
  <2>2. \A a, e : OnWay(a, e)' <=> OnWay(a, e)
    BY <2>1 DEF OnWay
  <2>3. \A e \in Events : e.row.seen \in Nat
    BY BoundsAssumption DEF Events, Rows
  <2>4. ASSUME NEW a \in Alerts PROVE \A n \in Nat : n <= db[a].seen => n <= db'[a].seen
    BY <1>0, <2>1
  <2>5. ASSUME NEW a \in Alerts, cache.entry # NoBody PROVE cache.entry[a].seen \in Nat
    BY <2>5, BoundsAssumption DEF TypeInv, CacheTypes, Bodies, Rows
  <2>6. ASSUME NEW a \in Alerts, NEW r \in Readers, req[r].pc \in {"put", "done"}
        PROVE  req[r].body[a].seen \in Nat
    BY <2>6, BoundsAssumption DEF TypeInv, ReqTypes, Bodies, Rows
  <2>7. ASSUME NEW a \in Alerts, NEW e \in Events, OnWay(a, e)' PROVE e.row.seen <= db'[a].seen
    BY <2>2, <2>3, <2>4, <2>7 DEF SeenInv
  <2>8. ASSUME NEW a \in Alerts, NEW e \in Events, NEW o \in Writers, Has(a, writer'[o].diff, e)
        PROVE  e.row.seen <= db'[a].seen
    BY <2>1, <2>3, <2>4, <2>8 DEF SeenInv
  <2>9. ASSUME NEW a \in Alerts, cache'.entry # NoBody PROVE cache'.entry[a].seen <= db'[a].seen
    BY <2>1, <2>4, <2>5, <2>9 DEF SeenInv
  <2>10. ASSUME NEW a \in Alerts, NEW r \in Readers, req'[r].pc \in {"put", "done"}
         PROVE  req'[r].body[a].seen <= db'[a].seen
    BY <2>1, <2>4, <2>6, <2>10 DEF SeenInv
  <2> QED
    BY <2>7, <2>8, <2>9, <2>10 DEF SeenInv
<1>2. ASSUME NEW a \in Alerts, Expires(a) PROVE SeenInv'
  <2>1. \A b \in Alerts : db'[b].seen = db[b].seen
    BY <1>0, <1>2 DEF Expires, TypeInv, CoreTypes, DbRows
  <2>2. UNCHANGED <<writer, cache, req, wire, buffer, pending>>
    BY <1>2 DEF Expires, store
  <2>3. \A b, e : OnWay(b, e)' <=> OnWay(b, e)
    BY <2>2 DEF OnWay
  <2> QED
    BY <2>1, <2>2, <2>3 DEF SeenInv
<1>3. ASSUME NEW w \in Writers, Publish(w) PROVE SeenInv'
  <2>1. UNCHANGED <<db, cache, req, buffer, pending>>
    BY <1>3 DEF Publish, store
  <2>2. \A o \in Writers : writer'[o].diff = writer[o].diff
    BY <1>3, Published DEF Quits
  <2>3. ASSUME NEW a \in Alerts, NEW e \in Events, OnWay(a, e)'
        PROVE  OnWay(a, e) \/ Has(a, writer[w].diff, e)
    BY <1>3, <2>1, <2>3, Published DEF OnWay
  <2> QED
    BY <2>1, <2>2, <2>3 DEF SeenInv
<1>8. ASSUME NEW w \in Writers, Abandon(w) PROVE SeenInv'
  <2>1. UNCHANGED <<db, cache, req, wire, buffer, pending>>
    BY <1>8, Abandoned DEF store
  <2>2. \A o \in Writers : writer'[o].diff = writer[o].diff \/ writer'[o].diff = <<>>
    BY <1>8, Abandoned DEF Quits
  <2>3. \A a, e : ~Has(a, <<>>, e)
    BY EmptySilent
  <2>4. \A a, e : OnWay(a, e)' <=> OnWay(a, e)
    BY <2>1 DEF OnWay
  <2>5. \A o \in Writers, a \in Alerts, e \in Events :
          Has(a, writer'[o].diff, e) => Has(a, writer[o].diff, e)
    BY <2>2, <2>3
  <2> QED
    BY <2>1, <2>4, <2>5 DEF SeenInv
<1>4. ASSUME NEW w \in Writers, Invalidate(w) PROVE SeenInv'
  <2>1. UNCHANGED <<db, req, wire, buffer, pending>> /\ cache'.entry = NoBody
    BY <1>4 DEF Invalidate, store
  <2>2. \A a, e : OnWay(a, e)' <=> OnWay(a, e)
    BY <2>1 DEF OnWay
  <2>3. \A o \in Writers : writer'[o] = IF o = w THEN Idle ELSE writer[o]
    BY <1>4 DEF Invalidate, TypeInv, CoreTypes
  <2>4. \A a, e : ~Has(a, Idle.diff, e)
    BY EmptySilent DEF Idle
  <2> QED
    BY <2>1, <2>2, <2>3, <2>4 DEF SeenInv
<1>5. ASSUME NEW r \in Readers, CacheGet(r) \/ ReadDb(r) \/ CachePut(r) PROVE SeenInv'
  <2>1. /\ UNCHANGED <<db, writer, wire, buffer, pending>>
        /\ \A o \in Readers \ {r} : req'[o] = req[o]
        /\ Hit(r) \/ Miss(r) \/ Read(r) \/ Kept(r)
    BY <1>5, ReaderStep DEF store
  <2>2. \A a, e : OnWay(a, e)' <=> OnWay(a, e)
    BY <2>1 DEF OnWay
  <2>3. \A a \in Alerts : Active[a].seen <= db[a].seen
    BY <1>0 DEF Active, NoRow
  <2>4. ASSUME NEW a \in Alerts, req'[r].pc \in {"put", "done"}
        PROVE  req'[r].body[a].seen <= db'[a].seen
    <3>1. CASE Hit(r)
      BY <2>1, <2>4, <3>1 DEF Hit, Answer, Asking, SeenInv
    <3>2. CASE Miss(r)
      BY <2>4, <3>2 DEF Miss
    <3>3. CASE Read(r)
      BY <2>1, <2>3, <3>3 DEF Read
    <3>4. CASE Kept(r)
      BY <2>1, <2>4, <3>4 DEF Kept, Answer, Asking, SeenInv
    <3> QED
      BY <2>1, <3>1, <3>2, <3>3, <3>4
  <2>5. ASSUME NEW a \in Alerts, cache'.entry # NoBody PROVE cache'.entry[a].seen <= db'[a].seen
    <3>1. cache' = cache \/ (req[r].pc = "put" /\ cache'.entry = req[r].body)
      BY <2>1 DEF Hit, Miss, Read, Kept
    <3> QED
      BY <2>1, <2>5, <3>1 DEF SeenInv
  <2> QED
    BY <2>1, <2>2, <2>4, <2>5 DEF SeenInv
<1>6. ASSUME PageStep PROVE SeenInv'
  <2>1. UNCHANGED <<db, writer, cache>>
    BY <1>6, PageStepLeaves
  <2>2. \A a \in Alerts, e \in Events : OnWay(a, e)' => OnWay(a, e)
    BY <1>6, PageFlow
  <2>3. \A r \in Readers : req'[r] = req[r] \/ req'[r].pc \notin {"put", "done"}
    BY <1>6, PageStepAsks DEF Readers
  <2> QED
    BY <2>1, <2>2, <2>3 DEF SeenInv
<1>7. CASE UNCHANGED vars
  BY <1>7 DEF vars, core, store, SeenInv, OnWay
<1> QED
  BY <1>1, <1>2, <1>3, <1>4, <1>5, <1>6, <1>7, <1>8, Steps DEF PageStep, Commits

----------------------------------------------------------------------------
(* What a writer has yet to publish.                                       *)

\* Another writer has committed a later change of the alert and not yet published it.
Overridden(a, w) ==
    \E o \in Writers : /\ writer[o].pc = "publish" /\ w \in writer[o].behind
                       /\ ~Silent(a, writer[o].diff)

\* What a writer will publish in its turn is not older than what has been published, and
\* says how things are.
DiffInv ==
    \A a \in Alerts, w \in Writers, e \in Events : Has(a, writer[w].diff, e) =>
       /\ writer[w].pc = "publish" /\ a \notin writer[w].late =>
            /\ \A x \in Events : OnWay(a, x) => x.row.seen <= e.row.seen
            /\ ~Overridden(a, w) => Tells(db[a], e)
       /\ \A o \in writer[w].behind, x \in Events :
            Has(a, writer[o].diff, x) => x.row.seen <= e.row.seen

\* An event of a diff is about an alert that the diff changes.
LEMMA ChangedHas ==
    ASSUME TypeInv, NEW o \in Writers, NEW a, NEW e, Has(a, writer[o].diff, e)
    PROVE  a \in Changed(o)
  BY DEF Has, Of, Changed

\* A diff says nothing of an alert that another one changes too without being late with it.
LEMMA LateSilent ==
    ASSUME TypeInv, NEW w \in Writers, Quits(w), NEW v \in writer[w].behind, v \in Writers \ {w},
           NEW a \in Alerts, NEW e, Has(a, writer[v].diff, e), a \notin writer'[v].late
    PROVE  Silent(a, writer[w].diff)
<1>1. a \in Changed(v)
  BY ChangedHas
<1>2. a \notin Changed(w)
  BY <1>1 DEF Quits
<1>3. ~Silent(a, writer[w].diff) => \E x : Has(a, writer[w].diff, x)
  BY HasNothing
<1> QED
  BY <1>2, <1>3, ChangedHas

LEMMA ChangedSpoken ==
    ASSUME TypeInv, NEW o \in Writers, NEW a, a \in Changed(o)
    PROVE  ~Silent(a, writer[o].diff)
<1>1. \A i \in DOMAIN writer[o].diff : writer[o].diff[i] \in Events
  BY DEF TypeInv, CoreTypes, WriterStates
<1> QED
  BY <1>1 DEF Changed, Silent, Of

\* A row that keeps its revision and status, or whose time runs out.
LEMMA TellsKept ==
    ASSUME NEW row, NEW new, NEW e, Tells(row, e), new.rev = row.rev,
           new.st = row.st \/ (row.st = "active" /\ new.st = "due")
    PROVE  Tells(new, e)
  BY DEF Tells

\* The time of one row runs out, and nothing else changes.
LEMMA ExpiresRows ==
    ASSUME TypeInv, NEW a \in Alerts, Expires(a)
    PROVE  /\ \A b \in Alerts : /\ db'[b].rev = db[b].rev /\ db'[b].seen = db[b].seen
                                /\ db'[b].st = db[b].st \/ (db[b].st = "active" /\ db'[b].st = "due")
           /\ UNCHANGED <<writer, posts, cache, req, wire, page, store, faults, excuses>>
<1>1. db \in [Alerts -> DbRows] /\ db[a].st = "active" /\ db' = [db EXCEPT ![a].st = "due"]
  BY DEF Expires, TypeInv, CoreTypes
<1>2. db' = [db EXCEPT ![a] = [db[a] EXCEPT !.st = "due"]]
  BY <1>1
<1>3. /\ [db[a] EXCEPT !.st = "due"].rev = db[a].rev /\ [db[a] EXCEPT !.st = "due"].seen = db[a].seen
      /\ [db[a] EXCEPT !.st = "due"].st = "due"
  BY <1>1 DEF DbRows
<1> QED
  BY <1>1, <1>2, <1>3 DEF Expires

\* A writer empties the cache and is idle.
LEMMA InvalidateRows ==
    ASSUME TypeInv, NEW w \in Writers, Invalidate(w)
    PROVE  /\ writer[w].pc = "invalidate" /\ writer'[w] = Idle
           /\ \A o \in Writers \ {w} : writer'[o] = writer[o]
           /\ cache'.entry = NoBody /\ cache'.gen = cache.gen + 1
           /\ UNCHANGED <<db, posts, req, wire, page, store, faults, overtaken, misled, leftover,
                          failed>>
  BY DEF Invalidate, TypeInv, CoreTypes

LEMMA DiffInit == Init => DiffInv
<1> SUFFICES ASSUME Init PROVE DiffInv
  OBVIOUS
<1>1. \A w \in Writers : writer[w].diff = <<>>
  BY DEF Init, Idle
<1>2. \A a : \A e : ~Has(a, <<>>, e)
  BY EmptySilent
<1> QED
  BY <1>1, <1>2 DEF DiffInv

\* The clock of an event is a number.
LEMMA EventSeen == \A e \in Events : e.row.seen \in Nat
  BY BoundsAssumption DEF Events, Rows

\* Commits of two writers may be published in either order: the one that is behind
\* has the later event, and it is told apart from one that came too late.
LEMMA DiffNext == ASSUME TypeInv, WriterInv, SeenInv, DiffInv, [Next]_vars PROVE DiffInv'
<1>0. \A a \in Alerts : db[a].seen \in Nat
  BY BoundsAssumption DEF TypeInv, CoreTypes, DbRows
<1>1. ASSUME NEW w \in Writers, Committed(w) PROVE DiffInv'
  <2>1. /\ \A a \in Alerts : /\ db[a].seen <= db'[a].seen /\ db'[a].seen \in Nat
                             /\ Silent(a, writer'[w].diff) =>
                                  db'[a].rev = db[a].rev /\ db'[a].st = db[a].st
        /\ \A a \in Alerts, e \in Events : Has(a, writer'[w].diff, e) =>
             Tells(db'[a], e) /\ e.row.seen = db'[a].seen
        /\ \A o \in Writers \ {w} : writer'[o] = writer[o]
        /\ writer[w].pc = "idle" /\ writer'[w].pc = "publish"
        /\ writer'[w].behind = {o \in Writers \ {w} : writer[o].pc = "publish"}
        /\ UNCHANGED <<wire, buffer, pending>>
    BY <1>1, BoundsAssumption DEF Committed, Leaves, DbRows, store
  <2>2. \A a, e : OnWay(a, e)' <=> OnWay(a, e)
    BY <2>1 DEF OnWay
  <2>3. ASSUME NEW a \in Alerts, NEW v \in Writers, NEW e \in Events, Has(a, writer'[v].diff, e),
               writer'[v].pc = "publish", a \notin writer'[v].late
        PROVE  /\ \A x \in Events : OnWay(a, x)' => x.row.seen <= e.row.seen
               /\ ~Overridden(a, v)' => Tells(db'[a], e)
    <3>1. CASE v = w
      <4>1. ASSUME NEW x \in Events, OnWay(a, x) PROVE x.row.seen <= e.row.seen
        <5>1. x.row.seen <= db[a].seen /\ e.row.seen = db'[a].seen /\ db[a].seen <= db'[a].seen
          BY <2>1, <2>3, <3>1, <4>1 DEF SeenInv
        <5> QED
          BY <1>0, <2>1, <5>1, EventSeen
      <4> QED
        BY <2>1, <2>2, <2>3, <3>1, <4>1
    <3>2. CASE v # w
      <4>1. writer'[v] = writer[v]
        BY <2>1, <3>2
      <4>2. ASSUME ~Overridden(a, v)' PROVE Tells(db'[a], e)
        <5>1. v \in writer'[w].behind
          BY <2>1, <2>3, <3>2, <4>1
        <5>2. Silent(a, writer'[w].diff)
          BY <2>1, <3>2, <4>2, <5>1 DEF Overridden
        <5>3. ~Overridden(a, v)
          BY <2>1, <4>2 DEF Overridden
        <5>4. Tells(db[a], e)
          BY <2>3, <4>1, <5>3 DEF DiffInv
        <5> QED
          BY <2>1, <5>2, <5>4, TellsKept
      <4> QED
        BY <2>2, <2>3, <4>1, <4>2 DEF DiffInv
    <3> QED
      BY <3>1, <3>2
  <2>4. ASSUME NEW a \in Alerts, NEW v \in Writers, NEW e \in Events, Has(a, writer'[v].diff, e),
               NEW o \in writer'[v].behind, NEW x \in Events, Has(a, writer'[o].diff, x)
        PROVE  x.row.seen <= e.row.seen
    <3>1. CASE v # w
      <4>1. o \in writer[v].behind /\ o \in Writers \ {w}
        BY <2>1, <2>4, <3>1 DEF WriterInv
      <4> QED
        BY <2>1, <2>4, <3>1, <4>1 DEF DiffInv
    <3>2. CASE v = w
      <4>1. o \in Writers \ {w}
        BY <2>1, <2>4, <3>2
      <4>2. x.row.seen <= db[a].seen
        BY <2>1, <2>4, <4>1 DEF SeenInv
      <4>3. e.row.seen = db'[a].seen /\ db[a].seen <= db'[a].seen
        BY <2>1, <2>4, <3>2
      <4> QED
        BY <1>0, <2>1, <4>2, <4>3, EventSeen
    <3> QED
      BY <3>1, <3>2
  <2> QED
    BY <2>3, <2>4 DEF DiffInv
<1>2. ASSUME NEW b \in Alerts, Expires(b) PROVE DiffInv'
  <2>1. /\ \A a \in Alerts : /\ db'[a].rev = db[a].rev
                             /\ db'[a].st = db[a].st \/ (db[a].st = "active" /\ db'[a].st = "due")
        /\ UNCHANGED <<writer, wire, buffer, pending>>
    BY <1>2, ExpiresRows DEF store
  <2>2. \A a, e : OnWay(a, e)' <=> OnWay(a, e)
    BY <2>1 DEF OnWay
  <2>3. \A a, v : Overridden(a, v)' <=> Overridden(a, v)
    BY <2>1 DEF Overridden
  <2>4. \A a \in Alerts, e \in Events : Tells(db[a], e) => Tells(db'[a], e)
    BY <2>1, TellsKept
  <2> QED
    BY <2>1, <2>2, <2>3, <2>4 DEF DiffInv
<1>3. ASSUME NEW w \in Writers, Quits(w), db' = db,
             \A a \in Alerts, x \in Events : OnWay(a, x)' =>
                OnWay(a, x) \/ Has(a, writer[w].diff, x)
      PROVE  DiffInv'
  <2>1. ASSUME NEW a \in Alerts, NEW v \in Writers, NEW e \in Events, Has(a, writer'[v].diff, e)
        PROVE  Has(a, writer[v].diff, e)
    <3>1. \A x, b : ~Has(b, <<>>, x)
      BY EmptySilent
    <3>2. writer'[v].diff = writer[v].diff \/ writer'[v].diff = <<>>
      BY <1>3 DEF Quits
    <3> QED
      BY <2>1, <3>1, <3>2
  <2>2. ASSUME NEW a \in Alerts, NEW v \in Writers, NEW e \in Events, Has(a, writer'[v].diff, e),
               writer'[v].pc = "publish", a \notin writer'[v].late
        PROVE  /\ \A x \in Events : OnWay(a, x)' => x.row.seen <= e.row.seen
               /\ ~Overridden(a, v)' => Tells(db[a], e)
    <3>1. /\ v # w /\ writer[v].pc = "publish" /\ a \notin writer[v].late
          /\ Has(a, writer[v].diff, e)
      BY <1>3, <2>1, <2>2 DEF Quits
    <3>2. ASSUME v \in writer[w].behind PROVE Silent(a, writer[w].diff)
      BY <1>3, <2>2, <3>1, <3>2, LateSilent
    <3>3. ~Overridden(a, v)' => ~Overridden(a, v)
      <4>1. ASSUME NEW o \in Writers, writer[o].pc = "publish", v \in writer[o].behind,
                   ~Silent(a, writer[o].diff)
            PROVE  Overridden(a, v)'
        <5>1. o # w
          BY <3>2, <4>1
        <5>2. writer'[o].pc = "publish" /\ v \in writer'[o].behind
              /\ writer'[o].diff = writer[o].diff
          BY <1>3, <3>1, <4>1, <5>1 DEF Quits
        <5> QED
          BY <4>1, <5>2 DEF Overridden
      <4> QED
        BY <4>1 DEF Overridden
    <3>4. ASSUME NEW x \in Events, Has(a, writer[w].diff, x) PROVE x.row.seen <= e.row.seen
      <4>1. v \notin writer[w].behind
        BY <3>2, <3>4, HasNothing
      <4>2. w \in writer[v].behind
        BY <1>3, <3>1, <4>1 DEF WriterInv, Quits
      <4> QED
        BY <3>1, <3>4, <4>2 DEF DiffInv
    <3> QED
      BY <1>3, <3>1, <3>3, <3>4 DEF DiffInv
  <2>3. ASSUME NEW a \in Alerts, NEW v \in Writers, NEW e \in Events, Has(a, writer'[v].diff, e),
               NEW o \in writer'[v].behind, NEW x \in Events, Has(a, writer'[o].diff, x)
        PROVE  x.row.seen <= e.row.seen
    <3>1. v # w /\ o \in writer[v].behind
      BY <1>3, <2>3 DEF Quits
    <3>2. o \in Writers
      BY <3>1 DEF WriterInv
    <3> QED
      BY <2>1, <2>3, <3>1, <3>2 DEF DiffInv
  <2> QED
    BY <1>3, <2>2, <2>3 DEF DiffInv
<1>9. ASSUME NEW w \in Writers, Publish(w) PROVE DiffInv'
  <2>1. UNCHANGED <<db, buffer, pending>>
    BY <1>9 DEF Publish, store
  <2>2. ASSUME NEW a \in Alerts, NEW x \in Events, OnWay(a, x)'
        PROVE  OnWay(a, x) \/ Has(a, writer[w].diff, x)
    BY <1>9, <2>1, <2>2, Published DEF OnWay
  <2> QED
    BY <1>3, <1>9, <2>1, <2>2, Published
<1>10. ASSUME NEW w \in Writers, Abandon(w) PROVE DiffInv'
  <2>1. UNCHANGED <<db, wire, buffer, pending>>
    BY <1>10, Abandoned DEF store
  <2>2. \A a, e : OnWay(a, e)' <=> OnWay(a, e)
    BY <2>1 DEF OnWay
  <2> QED
    BY <1>3, <1>10, <2>1, <2>2, Abandoned
<1>4. ASSUME NEW w \in Writers, Invalidate(w) PROVE DiffInv'
  <2>1. /\ writer[w].pc = "invalidate" /\ writer'[w] = Idle
        /\ \A o \in Writers \ {w} : writer'[o] = writer[o]
        /\ UNCHANGED <<db, wire, buffer, pending>>
    BY <1>4, InvalidateRows DEF store
  <2>2. \A a, e : OnWay(a, e)' <=> OnWay(a, e)
    BY <2>1 DEF OnWay
  <2>3. \A a, e : ~Has(a, Idle.diff, e)
    BY EmptySilent DEF Idle
  <2>4. \A a, v : Overridden(a, v) => Overridden(a, v)'
    BY <2>1 DEF Overridden
  <2>5. ASSUME NEW a \in Alerts, NEW v \in Writers, NEW e \in Events, Has(a, writer'[v].diff, e)
        PROVE  v # w /\ writer'[v] = writer[v] /\ Has(a, writer[v].diff, e)
               /\ \A o \in writer[v].behind : o \in Writers \ {w}
    BY <2>1, <2>3, <2>5 DEF WriterInv
  <2> QED
    BY <2>1, <2>2, <2>4, <2>5 DEF DiffInv
<1>5. ASSUME UNCHANGED <<db, writer>>,
             \A a \in Alerts, x \in Events : OnWay(a, x)' => OnWay(a, x)
      PROVE  DiffInv'
  <2>1. \A a, v : Overridden(a, v)' <=> Overridden(a, v)
    BY <1>5 DEF Overridden
  <2> QED
    BY <1>5, <2>1 DEF DiffInv
<1>6. ASSUME NEW r \in Readers, CacheGet(r) \/ ReadDb(r) \/ CachePut(r) PROVE DiffInv'
  BY <1>5, <1>6, ReaderStep DEF store, OnWay
<1>7. CASE PageStep
  BY <1>5, <1>7, PageStepLeaves, PageFlow
<1>8. CASE UNCHANGED vars
  BY <1>5, <1>8 DEF vars, core, store, OnWay
<1> QED
  BY <1>1, <1>2, <1>4, <1>6, <1>7, <1>8, <1>9, <1>10, Steps DEF PageStep, Commits

----------------------------------------------------------------------------
(* What a snapshot is right about.                                         *)

\* A revision (0 for none) that a list of the alerts in force may show for a row; whether
\* a row whose time has run out is still shown does not matter.
Fits(row, n) == row.st = "due" \/ n = IF row.st = "active" THEN row.rev ELSE 0

Older(a, s, row) == \A e \in Events : Has(a, s, e) => e.row.seen < row.seen

\* What has been published of an alert, or will be, tells how it is.
Trusted(a) ==
    \/ a \notin misled
    \/ \E w \in Writers : /\ writer[w].pc = "publish" /\ a \notin writer[w].late
                         /\ ~Silent(a, writer[w].diff)

\* A snapshot is right about every such alert that no unfinished writer has changed since.
BodyOK(body) ==
    \A a \in Alerts : Trusted(a) /\ (\A w \in Writers : Older(a, writer[w].diff, body[a])) =>
                         Fits(db[a], body[a].rev)

BodyInv ==
    /\ cache.entry # NoBody => BodyOK(cache.entry)
    /\ \A r \in Readers : req[r].pc = "put" /\ req[r].gen = cache.gen => BodyOK(req[r].body)

\* The page's snapshot is right about every such alert of which it will get no later event.
PageOlder(a, row) ==
    /\ Older(a, wire, row) /\ Older(a, buffer, row)
    /\ \A w \in Writers : writer[w].pc = "publish" => Older(a, writer[w].diff, row)

PageBody ==
    link = "open" /\ req["page"].pc \in {"put", "done"} /\ ~overtaken =>
       \A a \in Alerts : Trusted(a) /\ PageOlder(a, req["page"].body[a]) =>
                            Fits(db[a], req["page"].body[a].rev)

\* What fits a row still fits when its time runs out.
LEMMA FitsKept ==
    ASSUME NEW row, NEW new, NEW n, Fits(row, n), new.rev = row.rev,
           new.st = row.st \/ (row.st = "active" /\ new.st = "due")
    PROVE  Fits(new, n)
  BY DEF Fits

\* An event that is true of a row makes the view fit it.
LEMMA TellsFits == ASSUME NEW row, NEW e, Tells(row, e) PROVE Fits(row, ShownBy(e))
  BY DEF Tells, Fits, ShownBy

\* What the database answers fits it.
LEMMA ActiveFits == \A a \in Alerts : Fits(db[a], Active[a].rev)
  BY DEF Active, Fits, NoRow

\* A transaction with an event of an alert makes no snapshot older than that event.
LEMMA CommitBodies ==
    ASSUME TypeInv, NEW w \in Writers, Committed(w), NEW a \in Alerts, NEW row \in Rows,
           row.seen <= db[a].seen, Older(a, writer'[w].diff, row), Trusted(a)'
    PROVE  Trusted(a) /\ (Fits(db[a], row.rev) => Fits(db'[a], row.rev))
<1>1. /\ db[a].seen <= db'[a].seen
      /\ Silent(a, writer'[w].diff) => db'[a].rev = db[a].rev /\ db'[a].st = db[a].st
      /\ \A e \in Events : Has(a, writer'[w].diff, e) => e.row.seen = db'[a].seen
  BY DEF Committed, Leaves
<1>2. db[a].seen \in Nat /\ db'[a].seen \in Nat /\ row.seen \in Nat
  BY BoundsAssumption DEF TypeInv, CoreTypes, Committed, DbRows, Rows
<1>3. ~ (db'[a].seen < row.seen)
  BY <1>1, <1>2
<1>4. Silent(a, writer'[w].diff)
  BY <1>1, <1>3, HasNothing DEF Older
<1>5. Trusted(a)
  <2>1. misled' = misled /\ \A o \in Writers \ {w} : writer'[o] = writer[o]
    BY DEF Committed, excuses
  <2> QED
    BY <1>4, <2>1 DEF Trusted
<1> QED
  BY <1>1, <1>4, <1>5, FitsKept

\* A writer that is done with its diff makes no more alerts trusted.
LEMMA QuitsTrusted ==
    ASSUME TypeInv, NEW w \in Writers, Publish(w) \/ Abandon(w), NEW a \in Alerts, Trusted(a)'
    PROVE  Trusted(a)
<1>1. Quits(w)
  BY Published, Abandoned
<1>2. ASSUME NEW o \in Writers, writer'[o].pc = "publish", a \notin writer'[o].late,
             ~Silent(a, writer'[o].diff)
      PROVE  Trusted(a)
  BY <1>1, <1>2 DEF Quits, Trusted
<1>3. ASSUME a \notin misled' PROVE Trusted(a)
  <2>1. CASE Abandon(w)
    BY <1>3, <2>1, Abandoned DEF Trusted
  <2>2. CASE Publish(w)
    <3>1. a \notin writer[w].late /\ (a \notin misled \/ a \in Changed(w))
      BY <1>3, <2>2 DEF Publish
    <3>2. a \in Changed(w) => ~Silent(a, writer[w].diff)
      BY ChangedSpoken
    <3> QED
      BY <1>1, <3>1, <3>2 DEF Quits, Trusted
  <2> QED
    BY <2>1, <2>2
<1> QED
  BY <1>2, <1>3 DEF Trusted

\* Of a trusted alert nothing that a failed writer will not publish is later than what
\* another one will.
LEMMA AbandonOlder ==
    ASSUME TypeInv, WriterInv, DiffInv, NEW w \in Writers, Abandon(w), NEW a \in Alerts, Trusted(a)',
           NEW row \in Rows,
           \A o \in Writers : writer'[o].pc = "publish" => Older(a, writer'[o].diff, row)
    PROVE  Older(a, writer[w].diff, row)
<1>1. Quits(w) /\ writer'[w].pc = "idle" /\ misled' = misled \cup Changed(w)
  BY Abandoned
<1>2. CASE Silent(a, writer[w].diff)
  BY <1>2, HasNothing DEF Older
<1>3. ASSUME NEW v \in Writers, writer'[v].pc = "publish", a \notin writer'[v].late,
             ~Silent(a, writer'[v].diff), ~Silent(a, writer[w].diff)
      PROVE  Older(a, writer[w].diff, row)
  <2>1. v # w /\ writer[v].pc = "publish" /\ writer'[v].diff = writer[v].diff
    BY <1>1, <1>3 DEF Quits
  <2>2. PICK e \in Events : Has(a, writer[v].diff, e)
    BY <1>3, <2>1, HasNothing
  <2>3. v \notin writer[w].behind
    BY <1>1, <1>3, <2>1, <2>2, LateSilent
  <2>4. w \in writer[v].behind
    BY <1>1, <2>1, <2>3 DEF WriterInv, Quits
  <2>5. \A x \in Events : Has(a, writer[w].diff, x) => x.row.seen <= e.row.seen
    BY <2>2, <2>4 DEF DiffInv
  <2>6. e.row.seen < row.seen
    BY <1>3, <2>1, <2>2 DEF Older
  <2>7. row.seen \in Nat
    BY BoundsAssumption DEF Rows
  <2> QED
    BY <2>5, <2>6, <2>7, EventSeen DEF Older
<1>4. CASE a \notin misled'
  <2>1. a \in Changed(w) \/ Silent(a, writer[w].diff)
    BY HasNothing, ChangedHas
  <2> QED
    BY <1>1, <1>2, <1>4, <2>1
<1> QED
  BY <1>2, <1>3, <1>4 DEF Trusted

\* A step that leaves writers and their publications alone.
LEMMA TrustKept == UNCHANGED <<writer, misled>> => \A a : Trusted(a)' <=> Trusted(a)
  BY DEF Trusted

LEMMA BodyInit == Init => BodyInv /\ PageBody
  BY DEF Init, BodyInv, PageBody, NoReq, Asking

\* A transaction leaves a snapshot right about the alerts it was right about.
LEMMA CommitOK ==
    ASSUME TypeInv, WriterInv, NEW w \in Writers, Committed(w), NEW body \in Bodies, BodyOK(body),
           \A a \in Alerts : body[a].seen <= db[a].seen
    PROVE  BodyOK(body)'
<1> SUFFICES ASSUME NEW a \in Alerts, Trusted(a)',
                    \A o \in Writers : Older(a, writer'[o].diff, body[a])
             PROVE  Fits(db'[a], body[a].rev)
  BY DEF BodyOK, Older
<1>1. /\ \A o \in Writers \ {w} : writer'[o] = writer[o]
      /\ writer[w].pc = "idle"
  BY DEF Committed
<1>2. Older(a, writer[w].diff, body[a])
  <2>1. writer[w].diff = <<>>
    BY <1>1 DEF WriterInv
  <2>2. \A e : ~Has(a, <<>>, e)
    BY EmptySilent
  <2> QED
    BY <2>1, <2>2 DEF Older
<1>3. body[a] \in Rows
  BY DEF Bodies
<1>4. Trusted(a) /\ (Fits(db[a], body[a].rev) => Fits(db'[a], body[a].rev))
  BY <1>3, CommitBodies
<1>5. Fits(db[a], body[a].rev)
  BY <1>1, <1>2, <1>4 DEF BodyOK
<1> QED
  BY <1>4, <1>5

\* The failure of a writer leaves it right about the alerts that are still trusted.
LEMMA AbandonOK ==
    ASSUME TypeInv, WriterInv, DiffInv, NEW w \in Writers, Abandon(w), NEW body \in Bodies,
           BodyOK(body)
    PROVE  BodyOK(body)'
<1> SUFFICES ASSUME NEW a \in Alerts, Trusted(a)',
                    \A o \in Writers : Older(a, writer'[o].diff, body[a])
             PROVE  Fits(db[a], body[a].rev)
  BY Abandoned DEF BodyOK, Older
<1>1. body[a] \in Rows
  BY DEF Bodies
<1>2. Older(a, writer[w].diff, body[a])
  BY <1>1, AbandonOlder
<1>3. \A o \in Writers \ {w} : writer'[o].diff = writer[o].diff
  BY Abandoned DEF Quits
<1>4. Trusted(a)
  BY QuitsTrusted
<1> QED
  BY <1>2, <1>3, <1>4 DEF BodyOK

\* A snapshot that the cache accepts is right about every trusted alert that no unfinished
\* writer has changed: the generation check keeps the others out.
LEMMA BodyNext ==
    ASSUME TypeInv, CacheInv, WriterInv, SeenInv, DiffInv, BodyInv, [Next]_vars
    PROVE  BodyInv'
<1>1. ASSUME NEW w \in Writers, Committed(w) PROVE BodyInv'
  <2>1. UNCHANGED <<cache, req>>
    BY <1>1 DEF Committed
  <2>2. cache.entry # NoBody => cache.entry \in Bodies
    BY DEF TypeInv, CacheTypes
  <2>3. \A r \in Readers : req[r].pc = "put" => req[r].body \in Bodies
    BY DEF TypeInv, ReqTypes
  <2>4. cache'.entry # NoBody => BodyOK(cache.entry)'
    BY <1>1, <2>1, <2>2, CommitOK DEF BodyInv, SeenInv
  <2>5. ASSUME NEW r \in Readers, req'[r].pc = "put", req'[r].gen = cache'.gen
        PROVE  BodyOK(req[r].body)'
    <3>1. req[r].pc = "put" /\ req[r].gen = cache.gen
      BY <2>1, <2>5
    <3>2. PICK body \in Bodies : body = req[r].body
      BY <2>3, <3>1
    <3>3. BodyOK(body) /\ \A a \in Alerts : body[a].seen <= db[a].seen
      BY <3>1, <3>2 DEF BodyInv, SeenInv
    <3>4. BodyOK(body)'
      BY <1>1, <3>3, CommitOK
    <3> QED
      BY <2>1, <3>2, <3>4 DEF BodyOK
  <2> QED
    BY <2>1, <2>4, <2>5 DEF BodyInv, BodyOK
<1>2. ASSUME UNCHANGED <<cache, req>>, \A w \in Writers : writer'[w].diff = writer[w].diff,
             \A a \in Alerts : Trusted(a)' => Trusted(a),
             \A a \in Alerts : \A n : Fits(db[a], n) => Fits(db'[a], n)
      PROVE  BodyInv'
  BY <1>2 DEF BodyInv, BodyOK
<1>3. ASSUME NEW a \in Alerts, Expires(a) PROVE BodyInv'
  <2>1. /\ UNCHANGED <<writer, cache, req, misled>>
        /\ \A b \in Alerts : /\ db'[b].rev = db[b].rev
                             /\ db'[b].st = db[b].st \/ (db[b].st = "active" /\ db'[b].st = "due")
    BY <1>3, ExpiresRows DEF excuses
  <2>2. \A b \in Alerts : \A n : Fits(db[b], n) => Fits(db'[b], n)
    BY <2>1, FitsKept
  <2> QED
    BY <1>2, <2>1, <2>2, TrustKept
<1>4. ASSUME NEW w \in Writers, Publish(w) PROVE BodyInv'
  <2>1. UNCHANGED <<db, cache, req>>
    BY <1>4 DEF Publish
  <2>2. \A o \in Writers : writer'[o].diff = writer[o].diff
    BY <1>4, Published DEF Quits
  <2>3. \A a \in Alerts : Trusted(a)' => Trusted(a)
    BY <1>4, QuitsTrusted
  <2> QED
    BY <1>2, <2>1, <2>2, <2>3
<1>9. ASSUME NEW w \in Writers, Abandon(w) PROVE BodyInv'
  <2>1. UNCHANGED <<cache, req>>
    BY <1>9, Abandoned
  <2>2. cache.entry # NoBody => cache.entry \in Bodies
    BY DEF TypeInv, CacheTypes
  <2>3. cache'.entry # NoBody => BodyOK(cache.entry)'
    BY <1>9, <2>1, <2>2, AbandonOK DEF BodyInv
  <2>4. ASSUME NEW r \in Readers, req'[r].pc = "put", req'[r].gen = cache'.gen
        PROVE  BodyOK(req[r].body)'
    <3>1. req[r].pc = "put" /\ req[r].gen = cache.gen
      BY <2>1, <2>4
    <3>2. PICK body \in Bodies : body = req[r].body
      BY <3>1 DEF TypeInv, ReqTypes
    <3>3. BodyOK(body)
      BY <3>1, <3>2 DEF BodyInv
    <3>4. BodyOK(body)'
      BY <1>9, <3>3, AbandonOK
    <3> QED
      BY <2>1, <3>2, <3>4 DEF BodyOK
  <2> QED
    BY <2>1, <2>3, <2>4 DEF BodyInv, BodyOK
<1>5. ASSUME NEW w \in Writers, Invalidate(w) PROVE BodyInv'
  <2>1. cache'.entry = NoBody /\ cache'.gen = cache.gen + 1 /\ req' = req
    BY <1>5, InvalidateRows
  <2>2. \A r \in Readers : req[r].gen # cache.gen + 1
    BY DEF CacheInv, ShapeInv, GenInv
  <2> QED
    BY <2>1, <2>2 DEF BodyInv
<1>6. ASSUME NEW r \in Readers, CacheGet(r) \/ ReadDb(r) \/ CachePut(r) PROVE BodyInv'
  <2>1. /\ UNCHANGED <<db, writer, misled>>
        /\ \A o \in Readers \ {r} : req'[o] = req[o]
        /\ Hit(r) \/ Miss(r) \/ Read(r) \/ Kept(r)
    BY <1>6, ReaderStep
  <2>2. \A body : BodyOK(body)' <=> BodyOK(body)
    BY <2>1, TrustKept DEF BodyOK
  <2>3. BodyOK(Active)
    BY ActiveFits DEF BodyOK
  <2>4. cache'.gen = cache.gen
    BY <2>1 DEF Hit, Miss, Read, Kept
  <2>5. cache'.entry # NoBody => BodyOK(cache'.entry)
    <3>1. cache' = cache \/ (req[r].pc = "put" /\ req[r].gen = cache.gen /\ cache'.entry = req[r].body)
      BY <2>1 DEF Hit, Miss, Read, Kept
    <3> QED
      BY <3>1 DEF BodyInv
  <2>6. req'[r].pc = "put" => req'[r].body = Active
    BY <2>1 DEF Hit, Miss, Read, Kept, Answer, Asking
  <2>7. \A o \in Readers : req'[o].pc = "put" /\ req'[o].gen = cache.gen => BodyOK(req'[o].body)
    BY <2>1, <2>3, <2>6 DEF BodyInv
  <2>8. cache'.entry # NoBody => BodyOK(cache.entry)'
    BY <2>1, <2>5, TrustKept DEF BodyOK
  <2>9. ASSUME NEW o \in Readers, req'[o].pc = "put", req'[o].gen = cache'.gen
        PROVE  BodyOK(req[o].body)'
    BY <2>1, <2>4, <2>7, <2>9, TrustKept DEF BodyOK
  <2> QED
    BY <2>8, <2>9 DEF BodyInv, BodyOK
<1>7. CASE PageStep
  <2>1. UNCHANGED <<db, writer, cache, misled>>
    BY <1>7, PageStepLeaves
  <2>2. \A r \in Readers : req'[r] = req[r] \/ req'[r].pc # "put"
    BY <1>7, PageStepAsks DEF Readers
  <2>3. \A body : BodyOK(body)' <=> BodyOK(body)
    BY <2>1, TrustKept DEF BodyOK
  <2> QED
    BY <2>1, <2>2, <2>3 DEF BodyInv
<1>8. CASE UNCHANGED vars
  BY <1>2, <1>8, TrustKept DEF vars, core, excuses
<1> QED
  BY <1>1, <1>3, <1>4, <1>5, <1>6, <1>7, <1>8, <1>9, Steps DEF PageStep, Commits

\* A connection that is listening is sent the diff.
LEMMA PublishedWire ==
    ASSUME TypeInv, NEW w \in Writers, Publish(w), link # "connecting", NEW a
    PROVE  /\ Silent(a, wire') <=> Silent(a, wire) /\ Silent(a, writer[w].diff)
           /\ \A e : Has(a, wire', e) <=> Has(a, wire, e) \/ Has(a, writer[w].diff, e)
           /\ \A e : Ends(a, wire', e) <=>
                Ends(a, writer[w].diff, e) \/ (Silent(a, writer[w].diff) /\ Ends(a, wire, e))
<1>1. wire \in Seq(Messages) /\ writer[w].diff \in Seq(Events)
  BY DEF TypeInv, CoreTypes, WriterStates, PageTypes
<1>2. PICK d \in Seq(Messages) : d = writer[w].diff
  BY <1>1, EventsAreMessages
<1>3. wire' = wire \o d
  BY <1>2 DEF Publish
<1>4. /\ Silent(a, wire \o d) <=> Silent(a, wire) /\ Silent(a, d)
      /\ \A e : Has(a, wire \o d, e) <=> Has(a, wire, e) \/ Has(a, d, e)
      /\ \A e : Ends(a, wire \o d, e) <=> Ends(a, d, e) \/ (Silent(a, d) /\ Ends(a, wire, e))
  BY <1>1, TwoParts
<1> QED
  BY <1>2, <1>3, <1>4

\* A step that takes the page's snapshot no further.
LEMMA PageBodyKept ==
    ASSUME TypeInv, PageBody, link' = "open" => link = "open", req'["page"] = req["page"],
           overtaken' = overtaken,
           \A a \in Alerts : Trusted(a)' => Trusted(a),
           \A a \in Alerts : \A row \in Rows : Trusted(a)' /\ PageOlder(a, row)' => PageOlder(a, row),
           \A a \in Alerts : \A n : Fits(db[a], n) => Fits(db'[a], n)
    PROVE  PageBody'
<1>1. req["page"].pc \in {"put", "done"} => \A a \in Alerts : req["page"].body[a] \in Rows
  BY DEF TypeInv, ReqTypes, Bodies, Readers
<1> QED
  BY <1>1 DEF PageBody

\* The answer of the page is right about every alert of which no later event is on its
\* way: what was published before it was cached has emptied the cache.
LEMMA PageBodyNext ==
    ASSUME TypeInv, PageShape, WriterInv, SeenInv, DiffInv, BodyInv, PageBody, [Next]_vars
    PROVE  PageBody'
<1>0. "page" \in Readers
  BY DEF Readers
<1>1. ASSUME NEW w \in Writers, Committed(w) PROVE PageBody'
  <2>1. /\ UNCHANGED <<req, wire, link, buffer, overtaken>>
        /\ writer[w].pc = "idle" /\ writer'[w].pc = "publish"
        /\ \A o \in Writers \ {w} : writer'[o] = writer[o]
    BY <1>1 DEF Committed, page, store, excuses
  <2> SUFFICES ASSUME link = "open", req["page"].pc \in {"put", "done"}, ~overtaken,
                      NEW a \in Alerts, Trusted(a)', PageOlder(a, req["page"].body[a])'
               PROVE  Fits(db'[a], req["page"].body[a].rev)
    BY <2>1 DEF PageBody
  <2>2. PICK row \in Rows : row = req["page"].body[a]
    BY <1>0 DEF TypeInv, ReqTypes, Bodies
  <2>3. PageOlder(a, row) /\ Older(a, writer'[w].diff, row)
    BY <2>1, <2>2 DEF PageOlder, Older
  <2>4. row.seen <= db[a].seen
    BY <1>0, <2>2 DEF SeenInv
  <2>5. Trusted(a) /\ (Fits(db[a], row.rev) => Fits(db'[a], row.rev))
    BY <1>1, <2>3, <2>4, CommitBodies
  <2>6. Fits(db[a], row.rev)
    BY <2>2, <2>3, <2>5 DEF PageBody
  <2> QED
    BY <2>2, <2>5, <2>6
<1>2. ASSUME NEW a \in Alerts, Expires(a) PROVE PageBody'
  <2>1. /\ UNCHANGED <<writer, req, wire, link, buffer, overtaken, misled>>
        /\ \A b \in Alerts : /\ db'[b].rev = db[b].rev
                             /\ db'[b].st = db[b].st \/ (db[b].st = "active" /\ db'[b].st = "due")
    BY <1>2, ExpiresRows DEF page, store, excuses
  <2>2. \A b \in Alerts : \A n : Fits(db[b], n) => Fits(db'[b], n)
    BY <2>1, FitsKept
  <2>3. \A b \in Alerts : \A row : PageOlder(b, row)' => PageOlder(b, row)
    BY <2>1 DEF PageOlder, Older
  <2> QED
    BY <2>1, <2>2, <2>3, PageBodyKept, TrustKept
<1>3. ASSUME NEW w \in Writers, Publish(w) PROVE PageBody'
  <2>1. UNCHANGED <<db, req, link, buffer, overtaken>>
    BY <1>3 DEF Publish, page, store
  <2>2. /\ writer[w].pc = "publish"
        /\ \A o \in Writers \ {w} : writer'[o].pc = writer[o].pc /\ writer'[o].diff = writer[o].diff
    BY <1>3, Published DEF Quits
  <2>3. CASE link = "connecting"
    BY <2>1, <2>3 DEF PageBody
  <2>4. ASSUME link # "connecting", NEW a \in Alerts, NEW row, PageOlder(a, row)'
        PROVE  PageOlder(a, row)
    <3>1. Older(a, wire', row) /\ Older(a, buffer, row)
          /\ \A o \in Writers \ {w} : writer[o].pc = "publish" => Older(a, writer[o].diff, row)
      BY <2>1, <2>2, <2>4 DEF PageOlder, Older
    <3>2. Older(a, wire, row) /\ Older(a, writer[w].diff, row)
      BY <1>3, <2>4, <3>1, PublishedWire DEF Older
    <3> QED
      BY <3>1, <3>2 DEF PageOlder
  <2>5. \A a \in Alerts : Trusted(a)' => Trusted(a)
    BY <1>3, QuitsTrusted
  <2> QED
    BY <2>1, <2>3, <2>4, <2>5, PageBodyKept
<1>12. ASSUME NEW w \in Writers, Abandon(w) PROVE PageBody'
  <2>1. UNCHANGED <<db, req, wire, link, buffer, overtaken>>
    BY <1>12, Abandoned DEF page, store
  <2>2. \A o \in Writers \ {w} : writer'[o].pc = writer[o].pc /\ writer'[o].diff = writer[o].diff
    BY <1>12, Abandoned DEF Quits
  <2>3. ASSUME NEW a \in Alerts, NEW row \in Rows, Trusted(a)', PageOlder(a, row)'
        PROVE  PageOlder(a, row)
    <3>1. /\ Older(a, wire, row) /\ Older(a, buffer, row)
          /\ \A o \in Writers : writer'[o].pc = "publish" => Older(a, writer'[o].diff, row)
      BY <2>1, <2>3 DEF PageOlder, Older
    <3>2. Older(a, writer[w].diff, row)
      BY <1>12, <2>3, <3>1, AbandonOlder
    <3> QED
      BY <2>2, <3>1, <3>2 DEF PageOlder
  <2>4. \A a \in Alerts : Trusted(a)' => Trusted(a)
    BY <1>12, QuitsTrusted
  <2> QED
    BY <2>1, <2>3, <2>4, PageBodyKept
<1>4. ASSUME NEW w \in Writers, Invalidate(w) PROVE PageBody'
  <2>1. /\ writer[w].pc = "invalidate" /\ writer'[w].pc = "idle"
        /\ \A o \in Writers \ {w} : writer'[o] = writer[o]
        /\ UNCHANGED <<db, req, wire, link, buffer, overtaken, misled>>
    BY <1>4, InvalidateRows DEF page, store, Idle
  <2>2. \A a \in Alerts : \A row : PageOlder(a, row)' => PageOlder(a, row)
    BY <2>1 DEF PageOlder, Older
  <2>3. \A a \in Alerts : Trusted(a)' => Trusted(a)
    BY <2>1 DEF Trusted
  <2> QED
    BY <2>1, <2>2, <2>3, PageBodyKept
<1>5. ASSUME UNCHANGED <<db, writer, wire, buffer, overtaken, misled>>, link' = "open" => link = "open",
             req'["page"] = req["page"]
      PROVE  PageBody'
  <2>1. \A a \in Alerts : \A row : PageOlder(a, row)' => PageOlder(a, row)
    BY <1>5 DEF PageOlder, Older
  <2> QED
    BY <1>5, <2>1, PageBodyKept, TrustKept
<1>6. ASSUME NEW r \in Readers, CacheGet(r) \/ ReadDb(r) \/ CachePut(r) PROVE PageBody'
  <2>1. /\ UNCHANGED <<db, writer, wire, link, buffer, misled>>
        /\ \A o \in Readers \ {r} : req'[o] = req[o]
        /\ r # "page" => overtaken' = overtaken
        /\ Hit(r) \/ Miss(r) \/ Read(r) \/ Kept(r)
    BY <1>6, ReaderStep DEF page, store
  <2>2. CASE r # "page"
    BY <1>0, <1>5, <2>1, <2>2
  <2>3. CASE r = "page" /\ Hit(r)
    <3>1. req'["page"].body = cache.entry /\ BodyOK(cache.entry)
      BY <2>3 DEF Hit, Answer, BodyInv
    <3>2. ASSUME ~overtaken', NEW a \in Alerts, Trusted(a)', PageOlder(a, cache.entry[a])'
          PROVE  Fits(db[a], cache.entry[a].rev)
      <4>1. \A w \in Writers : writer[w].pc = "publish" => Older(a, writer[w].diff, cache.entry[a])
        BY <2>1, <2>3, <3>2 DEF PageOlder, Older, Hit
      <4>2. \A w \in Writers : writer[w].pc \in {"idle", "publish"}
        BY <2>3, <3>2 DEF Hit, TypeInv, CoreTypes, WriterStates
      <4>3. \A w \in Writers : writer[w].pc = "idle" => Older(a, writer[w].diff, cache.entry[a])
        BY EmptySilent DEF WriterInv, Older, Silent
      <4> QED
        BY <2>1, <3>1, <3>2, <4>1, <4>2, <4>3, TrustKept DEF BodyOK
    <3>3. cache' = cache
      BY <2>3 DEF Hit
    <3> QED
      BY <2>1, <3>1, <3>2, <3>3 DEF PageBody
  <2>4. CASE Miss(r)
    BY <1>0, <1>5, <2>1, <2>2, <2>4 DEF Miss, PageBody
  <2>5. CASE r = "page" /\ Read(r)
    BY <2>1, <2>5, ActiveFits DEF Read, PageBody
  <2>6. CASE r = "page" /\ Kept(r)
    <3>1. /\ req["page"].pc = "put" /\ req'["page"].body = req["page"].body
          /\ overtaken' = overtaken
      BY <2>6 DEF Kept, Answer
    <3>2. \A a \in Alerts : \A row : PageOlder(a, row)' => PageOlder(a, row)
      BY <2>1 DEF PageOlder, Older
    <3> QED
      BY <2>1, <3>1, <3>2, TrustKept DEF PageBody
  <2> QED
    BY <2>1, <2>2, <2>3, <2>4, <2>5, <2>6
<1>7. CASE Open \/ RetrySnapshot \/ SnapshotOk \/ SnapshotFails
  <2>1. req'["page"] \in {NoReq, Asking}
    BY <1>7, PageAsks DEF Open, RetrySnapshot, SnapshotOk, SnapshotFails, SnapshotEnds, Load, TypeInv
  <2> QED
    BY <2>1 DEF NoReq, Asking, PageBody
<1>8. CASE StartBridge \/ Lose \/ Watchdog
  BY <1>8 DEF StartBridge, Lose, Watchdog, NextConn, PageBody
<1>9. CASE Heartbeat \/ Frame \/ \E a \in Alerts : FadeOut(a)
  BY <1>5, <1>9 DEF Heartbeat, Frame, FadeOut, core, page, store, excuses
<1>10. CASE Deliver
  <2>1. UNCHANGED <<db, writer, link, overtaken, misled>>
    BY <1>10 DEF Deliver, core, excuses
  <2>2. PICK m \in Messages :
          /\ \A a \in Alerts :
               \A e : Has(a, wire, e) <=> (Of(a, m) /\ e = m) \/ Has(a, wire', e)
          /\ \/ /\ m \in Events /\ UNCHANGED <<req, buffering>>
                /\ \/ buffering /\ buffer' = buffer \o <<m>> /\ UNCHANGED pending
                   \/ ~buffering /\ pending' = pending \o <<m>> /\ UNCHANGED buffer
             \/ /\ \A a \in Alerts : ~Of(a, m)
                /\ UNCHANGED <<buffer, pending>>
                /\ \/ UNCHANGED <<req, buffering>>
                   \/ req["page"].pc = "idle" /\ Load /\ buffering' = TRUE
    BY <1>10, Arrival
  <2>3. CASE Load
    <3>1. req'["page"] = Asking
      BY <2>3, PageAsks DEF Load, TypeInv
    <3> QED
      BY <3>1 DEF Asking, PageBody
  <2>4. CASE req' = req /\ (buffer' = buffer => \A a \in Alerts : ~Of(a, m))
    <3>1. ASSUME NEW a \in Alerts, NEW row, PageOlder(a, row)' PROVE PageOlder(a, row)
      <4>1. Older(a, wire', row) /\ Older(a, buffer', row)
            /\ \A w \in Writers : writer[w].pc = "publish" => Older(a, writer[w].diff, row)
        BY <2>1, <3>1 DEF PageOlder, Older
      <4>2. CASE buffer' = buffer /\ ~Of(a, m)
        BY <2>2, <4>1, <4>2 DEF PageOlder, Older
      <4>3. CASE m \in Events /\ buffer' = buffer \o <<m>>
        <5>1. \A e : Has(a, buffer', e) <=> Has(a, buffer, e) \/ (Of(a, m) /\ e = m)
          BY <4>3, Grown DEF TypeInv, StoreTypes
        <5> QED
          BY <2>2, <4>1, <5>1 DEF PageOlder, Older
      <4> QED
        BY <2>2, <2>4, <4>2, <4>3
    <3> QED
      BY <2>1, <2>4, <3>1, PageBodyKept, TrustKept
  <2>5. CASE req' = req /\ ~buffering
    BY <2>5 DEF PageShape, PageBody
  <2> QED
    BY <2>2, <2>3, <2>4, <2>5
<1>11. CASE UNCHANGED vars
  BY <1>5, <1>11 DEF vars, core, page, store, excuses
<1> QED
  BY <1>1, <1>2, <1>3, <1>4, <1>6, <1>7, <1>8, <1>9, <1>10, <1>11, <1>12, Steps DEF Commits

----------------------------------------------------------------------------
(* What the last event on its way says.                                    *)

\* Every change of the alert has been published, the last two in the order of their commits.
Settled(a) ==
    /\ a \notin misled
    /\ \A w \in Writers : writer[w].pc = "publish" => Silent(a, writer[w].diff)

\* The last event of an alert says how things are, and no other has seen it later.
Newest(a, s, row) ==
    \A e \in Events : Ends(a, s, e) =>
       /\ Tells(row, e)
       /\ \A x \in Events : Has(a, s, x) => x.row.seen <= e.row.seen

\* What is on its way to the view of a settled alert ends with how things are: in the
\* stream, behind the buffer, and behind the events that wait for a frame.
LineInv ==
    \A a \in Alerts : Settled(a) =>
       /\ link # "connecting" => Newest(a, wire, db[a])
       /\ link = "open" /\ buffering => Newest(a, buffer \o wire, db[a])
       /\ link = "open" /\ ~buffering /\ ~leftover /\ ~failed => Newest(a, pending \o wire, db[a])

\* The parts of the line are sequences of messages.
LEMMA Lines == TypeInv => /\ wire \in Seq(Messages) /\ buffer \in Seq(Messages)
                          /\ pending \in Seq(Messages) /\ <<>> \o wire = wire
  BY EventsAreMessages DEF TypeInv, PageTypes, StoreTypes

\* Fewer events, and no other last one.
LEMMA NewestKept ==
    ASSUME NEW a, NEW s, NEW t, NEW row, Newest(a, s, row),
           \A e \in Events : Ends(a, t, e) => Ends(a, s, e),
           \A e \in Events : Has(a, t, e) => Has(a, s, e)
    PROVE  Newest(a, t, row)
  BY DEF Newest

\* Where there is no event there is nothing to be wrong about.
LEMMA NewestNothing == ASSUME NEW a, NEW row PROVE Newest(a, <<>>, row)
  BY EmptySilent DEF Newest

\* A row that keeps its revision and status, or whose time runs out.
LEMMA NewestRow ==
    ASSUME NEW a, NEW s, NEW row, NEW new, Newest(a, s, row), new.rev = row.rev,
           new.st = row.st \/ (row.st = "active" /\ new.st = "due")
    PROVE  Newest(a, s, new)
  BY TellsKept DEF Newest

\* A step that adds nothing to what is on its way.
LEMMA LineKept ==
    ASSUME LineInv, UNCHANGED <<wire, buffer, pending, link, buffering, leftover, failed>>,
           \A a \in Alerts : Settled(a)' =>
              Settled(a) /\ \A s : Newest(a, s, db[a]) => Newest(a, s, db'[a])
    PROVE  LineInv'
  BY DEF LineInv

\* A writer that publishes nothing of an alert leaves it as settled as it was.
LEMMA SettledBefore ==
    ASSUME TypeInv, NEW w \in Writers, Publish(w), NEW a \in Alerts, Settled(a)',
           Silent(a, writer[w].diff)
    PROVE  Settled(a)
<1>1. /\ \A o \in Writers \ {w} : writer'[o].pc = writer[o].pc /\ writer'[o].diff = writer[o].diff
      /\ misled' = (misled \ Changed(w)) \cup writer[w].late
  BY Published DEF Publish, Quits
<1>2. \A i \in DOMAIN writer[w].diff : writer[w].diff[i] \in Events
  BY DEF TypeInv, CoreTypes, WriterStates
<1>3. a \notin Changed(w)
  BY <1>2 DEF Changed, Silent, Of
<1> QED
  BY <1>1, <1>3 DEF Settled

\* One that fails after its commit unsettles what it changed.
LEMMA SettledAbandoned ==
    ASSUME TypeInv, NEW w \in Writers, Abandon(w), NEW a \in Alerts, Settled(a)'
    PROVE  Settled(a)
<1>1. a \notin misled /\ a \notin Changed(w)
  BY Abandoned DEF Settled
<1>2. Silent(a, writer[w].diff)
  BY <1>1, HasNothing, ChangedHas
<1>3. \A o \in Writers \ {w} : writer'[o].pc = writer[o].pc /\ writer'[o].diff = writer[o].diff
  BY Abandoned DEF Quits
<1> QED
  BY <1>1, <1>2, <1>3 DEF Settled

\* What a publication appends to a line of events keeps it right.
LEMMA PublishLine ==
    ASSUME TypeInv, WriterInv, DiffInv, NEW w \in Writers, Publish(w), link # "connecting",
           wire' \in Seq(Messages), NEW a \in Alerts, Settled(a)', NEW h \in Seq(Messages),
           \A x \in Events : Has(a, h, x) => OnWay(a, x),
           Settled(a) => Newest(a, h \o wire, db[a])
    PROVE  Newest(a, h \o wire', db[a])
<1> DEFINE d == writer[w].diff
<1>1. /\ \A e : Has(a, h \o wire, e) <=> Has(a, h, e) \/ Has(a, wire, e)
      /\ \A e : Ends(a, h \o wire, e) <=> Ends(a, wire, e) \/ (Silent(a, wire) /\ Ends(a, h, e))
      /\ \A e : Has(a, h \o wire', e) <=> Has(a, h, e) \/ Has(a, wire', e)
      /\ \A e : Ends(a, h \o wire', e) <=> Ends(a, wire', e) \/ (Silent(a, wire') /\ Ends(a, h, e))
  BY Lines, TwoParts
<1>2. /\ Silent(a, wire') <=> Silent(a, wire) /\ Silent(a, d)
      /\ \A e : Has(a, wire', e) <=> Has(a, wire, e) \/ Has(a, d, e)
      /\ \A e : Ends(a, wire', e) <=> Ends(a, d, e) \/ (Silent(a, d) /\ Ends(a, wire, e))
  BY PublishedWire
<1>3. /\ writer[w].pc = "publish"
      /\ \A o \in Writers \ {w} : writer'[o].pc = writer[o].pc /\ writer'[o].diff = writer[o].diff
      /\ misled' = (misled \ Changed(w)) \cup writer[w].late
  BY Published DEF Publish, Quits
<1>4. \A o \in Writers \ {w} : writer[o].pc = "publish" => Silent(a, writer[o].diff)
  BY <1>3 DEF Settled
<1>5. CASE Silent(a, d)
  <2>1. \A e : ~Has(a, d, e) /\ ~Ends(a, d, e)
    BY <1>5, EndsHas DEF Silent, Has
  <2>2. Settled(a)
    BY <1>5, SettledBefore
  <2> QED
    BY <1>1, <1>2, <1>5, <2>1, <2>2, NewestKept
<1>6. CASE ~Silent(a, d)
  <2> SUFFICES ASSUME NEW e \in Events, Ends(a, h \o wire', e)
               PROVE  /\ Tells(db[a], e)
                      /\ \A x \in Events : Has(a, h \o wire', x) => x.row.seen <= e.row.seen
    BY DEF Newest
  <2>1. Has(a, d, e)
    BY <1>1, <1>2, <1>6, EndsHas
  <2>2. a \notin writer[w].late
    BY <1>3 DEF Settled
  <2>3. ~Overridden(a, w)
    BY <1>4 DEF Overridden, WriterInv
  <2>4. /\ \A x \in Events : OnWay(a, x) => x.row.seen <= e.row.seen
        /\ Tells(db[a], e)
    BY <1>3, <2>1, <2>2, <2>3 DEF DiffInv
  <2>5. ASSUME NEW x \in Events, Has(a, d, x) PROVE x = e
    BY <2>1, <2>5 DEF Has, Of, WriterInv, Single
  <2>6. ASSUME NEW x \in Events, Has(a, h \o wire', x) PROVE x.row.seen <= e.row.seen
    <3>1. OnWay(a, x) \/ x = e
      BY <1>1, <1>2, <2>5, <2>6 DEF OnWay
    <3> QED
      BY <2>4, <3>1, EventSeen
  <2> QED
    BY <2>4, <2>6
<1> QED
  BY <1>5, <1>6

LEMMA LineInit == Init => LineInv
<1> SUFFICES ASSUME Init PROVE LineInv
  OBVIOUS
<1>1. link = "connecting"
  BY DEF Init
<1> QED
  BY <1>1 DEF LineInv

\* The core's steps.
LEMMA LineCore ==
    ASSUME TypeInv, TypeInv', WriterInv, DiffInv, LineInv,
           \/ \E w \in Writers : Committed(w) \/ Publish(w) \/ Abandon(w) \/ Invalidate(w)
           \/ \E a \in Alerts : Expires(a)
           \/ \E r \in Readers : CacheGet(r) \/ ReadDb(r) \/ CachePut(r)
    PROVE  LineInv'
<1>1. ASSUME NEW w \in Writers, Committed(w) PROVE LineInv'
  <2>1. /\ UNCHANGED <<wire, buffer, pending, link, buffering, leftover, failed, misled>>
        /\ writer[w].pc = "idle" /\ writer'[w].pc = "publish"
        /\ \A o \in Writers \ {w} : writer'[o] = writer[o]
        /\ Leaves(db', writer'[w].diff)
    BY <1>1 DEF Committed, page, store, excuses
  <2>2. ASSUME NEW a \in Alerts, Settled(a)'
        PROVE  Settled(a) /\ \A s : Newest(a, s, db[a]) => Newest(a, s, db'[a])
    <3>1. Settled(a) /\ Silent(a, writer'[w].diff)
      BY <2>1, <2>2 DEF Settled
    <3>2. db'[a].rev = db[a].rev /\ db'[a].st = db[a].st
      BY <2>1, <3>1 DEF Leaves
    <3> QED
      BY <3>1, <3>2, NewestRow
  <2> QED
    BY <2>1, <2>2, LineKept
<1>2. ASSUME NEW b \in Alerts, Expires(b) PROVE LineInv'
  <2>1. /\ UNCHANGED <<wire, buffer, pending, link, buffering, leftover, failed, misled, writer>>
        /\ \A a \in Alerts : /\ db'[a].rev = db[a].rev
                             /\ db'[a].st = db[a].st \/ (db[a].st = "active" /\ db'[a].st = "due")
    BY <1>2, ExpiresRows DEF page, store, excuses
  <2>2. ASSUME NEW a \in Alerts, Settled(a)'
        PROVE  Settled(a) /\ \A s : Newest(a, s, db[a]) => Newest(a, s, db'[a])
    <3>1. Settled(a)
      BY <2>1, <2>2 DEF Settled
    <3> QED
      BY <2>1, <3>1, NewestRow
  <2> QED
    BY <2>1, <2>2, LineKept
<1>3. ASSUME NEW w \in Writers, Publish(w) PROVE LineInv'
  <2>1. UNCHANGED <<db, link, buffering, buffer, pending, leftover, failed>>
    BY <1>3 DEF Publish, page, store
  <2>2. wire' \in Seq(Messages) /\ <<>> \in Seq(Messages) /\ <<>> \o wire = wire /\ <<>> \o wire' = wire'
    BY Lines DEF TypeInv, PageTypes
  <2> SUFFICES ASSUME NEW a \in Alerts, Settled(a)', link # "connecting"
               PROVE  /\ Newest(a, wire', db[a])
                      /\ link = "open" /\ buffering => Newest(a, buffer \o wire', db[a])
                      /\ link = "open" /\ ~buffering /\ ~leftover /\ ~failed =>
                           Newest(a, pending \o wire', db[a])
    BY <2>1 DEF LineInv
  <2>3. Newest(a, wire', db[a])
    <3>1. \A x : ~Has(a, <<>>, x)
      BY EmptySilent
    <3>2. Newest(a, <<>> \o wire', db[a])
      BY <1>3, <2>2, <3>1, PublishLine DEF LineInv
    <3> QED
      BY <2>2, <3>2
  <2>4. ASSUME link = "open", buffering PROVE Newest(a, buffer \o wire', db[a])
    <3>1. \A x : Has(a, buffer, x) => OnWay(a, x)
      BY DEF OnWay
    <3> QED
      BY <1>3, <2>2, <2>4, <3>1, Lines, PublishLine DEF LineInv
  <2>5. ASSUME link = "open", ~buffering, ~leftover, ~failed
        PROVE  Newest(a, pending \o wire', db[a])
    <3>1. \A x : Has(a, pending, x) => OnWay(a, x)
      BY DEF OnWay
    <3> QED
      BY <1>3, <2>2, <2>5, <3>1, Lines, PublishLine DEF LineInv
  <2> QED
    BY <2>3, <2>4, <2>5
<1>4. ASSUME NEW w \in Writers, Invalidate(w) PROVE LineInv'
  <2>1. /\ writer[w].pc = "invalidate" /\ \A o \in Writers \ {w} : writer'[o] = writer[o]
        /\ UNCHANGED <<db, wire, buffer, pending, link, buffering, leftover, failed, misled>>
    BY <1>4, InvalidateRows DEF page, store
  <2>2. \A a \in Alerts : Settled(a)' => Settled(a)
    BY <2>1 DEF Settled
  <2> QED
    BY <2>1, <2>2, LineKept
<1>9. ASSUME NEW w \in Writers, Abandon(w) PROVE LineInv'
  <2>1. UNCHANGED <<db, wire, buffer, pending, link, buffering, leftover, failed>>
    BY <1>9, Abandoned DEF page, store
  <2>2. \A a \in Alerts : Settled(a)' => Settled(a)
    BY <1>9, SettledAbandoned
  <2> QED
    BY <2>1, <2>2, LineKept
<1>5. ASSUME NEW r \in Readers, CacheGet(r) \/ ReadDb(r) \/ CachePut(r) PROVE LineInv'
  <2>1. UNCHANGED <<db, writer, wire, buffer, pending, link, buffering, leftover, failed, misled>>
    BY <1>5, ReaderStep DEF page, store
  <2>2. \A a \in Alerts : Settled(a)' => Settled(a)
    BY <2>1 DEF Settled
  <2> QED
    BY <2>1, <2>2, LineKept
<1> QED
  BY <1>1, <1>2, <1>3, <1>4, <1>5, <1>9

\* What arrives only moves from the stream to the buffer or to what waits for a frame.
LEMMA LineDeliver ==
    ASSUME TypeInv, TypeInv', PageShape, LineInv, Deliver
    PROVE  LineInv'
<1>1. UNCHANGED <<db, writer, misled, link, leftover, failed>> /\ link = "open"
  BY DEF Deliver, core, excuses
<1>2. \A a \in Alerts : Settled(a)' => Settled(a)
  BY <1>1 DEF Settled
<1>3. PICK m \in Messages :
        /\ \A a \in Alerts :
             /\ \A e : Has(a, wire, e) <=> (Of(a, m) /\ e = m) \/ Has(a, wire', e)
             /\ \A e : Ends(a, wire, e) <=>
                  Ends(a, wire', e) \/ (Silent(a, wire') /\ Of(a, m) /\ e = m)
        /\ \/ /\ m \in Events /\ UNCHANGED <<req, buffering>>
              /\ \/ buffering /\ buffer' = buffer \o <<m>> /\ UNCHANGED pending
                 \/ ~buffering /\ pending' = pending \o <<m>> /\ UNCHANGED buffer
           \/ /\ \A a \in Alerts : ~Of(a, m)
              /\ UNCHANGED <<buffer, pending>>
              /\ \/ UNCHANGED <<req, buffering>>
                 \/ req["page"].pc = "idle" /\ Load /\ buffering' = TRUE
  BY Arrival
<1>4. /\ wire \in Seq(Messages) /\ wire' \in Seq(Messages) /\ <<>> \o wire' = wire'
      /\ buffer \in Seq(Messages) /\ pending \in Seq(Messages)
      /\ buffer \in Seq(Events) /\ pending \in Seq(Events)
  BY Lines DEF TypeInv, PageTypes, StoreTypes
<1>5. ASSUME NEW a \in Alerts, NEW row, Newest(a, wire, row) PROVE Newest(a, wire', row)
  BY <1>3, <1>5, NewestKept
\* The message leaves one part of the line and nothing is put in its place.
<1>6. ASSUME NEW a \in Alerts, NEW row, NEW h \in Seq(Messages), ~Of(a, m),
             Newest(a, h \o wire, row)
      PROVE  Newest(a, h \o wire', row)
  <2>1. /\ \A e : Has(a, h \o wire, e) <=> Has(a, h, e) \/ Has(a, wire, e)
        /\ \A e : Ends(a, h \o wire, e) <=> Ends(a, wire, e) \/ (Silent(a, wire) /\ Ends(a, h, e))
        /\ \A e : Has(a, h \o wire', e) <=> Has(a, h, e) \/ Has(a, wire', e)
        /\ \A e : Ends(a, h \o wire', e) <=> Ends(a, wire', e) \/ (Silent(a, wire') /\ Ends(a, h, e))
    BY <1>4, TwoParts
  <2>2. Silent(a, wire') => Silent(a, wire)
    BY <1>3, <1>6, HasNothing
  <2>3. \A e \in Events : Ends(a, h \o wire', e) => Ends(a, h \o wire, e)
    BY <1>3, <1>6, <2>1, <2>2
  <2>4. \A e \in Events : Has(a, h \o wire', e) => Has(a, h \o wire, e)
    BY <1>3, <1>6, <2>1
  <2> QED
    BY <1>6, <2>3, <2>4, NewestKept
\* The event leaves the stream and is the last of the other part.
<1>7. ASSUME NEW a \in Alerts, NEW row, NEW h \in Seq(Events), m \in Events,
             Newest(a, h \o wire, row)
      PROVE  Newest(a, (h \o <<m>>) \o wire', row)
  <2>0. PICK g \in Seq(Messages) : g = h \o <<m>>
    <3>1. h \o <<m>> \in Seq(Events)
      BY <1>7
    <3> QED
      BY <3>1, EventsAreMessages
  <2>1. /\ \A e : Has(a, h \o wire, e) <=> Has(a, h, e) \/ Has(a, wire, e)
        /\ \A e : Ends(a, h \o wire, e) <=> Ends(a, wire, e) \/ (Silent(a, wire) /\ Ends(a, h, e))
        /\ \A e : Has(a, g \o wire', e) <=> Has(a, g, e) \/ Has(a, wire', e)
        /\ \A e : Ends(a, g \o wire', e) <=> Ends(a, wire', e) \/ (Silent(a, wire') /\ Ends(a, g, e))
    BY <1>4, <1>7, EventsAreMessages, TwoParts
  <2>2. /\ \A e : Has(a, g, e) <=> Has(a, h, e) \/ (Of(a, m) /\ e = m)
        /\ \A e : Ends(a, g, e) <=> (Of(a, m) /\ e = m) \/ (~Of(a, m) /\ Ends(a, h, e))
    BY <1>7, <2>0, Grown
  <2>3. Silent(a, wire') /\ ~Of(a, m) => Silent(a, wire)
    BY <1>3, HasNothing
  <2>4. \A e \in Events : Ends(a, g \o wire', e) => Ends(a, h \o wire, e)
    BY <1>3, <2>1, <2>2, <2>3
  <2>5. \A e \in Events : Has(a, g \o wire', e) => Has(a, h \o wire, e)
    BY <1>3, <2>1, <2>2
  <2>6. Newest(a, g \o wire', row)
    BY <1>7, <2>4, <2>5, NewestKept
  <2> QED
    BY <2>0, <2>6
<1> SUFFICES ASSUME NEW a \in Alerts, Settled(a)'
             PROVE  /\ Newest(a, wire', db[a])
                    /\ buffering' => Newest(a, buffer' \o wire', db[a])
                    /\ ~buffering' /\ ~leftover /\ ~failed => Newest(a, pending' \o wire', db[a])
  BY <1>1 DEF LineInv
<1>8. /\ Newest(a, wire, db[a])
      /\ buffering => Newest(a, buffer \o wire, db[a])
      /\ ~buffering /\ ~leftover /\ ~failed => Newest(a, pending \o wire, db[a])
  BY <1>1, <1>2 DEF LineInv
<1>9. Newest(a, wire', db[a])
  BY <1>5, <1>8
<1>10. CASE m \in Events /\ UNCHANGED buffering /\ buffering /\ buffer' = buffer \o <<m>>
  BY <1>4, <1>7, <1>8, <1>9, <1>10
<1>11. CASE m \in Events /\ UNCHANGED buffering /\ ~buffering /\ pending' = pending \o <<m>>
  BY <1>4, <1>7, <1>8, <1>9, <1>11
<1>12. CASE ~Of(a, m) /\ UNCHANGED <<buffer, pending, buffering>>
  BY <1>4, <1>6, <1>8, <1>9, <1>12
<1>13. CASE ~Of(a, m) /\ UNCHANGED <<buffer, pending>> /\ ~buffering /\ buffering' = TRUE
  <2>1. buffer' = <<>>
    BY <1>13 DEF PageShape
  <2> QED
    BY <1>4, <1>9, <1>13, <2>1
<1>14. buffering \in BOOLEAN
  BY DEF TypeInv, StoreTypes
<1> QED
  BY <1>3, <1>10, <1>11, <1>12, <1>13, <1>14

\* The steps of the page.
LEMMA LinePage ==
    ASSUME TypeInv, TypeInv', PageShape, LineInv, PageStep
    PROVE  LineInv'
<1>1. UNCHANGED <<db, writer, misled>> /\ \A a \in Alerts : Settled(a)' => Settled(a)
  BY PageStepLeaves DEF Settled
<1>2. /\ <<>> \o wire = wire /\ <<>> \o wire' = wire'
  BY Lines DEF TypeInv, PageTypes
<1>3. CASE StartBridge
  <2>1. wire' = <<>> /\ link' = "subscribed"
    BY <1>3 DEF StartBridge, PageShape
  <2> QED
    BY <2>1, NewestNothing DEF LineInv
<1>4. CASE Open
  <2>1. link # "connecting" /\ buffering' = TRUE /\ buffer' = <<>>
    BY <1>4 DEF Open
  <2>2. ASSUME NEW a \in Alerts, Settled(a)' PROVE Newest(a, wire', db[a])
    <3>1. Newest(a, wire, db[a])
      BY <1>1, <2>1, <2>2 DEF LineInv
    <3> QED
      BY <1>4, <3>1, Reopened, NewestKept
  <2> QED
    BY <1>1, <1>2, <2>1, <2>2 DEF LineInv
<1>5. CASE Deliver
  BY <1>5, LineDeliver
<1>6. CASE Heartbeat \/ \E b \in Alerts : FadeOut(b)
  <2>1. UNCHANGED <<wire, buffer, pending, link, buffering, leftover, failed>>
    BY <1>6 DEF Heartbeat, FadeOut, page, store, excuses
  <2> QED
    BY <1>1, <2>1, LineKept
<1>7. CASE Frame
  <2>1. UNCHANGED <<wire, buffer, link, buffering, leftover, failed>> /\ pending' = <<>>
    BY <1>7 DEF Frame, page, excuses
  <2> QED
    BY <1>1, <1>2, <2>1 DEF LineInv
<1>8. CASE SnapshotOk \/ SnapshotFails
  <2>1. UNCHANGED <<wire, pending, link>> /\ buffering' = FALSE
        /\ (~leftover' /\ ~failed' => pending = <<>>)
    BY <1>8 DEF SnapshotOk, SnapshotFails, SnapshotEnds, page
  <2> QED
    BY <1>1, <1>2, <2>1 DEF LineInv
<1>9. CASE RetrySnapshot
  <2>1. UNCHANGED <<wire, buffer, link>> /\ buffering' = TRUE
    BY <1>9 DEF RetrySnapshot, page
  <2>2. buffering \in BOOLEAN /\ (~buffering => buffer = <<>>)
    BY DEF TypeInv, StoreTypes, PageShape
  <2> QED
    BY <1>1, <1>2, <2>1, <2>2 DEF LineInv
<1>10. CASE Lose \/ Watchdog
  <2>1. link' = "connecting"
    BY <1>10 DEF Lose, Watchdog, NextConn
  <2> QED
    BY <2>1 DEF LineInv
<1> QED
  BY <1>3, <1>4, <1>5, <1>6, <1>7, <1>8, <1>9, <1>10 DEF PageStep

\* Every step keeps the line of each settled alert right.
LEMMA LineNext ==
    ASSUME TypeInv, TypeInv', PageShape, WriterInv, DiffInv, LineInv, [Next]_vars
    PROVE  LineInv'
<1>1. CASE UNCHANGED vars
  <2>1. UNCHANGED <<wire, buffer, pending, link, buffering, leftover, failed, db, writer, misled>>
    BY <1>1 DEF vars, core, page, store, excuses
  <2>2. \A a \in Alerts : Settled(a)' => Settled(a)
    BY <2>1 DEF Settled
  <2> QED
    BY <2>1, <2>2, LineKept
<1> QED
  BY <1>1, LineCore, LinePage, Steps DEF PageStep, Commits

----------------------------------------------------------------------------
(* What the page shows.                                                    *)

\* A view that a snapshot has been made into shows of every settled alert with no event on
\* its way how things are.
ViewInv ==
    link = "open" /\ req["page"].pc = "idle" /\ ~failed /\ ~leftover /\ ~overtaken =>
       \A a \in Alerts : Settled(a) /\ Silent(a, pending) /\ Silent(a, wire) =>
                            Fits(db[a], Shown(view[a]))

LEMMA ViewInit == Init => ViewInv
  BY DEF Init, ViewInv

\* A step that leaves the view alone.
LEMMA ViewKept ==
    ASSUME ViewInv, UNCHANGED <<link, failed, leftover, overtaken, view, pending>>,
           req'["page"] = req["page"],
           \A a \in Alerts : Settled(a)' /\ (link = "open" => Silent(a, wire')) =>
              Settled(a) /\ (link = "open" => Silent(a, wire)),
           \A a \in Alerts : Settled(a)' => \A n : Fits(db[a], n) => Fits(db'[a], n)
    PROVE  ViewInv'
  BY DEF ViewInv

\* A frame shows what the events that waited for it say.
LEMMA ViewFrame ==
    ASSUME TypeInv, BufferDrains, LineInv, ViewInv, Frame
    PROVE  ViewInv'
<1>1. /\ view' = Fold(Apply, view, pending)
      /\ UNCHANGED <<db, writer, req, wire, link, failed, leftover, overtaken, misled>>
  BY DEF Frame, core, page, excuses
<1> SUFFICES ASSUME link = "open", req["page"].pc = "idle", ~failed, ~leftover, ~overtaken,
                    NEW a \in Alerts, Settled(a), Silent(a, wire)
             PROVE  Fits(db[a], Shown(view'[a]))
  BY <1>1 DEF ViewInv, Settled
<1>2. view \in Views /\ pending \in Seq(Events) /\ pending \in Seq(Messages) /\ wire \in Seq(Messages)
      /\ ~buffering
  BY Lines DEF TypeInv, StoreTypes, BufferDrains
<1>3. CASE Silent(a, pending)
  BY <1>1, <1>2, <1>3, AfterFrame DEF ViewInv
<1>4. CASE ~Silent(a, pending)
  <2>1. PICK k \in DOMAIN pending : Last(a, pending, k)
    BY <1>2, <1>4, SomeEnd
  <2>2. Shown(view'[a]) = ShownBy(pending[k])
    BY <1>1, <1>2, <2>1, AfterFrame
  <2>3. pending[k] \in Events /\ Ends(a, pending, pending[k])
    BY <2>1 DEF Ends, Last, Of
  <2>4. Ends(a, pending \o wire, pending[k])
    BY <1>2, <2>3, TwoParts
  <2>5. Tells(db[a], pending[k])
    BY <1>2, <2>3, <2>4 DEF LineInv, Newest
  <2> QED
    BY <2>2, <2>5, TellsFits
<1> QED
  BY <1>3, <1>4

\* A snapshot with the buffered events replayed shows how things are.
LEMMA ViewSnapshot ==
    ASSUME TypeInv, PageShape, PageBody, LineInv, SnapshotOk
    PROVE  ViewInv'
<1> DEFINE body == req["page"].body
<1>1. /\ req["page"].pc = "done" /\ view' = Fold(Replay, Fresh(body), buffer)
      /\ UNCHANGED <<db, writer, wire, link, overtaken, misled>>
  BY DEF SnapshotOk, SnapshotEnds, Fresh, core, page
<1>2. body \in Bodies /\ Fresh(body) \in Views /\ buffer \in Seq(Events) /\ buffer \in Seq(Messages)
      /\ wire \in Seq(Messages) /\ buffering
  BY <1>1, FreshType, Lines DEF TypeInv, ReqTypes, StoreTypes, PageShape, Readers
<1> SUFFICES ASSUME link = "open", ~overtaken, NEW a \in Alerts, Settled(a), Silent(a, wire)
             PROVE  Fits(db[a], Shown(view'[a]))
  BY <1>1 DEF ViewInv, Settled
<1>3. Fresh(body)[a].row = body[a] /\ Shown(Fresh(body)[a]) = body[a].rev
  BY DEF Fresh, Shown
<1>4. ASSUME Older(a, buffer, body[a]) PROVE Fits(db[a], body[a].rev)
  <2>1. Older(a, wire, body[a])
    BY HasNothing DEF Older
  <2>2. \A w \in Writers : writer[w].pc = "publish" => Older(a, writer[w].diff, body[a])
    BY HasNothing DEF Settled, Older
  <2> QED
    BY <1>1, <1>4, <2>1, <2>2 DEF PageBody, PageOlder, Trusted, Settled
<1>5. CASE Silent(a, buffer)
  <2>1. Older(a, buffer, body[a])
    BY <1>5, HasNothing DEF Older
  <2>2. view'[a] = Fresh(body)[a]
    BY <1>1, <1>2, <1>5, AfterReplay
  <2> QED
    BY <1>3, <1>4, <2>1, <2>2
<1>6. CASE ~Silent(a, buffer)
  <2>1. PICK k \in DOMAIN buffer : Last(a, buffer, k)
    BY <1>2, <1>6, SomeEnd
  <2>2. PICK e \in Events : e = buffer[k]
    BY <2>1 DEF Last, Of
  <2>3. Ends(a, buffer, e)
    BY <2>1, <2>2 DEF Ends
  <2>4. /\ Ends(a, buffer \o wire, e)
        /\ \A x \in Events : Has(a, buffer, x) => Has(a, buffer \o wire, x)
    BY <1>2, <2>3, TwoParts
  <2>5. Tells(db[a], e) /\ \A x \in Events : Has(a, buffer, x) => x.row.seen <= e.row.seen
    BY <1>2, <2>4 DEF LineInv, Newest
  <2>6. \A j \in DOMAIN buffer : Of(a, buffer[j]) => buffer[j].row.seen <= buffer[k].row.seen
    BY <2>2, <2>5 DEF Has, Of
  <2>7. \/ Shown(view'[a]) = ShownBy(e)
        \/ e.row.seen < body[a].seen /\ view'[a] = Fresh(body)[a]
    BY <1>1, <1>2, <1>3, <2>1, <2>2, <2>6, AfterReplay
  <2>8. ASSUME e.row.seen < body[a].seen PROVE Older(a, buffer, body[a])
    <3>1. body[a].seen \in Nat
      BY <1>2, BoundsAssumption DEF Bodies, Rows
    <3> QED
      BY <2>5, <2>8, <3>1, EventSeen DEF Older
  <2> QED
    BY <1>3, <1>4, <2>5, <2>7, <2>8, TellsFits
<1> QED
  BY <1>5, <1>6

\* An event that arrives waits for its frame.
LEMMA ViewDeliver ==
    ASSUME TypeInv, BufferDrains, ViewInv, Deliver
    PROVE  ViewInv'
<1>1. /\ UNCHANGED <<db, writer, misled, link, view, failed, leftover, overtaken>> /\ link = "open"
  BY DEF Deliver, core, excuses
<1>2. PICK m \in Messages :
        /\ \A a \in Alerts : Silent(a, wire) <=> ~Of(a, m) /\ Silent(a, wire')
        /\ \/ /\ m \in Events /\ UNCHANGED <<req, buffering>>
              /\ \/ buffering /\ buffer' = buffer \o <<m>> /\ UNCHANGED pending
                 \/ ~buffering /\ pending' = pending \o <<m>> /\ UNCHANGED buffer
           \/ /\ \A a \in Alerts : ~Of(a, m)
              /\ UNCHANGED <<buffer, pending>>
              /\ \/ UNCHANGED <<req, buffering>>
                 \/ req["page"].pc = "idle" /\ Load /\ buffering' = TRUE
  BY Arrival
<1>3. CASE Load
  <2>1. req'["page"] = Asking
    BY <1>3, PageAsks DEF Load, TypeInv
  <2> QED
    BY <2>1 DEF Asking, ViewInv
<1>4. CASE UNCHANGED <<req, buffering>>
  <2> SUFFICES ASSUME req["page"].pc = "idle", ~failed, ~leftover, ~overtaken,
                      NEW a \in Alerts, Settled(a), Silent(a, pending'), Silent(a, wire')
               PROVE  Fits(db[a], Shown(view[a]))
    BY <1>1, <1>4 DEF ViewInv, Settled
  <2>1. ~buffering
    BY <1>1 DEF BufferDrains
  <2>2. Silent(a, pending) /\ ~Of(a, m)
    <3>1. CASE m \in Events /\ pending' = pending \o <<m>>
      BY <3>1, Grown DEF TypeInv, StoreTypes
    <3>2. CASE pending' = pending /\ ~Of(a, m)
      BY <3>2
    <3> QED
      BY <1>2, <2>1, <3>1, <3>2
  <2> QED
    BY <1>1, <1>2, <2>2 DEF ViewInv
<1> QED
  BY <1>2, <1>3, <1>4

\* Every step keeps the view of a page that is up to date right.
LEMMA ViewNext ==
    ASSUME TypeInv, PageShape, PageBody, LineInv, BufferDrains, ViewInv, [Next]_vars
    PROVE  ViewInv'
<1>0. "page" \in Readers
  BY DEF Readers
<1>1. ASSUME NEW w \in Writers, Committed(w) PROVE ViewInv'
  <2>1. /\ UNCHANGED <<req, wire, pending, link, view, failed, leftover, overtaken, misled>>
        /\ writer[w].pc = "idle" /\ writer'[w].pc = "publish"
        /\ \A o \in Writers \ {w} : writer'[o] = writer[o]
        /\ Leaves(db', writer'[w].diff)
    BY <1>1 DEF Committed, page, store, excuses
  <2>2. ASSUME NEW a \in Alerts, Settled(a)'
        PROVE  Settled(a) /\ \A n : Fits(db[a], n) => Fits(db'[a], n)
    <3>1. Settled(a) /\ Silent(a, writer'[w].diff)
      BY <2>1, <2>2 DEF Settled
    <3>2. db'[a].rev = db[a].rev /\ db'[a].st = db[a].st
      BY <2>1, <3>1 DEF Leaves
    <3> QED
      BY <3>1, <3>2 DEF Fits
  <2> QED
    BY <2>1, <2>2, ViewKept
<1>2. ASSUME NEW b \in Alerts, Expires(b) PROVE ViewInv'
  <2>1. /\ UNCHANGED <<writer, req, wire, pending, link, view, failed, leftover, overtaken, misled>>
        /\ \A a \in Alerts : /\ db'[a].rev = db[a].rev
                             /\ db'[a].st = db[a].st \/ (db[a].st = "active" /\ db'[a].st = "due")
    BY <1>2, ExpiresRows DEF page, store, excuses
  <2>2. \A a \in Alerts : (Settled(a)' => Settled(a)) /\ \A n : Fits(db[a], n) => Fits(db'[a], n)
    BY <2>1, FitsKept DEF Settled
  <2> QED
    BY <2>1, <2>2, ViewKept
<1>3. ASSUME NEW w \in Writers, Publish(w) PROVE ViewInv'
  <2>1. UNCHANGED <<db, req, pending, link, view, failed, leftover, overtaken>>
    BY <1>3 DEF Publish, page, store
  <2>2. CASE link # "open"
    BY <2>1, <2>2 DEF ViewInv
  <2>3. CASE link = "open"
    <3>1. \A a \in Alerts : Settled(a)' /\ Silent(a, wire') => Settled(a) /\ Silent(a, wire)
      BY <1>3, <2>3, PublishedWire, SettledBefore
    <3> QED
      BY <2>1, <2>3, <3>1, ViewKept
  <2> QED
    BY <2>2, <2>3
<1>4. ASSUME NEW w \in Writers, Invalidate(w) PROVE ViewInv'
  <2>1. /\ writer[w].pc = "invalidate" /\ \A o \in Writers \ {w} : writer'[o] = writer[o]
        /\ UNCHANGED <<db, req, wire, pending, link, view, failed, leftover, overtaken, misled>>
    BY <1>4, InvalidateRows DEF page, store
  <2>2. \A a \in Alerts : Settled(a)' => Settled(a)
    BY <2>1 DEF Settled
  <2> QED
    BY <2>1, <2>2, ViewKept
<1>13. ASSUME NEW w \in Writers, Abandon(w) PROVE ViewInv'
  <2>1. UNCHANGED <<db, req, wire, pending, link, view, failed, leftover, overtaken>>
    BY <1>13, Abandoned DEF page, store
  <2>2. \A a \in Alerts : Settled(a)' => Settled(a)
    BY <1>13, SettledAbandoned
  <2> QED
    BY <2>1, <2>2, ViewKept
<1>5. ASSUME UNCHANGED <<db, writer, wire, pending, link, view, failed, leftover, overtaken, misled>>,
             req'["page"] = req["page"]
      PROVE  ViewInv'
  <2>1. \A a \in Alerts : Settled(a)' => Settled(a)
    BY <1>5 DEF Settled
  <2> QED
    BY <1>5, <2>1, ViewKept
<1>6. ASSUME NEW r \in Readers, CacheGet(r) \/ ReadDb(r) \/ CachePut(r) PROVE ViewInv'
  <2>1. /\ UNCHANGED <<db, writer, wire, pending, link, view, failed, leftover, misled>>
        /\ \A o \in Readers \ {r} : req'[o] = req[o]
        /\ r # "page" => overtaken' = overtaken
        /\ Hit(r) \/ Miss(r) \/ Read(r) \/ Kept(r)
    BY <1>6, ReaderStep DEF page, store
  <2>2. CASE r # "page"
    BY <1>0, <1>5, <2>1, <2>2
  <2>3. CASE r = "page"
    BY <2>1, <2>3 DEF Hit, Miss, Read, Kept, Answer, ViewInv
  <2> QED
    BY <2>2, <2>3
<1>7. CASE StartBridge \/ Lose \/ Watchdog
  BY <1>7 DEF StartBridge, Lose, Watchdog, NextConn, ViewInv
<1>8. CASE Open \/ RetrySnapshot
  <2>1. req'["page"] = Asking
    BY <1>8, PageAsks DEF Open, RetrySnapshot, Load, TypeInv
  <2> QED
    BY <2>1 DEF Asking, ViewInv
<1>9. CASE SnapshotFails
  BY <1>9 DEF SnapshotFails, ViewInv
<1>10. CASE Heartbeat
  BY <1>5, <1>10 DEF Heartbeat, core, store, excuses
<1>11. ASSUME NEW b \in Alerts, FadeOut(b) PROVE ViewInv'
  <2>1. UNCHANGED <<db, writer, req, wire, pending, link, failed, leftover, overtaken, misled>>
    BY <1>11 DEF FadeOut, core, page, excuses
  <2>2. \A a \in Alerts : Shown(view'[a]) = Shown(view[a])
    BY <1>11 DEF FadeOut, Shown, NoRow, TypeInv, StoreTypes, Views
  <2> QED
    BY <2>1, <2>2 DEF ViewInv, Settled
<1>12. CASE UNCHANGED vars
  BY <1>5, <1>12 DEF vars, core, page, store, excuses
<1> QED
  BY <1>1, <1>2, <1>3, <1>4, <1>6, <1>7, <1>8, <1>9, <1>10, <1>11, <1>12, <1>13,
     ViewFrame, ViewSnapshot, ViewDeliver, Steps DEF Commits

\* In a quiet state every alert whose last published change is its last change is settled,
\* and what the page shows of it is in force.
LEMMA QuietView ==
    ASSUME TypeInv, WriterInv, ViewInv
    PROVE  InSync
<1> SUFFICES ASSUME Quiet, ~overtaken, ~leftover, ~failed, NEW a \in Alerts \ misled
             PROVE  view[a].row.rev = Active[a].rev
  BY DEF InSync
<1>1. Settled(a)
  BY DEF Quiet, Settled
<1>2. Silent(a, wire) /\ Silent(a, pending)
  BY EmptySilent DEF Quiet
<1>3. Fits(db[a], Shown(view[a]))
  BY <1>1, <1>2 DEF Quiet, ViewInv
<1>4. db[a].st # "due" /\ ~view[a].fading
  BY DEF Quiet, Due
<1> QED
  BY <1>3, <1>4 DEF Fits, Shown, Active, NoRow

ViewChain ==
    /\ TypeInv /\ CacheInv /\ PageShape /\ WriterInv /\ SeenInv /\ DiffInv
    /\ BodyInv /\ PageBody /\ LineInv /\ ViewInv

\* Once nothing is under way between the core and the page, the page shows the alerts in
\* force in their latest revision, however many alerts, handlers, posts, readers and
\* connections there were, except in the five ways InSync names (live_stream.gleam, response_cache.gleam,
\* liveStream.ts, alerts/store.svelte.ts).
THEOREM PageInSync == Spec => []InSync
<1>1. Init => ViewChain
  <2>1. Init => PageShape
    BY DEF Init, PageShape
  <2> QED
    BY <2>1, TypeInit, CacheInit, WriterInit, SeenInit, DiffInit, BodyInit, LineInit, ViewInit
       DEF ViewChain
<1>2. ASSUME ViewChain, BufferDrains, [Next]_vars PROVE ViewChain'
  <2>1. /\ TypeInv /\ CacheInv /\ PageShape /\ WriterInv /\ SeenInv /\ DiffInv
        /\ BodyInv /\ PageBody /\ LineInv /\ ViewInv
    BY <1>2 DEF ViewChain
  <2>2. TypeInv' /\ CacheInv'
    BY <1>2, <2>1, TypeNext, CacheNext
  <2>3. PageShape' /\ WriterInv' /\ SeenInv'
    BY <1>2, <2>1, ShapeNext, WriterNext, SeenNext
  <2>4. DiffInv' /\ BodyInv' /\ PageBody'
    BY <1>2, <2>1, DiffNext, BodyNext, PageBodyNext
  <2>5. LineInv' /\ ViewInv'
    BY <1>2, <2>1, <2>2, LineNext, ViewNext
  <2> QED
    BY <2>2, <2>3, <2>4, <2>5 DEF ViewChain
<1>3. ViewChain => InSync
  BY QuietView DEF ViewChain
<1> QED
  BY <1>1, <1>2, <1>3, NeverStuck, PTL DEF Spec

=============================================================================
