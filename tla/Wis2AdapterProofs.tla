------------------------- MODULE Wis2AdapterProofs --------------------------
(***************************************************************************)
(* What the WIS2 message handler keeps for any number of notifications,    *)
(* workers, batches and faults: nothing is lost or doubled on its way from *)
(* the broker to the core, the same data is delivered once, the counters   *)
(* add up, and the last flush covers what was due at the stop.  The last   *)
(* part is about the observation queue as Go slices: it loses nothing as   *)
(* long as no two flushes overlap.                                         *)
(***************************************************************************)
EXTENDS Wis2Adapter, Wis2ObsQueue, FiniteSetTheorems, SequenceTheorems, TLAPS

WorkFields == {"pc", "n", "kind", "again", "sending"}
Holding    == {"check", "slot", "decode"} \cup Downloading
Counters   == {"received", "duplicates", "failed"}

\* A worker holds a notification, or the batch it is sending, or nothing.
WorkerOK(s) ==
    /\ DOMAIN s = WorkFields
    /\ s.pc \in Holding \cup {"idle", "gone", "flush", "send"}
    /\ s.kind \in Kinds \cup {"none"}
    /\ IF s.pc \in Holding THEN s.n \in Notifications ELSE s.n = NoId
    /\ s.sending \subseteq Notifications
    /\ s.pc # "send" => s.sending = {}
    /\ s.pc = "flush" => s.kind \in Batched

FlusherOK(s) ==
    /\ DOMAIN s = {"pc", "kind", "last", "sending"}
    /\ s.pc \in {"idle", "gone", "send", "next"}
    /\ s.kind \in Batched \cup {"none"}
    /\ s.sending \subseteq Notifications
    /\ s.pc # "send" => s.sending = {}

Types ==
    /\ inbound \in Seq(Notifications)
    /\ DOMAIN work = Workers /\ \A w \in Workers : WorkerOK(work[w])
    /\ batch \in [Batched -> SUBSET Notifications]
    /\ FlusherOK(flusher)
    /\ arrived \subseteq Notifications
    /\ DOMAIN fate = Notifications

\* The places of Conserved, one by one.
InQueue(n)  == \E i \in DOMAIN inbound : inbound[i] = n
AtWorker(n) == \E w \in Workers : work[w].n = n
Sending(n)  == \E w \in Workers : n \in work[w].sending
InBatch(n)  == \E k \in Batched : n \in batch[k]
Flushing(n) == n \in flusher.sending
Open(n)     == n \in arrived /\ fate[n] = "open"

Unique(n) ==
    /\ \A i, j \in DOMAIN inbound : inbound[i] = n /\ inbound[j] = n => i = j
    /\ \A v, w \in Workers : work[v].n = n /\ work[w].n = n => v = w
    /\ \A v, w \in Workers : n \in work[v].sending /\ n \in work[w].sending => v = w
    /\ \A k, l \in Batched : n \in batch[k] /\ n \in batch[l] => k = l

Exclusive(n) ==
    /\ InQueue(n)  => ~AtWorker(n) /\ ~Sending(n) /\ ~InBatch(n) /\ ~Flushing(n)
    /\ AtWorker(n) => ~Sending(n) /\ ~InBatch(n) /\ ~Flushing(n)
    /\ Sending(n)  => ~InBatch(n) /\ ~Flushing(n)
    /\ InBatch(n)  => ~Flushing(n)

Covered(n) ==
    Open(n) <=> (InQueue(n) \/ AtWorker(n) \/ Sending(n) \/ InBatch(n) \/ Flushing(n))

Placed(n) == Unique(n) /\ Exclusive(n) /\ Covered(n)

Base == /\ Types
        /\ \A n \in Notifications : Placed(n)
        /\ \A n \in Notifications : fate[n] # "open" => n \in arrived

\* Has got past the duplicate check.
Passed(n) ==
    /\ n \in arrived
    /\ fate[n] \notin {"duplicate", "droppedInbound", "unreadable"}
    /\ ~InQueue(n)
    /\ \A w \in Workers : work[w].n = n => work[w].pc # "check"

SameId(m, n)   == NotificationId[m] = NotificationId[n] /\ NotificationId[n] # NoId
SameData(m, n) == DataId[m] = DataId[n] /\ DataId[n] # NoId

\* What the cache knows: the ids of notifications that got past it, and of
\* the data ids of these all that have not expired.
CacheInv ==
    /\ \A x \in ids : x # NoId /\ \E m \in Notifications : Passed(m) /\ NotificationId[m] = x
    /\ \A x \in dataIds : x # NoId /\ \E m \in Notifications : Passed(m) /\ DataId[m] = x
    /\ \A m \in Notifications :
          Passed(m) /\ DataId[m] # NoId => DataId[m] \in dataIds \cup forgotten
    /\ \A m, n \in Notifications :
          m # n /\ Passed(m) /\ Passed(n) /\ SameData(m, n) => DataId[n] \in forgotten
    /\ \A n \in Notifications : fate[n] = "duplicate" =>
          \E m \in Notifications : Passed(m) /\ (SameId(m, n) \/ SameData(m, n))

\* The last flush goes through the batches in order, and what was due at the
\* stop is behind the workers.
FlushInv ==
    /\ due \subseteq arrived
    /\ ~stop => due = {}
    /\ \A n \in due : ~InQueue(n) /\ ~AtWorker(n)
    /\ flusher.last \/ flusher.pc = "gone" => stop
    /\ flusher.pc = "next" => flusher.kind = "warnings"
    /\ flusher.pc = "send" => flusher.kind \in Batched
    /\ flusher.last => due \cap batch["warnings"] = {}
    /\ flusher.last /\ flusher.kind = "trajectory" => due \cap batch["trajectory"] = {}
    /\ flusher.pc = "gone" => \A k \in Batched : due \cap batch[k] = {}

CountInv ==
    /\ IsFiniteSet(arrived)
    /\ health \in [Counters -> Nat] /\ reported \in [Counters -> Nat]
    /\ CountersAddUp

-----------------------------------------------------------------------------
LEMMA IdleOK == WorkerOK(Idle) /\ Idle.n = NoId /\ Idle.sending = {} /\ Idle.pc = "idle"
  BY DEF Idle, WorkerOK, WorkFields, Holding, Downloading

LEMMA FlusherDoneOK ==
    ASSUME NEW last
    PROVE  /\ FlusherOK(FlusherDone(last)) /\ FlusherDone(last).sending = {}
           /\ FlusherDone(last).pc \in {"idle", "gone"}
           /\ FlusherDone(last).pc = "gone" => last
           /\ FlusherDone(last).last = FALSE
           /\ FlusherDone(last).kind = "none"
<1>1. /\ FlusherDone(last).pc = (IF last THEN "gone" ELSE "idle")
      /\ FlusherDone(last).sending = {} /\ FlusherDone(last).kind = "none"
      /\ DOMAIN FlusherDone(last) = {"pc", "kind", "last", "sending"}
  BY DEF FlusherDone
<1>2. FlusherDone(last).last = FALSE
  BY Zenon DEF FlusherDone
<1>3. FlusherDone(last).pc \in {"idle", "gone"} /\ (FlusherDone(last).pc = "gone" => last)
  BY <1>1
<1> QED
  BY <1>1, <1>2, <1>3 DEF FlusherOK

LEMMA WorkUpdate ==
    ASSUME Types, NEW w \in Workers, NEW s, WorkerOK(s), work' = [work EXCEPT ![w] = s]
    PROVE  /\ DOMAIN work' = Workers /\ \A v \in Workers : WorkerOK(work'[v])
           /\ \A v \in Workers : work'[v] = IF v = w THEN s ELSE work[v]
  BY DEF Types

LEMMA InitBase == Init => Base
<1> SUFFICES ASSUME Init PROVE Base
  OBVIOUS
<1>0. /\ inbound = <<>> /\ work = [w \in Workers |-> Idle] /\ batch = [k \in Batched |-> {}]
      /\ arrived = {} /\ fate = [n \in Notifications |-> "open"]
  BY Zenon DEF Init
<1>a. FlusherOK(flusher) /\ flusher.sending = {}
  BY FlusherDoneOK, Zenon DEF Init
<1>1. Types
  BY <1>0, <1>a, IdleOK DEF Types
<1>2. ASSUME NEW n \in Notifications PROVE Placed(n)
  <2>1. \A w \in Workers : work[w].n # n /\ work[w].sending = {}
    BY <1>0, IdleOK, Wis2AdapterAssumption
  <2>2. DOMAIN inbound = {} /\ flusher.sending = {} /\ arrived = {} /\ \A k \in Batched : batch[k] = {}
    BY <1>0, <1>a
  <2> QED
    BY <2>1, <2>2 DEF Placed, Unique, Exclusive, Covered, InQueue, AtWorker, Sending, InBatch,
                      Flushing, Open
<1> QED
  BY <1>0, <1>1, <1>2 DEF Base

-----------------------------------------------------------------------------
\* What each kind of step does to the places.

Where == <<inbound, batch, flusher, arrived, fate>>

\* Nothing moves.
LEMMA Stays ==
    ASSUME Base, UNCHANGED Where, DOMAIN work' = Workers,
           \A v \in Workers : /\ WorkerOK(work'[v])
                              /\ work'[v].n = work[v].n /\ work'[v].sending = work[v].sending
    PROVE  Base'
<1>1. Types'
  BY DEF Base, Types, Where
<1>2. ASSUME NEW n \in Notifications PROVE Placed(n)'
  <2>1. Placed(n)
    BY DEF Base
  <2>2. Unique(n)'
    BY <2>1 DEF Placed, Unique, Where
  <2>3. /\ InQueue(n)' <=> InQueue(n)
        /\ AtWorker(n)' <=> AtWorker(n)
        /\ Sending(n)' <=> Sending(n)
        /\ InBatch(n)' <=> InBatch(n)
        /\ Flushing(n)' <=> Flushing(n)
        /\ Open(n)' <=> Open(n)
    BY DEF InQueue, AtWorker, Sending, InBatch, Flushing, Open, Where
  <2> QED
    BY <2>1, <2>2, <2>3 DEF Placed, Exclusive, Covered
<1> QED
  BY <1>1, <1>2 DEF Base, Where

\* A worker goes on with what it holds.
LEMMA WorkerMoves ==
    ASSUME Base, UNCHANGED Where, NEW w \in Workers, NEW s, WorkerOK(s), s.n = work[w].n,
           s.sending = work[w].sending, work' = [work EXCEPT ![w] = s]
    PROVE  Base'
  BY WorkUpdate, Stays DEF Base

\* A worker is done with its notification.
LEMMA WorkerSettles ==
    ASSUME Base, UNCHANGED <<inbound, batch, flusher, arrived>>, NEW w \in Workers,
           work[w].pc \in Holding, NEW what, what # "open",
           work' = [work EXCEPT ![w] = Idle], fate' = [fate EXCEPT ![work[w].n] = what]
    PROVE  Base'
<1>1. Types /\ WorkerOK(work[w])
  BY DEF Base, Types
<1>2. work[w].n \in Notifications /\ work[w].n # NoId /\ work[w].sending = {}
  BY <1>1, Wis2AdapterAssumption DEF WorkerOK, Holding, Downloading
<1>3. /\ DOMAIN work' = Workers /\ \A v \in Workers : WorkerOK(work'[v])
      /\ \A v \in Workers : work'[v] = IF v = w THEN Idle ELSE work[v]
  BY <1>1, IdleOK, WorkUpdate
<1>4. Types'
  BY <1>1, <1>3 DEF Types
<1>5. \A n \in Notifications : fate'[n] = IF n = work[w].n THEN what ELSE fate[n]
  BY <1>1 DEF Types
<1>6. ASSUME NEW n \in Notifications PROVE Placed(n)'
  <2>1. Placed(n) /\ n # NoId
    BY Wis2AdapterAssumption DEF Base
  <2>2. Unique(n)'
    BY <1>3, <2>1, IdleOK DEF Placed, Unique
  <2>3. /\ InQueue(n)' <=> InQueue(n)
        /\ Sending(n)' <=> Sending(n)
        /\ InBatch(n)' <=> InBatch(n)
        /\ Flushing(n)' <=> Flushing(n)
    BY <1>2, <1>3, IdleOK DEF InQueue, Sending, InBatch, Flushing
  <2>4. AtWorker(n)' <=> (AtWorker(n) /\ n # work[w].n)
    BY <1>3, <2>1, IdleOK DEF AtWorker, Placed, Unique
  <2>5. Open(n)' <=> (Open(n) /\ n # work[w].n)
    BY <1>5 DEF Open
  <2>6. n = work[w].n => AtWorker(n)
    BY DEF AtWorker
  <2> QED
    BY <2>1, <2>2, <2>3, <2>4, <2>5, <2>6 DEF Placed, Exclusive, Covered
<1>7. work[w].n \in arrived
  BY <1>2 DEF Base, Placed, Covered, AtWorker, Open
<1> QED
  BY <1>4, <1>5, <1>6, <1>7 DEF Base

\* The broker delivers: into the queue, or it is dropped.
LEMMA ReceiveOK == ASSUME Base, NEW x \in Notifications, Receive(x) PROVE Base'
<1>1. /\ Types /\ UNCHANGED <<work, batch, flusher>>
      /\ x \notin arrived /\ arrived' = arrived \cup {x}
  BY DEF Base, Receive
<1>2. fate[x] = "open" /\ ~Open(x)
  BY <1>1 DEF Base, Open
<1>3. /\ ~InQueue(x) /\ ~AtWorker(x) /\ ~Sending(x) /\ ~InBatch(x) /\ ~Flushing(x)
  BY <1>2 DEF Base, Placed, Covered
<1>4. ASSUME NEW n \in Notifications, n # x, InQueue(n)' <=> InQueue(n), fate'[n] = fate[n],
             \A i, j \in DOMAIN inbound' : inbound'[i] = n /\ inbound'[j] = n => i = j
      PROVE  Placed(n)'
  <2>1. Placed(n)
    BY DEF Base
  <2>2. Unique(n)'
    BY <1>1, <1>4, <2>1 DEF Placed, Unique
  <2>3. /\ AtWorker(n)' <=> AtWorker(n)
        /\ Sending(n)' <=> Sending(n)
        /\ InBatch(n)' <=> InBatch(n)
        /\ Flushing(n)' <=> Flushing(n)
        /\ Open(n)' <=> Open(n)
    BY <1>1, <1>4 DEF AtWorker, Sending, InBatch, Flushing, Open
  <2> QED
    BY <1>4, <2>1, <2>2, <2>3 DEF Placed, Exclusive, Covered
<1>5. /\ AtWorker(x)' <=> AtWorker(x)
      /\ Sending(x)' <=> Sending(x)
      /\ InBatch(x)' <=> InBatch(x)
      /\ Flushing(x)' <=> Flushing(x)
  BY <1>1 DEF AtWorker, Sending, InBatch, Flushing
<1>6. CASE Len(inbound) < InboundCap
  <2>1. inbound' = Append(inbound, x) /\ fate' = fate
    BY <1>6 DEF Receive
  <2>2. /\ inbound \in Seq(Notifications) /\ inbound' \in Seq(Notifications)
        /\ DOMAIN inbound' = 1..(Len(inbound) + 1) /\ DOMAIN inbound = 1..Len(inbound)
        /\ Len(inbound) \in Nat
        /\ \A i \in DOMAIN inbound : inbound'[i] = inbound[i]
        /\ inbound'[Len(inbound) + 1] = x
    BY <1>1, <2>1 DEF Types
  <2>3. ASSUME NEW n \in Notifications, n # x PROVE Placed(n)'
    <3>1. \A i \in DOMAIN inbound' : inbound'[i] = n => i \in DOMAIN inbound
      BY <2>2, <2>3
    <3>2. InQueue(n)' <=> InQueue(n)
      BY <2>2, <3>1 DEF InQueue
    <3>3. \A i, j \in DOMAIN inbound' : inbound'[i] = n /\ inbound'[j] = n => i = j
      BY <2>2, <3>1 DEF Base, Placed, Unique
    <3> QED
      BY <1>4, <2>1, <2>3, <3>2, <3>3
  <2>4. Placed(x)'
    <3>1. InQueue(x)' /\ Open(x)'
      BY <1>1, <1>2, <2>1, <2>2 DEF InQueue, Open
    <3>2. \A i \in DOMAIN inbound' : inbound'[i] = x => i = Len(inbound) + 1
      BY <1>3, <2>2 DEF InQueue
    <3>3. Unique(x)'
      BY <1>1, <3>2 DEF Base, Placed, Unique
    <3> QED
      BY <1>3, <1>5, <3>1, <3>3 DEF Placed, Exclusive, Covered
  <2>5. Types'
    BY <1>1, <2>1, <2>2 DEF Types
  <2> QED
    BY <1>1, <2>1, <2>3, <2>4, <2>5 DEF Base
<1>7. CASE ~(Len(inbound) < InboundCap)
  <2>1. inbound' = inbound /\ fate' = [fate EXCEPT ![x] = "droppedInbound"]
    BY <1>7 DEF Receive
  <2>2. \A n \in Notifications : fate'[n] = IF n = x THEN "droppedInbound" ELSE fate[n]
    BY <1>1, <2>1 DEF Types
  <2>3. ASSUME NEW n \in Notifications, n # x PROVE Placed(n)'
    <3>1. InQueue(n)' <=> InQueue(n)
      BY <2>1 DEF InQueue
    <3>2. \A i, j \in DOMAIN inbound' : inbound'[i] = n /\ inbound'[j] = n => i = j
      BY <2>1 DEF Base, Placed, Unique
    <3> QED
      BY <1>4, <2>2, <2>3, <3>1, <3>2
  <2>4. Placed(x)'
    <3>1. ~InQueue(x)' /\ ~Open(x)'
      BY <1>3, <2>1, <2>2 DEF InQueue, Open
    <3>2. Unique(x)'
      BY <1>1, <2>1 DEF Base, Placed, Unique
    <3> QED
      BY <1>3, <1>5, <3>1, <3>2 DEF Placed, Exclusive, Covered
  <2>5. Types'
    BY <1>1, <2>1 DEF Types
  <2> QED
    BY <1>1, <2>2, <2>3, <2>4, <2>5 DEF Base
<1> QED
  BY <1>6, <1>7

\* A worker takes the head of the queue.
LEMMA TakeOK == ASSUME Base, NEW w \in Workers, Take(w) PROVE Base'
<1> DEFINE x == Head(inbound)
<1>1. /\ Types /\ inbound # <<>> /\ inbound' = Tail(inbound) /\ UNCHANGED <<batch, flusher, arrived, fate>>
      /\ work[w].pc = "idle"
  BY DEF Base, Take
<1>2. /\ inbound \in Seq(Notifications) /\ inbound' \in Seq(Notifications)
      /\ Len(inbound) \in Nat \ {0} /\ DOMAIN inbound = 1..Len(inbound)
      /\ DOMAIN inbound' = 1..(Len(inbound) - 1)
      /\ \A i \in DOMAIN inbound' : inbound'[i] = inbound[i + 1]
      /\ x = inbound[1] /\ x \in Notifications
  BY <1>1 DEF Types
<1>3. PICK k \in KindsOf[x] :
        work' = [work EXCEPT ![w] = [Idle EXCEPT !.pc = "check", !.n = x, !.kind = k]]
  BY DEF Take
<1> HIDE DEF x
<1>4. k \in Kinds
  BY <1>2, <1>3, Wis2AdapterAssumption
<1>5. PICK s : s = [Idle EXCEPT !.pc = "check", !.n = x, !.kind = k]
  OBVIOUS
<1>6. s.n = x /\ s.sending = {} /\ s.pc = "check" /\ WorkerOK(s)
  BY <1>2, <1>4, <1>5 DEF Idle, WorkerOK, WorkFields, Holding
<1>7. /\ DOMAIN work' = Workers /\ \A v \in Workers : WorkerOK(work'[v])
      /\ \A v \in Workers : work'[v] = IF v = w THEN s ELSE work[v]
  BY <1>1, <1>3, <1>5, <1>6, WorkUpdate
<1>8. work[w].n = NoId /\ work[w].sending = {} /\ NoId \notin Notifications
  BY <1>1, Wis2AdapterAssumption DEF Types, WorkerOK, Holding, Downloading
<1>9. Types'
  BY <1>1, <1>2, <1>7 DEF Types
<1>10. InQueue(x)
  BY <1>2 DEF InQueue
<1>11. ASSUME NEW n \in Notifications PROVE Placed(n)'
  <2>1. Placed(n)
    BY DEF Base
  <2>2. InQueue(n)' <=> (InQueue(n) /\ n # x)
    <3>1. ASSUME NEW i \in DOMAIN inbound', inbound'[i] = n PROVE InQueue(n) /\ n # x
      <4>1. i + 1 \in DOMAIN inbound /\ 1 \in DOMAIN inbound /\ inbound[i + 1] = n /\ i + 1 # 1
        BY <1>2, <3>1
      <4> QED
        BY <1>2, <2>1, <4>1 DEF Placed, Unique, InQueue
    <3>2. ASSUME NEW i \in DOMAIN inbound, inbound[i] = n, n # x PROVE InQueue(n)'
      <4>1. i # 1
        BY <1>2, <3>2
      <4>2. i - 1 \in DOMAIN inbound' /\ i - 1 + 1 = i
        BY <1>2, <4>1
      <4> QED
        BY <1>2, <3>2, <4>2 DEF InQueue
    <3> QED
      BY <3>1, <3>2 DEF InQueue
  <2>3. AtWorker(n)' <=> (AtWorker(n) \/ n = x)
    BY <1>6, <1>7, <1>8 DEF AtWorker
  <2>4. /\ Sending(n)' <=> Sending(n)
        /\ InBatch(n)' <=> InBatch(n)
        /\ Flushing(n)' <=> Flushing(n)
        /\ Open(n)' <=> Open(n)
    BY <1>1, <1>6, <1>7, <1>8 DEF Sending, InBatch, Flushing, Open
  <2>5. Unique(n)'
    <3>1. \A i, j \in DOMAIN inbound' : inbound'[i] = n /\ inbound'[j] = n => i = j
      <4> SUFFICES ASSUME NEW i \in DOMAIN inbound', NEW j \in DOMAIN inbound',
                          inbound'[i] = n, inbound'[j] = n
                   PROVE  i = j
        OBVIOUS
      <4>1. i \in Nat /\ j \in Nat /\ i + 1 \in DOMAIN inbound /\ j + 1 \in DOMAIN inbound
        BY <1>2
      <4>2. i + 1 = j + 1
        BY <1>2, <2>1, <4>1 DEF Placed, Unique
      <4> QED
        BY <4>1, <4>2
    <3>2. \A u, v \in Workers : work'[u].n = n /\ work'[v].n = n => u = v
      BY <1>6, <1>7, <1>10, <2>1 DEF Placed, Unique, Exclusive, AtWorker
    <3>3. /\ \A u, v \in Workers : n \in work'[u].sending /\ n \in work'[v].sending => u = v
          /\ \A k1, l \in Batched : n \in batch'[k1] /\ n \in batch'[l] => k1 = l
      BY <1>1, <1>6, <1>7, <2>1 DEF Placed, Unique
    <3> QED
      BY <3>1, <3>2, <3>3 DEF Unique
  <2> QED
    BY <1>10, <2>1, <2>2, <2>3, <2>4, <2>5 DEF Placed, Exclusive, Covered
<1> QED
  BY <1>1, <1>9, <1>11 DEF Base

\* A worker puts its notification into the batch, and may go on to flush it.
LEMMA EnqueueOK ==
    ASSUME Base, NEW w \in Workers, work[w].pc = "decode", work[w].kind \in Batched, EnqueueFeature(w)
    PROVE  Base'
<1>0. PICK x, k : x = work[w].n /\ k = work[w].kind
  OBVIOUS
<1>1. /\ Types /\ UNCHANGED <<inbound, flusher, arrived, fate>>
      /\ batch' = [batch EXCEPT ![k] = @ \cup {x}] /\ k \in Batched
  BY <1>0 DEF Base, EnqueueFeature
<1>2. x \in Notifications /\ x # NoId /\ work[w].sending = {} /\ NoId \notin Notifications
  BY <1>0, <1>1, Wis2AdapterAssumption DEF Types, WorkerOK, Holding
<1>3. PICK s : /\ work' = [work EXCEPT ![w] = s]
               /\ s = Idle \/ s = [Idle EXCEPT !.pc = "flush", !.kind = k]
  BY <1>0 DEF EnqueueFeature
<1>4. WorkerOK(s) /\ s.n = NoId /\ s.sending = {}
  BY <1>1, <1>3, IdleOK DEF Idle, WorkerOK, WorkFields, Holding, Downloading, Batched, Kinds
<1>5. /\ DOMAIN work' = Workers /\ \A v \in Workers : WorkerOK(work'[v])
      /\ \A v \in Workers : work'[v] = IF v = w THEN s ELSE work[v]
  BY <1>1, <1>3, <1>4, WorkUpdate
<1>6. /\ batch' \in [Batched -> SUBSET Notifications]
      /\ \A l \in Batched : batch'[l] = IF l = k THEN batch[k] \cup {x} ELSE batch[l]
  BY <1>1, <1>2 DEF Types
<1>7. Types'
  BY <1>1, <1>5, <1>6 DEF Types
<1>8. AtWorker(x)
  BY <1>0 DEF AtWorker
<1>9. ASSUME NEW n \in Notifications PROVE Placed(n)'
  <2>1. Placed(n) /\ n # NoId
    BY <1>2 DEF Base
  <2>2. /\ InQueue(n)' <=> InQueue(n)
        /\ Sending(n)' <=> Sending(n)
        /\ Flushing(n)' <=> Flushing(n)
        /\ Open(n)' <=> Open(n)
    BY <1>1, <1>2, <1>4, <1>5 DEF InQueue, Sending, Flushing, Open
  <2>3. AtWorker(n)' <=> (AtWorker(n) /\ n # x)
    BY <1>0, <1>4, <1>5, <2>1 DEF AtWorker, Placed, Unique
  <2>4. InBatch(n)' <=> (InBatch(n) \/ n = x)
    BY <1>1, <1>6 DEF InBatch
  <2>5. Unique(n)'
    <3>1. /\ \A i, j \in DOMAIN inbound' : inbound'[i] = n /\ inbound'[j] = n => i = j
          /\ \A u, v \in Workers : work'[u].n = n /\ work'[v].n = n => u = v
          /\ \A u, v \in Workers : n \in work'[u].sending /\ n \in work'[v].sending => u = v
      BY <1>1, <1>4, <1>5, <2>1 DEF Placed, Unique
    <3>2. \A l, m \in Batched : n \in batch'[l] /\ n \in batch'[m] => l = m
      BY <1>6, <1>8, <2>1 DEF Placed, Unique, Exclusive, InBatch
    <3> QED
      BY <3>1, <3>2 DEF Unique
  <2> QED
    BY <1>8, <2>1, <2>2, <2>3, <2>4, <2>5 DEF Placed, Exclusive, Covered
<1> QED
  BY <1>1, <1>7, <1>9 DEF Base

\* A worker takes the batch away, if somebody else has not.
LEMMA WorkerFlushOK == ASSUME Base, NEW w \in Workers, WorkerFlush(w) PROVE Base'
<1>0. PICK k, b : k = work[w].kind /\ b = batch[k]
  OBVIOUS
<1>1. /\ Types /\ UNCHANGED <<inbound, flusher, arrived, fate>> /\ work[w].pc = "flush"
      /\ batch' = [batch EXCEPT ![k] = {}]
  BY <1>0 DEF Base, WorkerFlush
<1>a. work' = [work EXCEPT ![w] = IF b = {} THEN Idle
                              ELSE [Idle EXCEPT !.pc = "send", !.sending = b]]
  BY <1>0 DEF Base, WorkerFlush
<1>2. k \in Batched /\ b \subseteq Notifications /\ work[w].n = NoId /\ work[w].sending = {}
  BY <1>0, <1>1 DEF Types, WorkerOK, Holding, Downloading
<1>3. PICK s : /\ work' = [work EXCEPT ![w] = s]
               /\ s = IF b = {} THEN Idle ELSE [Idle EXCEPT !.pc = "send", !.sending = b]
  BY <1>a
<1>4. WorkerOK(s) /\ s.n = NoId /\ s.sending = b
  BY <1>2, <1>3, IdleOK DEF Idle, WorkerOK, WorkFields, Holding, Downloading
<1>5. /\ DOMAIN work' = Workers /\ \A v \in Workers : WorkerOK(work'[v])
      /\ \A v \in Workers : work'[v] = IF v = w THEN s ELSE work[v]
  BY <1>1, <1>3, <1>4, WorkUpdate
<1>6. /\ batch' \in [Batched -> SUBSET Notifications]
      /\ \A l \in Batched : batch'[l] = IF l = k THEN {} ELSE batch[l]
  BY <1>1, <1>2 DEF Types
<1>7. Types'
  BY <1>1, <1>5, <1>6 DEF Types
<1>8. ASSUME NEW n \in Notifications PROVE Placed(n)'
  <2>1. Placed(n)
    BY DEF Base
  <2>2. /\ InQueue(n)' <=> InQueue(n)
        /\ AtWorker(n)' <=> AtWorker(n)
        /\ Flushing(n)' <=> Flushing(n)
        /\ Open(n)' <=> Open(n)
    BY <1>1, <1>2, <1>4, <1>5 DEF InQueue, AtWorker, Flushing, Open
  <2>3. Sending(n)' <=> (Sending(n) \/ n \in b)
    BY <1>2, <1>4, <1>5 DEF Sending
  <2>4. n \in b => InBatch(n)
    BY <1>0, <1>2 DEF InBatch
  <2>5. InBatch(n)' <=> (InBatch(n) /\ n \notin b)
    BY <1>0, <1>2, <1>6, <2>1 DEF InBatch, Placed, Unique
  <2>6. Unique(n)'
    <3>1. /\ \A i, j \in DOMAIN inbound' : inbound'[i] = n /\ inbound'[j] = n => i = j
          /\ \A u, v \in Workers : work'[u].n = n /\ work'[v].n = n => u = v
          /\ \A l, m \in Batched : n \in batch'[l] /\ n \in batch'[m] => l = m
      BY <1>1, <1>2, <1>4, <1>5, <1>6, <2>1 DEF Placed, Unique
    <3>2. \A u, v \in Workers : n \in work'[u].sending /\ n \in work'[v].sending => u = v
      BY <1>4, <1>5, <2>1, <2>4 DEF Placed, Unique, Exclusive, Sending
    <3> QED
      BY <3>1, <3>2 DEF Unique
  <2> QED
    BY <2>1, <2>2, <2>3, <2>4, <2>5, <2>6 DEF Placed, Exclusive, Covered
<1> QED
  BY <1>1, <1>7, <1>8 DEF Base

\* A batch is answered for.
LEMMA WorkerSentOK == ASSUME Base, NEW w \in Workers, WorkerSent(w) PROVE Base'
<1>1. PICK what \in {"delivered", "refused"} :
        fate' = [n \in Notifications |-> IF n \in work[w].sending THEN what ELSE fate[n]]
  BY DEF WorkerSent, Settle
<1>2. /\ Types /\ UNCHANGED <<inbound, batch, flusher, arrived>> /\ work[w].pc = "send"
      /\ work' = [work EXCEPT ![w] = Idle]
  BY DEF Base, WorkerSent
<1>3. work[w].n = NoId
  BY <1>2 DEF Types, WorkerOK, Holding, Downloading
<1>4. /\ DOMAIN work' = Workers /\ \A v \in Workers : WorkerOK(work'[v])
      /\ \A v \in Workers : work'[v] = IF v = w THEN Idle ELSE work[v]
  BY <1>2, IdleOK, WorkUpdate
<1>5. Types'
  BY <1>1, <1>2, <1>4 DEF Types
<1>6. ASSUME NEW n \in Notifications PROVE Placed(n)'
  <2>1. Placed(n)
    BY DEF Base
  <2>2. /\ InQueue(n)' <=> InQueue(n)
        /\ AtWorker(n)' <=> AtWorker(n)
        /\ InBatch(n)' <=> InBatch(n)
        /\ Flushing(n)' <=> Flushing(n)
    BY <1>2, <1>3, <1>4, IdleOK DEF InQueue, AtWorker, InBatch, Flushing
  <2>3. n \in work[w].sending => Sending(n)
    BY DEF Sending
  <2>4. Sending(n)' <=> (Sending(n) /\ n \notin work[w].sending)
    BY <1>4, <2>1, IdleOK DEF Sending, Placed, Unique
  <2>5. Open(n)' <=> (Open(n) /\ n \notin work[w].sending)
    BY <1>1, <1>2 DEF Open
  <2>6. Unique(n)'
    BY <1>2, <1>3, <1>4, <2>1, IdleOK DEF Placed, Unique
  <2> QED
    BY <2>1, <2>2, <2>3, <2>4, <2>5, <2>6 DEF Placed, Exclusive, Covered
<1>7. \A n \in work[w].sending : n \in Notifications => n \in arrived
  BY DEF Base, Placed, Covered, Sending, Open
<1> QED
  BY <1>1, <1>2, <1>5, <1>6, <1>7 DEF Base

\* What the flush goroutine does with its first batch that is not empty.
LEMMA FlushFromFacts ==
    ASSUME Types, NEW kinds \in SUBSET Batched, NEW last, FlushFrom(kinds, last)
    PROVE  /\ UNCHANGED <<inbound, work, arrived, fate>>
           /\ \/ /\ \A k \in kinds : batch[k] = {}
                 /\ flusher' = FlusherDone(last) /\ batch' = batch
              \/ \E k \in kinds :
                    /\ k = "trajectory" /\ "warnings" \in kinds => batch["warnings"] = {}
                    /\ flusher' = [pc |-> "send", kind |-> k, last |-> last, sending |-> batch[k]]
                    /\ batch' = [batch EXCEPT ![k] = {}]
<1> DEFINE full == {k \in kinds : batch[k] # {}}
           first == IF "warnings" \in full THEN "warnings" ELSE "trajectory"
<1>1. UNCHANGED <<inbound, work, arrived, fate>>
  BY DEF FlushFrom
<1>2. CASE full = {}
  BY <1>1, <1>2, Zenon DEF FlushFrom
<1>3. CASE full # {}
  <2>1. /\ flusher' = [pc |-> "send", kind |-> first, last |-> last, sending |-> batch[first]]
        /\ batch' = [batch EXCEPT ![first] = {}]
    BY <1>3, Zenon DEF FlushFrom
  <2>2. /\ first \in kinds
        /\ first = "trajectory" /\ "warnings" \in kinds => batch["warnings"] = {}
    BY <1>3 DEF Batched
  <2> HIDE DEF first
  <2> QED
    BY <1>1, <2>1, <2>2, Zenon
<1> QED
  BY <1>2, <1>3

LEMMA FlushFromOK ==
    ASSUME Base, NEW kinds \in SUBSET Batched, NEW last, FlushFrom(kinds, last), flusher.sending = {}
    PROVE  Base'
<1>1. Types /\ UNCHANGED <<inbound, work, arrived, fate>>
  BY FlushFromFacts DEF Base
<1>2. CASE flusher' = FlusherDone(last) /\ batch' = batch
  <2>1. FlusherOK(flusher') /\ flusher'.sending = {}
    BY <1>2, FlusherDoneOK, Zenon
  <2>2. Types'
    BY <1>1, <1>2, <2>1 DEF Types
  <2>3. ASSUME NEW n \in Notifications PROVE Placed(n)'
    <3>1. Placed(n)
      BY DEF Base
    <3>2. /\ InQueue(n)' <=> InQueue(n)
          /\ AtWorker(n)' <=> AtWorker(n)
          /\ Sending(n)' <=> Sending(n)
          /\ InBatch(n)' <=> InBatch(n)
          /\ Flushing(n)' <=> Flushing(n)
          /\ Open(n)' <=> Open(n)
      BY <1>1, <1>2, <2>1 DEF InQueue, AtWorker, Sending, InBatch, Flushing, Open
    <3>3. Unique(n)'
      BY <1>1, <1>2, <3>1 DEF Placed, Unique
    <3> QED
      BY <3>1, <3>2, <3>3 DEF Placed, Exclusive, Covered
  <2> QED
    BY <1>1, <2>2, <2>3 DEF Base
<1>3. ASSUME NEW k \in Batched, batch' = [batch EXCEPT ![k] = {}],
             flusher' = [pc |-> "send", kind |-> k, last |-> last, sending |-> batch[k]]
      PROVE  Base'
  <2>1. /\ flusher'.pc = "send" /\ flusher'.kind = k /\ flusher'.sending = batch[k]
        /\ DOMAIN flusher' = {"pc", "kind", "last", "sending"}
    BY <1>3
  <2>2. FlusherOK(flusher')
    BY <1>1, <2>1 DEF FlusherOK, Types
  <2>3. /\ batch' \in [Batched -> SUBSET Notifications]
        /\ \A l \in Batched : batch'[l] = IF l = k THEN {} ELSE batch[l]
    BY <1>1, <1>3 DEF Types
  <2>4. Types'
    BY <1>1, <2>2, <2>3 DEF Types
  <2>5. ASSUME NEW n \in Notifications PROVE Placed(n)'
    <3>1. Placed(n)
      BY DEF Base
    <3>2. /\ InQueue(n)' <=> InQueue(n)
          /\ AtWorker(n)' <=> AtWorker(n)
          /\ Sending(n)' <=> Sending(n)
          /\ Open(n)' <=> Open(n)
      BY <1>1 DEF InQueue, AtWorker, Sending, Open
    <3>3. (Flushing(n)' <=> n \in batch[k]) /\ ~Flushing(n)
      BY <2>1 DEF Flushing
    <3>4. n \in batch[k] => InBatch(n)
      BY DEF InBatch
    <3>5. InBatch(n)' <=> (InBatch(n) /\ n \notin batch[k])
      BY <2>3, <3>1 DEF InBatch, Placed, Unique
    <3>6. Unique(n)'
      BY <1>1, <2>3, <3>1 DEF Placed, Unique
    <3> QED
      BY <3>1, <3>2, <3>3, <3>4, <3>5, <3>6 DEF Placed, Exclusive, Covered
  <2> QED
    BY <1>1, <2>4, <2>5 DEF Base
<1> QED
  <2>1. CASE \E k \in kinds :
                /\ flusher' = [pc |-> "send", kind |-> k, last |-> last, sending |-> batch[k]]
                /\ batch' = [batch EXCEPT ![k] = {}]
    BY <1>3, <2>1, Zenon
  <2>2. /\ UNCHANGED <<inbound, work, arrived, fate>>
        /\ \/ /\ \A k \in kinds : batch[k] = {}
              /\ flusher' = FlusherDone(last) /\ batch' = batch
           \/ \E k \in kinds :
                 /\ k = "trajectory" /\ "warnings" \in kinds => batch["warnings"] = {}
                 /\ flusher' = [pc |-> "send", kind |-> k, last |-> last, sending |-> batch[k]]
                 /\ batch' = [batch EXCEPT ![k] = {}]
    BY <1>1, FlushFromFacts
  <2> QED
    BY <1>2, <2>1, <2>2, Zenon

LEMMA FlusherSentOK == ASSUME Base, FlusherSent PROVE Base'
<1>1. PICK what \in {"delivered", "refused"} :
        fate' = [n \in Notifications |-> IF n \in flusher.sending THEN what ELSE fate[n]]
  BY Zenon DEF FlusherSent, Settle
<1>2. /\ Types /\ UNCHANGED <<inbound, work, batch, arrived>> /\ flusher.pc = "send"
  BY DEF Base, FlusherSent
<1>3. FlusherOK(flusher') /\ flusher'.sending = {}
  <2>1. CASE flusher.kind = "warnings"
    <3>1. flusher' = [flusher EXCEPT !.pc = "next", !.sending = {}]
      BY <2>1, Zenon DEF FlusherSent
    <3> QED
      BY <1>2, <2>1, <3>1 DEF Types, FlusherOK
  <2>2. CASE flusher.kind # "warnings"
    <3>1. flusher' = FlusherDone(flusher.last)
      BY <2>2, Zenon DEF FlusherSent
    <3> QED
      BY <3>1, FlusherDoneOK, Zenon
  <2> QED
    BY <2>1, <2>2
<1>4. Types'
  BY <1>1, <1>2, <1>3 DEF Types
<1>5. ASSUME NEW n \in Notifications PROVE Placed(n)'
  <2>1. Placed(n)
    BY DEF Base
  <2>2. /\ InQueue(n)' <=> InQueue(n)
        /\ AtWorker(n)' <=> AtWorker(n)
        /\ Sending(n)' <=> Sending(n)
        /\ InBatch(n)' <=> InBatch(n)
        /\ ~Flushing(n)'
    BY <1>2, <1>3 DEF InQueue, AtWorker, Sending, InBatch, Flushing
  <2>3. Open(n)' <=> (Open(n) /\ ~Flushing(n))
    BY <1>1, <1>2 DEF Open, Flushing
  <2>4. Unique(n)'
    BY <1>2, <2>1 DEF Placed, Unique
  <2> QED
    BY <2>1, <2>2, <2>3, <2>4 DEF Placed, Exclusive, Covered
<1>6. \A n \in flusher.sending : n \in Notifications => n \in arrived
  BY DEF Base, Placed, Covered, Flushing, Open
<1> QED
  BY <1>1, <1>2, <1>4, <1>5, <1>6 DEF Base

LEMMA CheckOrAddOK == ASSUME Base, NEW w \in Workers, CheckOrAdd(w) PROVE Base'
<1>1. work[w].pc = "check" /\ UNCHANGED <<inbound, batch, flusher, arrived>>
  BY DEF CheckOrAdd
<1>2. CASE Known(work[w].n)
  BY <1>1, <1>2, WorkerSettles DEF CheckOrAdd, Holding
<1>3. CASE ~Known(work[w].n)
  <2>1. WorkerOK(work[w]) /\ DOMAIN work = Workers
    BY DEF Base, Types
  <2>2. PICK s : s = [work[w] EXCEPT !.pc = IF work[w].n \in Inline THEN "decode" ELSE "slot"]
    OBVIOUS
  <2>3. work' = [work EXCEPT ![w] = s] /\ fate' = fate
    BY <1>3, <2>1, <2>2 DEF CheckOrAdd
  <2>4. WorkerOK(s) /\ s.n = work[w].n /\ s.sending = work[w].sending
    BY <1>1, <2>1, <2>2 DEF WorkerOK, WorkFields, Holding, Downloading
  <2> QED
    BY <1>1, <2>3, <2>4, WorkerMoves DEF Where
<1> QED
  BY <1>2, <1>3

-----------------------------------------------------------------------------
\* The steps of a worker, by what they do to its notification.

Moves(w) ==
    \E s : /\ WorkerOK(s) /\ s.n = work[w].n /\ s.sending = work[w].sending
           /\ s.pc # "check" /\ work[w].pc # "check" /\ work' = [work EXCEPT ![w] = s]
           /\ UNCHANGED <<Where, cacheVars, health, reportVars, stopVars>>

Fails(w) ==
    \E what \in {"failed", "unreadable"} :
        /\ work[w].pc \in Holding /\ (what = "unreadable" <=> work[w].pc = "check")
        /\ CountFailed(w, what)

Quits(w) ==
    \E what \in {"ignored", "queued", "abandoned"} :
        work[w].pc \in Holding \ {"check"} /\ Settled(w, what)

Enqueues(w) == work[w].pc = "decode" /\ work[w].kind \in Batched /\ EnqueueFeature(w)

LEMMA WorkerShapes ==
    ASSUME Base, NEW w \in Workers, WorkerStep(w) \/ Busy(w)
    PROVE  \/ Take(w) \/ CheckOrAdd(w) \/ Moves(w) \/ Fails(w) \/ Quits(w) \/ Enqueues(w)
           \/ WorkerFlush(w) \/ WorkerSent(w)
<1>1. WorkerOK(work[w]) /\ DOMAIN work = Workers /\ DOMAIN work[w] = WorkFields
  BY DEF Base, Types, WorkerOK
<1>2. ASSUME NEW to, NEW again, to \in Holding \ {"check"}, work[w].pc \in Holding \ {"check"},
             WorkerOnly(w, [work[w] EXCEPT !.pc = to, !.again = again])
      PROVE  Moves(w)
  <2>1. PICK s : s = [work[w] EXCEPT !.pc = to, !.again = again]
    OBVIOUS
  <2>2. /\ s.pc = to /\ s.n = work[w].n /\ s.sending = work[w].sending /\ s.kind = work[w].kind
        /\ DOMAIN s = WorkFields
    BY <1>1, <2>1 DEF WorkFields
  <2>3. WorkerOK(s)
    BY <1>1, <1>2, <2>2 DEF WorkerOK, Holding, Downloading
  <2> QED
    BY <1>2, <2>1, <2>2, <2>3 DEF Moves, WorkerOnly, Where, linkVars, reportVars, stopVars, cacheVars
<1>3. CASE TakeSlot(w)
  BY <1>2, <1>3 DEF TakeSlot, Holding, Downloading
<1>4. CASE DownloadOk(w)
  BY <1>2, <1>4 DEF DownloadOk, Holding, Downloading
<1>5. CASE CanonicalFails(w)
  BY <1>2, <1>5 DEF CanonicalFails, Holding, Downloading
<1>6. CASE BusyOver(w)
  <2>1. PICK s : s = [work[w] EXCEPT !.pc = IF @ = "busyCanonical" THEN "canonical" ELSE "fallback"]
    OBVIOUS
  <2>2. /\ s.pc \in {"canonical", "fallback"} /\ s.n = work[w].n /\ s.sending = work[w].sending
        /\ s.kind = work[w].kind /\ DOMAIN s = WorkFields
        /\ work[w].pc \in {"busyCanonical", "busyFallback"}
    BY <1>1, <1>6, <2>1 DEF BusyOver, WorkFields
  <2>3. WorkerOK(s)
    BY <1>1, <2>2 DEF WorkerOK, Holding, Downloading
  <2> QED
    BY <1>6, <2>1, <2>2, <2>3 DEF Moves, BusyOver, WorkerOnly, Where, reportVars, stopVars, cacheVars
<1>7. CASE Busy(w)
  <2>1. PICK s : s = [work[w] EXCEPT !.again = FALSE,
                        !.pc = IF @ = "canonical" THEN "busyCanonical" ELSE "busyFallback"]
    OBVIOUS
  <2>2. work' = [work EXCEPT ![w] = s]
    BY <1>1, <1>7, <2>1 DEF Busy, WorkFields
  <2>3. /\ s.pc \in {"busyCanonical", "busyFallback"} /\ s.n = work[w].n
        /\ s.sending = work[w].sending /\ s.kind = work[w].kind /\ DOMAIN s = WorkFields
        /\ work[w].pc \in {"canonical", "fallback"}
    BY <1>1, <1>7, <2>1 DEF Busy, WorkFields
  <2>4. WorkerOK(s)
    BY <1>1, <2>3 DEF WorkerOK, Holding, Downloading
  <2> QED
    BY <1>7, <2>2, <2>3, <2>4 DEF Moves, Busy, Where, reportVars, stopVars, cacheVars
<1>8. CASE WorkerExits(w)
  <2>1. PICK s : s = [Idle EXCEPT !.pc = "gone"]
    OBVIOUS
  <2>2. s.pc = "gone" /\ s.n = NoId /\ s.sending = {} /\ WorkerOK(s)
    BY <2>1 DEF Idle, WorkerOK, WorkFields, Holding, Downloading
  <2>3. work[w].n = NoId /\ work[w].sending = {} /\ work[w].pc = "idle"
    BY <1>1, <1>8 DEF WorkerExits, WorkerOK, Holding, Downloading
  <2> QED
    BY <1>8, <2>1, <2>2, <2>3 DEF Moves, WorkerExits, WorkerOnly, Where, reportVars, stopVars, cacheVars
<1>9. CASE FallbackFails(w) \/ ParseFails(w) \/ IntegrityFails(w)
  BY <1>9 DEF Fails, FallbackFails, ParseFails, IntegrityFails, Holding, Downloading
<1>10. CASE GiveUpSlot(w)
  BY <1>10 DEF GiveUpSlot, Quits, Settled, Holding
<1>11. CASE HandleWarnings(w) \/ HandleTrajectory(w) \/ HandleSynop(w) \/ HandleOther(w)
  BY <1>11 DEF HandleWarnings, HandleTrajectory, HandleSynop, HandleOther, Fails, Quits, Enqueues,
               Holding, Batched
<1> QED
  BY <1>3, <1>4, <1>5, <1>6, <1>7, <1>8, <1>9, <1>10, <1>11 DEF WorkerStep

\* The steps of everybody else, but for the broker and the flush goroutine.
LEMMA Bystanders ==
    ASSUME Link \/ Report \/ CacheExpires \/ Stop \/ Return \/ UNCHANGED vars
    PROVE  UNCHANGED <<Where, work>>
<1>1. CASE Link
  BY <1>1 DEF Link, Connect, ConnectFails, ConnectionLost, BackoffOver, BrokerStops, Others, Where
<1>2. CASE Report
  BY <1>2 DEF Report, Where
<1>3. CASE CacheExpires
  BY <1>3 DEF CacheExpires, Where
<1>4. CASE Stop
  BY <1>4 DEF Stop, Where
<1>5. CASE UNCHANGED vars
  BY <1>5 DEF vars, Where
<1> QED
  BY <1>1, <1>2, <1>3, <1>4, <1>5 DEF Return

LEMMA FlusherShapes ==
    ASSUME Base, Flusher
    PROVE  \/ FlusherSent
           \/ /\ flusher.sending = {}
              /\ \/ flusher.pc = "idle" /\ \E last \in {FALSE, stop} : FlushFrom(Batched, last)
                 \/ flusher.pc = "next" /\ FlushFrom(Batched \ {"warnings"}, flusher.last)
<1>1. flusher.pc # "send" => flusher.sending = {}
  BY DEF Base, Types, FlusherOK
<1>2. CASE Tick
  <2>1. flusher.pc = "idle" /\ \E last \in {FALSE, stop} : FlushFrom(Batched, last)
    BY <1>2, Zenon DEF Tick
  <2>2. flusher.sending = {}
    BY <1>1, <2>1
  <2> QED
    BY <2>1, <2>2, Zenon
<1>3. CASE FlusherNext
  <2>1. flusher.pc = "next" /\ FlushFrom(Batched \ {"warnings"}, flusher.last)
    BY <1>3, Zenon DEF FlusherNext
  <2>2. flusher.sending = {}
    BY <1>1, <2>1
  <2> QED
    BY <2>1, <2>2, Zenon
<1> QED
  BY <1>2, <1>3, Zenon DEF Flusher

LEMMA NextBase == Base /\ [Next]_vars => Base'
<1> SUFFICES ASSUME Base, [Next]_vars PROVE Base'
  OBVIOUS
<1>1. CASE Link \/ Report \/ CacheExpires \/ Stop \/ Return \/ UNCHANGED vars
  <2>1. UNCHANGED <<Where, work>>
    BY <1>1, Bystanders
  <2> QED
    BY <2>1, Stays DEF Base, Types
<1>2. ASSUME NEW n \in Notifications, Receive(n) PROVE Base'
  BY <1>2, ReceiveOK
<1>3. ASSUME NEW w \in Workers, WorkerStep(w) \/ Busy(w) PROVE Base'
  <2>1. CASE Moves(w)
    BY <2>1, WorkerMoves DEF Moves
  <2>2. CASE Fails(w)
    BY <2>2, WorkerSettles DEF Fails, CountFailed
  <2>3. CASE Quits(w)
    BY <2>3, WorkerSettles DEF Quits, Settled
  <2>4. CASE Enqueues(w)
    BY <2>4, EnqueueOK DEF Enqueues
  <2> QED
    BY <1>3, <2>1, <2>2, <2>3, <2>4, WorkerShapes, TakeOK, CheckOrAddOK, WorkerFlushOK, WorkerSentOK
<1>4. CASE Flusher
  <2>1. CASE FlusherSent
    BY <2>1, FlusherSentOK
  <2>2. ASSUME NEW kinds \in SUBSET Batched, NEW last, FlushFrom(kinds, last), flusher.sending = {}
        PROVE  Base'
    BY <2>2, FlushFromOK
  <2>3. Batched \in SUBSET Batched /\ Batched \ {"warnings"} \in SUBSET Batched
    OBVIOUS
  <2> QED
    BY <1>4, <2>1, <2>2, <2>3, FlusherShapes, Zenon
<1> QED
  BY <1>1, <1>2, <1>3, <1>4 DEF Next

LEMMA BaseInvariant == Spec => []Base
  BY InitBase, NextBase, PTL DEF Spec

-----------------------------------------------------------------------------
LEMMA AtMostOne ==
    ASSUME NEW S, \A x, y \in S : x = y
    PROVE  Cardinality(S) = IF S = {} THEN 0 ELSE 1
<1>1. CASE S = {}
  BY <1>1, FS_EmptySet
<1>2. CASE S # {}
  <2>1. PICK x \in S : TRUE
    BY <1>2
  <2>2. S = {x}
    BY <2>1
  <2> QED
    BY <2>2, FS_Singleton
<1> QED
  BY <1>1, <1>2

\* Between its arrival and its fate a notification is in the queue, with one
\* worker, in one batch or in one request, and after it nowhere: handleMessage,
\* the batches and the flushes lose nothing and double nothing, whatever the
\* number of workers and however their steps interleave.
THEOREM NothingLostOrDoubled == Spec => []Conserved
<1>1. Base => Conserved
  <2> SUFFICES ASSUME Base, NEW n \in Notifications
               PROVE  Held(n) = IF Open(n) THEN 1 ELSE 0
    BY DEF Conserved, Open
  <2>0. Placed(n)
    BY DEF Base
  <2>1. Cardinality({i \in DOMAIN inbound : inbound[i] = n}) = IF InQueue(n) THEN 1 ELSE 0
    <3>1. \A x, y \in {i \in DOMAIN inbound : inbound[i] = n} : x = y
      BY <2>0 DEF Placed, Unique
    <3> QED
      BY <3>1, AtMostOne DEF InQueue
  <2>2. Cardinality({w \in Workers : work[w].n = n}) = IF AtWorker(n) THEN 1 ELSE 0
    <3>1. \A x, y \in {w \in Workers : work[w].n = n} : x = y
      BY <2>0 DEF Placed, Unique
    <3> QED
      BY <3>1, AtMostOne DEF AtWorker
  <2>3. Cardinality({w \in Workers : n \in work[w].sending}) = IF Sending(n) THEN 1 ELSE 0
    <3>1. \A x, y \in {w \in Workers : n \in work[w].sending} : x = y
      BY <2>0 DEF Placed, Unique
    <3> QED
      BY <3>1, AtMostOne DEF Sending
  <2>4. Cardinality({k \in Batched : n \in batch[k]}) = IF InBatch(n) THEN 1 ELSE 0
    <3>1. \A x, y \in {k \in Batched : n \in batch[k]} : x = y
      BY <2>0 DEF Placed, Unique
    <3> QED
      BY <3>1, AtMostOne DEF InBatch
  <2> QED
    BY <2>0, <2>1, <2>2, <2>3, <2>4 DEF Held, Placed, Exclusive, Covered, Flushing
<1> QED
  BY <1>1, BaseInvariant, PTL
-----------------------------------------------------------------------------
\* Who has got past the duplicate check, step by step: only CheckOrAdd lets
\* a notification through, and no step takes that back.

Calm ==
    \A n \in Notifications : /\ Passed(n)' <=> Passed(n)
                             /\ fate'[n] = "duplicate" => fate[n] = "duplicate"

LEMMA QueueTail ==
    ASSUME inbound \in Seq(Notifications), inbound # <<>>, inbound' = Tail(inbound)
    PROVE  /\ Head(inbound) \in Notifications /\ InQueue(Head(inbound))
           /\ \A n \in Notifications : InQueue(n)' => InQueue(n)
           /\ \A n \in Notifications : InQueue(n) /\ n # Head(inbound) => InQueue(n)'
<1>1. /\ Len(inbound) \in Nat \ {0} /\ DOMAIN inbound = 1..Len(inbound)
      /\ DOMAIN inbound' = 1..(Len(inbound) - 1)
      /\ \A i \in DOMAIN inbound' : inbound'[i] = inbound[i + 1]
      /\ Head(inbound) = inbound[1] /\ Head(inbound) \in Notifications
  OBVIOUS
<1>2. InQueue(Head(inbound))
  BY <1>1 DEF InQueue
<1>3. ASSUME NEW n, NEW i \in DOMAIN inbound', inbound'[i] = n PROVE InQueue(n)
  <2>1. i + 1 \in DOMAIN inbound /\ inbound[i + 1] = n
    BY <1>1, <1>3
  <2> QED
    BY <2>1 DEF InQueue
<1>4. ASSUME NEW n, NEW i \in DOMAIN inbound, inbound[i] = n, n # Head(inbound) PROVE InQueue(n)'
  <2>1. i # 1
    BY <1>1, <1>4
  <2>2. i - 1 \in DOMAIN inbound' /\ i - 1 + 1 = i
    BY <1>1, <2>1
  <2> QED
    BY <1>1, <1>4, <2>2 DEF InQueue
<1> QED
  BY <1>1, <1>2, <1>3, <1>4 DEF InQueue

\* A worker's own step: what it held and what it holds after.
LEMMA WorkerHolds ==
    ASSUME Base, NEW w \in Workers
    PROVE  /\ WorkerOK(work[w]) /\ DOMAIN work = Workers
           /\ work[w].pc \in Holding => work[w].n \in Notifications
           /\ work[w].pc \notin Holding => work[w].n = NoId
           /\ NoId \notin Notifications
  BY Wis2AdapterAssumption DEF Base, Types, WorkerOK

\* A worker that settles what it holds.
LEMMA SettleCalm ==
    ASSUME Base, UNCHANGED <<inbound, arrived>>, NEW w \in Workers, work[w].pc \in Holding, NEW what,
           what \in {"duplicate", "unreadable"} <=> work[w].pc = "check", what # "droppedInbound",
           work' = [work EXCEPT ![w] = Idle], fate' = [fate EXCEPT ![work[w].n] = what]
    PROVE  /\ \A n \in Notifications : Passed(n)' <=> Passed(n)
           /\ \A n \in Notifications : fate'[n] = IF n = work[w].n THEN what ELSE fate[n]
           /\ work[w].n \in Notifications /\ work[w].n \in arrived /\ fate[work[w].n] = "open"
<1>1. /\ work[w].n \in Notifications /\ NoId \notin Notifications
      /\ \A v \in Workers : work'[v] = IF v = w THEN Idle ELSE work[v]
  BY WorkerHolds, WorkUpdate, IdleOK DEF Base
<1>2. \A n \in Notifications : fate'[n] = IF n = work[w].n THEN what ELSE fate[n]
  BY DEF Base, Types
<1>3. AtWorker(work[w].n)
  BY DEF AtWorker
<1>4. Open(work[w].n) /\ ~InQueue(work[w].n)
  BY <1>1, <1>3 DEF Base, Placed, Covered, Exclusive
<1>5. ASSUME NEW n \in Notifications PROVE Passed(n)' <=> Passed(n)
  <2>1. InQueue(n)' <=> InQueue(n)
    BY DEF InQueue
  <2>2. CASE n = work[w].n
    <3>1. \A v \in Workers : work[v].n = n => v = w
      BY <1>1, <2>2 DEF Base, Placed, Unique
    <3>2. Passed(n) <=> work[w].pc # "check"
      BY <1>4, <2>2, <3>1 DEF Passed, Open
    <3>3. Passed(n)' <=> what \notin {"duplicate", "unreadable"}
      BY <1>1, <1>2, <1>4, <2>1, <2>2, <3>1, IdleOK DEF Passed, Open
    <3> QED
      BY <3>2, <3>3
  <2>3. CASE n # work[w].n
    BY <1>1, <1>2, <2>1, <2>3, IdleOK DEF Passed
  <2> QED
    BY <2>2, <2>3
<1> QED
  BY <1>1, <1>2, <1>4, <1>5 DEF Open

\* A batch that is answered for, by a worker or by the flush goroutine.
LEMMA SentCalm ==
    ASSUME Base, UNCHANGED <<inbound, arrived>>, NEW set, NEW what \in {"delivered", "refused"},
           Settle(set, what), \A v \in Workers : work'[v].n = work[v].n,
           \A v \in Workers : work[v].pc \in Holding => work'[v].pc = work[v].pc,
           \A n \in set : Sending(n) \/ Flushing(n)
    PROVE  Calm
<1> SUFFICES ASSUME NEW n \in Notifications
             PROVE  /\ Passed(n)' <=> Passed(n)
                    /\ fate'[n] = "duplicate" => fate[n] = "duplicate"
  BY DEF Calm
<1>1. fate'[n] = IF n \in set THEN what ELSE fate[n]
  BY DEF Settle
<1>2. InQueue(n)' <=> InQueue(n)
  BY DEF InQueue
<1>3. \A v \in Workers : work[v].n = n => work[v].pc \in Holding
  BY WorkerHolds
<1>4. Placed(n)
  BY DEF Base
<1>5. CASE n \in set
  <2>1. fate[n] = "open" /\ n \in arrived /\ ~InQueue(n) /\ ~AtWorker(n)
    BY <1>4, <1>5 DEF Placed, Covered, Exclusive, Open
  <2> QED
    BY <1>1, <1>2, <1>5, <2>1 DEF Passed, AtWorker
<1>6. CASE n \notin set
  BY <1>1, <1>2, <1>3, <1>6 DEF Passed
<1> QED
  BY <1>5, <1>6

LEMMA ReceiveCalm == ASSUME Base, NEW x \in Notifications, Receive(x) PROVE Calm
<1>1. Base'
  BY ReceiveOK
<1>2. x \notin arrived /\ arrived' = arrived \cup {x} /\ UNCHANGED work /\ ~Passed(x)
  BY DEF Receive, Passed
<1>3. CASE Len(inbound) < InboundCap
  <2>1. inbound' = Append(inbound, x) /\ fate' = fate
    BY <1>3 DEF Receive
  <2>2. /\ DOMAIN inbound' = 1..(Len(inbound) + 1) /\ DOMAIN inbound = 1..Len(inbound)
        /\ Len(inbound) \in Nat
        /\ \A i \in DOMAIN inbound : inbound'[i] = inbound[i]
        /\ inbound'[Len(inbound) + 1] = x
    BY <2>1 DEF Base, Types
  <2>3. InQueue(x)'
    BY <2>2 DEF InQueue
  <2>4. \A n \in Notifications : n # x => (InQueue(n)' <=> InQueue(n))
    <3> SUFFICES ASSUME NEW n \in Notifications, n # x PROVE InQueue(n)' <=> InQueue(n)
      OBVIOUS
    <3>1. \A i \in DOMAIN inbound' : inbound'[i] = n => i \in DOMAIN inbound
      BY <2>2
    <3> QED
      BY <2>2, <3>1 DEF InQueue
  <2> QED
    BY <1>2, <2>1, <2>3, <2>4 DEF Calm, Passed
<1>4. CASE ~(Len(inbound) < InboundCap)
  <2>1. inbound' = inbound /\ fate' = [fate EXCEPT ![x] = "droppedInbound"]
    BY <1>4 DEF Receive
  <2>2. \A n \in Notifications : fate'[n] = IF n = x THEN "droppedInbound" ELSE fate[n]
    BY <2>1 DEF Base, Types
  <2>3. \A n \in Notifications : InQueue(n)' <=> InQueue(n)
    BY <2>1 DEF InQueue
  <2> QED
    BY <1>2, <2>2, <2>3 DEF Calm, Passed
<1> QED
  BY <1>3, <1>4

LEMMA TakeCalm ==
    ASSUME Base, NEW w \in Workers, Take(w)
    PROVE  /\ Calm
           /\ \A n \in Notifications : AtWorker(n)' => AtWorker(n) \/ InQueue(n)
           /\ \A n \in Notifications : InQueue(n)' => InQueue(n)
<1>1. PICK x : x = Head(inbound)
  OBVIOUS
<1>2. /\ inbound # <<>> /\ inbound' = Tail(inbound) /\ UNCHANGED <<arrived, fate>>
      /\ work[w].pc = "idle" /\ inbound \in Seq(Notifications)
  BY DEF Base, Types, Take
<1>3. /\ x \in Notifications /\ InQueue(x)
      /\ \A n \in Notifications : InQueue(n)' => InQueue(n)
      /\ \A n \in Notifications : InQueue(n) /\ n # x => InQueue(n)'
  BY <1>1, <1>2, QueueTail
<1>4. PICK k : work' = [work EXCEPT ![w] = [Idle EXCEPT !.pc = "check", !.n = x, !.kind = k]]
  BY <1>1 DEF Take
<1>5. /\ \A v \in Workers : v # w => work'[v] = work[v]
      /\ work'[w].n = x /\ work'[w].pc = "check"
  BY <1>4, WorkerHolds DEF Idle
<1>6. work[w].n = NoId /\ NoId \notin Notifications
  BY <1>2, WorkerHolds DEF Holding, Downloading
<1>7. Calm
  <2> SUFFICES ASSUME NEW n \in Notifications PROVE Passed(n)' <=> Passed(n)
    BY <1>2 DEF Calm
  <2>1. CASE n = x
    BY <1>3, <1>5, <2>1 DEF Passed
  <2>2. CASE n # x
    BY <1>2, <1>3, <1>5, <1>6, <2>2 DEF Passed
  <2> QED
    BY <2>1, <2>2
<1>8. ASSUME NEW n \in Notifications, AtWorker(n)' PROVE AtWorker(n) \/ InQueue(n)
  BY <1>3, <1>5, <1>8 DEF AtWorker
<1> QED
  BY <1>3, <1>7, <1>8

\* The remaining steps of a worker leave its notification behind the check.
LEMMA WorkerCalm ==
    ASSUME Base, NEW w \in Workers,
           Moves(w) \/ Fails(w) \/ Quits(w) \/ Enqueues(w) \/ WorkerFlush(w) \/ WorkerSent(w)
    PROVE  /\ Calm
           /\ \A n \in Notifications : AtWorker(n)' => AtWorker(n)
           /\ UNCHANGED <<inbound, arrived>>
<1>0. /\ WorkerOK(work[w]) /\ DOMAIN work = Workers /\ NoId \notin Notifications
      /\ work[w].pc \in Holding => work[w].n \in Notifications
      /\ work[w].pc \notin Holding => work[w].n = NoId
  BY WorkerHolds
<1>1. ASSUME UNCHANGED <<inbound, arrived, fate>>, NEW s, work' = [work EXCEPT ![w] = s],
             s.n = work[w].n \/ s.n = NoId,
             work[w].n \in Notifications => s.pc # "check" /\ work[w].pc # "check"
      PROVE  Calm /\ \A n \in Notifications : AtWorker(n)' => AtWorker(n)
  <2>1. \A v \in Workers : work'[v] = IF v = w THEN s ELSE work[v]
    BY <1>0, <1>1
  <2>2. \A n \in Notifications : InQueue(n)' <=> InQueue(n)
    BY <1>1 DEF InQueue
  <2>3. \A n \in Notifications : Passed(n)' <=> Passed(n)
    BY <1>0, <1>1, <2>1, <2>2 DEF Passed
  <2>4. \A n \in Notifications : AtWorker(n)' => AtWorker(n)
    BY <1>0, <1>1, <2>1 DEF AtWorker
  <2> QED
    BY <1>1, <2>3, <2>4 DEF Calm
<1>2. CASE Moves(w)
  <2>1. PICK s : /\ s.n = work[w].n /\ s.pc # "check" /\ work[w].pc # "check"
                 /\ work' = [work EXCEPT ![w] = s] /\ UNCHANGED <<inbound, arrived, fate>>
    BY <1>2 DEF Moves, Where
  <2> QED
    BY <1>1, <2>1
<1>3. ASSUME NEW what, what \in {"unreadable"} <=> work[w].pc = "check", work[w].pc \in Holding,
             what \notin {"duplicate", "droppedInbound"}, UNCHANGED <<inbound, arrived>>,
             work' = [work EXCEPT ![w] = Idle], fate' = [fate EXCEPT ![work[w].n] = what]
      PROVE  Calm /\ \A n \in Notifications : AtWorker(n)' => AtWorker(n)
  <2>0. what \in {"duplicate", "unreadable"} <=> work[w].pc = "check"
    BY <1>3
  <2>a. /\ \A n \in Notifications : Passed(n)' <=> Passed(n)
        /\ \A n \in Notifications : fate'[n] = IF n = work[w].n THEN what ELSE fate[n]
    BY <1>3, <2>0, SettleCalm
  <2>1. Calm
    BY <1>3, <2>a DEF Calm
  <2>2. \A v \in Workers : work'[v] = IF v = w THEN Idle ELSE work[v]
    BY <1>0, <1>3
  <2> QED
    BY <1>0, <2>1, <2>2, IdleOK DEF AtWorker
<1>4. CASE Fails(w)
  BY <1>3, <1>4 DEF Fails, CountFailed
<1>5. CASE Quits(w)
  BY <1>3, <1>5 DEF Quits, Settled
<1>6. CASE Enqueues(w)
  <2>1. PICK s : /\ work' = [work EXCEPT ![w] = s]
                 /\ s = Idle \/ s = [Idle EXCEPT !.pc = "flush", !.kind = work[w].kind]
    BY <1>6 DEF Enqueues, EnqueueFeature
  <2>2. s.n = NoId /\ s.pc # "check"
    <3>1. CASE s = Idle
      BY <3>1, IdleOK
    <3>2. CASE s # Idle
      BY <2>1, <3>2 DEF Idle
    <3> QED
      BY <3>1, <3>2
  <2>3. UNCHANGED <<inbound, arrived, fate>> /\ work[w].pc = "decode"
    BY <1>6 DEF Enqueues, EnqueueFeature
  <2> QED
    BY <1>1, <2>1, <2>2, <2>3
<1>7. CASE WorkerFlush(w)
  <2>1. PICK s, b : /\ work' = [work EXCEPT ![w] = s]
                    /\ s = Idle \/ s = [Idle EXCEPT !.pc = "send", !.sending = b]
    BY <1>7 DEF WorkerFlush
  <2>2. s.n = NoId /\ s.pc # "check"
    <3>1. CASE s = Idle
      BY <3>1, IdleOK
    <3>2. CASE s # Idle
      BY <2>1, <3>2 DEF Idle
    <3> QED
      BY <3>1, <3>2
  <2>3. UNCHANGED <<inbound, arrived, fate>> /\ work[w].pc = "flush"
    BY <1>7 DEF WorkerFlush
  <2> QED
    BY <1>1, <2>1, <2>2, <2>3
<1>8. CASE WorkerSent(w)
  <2>1. PICK what \in {"delivered", "refused"} : Settle(work[w].sending, what)
    BY <1>8 DEF WorkerSent
  <2>2. UNCHANGED <<inbound, arrived>> /\ work' = [work EXCEPT ![w] = Idle] /\ work[w].pc = "send"
    BY <1>8 DEF WorkerSent
  <2>3. /\ \A v \in Workers : work'[v] = IF v = w THEN Idle ELSE work[v]
        /\ work[w].pc \notin Holding /\ work[w].n = NoId
    BY <1>0, <2>2 DEF Holding, Downloading
  <2>4. /\ \A v \in Workers : work'[v].n = work[v].n
        /\ \A v \in Workers : work[v].pc \in Holding => work'[v].pc = work[v].pc
    BY <2>3, IdleOK
  <2>5. Calm
    BY <2>1, <2>2, <2>4, SentCalm DEF Sending
  <2> QED
    BY <2>2, <2>4, <2>5 DEF AtWorker
<1>9. UNCHANGED <<inbound, arrived>>
  BY DEF Moves, Where, Fails, CountFailed, Quits, Settled, Enqueues, EnqueueFeature, WorkerFlush,
         WorkerSent
<1> QED
  BY <1>2, <1>4, <1>5, <1>6, <1>7, <1>8, <1>9

LEMMA StillCalm ==
    ASSUME UNCHANGED <<inbound, work, arrived, fate>>
    PROVE  Calm
  BY DEF Calm, Passed, InQueue

LEMMA FlusherCalm == ASSUME Base, Flusher PROVE Calm /\ UNCHANGED <<inbound, work, arrived>>
<1>1. CASE FlusherSent
  <2>1. PICK what \in {"delivered", "refused"} : Settle(flusher.sending, what)
    BY <1>1, Zenon DEF FlusherSent
  <2>2. UNCHANGED <<inbound, work, arrived>>
    BY <1>1 DEF FlusherSent
  <2> QED
    BY <2>1, <2>2, SentCalm DEF Flushing
<1>2. ASSUME NEW kinds, NEW last, FlushFrom(kinds, last)
      PROVE  Calm /\ UNCHANGED <<inbound, work, arrived>>
  <2>1. UNCHANGED <<inbound, work, arrived, fate>>
    BY <1>2 DEF FlushFrom
  <2> QED
    BY <2>1, StillCalm
<1> QED
  BY <1>1, <1>2, FlusherShapes, Zenon

\* Every step but CheckOrAdd is calm, and leaves the cache alone or shrinks it.
LEMMA CalmNext ==
    ASSUME Base, [Next]_vars, \A w \in Workers : ~CheckOrAdd(w)
    PROVE  Calm
<1>1. CASE Link \/ Report \/ CacheExpires \/ Stop \/ Return \/ UNCHANGED vars
  BY <1>1, Bystanders, StillCalm DEF Where
<1> QED
  BY <1>1, ReceiveCalm, WorkerShapes, TakeCalm, WorkerCalm, FlusherCalm DEF Next

LEMMA CacheSteps ==
    ASSUME Base, [Next]_vars, \A w \in Workers : ~CheckOrAdd(w)
    PROVE  /\ ids' \subseteq ids /\ dataIds' \subseteq dataIds /\ forgotten \subseteq forgotten'
           /\ dataIds \subseteq dataIds' \cup forgotten'
<1>1. CASE CacheExpires
  BY <1>1 DEF CacheExpires
<1>2. CASE Link \/ Report \/ Stop \/ Return \/ UNCHANGED vars
  BY <1>2 DEF Link, Connect, ConnectFails, ConnectionLost, BackoffOver, BrokerStops, Others, Report,
              Stop, Return, vars, cacheVars
<1>3. ASSUME NEW n \in Notifications, Receive(n) PROVE UNCHANGED cacheVars
  BY <1>3 DEF Receive
<1>4. ASSUME NEW w \in Workers, WorkerStep(w) \/ Busy(w) PROVE UNCHANGED cacheVars
  BY <1>4, WorkerShapes DEF Take, Moves, Fails, CountFailed, Quits, Settled, Enqueues, EnqueueFeature,
     WorkerFlush, WorkerSent
<1>5. CASE Flusher
  <2>1. UNCHANGED cacheVars
    BY <1>5 DEF Flusher, Tick, FlusherNext, FlusherSent, FlushFrom
  <2> QED
    BY <2>1 DEF cacheVars
<1> QED
  BY <1>1, <1>2, <1>3, <1>4, <1>5 DEF Next, cacheVars

\* CheckOrAdd on a notification that the cache does not know.
LEMMA LetThrough ==
    ASSUME Base, NEW w \in Workers, CheckOrAdd(w), ~Known(work[w].n)
    PROVE  /\ work[w].n \in Notifications /\ ~Passed(work[w].n)
           /\ \A n \in Notifications : Passed(n)' <=> Passed(n) \/ n = work[w].n
           /\ \A n \in Notifications : fate'[n] = fate[n]
<1>1. /\ work[w].pc = "check" /\ UNCHANGED <<inbound, arrived, fate>>
      /\ work' = [work EXCEPT ![w].pc = IF work[w].n \in Inline THEN "decode" ELSE "slot"]
  BY DEF CheckOrAdd
<1>2. work[w].n \in Notifications /\ DOMAIN work = Workers /\ DOMAIN work[w] = WorkFields
  BY <1>1, WorkerHolds DEF Holding, WorkerOK
<1>3. /\ \A v \in Workers : v # w => work'[v] = work[v]
      /\ work'[w].n = work[w].n /\ work'[w].pc # "check"
  BY <1>1, <1>2 DEF WorkFields
<1>4. AtWorker(work[w].n)
  BY DEF AtWorker
<1>5. Open(work[w].n) /\ ~InQueue(work[w].n)
  BY <1>2, <1>4 DEF Base, Placed, Covered, Exclusive
<1>6. \A v \in Workers : work[v].n = work[w].n => v = w
  BY <1>2 DEF Base, Placed, Unique
<1>7. \A n \in Notifications : InQueue(n)' <=> InQueue(n)
  BY <1>1 DEF InQueue
<1>8. Passed(work[w].n)' /\ ~Passed(work[w].n)
  BY <1>1, <1>2, <1>3, <1>5, <1>6, <1>7 DEF Passed, Open
<1>9. \A n \in Notifications : n # work[w].n => (Passed(n)' <=> Passed(n))
  BY <1>1, <1>3, <1>7 DEF Passed
<1> QED
  BY <1>1, <1>2, <1>8, <1>9

\* CheckOrAdd on one that it does.
LEMMA TurnedAway ==
    ASSUME Base, NEW w \in Workers, CheckOrAdd(w), Known(work[w].n)
    PROVE  /\ work[w].n \in Notifications
           /\ \A n \in Notifications : Passed(n)' <=> Passed(n)
           /\ \A n \in Notifications : fate'[n] = "duplicate" => n = work[w].n \/ fate[n] = "duplicate"
           /\ UNCHANGED cacheVars
<1>1. /\ work[w].pc = "check" /\ UNCHANGED <<inbound, arrived, cacheVars>>
      /\ work' = [work EXCEPT ![w] = Idle] /\ fate' = [fate EXCEPT ![work[w].n] = "duplicate"]
  BY DEF CheckOrAdd, cacheVars
<1> QED
  BY <1>1, SettleCalm, ZenonT(40) DEF Holding

LEMMA InitCache == Init => CacheInv
<1> SUFFICES ASSUME Init PROVE CacheInv
  OBVIOUS
<1>1. ids = {} /\ dataIds = {} /\ arrived = {} /\ fate = [n \in Notifications |-> "open"]
  BY Zenon DEF Init
<1>2. \A n \in Notifications : ~Passed(n) /\ fate[n] # "duplicate"
  BY <1>1 DEF Passed
<1> QED
  BY <1>1, <1>2 DEF CacheInv

LEMMA NextCache == Base /\ CacheInv /\ [Next]_vars => CacheInv'
<1> SUFFICES ASSUME Base, CacheInv, [Next]_vars PROVE CacheInv'
  OBVIOUS
<1>1. CASE \A w \in Workers : ~CheckOrAdd(w)
  <2>1. /\ \A n \in Notifications : Passed(n)' <=> Passed(n)
        /\ \A n \in Notifications : fate'[n] = "duplicate" => fate[n] = "duplicate"
    BY <1>1, CalmNext DEF Calm
  <2>2. /\ ids' \subseteq ids /\ dataIds' \subseteq dataIds /\ forgotten \subseteq forgotten'
        /\ dataIds \subseteq dataIds' \cup forgotten'
    BY <1>1, CacheSteps
  <2> QED
    BY <2>1, <2>2 DEF CacheInv, SameId, SameData
<1>2. ASSUME NEW w \in Workers, CheckOrAdd(w) PROVE CacheInv'
  <2>0. PICK x : x = work[w].n
    OBVIOUS
  <2>1. CASE Known(x)
    <3>1. /\ x \in Notifications
          /\ \A n \in Notifications : Passed(n)' <=> Passed(n)
          /\ \A n \in Notifications : fate'[n] = "duplicate" => n = x \/ fate[n] = "duplicate"
          /\ UNCHANGED cacheVars
      BY <1>2, <2>0, <2>1, TurnedAway
    <3>2. \E m \in Notifications : Passed(m) /\ (SameId(m, x) \/ SameData(m, x))
      BY <2>1 DEF Known, CacheInv, SameId, SameData
    <3> QED
      BY <3>1, <3>2 DEF CacheInv, SameId, SameData, cacheVars
  <2>2. CASE ~Known(x)
    <3>1. /\ x \in Notifications /\ ~Passed(x)
          /\ \A n \in Notifications : Passed(n)' <=> Passed(n) \/ n = x
          /\ \A n \in Notifications : fate'[n] = fate[n]
      BY <1>2, <2>0, <2>2, LetThrough
    <3>2. /\ ids' = ids \cup ({NotificationId[x]} \ {NoId})
          /\ dataIds' = dataIds \cup ({DataId[x]} \ {NoId})
          /\ forgotten' = forgotten /\ DataId[x] \notin dataIds
      BY <1>2, <2>0, <2>2 DEF CheckOrAdd, Known
    <3>3. /\ \A y \in ids' : y # NoId /\ \E m \in Notifications : Passed(m)' /\ NotificationId[m] = y
          /\ \A y \in dataIds' : y # NoId /\ \E m \in Notifications : Passed(m)' /\ DataId[m] = y
      BY <3>1, <3>2 DEF CacheInv
    <3>4. \A m \in Notifications :
             Passed(m)' /\ DataId[m] # NoId => DataId[m] \in dataIds' \cup forgotten'
      BY <3>1, <3>2 DEF CacheInv
    <3>5. \A m, n \in Notifications :
             m # n /\ Passed(m)' /\ Passed(n)' /\ SameData(m, n) => DataId[n] \in forgotten'
      BY <3>1, <3>2 DEF CacheInv, SameData
    <3>6. \A n \in Notifications : fate'[n] = "duplicate" =>
             \E m \in Notifications : Passed(m)' /\ (SameId(m, n) \/ SameData(m, n))
      BY <3>1 DEF CacheInv
    <3> QED
      BY <3>3, <3>4, <3>5, <3>6 DEF CacheInv, SameId, SameData
  <2> QED
    BY <2>1, <2>2
<1> QED
  BY <1>1, <1>2

LEMMA CacheInvariant == Spec => []CacheInv
  BY BaseInvariant, InitCache, NextCache, PTL DEF Spec

\* handleMessage checks and adds under one lock before it downloads: of all
\* the notifications of one data id, whichever workers and brokers they come
\* by, only one is delivered while the cache remembers that id.
THEOREM DeliveredOnce == Spec => []OncePerData
<1>1. Base /\ CacheInv => OncePerData
  <2> SUFFICES ASSUME Base, CacheInv, NEW m \in Notifications, NEW n \in Notifications, m # n,
                      fate[m] = "delivered", fate[n] = "delivered", DataId[m] # NoId,
                      DataId[m] = DataId[n]
               PROVE  DataId[m] \in forgotten
    BY DEF OncePerData
  <2>1. ASSUME NEW x \in Notifications, fate[x] = "delivered" PROVE Passed(x)
    <3>1. x \in arrived /\ ~Open(x)
      BY <2>1 DEF Base, Open
    <3>2. ~InQueue(x) /\ ~AtWorker(x)
      BY <3>1 DEF Base, Placed, Covered
    <3> QED
      BY <2>1, <3>1, <3>2 DEF Passed, AtWorker
  <2>2. Passed(m) /\ Passed(n)
    BY <2>1
  <2> QED
    BY <2>2 DEF CacheInv, SameData
<1> QED
  BY <1>1, BaseInvariant, CacheInvariant, PTL

\* What is counted as a duplicate shares an id with another notification that
\* was worked on: the ids enter the cache in CheckOrAdd and not on arrival, so
\* that one dropped at a full queue or unreadable takes no other with it.
THEOREM DuplicatesJustified == Spec => []DuplicateOfWorked
<1>1. Base /\ CacheInv => DuplicateOfWorked
  BY DEF CacheInv, DuplicateOfWorked, Passed, SameId, SameData
<1> QED
  BY <1>1, BaseInvariant, CacheInvariant, PTL

-----------------------------------------------------------------------------
\* The stop: what was due then stays behind the workers, and the goroutine's
\* last round empties one batch of it after the other.

\* A step of anybody but the flush goroutine and the stop itself.
LEMMA OthersFlush ==
    ASSUME Base, FlushInv, UNCHANGED <<flusher, stopVars>>, arrived \subseteq arrived',
           \A n \in Notifications : InQueue(n)' => InQueue(n) \/ n \notin arrived,
           \A n \in Notifications : AtWorker(n)' => AtWorker(n) \/ InQueue(n),
           \A n \in Notifications, k \in Batched : n \in batch'[k] => n \in batch[k] \/ AtWorker(n)
    PROVE  FlushInv'
<1>1. due \subseteq Notifications
  BY DEF FlushInv, Base, Types
<1>2. flusher' = flusher /\ stop' = stop /\ due' = due
  BY DEF stopVars
<1>3. \A n \in due : ~InQueue(n)' /\ ~AtWorker(n)'
  BY <1>1 DEF FlushInv
<1>4. \A k \in Batched : due \cap batch'[k] \subseteq batch[k]
  BY <1>1 DEF FlushInv
<1>5. "warnings" \in Batched /\ "trajectory" \in Batched
  BY DEF Batched
<1> QED
  BY <1>2, <1>3, <1>4, <1>5 DEF FlushInv

LEMMA WorkerBatches ==
    ASSUME Base, NEW w \in Workers,
           Take(w) \/ CheckOrAdd(w) \/ Moves(w) \/ Fails(w) \/ Quits(w) \/ Enqueues(w)
             \/ WorkerFlush(w) \/ WorkerSent(w)
    PROVE  /\ UNCHANGED <<flusher, stopVars, arrived>>
           /\ \A n \in Notifications, k \in Batched : n \in batch'[k] => n \in batch[k] \/ AtWorker(n)
<1>1. UNCHANGED <<flusher, stopVars, arrived>>
  BY DEF Take, CheckOrAdd, Moves, Fails, CountFailed, Quits, Settled, Enqueues, EnqueueFeature,
         WorkerFlush, WorkerSent, Where
<1>2. CASE Enqueues(w)
  <2>1. batch' = [batch EXCEPT ![work[w].kind] = @ \cup {work[w].n}]
    BY <1>2 DEF Enqueues, EnqueueFeature
  <2> QED
    BY <1>1, <2>1 DEF AtWorker, Base, Types
<1>3. CASE WorkerFlush(w)
  <2>1. batch' = [batch EXCEPT ![work[w].kind] = {}]
    BY <1>3 DEF WorkerFlush
  <2> QED
    BY <1>1, <2>1 DEF Base, Types
<1>4. CASE ~Enqueues(w) /\ ~WorkerFlush(w)
  <2>1. batch' = batch
    BY <1>4 DEF Take, CheckOrAdd, Moves, Fails, CountFailed, Quits, Settled, WorkerSent, Where
  <2> QED
    BY <1>1, <2>1
<1> QED
  BY <1>2, <1>3, <1>4

LEMMA CheckPlaces ==
    ASSUME Base, NEW w \in Workers, CheckOrAdd(w)
    PROVE  UNCHANGED inbound /\ \A n \in Notifications : AtWorker(n)' => AtWorker(n)
<1>1. UNCHANGED inbound
  BY DEF CheckOrAdd
<1>2. work' = [work EXCEPT ![w] = Idle]
      \/ work' = [work EXCEPT ![w].pc = IF work[w].n \in Inline THEN "decode" ELSE "slot"]
  BY DEF CheckOrAdd
<1>3. DOMAIN work = Workers /\ NoId \notin Notifications /\ DOMAIN work[w] = WorkFields
  BY WorkerHolds DEF WorkerOK
<1>4. \A v \in Workers : v # w => work'[v] = work[v]
  BY <1>2, <1>3
<1>5. work'[w].n = work[w].n \/ work'[w].n = NoId
  BY <1>2, <1>3, IdleOK DEF WorkFields
<1> QED
  BY <1>1, <1>3, <1>4, <1>5 DEF AtWorker

LEMMA InitFlush == Init => FlushInv
<1> SUFFICES ASSUME Init PROVE FlushInv
  OBVIOUS
<1>1. due = {} /\ flusher = FlusherDone(FALSE)
  BY Zenon DEF Init
<1>2. ~flusher.last /\ flusher.pc \in {"idle", "gone"} /\ flusher.pc # "gone"
  BY <1>1, FlusherDoneOK
<1> QED
  BY <1>1, <1>2 DEF FlushInv

LEMMA StopFlush == ASSUME Base, FlushInv, Stop PROVE FlushInv'
<1>1. /\ ~stop /\ stop' /\ UNCHANGED <<inbound, work, batch, flusher, arrived>>
      /\ due' = {n \in arrived : \/ \E k \in Batched : n \in batch[k]
                                  \/ \E w \in Workers : n \in work[w].sending
                                  \/ n \in flusher.sending}
  BY DEF Stop
<1>2. \A n \in due' : ~InQueue(n) /\ ~AtWorker(n) /\ n \in arrived
  <2> SUFFICES ASSUME NEW n \in due' PROVE ~InQueue(n) /\ ~AtWorker(n) /\ n \in arrived
    OBVIOUS
  <2>1. n \in Notifications /\ n \in arrived
    BY <1>1 DEF Base, Types
  <2>2. InBatch(n) \/ Sending(n) \/ Flushing(n)
    BY <1>1 DEF InBatch, Sending, Flushing
  <2> QED
    BY <2>1, <2>2 DEF Base, Placed, Exclusive
<1>3. \A n \in due' : ~InQueue(n)' /\ ~AtWorker(n)'
  BY <1>1, <1>2 DEF InQueue, AtWorker
<1>4. ~flusher.last /\ flusher.pc # "gone"
  BY <1>1 DEF FlushInv
<1> QED
  BY <1>1, <1>2, <1>3, <1>4 DEF FlushInv

\* The goroutine's steps change nothing but the batches and itself.
LEMMA RoundFlush ==
    ASSUME Base, FlushInv, UNCHANGED <<inbound, work, arrived, stopVars>>,
           flusher'.last \/ flusher'.pc = "gone" => stop,
           flusher'.pc = "next" => flusher'.kind = "warnings",
           flusher'.pc = "send" => flusher'.kind \in Batched,
           flusher'.last => due \cap batch'["warnings"] = {},
           flusher'.last /\ flusher'.kind = "trajectory" => due \cap batch'["trajectory"] = {},
           flusher'.pc = "gone" => \A k \in Batched : due \cap batch'[k] = {}
    PROVE  FlushInv'
<1>1. stop' = stop /\ due' = due
  BY DEF stopVars
<1>2. \A n \in due : ~InQueue(n)' /\ ~AtWorker(n)'
  BY DEF FlushInv, InQueue, AtWorker
<1> QED
  BY <1>1, <1>2 DEF FlushInv

LEMMA FromFlush ==
    ASSUME Base, FlushInv, NEW kinds \in SUBSET Batched, NEW last, FlushFrom(kinds, last),
           last => stop, "trajectory" \in kinds,
           "warnings" \notin kinds /\ last => due \cap batch["warnings"] = {}
    PROVE  FlushInv'
<1>1. UNCHANGED <<inbound, work, arrived, stopVars>>
  BY DEF FlushFrom
<1>2. Batched = {"warnings", "trajectory"} /\ DOMAIN batch = Batched
  BY DEF Batched, Base, Types
<1>3. CASE (\A k \in kinds : batch[k] = {}) /\ flusher' = FlusherDone(last) /\ batch' = batch
  <2>a. flusher'.last = FALSE
    BY <1>3, Zenon DEF FlusherDone
  <2>b. flusher'.pc = IF last THEN "gone" ELSE "idle"
    BY <1>3 DEF FlusherDone
  <2>1. ~flusher'.last /\ (flusher'.pc = "idle" \/ (flusher'.pc = "gone" /\ last))
    BY <2>a, <2>b
  <2>2. last => \A k \in Batched : due \cap batch'[k] = {}
    BY <1>2, <1>3
  <2> QED
    BY <1>1, <2>1, <2>2, RoundFlush
<1>4. ASSUME NEW k \in kinds, k = "trajectory" /\ "warnings" \in kinds => batch["warnings"] = {},
             flusher' = [pc |-> "send", kind |-> k, last |-> last, sending |-> batch[k]],
             batch' = [batch EXCEPT ![k] = {}]
      PROVE  FlushInv'
  <2>1. flusher'.pc = "send" /\ flusher'.kind = k /\ k \in Batched
    BY <1>4
  <2>2. flusher'.last = last
    BY <1>4, Zenon
  <2>3. \A l \in Batched : batch'[l] = IF l = k THEN {} ELSE batch[l]
    BY <1>2, <1>4
  <2>4. last => due \cap batch'["warnings"] = {}
    BY <1>2, <1>4, <2>1, <2>3
  <2>5. k = "trajectory" => batch'["trajectory"] = {}
    BY <2>1, <2>3
  <2>6. /\ flusher'.last \/ flusher'.pc = "gone" => stop
        /\ flusher'.last => due \cap batch'["warnings"] = {}
        /\ flusher'.last /\ flusher'.kind = "trajectory" => due \cap batch'["trajectory"] = {}
    BY <2>1, <2>2, <2>4, <2>5
  <2> QED
    BY <1>1, <2>1, <2>6, RoundFlush
<1> QED
  <2>1. \/ /\ \A k \in kinds : batch[k] = {}
           /\ flusher' = FlusherDone(last) /\ batch' = batch
        \/ \E k \in kinds :
              /\ k = "trajectory" /\ "warnings" \in kinds => batch["warnings"] = {}
              /\ flusher' = [pc |-> "send", kind |-> k, last |-> last, sending |-> batch[k]]
              /\ batch' = [batch EXCEPT ![k] = {}]
    BY FlushFromFacts, Zenon DEF Base
  <2> QED
    BY <1>3, <1>4, <2>1, Zenon

LEMMA SentFlush == ASSUME Base, FlushInv, FlusherSent PROVE FlushInv'
<1>1. UNCHANGED <<inbound, work, arrived, batch, stopVars>> /\ flusher.pc = "send"
  BY DEF FlusherSent
<1>2. CASE flusher.kind = "warnings"
  <2>1. flusher' = [flusher EXCEPT !.pc = "next", !.sending = {}]
    BY <1>2, Zenon DEF FlusherSent
  <2>2. flusher'.pc = "next" /\ flusher'.kind = "warnings" /\ flusher'.last = flusher.last
    BY <1>2, <2>1 DEF Base, Types, FlusherOK
  <2> QED
    BY <1>1, <2>2, RoundFlush DEF FlushInv
<1>3. CASE flusher.kind # "warnings"
  <2>1. flusher' = FlusherDone(flusher.last) /\ flusher.kind = "trajectory"
    BY <1>1, <1>3, Zenon DEF FlusherSent, FlushInv, Batched
  <2>a. flusher'.last = FALSE
    BY <2>1, Zenon DEF FlusherDone
  <2>b. flusher'.pc = IF flusher.last THEN "gone" ELSE "idle"
    BY <2>1 DEF FlusherDone
  <2>2. ~flusher'.last /\ (flusher'.pc = "idle" \/ (flusher'.pc = "gone" /\ flusher.last))
    BY <2>a, <2>b
  <2>3. flusher.last => stop /\ \A k \in Batched : due \cap batch[k] = {}
    BY <2>1 DEF FlushInv, Batched
  <2> QED
    BY <1>1, <2>2, <2>3, RoundFlush
<1> QED
  BY <1>2, <1>3

LEMMA NextFlush == Base /\ FlushInv /\ [Next]_vars => FlushInv'
<1> SUFFICES ASSUME Base, FlushInv, [Next]_vars PROVE FlushInv'
  OBVIOUS
<1>1. CASE Link \/ Report \/ CacheExpires \/ Return \/ UNCHANGED vars
  <2>1. UNCHANGED <<inbound, batch, flusher, arrived, work>>
    BY <1>1, Bystanders DEF Where
  <2>2. UNCHANGED stopVars
    BY <1>1 DEF Link, Connect, ConnectFails, ConnectionLost, BackoffOver, BrokerStops, Report,
                CacheExpires, Return, vars
  <2>3. \A n \in Notifications : (InQueue(n)' => InQueue(n)) /\ (AtWorker(n)' => AtWorker(n))
    BY <2>1 DEF InQueue, AtWorker
  <2> QED
    BY <2>1, <2>2, <2>3, OthersFlush
<1>2. ASSUME NEW x \in Notifications, Receive(x) PROVE FlushInv'
  <2>1. /\ UNCHANGED <<work, batch, flusher, stopVars>> /\ x \notin arrived /\ arrived \subseteq arrived'
        /\ inbound' = inbound \/ inbound' = Append(inbound, x)
    BY <1>2 DEF Receive
  <2>2. ASSUME NEW n \in Notifications, InQueue(n)' PROVE InQueue(n) \/ n \notin arrived
    <3>1. CASE inbound' = inbound
      BY <2>2, <3>1 DEF InQueue
    <3>2. CASE inbound' = Append(inbound, x)
      <4>1. /\ DOMAIN inbound' = 1..(Len(inbound) + 1) /\ DOMAIN inbound = 1..Len(inbound)
            /\ Len(inbound) \in Nat
            /\ \A i \in DOMAIN inbound : inbound'[i] = inbound[i]
            /\ inbound'[Len(inbound) + 1] = x
        BY <3>2 DEF Base, Types
      <4>2. PICK i \in DOMAIN inbound' : inbound'[i] = n
        BY <2>2 DEF InQueue
      <4> QED
        BY <2>1, <4>1, <4>2 DEF InQueue
    <3> QED
      BY <2>1, <3>1, <3>2
  <2>3. \A n \in Notifications : AtWorker(n)' => AtWorker(n)
    BY <2>1 DEF AtWorker
  <2> QED
    BY <2>1, <2>2, <2>3, OthersFlush
<1>3. ASSUME NEW w \in Workers, WorkerStep(w) \/ Busy(w) PROVE FlushInv'
  <2>1. /\ UNCHANGED <<flusher, stopVars, arrived>>
        /\ \A n \in Notifications, k \in Batched : n \in batch'[k] => n \in batch[k] \/ AtWorker(n)
    BY <1>3, WorkerShapes, WorkerBatches
  <2>2. /\ \A n \in Notifications : AtWorker(n)' => AtWorker(n) \/ InQueue(n)
        /\ \A n \in Notifications : InQueue(n)' => InQueue(n)
    <3>1. CASE Take(w)
      BY <3>1, TakeCalm
    <3>2. CASE ~Take(w)
      <4>1. UNCHANGED inbound /\ \A n \in Notifications : AtWorker(n)' => AtWorker(n)
        BY <1>3, <3>2, WorkerShapes, CheckPlaces, WorkerCalm
      <4> QED
        BY <4>1 DEF InQueue
    <3> QED
      BY <3>1, <3>2
  <2> QED
    BY <2>1, <2>2, OthersFlush
<1>4. CASE Flusher
  <2>1. CASE FlusherSent
    BY <2>1, SentFlush
  <2>2. Batched \in SUBSET Batched /\ Batched \ {"warnings"} \in SUBSET Batched
    OBVIOUS
  <2>3. "trajectory" \in Batched /\ "warnings" \in Batched /\ "trajectory" # "warnings"
    BY DEF Batched
  <2>4. ASSUME NEW last \in {FALSE, stop}, FlushFrom(Batched, last) PROVE FlushInv'
    <3>1. last => stop
      BY <2>4
    <3> QED
      BY <2>2, <2>3, <2>4, <3>1, FromFlush, Zenon
  <2>5. CASE flusher.pc = "next" /\ FlushFrom(Batched \ {"warnings"}, flusher.last)
    <3>1. /\ flusher.last => stop
          /\ flusher.last => due \cap batch["warnings"] = {}
      BY DEF FlushInv
    <3>2. "trajectory" \in Batched \ {"warnings"}
      BY <2>3
    <3> QED
      BY <2>2, <2>5, <3>1, <3>2, FromFlush, Zenon
  <2> QED
    BY <1>4, <2>1, <2>4, <2>5, FlusherShapes, Zenon
<1>5. CASE Stop
  BY <1>5, StopFlush
<1> QED
  BY <1>1, <1>2, <1>3, <1>4, <1>5 DEF Next

\* The flush goroutine runs its last round after the context is done, outside
\* the cancelled context and batch after batch: when Execute returns, all that
\* was in a batch or in a request at the stop has been answered for.
THEOREM LastFlushComplete == Spec => []LastFlushCovers
<1>1. Base /\ FlushInv => LastFlushCovers
  <2> SUFFICES ASSUME Base, FlushInv, Returned, NEW n \in due PROVE fate[n] # "open"
    BY DEF LastFlushCovers
  <2>1. n \in Notifications /\ n \in arrived
    BY DEF Base, Types, FlushInv
  <2>2. ~InQueue(n) /\ ~AtWorker(n)
    BY DEF FlushInv
  <2>3. ~Sending(n)
    <3>1. \A w \in Workers : work[w].sending = {}
      BY WorkerHolds DEF Returned, WorkerOK
    <3> QED
      BY <3>1 DEF Sending
  <2>4. ~Flushing(n) /\ ~InBatch(n)
    BY DEF Flushing, InBatch, Returned, FlushInv, Base, Types, FlusherOK
  <2>5. ~Open(n)
    BY <2>1, <2>2, <2>3, <2>4 DEF Base, Placed, Covered
  <2> QED
    BY <2>1, <2>5 DEF Open
<1>2. Spec => []FlushInv
  BY BaseInvariant, InitFlush, NextFlush, PTL DEF Spec
<1> QED
  BY <1>1, <1>2, BaseInvariant, PTL

-----------------------------------------------------------------------------
\* The counters.

Number(what) == Cardinality({n \in Notifications : fate[n] = what})
Total(c)     == reported[c] + health[c]
Counted      == {"duplicate", "failed", "unreadable", "droppedInbound"}
Windows      == health \in [Counters -> Nat] /\ reported \in [Counters -> Nat]

LEMMA Sums ==
    CountInv <=> /\ IsFiniteSet(arrived) /\ Windows
                 /\ Total("duplicates") = Number("duplicate")
                 /\ Total("failed") = Number("failed") + Number("unreadable")
                 /\ Total("received") + Len(inbound) + Number("droppedInbound") = Cardinality(arrived)
  BY DEF CountInv, CountersAddUp, Total, Number, Windows

LEMMA NumberNat ==
    ASSUME Base, IsFiniteSet(arrived), NEW what \in Counted
    PROVE  IsFiniteSet({n \in Notifications : fate[n] = what}) /\ Number(what) \in Nat
<1>1. {n \in Notifications : fate[n] = what} \subseteq arrived
  BY DEF Base, Counted
<1>2. IsFiniteSet({n \in Notifications : fate[n] = what})
  BY <1>1, FS_Subset
<1> QED
  BY <1>2, FS_CardinalityType DEF Number

\* No fate that is counted comes or goes.
LEMMA NumberSame ==
    ASSUME \A n \in Notifications, what \in Counted : fate'[n] = what <=> fate[n] = what
    PROVE  \A what \in Counted : Number(what)' = Number(what)
<1> SUFFICES ASSUME NEW what \in Counted PROVE Number(what)' = Number(what)
  OBVIOUS
<1>1. {n \in Notifications : fate'[n] = what} = {n \in Notifications : fate[n] = what}
  OBVIOUS
<1> QED
  BY <1>1 DEF Number

\* One fate is settled.
LEMMA NumberOne ==
    ASSUME Base, IsFiniteSet(arrived), NEW x \in Notifications, fate[x] = "open", NEW one,
           one # "open", fate' = [fate EXCEPT ![x] = one]
    PROVE  \A what \in Counted :
              Number(what)' = IF what = one THEN Number(what) + 1 ELSE Number(what)
<1> SUFFICES ASSUME NEW what \in Counted
             PROVE  Number(what)' = IF what = one THEN Number(what) + 1 ELSE Number(what)
  OBVIOUS
<1>1. \A n \in Notifications : fate'[n] = IF n = x THEN one ELSE fate[n]
  BY DEF Base, Types
<1>2. what # "open"
  BY DEF Counted
<1>3. CASE what = one
  <2>1. {n \in Notifications : fate'[n] = what} = {n \in Notifications : fate[n] = what} \cup {x}
    BY <1>1, <1>3
  <2>2. x \notin {n \in Notifications : fate[n] = what}
    BY <1>2
  <2> QED
    BY <1>3, <2>1, <2>2, NumberNat, FS_AddElement DEF Number
<1>4. CASE what # one
  <2>1. {n \in Notifications : fate'[n] = what} = {n \in Notifications : fate[n] = what}
    BY <1>1, <1>2, <1>4
  <2> QED
    BY <1>4, <2>1 DEF Number
<1> QED
  BY <1>3, <1>4

\* A counter of the current window goes up by one.
LEMMA CountOne ==
    ASSUME Windows, NEW c \in Counters, health' = [health EXCEPT ![c] = @ + 1], UNCHANGED reportVars
    PROVE  /\ Windows'
           /\ \A d \in Counters : Total(d) \in Nat
           /\ \A d \in Counters : Total(d)' = IF d = c THEN Total(d) + 1 ELSE Total(d)
<1>1. reported' = reported
  BY DEF reportVars
<1> QED
  BY <1>1 DEF Windows, Total

LEMMA NothingCounted ==
    ASSUME Base, CountInv, UNCHANGED <<inbound, arrived, health, reportVars>>,
           \A n \in Notifications, what \in Counted : fate'[n] = what <=> fate[n] = what
    PROVE  CountInv'
<1>1. \A what \in Counted : Number(what)' = Number(what)
  BY NumberSame
<1>2. \A c \in Counters : Total(c)' = Total(c)
  BY DEF Total, reportVars
<1>3. Windows'
  BY Sums DEF Windows, reportVars
<1>4. /\ Total("duplicates")' = Number("duplicate")'
      /\ Total("failed")' = Number("failed")' + Number("unreadable")'
      /\ (Total("received") + Len(inbound) + Number("droppedInbound"))' = Cardinality(arrived)'
  BY <1>1, <1>2, Sums DEF Counted, Counters
<1>5. IsFiniteSet(arrived)'
  BY Sums
<1> QED
  BY <1>3, <1>4, <1>5 DEF CountInv, CountersAddUp, Total, Number, Windows

LEMMA ReceiveCount == ASSUME Base, CountInv, NEW x \in Notifications, Receive(x) PROVE CountInv'
<1>1. /\ x \notin arrived /\ arrived' = arrived \cup {x} /\ UNCHANGED <<health, reportVars>>
      /\ inbound \in Seq(Notifications)
  BY DEF Receive, Base, Types
<1>2. /\ IsFiniteSet(arrived') /\ Cardinality(arrived') = Cardinality(arrived) + 1
      /\ Cardinality(arrived) \in Nat /\ IsFiniteSet(arrived)
  BY <1>1, Sums, FS_AddElement, FS_CardinalityType
<1>3. \A c \in Counters : Total(c)' = Total(c) /\ Total(c) \in Nat
  BY <1>1, Sums DEF Total, reportVars, Windows
<1>4. Windows'
  BY <1>1, Sums DEF Windows, reportVars
<1>5. \A what \in Counted : Number(what) \in Nat
  BY <1>2, NumberNat
<1>6. /\ Total("duplicates")' = Number("duplicate")'
      /\ Total("failed")' = Number("failed")' + Number("unreadable")'
      /\ Total("received")' + Len(inbound)' + Number("droppedInbound")' = Cardinality(arrived')
  <2>1. CASE Len(inbound) < InboundCap
    <3>1. inbound' = Append(inbound, x) /\ fate' = fate
      BY <2>1 DEF Receive
    <3>2. Len(inbound') = Len(inbound) + 1 /\ Len(inbound) \in Nat
      BY <1>1, <3>1
    <3>3. \A what \in Counted : Number(what)' = Number(what)
      BY <3>1, NumberSame
    <3> QED
      BY <1>2, <1>3, <1>5, <3>2, <3>3, Sums DEF Counted, Counters
  <2>2. CASE ~(Len(inbound) < InboundCap)
    <3>1. inbound' = inbound /\ fate' = [fate EXCEPT ![x] = "droppedInbound"]
      BY <2>2 DEF Receive
    <3>2. fate[x] = "open" /\ Len(inbound) \in Nat
      BY <1>1 DEF Base
    <3>3. \A what \in Counted :
             Number(what)' = IF what = "droppedInbound" THEN Number(what) + 1 ELSE Number(what)
      BY <1>2, <3>1, <3>2, NumberOne
    <3>4. /\ Number("duplicate")' = Number("duplicate")
          /\ Number("failed")' = Number("failed") /\ Number("unreadable")' = Number("unreadable")
          /\ Number("droppedInbound")' = Number("droppedInbound") + 1
      BY <3>3 DEF Counted
    <3> QED
      BY <1>2, <1>3, <1>5, <3>1, <3>2, <3>4, Sums DEF Counted, Counters
  <2> QED
    BY <2>1, <2>2
<1> QED
  BY <1>2, <1>4, <1>6 DEF CountInv, CountersAddUp, Total, Number, Windows

LEMMA TakeCount == ASSUME Base, CountInv, NEW w \in Workers, Take(w) PROVE CountInv'
<1>1. /\ inbound # <<>> /\ inbound' = Tail(inbound) /\ UNCHANGED <<arrived, fate, reportVars>>
      /\ inbound \in Seq(Notifications) /\ health' = [health EXCEPT !["received"] = @ + 1]
  BY DEF Take, Base, Types
<1>2. Len(inbound) \in Nat \ {0} /\ Len(inbound') = Len(inbound) - 1
  BY <1>1
<1>3. /\ Windows'
      /\ \A d \in Counters : Total(d) \in Nat
      /\ \A d \in Counters : Total(d)' = IF d = "received" THEN Total(d) + 1 ELSE Total(d)
  BY <1>1, Sums, CountOne DEF Counters
<1>4. \A what \in Counted : Number(what)' = Number(what)
  BY <1>1, NumberSame
<1>5. \A what \in Counted : Number(what) \in Nat
  BY Sums, NumberNat
<1>6. /\ Total("duplicates")' = Total("duplicates") /\ Total("failed")' = Total("failed")
      /\ Total("received")' = Total("received") + 1 /\ Total("received") \in Nat
  BY <1>3 DEF Counters
<1>7. /\ Total("duplicates")' = Number("duplicate")'
      /\ Total("failed")' = Number("failed")' + Number("unreadable")'
      /\ Total("received")' + Len(inbound)' + Number("droppedInbound")' = Cardinality(arrived')
  BY <1>1, <1>2, <1>4, <1>5, <1>6, Sums DEF Counted
<1>8. IsFiniteSet(arrived')
  BY <1>1, Sums
<1> QED
  BY <1>3, <1>7, <1>8 DEF CountInv, CountersAddUp, Total, Number, Windows

\* A worker settles its notification and counts it.
LEMMA SettleCount ==
    ASSUME Base, CountInv, UNCHANGED <<inbound, arrived, reportVars>>, NEW x \in Notifications,
           fate[x] = "open", NEW c, NEW what,
           \/ c = "duplicates" /\ what = "duplicate"
           \/ c = "failed" /\ what \in {"failed", "unreadable"},
           health' = [health EXCEPT ![c] = @ + 1], fate' = [fate EXCEPT ![x] = what]
    PROVE  CountInv'
<1>1. c \in Counters /\ what # "open"
  BY DEF Counters
<1>2. /\ Windows'
      /\ \A d \in Counters : Total(d) \in Nat
      /\ \A d \in Counters : Total(d)' = IF d = c THEN Total(d) + 1 ELSE Total(d)
  BY <1>1, Sums, CountOne
<1>3. \A y \in Counted : Number(y)' = IF y = what THEN Number(y) + 1 ELSE Number(y)
  BY <1>1, Sums, NumberOne
<1>4. \A y \in Counted : Number(y) \in Nat
  BY Sums, NumberNat
<1>5. /\ "duplicate" \in Counted /\ "failed" \in Counted /\ "unreadable" \in Counted
      /\ "droppedInbound" \in Counted
      /\ "duplicates" \in Counters /\ "failed" \in Counters /\ "received" \in Counters
  BY DEF Counted, Counters
<1>6. Total("duplicates")' = Number("duplicate")'
  BY <1>2, <1>3, <1>4, <1>5, Sums
<1>7. Total("failed")' = Number("failed")' + Number("unreadable")'
  BY <1>2, <1>3, <1>4, <1>5, Sums
<1>8. Total("received")' + Len(inbound)' + Number("droppedInbound")' = Cardinality(arrived')
  BY <1>2, <1>3, <1>5, Sums
<1>9. IsFiniteSet(arrived')
  BY Sums
<1> QED
  BY <1>2, <1>6, <1>7, <1>8, <1>9 DEF CountInv, CountersAddUp, Total, Number, Windows

LEMMA ReportCount == ASSUME Base, CountInv, Report PROVE CountInv'
<1>1. /\ UNCHANGED <<inbound, arrived, fate>> /\ health' = Zero
      /\ reported' = [c \in DOMAIN reported |-> reported[c] + health[c]]
  BY DEF Report
<1>2. Windows
  BY Sums
<1>3. Windows' /\ \A c \in Counters : Total(c)' = Total(c)
  BY <1>1, <1>2 DEF Windows, Total, Zero, Counters
<1>4. \A what \in Counted : Number(what)' = Number(what)
  BY <1>1, NumberSame
<1>5. /\ Total("duplicates")' = Number("duplicate")'
      /\ Total("failed")' = Number("failed")' + Number("unreadable")'
      /\ Total("received")' + Len(inbound)' + Number("droppedInbound")' = Cardinality(arrived')
      /\ IsFiniteSet(arrived')
  BY <1>1, <1>3, <1>4, Sums DEF Counted, Counters
<1> QED
  BY <1>3, <1>5 DEF CountInv, CountersAddUp, Total, Number, Windows

\* An answered batch is counted nowhere.
LEMMA SentCount ==
    ASSUME Base, CountInv, UNCHANGED <<inbound, arrived, health, reportVars>>, NEW set,
           NEW what \in {"delivered", "refused"}, Settle(set, what),
           \A n \in set : Sending(n) \/ Flushing(n)
    PROVE  CountInv'
<1>1. \A n \in Notifications : fate'[n] = IF n \in set THEN what ELSE fate[n]
  BY DEF Settle
<1>2. \A n \in Notifications : n \in set => fate[n] = "open"
  BY DEF Base, Placed, Covered, Open
<1>3. \A n \in Notifications, y \in Counted : fate'[n] = y <=> fate[n] = y
  BY <1>1, <1>2 DEF Counted
<1> QED
  BY <1>3, NothingCounted

LEMMA InitCount == Init => CountInv
<1> SUFFICES ASSUME Init PROVE CountInv
  OBVIOUS
<1>1. /\ inbound = <<>> /\ arrived = {} /\ fate = [n \in Notifications |-> "open"]
      /\ health = Zero /\ reported = Zero
  BY Zenon DEF Init
<1>2. \A what \in Counted : Number(what) = 0
  <2> SUFFICES ASSUME NEW what \in Counted PROVE Number(what) = 0
    OBVIOUS
  <2>1. {n \in Notifications : fate[n] = what} = {}
    BY <1>1 DEF Counted
  <2> QED
    BY <2>1, FS_EmptySet DEF Number
<1>3. Windows /\ \A c \in Counters : Total(c) = 0
  BY <1>1 DEF Windows, Total, Zero, Counters
<1>4. IsFiniteSet(arrived) /\ Cardinality(arrived) = 0 /\ Len(inbound) = 0
  BY <1>1, FS_EmptySet
<1> QED
  BY <1>2, <1>3, <1>4, Sums DEF Counted, Counters

LEMMA NextCount == Base /\ CountInv /\ [Next]_vars => CountInv'
<1> SUFFICES ASSUME Base, CountInv, [Next]_vars PROVE CountInv'
  OBVIOUS
<1>1. ASSUME UNCHANGED <<inbound, arrived, fate, health, reportVars>> PROVE CountInv'
  BY <1>1, NothingCounted
<1>2. CASE Link \/ CacheExpires \/ Stop \/ Return \/ UNCHANGED vars
  <2>1. UNCHANGED <<inbound, arrived, fate>>
    BY <1>2, Bystanders DEF Where
  <2>2. UNCHANGED <<health, reportVars>>
    BY <1>2 DEF Link, Connect, ConnectFails, ConnectionLost, BackoffOver, BrokerStops, Others,
                CacheExpires, Stop, Return, vars
  <2> QED
    BY <1>1, <2>1, <2>2
<1>3. CASE Report
  BY <1>3, ReportCount
<1>4. ASSUME NEW x \in Notifications, Receive(x) PROVE CountInv'
  BY <1>4, ReceiveCount
<1>5. ASSUME NEW w \in Workers, WorkerStep(w) \/ Busy(w) PROVE CountInv'
  <2>1. CASE Take(w)
    BY <2>1, TakeCount
  <2>2. CASE Moves(w) \/ Enqueues(w) \/ WorkerFlush(w)
    BY <1>1, <2>2 DEF Moves, Where, Enqueues, EnqueueFeature, WorkerFlush
  <2>3. ASSUME work[w].pc \in Holding
        PROVE  work[w].n \in Notifications /\ fate[work[w].n] = "open"
    <3>1. work[w].n \in Notifications /\ AtWorker(work[w].n)
      BY <2>3, WorkerHolds DEF AtWorker
    <3> QED
      BY <3>1 DEF Base, Placed, Covered, Open
  <2>4. CASE CheckOrAdd(w)
    <3>1. UNCHANGED <<inbound, arrived, reportVars>> /\ work[w].pc = "check"
      BY <2>4 DEF CheckOrAdd
    <3>2. CASE Known(work[w].n)
      <4>1. /\ health' = [health EXCEPT !["duplicates"] = @ + 1]
            /\ fate' = [fate EXCEPT ![work[w].n] = "duplicate"]
        BY <2>4, <3>2 DEF CheckOrAdd
      <4>2. work[w].n \in Notifications /\ fate[work[w].n] = "open"
        BY <2>3, <3>1 DEF Holding
      <4> QED
        BY <3>1, <4>1, <4>2, SettleCount
    <3>3. CASE ~Known(work[w].n)
      BY <1>1, <2>4, <3>1, <3>3 DEF CheckOrAdd
    <3> QED
      BY <3>2, <3>3
  <2>5. CASE Fails(w)
    <3>1. PICK what \in {"failed", "unreadable"} : work[w].pc \in Holding /\ CountFailed(w, what)
      BY <2>5 DEF Fails
    <3>2. /\ UNCHANGED <<inbound, arrived, reportVars>>
          /\ health' = [health EXCEPT !["failed"] = @ + 1]
          /\ fate' = [fate EXCEPT ![work[w].n] = what]
      BY <3>1 DEF CountFailed
    <3> QED
      BY <2>3, <3>1, <3>2, SettleCount
  <2>6. CASE Quits(w)
    <3>1. PICK what \in {"ignored", "queued", "abandoned"} : work[w].pc \in Holding /\ Settled(w, what)
      BY <2>6 DEF Quits
    <3>2. /\ UNCHANGED <<inbound, arrived, health, reportVars>>
          /\ fate' = [fate EXCEPT ![work[w].n] = what]
      BY <3>1 DEF Settled
    <3>3. \A n \in Notifications : fate'[n] = IF n = work[w].n THEN what ELSE fate[n]
      BY <3>2 DEF Base, Types
    <3>4. \A n \in Notifications, y \in Counted : fate'[n] = y <=> fate[n] = y
      BY <2>3, <3>1, <3>3 DEF Counted
    <3> QED
      BY <3>2, <3>4, NothingCounted
  <2>7. CASE WorkerSent(w)
    <3>1. PICK what \in {"delivered", "refused"} : Settle(work[w].sending, what)
      BY <2>7 DEF WorkerSent
    <3>2. UNCHANGED <<inbound, arrived, health, reportVars>>
      BY <2>7 DEF WorkerSent
    <3> QED
      BY <3>1, <3>2, SentCount DEF Sending
  <2> QED
    BY <1>5, <2>1, <2>2, <2>4, <2>5, <2>6, <2>7, WorkerShapes
<1>6. CASE Flusher
  <2>1. CASE FlusherSent
    <3>1. PICK what \in {"delivered", "refused"} : Settle(flusher.sending, what)
      BY <2>1, Zenon DEF FlusherSent
    <3>2. UNCHANGED <<inbound, arrived, health, reportVars>>
      BY <2>1 DEF FlusherSent
    <3> QED
      BY <3>1, <3>2, SentCount DEF Flushing
  <2>2. ASSUME NEW kinds, NEW last, FlushFrom(kinds, last) PROVE CountInv'
    BY <1>1, <2>2 DEF FlushFrom
  <2> QED
    BY <1>6, <2>1, <2>2, FlusherShapes, Zenon
<1> QED
  BY <1>2, <1>3, <1>4, <1>5, <1>6 DEF Next

\* reportHealth copies and resets the counters under the lock that the workers
\* count under: over all windows each duplicate and each failure is counted
\* once, and what arrived is counted, still queued or dropped at a full queue.
THEOREM CountersSound == Spec => []CountersAddUp
<1>1. CountInv => CountersAddUp
  BY DEF CountInv
<1>2. Spec => []CountInv
  BY BaseInvariant, InitCount, NextCount, PTL DEF Spec
<1> QED
  BY <1>1, <1>2, PTL

----------------------------------------------------------------------------
(* The observation queue.                                                  *)

\* The slices of the observation queue: one that lies within its array, and its k-th
\* element.
Slices       == [arr : Arrays, off : Nat, len : Nat]
Within(h, s) == s \in Slices /\ s.off + s.len <= Len(h[s.arr])
Elem(h, s, k) == h[s.arr][s.off + k]
Flying(p)    == pc[p] \in InFlight

\* A goroutine has a batch only while it sends it, and then it is a slice of the heap.
SlicesOK ==
    /\ heap \in [Arrays -> Seq(Nat)] /\ Within(heap, obsBatch)
    /\ DOMAIN pc = Procs /\ DOMAIN flushBatch = Procs /\ DOMAIN payload = Procs
    /\ \A p \in Procs : IF Flying(p) THEN Within(heap, flushBatch[p]) ELSE flushBatch[p] = Nil
    /\ enqueued \in Nat

\* One batch is in flight, it lies before the queue if they share an array, and the
\* envelope holds what the batch holds.
OneFlight ==
    /\ \A p, q \in Procs : Flying(p) /\ Flying(q) => p = q
    /\ \A p \in Procs : Flying(p) /\ flushBatch[p].arr = obsBatch.arr
                          => flushBatch[p].off + flushBatch[p].len <= obsBatch.off
    /\ \A p \in Procs : pc[p] = "send" => payload[p] = At(heap, flushBatch[p])

\* Arrival order within the queue, within the batch, and between them.
InOrder(h, s) == \A j, k \in 1..s.len : j < k => Elem(h, s, j) < Elem(h, s, k)
UpTo(h, s, n) == \A k \in 1..s.len : Elem(h, s, k) <= n
ArrivalOrder ==
    /\ InOrder(heap, obsBatch) /\ UpTo(heap, obsBatch, enqueued)
    /\ \A p \in Procs : Flying(p) =>
          /\ InOrder(heap, flushBatch[p]) /\ UpTo(heap, flushBatch[p], enqueued)
          /\ \A j \in 1..flushBatch[p].len, k \in 1..obsBatch.len :
               Elem(heap, flushBatch[p], j) < Elem(heap, obsBatch, k)

Among(o, h, s) == \E k \in 1..s.len : Elem(h, s, k) = o
Accounted ==
    \A o \in 1..enqueued :
        \/ Among(o, heap, obsBatch) \/ o \in delivered \/ o \in dropped
        \/ \E p \in Procs : Flying(p) /\ Among(o, heap, flushBatch[p])

Sound    == SlicesOK /\ OneFlight /\ ArrivalOrder /\ Accounted
QueueInv == overlap \in BOOLEAN /\ (~overlap => Sound)

\* An array is left for append to grow into.
LEMMA SpareArray ==
    ASSUME SlicesOK, OneFlight
    PROVE  Unused # {}
<1>1. Cardinality(Procs) \in Nat /\ Cardinality(Procs) # 0
  <2>1. IsFiniteSet(Procs) /\ Ticker \in Procs
    BY WorkersAssumption, FS_AddElement DEF Procs
  <2> QED BY <2>1, FS_CardinalityType, FS_EmptySet
<1>2. 1 \in Arrays /\ 2 \in Arrays /\ 3 \in Arrays
  BY <1>1 DEF Arrays
<1>3. PICK b : \A p \in Procs : flushBatch[p].arr = 0 \/ flushBatch[p].arr = b
  <2>1. CASE \E p \in Procs : Flying(p)
    <3>1. PICK p \in Procs : Flying(p)
      BY <2>1
    <3>2. \A q \in Procs : flushBatch[q].arr = 0 \/ flushBatch[q].arr = flushBatch[p].arr
      BY <3>1 DEF SlicesOK, OneFlight, Nil
    <3> QED BY <3>2
  <2>2. CASE ~\E p \in Procs : Flying(p)
    BY <2>2 DEF SlicesOK, Nil
  <2> QED BY <2>1, <2>2
<1>4. PICK a \in {1, 2, 3} : a # obsBatch.arr /\ a # b
  OBVIOUS
<1>5. \A p \in Procs : a # flushBatch[p].arr
  BY <1>3, <1>4
<1> QED BY <1>2, <1>4, <1>5 DEF Unused

\* A function on the first numbers is a sequence.
LEMMA IsSequence ==
    ASSUME NEW n \in Nat, NEW f \in [1..n -> Nat]
    PROVE  f \in Seq(Nat) /\ Len(f) = n
<1>1. f \in Seq(Nat)
  BY SeqDef
<1> QED BY <1>1, LenProperties

\* What a slice holds is a sequence.
LEMMA Contents ==
    ASSUME NEW h \in [Arrays -> Seq(Nat)], NEW s \in Slices, Within(h, s)
    PROVE  /\ At(h, s) \in Seq(Nat) /\ Len(At(h, s)) = s.len /\ DOMAIN At(h, s) = 1..s.len
           /\ \A k \in 1..s.len : At(h, s)[k] = Elem(h, s, k) /\ Elem(h, s, k) \in Nat
<1>1. s.arr \in Arrays /\ s.off \in Nat /\ s.len \in Nat /\ h[s.arr] \in Seq(Nat)
  BY DEF Slices
<1>2. ASSUME NEW k \in 1..s.len PROVE h[s.arr][s.off + k] \in Nat
  <2>1. s.off + k \in 1..Len(h[s.arr])
    BY <1>1, LenProperties DEF Within
  <2> QED BY <1>1, <2>1, ElementOfSeq
<1>3. At(h, s) \in [1..s.len -> Nat]
  BY <1>2 DEF At
<1>4. At(h, s) \in Seq(Nat) /\ Len(At(h, s)) = s.len
  BY <1>1, <1>3, IsSequence
<1> QED BY <1>2, <1>3, <1>4 DEF At, Elem

\* Collection keeps the arrays that are referred to.
LEMMA Collected ==
    ASSUME NEW h \in [Arrays -> Seq(Nat)], NEW live
    PROVE  /\ Collect(h, live) \in [Arrays -> Seq(Nat)]
           /\ \A s \in Slices : s.arr \in live =>
                /\ Within(h, s) => Within(Collect(h, live), s)
                /\ \A k : Elem(Collect(h, live), s, k) = Elem(h, s, k)
                /\ At(Collect(h, live), s) = At(h, s)
<1>1. \A s \in Slices : s.arr \in live => Collect(h, live)[s.arr] = h[s.arr]
  BY DEF Collect, Slices
<1>2. Collect(h, live) \in [Arrays -> Seq(Nat)]
  BY DEF Collect
<1> QED BY <1>1, <1>2 DEF Within, Elem, At

\* What append leaves: the slice holds its elements and the new ones, in place or in a
\* fresh array, and the slices that end where it ended or before, or lie elsewhere, are
\* untouched.
IsAppended(r, s, q) ==
    /\ r.h \in [Arrays -> Seq(Nat)] /\ r.s \in Slices /\ Within(r.h, r.s)
    /\ r.s.len = s.len + Len(q)
    /\ \A k \in 1..s.len : Elem(r.h, r.s, k) = Elem(heap, s, k)
    /\ \A k \in 1..Len(q) : Elem(r.h, r.s, s.len + k) = q[k]
    /\ (r.s.arr = s.arr /\ r.s.off = s.off) \/ r.s.arr \in Unused
    /\ \A t \in Slices :
         Within(heap, t) /\ t.arr \notin Unused
           /\ (t.arr = s.arr => t.off + t.len <= s.off + s.len)
         => /\ Within(r.h, t)
            /\ \A k \in 1..t.len : Elem(r.h, t, k) = Elem(heap, t, k)

\* AppendAll does what append does.
LEMMA Appended ==
    ASSUME heap \in [Arrays -> Seq(Nat)], NEW s \in Slices, Within(heap, s), NEW q \in Seq(Nat),
           Unused # {}, NEW r, r = AppendAll(s, q)
    PROVE  IsAppended(r, s, q)
<1> DEFINE n == s.len + Len(q)
           old == heap[s.arr]
<1>1. /\ s.arr \in Arrays /\ s.off \in Nat /\ s.len \in Nat /\ old \in Seq(Nat)
      /\ Len(q) \in Nat /\ n \in Nat /\ Len(old) \in Nat /\ DOMAIN old = 1..Len(old)
      /\ s.off + s.len <= Len(old) /\ n = s.len + Len(q)
  BY LenProperties DEF Slices, Within
<1> HIDE DEF n
<1>2. Capacity(s) = Len(old) - s.off /\ Capacity(s) \in Nat
  <2>1. s.arr # 0
    BY <1>1 DEF Arrays
  <2>2. Capacity(s) = Len(old) - s.off
    BY <2>1 DEF Capacity
  <2> QED BY <1>1, <2>2
<1>3. /\ \A k \in 1..s.len : s.off + k \in 1..(s.off + s.len) /\ k \in 1..n
      /\ \A k \in 1..Len(q) :
           /\ s.len + k \in 1..n /\ ~(s.len + k <= s.len) /\ (s.len + k) - s.len = k
           /\ s.off + (s.len + k) \in 1..(s.off + n) /\ s.off + (s.len + k) > s.off + s.len
           /\ s.off + (s.len + k) <= s.off + n /\ (s.off + (s.len + k)) - s.off - s.len = k
      /\ \A k \in Nat : k > s.off + s.len /\ k <= s.off + n => k - s.off - s.len \in 1..Len(q)
  <2>1. PICK o \in Nat, l \in Nat, m \in Nat : o = s.off /\ l = s.len /\ m = Len(q)
    BY <1>1
  <2>2. n = l + m
    BY <1>1, <2>1
  <2>3. /\ \A k \in 1..l : o + k \in 1..(o + l) /\ k \in 1..(l + m)
        /\ \A k \in 1..m : /\ l + k \in 1..(l + m) /\ ~(l + k <= l) /\ (l + k) - l = k
                           /\ o + (l + k) \in 1..(o + (l + m)) /\ o + (l + k) > o + l
                           /\ o + (l + k) <= o + (l + m) /\ (o + (l + k)) - o - l = k
        /\ \A k \in Nat : k > o + l /\ k <= o + (l + m) => k - o - l \in 1..m
    OBVIOUS
  <2> QED BY <2>1, <2>2, <2>3, Zenon
<1>4. /\ \A k \in 1..Len(q) : q[k] \in Nat
      /\ \A k \in 1..Len(old) : old[k] \in Nat
  BY <1>1, ElementOfSeq
<1>5. CASE n <= Capacity(s)
  <2> DEFINE new == [k \in DOMAIN old |->
                       IF k > s.off + s.len /\ k <= s.off + n
                       THEN q[k - s.off - s.len] ELSE old[k]]
  <2>1. r = [h |-> [heap EXCEPT ![s.arr] = new], s |-> [s EXCEPT !.len = n]]
    BY <1>5 DEF AppendAll, n
  <2>2. s.off + n <= Len(old)
    BY <1>1, <1>2, <1>5
  <2>3. ASSUME NEW k \in 1..Len(old) PROVE new[k] \in Nat
    <3>1. CASE k > s.off + s.len /\ k <= s.off + n
      <4>1. k - s.off - s.len \in 1..Len(q)
        BY <1>3, <1>1, <3>1
      <4> QED BY <1>1, <1>4, <3>1, <4>1
    <3>2. CASE ~(k > s.off + s.len /\ k <= s.off + n)
      BY <1>1, <1>4, <3>2
    <3> QED BY <3>1, <3>2
  <2>4. new \in Seq(Nat) /\ Len(new) = Len(old)
    <3>1. new \in [1..Len(old) -> Nat]
      BY <1>1, <2>3
    <3> HIDE DEF new
    <3> QED BY <1>1, <3>1, IsSequence
  <2>5. /\ \A k \in 1..(s.off + s.len) : new[k] = old[k]
        /\ \A k \in 1..Len(q) : new[s.off + (s.len + k)] = q[k]
    <3>1. ASSUME NEW k \in 1..(s.off + s.len) PROVE new[k] = old[k]
      BY <1>1
    <3>2. ASSUME NEW k \in 1..Len(q) PROVE new[s.off + (s.len + k)] = q[k]
      <4>1. /\ s.off + (s.len + k) \in 1..Len(old)
            /\ s.off + (s.len + k) > s.off + s.len /\ s.off + (s.len + k) <= s.off + n
            /\ (s.off + (s.len + k)) - s.off - s.len = k
        <5>0. s.off + (s.len + k) \in 1..(s.off + n)
          BY <1>3
        <5>1. s.off + n \in Nat
          BY <1>1
        <5>2. s.off + (s.len + k) \in 1..Len(old)
          BY <1>1, <2>2, <5>0, <5>1
        <5> QED BY <1>3, <5>2
      <4> QED BY <1>1, <4>1
    <3> QED BY <3>1, <3>2
  <2> HIDE DEF new
  <2>6. /\ r.h \in [Arrays -> Seq(Nat)] /\ r.h[s.arr] = new
        /\ \A a \in Arrays : a # s.arr => r.h[a] = heap[a]
    BY <1>1, <2>1, <2>4
  <2>7. r.s \in Slices /\ r.s.arr = s.arr /\ r.s.off = s.off /\ r.s.len = n
    <3>1. r.s = [s EXCEPT !.len = n]
      BY <2>1
    <3> QED BY <1>1, <3>1 DEF Slices
  <2>8. Within(r.h, r.s)
    BY <2>2, <2>4, <2>6, <2>7 DEF Within
  <2>9. \A k \in 1..s.len : Elem(r.h, r.s, k) = Elem(heap, s, k)
    <3>1. \A k \in 1..s.len : s.off + k \in 1..(s.off + s.len)
      BY <1>3
    <3> QED BY <2>5, <2>6, <2>7, <3>1 DEF Elem
  <2>10. \A k \in 1..Len(q) : Elem(r.h, r.s, s.len + k) = q[k]
    BY <2>5, <2>6, <2>7 DEF Elem
  <2>11. ASSUME NEW t \in Slices, Within(heap, t),
                t.arr = s.arr => t.off + t.len <= s.off + s.len
         PROVE  /\ Within(r.h, t)
                /\ \A k \in 1..t.len : Elem(r.h, t, k) = Elem(heap, t, k)
    <3>1. t.arr \in Arrays /\ t.off \in Nat /\ t.len \in Nat
      BY DEF Slices
    <3>2. CASE t.arr # s.arr
      BY <2>6, <2>11, <3>1, <3>2 DEF Within, Elem
    <3>3. CASE t.arr = s.arr
      <4>1. \A k \in 1..t.len : t.off + k \in 1..(s.off + s.len)
        <5>1. t.off + t.len <= s.off + s.len /\ s.off + s.len \in Nat
          BY <1>1, <2>11, <3>3
        <5>2. \A k \in 1..t.len : t.off + k \in 1..(t.off + t.len)
          BY <3>1
        <5> QED BY <3>1, <5>1, <5>2
      <4>2. \A k \in 1..t.len : Elem(r.h, t, k) = Elem(heap, t, k)
        BY <2>5, <2>6, <3>3, <4>1 DEF Elem
      <4> QED BY <2>4, <2>6, <2>11, <3>3, <4>2 DEF Within
    <3> QED BY <3>2, <3>3
  <2> QED BY <1>1, <2>6, <2>7, <2>8, <2>9, <2>10, <2>11 DEF IsAppended
<1>6. CASE ~(n <= Capacity(s))
  <2> DEFINE whole == At(heap, s) \o q
             a == CHOOSE a \in Unused : TRUE
             new == [k \in 1..Grown(s, n) |-> IF k <= n THEN whole[k] ELSE 0]
  <2>1. r = [h |-> [heap EXCEPT ![a] = new], s |-> [arr |-> a, off |-> 0, len |-> n]]
    BY <1>6 DEF AppendAll, n
  <2>2. a \in Unused /\ a \in Arrays
    BY DEF Unused
  <2>3. Grown(s, n) \in Nat /\ n <= Grown(s, n)
    <3>1. 2 * Capacity(s) \in Nat
      BY <1>2
    <3> QED BY <1>1, <3>1 DEF Grown
  <2>4. /\ At(heap, s) \in Seq(Nat) /\ Len(At(heap, s)) = s.len
        /\ \A k \in 1..s.len : At(heap, s)[k] = Elem(heap, s, k)
    BY Contents
  <2>5. /\ \A k \in 1..s.len : whole[k] = Elem(heap, s, k)
        /\ \A k \in 1..Len(q) : whole[s.len + k] = q[k]
        /\ \A k \in 1..n : whole[k] \in Nat
    <3>1. /\ whole \in Seq(Nat) /\ Len(whole) = n
          /\ \A k \in 1..n : whole[k] = IF k <= s.len THEN At(heap, s)[k] ELSE q[k - s.len]
      <4>1. PICK c \in Seq(Nat) : c = At(heap, s)
        BY <2>4
      <4>2. /\ c \o q \in Seq(Nat) /\ Len(c \o q) = Len(c) + Len(q)
            /\ \A k \in 1..(Len(c) + Len(q)) :
                 (c \o q)[k] = IF k <= Len(c) THEN c[k] ELSE q[k - Len(c)]
        BY ConcatProperties
      <4> QED BY <1>1, <2>4, <4>1, <4>2
    <3>2. \A k \in 1..n : whole[k] \in Nat
      BY <3>1, ElementOfSeq
    <3>3. \A k \in 1..s.len : whole[k] = Elem(heap, s, k)
      BY <1>1, <2>4, <3>1
    <3>4. ASSUME NEW k \in 1..Len(q) PROVE whole[s.len + k] = q[k]
      <4>1. s.len + k \in 1..n /\ ~(s.len + k <= s.len) /\ (s.len + k) - s.len = k
        BY <1>3, <1>1
      <4> QED BY <3>1, <4>1
    <3> QED BY <3>2, <3>3, <3>4
  <2> HIDE DEF whole, a
  <2>6. new \in Seq(Nat) /\ Len(new) = Grown(s, n) /\ \A k \in 1..n : new[k] = whole[k]
    <3>1. \A k \in 1..Grown(s, n) : k \in Nat /\ (k <= n => k \in 1..n)
      BY <1>1, <2>3
    <3>2. new \in [1..Grown(s, n) -> Nat]
      BY <2>5, <3>1
    <3>3. \A k \in 1..n : k \in 1..Grown(s, n) /\ k <= n
      BY <1>1, <2>3
    <3>4. \A k \in 1..n : new[k] = whole[k]
      BY <3>3
    <3> HIDE DEF new
    <3> QED BY <2>3, <3>2, <3>4, IsSequence
  <2> HIDE DEF new
  <2>7. /\ r.h \in [Arrays -> Seq(Nat)] /\ r.h[a] = new
        /\ \A b \in Arrays : b # a => r.h[b] = heap[b]
    BY <2>1, <2>2, <2>6
  <2>8. r.s \in Slices /\ r.s.arr = a /\ r.s.off = 0 /\ r.s.len = n
    BY <1>1, <2>1, <2>2 DEF Slices
  <2>9. Within(r.h, r.s)
    BY <1>1, <2>3, <2>6, <2>7, <2>8 DEF Within
  <2>10. \A k \in 1..n : Elem(r.h, r.s, k) = whole[k]
    BY <1>1, <2>6, <2>7, <2>8 DEF Elem
  <2>11. \A k \in 1..s.len : Elem(r.h, r.s, k) = Elem(heap, s, k)
    <3>1. \A k \in 1..s.len : k \in 1..n
      BY <1>3, <1>1
    <3> QED BY <2>5, <2>10, <3>1
  <2>12. ASSUME NEW k \in 1..Len(q) PROVE Elem(r.h, r.s, s.len + k) = q[k]
    <3>1. s.len + k \in 1..n
      BY <1>3, <1>1
    <3> QED BY <2>5, <2>10, <3>1
  <2>13. ASSUME NEW t \in Slices, Within(heap, t), t.arr \notin Unused
         PROVE  /\ Within(r.h, t)
                /\ \A k \in 1..t.len : Elem(r.h, t, k) = Elem(heap, t, k)
    <3>1. r.h[t.arr] = heap[t.arr]
      BY <2>2, <2>7, <2>13 DEF Slices
    <3> QED BY <2>13, <3>1 DEF Within, Elem
  <2> QED BY <1>1, <2>2, <2>7, <2>8, <2>9, <2>11, <2>12, <2>13 DEF IsAppended
<1> QED BY <1>5, <1>6

\* The two parts of a slice that is cut at n.
LEMMA Cut ==
    ASSUME NEW h \in [Arrays -> Seq(Nat)], NEW s \in Slices, Within(h, s), NEW n \in 0..s.len
    PROVE  /\ First(s, n) \in Slices /\ Within(h, First(s, n)) /\ Drop(s, n) \in Slices
           /\ Within(h, Drop(s, n)) /\ First(s, n).arr = s.arr /\ First(s, n).off = s.off
           /\ First(s, n).len = n /\ \A k : Elem(h, First(s, n), k) = Elem(h, s, k)
           /\ Drop(s, n).arr = s.arr /\ Drop(s, n).off = s.off + n /\ Drop(s, n).len = s.len - n
           /\ \A k \in 1..(s.len - n) : /\ Elem(h, Drop(s, n), k) = Elem(h, s, n + k)
                                        /\ n + k \in 1..s.len
           /\ \A j \in 1..s.len : j \in 1..n \/ \E k \in 1..(s.len - n) : j = n + k
<1>1. s.arr \in Arrays /\ s.off \in Nat /\ s.len \in Nat /\ n \in Nat /\ n <= s.len
  BY DEF Slices
<1>2. First(s, n) \in Slices /\ First(s, n).arr = s.arr /\ First(s, n).off = s.off
      /\ First(s, n).len = n
  BY <1>1 DEF First, Slices
<1>3. Drop(s, n) \in Slices /\ Drop(s, n).arr = s.arr /\ Drop(s, n).off = s.off + n
      /\ Drop(s, n).len = s.len - n
  <2>1. s.len - n \in Nat /\ s.off + n \in Nat
    BY <1>1
  <2> QED BY <1>1, <2>1 DEF Drop, Slices
<1>4. \A k : Elem(h, First(s, n), k) = Elem(h, s, k)
  BY <1>2 DEF Elem
<1>5. ASSUME NEW k \in 1..(s.len - n)
      PROVE  Elem(h, Drop(s, n), k) = Elem(h, s, n + k) /\ n + k \in 1..s.len
  <2>1. (s.off + n) + k = s.off + (n + k) /\ n + k \in 1..s.len
    BY <1>1
  <2> QED BY <1>3, <2>1 DEF Elem
<1>6. ASSUME NEW j \in 1..s.len, j \notin 1..n PROVE \E k \in 1..(s.len - n) : j = n + k
  <2>1. j - n \in 1..(s.len - n) /\ j = n + (j - n)
    BY <1>1, <1>6
  <2> QED BY <2>1
<1>7. Within(h, First(s, n)) /\ Within(h, Drop(s, n))
  <2> DEFINE m == Len(h[s.arr])
  <2>1. s.off + s.len <= m /\ m \in Nat
    BY LenProperties DEF Within, Slices
  <2> HIDE DEF m
  <2>2. s.off + n <= m /\ (s.off + n) + (s.len - n) <= m
    <3>1. (s.off + n) + (s.len - n) = s.off + s.len
      BY <1>1
    <3> QED BY <1>1, <2>1, <3>1
  <2> QED BY <1>2, <1>3, <2>2 DEF Within, m
<1> QED BY <1>2, <1>3, <1>4, <1>5, <1>6, <1>7

\* An observation is appended to the queue, and those ahead of the cap go.
LEMMA EnqueueKeeps ==
    ASSUME Sound, NEW p \in Procs, Enqueue(p)
    PROVE  Sound'
<1> DEFINE o == enqueued + 1
           e == IF obsBatch.len >= ObsQueueCap THEN obsBatch.len - ObsQueueCap + 1 ELSE 0
           s == Drop(obsBatch, e)
           r == AppendAll(s, <<o>>)
           live == {r.s.arr} \cup {flushBatch[q].arr : q \in Procs}
<1>1. /\ enqueued' = o /\ dropped' = dropped \cup Range(At(heap, First(obsBatch, e)))
      /\ obsBatch' = r.s /\ heap' = Collect(r.h, live)
      /\ pc[p] = "idle"
      /\ pc' = [pc EXCEPT ![p] = IF r.s.len >= ObsBatchLimit THEN "flush" ELSE "idle"]
      /\ UNCHANGED <<flushBatch, payload, delivered>>
  BY DEF Enqueue
<1>2. /\ heap \in [Arrays -> Seq(Nat)] /\ obsBatch \in Slices /\ Within(heap, obsBatch)
      /\ obsBatch.len \in Nat /\ obsBatch.off \in Nat /\ o \in Nat /\ enqueued \in Nat
      /\ o = enqueued + 1
  BY DEF Sound, SlicesOK, Within, Slices
<1>3. e \in 0..obsBatch.len
  BY <1>2, LimitsAssumption
<1> HIDE DEF e
<1>4. /\ s \in Slices /\ Within(heap, s) /\ s.arr = obsBatch.arr /\ s.off = obsBatch.off + e
      /\ s.len = obsBatch.len - e /\ s.len \in Nat
      /\ \A k \in 1..s.len : /\ Elem(heap, s, k) = Elem(heap, obsBatch, e + k)
                             /\ e + k \in 1..obsBatch.len
      /\ \A j \in 1..obsBatch.len : j \in 1..e \/ \E k \in 1..s.len : j = e + k
  BY <1>2, <1>3, Cut
<1> HIDE DEF o, s
<1>5. IsAppended(r, s, <<o>>)
  <2>1. <<o>> \in Seq(Nat)
    BY <1>2
  <2>2. Unused # {}
    BY SpareArray DEF Sound
  <2> HIDE DEF r
  <2>3. r = AppendAll(s, <<o>>)
    BY DEF r
  <2> QED BY <1>2, <1>4, <2>1, <2>2, <2>3, Appended
<1> HIDE DEF r
<1>6. /\ r.h \in [Arrays -> Seq(Nat)] /\ r.s \in Slices /\ Within(r.h, r.s)
       /\ r.s.len = s.len + 1 /\ Elem(r.h, r.s, s.len + 1) = o
       /\ \A k \in 1..s.len : Elem(r.h, r.s, k) = Elem(heap, s, k)
  <2>1. Len(<<o>>) = 1 /\ <<o>>[1] = o /\ 1 \in 1..Len(<<o>>)
    OBVIOUS
  <2>2. Elem(r.h, r.s, s.len + 1) = <<o>>[1]
    BY <1>5, <2>1 DEF IsAppended
  <2> QED BY <1>5, <2>1, <2>2 DEF IsAppended
<1> HIDE DEF live
<1>7. /\ heap' \in [Arrays -> Seq(Nat)]
      /\ \A t \in Slices : t.arr \in live =>
           /\ Within(r.h, t) => Within(heap', t)
           /\ \A k : Elem(heap', t, k) = Elem(r.h, t, k)
  <2>1. PICK g \in [Arrays -> Seq(Nat)] : g = r.h
    BY <1>6
  <2>2. /\ Collect(g, live) \in [Arrays -> Seq(Nat)]
        /\ \A t \in Slices : t.arr \in live =>
             /\ Within(g, t) => Within(Collect(g, live), t)
             /\ \A k : Elem(Collect(g, live), t, k) = Elem(g, t, k)
    BY Collected
  <2> QED BY <1>1, <2>1, <2>2
<1>8. /\ obsBatch' \in Slices /\ Within(heap', obsBatch') /\ obsBatch'.len = s.len + 1
      /\ \A k \in 1..s.len : Elem(heap', obsBatch', k) = Elem(heap, obsBatch, e + k)
      /\ Elem(heap', obsBatch', s.len + 1) = o
  <2>1. obsBatch' = r.s /\ r.s.arr \in live
    BY <1>1 DEF live
  <2>2. Within(heap', r.s) /\ \A k : Elem(heap', r.s, k) = Elem(r.h, r.s, k)
    BY <1>6, <1>7, <2>1
  <2> QED BY <1>4, <1>6, <2>1, <2>2
<1>9. /\ DOMAIN pc' = Procs
      /\ \A x \in Procs : /\ Flying(x)' <=> Flying(x)
                          /\ pc'[x] = "send" <=> pc[x] = "send"
  BY <1>1 DEF Flying, Sound, SlicesOK, InFlight
<1>10. ASSUME NEW x \in Procs, Flying(x)
      PROVE  /\ flushBatch[x] \in Slices /\ Within(heap', flushBatch[x])
             /\ \A k \in 1..flushBatch[x].len :
                  Elem(heap', flushBatch[x], k) = Elem(heap, flushBatch[x], k)
             /\ At(heap', flushBatch[x]) = At(heap, flushBatch[x])
             /\ flushBatch[x].arr = obsBatch'.arr
                  => flushBatch[x].off + flushBatch[x].len <= obsBatch'.off
  <2>1. flushBatch[x] \in Slices /\ Within(heap, flushBatch[x]) /\ flushBatch[x].arr \notin Unused
    BY <1>10 DEF Sound, SlicesOK, Within, Unused
  <2>2. PICK t \in Slices : t = flushBatch[x]
    BY <2>1
  <2>3. t.off \in Nat /\ t.len \in Nat
    BY DEF Slices
  <2>4. t.arr = s.arr => t.off + t.len <= s.off /\ t.off + t.len <= s.off + s.len
    <3>1. t.arr = s.arr => t.off + t.len <= obsBatch.off
      BY <1>4, <1>10, <2>2 DEF Sound, OneFlight
    <3>2. s.off \in Nat /\ obsBatch.off <= s.off
      BY <1>2, <1>3, <1>4
    <3>3. t.off + t.len \in Nat
      BY <2>3
    <3> QED BY <1>2, <1>4, <3>1, <3>2, <3>3
  <2>5. Within(r.h, t) /\ \A k \in 1..t.len : Elem(r.h, t, k) = Elem(heap, t, k)
    BY <1>5, <2>1, <2>2, <2>4 DEF IsAppended
  <2>6. /\ Within(heap', t) /\ \A k \in 1..t.len : Elem(heap', t, k) = Elem(heap, t, k)
    BY <1>7, <2>2, <2>5 DEF live
  <2>7. At(heap', t) = At(heap, t)
    BY <2>6 DEF At, Elem
  <2>8. t.arr = obsBatch'.arr => t.off + t.len <= obsBatch'.off
    BY <1>1, <1>5, <2>1, <2>2, <2>4 DEF IsAppended
  <2> QED BY <2>1, <2>2, <2>6, <2>7, <2>8
<1>11. SlicesOK'
  BY <1>1, <1>2, <1>7, <1>8, <1>9, <1>10 DEF Sound, SlicesOK
<1>12. OneFlight'
  <2>1. \A x, y \in Procs : Flying(x)' /\ Flying(y)' => x = y
    BY <1>9 DEF Sound, OneFlight
  <2>2. ASSUME NEW x \in Procs, Flying(x)', flushBatch'[x].arr = obsBatch'.arr
        PROVE  flushBatch'[x].off + flushBatch'[x].len <= obsBatch'.off
    BY <1>1, <1>9, <1>10, <2>2
  <2>3. ASSUME NEW x \in Procs, pc'[x] = "send" PROVE payload'[x] = At(heap', flushBatch'[x])
    BY <1>1, <1>9, <1>10, <2>3 DEF Sound, OneFlight, Flying, InFlight
  <2> QED BY <2>1, <2>2, <2>3 DEF OneFlight, At
<1>13. \A k \in 1..s.len : Elem(heap', obsBatch', k) <= enqueued
  BY <1>4, <1>8 DEF Sound, ArrivalOrder, UpTo
<1>14. \A k \in 1..(s.len + 1) : k \in 1..s.len \/ k = s.len + 1
  BY <1>4
<1>15. \A k \in 1..s.len : Elem(heap', obsBatch', k) \in Nat
  <2>1. \A k \in 1..obsBatch.len : Elem(heap, obsBatch, k) \in Nat
    BY <1>2, Contents
  <2> QED BY <1>4, <1>8, <2>1
<1>16. InOrder(heap', obsBatch')
  <2> SUFFICES ASSUME NEW j \in 1..(s.len + 1), NEW k \in 1..(s.len + 1), j < k
               PROVE  Elem(heap', obsBatch', j) < Elem(heap', obsBatch', k)
    BY <1>8 DEF InOrder
  <2>1. j \in 1..s.len /\ j \in Nat
    BY <1>4
  <2>2. CASE k \in 1..s.len
    <3>1. e + j < e + k
      BY <1>3, <2>1, <2>2, <1>2
    <3> QED BY <1>4, <1>8, <2>1, <2>2, <3>1 DEF Sound, ArrivalOrder, InOrder
  <2>3. CASE k = s.len + 1
    <3>1. Elem(heap', obsBatch', j) <= enqueued /\ Elem(heap', obsBatch', j) \in Nat
      BY <1>13, <1>15, <2>1
    <3>2. Elem(heap', obsBatch', k) = enqueued + 1
      BY <1>2, <1>8, <2>3
    <3> QED BY <1>2, <3>1, <3>2
  <2> QED BY <1>14, <2>2, <2>3
<1>17. UpTo(heap', obsBatch', o)
  <2> SUFFICES ASSUME NEW k \in 1..(s.len + 1) PROVE Elem(heap', obsBatch', k) <= o
    BY <1>8 DEF UpTo
  <2>1. CASE k \in 1..s.len
    BY <1>2, <1>13, <1>15, <2>1
  <2>2. CASE k = s.len + 1
    BY <1>2, <1>8, <2>2
  <2> QED BY <1>14, <2>1, <2>2
<1>18. ASSUME NEW x \in Procs, Flying(x)
       PROVE  /\ InOrder(heap', flushBatch[x]) /\ UpTo(heap', flushBatch[x], o)
              /\ \A j \in 1..flushBatch[x].len, k \in 1..(s.len + 1) :
                   Elem(heap', flushBatch[x], j) < Elem(heap', obsBatch', k)
  <2>1. /\ InOrder(heap, flushBatch[x]) /\ UpTo(heap, flushBatch[x], enqueued)
        /\ \A j \in 1..flushBatch[x].len, k \in 1..obsBatch.len :
             Elem(heap, flushBatch[x], j) < Elem(heap, obsBatch, k)
    BY <1>18 DEF Sound, ArrivalOrder
  <2>2. \A j \in 1..flushBatch[x].len : /\ Elem(heap', flushBatch[x], j) = Elem(heap, flushBatch[x], j)
                                       /\ Elem(heap, flushBatch[x], j) \in Nat
    BY <1>2, <1>10, <1>18, Contents DEF Sound, SlicesOK
  <2>3. InOrder(heap', flushBatch[x])
    BY <2>1, <2>2 DEF InOrder
  <2>4. \A j \in 1..flushBatch[x].len : /\ Elem(heap', flushBatch[x], j) <= enqueued
                                       /\ Elem(heap', flushBatch[x], j) < o
                                       /\ Elem(heap', flushBatch[x], j) <= o
    <3>1. \A j \in 1..flushBatch[x].len : /\ Elem(heap', flushBatch[x], j) <= enqueued
                                         /\ Elem(heap', flushBatch[x], j) \in Nat
      BY <2>1, <2>2 DEF UpTo
    <3>2. \A i \in Nat : i <= enqueued => i < o /\ i <= o
      BY <1>2
    <3> QED BY <3>1, <3>2
  <2>5. UpTo(heap', flushBatch[x], o)
    BY <2>4 DEF UpTo
  <2>6. ASSUME NEW j \in 1..flushBatch[x].len, NEW k \in 1..(s.len + 1)
        PROVE  Elem(heap', flushBatch[x], j) < Elem(heap', obsBatch', k)
    <3>1. CASE k \in 1..s.len
      BY <1>4, <1>8, <2>1, <2>2, <3>1
    <3>2. CASE k = s.len + 1
      BY <1>8, <2>4, <3>2
    <3> QED BY <1>14, <3>1, <3>2
  <2> QED BY <2>3, <2>5, <2>6
<1>19. ArrivalOrder'
  <2>1. InOrder(heap', obsBatch') /\ UpTo(heap', obsBatch', enqueued')
    BY <1>1, <1>16, <1>17
  <2>2. ASSUME NEW x \in Procs, Flying(x)'
        PROVE  /\ InOrder(heap', flushBatch'[x]) /\ UpTo(heap', flushBatch'[x], enqueued')
               /\ \A j \in 1..flushBatch'[x].len, k \in 1..obsBatch'.len :
                    Elem(heap', flushBatch'[x], j) < Elem(heap', obsBatch', k)
    BY <1>1, <1>8, <1>9, <1>18, <2>2
  <2> QED BY <2>1, <2>2 DEF ArrivalOrder, InOrder, UpTo, Elem
<1>20. Accounted'
  <2> SUFFICES ASSUME NEW u \in 1..o
               PROVE  \/ Among(u, heap', obsBatch') \/ u \in delivered' \/ u \in dropped'
                      \/ \E x \in Procs : Flying(x)' /\ Among(u, heap', flushBatch'[x])
    BY <1>1 DEF Accounted, Among, Elem
  <2>1. CASE u = o
    <3>1. s.len + 1 \in 1..obsBatch'.len
      BY <1>4, <1>8
    <3> QED BY <1>8, <2>1, <3>1 DEF Among
  <2>2. CASE u \in 1..enqueued
    <3>1. CASE \E j \in 1..obsBatch.len : Elem(heap, obsBatch, j) = u
      <4>1. PICK j \in 1..obsBatch.len : Elem(heap, obsBatch, j) = u
        BY <3>1
      <4>2. CASE j \in 1..e
        <5>1. /\ First(obsBatch, e) \in Slices /\ First(obsBatch, e).len = e
              /\ Within(heap, First(obsBatch, e))
              /\ Elem(heap, First(obsBatch, e), j) = u
          BY <1>2, <1>3, <4>1, Cut
        <5>2. /\ j \in DOMAIN At(heap, First(obsBatch, e))
              /\ At(heap, First(obsBatch, e))[j] = u
          BY <1>2, <4>2, <5>1, Contents
        <5> QED BY <1>1, <5>2 DEF Range
      <4>3. CASE \E k \in 1..s.len : j = e + k
        <5>1. PICK k \in 1..s.len : j = e + k
          BY <4>3
        <5>2. k \in 1..obsBatch'.len /\ Elem(heap', obsBatch', k) = u
          BY <1>4, <1>8, <4>1, <5>1
        <5> QED BY <5>2 DEF Among
      <4> QED BY <1>4, <4>2, <4>3
    <3>2. CASE u \in delivered \/ u \in dropped
      BY <1>1, <3>2
    <3>3. CASE \E x \in Procs : Flying(x) /\ Among(u, heap, flushBatch[x])
      BY <1>1, <1>9, <1>10, <3>3 DEF Among
    <3> QED BY <2>2, <3>1, <3>2, <3>3 DEF Sound, Accounted, Among
  <2>3. u = o \/ u \in 1..enqueued
    BY <1>2
  <2> QED BY <2>1, <2>2, <2>3
<1> QED BY <1>11, <1>12, <1>19, <1>20 DEF Sound

\* A step that moves no observation: the ticker, an empty flush, the envelope.
LEMMA NothingMoves ==
    ASSUME Sound, UNCHANGED <<heap, obsBatch, flushBatch, enqueued, delivered, dropped>>,
           DOMAIN pc' = Procs, DOMAIN payload' = Procs,
           \A x \in Procs : Flying(x)' <=> Flying(x),
           \A x \in Procs : pc'[x] = "send" => payload'[x] = At(heap, flushBatch[x])
    PROVE  Sound'
<1>1. SlicesOK'
  BY DEF Sound, SlicesOK, Within
<1>2. OneFlight'
  BY DEF Sound, OneFlight, At
<1>3. ArrivalOrder'
  BY DEF Sound, ArrivalOrder, InOrder, UpTo, Elem
<1>4. Accounted'
  BY DEF Sound, Accounted, Among, Elem
<1> QED BY <1>1, <1>2, <1>3, <1>4 DEF Sound

\* A flush that finds no other in flight takes the front of the queue.
LEMMA TakeKeeps ==
    ASSUME Sound, NEW p \in Procs, TakeBatch(p), obsBatch.len # 0,
           ~\E q \in Procs : pc[q] \in InFlight
    PROVE  Sound'
<1> DEFINE n == IF obsBatch.len < ObsBatchLimit THEN obsBatch.len ELSE ObsBatchLimit
<1>1. /\ pc[p] = "flush" /\ pc' = [pc EXCEPT ![p] = "marshal"]
      /\ flushBatch' = [flushBatch EXCEPT ![p] = First(obsBatch, n)]
      /\ obsBatch' = Drop(obsBatch, n)
      /\ UNCHANGED <<heap, payload, enqueued, delivered, dropped>>
  BY DEF TakeBatch
<1>2. /\ heap \in [Arrays -> Seq(Nat)] /\ obsBatch \in Slices /\ Within(heap, obsBatch)
      /\ obsBatch.len \in Nat /\ obsBatch.off \in Nat
  BY DEF Sound, SlicesOK, Within, Slices
<1>3. n \in 0..obsBatch.len
  BY <1>2, LimitsAssumption
<1> HIDE DEF n
<1>4. PICK b \in Slices, s \in Slices : b = First(obsBatch, n) /\ s = Drop(obsBatch, n)
  BY <1>2, <1>3, Cut
<1>5. /\ Within(heap, b) /\ b.off = obsBatch.off /\ b.len = n
      /\ \A k : Elem(heap, b, k) = Elem(heap, obsBatch, k)
      /\ Within(heap, s) /\ s.off = obsBatch.off + n /\ s.len = obsBatch.len - n
      /\ \A k \in 1..s.len : /\ Elem(heap, s, k) = Elem(heap, obsBatch, n + k)
                             /\ n + k \in 1..obsBatch.len
      /\ \A j \in 1..obsBatch.len : j \in 1..n \/ \E k \in 1..s.len : j = n + k
  BY <1>2, <1>3, <1>4, Cut
<1>6. /\ DOMAIN pc' = Procs /\ DOMAIN flushBatch' = Procs /\ obsBatch' = s
      /\ flushBatch'[p] = b /\ \A x \in Procs : x # p => flushBatch'[x] = flushBatch[x]
      /\ \A x \in Procs : Flying(x)' <=> x = p
      /\ \A x \in Procs : pc'[x] # "send" /\ ~Flying(x)
  BY <1>1, <1>4 DEF Sound, SlicesOK, Flying, InFlight
<1>7. SlicesOK'
  <2>1. heap' \in [Arrays -> Seq(Nat)] /\ Within(heap', obsBatch')
    BY <1>1, <1>2, <1>5, <1>6
  <2>2. ASSUME NEW x \in Procs
        PROVE  IF Flying(x)' THEN Within(heap', flushBatch'[x]) ELSE flushBatch'[x] = Nil
    BY <1>1, <1>5, <1>6 DEF Sound, SlicesOK
  <2> QED BY <1>1, <1>6, <2>1, <2>2 DEF Sound, SlicesOK, Within, Nil
<1>8. OneFlight'
  <2>1. flushBatch'[p].off + flushBatch'[p].len <= obsBatch'.off
    BY <1>2, <1>3, <1>5, <1>6
  <2> QED BY <1>6, <2>1 DEF OneFlight
<1>9. InOrder(heap, obsBatch) /\ UpTo(heap, obsBatch, enqueued)
  BY DEF Sound, ArrivalOrder
<1>10. \A k \in 1..n : k \in 1..obsBatch.len
  BY <1>2, <1>3
<1>11. InOrder(heap, b) /\ UpTo(heap, b, enqueued) /\ UpTo(heap, s, enqueued)
  BY <1>5, <1>9, <1>10 DEF InOrder, UpTo
<1>12. InOrder(heap, s)
  <2> SUFFICES ASSUME NEW j \in 1..s.len, NEW k \in 1..s.len, j < k
               PROVE  Elem(heap, s, j) < Elem(heap, s, k)
    BY DEF InOrder
  <2>1. n + j < n + k
    BY <1>2, <1>3, <1>5
  <2> QED BY <1>5, <1>9, <2>1 DEF InOrder
<1>13. ASSUME NEW j \in 1..b.len, NEW k \in 1..s.len
       PROVE  Elem(heap, b, j) < Elem(heap, s, k)
  <2>1. j < n + k /\ j \in 1..obsBatch.len
    BY <1>2, <1>3, <1>5, <1>10
  <2> QED BY <1>5, <1>9, <2>1 DEF InOrder
<1>14. ArrivalOrder'
  <2>1. InOrder(heap', obsBatch') /\ UpTo(heap', obsBatch', enqueued')
    BY <1>1, <1>6, <1>11, <1>12
  <2>2. ASSUME NEW x \in Procs, Flying(x)'
        PROVE  /\ InOrder(heap', flushBatch'[x]) /\ UpTo(heap', flushBatch'[x], enqueued')
               /\ \A j \in 1..flushBatch'[x].len, k \in 1..obsBatch'.len :
                    Elem(heap', flushBatch'[x], j) < Elem(heap', obsBatch', k)
    BY <1>1, <1>6, <1>11, <1>13, <2>2
  <2> QED BY <2>1, <2>2 DEF ArrivalOrder, InOrder, UpTo, Elem
<1>15. Accounted'
  <2> SUFFICES ASSUME NEW u \in 1..enqueued
               PROVE  \/ Among(u, heap', obsBatch') \/ u \in delivered' \/ u \in dropped'
                      \/ \E x \in Procs : Flying(x)' /\ Among(u, heap', flushBatch'[x])
    BY <1>1 DEF Accounted, Among, Elem
  <2>1. CASE u \in delivered \/ u \in dropped
    BY <1>1, <2>1
  <2>2. CASE \E j \in 1..obsBatch.len : Elem(heap, obsBatch, j) = u
    <3>1. PICK j \in 1..obsBatch.len : Elem(heap, obsBatch, j) = u
      BY <2>2
    <3>2. CASE j \in 1..n
      <4>1. Among(u, heap', b)
        BY <1>1, <1>5, <3>1, <3>2 DEF Among
      <4> QED BY <1>6, <4>1
    <3>3. CASE \E k \in 1..s.len : j = n + k
      <4>1. Among(u, heap', s)
        BY <1>1, <1>5, <3>1, <3>3 DEF Among
      <4> QED BY <1>6, <4>1
    <3> QED BY <1>5, <3>2, <3>3
  <2> QED BY <1>6, <2>1, <2>2 DEF Sound, Accounted, Among
<1> QED BY <1>7, <1>8, <1>14, <1>15 DEF Sound

\* The core takes the batch in flight.
LEMMA SendOkKeeps ==
    ASSUME Sound, NEW p \in Procs, SendOk(p)
    PROVE  Sound'
<1> DEFINE live == {obsBatch.arr} \cup {flushBatch'[q].arr : q \in Procs}
<1>1. /\ pc[p] = "send" /\ pc' = [pc EXCEPT ![p] = "idle"]
      /\ delivered' = delivered \cup Range(payload[p])
      /\ flushBatch' = [flushBatch EXCEPT ![p] = Nil] /\ payload' = [payload EXCEPT ![p] = <<>>]
      /\ heap' = Collect(heap, live) /\ UNCHANGED <<obsBatch, enqueued, dropped>>
  BY DEF SendOk
<1>2. /\ heap \in [Arrays -> Seq(Nat)] /\ obsBatch \in Slices /\ Within(heap, obsBatch)
      /\ obsBatch.arr \in live /\ flushBatch[p] \in Slices /\ Within(heap, flushBatch[p])
  BY <1>1 DEF Sound, SlicesOK, Within, Flying, InFlight
<1> HIDE DEF live
<1>3. /\ heap' \in [Arrays -> Seq(Nat)] /\ Within(heap', obsBatch)
      /\ \A k : Elem(heap', obsBatch, k) = Elem(heap, obsBatch, k)
  BY <1>1, <1>2, Collected
<1>4. /\ DOMAIN pc' = Procs /\ DOMAIN flushBatch' = Procs /\ DOMAIN payload' = Procs
      /\ \A x \in Procs : ~Flying(x)' /\ pc'[x] # "send" /\ flushBatch'[x] = Nil
  <2>1. \A x \in Procs : Flying(x) => x = p
    BY <1>1 DEF Sound, OneFlight, Flying, InFlight
  <2> QED BY <1>1, <2>1 DEF Sound, SlicesOK, Flying, InFlight
<1>5. SlicesOK'
  <2>1. Within(heap', obsBatch')
    BY <1>1, <1>3
  <2> QED BY <1>1, <1>3, <1>4, <2>1 DEF Sound, SlicesOK, Within, Nil
<1>6. OneFlight'
  BY <1>4 DEF OneFlight
<1>7. ArrivalOrder'
  <2>1. InOrder(heap', obsBatch') /\ UpTo(heap', obsBatch', enqueued')
    BY <1>1, <1>3 DEF Sound, ArrivalOrder, InOrder, UpTo
  <2> QED BY <1>4, <2>1 DEF ArrivalOrder, InOrder, UpTo, Elem
<1>8. Accounted'
  <2> SUFFICES ASSUME NEW u \in 1..enqueued
               PROVE  Among(u, heap', obsBatch') \/ u \in delivered' \/ u \in dropped'
    BY <1>1 DEF Accounted, Among, Elem
  <2>1. CASE Among(u, heap, obsBatch)
    BY <1>1, <1>3, <2>1 DEF Among
  <2>2. CASE \E x \in Procs : Flying(x) /\ Among(u, heap, flushBatch[x])
    <3>1. Among(u, heap, flushBatch[p])
      BY <1>1, <2>2 DEF Sound, OneFlight, Flying, InFlight
    <3>2. payload[p] = At(heap, flushBatch[p])
      BY <1>1 DEF Sound, OneFlight
    <3>3. u \in Range(payload[p])
      <4>1. PICK k \in 1..flushBatch[p].len : Elem(heap, flushBatch[p], k) = u
        BY <3>1 DEF Among
      <4>2. k \in DOMAIN payload[p] /\ payload[p][k] = u
        BY <1>2, <3>2, <4>1, Contents
      <4> QED BY <4>2 DEF Range
    <3> QED BY <1>1, <3>3
  <2> QED BY <1>1, <2>1, <2>2 DEF Sound, Accounted
<1> QED BY <1>5, <1>6, <1>7, <1>8 DEF Sound

\* The batch in flight goes back to the head of the queue, and those ahead of the cap go.
LEMMA SendFailsKeeps ==
    ASSUME Sound, NEW p \in Procs, SendFails(p)
    PROVE  Sound'
<1> DEFINE b == flushBatch[p]
           q == At(heap, obsBatch)
           r == AppendAll(b, q)
           e == IF r.s.len > ObsQueueCap THEN r.s.len - ObsQueueCap ELSE 0
           live == {r.s.arr} \cup {flushBatch'[x].arr : x \in Procs}
           Back == Drop(r.s, e)
<1>1. /\ pc[p] = "send" /\ pc' = [pc EXCEPT ![p] = "idle"] /\ obsBatch' = Back
      /\ dropped' = dropped \cup Range(At(r.h, First(r.s, e))) /\ delivered \subseteq delivered'
      /\ flushBatch' = [flushBatch EXCEPT ![p] = Nil] /\ payload' = [payload EXCEPT ![p] = <<>>]
      /\ heap' = Collect(r.h, live) /\ UNCHANGED enqueued
  BY DEF SendFails
<1>2. /\ heap \in [Arrays -> Seq(Nat)] /\ obsBatch \in Slices /\ Within(heap, obsBatch)
      /\ obsBatch.len \in Nat /\ b \in Slices /\ Within(heap, b) /\ b.len \in Nat
  BY <1>1 DEF Sound, SlicesOK, Within, Slices, Flying, InFlight
<1>3. /\ DOMAIN pc' = Procs /\ DOMAIN flushBatch' = Procs /\ DOMAIN payload' = Procs
      /\ \A x \in Procs : ~Flying(x)' /\ pc'[x] # "send" /\ flushBatch'[x] = Nil
      /\ \A x \in Procs : Flying(x) => x = p
  <2>1. \A x \in Procs : Flying(x) => x = p
    BY <1>1 DEF Sound, OneFlight, Flying, InFlight
  <2> QED BY <1>1, <2>1 DEF Sound, SlicesOK, Flying, InFlight
<1>4. /\ q \in Seq(Nat) /\ Len(q) = obsBatch.len
      /\ \A k \in 1..obsBatch.len : q[k] = Elem(heap, obsBatch, k)
  BY <1>2, Contents
<1> HIDE DEF b, q
<1>5. IsAppended(r, b, q)
  <2>1. Unused # {}
    BY SpareArray DEF Sound
  <2> HIDE DEF r
  <2>2. r = AppendAll(b, q)
    BY DEF r
  <2> QED BY <1>2, <1>4, <2>1, <2>2, Appended
<1> HIDE DEF r
<1>6. /\ r.h \in [Arrays -> Seq(Nat)] /\ r.s \in Slices /\ Within(r.h, r.s)
      /\ r.s.len = b.len + obsBatch.len /\ r.s.len \in Nat
      /\ \A k \in 1..b.len : Elem(r.h, r.s, k) = Elem(heap, b, k)
      /\ \A k \in 1..obsBatch.len : Elem(r.h, r.s, b.len + k) = Elem(heap, obsBatch, k)
  <2>1. /\ r.h \in [Arrays -> Seq(Nat)] /\ r.s \in Slices /\ Within(r.h, r.s)
        /\ r.s.len = b.len + Len(q)
        /\ \A k \in 1..b.len : Elem(r.h, r.s, k) = Elem(heap, b, k)
        /\ \A k \in 1..Len(q) : Elem(r.h, r.s, b.len + k) = q[k]
    BY <1>5 DEF IsAppended
  <2>2. b.len + obsBatch.len \in Nat
    BY <1>2
  <2> QED BY <1>4, <2>1, <2>2
<1>7. e \in 0..r.s.len
  BY <1>6, LimitsAssumption
<1> HIDE DEF e
<1>8. /\ Back \in Slices /\ Within(r.h, Back) /\ Back.arr = r.s.arr /\ Back.len = r.s.len - e
      /\ \A k \in 1..Back.len : /\ Elem(r.h, Back, k) = Elem(r.h, r.s, e + k)
                                /\ e + k \in 1..r.s.len
      /\ \A j \in 1..r.s.len : j \in 1..e \/ \E k \in 1..Back.len : j = e + k
      /\ First(r.s, e) \in Slices /\ First(r.s, e).len = e /\ Within(r.h, First(r.s, e))
      /\ \A k : Elem(r.h, First(r.s, e), k) = Elem(r.h, r.s, k)
  <2>1. PICK h \in [Arrays -> Seq(Nat)], s \in Slices : h = r.h /\ s = r.s
    BY <1>6
  <2>2. e \in 0..s.len /\ Within(h, s)
    BY <1>6, <1>7, <2>1
  <2>3. /\ First(s, e) \in Slices /\ Within(h, First(s, e)) /\ Drop(s, e) \in Slices
        /\ Within(h, Drop(s, e)) /\ First(s, e).len = e
        /\ \A k : Elem(h, First(s, e), k) = Elem(h, s, k)
        /\ Drop(s, e).arr = s.arr /\ Drop(s, e).len = s.len - e
    BY <2>2, Cut
  <2>4. /\ \A k \in 1..(s.len - e) : /\ Elem(h, Drop(s, e), k) = Elem(h, s, e + k)
                                     /\ e + k \in 1..s.len
        /\ \A j \in 1..s.len : j \in 1..e \/ \E k \in 1..(s.len - e) : j = e + k
    BY <2>2, Cut
  <2> QED BY <2>1, <2>3, <2>4
<1> HIDE DEF Back, live
<1>9. /\ heap' \in [Arrays -> Seq(Nat)] /\ Within(heap', Back)
      /\ \A k : Elem(heap', Back, k) = Elem(r.h, Back, k)
  <2>1. PICK g \in [Arrays -> Seq(Nat)] : g = r.h
    BY <1>6
  <2>2. Back.arr \in live
    BY <1>8 DEF live
  <2> QED BY <1>1, <1>8, <2>1, <2>2, Collected
<1>10. /\ InOrder(heap, b) /\ UpTo(heap, b, enqueued)
       /\ InOrder(heap, obsBatch) /\ UpTo(heap, obsBatch, enqueued)
       /\ \A j \in 1..b.len, k \in 1..obsBatch.len : Elem(heap, b, j) < Elem(heap, obsBatch, k)
  BY <1>1 DEF Sound, ArrivalOrder, Flying, InFlight, b
<1>11. \A j \in 1..r.s.len : j \in 1..b.len \/ \E k \in 1..obsBatch.len : j = b.len + k
  <2> SUFFICES ASSUME NEW j \in 1..r.s.len, j \notin 1..b.len
               PROVE  \E k \in 1..obsBatch.len : j = b.len + k
    OBVIOUS
  <2>1. j - b.len \in 1..obsBatch.len /\ j = b.len + (j - b.len)
    BY <1>2, <1>6
  <2> QED BY <2>1
<1>12. UpTo(r.h, r.s, enqueued)
  BY <1>6, <1>10, <1>11 DEF UpTo
<1>13. InOrder(r.h, r.s)
  <2> SUFFICES ASSUME NEW i \in 1..r.s.len, NEW j \in 1..r.s.len, i < j
               PROVE  Elem(r.h, r.s, i) < Elem(r.h, r.s, j)
    BY DEF InOrder
  <2>1. CASE i \in 1..b.len /\ j \in 1..b.len
    BY <1>6, <1>10, <2>1 DEF InOrder
  <2>2. CASE i \in 1..b.len /\ \E k \in 1..obsBatch.len : j = b.len + k
    BY <1>6, <1>10, <2>2
  <2>3. CASE i \notin 1..b.len
    <3>1. PICK k \in 1..obsBatch.len : i = b.len + k
      BY <1>11, <2>3
    <3>2. j \notin 1..b.len
      BY <1>2, <1>6, <2>3
    <3>3. PICK l \in 1..obsBatch.len : j = b.len + l
      BY <1>11, <3>2
    <3>4. k < l
      BY <1>2, <3>1, <3>3
    <3> QED BY <1>6, <1>10, <3>1, <3>3, <3>4 DEF InOrder
  <2> QED BY <1>11, <2>1, <2>2, <2>3
<1>14. SlicesOK'
  <2>1. Within(heap', obsBatch')
    BY <1>1, <1>9
  <2> QED BY <1>1, <1>3, <1>9, <2>1 DEF Sound, SlicesOK, Within, Nil
<1>15. OneFlight'
  BY <1>3 DEF OneFlight
<1>16. ArrivalOrder'
  <2>1. UpTo(heap', Back, enqueued)
    BY <1>8, <1>9, <1>12 DEF UpTo
  <2>2. InOrder(heap', Back)
    <3> SUFFICES ASSUME NEW j \in 1..Back.len, NEW k \in 1..Back.len, j < k
                 PROVE  Elem(heap', Back, j) < Elem(heap', Back, k)
      BY DEF InOrder
    <3>1. e + j < e + k
      BY <1>6, <1>7, <1>8
    <3> QED BY <1>8, <1>9, <1>13, <3>1 DEF InOrder
  <2>3. InOrder(heap', obsBatch') /\ UpTo(heap', obsBatch', enqueued')
    BY <1>1, <2>1, <2>2
  <2> QED BY <1>3, <2>3 DEF ArrivalOrder, InOrder, UpTo, Elem
<1>17. Accounted'
  <2> SUFFICES ASSUME NEW u \in 1..enqueued
               PROVE  Among(u, heap', obsBatch') \/ u \in delivered' \/ u \in dropped'
    BY <1>1 DEF Accounted, Among, Elem
  <2>1. CASE u \in delivered \/ u \in dropped
    BY <1>1, <2>1
  <2>2. CASE \E j \in 1..r.s.len : Elem(r.h, r.s, j) = u
    <3>1. PICK j \in 1..r.s.len : Elem(r.h, r.s, j) = u
      BY <2>2
    <3>2. CASE j \in 1..e
      <4>1. PICK h \in [Arrays -> Seq(Nat)], s \in Slices : h = r.h /\ s = First(r.s, e)
        BY <1>6, <1>8
      <4>2. Within(h, s) /\ s.len = e /\ Elem(h, s, j) = u
        BY <1>8, <3>1, <4>1
      <4>3. j \in DOMAIN At(h, s) /\ At(h, s)[j] = u
        BY <3>2, <4>2, Contents
      <4> QED BY <1>1, <4>1, <4>3 DEF Range
    <3>3. CASE \E k \in 1..Back.len : j = e + k
      <4>1. Among(u, heap', Back)
        BY <1>8, <1>9, <3>1, <3>3 DEF Among
      <4> QED BY <1>1, <4>1
    <3> QED BY <1>8, <3>2, <3>3
  <2>3. CASE Among(u, heap, obsBatch)
    <3>1. PICK k \in 1..obsBatch.len : Elem(heap, obsBatch, k) = u
      BY <2>3 DEF Among
    <3>2. b.len + k \in 1..r.s.len /\ Elem(r.h, r.s, b.len + k) = u
      BY <1>2, <1>6, <3>1
    <3> QED BY <2>2, <3>2
  <2>4. CASE \E x \in Procs : Flying(x) /\ Among(u, heap, flushBatch[x])
    <3>1. Among(u, heap, b)
      BY <1>3, <2>4 DEF b
    <3>2. PICK k \in 1..b.len : Elem(heap, b, k) = u
      BY <3>1 DEF Among
    <3>3. k \in 1..r.s.len /\ Elem(r.h, r.s, k) = u
      BY <1>2, <1>6, <3>2
    <3> QED BY <2>2, <3>3
  <2> QED BY <2>1, <2>3, <2>4 DEF Sound, Accounted
<1> QED BY <1>14, <1>15, <1>16, <1>17 DEF Sound

\* Initially the queue is empty.
LEMMA QueueStarts == QueueInit => QueueInv
<1> SUFFICES ASSUME QueueInit PROVE overlap = FALSE /\ Sound
  BY DEF QueueInv, Sound
<1>1. /\ 1 \in Arrays /\ obsBatch \in Slices /\ obsBatch.arr = 1 /\ obsBatch.off = 0
      /\ obsBatch.len = 0
  <2>1. Cardinality(Procs) \in Nat
    BY WorkersAssumption, FS_AddElement, FS_CardinalityType DEF Procs
  <2>2. 1 \in Arrays
    BY <2>1 DEF Arrays
  <2> QED BY <2>2 DEF QueueInit, Slices
<1>2. heap \in [Arrays -> Seq(Nat)]
  <2>1. [k \in 1..ObsBatchLimit |-> 0] \in [1..ObsBatchLimit -> Nat] /\ ObsBatchLimit \in Nat
    BY LimitsAssumption
  <2>2. [k \in 1..ObsBatchLimit |-> 0] \in Seq(Nat)
    BY <2>1, IsSequence
  <2> QED BY <2>2 DEF QueueInit
<1>3. Within(heap, obsBatch)
  BY <1>1, <1>2, LenProperties DEF Within
<1>4. \A p \in Procs : ~Flying(p) /\ pc[p] # "send"
  BY DEF QueueInit, Flying, InFlight
<1>5. SlicesOK
  BY <1>2, <1>3, <1>4 DEF SlicesOK, QueueInit
<1>6. OneFlight
  BY <1>4 DEF OneFlight
<1>7. ArrivalOrder
  BY <1>1, <1>4 DEF ArrivalOrder, InOrder, UpTo
<1>8. Accounted
  BY DEF Accounted, QueueInit
<1> QED BY <1>5, <1>6, <1>7, <1>8 DEF Sound, QueueInit

\* Every step keeps the order and the account, or two flushes have overlapped.
LEMMA QueueSteps == QueueInv /\ [QueueNext]_queueVars => QueueInv'
<1> SUFFICES ASSUME QueueInv, [QueueNext]_queueVars PROVE QueueInv'
  OBVIOUS
<1>1. overlap' \in BOOLEAN /\ (overlap => overlap')
  <2>1. CASE FlushTick \/ UNCHANGED queueVars
    BY <2>1 DEF FlushTick, queueVars, QueueInv
  <2>2. ASSUME NEW p \in Procs, Enqueue(p) \/ Marshal(p) \/ SendOk(p) \/ SendFails(p)
        PROVE  overlap' = overlap
    BY <2>2 DEF Enqueue, Marshal, SendOk, SendFails
  <2>3. ASSUME NEW p \in Procs, TakeBatch(p)
        PROVE  overlap' = overlap \/ overlap' = (overlap \/ \E q \in Procs : pc[q] \in InFlight)
    BY <2>3 DEF TakeBatch
  <2> QED BY <2>1, <2>2, <2>3 DEF QueueNext, QueueInv
<1> SUFFICES ASSUME ~overlap' PROVE Sound'
  BY <1>1 DEF QueueInv, Sound
<1>2. Sound
  BY <1>1 DEF QueueInv, Sound
<1>3. CASE UNCHANGED queueVars
  BY <1>2, <1>3, NothingMoves DEF queueVars, Sound, SlicesOK, OneFlight, Flying
<1>4. CASE FlushTick
  <2>1. /\ pc[Ticker] = "idle" /\ pc' = [pc EXCEPT ![Ticker] = "flush"]
        /\ UNCHANGED <<heap, obsBatch, flushBatch, payload, enqueued, delivered, dropped>>
    BY <1>4 DEF FlushTick
  <2>2. /\ DOMAIN pc' = Procs
        /\ \A x \in Procs : Flying(x)' <=> Flying(x)
        /\ \A x \in Procs : pc'[x] = "send" => pc[x] = "send"
    BY <1>2, <2>1 DEF Sound, SlicesOK, Flying, InFlight
  <2> QED BY <1>2, <2>1, <2>2, NothingMoves DEF Sound, SlicesOK, OneFlight
<1>5. ASSUME NEW p \in Procs, TakeBatch(p) PROVE Sound'
  <2>1. CASE obsBatch.len = 0
    <3>1. /\ pc[p] = "flush" /\ pc' = [pc EXCEPT ![p] = "idle"]
          /\ UNCHANGED <<heap, obsBatch, flushBatch, payload, enqueued, delivered, dropped>>
      BY <1>5, <2>1 DEF TakeBatch
    <3>2. /\ DOMAIN pc' = Procs
          /\ \A x \in Procs : Flying(x)' <=> Flying(x)
          /\ \A x \in Procs : pc'[x] = "send" => pc[x] = "send"
      BY <1>2, <3>1 DEF Sound, SlicesOK, Flying, InFlight
    <3> QED BY <1>2, <3>1, <3>2, NothingMoves DEF Sound, SlicesOK, OneFlight
  <2>2. CASE obsBatch.len # 0
    <3>1. ~\E q \in Procs : pc[q] \in InFlight
      BY <1>5, <2>2 DEF TakeBatch
    <3> QED BY <1>2, <1>5, <2>2, <3>1, TakeKeeps
  <2> QED BY <2>1, <2>2
<1>6. ASSUME NEW p \in Procs, Marshal(p) PROVE Sound'
  <2>1. /\ pc[p] = "marshal" /\ pc' = [pc EXCEPT ![p] = "send"]
        /\ payload' = [payload EXCEPT ![p] = At(heap, flushBatch[p])]
        /\ UNCHANGED <<heap, obsBatch, flushBatch, enqueued, delivered, dropped>>
    BY <1>6 DEF Marshal
  <2>2. /\ DOMAIN pc' = Procs /\ DOMAIN payload' = Procs
        /\ \A x \in Procs : Flying(x)' <=> Flying(x)
    BY <1>2, <2>1 DEF Sound, SlicesOK, Flying, InFlight
  <2>3. \A x \in Procs : pc'[x] = "send" => payload'[x] = At(heap, flushBatch[x])
    BY <1>2, <2>1 DEF Sound, SlicesOK, OneFlight
  <2> QED BY <1>2, <2>1, <2>2, <2>3, NothingMoves
<1> QED BY <1>2, <1>3, <1>4, <1>5, <1>6, EnqueueKeeps, SendOkKeeps, SendFailsKeeps DEF QueueNext

\* The invariant accounts for every observation.
LEMMA QueueInvImplies == QueueInv => LossNeedsOverlap
<1> SUFFICES ASSUME Sound
             PROVE  /\ NoSilentLoss
                    /\ \A j, k \in 1..obsBatch.len : j < k => Queue[j] < Queue[k]
  BY DEF QueueInv, LossNeedsOverlap, Sound
<1>1. /\ heap \in [Arrays -> Seq(Nat)] /\ obsBatch \in Slices /\ Within(heap, obsBatch)
      /\ \A p \in Procs : Flying(p) => flushBatch[p] \in Slices /\ Within(heap, flushBatch[p])
  BY DEF Sound, SlicesOK, Within
<1>2. /\ DOMAIN Queue = 1..obsBatch.len
      /\ \A k \in 1..obsBatch.len : Queue[k] = Elem(heap, obsBatch, k)
  BY <1>1, Contents DEF Queue
<1>3. \A j, k \in 1..obsBatch.len : j < k => Queue[j] < Queue[k]
  BY <1>2 DEF Sound, ArrivalOrder, InOrder
<1>4. ASSUME NEW o \in 1..enqueued PROVE o \in Range(Queue) \cup InHand \cup delivered \cup dropped
  <2>1. CASE Among(o, heap, obsBatch)
    BY <1>2, <2>1 DEF Among, Range
  <2>2. CASE \E p \in Procs : Flying(p) /\ Among(o, heap, flushBatch[p])
    <3>1. PICK p \in Procs : Flying(p) /\ Among(o, heap, flushBatch[p])
      BY <2>2
    <3>2. o \in Range(At(heap, flushBatch[p]))
      BY <1>1, <3>1, Contents DEF Among, Range
    <3> QED BY <3>2 DEF InHand
  <2> QED BY <2>1, <2>2 DEF Sound, Accounted
<1> QED BY <1>3, <1>4 DEF NoSilentLoss

\* However many pool workers, observations and refused batches there are, and whatever
\* the batch length and the cap: as long as no two flushes of the observation queue have
\* been in flight at once, every observation that was accepted is queued, in flight,
\* delivered or counted as dropped, and the queue is in arrival order.
THEOREM LossTakesOverlap == QueueSpec => []LossNeedsOverlap
  BY QueueStarts, QueueSteps, QueueInvImplies, PTL DEF QueueSpec

=============================================================================
