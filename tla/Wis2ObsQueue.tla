---------------------------- MODULE Wis2ObsQueue ----------------------------
(***************************************************************************)
(* The observation queue of the WIS2 adapter (wis2_adapter controller.go): *)
(* pool workers enqueue decoded observations and flush a full batch, a     *)
(* ticker flushes on time, and a batch the core refuses is put back.       *)
(*                                                                         *)
(* The queue is a Go slice.  A batch is the front of the same slice, so    *)
(* both share one backing array; the heap is modelled because appending to *)
(* the batch writes into that array.  Steps are the critical sections of   *)
(* obsBatchMu and the network call between them.                           *)
(***************************************************************************)
EXTENDS Naturals, Sequences, FiniteSets, Functions

CONSTANTS
    PoolWorkers,    \* goroutines of the pool
    Ticker,         \* the flush ticker's goroutine
    MaxObs,         \* number of observations that arrive
    ObsBatchLimit,  \* length of a batch
    ObsQueueCap,    \* obsQueueCap
    MaxFailures     \* bound on the number of refused batches

ASSUME WorkersAssumption == IsFiniteSet(PoolWorkers) /\ Ticker \notin PoolWorkers
ASSUME LimitsAssumption == /\ MaxObs \in Nat /\ MaxFailures \in Nat
                           /\ ObsBatchLimit \in Nat \ {0} /\ ObsQueueCap \in Nat \ {0}

VARIABLES
    heap,        \* backing arrays: sequences of observations, 0 where unused
    obsBatch,    \* the queue
    pc, flushBatch,  \* of each goroutine: its place, and the batch it sends
    payload,     \* of each goroutine: the envelope json.Marshal has written
    enqueued, failures,
    delivered,   \* observations the core has taken
    dropped,     \* observations dropped at the cap
    overlap      \* two batches have been in flight at the same time

queueVars == <<heap, obsBatch, pc, flushBatch, payload, enqueued, failures, delivered,
               dropped, overlap>>

Procs == PoolWorkers \cup {Ticker}
InFlight == {"marshal", "send"}

----------------------------------------------------------------------------
(* Go slices.                                                              *)

Nil == [arr |-> 0, off |-> 0, len |-> 0]
Arrays == 1..(Cardinality(Procs) + 2)

At(h, s) == [k \in 1..s.len |-> h[s.arr][s.off + k]]
Capacity(s) == IF s.arr = 0 THEN 0 ELSE Len(heap[s.arr]) - s.off
First(s, n) == [s EXCEPT !.len = n]                              \* s[:n]
Drop(s, n) == [s EXCEPT !.off = @ + n, !.len = @ - n]           \* s[n:]

\* growslice: twice the old capacity, or what is needed.
Grown(s, n) == IF n > 2 * Capacity(s) THEN n ELSE 2 * Capacity(s)

\* Arrays that no slice refers to are collected.
Unused == Arrays \ ({obsBatch.arr} \cup {flushBatch[p].arr : p \in Procs})

\* The outcome of append(s, q...): the heap and the slice.
AppendAll(s, q) ==
    LET n == s.len + Len(q)
        whole == At(heap, s) \o q
    IN  IF n <= Capacity(s)
        THEN [h |-> [heap EXCEPT ![s.arr] =
                       [k \in DOMAIN @ |->
                          IF k > s.off + s.len /\ k <= s.off + n
                          THEN q[k - s.off - s.len] ELSE @[k]]],
              s |-> [s EXCEPT !.len = n]]
        ELSE LET a == CHOOSE a \in Unused : TRUE
             IN  [h |-> [heap EXCEPT ![a] = [k \in 1..Grown(s, n) |->
                                               IF k <= n THEN whole[k] ELSE 0]],
                  s |-> [arr |-> a, off |-> 0, len |-> n]]

\* Forget what nobody can read any more.
Collect(h, live) == [a \in Arrays |-> IF a \in live THEN h[a] ELSE <<>>]

----------------------------------------------------------------------------
QueueInit ==
    /\ heap = [a \in Arrays |-> IF a = 1 THEN [k \in 1..ObsBatchLimit |-> 0] ELSE <<>>]
    /\ obsBatch = [arr |-> 1, off |-> 0, len |-> 0]
    /\ pc = [p \in Procs |-> "idle"] /\ flushBatch = [p \in Procs |-> Nil]
    /\ payload = [p \in Procs |-> <<>>]
    /\ enqueued = 0 /\ failures = 0 /\ delivered = {} /\ dropped = {} /\ overlap = FALSE

\* enqueueObservationFeature: at the cap the oldest make room.
Enqueue(p) ==
    LET o == enqueued + 1
        excess == IF obsBatch.len >= ObsQueueCap THEN obsBatch.len - ObsQueueCap + 1 ELSE 0
        r == AppendAll(Drop(obsBatch, excess), <<o>>)
    IN  /\ p \in PoolWorkers /\ pc[p] = "idle" /\ enqueued < MaxObs
        /\ enqueued' = o
        /\ dropped' = dropped \cup Range(At(heap, First(obsBatch, excess)))
        /\ obsBatch' = r.s
        /\ heap' = Collect(r.h, {r.s.arr} \cup {flushBatch[q].arr : q \in Procs})
        /\ pc' = [pc EXCEPT ![p] = IF r.s.len >= ObsBatchLimit THEN "flush" ELSE "idle"]
        /\ UNCHANGED <<flushBatch, payload, failures, delivered, overlap>>

\* The ticker of Execute's second background worker.
FlushTick ==
    /\ pc[Ticker] = "idle" /\ pc' = [pc EXCEPT ![Ticker] = "flush"]
    /\ UNCHANGED <<heap, obsBatch, flushBatch, payload, enqueued, failures, delivered, dropped,
                   overlap>>

\* Mutant: only a full batch is taken.
TakeBatchFull(p) ==
    /\ pc[p] = "flush"
    /\ IF obsBatch.len < ObsBatchLimit
       THEN pc' = [pc EXCEPT ![p] = "idle"] /\ UNCHANGED <<obsBatch, flushBatch, overlap>>
       ELSE /\ flushBatch' = [flushBatch EXCEPT ![p] = First(obsBatch, ObsBatchLimit)]
            /\ obsBatch' = Drop(obsBatch, ObsBatchLimit)
            /\ pc' = [pc EXCEPT ![p] = "marshal"]
            /\ overlap' = (overlap \/ \E q \in Procs : pc[q] \in InFlight)
    /\ UNCHANGED <<heap, payload, enqueued, failures, delivered, dropped>>

\* flushObsBatch, first critical section.
TakeBatch(p) ==
    /\ pc[p] = "flush"
    /\ IF obsBatch.len = 0
       THEN pc' = [pc EXCEPT ![p] = "idle"] /\ UNCHANGED <<obsBatch, flushBatch, overlap>>
       ELSE LET limit == IF obsBatch.len < ObsBatchLimit THEN obsBatch.len
                                                         ELSE ObsBatchLimit
            IN  /\ flushBatch' = [flushBatch EXCEPT ![p] = First(obsBatch, limit)]
                /\ obsBatch' = Drop(obsBatch, limit)
                /\ pc' = [pc EXCEPT ![p] = "marshal"]
                /\ overlap' = (overlap \/ \E q \in Procs : pc[q] \in InFlight)
    /\ UNCHANGED <<heap, payload, enqueued, failures, delivered, dropped>>

\* Client.Send reads the batch when it builds the envelope.
Marshal(p) ==
    /\ pc[p] = "marshal" /\ pc' = [pc EXCEPT ![p] = "send"]
    /\ payload' = [payload EXCEPT ![p] = At(heap, flushBatch[p])]
    /\ UNCHANGED <<heap, obsBatch, flushBatch, enqueued, failures, delivered, dropped, overlap>>

SendOk(p) ==
    /\ pc[p] = "send" /\ pc' = [pc EXCEPT ![p] = "idle"]
    /\ delivered' = delivered \cup Range(payload[p])
    /\ flushBatch' = [flushBatch EXCEPT ![p] = Nil] /\ payload' = [payload EXCEPT ![p] = <<>>]
    /\ heap' = Collect(heap, {obsBatch.arr} \cup {flushBatch'[q].arr : q \in Procs})
    /\ UNCHANGED <<obsBatch, enqueued, failures, dropped, overlap>>

\* Mutant: a refused batch is not put back, as flushCapBatch and flushTCBatch do.
SendFailsLogged(p) ==
    /\ pc[p] = "send" /\ failures < MaxFailures /\ failures' = failures + 1
    /\ pc' = [pc EXCEPT ![p] = "idle"]
    /\ delivered' \in {delivered, delivered \cup Range(payload[p])}
    /\ flushBatch' = [flushBatch EXCEPT ![p] = Nil] /\ payload' = [payload EXCEPT ![p] = <<>>]
    /\ heap' = Collect(heap, {obsBatch.arr} \cup {flushBatch'[q].arr : q \in Procs})
    /\ UNCHANGED <<obsBatch, enqueued, dropped, overlap>>

\* Send fails (the core may have stored the batch or not); the batch goes
\* back to the head and the oldest go if the cap is exceeded.
SendFails(p) ==
    LET r == AppendAll(flushBatch[p], At(heap, obsBatch))
        excess == IF r.s.len > ObsQueueCap THEN r.s.len - ObsQueueCap ELSE 0
    IN  /\ pc[p] = "send" /\ failures < MaxFailures /\ failures' = failures + 1
        /\ pc' = [pc EXCEPT ![p] = "idle"]
        /\ obsBatch' = Drop(r.s, excess)
        /\ dropped' = dropped \cup Range(At(r.h, First(r.s, excess)))
        /\ delivered' \in {delivered, delivered \cup Range(payload[p])}
        /\ flushBatch' = [flushBatch EXCEPT ![p] = Nil] /\ payload' = [payload EXCEPT ![p] = <<>>]
        /\ heap' = Collect(r.h, {r.s.arr} \cup {flushBatch'[q].arr : q \in Procs})
        /\ UNCHANGED <<enqueued, overlap>>

QueueNext ==
    \/ FlushTick
    \/ \E p \in Procs : Enqueue(p) \/ TakeBatch(p) \/ Marshal(p) \/ SendOk(p) \/ SendFails(p)

QueueSpec == QueueInit /\ [][QueueNext]_queueVars
QueueFairness ==
    /\ WF_queueVars(FlushTick)
    /\ \A p \in Procs : /\ WF_queueVars(TakeBatch(p)) /\ WF_queueVars(Marshal(p))
                        /\ WF_queueVars(SendOk(p))
QueueLiveSpec == QueueSpec /\ QueueFairness

----------------------------------------------------------------------------
Queue == At(heap, obsBatch)
InHand == UNION {Range(At(heap, flushBatch[p])) \cup Range(payload[p]) : p \in Procs}

SliceOK(s) == /\ s.arr \in 0..Cardinality(Arrays) /\ s.off \in Nat /\ s.len \in Nat
              /\ s.arr # 0 => s.off + s.len <= Len(heap[s.arr])

\* Every slice lies within its backing array, and the queue within its cap.
QueueTypeOK ==
    /\ DOMAIN heap = Arrays
    /\ \A a \in Arrays : Range(heap[a]) \subseteq 0..MaxObs
    /\ SliceOK(obsBatch) /\ obsBatch.len <= ObsQueueCap
    /\ \A p \in Procs : SliceOK(flushBatch[p])
    /\ pc \in [Procs -> {"idle", "flush"} \cup InFlight]
    /\ enqueued \in 0..MaxObs /\ failures \in 0..MaxFailures
    /\ delivered \subseteq 1..MaxObs /\ dropped \subseteq 1..MaxObs
    /\ overlap \in BOOLEAN

\* An observation that was accepted is queued, in flight, delivered, or was
\* dropped at the cap and counted ("requeue failed batch at the head, drop
\* oldest if cap exceeded").
NoSilentLoss == 1..enqueued \subseteq Range(Queue) \cup InHand \cup delivered \cup dropped

\* Nothing vanishes, and the queue stays in arrival order, as long as no two
\* flushes have been in flight at once.
LossNeedsOverlap ==
    ~overlap => /\ NoSilentLoss
                /\ \A j, k \in 1..obsBatch.len : j < k => Queue[j] < Queue[k]

\* An observation leaves the adapter: once accepted it is delivered or counted
\* as dropped, unless an overlap of two flushes loses it.
EventuallyOut ==
    \A o \in 1..MaxObs : (o <= enqueued) ~> (o \in delivered \cup dropped \/ overlap)

=============================================================================
