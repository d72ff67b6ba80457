---------------------------- MODULE Wis2Adapter -----------------------------
(***************************************************************************)
(* The WIS2 adapter from the broker to the core: one MQTT connection at a  *)
(* time, a bounded queue of notifications, a pool of workers that drop     *)
(* duplicates, fetch and decode what a notification announces, batches of  *)
(* warnings and of storm tracks flushed by whoever fills them or by a      *)
(* ticker, counters reported once a minute, and the shutdown of it all.    *)
(*                                                                         *)
(* A notification stands for one feature of its batch.  Observations are   *)
(* handed to the queue of Wis2ObsQueue.  Steps are the critical sections   *)
(* of the mutexes and the calls to the network between them.               *)
(***************************************************************************)
EXTENDS Naturals, Sequences, FiniteSets

CONSTANTS
    Notifications,        \* the messages the brokers publish
    NotificationId,       \* wnmMsg.ID, or NoId when it is empty
    DataId,               \* wnmMsg.Properties.DataID, or NoId when it is empty
    NoId,
    Malformed,            \* the messages that ParseWNM may be unable to read
    KindsOf,              \* what ClassifyTopic may make of the topic it comes on
    Inline,               \* the notifications that carry their data with them
    Brokers,              \* the number of configured brokers
    Alive,                \* the brokers that can be connected to
    BackoffCeiling,       \* the rotator's ceiling, as a number of doublings
    Workers,              \* the worker pool
    InboundCap,           \* DefaultInboundCap
    DownloadConcurrency,  \* slots of downloadSem
    BatchLimit,           \* CapBatchLimit, TCBatchLimit
    MaxReports,           \* bound: health reports but the last
    MaxFaults             \* bound: lost connections, refused requests, 429s, expiries

Kinds   == {"warnings", "trajectory", "synop", "other"}
Batched == {"warnings", "trajectory"}

ASSUME Wis2AdapterAssumption ==
    /\ NotificationId = [n \in Notifications |-> NotificationId[n]]
    /\ DataId = [n \in Notifications |-> DataId[n]]
    /\ KindsOf \in [Notifications -> SUBSET Kinds] /\ NoId \notin Notifications
    /\ Inline \subseteq Notifications /\ Malformed \subseteq Notifications
    /\ Brokers \in Nat \ {0} /\ Alive \subseteq 0..(Brokers - 1)
    /\ BackoffCeiling \in Nat \ {0}
    /\ IsFiniteSet(Workers)
    /\ InboundCap \in Nat \ {0} /\ DownloadConcurrency \in Nat \ {0}
    /\ BatchLimit \in Nat \ {0} /\ MaxReports \in Nat /\ MaxFaults \in Nat

VARIABLES
    link,        \* the broker connection: "dial", "up", "wait" (backoff), "closed"
    broker,      \* rotator.currentIndex
    backoff,     \* rotator.backoff: 0, or one more than the doublings of the floor
    listening,   \* the topics are subscribed to
    inbound,     \* inboundQueue
    work,        \* the workers
    ids, dataIds,\* dedupCache: notifications and dataIDs that have not expired
    batch,       \* capBatch and tcBatch
    flusher,     \* the flush goroutine
    health,      \* the health counters of the current window
    reporter,    \* the health goroutine
    stop,        \* ctx is done
    due,         \* what was batched or being sent when it was done
    arrived,     \* notifications the broker has delivered
    fate,        \* what became of a notification, once that is settled
    forgotten,   \* data ids that have expired from the cache
    reported,    \* the counts in reports taken so far
    reports,
    faults

linkVars == <<link, broker, backoff, listening>>
reportVars == <<reported, reports>>
stopVars == <<stop, due>>
cacheVars == <<ids, dataIds, forgotten>>
vars == <<linkVars, inbound, work, cacheVars, batch, flusher, health, reporter, stopVars,
          arrived, fate, reportVars, faults>>

Idle == [pc |-> "idle", n |-> NoId, kind |-> "none", again |-> TRUE, sending |-> {}]
FlusherDone(last) == [pc |-> IF last THEN "gone" ELSE "idle", kind |-> "none", last |-> FALSE,
                      sending |-> {}]
Zero == [received |-> 0, duplicates |-> 0, failed |-> 0]

\* Where a worker holds a slot of downloadSem.
Downloading == {"canonical", "fallback", "busyCanonical", "busyFallback"}
SlotsTaken == Cardinality({w \in Workers : work[w].pc \in Downloading})

Fault == faults < MaxFaults /\ faults' = faults + 1

Init ==
    /\ link = "dial" /\ broker = 0 /\ backoff = 0 /\ listening = FALSE
    /\ inbound = <<>>
    /\ work = [w \in Workers |-> Idle]
    /\ ids = {} /\ dataIds = {} /\ forgotten = {}
    /\ batch = [k \in Batched |-> {}]
    /\ flusher = FlusherDone(FALSE)
    /\ health = Zero /\ reporter = "idle" /\ reported = Zero /\ reports = 0
    /\ stop = FALSE /\ due = {}
    /\ arrived = {}
    /\ fate = [n \in Notifications |-> "open"]
    /\ faults = 0

-----------------------------------------------------------------------------
\* MQTTBroker.Run: one broker after the other, with a growing delay.

Rotate ==
    /\ broker' = (broker + 1) % Brokers
    /\ backoff' = IF backoff < BackoffCeiling THEN backoff + 1 ELSE backoff
    /\ link' = "wait"
    /\ listening' = FALSE

Others == <<inbound, work, cacheVars, batch, flusher, health, reporter, arrived, fate, reportVars>>

\* The connection is up and so is, unless that fails, the subscription.
Connect ==
    /\ link = "dial" /\ ~stop /\ broker \in Alive
    /\ link' = "up" /\ backoff' = 0
    /\ \/ listening' = TRUE /\ UNCHANGED faults
       \/ listening' = FALSE /\ Fault
    /\ UNCHANGED <<Others, broker, stopVars>>

ConnectFails ==
    /\ link = "dial" /\ ~stop
    /\ IF broker \in Alive THEN Fault ELSE UNCHANGED faults
    /\ Rotate
    /\ UNCHANGED <<Others, stopVars>>

ConnectionLost ==
    /\ link = "up" /\ ~stop
    /\ Fault
    /\ Rotate
    /\ UNCHANGED <<Others, stopVars>>

BackoffOver ==
    /\ link = "wait" /\ ~stop
    /\ link' = "dial"
    /\ UNCHANGED <<Others, broker, backoff, listening, stopVars, faults>>

BrokerStops ==
    /\ stop /\ link # "closed"
    /\ link' = "closed" /\ listening' = FALSE
    /\ UNCHANGED <<Others, broker, backoff, stopVars, faults>>

\* Mutant of Receive: the ids are taken into the cache on arrival, also when
\* the notification is then dropped.
ReceiveCaching(n) ==
    /\ link = "up" /\ listening
    /\ n \notin arrived
    /\ arrived' = arrived \cup {n}
    /\ IF Len(inbound) < InboundCap
         THEN inbound' = Append(inbound, n) /\ UNCHANGED <<fate, dataIds>>
         ELSE /\ fate' = [fate EXCEPT ![n] = "droppedInbound"]
              /\ dataIds' = dataIds \cup ({DataId[n]} \ {NoId})
              /\ UNCHANGED inbound
    /\ UNCHANGED <<linkVars, work, ids, forgotten, batch, flusher, health, reporter, stopVars,
                   reportVars, faults>>

\* The handler passed to broker.Run: it never blocks, and drops when the
\* queue is full.
Receive(n) ==
    /\ link = "up" /\ listening
    /\ n \notin arrived
    /\ arrived' = arrived \cup {n}
    /\ IF Len(inbound) < InboundCap
         THEN inbound' = Append(inbound, n) /\ UNCHANGED fate
         ELSE fate' = [fate EXCEPT ![n] = "droppedInbound"] /\ UNCHANGED inbound
    /\ UNCHANGED <<linkVars, work, cacheVars, batch, flusher, health, reporter, stopVars,
                   reportVars, faults>>

-----------------------------------------------------------------------------
\* A worker and handleMessage.

WorkerOnly(w, s) ==
    /\ work' = [work EXCEPT ![w] = s]
    /\ UNCHANGED <<linkVars, inbound, cacheVars, batch, flusher, health, reporter, stopVars,
                   arrived, fate, reportVars, faults>>

\* A worker takes a job and counts it, also after the stop: the select of the
\* worker's loop picks any of the two that is ready.
Take(w) ==
    /\ work[w].pc = "idle" /\ inbound # <<>>
    /\ \E k \in KindsOf[Head(inbound)] :
          work' = [work EXCEPT ![w] = [Idle EXCEPT !.pc = "check", !.n = Head(inbound), !.kind = k]]
    /\ inbound' = Tail(inbound)
    /\ health' = [health EXCEPT !.received = @ + 1]
    /\ UNCHANGED <<linkVars, cacheVars, batch, flusher, reporter, stopVars, arrived, fate,
                   reportVars, faults>>

\* Mutant of Known: only the notification's own id is looked up.
KnownById(n) == NotificationId[n] \in ids

Known(n) ==
    \/ NotificationId[n] \in ids
    \/ DataId[n] \in dataIds

\* CheckOrAdd: a notification with either id in the cache is a duplicate, and
\* any other has its ids in the cache from here on.
CheckOrAdd(w) ==
    LET n == work[w].n IN
    /\ work[w].pc = "check"
    /\ IF Known(n)
         THEN /\ health' = [health EXCEPT !.duplicates = @ + 1]
              /\ fate' = [fate EXCEPT ![n] = "duplicate"]
              /\ work' = [work EXCEPT ![w] = Idle]
              /\ UNCHANGED <<ids, dataIds>>
         ELSE /\ ids' = ids \cup ({NotificationId[n]} \ {NoId})
              /\ dataIds' = dataIds \cup ({DataId[n]} \ {NoId})
              /\ work' = [work EXCEPT ![w].pc = IF n \in Inline THEN "decode" ELSE "slot"]
              /\ UNCHANGED <<health, fate>>
    /\ UNCHANGED <<linkVars, inbound, forgotten, batch, flusher, reporter, stopVars, arrived,
                   reportVars, faults>>

WorkerExits(w) ==
    /\ stop /\ work[w].pc = "idle"
    /\ WorkerOnly(w, [Idle EXCEPT !.pc = "gone"])

TakeSlot(w) ==
    /\ work[w].pc = "slot"
    /\ SlotsTaken < DownloadConcurrency
    /\ WorkerOnly(w, [work[w] EXCEPT !.pc = "canonical", !.again = TRUE])

\* Waiting for a slot when the stop comes: the notification is abandoned.
GiveUpSlot(w) ==
    /\ work[w].pc = "slot" /\ stop
    /\ work' = [work EXCEPT ![w] = Idle]
    /\ fate' = [fate EXCEPT ![work[w].n] = "abandoned"]
    /\ UNCHANGED <<linkVars, inbound, cacheVars, batch, flusher, health, reporter, stopVars,
                   arrived, reportVars, faults>>

\* The worker is done with its notification, which is counted as failed.
CountFailed(w, what) ==
    /\ work' = [work EXCEPT ![w] = Idle]
    /\ health' = [health EXCEPT !.failed = @ + 1]
    /\ fate' = [fate EXCEPT ![work[w].n] = what]
    /\ UNCHANGED <<linkVars, inbound, cacheVars, batch, flusher, reporter, stopVars, arrived,
                   reportVars, faults>>

\* downloadPayload: after the canonical link the others are tried; a 429 is
\* waited out once per link, with the slot held.
DownloadOk(w) ==
    /\ work[w].pc \in {"canonical", "fallback"} /\ ~stop
    /\ WorkerOnly(w, [work[w] EXCEPT !.pc = "decode", !.again = TRUE])

CanonicalFails(w) ==
    /\ work[w].pc \in {"canonical", "busyCanonical"}
    /\ work[w].pc = "busyCanonical" => stop
    /\ WorkerOnly(w, [work[w] EXCEPT !.pc = "fallback", !.again = TRUE])

FallbackFails(w) ==
    /\ work[w].pc \in {"fallback", "busyFallback"}
    /\ work[w].pc = "busyFallback" => stop
    /\ CountFailed(w, "failed")

Busy(w) ==
    /\ work[w].pc \in {"canonical", "fallback"} /\ work[w].again
    /\ Fault
    /\ work' = [work EXCEPT ![w].again = FALSE,
                            ![w].pc = IF @ = "canonical" THEN "busyCanonical" ELSE "busyFallback"]
    /\ UNCHANGED <<linkVars, inbound, cacheVars, batch, flusher, health, reporter, stopVars,
                   arrived, fate, reportVars>>

BusyOver(w) ==
    /\ work[w].pc \in {"busyCanonical", "busyFallback"}
    /\ WorkerOnly(w, [work[w] EXCEPT !.pc = IF @ = "busyCanonical" THEN "canonical" ELSE "fallback"])

\* The message cannot be read.
ParseFails(w) ==
    /\ work[w].pc = "check" /\ work[w].n \in Malformed
    /\ CountFailed(w, "unreadable")

\* Inline data that cannot be decoded, or the integrity value does not match.
IntegrityFails(w) ==
    /\ work[w].pc = "decode"
    /\ CountFailed(w, "failed")

Settled(w, what) ==
    /\ work' = [work EXCEPT ![w] = Idle]
    /\ fate' = [fate EXCEPT ![work[w].n] = what]
    /\ UNCHANGED <<linkVars, inbound, cacheVars, batch, flusher, health, reporter, stopVars, arrived,
                   reportVars, faults>>

\* enqueueCAPFeature, enqueueTCFeature: whoever fills the batch flushes it.
EnqueueFeature(w) ==
    LET k == work[w].kind IN
    /\ batch' = [batch EXCEPT ![k] = @ \cup {work[w].n}]
    /\ work' = [work EXCEPT ![w] = IF Cardinality(batch'[k]) >= BatchLimit
                                     THEN [Idle EXCEPT !.pc = "flush", !.kind = k]
                                     ELSE Idle]
    /\ UNCHANGED <<linkVars, inbound, cacheVars, flusher, health, reporter, stopVars, arrived, fate,
                   reportVars, faults>>

\* No CAP document, or one for the batch; its area is looked up at best effort.
HandleWarnings(w) ==
    /\ work[w].pc = "decode" /\ work[w].kind = "warnings"
    /\ CountFailed(w, "failed") \/ EnqueueFeature(w)

\* No BUFR, no track with a point (counted nowhere), or one for the batch.
HandleTrajectory(w) ==
    /\ work[w].pc = "decode" /\ work[w].kind = "trajectory"
    /\ CountFailed(w, "failed") \/ Settled(w, "ignored") \/ EnqueueFeature(w)

\* No BUFR, nothing of use in it (counted nowhere), or an observation.
HandleSynop(w) ==
    /\ work[w].pc = "decode" /\ work[w].kind = "synop"
    /\ CountFailed(w, "failed") \/ Settled(w, "ignored") \/ Settled(w, "queued")

\* A topic that is not handled: downloaded for nothing and counted nowhere.
HandleOther(w) ==
    /\ work[w].pc = "decode" /\ work[w].kind = "other"
    /\ Settled(w, "ignored")

\* Mutant of WorkerFlush: the batch is sent but left in place.
WorkerFlushKeeping(w) ==
    LET k == work[w].kind IN
    /\ work[w].pc = "flush"
    /\ work' = [work EXCEPT ![w] = IF batch[k] = {} THEN Idle
                                   ELSE [Idle EXCEPT !.pc = "send", !.sending = batch[k]]]
    /\ UNCHANGED <<linkVars, inbound, cacheVars, batch, flusher, health, reporter, stopVars, arrived,
                   fate, reportVars, faults>>

\* flushCapBatch, flushTCBatch: the batch is taken away under the lock and
\* then sent; it may have been taken by another by now.
WorkerFlush(w) ==
    LET k == work[w].kind IN
    /\ work[w].pc = "flush"
    /\ work' = [work EXCEPT ![w] = IF batch[k] = {} THEN Idle
                                   ELSE [Idle EXCEPT !.pc = "send", !.sending = batch[k]]]
    /\ batch' = [batch EXCEPT ![k] = {}]
    /\ UNCHANGED <<linkVars, inbound, cacheVars, flusher, health, reporter, stopVars, arrived,
                   fate, reportVars, faults>>

Settle(set, what) == fate' = [n \in Notifications |-> IF n \in set THEN what ELSE fate[n]]

\* The core answers; with the context cancelled the request fails.  A batch
\* that is not accepted is gone.
WorkerSent(w) ==
    /\ work[w].pc = "send"
    /\ \/ ~stop /\ Settle(work[w].sending, "delivered") /\ UNCHANGED faults
       \/ stop /\ Settle(work[w].sending, "refused") /\ UNCHANGED faults
       \/ ~stop /\ Settle(work[w].sending, "refused") /\ Fault
    /\ work' = [work EXCEPT ![w] = Idle]
    /\ UNCHANGED <<linkVars, inbound, cacheVars, batch, flusher, health, reporter, stopVars,
                   arrived, reportVars>>

-----------------------------------------------------------------------------
\* The flush goroutine: the warnings and then the tracks whenever the ticker
\* fires, and both for the last time at the stop, then with a context that is
\* not cancelled.

\* flushCapBatch and flushTCBatch as the goroutine calls them: an empty batch
\* is passed over.
FlushFrom(kinds, last) ==
    LET full == {k \in kinds : batch[k] # {}}
        k   == IF "warnings" \in full THEN "warnings" ELSE "trajectory" IN
    /\ IF full = {}
         THEN flusher' = FlusherDone(last) /\ UNCHANGED batch
         ELSE /\ flusher' = [pc |-> "send", kind |-> k, last |-> last, sending |-> batch[k]]
              /\ batch' = [batch EXCEPT ![k] = {}]
    /\ UNCHANGED <<linkVars, inbound, work, cacheVars, health, reporter, stopVars, arrived, fate,
                   reportVars, faults>>

\* Mutant of Tick: the goroutine ends at the stop without a last flush.
TickNoLastFlush ==
    /\ flusher.pc = "idle"
    /\ \E last \in {FALSE, stop} : FlushFrom(IF last THEN {} ELSE Batched, last)

\* After the stop the select may still pick a ticker that is ready, and then
\* flushes with the cancelled context.
Tick ==
    /\ flusher.pc = "idle"
    /\ \E last \in {FALSE, stop} : FlushFrom(Batched, last)

FlusherNext == flusher.pc = "next" /\ FlushFrom(Batched \ {"warnings"}, flusher.last)

FlusherSent ==
    LET cancelled == stop /\ ~flusher.last IN
    /\ flusher.pc = "send"
    /\ \/ ~cancelled /\ Settle(flusher.sending, "delivered") /\ UNCHANGED faults
       \/ cancelled /\ Settle(flusher.sending, "refused") /\ UNCHANGED faults
       \/ ~cancelled /\ Settle(flusher.sending, "refused") /\ Fault
    /\ flusher' = IF flusher.kind = "warnings"
                    THEN [flusher EXCEPT !.pc = "next", !.sending = {}]
                    ELSE FlusherDone(flusher.last)
    /\ UNCHANGED <<linkVars, inbound, work, cacheVars, batch, health, reporter, stopVars, arrived,
                   reportVars>>

-----------------------------------------------------------------------------
\* reportHealth: the counters are copied and reset under their lock and then
\* sent, once more at the stop.  Accepted or not, the window is over.

\* Mutant of Report: the counters are reported and not reset.
ReportKeeping ==
    /\ reporter # "gone"
    /\ \/ stop /\ reporter' = "gone" /\ UNCHANGED reports
       \/ reports < MaxReports /\ reports' = reports + 1 /\ UNCHANGED reporter
    /\ reported' = [c \in DOMAIN reported |-> reported[c] + health[c]]
    /\ UNCHANGED <<linkVars, inbound, work, cacheVars, batch, flusher, health, stopVars, arrived,
                   fate, faults>>

Report ==
    /\ reporter # "gone"
    /\ \/ stop /\ reporter' = "gone" /\ UNCHANGED reports
       \/ reports < MaxReports /\ reports' = reports + 1 /\ UNCHANGED reporter
    /\ reported' = [c \in DOMAIN reported |-> reported[c] + health[c]]
    /\ health' = Zero
    /\ UNCHANGED <<linkVars, inbound, work, cacheVars, batch, flusher, stopVars, arrived, fate, faults>>

\* An entry of the cache reaches its time to live.
CacheExpires ==
    /\ Fault
    /\ \/ \E i \in ids : ids' = ids \ {i} /\ UNCHANGED <<dataIds, forgotten>>
       \/ \E d \in dataIds : dataIds' = dataIds \ {d} /\ forgotten' = forgotten \cup {d} /\ UNCHANGED ids
    /\ UNCHANGED <<linkVars, inbound, work, batch, flusher, health, reporter, stopVars, arrived, fate,
                   reportVars>>

Stop ==
    /\ ~stop /\ stop' = TRUE
    /\ due' = {n \in arrived : \/ \E k \in Batched : n \in batch[k]
                                \/ \E w \in Workers : n \in work[w].sending
                                \/ n \in flusher.sending}
    /\ UNCHANGED <<linkVars, inbound, work, cacheVars, batch, flusher, health, reporter, arrived,
                   fate, reportVars, faults>>

\* wg.Wait returns: every goroutine has ended.
Returned ==
    /\ link = "closed" /\ flusher.pc = "gone" /\ reporter = "gone"
    /\ \A w \in Workers : work[w].pc = "gone"

Return == Returned /\ UNCHANGED vars

Link == Connect \/ ConnectFails \/ ConnectionLost \/ BackoffOver \/ BrokerStops

WorkerStep(w) ==
    \/ Take(w) \/ CheckOrAdd(w) \/ ParseFails(w)
    \/ TakeSlot(w) \/ DownloadOk(w) \/ CanonicalFails(w) \/ FallbackFails(w) \/ BusyOver(w)
    \/ IntegrityFails(w) \/ HandleWarnings(w) \/ HandleTrajectory(w) \/ HandleSynop(w)
    \/ HandleOther(w) \/ WorkerFlush(w) \/ WorkerSent(w)
    \/ WorkerExits(w) \/ GiveUpSlot(w)

Flusher == Tick \/ FlusherNext \/ FlusherSent

Next ==
    \/ Link
    \/ \E n \in Notifications : Receive(n)
    \/ \E w \in Workers : WorkerStep(w) \/ Busy(w)
    \/ Flusher
    \/ Report
    \/ CacheExpires
    \/ Stop
    \/ Return

Spec == Init /\ [][Next]_vars

-----------------------------------------------------------------------------
\* Properties.

\* The places a notification can be in between its arrival and its fate.
Held(n) ==
    Cardinality({i \in DOMAIN inbound : inbound[i] = n})
    + Cardinality({w \in Workers : work[w].n = n})
    + Cardinality({w \in Workers : n \in work[w].sending})
    + Cardinality({k \in Batched : n \in batch[k]})
    + (IF n \in flusher.sending THEN 1 ELSE 0)

\* A notification the broker delivered is in exactly one place until its fate
\* is settled, and nowhere after: whatever worker and ticker do to the shared
\* queue and batches, none is lost on the way and none is sent twice.
Conserved ==
    \A n \in Notifications :
        Held(n) = IF n \in arrived /\ fate[n] = "open" THEN 1 ELSE 0

\* Two workers on copies of the same data, from two caches or brokers: the
\* core gets that data once, unless its id has expired from the cache.
OncePerData ==
    \A m, n \in Notifications :
        (m # n /\ fate[m] = "delivered" /\ fate[n] = "delivered" /\ DataId[m] # NoId
            /\ DataId[m] = DataId[n]) => DataId[m] \in forgotten

\* A notification is dropped as a duplicate only on account of another one
\* that got past the cache: not of one lost to a full queue or unreadable.
DuplicateOfWorked ==
    \A n \in Notifications : fate[n] = "duplicate" =>
        \E m \in arrived \ {n} :
            /\ fate[m] \notin {"duplicate", "droppedInbound", "unreadable"}
            /\ \/ NotificationId[m] = NotificationId[n] /\ NotificationId[n] # NoId
               \/ DataId[m] = DataId[n] /\ DataId[n] # NoId

\* The windows reported and the current one add up, over a report that runs
\* while workers count: nothing is counted twice or lost at a reset.
CountersAddUp ==
    LET Total(c) == reported[c] + health[c]
        Number(what) == Cardinality({n \in Notifications : fate[n] = what}) IN
    /\ Total("duplicates") = Number("duplicate")
    /\ Total("failed") = Number("failed") + Number("unreadable")
    /\ Total("received") + Len(inbound) + Number("droppedInbound") = Cardinality(arrived)

\* When Execute returns, whatever was in a batch or on its way at the stop has
\* been sent or refused: only what workers still enqueued afterwards, or left
\* in the queue, is gone without an answer.
LastFlushCovers == Returned => \A n \in due : fate[n] # "open"
=============================================================================
