----------------------------- MODULE CapAdapter -----------------------------
(***************************************************************************)
(* The CAP adapter and the core it feeds.                                  *)
(*                                                                         *)
(* The adapter goes round in cycles: the registry of authorities once a    *)
(* day, then every feed that is due (one goroutine per host), then the     *)
(* documents the core asks for (one worker per host) until the cycle is    *)
(* over.  Whatever it learns it POSTs to the core, up to maxCoreRetries    *)
(* times; a POST that is not answered in time may still be handled later.  *)
(* Validators (ETag, Last-Modified) are kept in memory; they stand here    *)
(* for the very list they were issued for.  Each feed and each document    *)
(* has a host of its own; turn-taking at a host is CapHostLimiter's.       *)
(***************************************************************************)
EXTENDS CapItems

CONSTANTS
    FirstRegistry,      \* the registry, and what the feeds list, at the start
    FirstList,
    Gone,               \* items whose document is gone, or is no CAP document
    MaxCoreRetries,     \* maxCoreRetries
    AlertBatchSize,     \* AlertBatchSize
    PendingFetchLimit,  \* PendingFetchLimit
    MaxChanges,         \* bound: changes of the registry or of a feed
    MaxFaults           \* bound: failures, lost answers, deadlines, restarts, expiry

ASSUME CapAdapterAssumption ==
    /\ FirstRegistry \in SUBSET Feeds
    /\ FirstList \in [Feeds -> SUBSET Items]
    /\ Gone \subseteq Items
    /\ MaxCoreRetries \in Nat \ {0}
    /\ AlertBatchSize \in Nat \ {0}
    /\ PendingFetchLimit \in Nat \ {0}
    /\ MaxChanges \in Nat
    /\ MaxFaults \in Nat

VARIABLES
    raaList, list,      \* upstream: the registry, the items each feed lists
    phase,              \* where Execute is
    raaDue, raaTag,     \* lastRAAFetch is a day old; the registry's validator
    raaNew,             \* the registry being POSTed
    due, tag,           \* cycles until a feed is due; its validator
    poll,               \* pollSingleFeed, per feed
    tries,              \* POSTs made of the registry or of the batch
    todo,               \* pending items not downloaded yet in this round
    got, batch,         \* resultsCh; the batch being collected
    expired,            \* the cycle's deadline has passed
    downloads, aged,    \* per item: downloads so far; those 15 minutes old
    lateRegistry,       \* unanswered registry POSTs still on their way
    lateIndex,          \* unanswered index POSTs still on their way
    overrun,            \* a late registry was written over a newer one
    crossed,            \* items of which an older download was reported after a newer
    changes, faults     \* bounds

adapterVars == <<phase, raaDue, raaTag, raaNew, due, tag, poll, tries, todo, got, batch, expired>>
upstreamVars == <<raaList, list>>
timeVars == <<downloads, aged>>
lateVars == <<lateRegistry, lateIndex, overrun, crossed>>
bounds == <<changes, faults>>
vars == <<coreVars, adapterVars, upstreamVars, timeVars, lateVars, bounds>>

None == {"none"}     \* no validator

\* pollSingleFeed: waiting for the host and the answer, or POSTing an index.
NoPoll           == [pc |-> "off", ok |-> TRUE, listed |-> {}, fresh |-> FALSE, n |-> 0]
GetPoll          == [NoPoll EXCEPT !.pc = "get"]
PostPoll(ok, new, l) == [pc |-> "post", ok |-> ok, listed |-> l, fresh |-> new, n |-> 1]

Fault == faults < MaxFaults /\ faults' = faults + 1

Init ==
    /\ CoreInit
    /\ raaList = FirstRegistry
    /\ list = FirstList
    /\ phase = "raa"
    /\ raaDue = TRUE /\ raaTag = None /\ raaNew = {}
    /\ due = [f \in Feeds |-> 0]
    /\ tag = [f \in Feeds |-> None]
    /\ poll = [f \in Feeds |-> NoPoll]
    /\ tries = 0
    /\ todo = {} /\ got = {} /\ batch = {} /\ expired = FALSE
    /\ downloads = [i \in Items |-> 0]
    /\ aged = [i \in Items |-> 0]
    /\ lateRegistry = {} /\ lateIndex = {} /\ overrun = FALSE /\ crossed = {}
    /\ changes = 0 /\ faults = 0

-----------------------------------------------------------------------------
\* Upstream: the registry and the feeds change, documents come and go.  A
\* list is read once in a cycle, so it is enough that it changes between two.

PublishRegistry ==
    /\ phase = "raa"
    /\ changes < MaxChanges /\ changes' = changes + 1
    /\ \E f \in Feeds : raaList' = IF f \in raaList THEN raaList \ {f} ELSE raaList \cup {f}
    /\ UNCHANGED <<coreVars, adapterVars, list, timeVars, lateVars, faults>>

PublishFeed(f) ==
    /\ phase = "raa"
    /\ changes < MaxChanges /\ changes' = changes + 1
    /\ \E i \in Items : list' = [list EXCEPT ![f] = IF i \in @ THEN @ \ {i} ELSE @ \cup {i}]
    /\ UNCHANGED <<coreVars, adapterVars, raaList, timeVars, lateVars, faults>>

\* Fifteen minutes pass after a failed download.  No POST is under way that
\* long.
FifteenMinutes(i) ==
    /\ item[i].state = "failed" /\ aged[i] < item[i].last
    /\ \A r \in got \cup batch : r.item # i
    /\ \A s \in Slots : \A r \in jobs[s].left \cup jobs[s].repeats : r.item # i
    /\ aged' = [aged EXCEPT ![i] = item[i].last]
    /\ UNCHANGED <<coreVars, adapterVars, upstreamVars, downloads, lateVars, bounds>>

-----------------------------------------------------------------------------
\* pollRAA.

ToFeeds == phase' = "feeds" /\ tries' = 0

SkipRegistry ==
    /\ phase = "raa" /\ ~raaDue
    /\ ToFeeds
    /\ UNCHANGED <<coreVars, raaDue, raaTag, raaNew, due, tag, poll, todo, got, batch, expired,
                   upstreamVars, timeVars, lateVars, bounds>>

\* No answer, an error status, or a document that cannot be read.
RegistryGetFails ==
    /\ phase = "raa" /\ raaDue
    /\ Fault
    /\ ToFeeds
    /\ UNCHANGED <<coreVars, raaDue, raaTag, raaNew, due, tag, poll, todo, got, batch, expired,
                   upstreamVars, timeVars, lateVars, changes>>

RegistryNotModified ==
    /\ phase = "raa" /\ raaDue
    /\ raaTag = raaList
    /\ raaDue' = FALSE
    /\ ToFeeds
    /\ UNCHANGED <<coreVars, raaTag, raaNew, due, tag, poll, todo, got, batch, expired,
                   upstreamVars, timeVars, lateVars, bounds>>

RegistryGet ==
    /\ phase = "raa" /\ raaDue
    /\ raaTag # raaList
    /\ raaNew' = raaList
    /\ phase' = "raaPost" /\ tries' = 1
    /\ UNCHANGED <<coreVars, raaDue, raaTag, due, tag, poll, todo, got, batch, expired,
                   upstreamVars, timeVars, lateVars, bounds>>

RegistryPosted ==
    /\ phase = "raaPost"
    /\ RegistryAccepted(raaNew)
    /\ WriteRegistry(raaNew)
    /\ raaTag' = raaNew /\ raaDue' = FALSE
    /\ overrun' = FALSE
    /\ raaNew' = {}
    /\ ToFeeds
    /\ UNCHANGED <<due, tag, poll, todo, got, batch, expired, upstreamVars, timeVars,
                   lateRegistry, lateIndex, crossed, bounds>>

\* The next attempt, or none is left and the registry stays due.
RegistryRetry ==
    /\ IF tries < MaxCoreRetries
         THEN tries' = tries + 1 /\ UNCHANGED <<phase, raaNew>>
         ELSE ToFeeds /\ raaNew' = {}
    /\ UNCHANGED <<coreVars, raaDue, raaTag, due, tag, poll, todo, got, batch, expired,
                   upstreamVars, timeVars, lateIndex, overrun, crossed, changes>>

RegistryRefused ==
    /\ phase = "raaPost"
    /\ IF RegistryAccepted(raaNew) THEN Fault ELSE faults' = faults
    /\ RegistryRetry
    /\ UNCHANGED lateRegistry

RegistryUnanswered ==
    /\ phase = "raaPost"
    /\ Fault
    /\ lateRegistry' = lateRegistry \cup {raaNew}
    /\ RegistryRetry

LateRegistry ==
    /\ \E l \in lateRegistry :
         /\ IF RegistryAccepted(l)
              THEN WriteRegistry(l) /\ overrun' = (overrun \/ raaTag \notin {None, l})
              ELSE UNCHANGED <<coreVars, overrun>>
         /\ lateRegistry' = lateRegistry \ {l}
    /\ UNCHANGED <<adapterVars, upstreamVars, timeVars, lateIndex, crossed, bounds>>

-----------------------------------------------------------------------------
\* pollFeedsCycle and pollSingleFeed.

ListFeeds ==
    /\ phase = "feeds"
    /\ poll' = [f \in Feeds |-> IF f \in subscribed /\ due[f] = 0 THEN GetPoll ELSE NoPoll]
    /\ phase' = "polling"
    /\ UNCHANGED <<coreVars, raaDue, raaTag, raaNew, due, tag, tries, todo, got, batch, expired,
                   upstreamVars, timeVars, lateVars, bounds>>

ListFeedsFails ==
    /\ phase = "feeds"
    /\ Fault
    /\ phase' = "drain"
    /\ UNCHANGED <<coreVars, raaDue, raaTag, raaNew, due, tag, poll, tries, todo, got, batch, expired,
                   upstreamVars, timeVars, lateVars, changes>>

\* Mutant of Polled: the validator is kept with the answer, before the POST.
PolledKeepsTag(f, p) ==
    /\ phase = "polling" /\ poll[f].pc = "get"
    /\ due' = [due EXCEPT ![f] = PollInterval(f)]
    /\ poll' = [poll EXCEPT ![f] = p]
    /\ tag' = IF p.fresh THEN [tag EXCEPT ![f] = p.listed] ELSE tag
    /\ UNCHANGED <<coreVars, phase, raaDue, raaTag, raaNew, tries, todo, got, batch, expired,
                   upstreamVars, timeVars, lateVars, changes>>

\* The answer is in: the feed rests for its interval, and the result is POSTed.
Polled(f, p) ==
    /\ phase = "polling" /\ poll[f].pc = "get"
    /\ due' = [due EXCEPT ![f] = PollInterval(f)]
    /\ poll' = [poll EXCEPT ![f] = p]
    /\ UNCHANGED <<coreVars, phase, raaDue, raaTag, raaNew, tag, tries, todo, got, batch, expired,
                   upstreamVars, timeVars, lateVars, changes>>

FeedGetFails(f)    == Fault /\ Polled(f, PostPoll(FALSE, FALSE, {}))
FeedNotModified(f) == tag[f] = list[f] /\ Polled(f, PostPoll(TRUE, FALSE, {})) /\ UNCHANGED faults
FeedGet(f)         == tag[f] # list[f] /\ Polled(f, PostPoll(TRUE, TRUE, list[f])) /\ UNCHANGED faults

\* SendIndex succeeds: only now, and only for a list, the validator is kept.
IndexPosted(f) ==
    /\ phase = "polling" /\ poll[f].pc = "post"
    /\ WriteIndex(f, poll[f].ok, poll[f].listed)
    /\ tag' = IF poll[f].fresh THEN [tag EXCEPT ![f] = poll[f].listed] ELSE tag
    /\ poll' = [poll EXCEPT ![f] = NoPoll]
    /\ UNCHANGED <<phase, raaDue, raaTag, raaNew, due, tries, todo, got, batch, expired,
                   upstreamVars, timeVars, lateVars, bounds>>

IndexRetry(f) ==
    /\ phase = "polling" /\ poll[f].pc = "post"
    /\ Fault
    /\ IF poll[f].n < MaxCoreRetries
         THEN poll' = [poll EXCEPT ![f].n = @ + 1]
         ELSE poll' = [poll EXCEPT ![f] = NoPoll]
    /\ UNCHANGED <<coreVars, phase, raaDue, raaTag, raaNew, due, tag, tries, todo, got, batch, expired,
                   upstreamVars, timeVars, lateRegistry, overrun, crossed, changes>>

IndexRefused(f) == IndexRetry(f) /\ UNCHANGED lateIndex

Index(f) == [feed |-> f, ok |-> poll[f].ok, listed |-> poll[f].listed]

IndexUnanswered(f) ==
    /\ IndexRetry(f)
    /\ lateIndex' = lateIndex \cup {Index(f)}

LateIndex ==
    /\ \E x \in lateIndex :
         /\ WriteIndex(x.feed, x.ok, x.listed)
         /\ lateIndex' = lateIndex \ {x}
    /\ UNCHANGED <<adapterVars, upstreamVars, timeVars, lateRegistry, overrun, crossed, bounds>>

\* The feeds' deadline: downloads are given up with the feed still due, POSTs
\* are given up, handled or not.
FeedDeadline ==
    /\ phase = "polling"
    /\ \E f \in Feeds : poll[f] # NoPoll
    /\ Fault
    /\ \E late \in SUBSET {f \in Feeds : poll[f].pc = "post"} :
         lateIndex' = lateIndex \cup {Index(f) : f \in late}
    /\ poll' = [f \in Feeds |-> NoPoll]
    /\ phase' = "drain"
    /\ UNCHANGED <<coreVars, raaDue, raaTag, raaNew, due, tag, tries, todo, got, batch, expired,
                   upstreamVars, timeVars, lateRegistry, overrun, crossed, changes>>

FeedsDone ==
    /\ phase = "polling"
    /\ \A f \in Feeds : poll[f] = NoPoll
    /\ phase' = "drain"
    /\ UNCHANGED <<coreVars, raaDue, raaTag, raaNew, due, tag, poll, tries, todo, got, batch, expired,
                   upstreamVars, timeVars, lateVars, bounds>>

-----------------------------------------------------------------------------
\* drainPending.

PendingItems == {i \in Items : Pending(i, aged[i])}

ToSleep == phase' = "sleep" /\ todo' = {} /\ got' = {} /\ batch' = {} /\ tries' = 0

\* A round: up to PendingFetchLimit items, newest first in the core's order.
FetchPending ==
    /\ phase = "drain" /\ ~expired /\ PendingItems # {}
    /\ \E t \in SUBSET PendingItems :
         /\ t # {}
         /\ Cardinality(t) <= PendingFetchLimit
         /\ Cardinality(t) = PendingFetchLimit \/ t = PendingItems
         /\ todo' = t
    /\ phase' = "fetching"
    /\ UNCHANGED <<coreVars, raaDue, raaTag, raaNew, due, tag, poll, tries, got, batch, expired,
                   upstreamVars, timeVars, lateVars, bounds>>

DrainEnds ==
    /\ phase = "drain"
    /\ expired \/ PendingItems = {}
    /\ ToSleep
    /\ UNCHANGED <<coreVars, raaDue, raaTag, raaNew, due, tag, poll, expired,
                   upstreamVars, timeVars, lateVars, bounds>>

FetchPendingFails ==
    /\ phase = "drain" /\ ~expired
    /\ Fault
    /\ ToSleep
    /\ UNCHANGED <<coreVars, raaDue, raaTag, raaNew, due, tag, poll, expired,
                   upstreamVars, timeVars, lateVars, changes>>

\* fetchSingleCAP; workers go on while a batch is being POSTed.
Download(i) ==
    /\ phase \in {"fetching", "posting"}
    /\ i \in todo
    /\ \E out \in IF i \in Gone THEN Outcomes ELSE Outcomes \ {"permanent"} :
         got' = got \cup {[item |-> i, at |-> downloads[i] + 1, out |-> out]}
    /\ downloads' = [downloads EXCEPT ![i] = @ + 1]
    /\ todo' = todo \ {i}
    /\ UNCHANGED <<coreVars, phase, raaDue, raaTag, raaNew, due, tag, poll, tries, batch, expired,
                   upstreamVars, aged, lateVars, bounds>>

\* The deadline: the workers start no further download.
Deadline ==
    /\ phase \in {"drain", "fetching", "posting"} /\ ~expired
    /\ Fault
    /\ expired' = TRUE
    /\ todo' = {}
    /\ UNCHANGED <<coreVars, phase, raaDue, raaTag, raaNew, due, tag, poll, tries, got, batch,
                   upstreamVars, timeVars, lateVars, changes>>

StartBatch(b) == jobs' = [jobs EXCEPT ![0] = Job("record", b)]

\* The next result is added to the batch, which is POSTed when it is full or
\* nothing more is to come.
Collect ==
    /\ phase = "fetching"
    /\ \E r \in got :
         /\ got' = got \ {r}
         /\ batch' = batch \cup {r}
         /\ IF Cardinality(batch) + 1 >= AlertBatchSize
              THEN StartBatch(batch \cup {r}) /\ phase' = "posting" /\ tries' = 1
              ELSE UNCHANGED <<jobs, phase, tries>>
    /\ UNCHANGED <<registered, subscribed, fails, item, stored, seen,
                   raaDue, raaTag, raaNew, due, tag, poll, todo, expired,
                   upstreamVars, timeVars, lateVars, bounds>>

RoundEnds ==
    /\ phase = "fetching" /\ todo = {} /\ got = {}
    /\ IF batch = {}
         THEN phase' = "drain" /\ UNCHANGED <<jobs, tries>>
         ELSE StartBatch(batch) /\ phase' = "posting" /\ tries' = 1
    /\ UNCHANGED <<registered, subscribed, fails, item, stored, seen,
                   raaDue, raaTag, raaNew, due, tag, poll, todo, got, batch, expired,
                   upstreamVars, timeVars, lateVars, bounds>>

BatchPosted ==
    /\ phase = "posting" /\ jobs[0].ph = "done"
    /\ jobs' = [jobs EXCEPT ![0] = NoJob]
    /\ batch' = {}
    /\ phase' = "fetching" /\ tries' = 0
    /\ UNCHANGED <<registered, subscribed, fails, item, stored, seen,
                   raaDue, raaTag, raaNew, due, tag, poll, todo, got, expired,
                   upstreamVars, timeVars, lateVars, bounds>>

\* Another attempt with the same batch; when none is left the drain stops and
\* everything it has downloaded is dropped.
BatchRetry(js) ==
    /\ IF tries < MaxCoreRetries
         THEN /\ jobs' = [js EXCEPT ![0] = Job("record", batch)]
              /\ tries' = tries + 1
              /\ UNCHANGED <<phase, todo, got, batch>>
         ELSE /\ jobs' = [js EXCEPT ![0] = NoJob]
              /\ ToSleep
    /\ UNCHANGED <<registered, subscribed, fails, item, stored, seen,
                   raaDue, raaTag, raaNew, due, tag, poll, expired,
                   upstreamVars, timeVars, lateVars, changes>>

BatchRefused ==
    /\ phase = "posting" /\ jobs[0].ph = "error"
    /\ BatchRetry(jobs)
    /\ UNCHANGED faults

\* The answer does not come in time; the handler goes on in a slot of its own.
BatchUnanswered ==
    /\ phase = "posting" /\ jobs[0].ph # "error"
    /\ Fault
    /\ \E s \in Slots \ {0} :
         /\ jobs[s] = NoJob
         /\ BatchRetry([jobs EXCEPT ![s] = IF jobs[0].ph = "done" THEN NoJob ELSE jobs[0]])

\* The next cycle begins; the registry may have become due.
NextCycle ==
    /\ phase = "sleep"
    /\ phase' = "raa"
    /\ raaDue' \in {raaDue, TRUE}
    /\ expired' = FALSE
    /\ due' = [f \in Feeds |-> IF due[f] = 0 THEN 0 ELSE due[f] - 1]
    /\ UNCHANGED <<coreVars, raaTag, raaNew, tag, poll, tries, todo, got, batch,
                   upstreamVars, timeVars, lateVars, bounds>>

-----------------------------------------------------------------------------
\* Restarts and the core's own steps.

\* The adapter starts again with nothing in memory; a batch under way goes on.
AdapterRestart ==
    /\ Fault
    /\ phase' = "raa" /\ raaDue' = TRUE /\ raaTag' = None /\ raaNew' = {} /\ overrun' = FALSE
    /\ due' = [f \in Feeds |-> 0]
    /\ tag' = [f \in Feeds |-> None]
    /\ poll' = [f \in Feeds |-> NoPoll]
    /\ todo' = {} /\ got' = {} /\ batch' = {} /\ tries' = 0 /\ expired' = FALSE
    /\ \/ jobs[0].ph \in {"none", "done", "error"} /\ jobs' = [jobs EXCEPT ![0] = NoJob]
       \/ /\ jobs[0].ph \notin {"none", "done", "error"}
          /\ \E s \in Slots \ {0} :
               jobs[s] = NoJob /\ jobs' = [jobs EXCEPT ![0] = NoJob, ![s] = jobs[0]]
    /\ UNCHANGED <<registered, subscribed, fails, item, stored, seen,
                   upstreamVars, timeVars, lateRegistry, lateIndex, crossed, changes>>

RestartCore ==
    /\ Fault
    /\ CoreRestart
    /\ lateRegistry' = {} /\ lateIndex' = {}
    /\ UNCHANGED <<adapterVars, upstreamVars, timeVars, overrun, crossed, changes>>

CoreOnly ==
    /\ crossed' = crossed \cup {i \in Items : item'[i].last < item[i].last}
    /\ UNCHANGED <<adapterVars, upstreamVars, timeVars, lateRegistry, lateIndex, overrun, changes>>

Handle(s)      == HandlerStep(s) /\ CoreOnly /\ UNCHANGED faults
HandleFails(s) == (WriteRecordFails(s) \/ HandlerFails(s)) /\ CoreOnly /\ Fault
SeenKeyExpires == SeenExpires /\ CoreOnly /\ Fault

Registry ==
    \/ SkipRegistry \/ RegistryGetFails \/ RegistryNotModified \/ RegistryGet
    \/ RegistryPosted \/ RegistryRefused \/ RegistryUnanswered

FeedStep(f) ==
    \/ FeedGetFails(f) \/ FeedNotModified(f) \/ FeedGet(f)
    \/ IndexPosted(f) \/ IndexRefused(f) \/ IndexUnanswered(f)

Polling == ListFeeds \/ ListFeedsFails \/ FeedDeadline \/ FeedsDone

Drain ==
    \/ FetchPending \/ DrainEnds \/ FetchPendingFails \/ Deadline \/ Collect \/ RoundEnds
    \/ BatchPosted \/ BatchRefused \/ BatchUnanswered

Next ==
    \/ PublishRegistry
    \/ \E f \in Feeds : PublishFeed(f) \/ FeedStep(f)
    \/ \E i \in Items : FifteenMinutes(i) \/ Download(i)
    \/ Registry
    \/ LateRegistry
    \/ Polling
    \/ LateIndex
    \/ Drain
    \/ NextCycle
    \/ AdapterRestart
    \/ RestartCore
    \/ \E s \in Slots : Handle(s) \/ HandleFails(s)
    \/ SeenKeyExpires

Spec == Init /\ [][Next]_vars

\* The adapter's loop, its goroutines and the core's handlers keep running,
\* and time passes; upstream, faults and late requests owe nothing.
Fairness ==
    /\ WF_vars(\/ Registry \/ ListFeeds \/ FeedsDone \/ FetchPending \/ DrainEnds
               \/ Collect \/ RoundEnds \/ BatchPosted \/ BatchRefused \/ NextCycle)
    /\ WF_vars(\E f \in Feeds : FeedStep(f))
    /\ WF_vars(\E i \in Items : Download(i))
    /\ WF_vars(\E i \in Items : FifteenMinutes(i))
    /\ WF_vars(\E s \in Slots : Handle(s))

LiveSpec == Spec /\ Fairness

-----------------------------------------------------------------------------
Requests == [feed : Feeds, ok : BOOLEAN, listed : SUBSET Items]
Results  == [item : Items, at : Nat, out : Outcomes]

\* Every variable has its type: the states of an item, the phases of the
\* adapter's loop and of the core's handlers.
TypeOK ==
    /\ registered \in SUBSET Feeds /\ subscribed \in SUBSET registered
    /\ fails \in [Feeds -> 0..FailCap]
    /\ item \in [Items -> [state : {"absent", "pending", "skipped", "failed", "fetched"},
                           attempts : Nat, last : Nat]]
    /\ stored \in SUBSET Messages /\ seen \in SUBSET Messages
    /\ jobs \in [Slots -> [ph : {"none", "record", "filter", "write", "repeats", "done", "error"},
                           left : SUBSET Results, repeats : SUBSET Results,
                           chunk : SUBSET Results, failed : SUBSET Messages]]
    /\ raaList \in SUBSET Feeds /\ list \in [Feeds -> SUBSET Items]
    /\ phase \in {"raa", "raaPost", "feeds", "polling", "drain", "fetching", "posting", "sleep"}
    /\ raaDue \in BOOLEAN /\ raaNew \in SUBSET Feeds
    /\ raaTag \in (SUBSET Feeds) \cup {None}
    /\ due \in [Feeds -> 0..3] /\ tag \in [Feeds -> (SUBSET Items) \cup {None}]
    /\ poll \in [Feeds -> [pc : {"off", "get", "post"}, ok : BOOLEAN, listed : SUBSET Items,
                           fresh : BOOLEAN, n : 0..MaxCoreRetries]]
    /\ tries \in 0..MaxCoreRetries
    /\ todo \in SUBSET Items /\ got \in SUBSET Results /\ batch \in SUBSET Results
    /\ expired \in BOOLEAN /\ overrun \in BOOLEAN /\ crossed \in SUBSET Items
    /\ downloads \in [Items -> Nat] /\ aged \in [Items -> Nat]
    /\ lateRegistry \in SUBSET SUBSET Feeds /\ lateIndex \in SUBSET Requests
    /\ changes \in 0..MaxChanges /\ faults \in 0..MaxFaults

\* An item is marked fetched only when its message is in the database, also
\* when it was recognised by the seen-set alone, by a handler that another
\* one overtook or that was started twice.
FetchedIsStored ==
    \A i \in Items : item[i].state = "fetched" => MessageOf[i] \in stored

\* A validator is a promise that the core has the list it was issued for: an
\* upstream that answers 304 hides nothing.  The registry's promise can be
\* broken by one thing only, an older registry whose POST was not answered
\* and is written afterwards.
ValidatorsCovered ==
    /\ \A f \in Feeds : tag[f] # None => \A i \in tag[f] : item[i] # NoItem
    /\ raaTag # None /\ ~overrun => subscribed = raaTag

\* A POST that is repeated does not use up an item's attempts: as long as no
\* download answered with a permanent error, an item has been downloaded at
\* least as often as it has failed.  The core recognises a repetition by the
\* time of the last download alone, so this fails, and only then, when the
\* report of an older download is handled after that of a newer one.
AttemptsAreDownloads ==
    \A i \in Items \ (Gone \cup crossed) : item[i].attempts <= downloads[i]

\* An item listed by a subscribed feed is fetched or given up after
\* MaxAttempts failures, or skipped as too old, unless it or its feed is
\* withdrawn first: failed POSTs, lost answers, deadlines and restarts delay
\* it, and the pending list brings it back.
Settled(i) ==
    \/ item[i].state \in {"fetched", "skipped"}
    \/ item[i].state = "failed" /\ item[i].attempts >= MaxAttempts
Listed(i) == \E f \in subscribed : i \in list[f]
ListedIsSettled == \A i \in Items : Listed(i) ~> (Settled(i) \/ ~Listed(i))
=============================================================================
