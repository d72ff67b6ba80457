------------------------------ MODULE CapItems ------------------------------
(***************************************************************************)
(* The core's side of the CAP pipeline: the feed registry, the list of     *)
(* items (one per CAP document URL) that says what is still to be          *)
(* downloaded, and the handler that takes in a batch of downloads.         *)
(*                                                                         *)
(* One authority has one feed, a CAP document has one message key, and a   *)
(* message has one revision.  The handler of a batch is not atomic: it     *)
(* records failures one by one, looks at the seen-set twice, writes one    *)
(* transaction per record and only then marks the seen-set.  Each of these *)
(* is a step, and several handlers can be under way at once, because a     *)
(* caller that gave up waiting does not stop the one it started.           *)
(***************************************************************************)
EXTENDS Naturals, FiniteSets

CONSTANTS
    Feeds,        \* feed URLs
    Items,        \* CAP document URLs
    MessageOf,    \* the message key (sender, identifier) a document carries
    OldItems,     \* items that may be seven days old when they are first indexed
    MaxAttempts,  \* cap.max_retry_attempts
    Slots         \* batch handlers: 0 is awaited by the adapter, the others are not

ASSUME CapItemsAssumption ==
    /\ MaxAttempts \in Nat \ {0}
    /\ OldItems \subseteq Items
    /\ 0 \in Slots
    /\ MessageOf = [i \in Items |-> MessageOf[i]]

VARIABLES
    registered,   \* rows of cap_feed
    subscribed,   \* of these, the ones the registry lists today
    fails,        \* cap_feed.consecutive_failures
    item,         \* rows of cap_item
    stored,       \* rows of cap_message
    seen,         \* the seen-set
    jobs          \* the batch handlers

coreVars == <<registered, subscribed, fails, item, stored, seen, jobs>>

Messages == {MessageOf[i] : i \in Items}

\* Ten failures or more are polled alike (raa.poll_interval_seconds).
FailCap == 10

\* A download: which item, its fetched_at, and what came of it.
Outcomes == {"cap", "temporary", "permanent"}
Key(r)   == MessageOf[r.item]

NoItem == [state |-> "absent", attempts |-> 0, last |-> 0]

Job(ph, res) == [ph |-> ph, left |-> res, repeats |-> {}, chunk |-> {}, failed |-> {}]
NoJob        == Job("none", {})

CoreInit ==
    /\ registered = {}
    /\ subscribed = {}
    /\ fails = [f \in Feeds |-> 0]
    /\ item = [i \in Items |-> NoItem]
    /\ stored = {}
    /\ seen = {}
    /\ jobs = [s \in Slots |-> NoJob]

-----------------------------------------------------------------------------
\* The registry: a list without authorities, or one that removes more than
\* half of the known ones, is refused.

RegistryAccepted(listed) ==
    /\ listed # {}
    /\ subscribed # {} => 2 * Cardinality(subscribed \ listed) <= Cardinality(subscribed)

WriteRegistry(listed) ==
    /\ subscribed' = listed
    /\ registered' = registered \cup listed
    /\ UNCHANGED <<fails, item, stored, seen, jobs>>

\* How long a feed rests after a poll, in cycles: five minutes, one hour, six
\* hours (only their order matters).
PollInterval(f) == IF fails[f] < 3 THEN 1 ELSE IF fails[f] < FailCap THEN 2 ELSE 3

-----------------------------------------------------------------------------
\* The index of a feed: unknown feeds are ignored; known items are left as
\* they are, new ones start as pending or, when seven days old, as skipped.

NewItem(old) == [state |-> IF old THEN "skipped" ELSE "pending", attempts |-> 0, last |-> 0]

UpdateFeedHealth(f, ok) ==
    fails' = [fails EXCEPT ![f] = IF ok THEN 0 ELSE IF @ < FailCap THEN @ + 1 ELSE @]

WriteIndex(f, ok, listed) ==
    /\ IF f \in registered
         THEN /\ UpdateFeedHealth(f, ok)
              /\ \E old \in SUBSET (listed \cap OldItems) :
                   item' = [i \in Items |->
                              IF i \in listed /\ item[i] = NoItem THEN NewItem(i \in old)
                              ELSE item[i]]
         ELSE UNCHANGED <<fails, item>>
    /\ UNCHANGED <<registered, subscribed, stored, seen, jobs>>

\* Mutant of Pending: failed items are not offered again.
PendingNoRetry(i, aged) == item[i].state = "pending"

\* cap_item_writer.pending, where `aged' is the last download of i that is
\* fifteen minutes old.
Pending(i, aged) ==
    \/ item[i].state = "pending"
    \/ /\ item[i].state = "failed"
       /\ item[i].attempts < MaxAttempts
       /\ item[i].last <= aged

-----------------------------------------------------------------------------
\* The handler of a batch of downloads.

Fetched(i, at) == [item[i] EXCEPT !.state = "fetched", !.last = at]

\* Mutant of Failed: every report of a download counts.
FailedCountsAll(i, at, attempts) == [state |-> "failed", attempts |-> attempts, last |-> at]

\* update_outcome: a second report of the same download is not counted again.
Failed(i, at, attempts) ==
    [state |-> "failed",
     attempts |-> IF item[i].last = at THEN item[i].attempts ELSE attempts,
     last |-> at]

DecideFetchOutcome(r) ==
    IF r.out = "temporary" THEN item[r.item].attempts + 1 ELSE MaxAttempts

Finished(s, ph) == IF s = 0 THEN Job(ph, {}) ELSE NoJob

RecordFetchFailure(s) ==
    /\ jobs[s].ph = "record"
    /\ \E r \in jobs[s].left :
         /\ r.out # "cap"
         /\ item' = [item EXCEPT ![r.item] = Failed(r.item, r.at, DecideFetchOutcome(r))]
         /\ jobs' = [jobs EXCEPT ![s].left = @ \ {r}]
    /\ UNCHANGED <<registered, subscribed, fails, stored, seen>>

\* The first look at the seen-set, for the repeats.
FindRepeats(s) ==
    /\ jobs[s].ph = "record"
    /\ \A r \in jobs[s].left : r.out = "cap"
    /\ jobs' = [jobs EXCEPT ![s] =
                  IF @.left = {} THEN Finished(s, "done")
                  ELSE [@ EXCEPT !.ph = "filter",
                                 !.repeats = {r \in jobs[s].left : Key(r) \in seen}]]
    /\ UNCHANGED <<registered, subscribed, fails, item, stored, seen>>

\* The second look, in pipeline.run: what is left to write.
FindSurvivors(s) ==
    /\ jobs[s].ph = "filter"
    /\ jobs' = [jobs EXCEPT ![s].ph = "write",
                            ![s].left  = {r \in @ : Key(r) \notin seen},
                            ![s].chunk = {r \in jobs[s].left : Key(r) \notin seen}]
    /\ UNCHANGED <<registered, subscribed, fails, item, stored, seen>>

\* One transaction: the message is stored, or is there already, and its item
\* is fetched.
WriteRecord(s) ==
    /\ jobs[s].ph = "write"
    /\ \E r \in jobs[s].chunk :
         /\ stored' = stored \cup {Key(r)}
         /\ item' = [item EXCEPT ![r.item] = Fetched(r.item, r.at)]
         /\ jobs' = [jobs EXCEPT ![s].chunk = @ \ {r}]
    /\ UNCHANGED <<registered, subscribed, fails, seen>>

\* The transaction is rolled back; the failure is recorded if that works.
WriteRecordFails(s) ==
    /\ jobs[s].ph = "write"
    /\ \E r \in jobs[s].chunk :
         /\ \/ item' = [item EXCEPT ![r.item] =
                          Failed(r.item, r.at, item[r.item].attempts + 1)]
            \/ item' = item
         /\ jobs' = [jobs EXCEPT ![s].chunk = @ \ {r}, ![s].failed = @ \cup {Key(r)}]
    /\ UNCHANGED <<registered, subscribed, fails, stored, seen>>

\* Mutant of MarkSeen: the failed keys are marked with the others.
MarkSeenAll(s) ==
    /\ jobs[s].ph = "write"
    /\ jobs[s].chunk = {}
    /\ seen' = seen \cup {Key(r) : r \in jobs[s].left}
    /\ jobs' = [jobs EXCEPT ![s].ph = "repeats", ![s].left = {}, ![s].failed = {}]
    /\ UNCHANGED <<registered, subscribed, fails, item, stored>>

\* All but the failed keys are seen from now on.
MarkSeen(s) ==
    /\ jobs[s].ph = "write"
    /\ jobs[s].chunk = {}
    /\ seen' = seen \cup ({Key(r) : r \in jobs[s].left} \ jobs[s].failed)
    /\ jobs' = [jobs EXCEPT ![s].ph = "repeats", ![s].left = {}, ![s].failed = {}]
    /\ UNCHANGED <<registered, subscribed, fails, item, stored>>

MarkRepeat(s) ==
    /\ jobs[s].ph = "repeats"
    /\ \E r \in jobs[s].repeats :
         /\ item' = [item EXCEPT ![r.item] = Fetched(r.item, r.at)]
         /\ jobs' = [jobs EXCEPT ![s].repeats = @ \ {r}]
    /\ UNCHANGED <<registered, subscribed, fails, stored, seen>>

Answer(s) ==
    /\ jobs[s].ph = "repeats"
    /\ jobs[s].repeats = {}
    /\ jobs' = [jobs EXCEPT ![s] = Finished(s, "done")]
    /\ UNCHANGED <<registered, subscribed, fails, item, stored, seen>>

\* A query outside the transactions fails: the handler stops where it is and
\* answers 503.
HandlerFails(s) ==
    /\ \/ jobs[s].ph = "record"
       \/ jobs[s].ph = "repeats" /\ jobs[s].repeats # {}
    /\ jobs' = [jobs EXCEPT ![s] = Finished(s, "error")]
    /\ UNCHANGED <<registered, subscribed, fails, item, stored, seen>>

HandlerStep(s) ==
    \/ RecordFetchFailure(s)
    \/ FindRepeats(s)
    \/ FindSurvivors(s)
    \/ WriteRecord(s)
    \/ MarkSeen(s)
    \/ MarkRepeat(s)
    \/ Answer(s)

\* A seen key outlives its time to live.
SeenExpires ==
    /\ \E m \in seen : seen' = seen \ {m}
    /\ UNCHANGED <<registered, subscribed, fails, item, stored, jobs>>

\* The core restarts: the handlers and the seen-set are gone.
CoreRestart ==
    /\ seen' = {}
    /\ jobs' = [s \in Slots |-> IF s = 0 /\ jobs[0].ph # "none" THEN Job("error", {}) ELSE NoJob]
    /\ UNCHANGED <<registered, subscribed, fails, item, stored>>
=============================================================================
