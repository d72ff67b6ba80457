----------------------------- MODULE JmaAdapter -----------------------------
(***************************************************************************)
(* The acquisition path of the JMA adapter (jma_adapter/app): the          *)
(* controller's replay / poll / drain cycle, the durable store it writes   *)
(* to, and the part of the core it talks to (sea.jma_item).                *)
(*                                                                         *)
(* The adapter is one goroutine.  Its program counter moves from one disk  *)
(* write or network call to the next, so that a crash can fall between any *)
(* two of them; compose.yaml restarts it always.  A telegram is its URL.   *)
(***************************************************************************)
EXTENDS Naturals, FiniteSets

CONSTANTS
    Items,             \* URLs of telegrams that JMA may list
    Listed,            \* those on the listing when the adapter is first started
    NoItem,            \* the value of cur while no telegram is being acquired
    Rejected,          \* telegrams the core drops whenever they are posted
    Rank,              \* Items -> Nat: order of spool file names and of published_at
    PendingLimit,      \* length of one /jma_data/pending answer (50 in the code)
    MaxRetryAttempts,  \* domain/jma.gleam max_retry_attempts
    Faults,            \* which of "persist", "torn", "corrupt" disk faults happen
    MaxFaults,         \* bound on the number of disk faults
    MaxCrashes         \* bound on the number of crashes

ASSUME ListedAssumption == Listed \subseteq Items
ASSUME NoItemAssumption == NoItem \notin Items
ASSUME RejectedAssumption == Rejected \subseteq Items
ASSUME RankAssumption == Rank \in [Items -> Nat]
ASSUME BoundsAssumption == /\ PendingLimit \in Nat
                           /\ MaxRetryAttempts \in Nat
                           /\ MaxFaults \in Nat
                           /\ MaxCrashes \in Nat
ASSUME FaultsAssumption == Faults \subseteq {"persist", "torn", "corrupt"}

VARIABLES
    \* the state directory
    spool,       \* what spool/<key>.json holds for each URL
    quarantine,  \* URLs with a file in spool/quarantine
    history,     \* URLs that stand alone on a line of fetched_history.txt
    torn,        \* that file does not end in a newline
    tail,        \* the URL its unterminated last line spells, if any
    validator,   \* the listing whose Last-Modified/ETag is stored ({}: none)
    backoff,     \* the stored global_backoff_until lies in the future
    due,         \* the feed's stored next_allowed_at has passed
    \* memory of the running process
    pc, phase, todo, cur, kind, listing, seen, fresh, fetched, fatal,
    \* the world outside the process
    feed,        \* the URLs JMA lists
    item,        \* sea.jma_item.state
    attempts,    \* sea.jma_item.attempts
    cooling,     \* failed items whose last_attempt_at is under 300 s old
    \* bounds and history
    faults, crashes,
    acquired     \* URLs for which MarkFetched has returned success

hist == <<history, torn, tail>>
disk == <<spool, quarantine, hist, validator, backoff, due>>
core == <<item, attempts, cooling>>
mem  == <<phase, todo, cur, kind, listing, seen, fresh, fetched>>
bounds == <<faults, crashes>>
vars == <<disk, pc, mem, fatal, feed, core, bounds, acquired>>

----------------------------------------------------------------------------
(* Values.                                                                 *)

\* A spool file: none, a telegram (HTTP 200, no error), a final outcome to
\* report (400/404/410 or a parse error), or a damaged file: not JSON, or JSON
\* whose message cannot be decoded or that has no ItemURL.
Readable == {"telegram", "outcome", "badmsg", "nourl"}
SpoolKinds == Readable \cup {"none", "badfile"}

PCs == {"down", "cycle", "replay", "replayNext", "replayBad", "replayMark",
        "replayDelete", "gate", "feed", "feedGet", "index", "validator",
        "fallback", "drain", "drainNext", "download", "spool", "mark", "send",
        "delete", "report"}

Spooled(i) == spool[i] # "none"                              \* Store.HasSpool
Final == {"ingested", "terminal"}
OnDisk == history \cup tail                     \* Store.loadHistory

TypeOK ==
    /\ spool \in [Items -> SpoolKinds]
    /\ quarantine \subseteq Items /\ history \subseteq Items
    /\ torn \in BOOLEAN /\ tail \subseteq Items
    /\ validator \subseteq Items /\ backoff \in BOOLEAN /\ due \in BOOLEAN
    /\ pc \in PCs /\ phase \in {"boot", "cycle", "fallback", "drain"}
    /\ todo \subseteq Items /\ seen \subseteq Items /\ listing \subseteq Items
    /\ cur \in Items \cup {NoItem} /\ kind \in {"telegram", "outcome"}
    /\ fresh \in BOOLEAN /\ fatal \in BOOLEAN /\ fetched \subseteq Items
    /\ feed \subseteq Items
    /\ item \in [Items -> {"absent", "pending", "failed"} \cup Final]
    /\ attempts \in [Items -> 0..MaxRetryAttempts] /\ cooling \subseteq Items
    /\ faults \in 0..MaxFaults /\ crashes \in 0..MaxCrashes
    /\ acquired \subseteq Items

Init ==
    /\ spool = [i \in Items |-> "none"] /\ quarantine = {}
    /\ history = {} /\ torn = FALSE /\ tail = {}
    /\ validator = {} /\ backoff = FALSE /\ due = TRUE
    /\ pc = "down" /\ phase = "boot" /\ todo = {} /\ cur = NoItem
    /\ kind = "telegram" /\ listing = {} /\ seen = {} /\ fresh = FALSE
    /\ fetched = {} /\ fatal = FALSE
    /\ feed = Listed /\ item = [i \in Items |-> "absent"]
    /\ attempts = [i \in Items |-> 0] /\ cooling = {}
    /\ faults = 0 /\ crashes = 0 /\ acquired = {}

----------------------------------------------------------------------------
(* The core's side of a POST, applied in one database transaction.         *)

\* write_index: an unknown URL becomes pending, a known one is only touched.
CoreIndex(S) ==
    /\ item' = [i \in Items |-> IF i \in S /\ item[i] = "absent" THEN "pending"
                                                               ELSE item[i]]
    /\ UNCHANGED <<attempts, cooling>>

\* record_item_failure, after ensure_item_exists.
CoreFailure(i) ==
    /\ item' = [item EXCEPT ![i] = "failed"]
    /\ attempts' = [attempts EXCEPT ![i] = IF @ < MaxRetryAttempts THEN @ + 1 ELSE @]
    /\ cooling' = cooling \cup {i}

\* Mutant: the outcome's own name is written to the state column.
CoreMessageRaw(i, k) ==
    \/ /\ k = "telegram" /\ i \notin Rejected
       /\ item' = [item EXCEPT ![i] = "ingested"]
       /\ UNCHANGED <<attempts, cooling>>
    \/ k = "telegram" /\ i \in Rejected /\ CoreFailure(i)
    \/ k = "telegram" /\ i \in Rejected /\ UNCHANGED core
    \/ /\ k = "outcome"
       /\ item' = [item EXCEPT ![i] = IF @ \in Final THEN @ ELSE "outcome"]
       /\ UNCHANGED <<attempts, cooling>>

\* process_one_result for a telegram or for a final outcome.  A dropped
\* telegram is one whose sent time the core cannot read (recorded as failed)
\* or whose JSON it cannot decode (not recorded at all).
CoreMessage(i, k) ==
    \/ /\ k = "telegram" /\ i \notin Rejected
       /\ item' = [item EXCEPT ![i] = "ingested"]
       /\ UNCHANGED <<attempts, cooling>>
    \/ k = "telegram" /\ i \in Rejected /\ CoreFailure(i)
    \/ k = "telegram" /\ i \in Rejected /\ UNCHANGED core
    \/ /\ k = "outcome"
       /\ item' = [item EXCEPT ![i] = IF @ \in Final THEN @ ELSE "terminal"]
       /\ UNCHANGED <<attempts, cooling>>

\* SendMessages returns nil: applied, and a telegram was not dropped.
Acked(i, k) == (k = "telegram" => i \notin Rejected) /\ CoreMessage(i, k)

\* SendMessages returns an error: the core was not reached, or it applied the
\* message and the answer was lost, or it dropped the telegram.
NotAcked(i, k) == UNCHANGED core \/ CoreMessage(i, k)

\* The rows that pending_sql selects, before its limit.
Eligible == {i \in Items : \/ item[i] = "pending"
                           \/ /\ item[i] = "failed" /\ i \notin cooling
                              /\ attempts[i] < MaxRetryAttempts}

\* The rows of pending_sql.
Pending == {i \in Eligible :
               Cardinality({j \in Eligible : Rank[j] > Rank[i]}) < PendingLimit}

----------------------------------------------------------------------------
(* The durable store.                                                      *)

\* A write that fails latches the controller (setFatal).
PersistFails ==
    /\ "persist" \in Faults /\ faults < MaxFaults
    /\ faults' = faults + 1 /\ fatal' = TRUE
PersistOk == UNCHANGED <<faults, fatal>>

\* One line goes to the end of fetched_history.txt.  Behind a torn line it
\* spells no URL, and takes the torn line's URL with it.
AppendLine(i) ==
    IF torn THEN torn' = FALSE /\ tail' = {} /\ UNCHANGED history
            ELSE history' = history \cup {i} /\ UNCHANGED <<torn, tail>>

\* MarkFetched returns nil: already known, or appended and synced.
MarkFetched(i) ==
    /\ IF i \in fetched THEN UNCHANGED <<hist, fetched>>
                        ELSE AppendLine(i) /\ fetched' = fetched \cup {i}
    /\ acquired' = acquired \cup {i}
    /\ PersistOk

\* MarkFetched returns an error: nothing was written, or the sync failed
\* behind a complete write, or only part of the line reached the file.
MarkFetchedFails(i) ==
    /\ i \notin fetched
    /\ \/ PersistFails /\ (UNCHANGED hist \/ AppendLine(i))
       \/ /\ "torn" \in Faults /\ faults < MaxFaults
          /\ faults' = faults + 1 /\ fatal' = TRUE
          /\ torn' = TRUE /\ UNCHANGED history
          /\ tail' \in {{}, IF torn THEN {} ELSE {i}}
    /\ UNCHANGED <<fetched, acquired>>

----------------------------------------------------------------------------
(* Process start and the run loop.                                         *)

\* main and NewStore: load the state directory; Run then replays the spool.
Boot ==
    /\ pc = "down"
    /\ pc' = "replay" /\ phase' = "boot" /\ fetched' = OnDisk
    /\ UNCHANGED <<disk, todo, cur, kind, listing, seen, fresh, fatal, feed, core,
                   bounds, acquired>>

\* The memory of a process that has ended.
Forget ==
    /\ pc' = "down" /\ phase' = "boot" /\ todo' = {} /\ cur' = NoItem
    /\ kind' = "telegram" /\ listing' = {} /\ seen' = {} /\ fresh' = FALSE
    /\ fetched' = {} /\ fatal' = FALSE

\* Mutant: the spool is replayed at start only.
RunLoopWithoutReplay ==
    /\ pc = "cycle"
    /\ IF fatal
       THEN Forget
       ELSE /\ pc' = "gate" /\ phase' = "cycle"
            /\ UNCHANGED <<todo, cur, kind, listing, seen, fresh, fetched, fatal>>
    /\ UNCHANGED <<disk, feed, core, bounds, acquired>>

\* The head of Run's loop: a latched controller makes the process exit.
RunLoop ==
    /\ pc = "cycle"
    /\ IF fatal
       THEN Forget
       ELSE /\ pc' = "replay" /\ phase' = "cycle"
            /\ UNCHANGED <<todo, cur, kind, listing, seen, fresh, fetched, fatal>>
    /\ UNCHANGED <<disk, feed, core, bounds, acquired>>

----------------------------------------------------------------------------
(* replaySpool.                                                            *)

ReplayReturn == pc' = IF phase = "boot" THEN "cycle" ELSE "gate"

\* ListSpool: unreadable files go to quarantine (a failing rename is ignored),
\* the rest is the work list.
ReplayList ==
    /\ pc = "replay"
    /\ LET bad == {i \in Items : spool[i] = "badfile"} IN
       \/ /\ \/ /\ PersistOk /\ quarantine' = quarantine \cup bad
                /\ spool' = [i \in Items |-> IF i \in bad THEN "none" ELSE spool[i]]
             \/ /\ "persist" \in Faults /\ faults < MaxFaults /\ faults' = faults + 1
                /\ bad # {} /\ UNCHANGED <<spool, quarantine, fatal>>
          /\ todo' = {i \in Items : spool[i] \in Readable}
          /\ pc' = "replayNext"
       \/ /\ PersistFails /\ ReplayReturn
          /\ UNCHANGED <<spool, quarantine, todo>>
    /\ UNCHANGED <<hist, validator, backoff, due, phase, cur, kind, listing, seen,
                   fresh, fetched, feed, core, crashes, acquired>>

ReplayDone ==
    /\ pc = "replayNext" /\ todo = {}
    /\ ReplayReturn
    /\ UNCHANGED <<disk, mem, fatal, feed, core, bounds, acquired>>

\* The next file of the work list, in file name order.
ReplayHead(i) == i \in todo /\ \A j \in todo : Rank[i] <= Rank[j]

\* A file without an ItemURL stays where it is: the name that QuarantineSpool
\* makes from its ID is no file's, and a rename that finds none is no error.
ReplayNoUrl(i) ==
    /\ pc = "replayNext" /\ ReplayHead(i) /\ spool[i] = "nourl"
    /\ \/ PersistOk /\ todo' = todo \ {i} /\ UNCHANGED pc
       \/ PersistFails /\ ReplayReturn /\ UNCHANGED todo
    /\ UNCHANGED <<disk, phase, cur, kind, listing, seen, fresh, fetched, feed, core,
                   crashes, acquired>>

\* A spool file whose message cannot be decoded is moved away ...
ReplayQuarantine(i) ==
    /\ pc = "replayNext" /\ ReplayHead(i) /\ spool[i] = "badmsg"
    /\ \/ /\ PersistOk /\ pc' = "replayBad" /\ cur' = i /\ todo' = todo \ {i}
          /\ spool' = [spool EXCEPT ![i] = "none"]
          /\ quarantine' = quarantine \cup {i}
       \/ /\ PersistFails /\ ReplayReturn
          /\ UNCHANGED <<spool, quarantine, cur, todo>>
    /\ UNCHANGED <<hist, validator, backoff, due, phase, kind, listing, seen, fresh,
                   fetched, feed, core, crashes, acquired>>

\* ... and its URL is recorded as fetched, in a second write.
ReplayMarkBad ==
    /\ pc = "replayBad"
    /\ \/ MarkFetched(cur) /\ pc' = "replayNext"
       \/ MarkFetchedFails(cur) /\ ReplayReturn
    /\ cur' = NoItem
    /\ UNCHANGED <<spool, quarantine, validator, backoff, due, phase, todo, kind,
                   listing, seen, fresh, feed, core, crashes>>

\* Mutant: a replayed telegram is not recorded as fetched.
ReplayAcceptedUnmarked(i) ==
    /\ pc = "replayNext" /\ ReplayHead(i) /\ spool[i] \in {"telegram", "outcome"}
    /\ Acked(i, spool[i])
    /\ pc' = "replayDelete" /\ cur' = i /\ todo' = todo \ {i}
    /\ UNCHANGED <<disk, phase, kind, listing, seen, fresh, fetched, fatal, feed,
                   bounds, acquired>>

ReplayAccepted(i) ==
    /\ pc = "replayNext" /\ ReplayHead(i) /\ spool[i] \in {"telegram", "outcome"}
    /\ Acked(i, spool[i])
    /\ pc' = "replayMark" /\ cur' = i /\ todo' = todo \ {i}
    /\ UNCHANGED <<disk, phase, kind, listing, seen, fresh, fetched, fatal, feed,
                   bounds, acquired>>

\* Not delivered: the attempt count is saved and the whole replay ends.
ReplayRefused(i) ==
    /\ pc = "replayNext" /\ ReplayHead(i) /\ spool[i] \in {"telegram", "outcome"}
    /\ NotAcked(i, spool[i])
    /\ PersistOk \/ PersistFails
    /\ todo' = {} /\ ReplayReturn
    /\ UNCHANGED <<disk, phase, cur, kind, listing, seen, fresh, fetched, feed,
                   crashes, acquired>>

ReplayMark ==
    /\ pc = "replayMark"
    /\ \/ MarkFetched(cur) /\ pc' = "replayDelete" /\ UNCHANGED cur
       \/ MarkFetchedFails(cur) /\ ReplayReturn /\ cur' = NoItem
    /\ UNCHANGED <<spool, quarantine, validator, backoff, due, phase, todo, kind,
                   listing, seen, fresh, feed, core, crashes>>

ReplayDelete ==
    /\ pc = "replayDelete"
    /\ \/ PersistOk /\ spool' = [spool EXCEPT ![cur] = "none"] /\ pc' = "replayNext"
       \/ PersistFails /\ ReplayReturn /\ UNCHANGED spool
    /\ cur' = NoItem
    /\ UNCHANGED <<quarantine, hist, validator, backoff, due, phase, todo, kind,
                   listing, seen, fresh, fetched, feed, core, crashes, acquired>>

----------------------------------------------------------------------------
(* pollCycleWithDeadline and processFeed.                                  *)

\* After the replay: no upstream work while latched or backed off.
Gate ==
    /\ pc = "gate"
    /\ pc' = IF fatal \/ backoff THEN "cycle" ELSE "feed"
    /\ UNCHANGED <<disk, mem, fatal, feed, core, bounds, acquired>>

\* The planned next attempt is persisted before the request is made.
FeedAttempt ==
    /\ pc = "feed"
    /\ \/ ~due /\ PersistOk /\ pc' = "drain" /\ UNCHANGED due
       \/ /\ due /\ PersistOk /\ due' = FALSE
          /\ pc' = IF backoff THEN "drain" ELSE "feedGet"
       \/ due /\ PersistFails /\ pc' = "drain" /\ UNCHANGED due
    /\ UNCHANGED <<spool, quarantine, hist, validator, backoff, mem, feed, core,
                   crashes, acquired>>

\* FetchFeed without a usable listing: quota pause, transport or status error,
\* 304, unreadable Atom; a throttling answer stores the global backoff.
FeedGetNothing ==
    /\ pc = "feedGet" /\ pc' = "drain"
    /\ backoff' \in BOOLEAN
    /\ PersistOk \/ PersistFails
    /\ UNCHANGED <<spool, quarantine, hist, validator, due, mem, feed, core, crashes,
                   acquired>>

\* Mutant: only the spool is asked whether a listed URL is new.
FeedGetListingSpoolOnly ==
    /\ pc = "feedGet" /\ feed # validator
    /\ listing' = feed
    /\ todo' = {i \in feed : ~Spooled(i)}
    /\ pc' = IF todo' = {} THEN "validator" ELSE "index"
    /\ backoff' \in BOOLEAN
    /\ UNCHANGED <<spool, quarantine, hist, validator, due, phase, cur, kind, seen,
                   fresh, fetched, fatal, feed, core, bounds, acquired>>

\* FetchFeed returns a listing that the stored validator does not cover; what
\* is neither fetched nor spooled is new.
FeedGetListing ==
    /\ pc = "feedGet" /\ feed # validator
    /\ listing' = feed
    /\ todo' = {i \in feed : i \notin fetched /\ ~Spooled(i)}
    /\ pc' = IF todo' = {} THEN "validator" ELSE "index"
    /\ backoff' \in BOOLEAN
    /\ UNCHANGED <<spool, quarantine, hist, validator, due, phase, cur, kind, seen,
                   fresh, fetched, fatal, feed, core, bounds, acquired>>

IndexAccepted ==
    /\ pc = "index" /\ CoreIndex(todo)
    /\ pc' = "validator" /\ todo' = {}
    /\ UNCHANGED <<disk, phase, cur, kind, listing, seen, fresh, fetched, fatal,
                   feed, bounds, acquired>>

\* Mutant: the validator is stored whether or not the core took the index.
IndexRefusedIgnored ==
    /\ pc = "index" /\ (UNCHANGED core \/ CoreIndex(todo))
    /\ pc' = "validator" /\ todo' = {}
    /\ UNCHANGED <<disk, phase, cur, kind, listing, seen, fresh, fetched, fatal, feed,
                   bounds, acquired>>

\* The core did not acknowledge the index: acquire every new item directly.
IndexRefused ==
    /\ pc = "index" /\ (UNCHANGED core \/ CoreIndex(todo))
    /\ pc' = "fallback" /\ phase' = "fallback"
    /\ UNCHANGED <<disk, todo, cur, kind, listing, seen, fresh, fetched, fatal, feed,
                   bounds, acquired>>

\* SaveFeedValidator (nothing to save without the two headers), then
\* RecordFeedSuccess.
SaveValidator ==
    /\ pc = "validator" /\ pc' = "drain" /\ listing' = {}
    /\ \/ PersistOk /\ validator' \in {listing, validator}
       \/ PersistFails /\ validator' \in {listing, validator}
    /\ UNCHANGED <<spool, quarantine, hist, backoff, due, phase, todo, cur, kind, seen,
                   fresh, fetched, feed, core, crashes, acquired>>

\* Mutant: fetchAndIngestItem does not look at the latch.
FallbackNextUnlatched(i) ==
    /\ pc = "fallback" /\ i \in todo
    /\ todo' = todo \ {i} /\ pc' = "download" /\ cur' = i
    /\ UNCHANGED <<disk, phase, kind, listing, seen, fresh, fetched, fatal, feed, core,
                   bounds, acquired>>

\* The loop over the new items; fetchAndIngestItem returns at once when latched.
FallbackNext(i) ==
    /\ pc = "fallback" /\ i \in todo
    /\ todo' = todo \ {i}
    /\ IF fatal THEN UNCHANGED <<pc, cur>> ELSE pc' = "download" /\ cur' = i
    /\ UNCHANGED <<disk, phase, kind, listing, seen, fresh, fetched, fatal, feed, core,
                   bounds, acquired>>

\* RecordFeedSuccess without a validator: the next poll lists the items again.
FallbackDone ==
    /\ pc = "fallback" /\ todo = {}
    /\ pc' = "drain" /\ phase' = "cycle" /\ listing' = {}
    /\ PersistOk \/ PersistFails
    /\ UNCHANGED <<disk, todo, cur, kind, seen, fresh, fetched, feed, core, crashes,
                   acquired>>

----------------------------------------------------------------------------
(* drainPending.                                                           *)

DrainReturn ==
    pc' = "cycle" /\ phase' = "cycle" /\ todo' = {} /\ seen' = {} /\ fresh' = FALSE

\* Latched, backed off, past the cycle's deadline, or GetPending failed.
DrainStop ==
    /\ pc = "drain" /\ DrainReturn
    /\ UNCHANGED <<disk, cur, kind, listing, fetched, fatal, feed, core, bounds,
                   acquired>>

DrainGet ==
    /\ pc = "drain" /\ ~fatal /\ ~backoff
    /\ IF Pending = {}
       THEN DrainReturn
       ELSE /\ pc' = "drainNext" /\ phase' = "drain" /\ todo' = Pending
            /\ fresh' = FALSE /\ UNCHANGED seen
    /\ UNCHANGED <<disk, cur, kind, listing, fetched, fatal, feed, core, bounds,
                   acquired>>

\* One entry of the answer: skipped when seen in this drain, spooled or fetched.
DrainNext(i) ==
    /\ pc = "drainNext" /\ ~fatal /\ ~backoff
    /\ i \in todo /\ \A j \in todo : Rank[j] <= Rank[i]
    /\ todo' = todo \ {i} /\ seen' = seen \cup {i}
    /\ fresh' = (fresh \/ i \notin seen)
    /\ IF i \in seen \/ i \in fetched \/ Spooled(i)
       THEN UNCHANGED <<pc, cur>>
       ELSE pc' = "download" /\ cur' = i
    /\ UNCHANGED <<disk, phase, kind, listing, fetched, fatal, feed, core, bounds,
                   acquired>>

\* End of the answer, or a latch or backoff seen in front of an entry.  A
\* batch without a first-seen URL ends the drain.
DrainBatchDone ==
    /\ pc = "drainNext" /\ (todo = {} \/ fatal \/ backoff)
    /\ IF todo = {} /\ fresh
       THEN pc' = "drain" /\ phase' = "cycle" /\ UNCHANGED <<todo, seen, fresh>>
       ELSE DrainReturn
    /\ UNCHANGED <<disk, cur, kind, listing, fetched, fatal, feed, core, bounds,
                   acquired>>

----------------------------------------------------------------------------
(* fetchAndIngestItem.                                                     *)

FetchReturn ==
    /\ pc' = IF phase = "fallback" THEN "fallback" ELSE "drainNext"
    /\ cur' = NoItem /\ kind' = "telegram"

\* FetchData brings a result worth keeping: a telegram, a document that does
\* not parse, or a final 400/404/410.
DownloadFinal ==
    /\ pc = "download" /\ ~backoff
    /\ kind' \in {"telegram", "outcome"} /\ backoff' \in BOOLEAN
    /\ pc' = "spool"
    /\ UNCHANGED <<spool, quarantine, hist, validator, due, phase, todo, cur, listing,
                   seen, fresh, fetched, fatal, feed, core, bounds, acquired>>

\* A transient failure; while a backoff is active no request is made at all.
DownloadTransient ==
    /\ pc = "download"
    /\ backoff' \in IF backoff THEN {TRUE} ELSE BOOLEAN
    /\ pc' = "report"
    /\ UNCHANGED <<spool, quarantine, hist, validator, due, mem, fatal, feed, core,
                   bounds, acquired>>

\* The daily quota is used up, or the budget or backoff could not be stored.
DownloadAborted ==
    /\ pc = "download" /\ ~backoff
    /\ \/ PersistOk /\ UNCHANGED backoff
       \/ PersistFails /\ backoff' \in BOOLEAN
    /\ FetchReturn
    /\ UNCHANGED <<spool, quarantine, hist, validator, due, phase, todo, listing,
                   seen, fresh, fetched, feed, core, crashes, acquired>>

\* Mutant: the error of SaveSpool is only logged.
SaveSpoolUnchecked ==
    /\ pc = "spool" /\ pc' = "mark"
    /\ \/ PersistOk /\ spool' = [spool EXCEPT ![cur] = kind]
       \/ "persist" \in Faults /\ UNCHANGED <<spool, faults, fatal>>
    /\ UNCHANGED <<quarantine, hist, validator, backoff, due, phase, todo, cur, kind,
                   listing, seen, fresh, fetched, feed, core, crashes, acquired>>

SaveSpool ==
    /\ pc = "spool"
    /\ \/ /\ PersistOk /\ spool' = [spool EXCEPT ![cur] = kind]
          /\ pc' = "mark" /\ UNCHANGED <<cur, kind>>
       \/ PersistFails /\ UNCHANGED spool /\ FetchReturn
    /\ UNCHANGED <<quarantine, hist, validator, backoff, due, phase, todo, listing,
                   seen, fresh, fetched, feed, core, crashes, acquired>>

Mark ==
    /\ pc = "mark"
    /\ \/ MarkFetched(cur) /\ pc' = "send" /\ UNCHANGED <<cur, kind>>
       \/ MarkFetchedFails(cur) /\ FetchReturn
    /\ UNCHANGED <<spool, quarantine, validator, backoff, due, phase, todo,
                   listing, seen, fresh, feed, core, crashes>>

SendAccepted ==
    /\ pc = "send" /\ Acked(cur, kind) /\ pc' = "delete"
    /\ UNCHANGED <<disk, mem, fatal, feed, bounds, acquired>>

\* The spool file stays, with one more delivery attempt saved in it.
SendRefused ==
    /\ pc = "send" /\ NotAcked(cur, kind)
    /\ PersistOk \/ PersistFails
    /\ FetchReturn
    /\ UNCHANGED <<disk, phase, todo, listing, seen, fresh, fetched, feed, crashes,
                   acquired>>

DeleteSpool ==
    /\ pc = "delete"
    /\ \/ PersistOk /\ spool' = [spool EXCEPT ![cur] = "none"]
       \/ PersistFails /\ UNCHANGED spool
    /\ FetchReturn
    /\ UNCHANGED <<quarantine, hist, validator, backoff, due, phase, todo, listing,
                   seen, fresh, fetched, feed, core, crashes, acquired>>

\* A transient failure is reported once; whether the core got it is not used.
ReportFailure ==
    /\ pc = "report"
    /\ UNCHANGED core \/ CoreFailure(cur)
    /\ FetchReturn
    /\ UNCHANGED <<disk, phase, todo, listing, seen, fresh, fetched, fatal, feed,
                   bounds, acquired>>

----------------------------------------------------------------------------
(* The environment.                                                        *)

Publish(i) ==
    /\ i \notin feed /\ feed' = feed \cup {i}
    /\ UNCHANGED <<disk, pc, mem, fatal, core, bounds, acquired>>

BackoffExpires ==
    /\ backoff /\ backoff' = FALSE
    /\ UNCHANGED <<spool, quarantine, hist, validator, due, pc, mem, fatal, feed, core,
                   bounds, acquired>>

FeedDue ==
    /\ ~due /\ due' = TRUE
    /\ UNCHANGED <<spool, quarantine, hist, validator, backoff, pc, mem, fatal, feed,
                   core, bounds, acquired>>

RetryIntervalOver(i) ==
    /\ i \in cooling /\ cooling' = cooling \ {i}
    /\ UNCHANGED <<disk, pc, mem, fatal, feed, item, attempts, bounds, acquired>>

\* The process is killed between two steps.
Crash ==
    /\ pc # "down" /\ crashes < MaxCrashes
    /\ crashes' = crashes + 1
    /\ Forget
    /\ UNCHANGED <<disk, feed, core, faults, acquired>>

\* A spool file is damaged on the medium.  Only ListSpool reads the files, so
\* the damage is placed where a cycle or a process has just ended.
Corrupt(i) ==
    /\ "corrupt" \in Faults /\ faults < MaxFaults /\ faults' = faults + 1
    /\ spool[i] \in {"telegram", "outcome"}
    /\ \E k \in {"badfile", "badmsg", "nourl"} : spool' = [spool EXCEPT ![i] = k]
    /\ pc \in {"down", "cycle"}
    /\ UNCHANGED <<quarantine, hist, validator, backoff, due, pc, mem, fatal, feed, core,
                   crashes, acquired>>

Replay == \/ ReplayList \/ ReplayDone \/ ReplayMarkBad \/ ReplayMark \/ ReplayDelete
          \/ \E i \in Items : \/ ReplayNoUrl(i) \/ ReplayQuarantine(i)
                            \/ ReplayAccepted(i) \/ ReplayRefused(i)
Poll == \/ Gate \/ FeedAttempt \/ FeedGetNothing \/ FeedGetListing \/ IndexAccepted
        \/ IndexRefused \/ SaveValidator \/ FallbackDone
        \/ \E i \in Items : FallbackNext(i)
Drain == DrainStop \/ DrainGet \/ DrainBatchDone \/ \E i \in Items : DrainNext(i)
Fetch == \/ DownloadFinal \/ DownloadTransient \/ DownloadAborted \/ SaveSpool \/ Mark
         \/ SendAccepted \/ SendRefused \/ DeleteSpool \/ ReportFailure
Adapter == Boot \/ RunLoop \/ Replay \/ Poll \/ Drain \/ Fetch
Environment == \/ BackoffExpires \/ FeedDue \/ Crash
               \/ \E i \in Items : Publish(i) \/ RetryIntervalOver(i) \/ Corrupt(i)

Next == Adapter \/ Environment
Spec == Init /\ [][Next]_vars

----------------------------------------------------------------------------
(* Safety.                                                                 *)

Kept(i) == Spooled(i) \/ item[i] \in Final \/ i \in quarantine

\* A URL that counts as fetched, in memory or in fetched_history.txt, is never
\* asked for again; so its telegram is still in the spool, or has reached the
\* core, or lies in quarantine, whatever crashed or failed in between
\* (controller.go: "ACQUISITION INVARIANT").
NothingLost == \A i \in OnDisk \cup fetched : Kept(i)

\* Once the stored validator silences a listing (304), every URL on it is
\* known to the core or held by the adapter.
ValidatorCovers == \A i \in validator : item[i] # "absent" \/ Kept(i)

\* A telegram whose MarkFetched succeeded is never requested from JMA again,
\* across restarts ("permanently registers a URL as fetched").
NoRefetch == pc = "download" /\ ~backoff => cur \notin acquired

\* A latched controller makes no upstream request: neither the rest of the
\* fallback loop nor the next feed.
LatchStopsRequests == fatal => pc \notin {"feedGet", "download"}

\* What the core has ingested or closed stays so: no late failure report of
\* the adapter reopens it.
FinalIsStable == [][\A i \in Items : item[i] \in Final => item'[i] \in Final]_vars

----------------------------------------------------------------------------
(* Liveness.  The process keeps running (restart: always), and a core that is *)
(* offered the head of the spool again and again takes it once.               *)

ReplayFairness == WF_vars(Adapter) /\ \A i \in Items : SF_vars(ReplayAccepted(i))
ReplaySpec == Spec /\ ReplayFairness

(* For the whole way from the listing to the core the clock, JMA and the core *)
(* must not fail forever either.                                              *)
Fairness ==
    /\ ReplayFairness
    /\ WF_vars(BackoffExpires) /\ WF_vars(FeedDue)
    /\ \A i \in Items : WF_vars(RetryIntervalOver(i))
    /\ SF_vars(FeedGetListing /\ ~backoff') /\ SF_vars(FeedGetNothing /\ ~backoff')
    /\ SF_vars(IndexAccepted) /\ SF_vars(DrainGet) /\ SF_vars(DownloadFinal)
LiveSpec == Spec /\ Fairness

\* Every spooled telegram that the core would take is delivered, whatever else
\* lies in the spool ("Deliver each item independently to prevent one
\* malformed item from blocking valid items").
SpoolDelivered == \A i \in Items \ Rejected : Spooled(i) ~> ~Spooled(i)

\* A file that stays in the spool: it has no ItemURL, or a replay never gets
\* past a telegram in front of it, or itself, that the core drops.
Stuck(i) == \/ spool[i] = "nourl"
            \/ Spooled(i) /\ \E j \in Rejected : spool[j] = "telegram" /\ Rank[j] <= Rank[i]

\* No answer to GetPending names it, though it waits for a download: the limit is
\* used up by telegrams that the drain skips, because they are spooled or fetched.
Crowded(i) == /\ i \in Eligible \ Pending
              /\ \A j \in Pending : Spooled(j) \/ j \in OnDisk \cup fetched

\* Every listed telegram is in the end ingested or closed in the core, or the
\* core has given up on it after max_retry_attempts reported failures, or its
\* damaged spool file has gone to quarantine; unless it is stuck in the spool or
\* crowded out of the pending answers for good.
ListedResolved ==
    <>[](\A i \in feed : \/ item[i] \in Final \/ attempts[i] = MaxRetryAttempts
                         \/ i \in quarantine \/ Stuck(i) \/ Crowded(i))

=============================================================================
