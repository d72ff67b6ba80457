---------------------------- MODULE GdacsAdapter ----------------------------
(***************************************************************************)
(* The GDACS adapter and what the core keeps for it.  The adapter has no   *)
(* memory beyond its loop: every tick it asks for the events changed in    *)
(* the last three intervals and for all tsunamis, page by page, and in the *)
(* rest of the interval it drains the episodes that the core lists as      *)
(* lacking a geometry.                                                     *)
(*                                                                         *)
(* Time is counted in units of which PollInterval make up an interval, and *)
(* only ages are kept, so that the loop can be followed without end.  An   *)
(* event stands for its latest version.  The spacing of requests is left   *)
(* out: it is part of the time a request takes.                            *)
(***************************************************************************)
EXTENDS Naturals, FiniteSets

CONSTANTS
    Events, NoEvent,
    QueryOf,        \* the event list an event is on: "primary" or "tsunami"
    Rank,           \* the order of the list
    PollInterval,   \* cfg.pollInterval
    PageSize,       \* pageSize
    MaxAttempts,    \* maxPageAttempts
    PendingLimit,   \* pendingLimit
    BatchSize,      \* geometryBatchSize
    MayStall,       \* episodes whose geometry may turn out never to be answered
    Refused,        \* batches of geometries that the core refuses every time
    MaxChanges,     \* bound: changes of events
    MaxFaults       \* bound: failed or slow requests, restarts

Queries == {"primary", "tsunami"}

\* computeSince: how far back the primary query asks once the backfill is done.
WindowLength == 3 * PollInterval

ASSUME GdacsAssumption ==
    /\ IsFiniteSet(Events) /\ QueryOf \in [Events -> Queries]
    /\ Rank \in [Events -> Nat]
    /\ \A d, e \in Events : Rank[d] = Rank[e] => d = e
    /\ NoEvent \notin Events
    /\ PollInterval \in Nat \ {0} /\ PageSize \in Nat \ {0} /\ MaxAttempts \in Nat \ {0}
    /\ PendingLimit \in Nat \ {0} /\ BatchSize \in Nat \ {0}
    /\ MayStall \subseteq Events
    /\ MaxChanges \in Nat /\ MaxFaults \in Nat

\* A batch above the core's limit on the size of a request stays above it with
\* more, and one geometry that it cannot write undoes the whole batch.
ASSUME RefusedAssumption ==
    /\ BatchSize <= PendingLimit
    /\ Refused \subseteq SUBSET Events /\ {} \notin Refused
    /\ \A S \in Refused, T \in SUBSET Events : S \subseteq T => T \in Refused

VARIABLES
    unanswered, \* episodes whose geometry request always fails
    age,        \* since the last change of an event, up to WindowLength + 1
    modified,   \* datemodified: which of the changes was its last
    pc,         \* where the loop is
    backfill,   \* no tick has been completed yet
    elapsed,    \* since the tick, up to WindowLength + 1
    allDone,    \* pollTick: no query of this tick was abandoned
    query, window, page, attempts, \* pollAllPages: the query, its list, the page
    features, done, \* what the page held, as far as that is still the latest version
    entries, entry, results, last, \* drainGeometry
    fresh,      \* events of which the core has the latest version
    stored,     \* events of which the core has some version
    stamp,      \* ... and the modified of that version
    geometries, \* episodes of which the core has the geometry
    idle,       \* per query: since the last complete one began
    late,       \* per query: that was more than the window ago at this tick
    owed,       \* what the core lacked at this tick
    overlooked, \* what a complete query did not bring
    changes, faults

sourceVars == <<age, modified, changes, unanswered>>
pollVars   == <<backfill, allDone, query, window, page, attempts, features, done>>
drainVars  == <<entries, entry, results, last>>
coreVars   == <<fresh, stored, stamp, geometries>>
ghostVars  == <<idle, late, owed, overlooked>>
vars == <<sourceVars, pc, elapsed, pollVars, drainVars, coreVars, ghostVars, faults>>

Later(t) == IF t > WindowLength THEN t ELSE t + 1

Fault == faults < MaxFaults /\ faults' = faults + 1

Init ==
    /\ age = [e \in Events |-> WindowLength + 1] /\ changes = 0
    /\ modified = [e \in Events |-> 0] /\ stamp = [e \in Events |-> 0]
    /\ unanswered \in SUBSET MayStall
    /\ pc = "tick" /\ elapsed = 0
    /\ backfill = TRUE /\ allDone = TRUE
    /\ query = "primary" /\ window = {} /\ page = 1 /\ attempts = 0
    /\ features = {} /\ done = FALSE
    /\ entries = {} /\ entry = NoEvent /\ results = {} /\ last = FALSE
    /\ fresh = {} /\ stored = {} /\ geometries = {}
    /\ idle = [q \in Queries |-> WindowLength + 1]
    /\ late = [q \in Queries |-> FALSE]
    /\ owed = {} /\ overlooked = {}
    /\ faults = 0

-----------------------------------------------------------------------------
\* The source and time.

\* GDACS changes an event; it is on every list asked for from here on.
Change(e) ==
    /\ changes < MaxChanges /\ changes' = changes + 1
    /\ age' = [age EXCEPT ![e] = 0] /\ modified' = [modified EXCEPT ![e] = changes + 1]
    /\ window' = IF QueryOf[e] = query /\ pc \in {"fetch", "backoff", "send", "accepted"}
                   THEN window \cup {e} ELSE window
    /\ features' = features \ {e}
    /\ fresh' = fresh \ {e}
    /\ owed' = owed \ {e} /\ overlooked' = overlooked \ {e}
    /\ UNCHANGED <<unanswered, pc, elapsed, backfill, allDone, query, page, attempts, done, drainVars, stored,
                   stamp, geometries, idle, late, faults>>

\* Waiting takes time; elsewhere a unit passes only when a request is slow.
TimePasses ==
    /\ IF pc \in {"backoff", "retry", "pause"} THEN UNCHANGED faults ELSE Fault
    /\ age' = [e \in Events |-> Later(age[e])]
    /\ elapsed' = Later(elapsed)
    /\ idle' = [q \in Queries |-> Later(idle[q])]
    /\ UNCHANGED <<modified, changes, unanswered, pc, pollVars, drainVars, coreVars, late, owed,
                   overlooked>>

-----------------------------------------------------------------------------
\* run and pollTick.

\* Mutant of Asked: the primary query asks for one interval back.
AskedOneInterval(q, all) ==
    {e \in Events : QueryOf[e] = q /\ (all \/ age[e] <= PollInterval)}

\* tickWindows: the backfill and the tsunami query ask for days back.
Asked(q, all) == {e \in Events : QueryOf[e] = q /\ (all \/ age[e] <= WindowLength)}

Tick ==
    /\ pc = "tick" /\ pc' = "fetch"
    /\ elapsed' = 0
    /\ window' = Asked("primary", backfill)
    /\ late' = [q \in Queries |-> q = "primary" /\ ~backfill /\ idle[q] > WindowLength]
    /\ owed' = Events \ fresh
    /\ UNCHANGED <<sourceVars, backfill, allDone, query, page, attempts, features, done, drainVars,
                   coreVars, idle, overlooked, faults>>

\* The query is over, completed or abandoned: the next one, or the drain.
\* The backfill is over once both have been completed in one tick.
EndQuery(completed) ==
    /\ page' = 1 /\ attempts' = 0 /\ features' = {} /\ done' = FALSE
    /\ IF query = "primary"
         THEN /\ pc' = "fetch" /\ query' = "tsunami" /\ window' = Asked("tsunami", TRUE)
              /\ allDone' = completed
              /\ UNCHANGED <<backfill, owed>>
         ELSE /\ pc' = "pending" /\ query' = "primary" /\ window' = {}
              /\ backfill' = (backfill /\ ~(allDone /\ completed))
              /\ allDone' = TRUE /\ owed' = {}
    /\ IF completed
         THEN /\ idle' = [idle EXCEPT ![query] = elapsed]
              /\ overlooked' = overlooked \cup {e \in owed \ fresh : QueryOf[e] = query}
         ELSE UNCHANGED <<idle, overlooked>>
    /\ UNCHANGED <<sourceVars, elapsed, drainVars, late>>

-----------------------------------------------------------------------------
\* pollAllPages.

\* How many come before an event on the list, and the events on page p.
Position(e) == Cardinality({d \in window : Rank[d] < Rank[e]})
OnPage(p) == {e \in window : Position(e) \div PageSize = p - 1}

Same == UNCHANGED <<sourceVars, elapsed, backfill, allDone, query, window, drainVars, coreVars,
                    ghostVars>>

FetchPage ==
    /\ pc = "fetch" /\ pc' = "send"
    /\ features' = OnPage(page) /\ done' = (Cardinality(OnPage(page)) < PageSize)
    /\ attempts' = 0
    /\ Same /\ UNCHANGED <<page, faults>>

\* A network error, a bad answer, a 429 or a 5xx: the page is tried again.
FetchFails ==
    /\ pc = "fetch" /\ attempts + 1 < MaxAttempts
    /\ Fault
    /\ pc' = "backoff" /\ attempts' = attempts + 1
    /\ Same /\ UNCHANGED <<page, features, done>>

\* The last attempt, or any other 4xx.
FetchAbandoned ==
    /\ pc = "fetch"
    /\ Fault
    /\ EndQuery(FALSE)
    /\ UNCHANGED coreVars

Retry ==
    /\ pc = "backoff" /\ pc' = "fetch"
    /\ Same /\ UNCHANGED <<page, attempts, features, done, faults>>

\* The core's write of a page, one transaction.
WritePage ==
    /\ fresh' = fresh \cup features
    /\ stored' = stored \cup features
    /\ stamp' = [e \in Events |-> IF e \in features THEN modified[e] ELSE stamp[e]]
    /\ UNCHANGED geometries

SendPage ==
    /\ pc = "send" /\ pc' = "accepted"
    /\ WritePage
    /\ UNCHANGED <<sourceVars, elapsed, pollVars, drainVars, ghostVars, faults>>

\* The page is refused, or written and the answer lost.
SendPageFails ==
    /\ pc = "send"
    /\ Fault
    /\ WritePage \/ UNCHANGED coreVars
    /\ EndQuery(FALSE)

NextPage ==
    /\ pc = "accepted"
    /\ \/ done /\ EndQuery(TRUE) /\ UNCHANGED coreVars
       \/ /\ ~done /\ pc' = "fetch" /\ page' = page + 1
          /\ Same /\ UNCHANGED <<attempts, features, done>>
    /\ UNCHANGED faults

-----------------------------------------------------------------------------
\* drainGeometry, for what is left of the interval.

InTime == elapsed < PollInterval

DrainOnly == UNCHANGED <<sourceVars, elapsed, pollVars, ghostVars>>

Drained == pc' = "pause" /\ entries' = {} /\ entry' = NoEvent /\ results' = {} /\ last' = FALSE

\* The episodes without a geometry, and the first n of them as the core lists
\* them, the most recently modified first; Rank stands for the order of ties.
Pending == stored \ geometries
Newer(d, e) == stamp[d] > stamp[e] \/ (stamp[d] = stamp[e] /\ Rank[d] < Rank[e])
FirstPending(n) == {e \in Pending : Cardinality({d \in Pending : Newer(d, e)}) < n}

\* Mutant of AskPending: with nothing pending the lookup is repeated at once.
AskPendingAgain ==
    /\ pc = "pending"
    /\ IF InTime /\ Pending # {}
         THEN pc' = "entry" /\ entries' = FirstPending(PendingLimit)
              /\ UNCHANGED <<entry, results, last>>
         ELSE IF InTime THEN UNCHANGED <<pc, drainVars>> ELSE Drained
    /\ DrainOnly /\ UNCHANGED <<coreVars, faults>>

AskPending ==
    /\ pc = "pending"
    /\ IF InTime /\ Pending # {}
         THEN pc' = "entry" /\ entries' = FirstPending(PendingLimit)
              /\ UNCHANGED <<entry, results, last>>
         ELSE Drained
    /\ DrainOnly /\ UNCHANGED <<coreVars, faults>>

PendingFails ==
    /\ pc = "pending" /\ InTime
    /\ Fault
    /\ Drained
    /\ DrainOnly /\ UNCHANGED coreVars

\* Mutant of NextEntry: only full batches are flushed.
NextEntryFullOnly ==
    /\ pc = "entry"
    /\ IF InTime /\ entries # {}
         THEN /\ pc' = "geometry"
              /\ entry' \in entries /\ \A d \in entries : ~Newer(d, entry')
              /\ entries' = entries \ {entry'}
              /\ UNCHANGED <<results, last>>
         ELSE Drained
    /\ DrainOnly /\ UNCHANGED <<coreVars, faults>>

NextEntry ==
    /\ pc = "entry"
    /\ IF InTime /\ entries # {}
         THEN /\ pc' = "geometry"
              /\ entry' \in entries /\ \A d \in entries : ~Newer(d, entry')
              /\ entries' = entries \ {entry'}
              /\ UNCHANGED <<results, last>>
         ELSE /\ pc' = "flush" /\ last' = TRUE
              /\ UNCHANGED <<entries, entry, results>>
    /\ DrainOnly /\ UNCHANGED <<coreVars, faults>>

\* fetchGeometryWithRetry: a geometry or a 204 is an answer; anything else,
\* of whatever status, is tried again after a pause, without end.
FetchGeometry ==
    /\ pc = "geometry" /\ entry \notin unanswered
    /\ results' = results \cup {entry} /\ entry' = NoEvent
    /\ pc' = IF Cardinality(results') = BatchSize THEN "flush" ELSE "entry"
    /\ DrainOnly /\ UNCHANGED <<entries, last, coreVars, faults>>

GeometryFails ==
    /\ pc = "geometry"
    /\ IF entry \in unanswered THEN UNCHANGED faults ELSE Fault
    /\ pc' = "retry"
    /\ DrainOnly /\ UNCHANGED <<drainVars, coreVars>>

RetryGeometry ==
    /\ pc = "retry" /\ pc' = "geometry"
    /\ DrainOnly /\ UNCHANGED <<drainVars, coreVars, faults>>

\* flushGeometry, and the core's write: only what had no geometry yet.
WriteGeometry ==
    geometries' = geometries \cup (results \cap stored) /\ UNCHANGED <<fresh, stored, stamp>>

SendGeometry ==
    /\ pc = "flush" /\ results \notin Refused
    /\ pc' = IF last THEN "pending" ELSE "entry"
    /\ results' = {} /\ last' = FALSE
    /\ WriteGeometry
    /\ DrainOnly /\ UNCHANGED <<entries, entry, faults>>

\* Refused, as the same batch will be at every tick.
RefuseGeometry ==
    /\ pc = "flush" /\ results \in Refused
    /\ Drained
    /\ DrainOnly /\ UNCHANGED <<coreVars, faults>>

\* Not delivered, or written and the answer lost: the rest waits for the next tick.
SendGeometryFails ==
    /\ pc = "flush" /\ results # {}
    /\ Fault
    /\ UNCHANGED coreVars \/ (results \notin Refused /\ WriteGeometry)
    /\ Drained
    /\ DrainOnly

Wake ==
    /\ pc = "pause" /\ ~InTime
    /\ pc' = "tick"
    /\ DrainOnly /\ UNCHANGED <<drainVars, coreVars, faults>>

\* The process ends at any point and starts over.
Restart ==
    /\ Fault
    /\ pc' = "tick" /\ backfill' = TRUE
    /\ allDone' = TRUE /\ query' = "primary" /\ window' = {} /\ page' = 1 /\ attempts' = 0
    /\ features' = {} /\ done' = FALSE
    /\ entries' = {} /\ entry' = NoEvent /\ results' = {} /\ last' = FALSE
    /\ owed' = {}
    /\ UNCHANGED <<sourceVars, elapsed, coreVars, idle, late, overlooked>>

Loop ==
    \/ Tick \/ FetchPage \/ Retry \/ SendPage \/ NextPage
    \/ AskPending \/ NextEntry \/ FetchGeometry \/ RetryGeometry \/ SendGeometry
    \/ RefuseGeometry \/ Wake

Failing ==
    \/ FetchFails \/ FetchAbandoned \/ SendPageFails \/ PendingFails
    \/ GeometryFails \/ SendGeometryFails \/ Restart

Next ==
    \/ \E e \in Events : Change(e)
    \/ TimePasses
    \/ Loop \/ Failing

Spec == Init /\ [][Next]_vars

\* The loop runs, requests are answered or fail, and time passes.
LiveSpec == Spec /\ WF_vars(Loop \/ GeometryFails) /\ WF_vars(TimePasses)

-----------------------------------------------------------------------------
\* Properties.

\* What became of the last change of an event.
Status(e) == IF e \in fresh THEN "stored" ELSE IF e \in overlooked THEN "overlooked" ELSE "new"

Listed(q) == {e \in Events : QueryOf[e] = q}

Primary == INSTANCE WindowPoller WITH
    Events <- Listed("primary"), Window <- WindowLength,
    status <- [e \in Listed("primary") |-> Status(e)],
    idle <- idle["primary"], late <- late["primary"]

Tsunami == INSTANCE WindowPoller WITH
    Events <- Listed("tsunami"), Window <- WindowLength,
    status <- [e \in Listed("tsunami") |-> Status(e)],
    idle <- idle["tsunami"], late <- late["tsunami"]

\* Each of the two queries keeps the promise of a window poller, through
\* pages, retries, refusals, lost answers and restarts: a change is missed
\* only by a poll begun more than three intervals after the last complete
\* one, the list of tsunamis never misses any.
KeepsWindow == Primary!Spec /\ Tsunami!Spec

\* The loop is in the hands of a geometry that is never answered.
Held == entry \in unanswered

\* The loop comes to its next tick, however pages, lookups and deliveries
\* fail; the one thing that can hold it for good is a geometry's retry.
KeepsPolling == (pc # "tick") ~> (pc = "tick" \/ Held)

\* The batch that the drain begins with is one that the core refuses, so that it
\* and everything behind it comes up again at the next tick.
Blocked == FirstPending(BatchSize) \in Refused

\* Every episode in the core gets its geometry and keeps it, across batches lost
\* and drains cut short, unless the loop ends up held by a geometry or the drain
\* ends up before a batch that is refused for good.
GeometryComplete == <>[](stored \subseteq geometries \/ Held \/ Blocked)
=============================================================================
