-------------------------- MODULE CapAdapterProofs --------------------------
(***************************************************************************)
(* What the CAP pipeline keeps for any number of feeds, documents,         *)
(* messages, overlapping batch handlers and faults: an item is marked      *)
(* fetched only when its message is stored, a validator covers what the    *)
(* core has indexed, and a repeated POST uses up no attempt.  Then what    *)
(* the host limiter keeps that the adapter's requests pass through.        *)
(***************************************************************************)
EXTENDS CapAdapter, CapHostLimiter, FiniteSetTheorems, TLAPS

JobType == [ph : {"none", "record", "filter", "write", "repeats", "done", "error"},
            left : SUBSET Results, repeats : SUBSET Results,
            chunk : SUBSET Results, failed : SUBSET Messages]

ItemType == [state : {"absent", "pending", "skipped", "failed", "fetched"},
             attempts : Nat, last : Nat]

CoreType ==
    /\ registered \in SUBSET Feeds /\ subscribed \in SUBSET registered
    /\ fails \in [Feeds -> 0..FailCap]
    /\ item \in [Items -> ItemType]
    /\ stored \in SUBSET Messages /\ seen \in SUBSET Messages
    /\ jobs \in [Slots -> JobType]

PollFields == {"pc", "ok", "listed", "fresh", "n"}
Validators(S) == (SUBSET S) \cup {None}

LoopType ==
    /\ raaNew \in SUBSET Feeds /\ raaTag \in Validators(Feeds)
    /\ tag \in [Feeds -> Validators(Items)]
    /\ DOMAIN poll = Feeds
    /\ \A f \in Feeds : DOMAIN poll[f] = PollFields /\ poll[f].listed \in SUBSET Items
    /\ got \in SUBSET Results /\ batch \in SUBSET Results /\ todo \in SUBSET Items

RestType ==
    /\ raaList \in SUBSET Feeds /\ list \in [Feeds -> SUBSET Items]
    /\ downloads \in [Items -> Nat]
    /\ lateRegistry \in SUBSET SUBSET Feeds

\* A report on its way to the core is of a download that was made, and says
\* that the document is gone only when it is.
Genuine(r) ==
    /\ r.at <= downloads[r.item]
    /\ r.out = "permanent" => r.item \in Gone

ReportsInv ==
    /\ \A r \in got \cup batch : Genuine(r)
    /\ \A s \in Slots : \A r \in jobs[s].left \cup jobs[s].chunk \cup jobs[s].repeats : Genuine(r)

\* What a handler knows of the keys it holds: a repeat was seen, hence is
\* stored; a record being written is stored, has failed, or has its turn yet.
HandlerInv ==
    \A s \in Slots :
        /\ \A r \in jobs[s].repeats : Key(r) \in stored
        /\ jobs[s].ph = "write" =>
             \A r \in jobs[s].left : r \in jobs[s].chunk \/ Key(r) \in stored \cup jobs[s].failed

StoredInv == seen \subseteq stored /\ HandlerInv /\ FetchedIsStored

\* Every attempt of an item has a download of its own as its latest report.
CountInv ==
    /\ \A i \in Items : item[i].last <= downloads[i]
    /\ \A i \in Items \ (Gone \cup crossed) : item[i].attempts <= item[i].last

\* Only feeds that are registered are polled.
PollInv == \A f \in Feeds : poll[f] # NoPoll => f \in registered

IInv ==
    /\ CoreType /\ LoopType /\ RestType
    /\ ReportsInv /\ StoredInv /\ CountInv /\ PollInv /\ ValidatorsCovered

-----------------------------------------------------------------------------
LEMMA NoJobOK == NoJob \in JobType
  BY DEF NoJob, Job, JobType

LEMMA JobOK ==
    ASSUME NEW ph \in {"none", "record", "done", "error"}, NEW b \in SUBSET Results
    PROVE  /\ Job(ph, b) \in JobType
           /\ Job(ph, b).ph = ph /\ Job(ph, b).left = b
           /\ Job(ph, b).repeats = {} /\ Job(ph, b).chunk = {}
  BY DEF Job, JobType

LEMMA NoPollOK ==
    /\ DOMAIN NoPoll = PollFields /\ NoPoll.listed = {}
    /\ DOMAIN GetPoll = PollFields /\ GetPoll.listed = {}
  BY DEF NoPoll, GetPoll, PollFields

LEMMA KeyOK == \A r \in Results : r.item \in Items /\ r.at \in Nat /\ Key(r) \in Messages
  BY DEF Results, Key, Messages

LEMMA InitInv == Init => IInv
<1> SUFFICES ASSUME Init PROVE IInv
  OBVIOUS
<1> USE DEF Init, CoreInit
<1>1. CoreType
  <2>1. NoItem \in ItemType
    BY DEF NoItem, ItemType
  <2> QED
    BY <2>1, NoJobOK DEF CoreType, FailCap
<1>2. LoopType
  BY NoPollOK DEF LoopType, Validators
<1>3. RestType
  BY CapAdapterAssumption DEF RestType
<1>4. ReportsInv /\ StoredInv
  BY JobOK DEF ReportsInv, StoredInv, HandlerInv, FetchedIsStored, NoJob, NoItem
<1>5. CountInv /\ PollInv /\ ValidatorsCovered
  BY DEF CountInv, PollInv, ValidatorsCovered, NoItem
<1> QED
  BY <1>1, <1>2, <1>3, <1>4, <1>5 DEF IInv

-----------------------------------------------------------------------------
\* Steps of the adapter that leave the core alone and add no report.
LEMMA CoreKept ==
    ASSUME IInv, UNCHANGED coreVars, UNCHANGED <<downloads, crossed>>,
           got' \cup batch' \subseteq got \cup batch
    PROVE  CoreType' /\ ReportsInv' /\ StoredInv' /\ CountInv'
<1>1. CoreType'
  BY DEF IInv, coreVars, CoreType
<1>2. ReportsInv'
  BY DEF IInv, coreVars, ReportsInv, Genuine
<1>3. StoredInv' /\ CountInv'
  BY DEF IInv, coreVars, StoredInv, HandlerInv, FetchedIsStored, CountInv
<1> QED
  BY <1>1, <1>2, <1>3

\* Steps that give the handlers other batches, of reports there are already.
LEMMA JobsMoved ==
    ASSUME IInv, UNCHANGED <<registered, subscribed, fails, item, stored, seen>>,
           UNCHANGED <<downloads, crossed>>, got' \cup batch' \subseteq got \cup batch,
           DOMAIN jobs' = Slots,
           \A s \in Slots :
              \/ \E t \in Slots : jobs'[s] = jobs[t]
              \/ \E ph \in {"none", "record", "done", "error"} :
                 \E b \in SUBSET (got \cup batch) : jobs'[s] = Job(ph, b),
           jobs' = [s \in Slots |-> jobs'[s]]
    PROVE  CoreType' /\ ReportsInv' /\ StoredInv' /\ CountInv'
<1>1. got \cup batch \subseteq Results
  BY DEF IInv, LoopType
<1>2. \A s \in Slots : jobs'[s] \in JobType
  BY <1>1, JobOK DEF IInv, CoreType
<1>3. CoreType'
  BY <1>2 DEF IInv, CoreType
<1>4. \A s \in Slots : \A r \in jobs'[s].left \cup jobs'[s].chunk \cup jobs'[s].repeats : Genuine(r)
  BY <1>1, JobOK DEF IInv, ReportsInv
<1>5. ReportsInv'
  BY <1>4 DEF IInv, ReportsInv, Genuine
<1>6. \A s \in Slots :
        /\ \A r \in jobs'[s].repeats : Key(r) \in stored
        /\ jobs'[s].ph = "write" =>
             \A r \in jobs'[s].left : r \in jobs'[s].chunk \/ Key(r) \in stored \cup jobs'[s].failed
  BY <1>1, JobOK DEF IInv, StoredInv, HandlerInv
<1>7. StoredInv' /\ CountInv'
  BY <1>6 DEF IInv, StoredInv, HandlerInv, FetchedIsStored, CountInv
<1> QED
  BY <1>3, <1>5, <1>7

\* Polls and validators stay covered when nothing is polled anew, no
\* validator is new, and items and registry only grow.
LEMMA CoverKept ==
    ASSUME IInv, UNCHANGED <<subscribed, registered>>,
           \A f \in Feeds : poll'[f] # NoPoll => poll[f] # NoPoll,
           \A f \in Feeds : tag'[f] \in {tag[f], None},
           raaTag' \in {raaTag, None}, raaTag' # None => overrun' = overrun,
           \A i \in Items : item[i] # NoItem => item'[i] # NoItem
    PROVE  PollInv' /\ ValidatorsCovered'
<1>1. PollInv'
  BY DEF IInv, PollInv
<1>2. \A f \in Feeds : tag[f] # None => tag[f] \subseteq Items
  BY DEF IInv, LoopType, Validators
<1>3. ValidatorsCovered'
  BY <1>2 DEF IInv, ValidatorsCovered
<1> QED
  BY <1>1, <1>3

-----------------------------------------------------------------------------
\* One item takes in the report of a download: unless an older one overtook
\* it, an attempt is counted only together with a later download.
LEMMA ItemUpdated ==
    ASSUME IInv, NEW r \in Results, Genuine(r), NEW x \in ItemType, x.last = r.at,
           r.item \notin Gone => x.attempts <= item[r.item].attempts + 1,
           r.item \notin Gone /\ item[r.item].last = r.at => x.attempts = item[r.item].attempts,
           x.state \in {"failed", "fetched"},
           item' = [item EXCEPT ![r.item] = x], CoreOnly
    PROVE  /\ item' \in [Items -> ItemType]
           /\ CountInv'
           /\ \A i \in Items : item[i] # NoItem => item'[i] # NoItem
<1>1. r.item \in Items /\ r.at \in Nat
  BY KeyOK
<1>2. item \in [Items -> ItemType] /\ downloads \in [Items -> Nat] /\ CountInv
  BY DEF IInv, CoreType, RestType
<1>3. item' \in [Items -> ItemType]
  BY <1>1, <1>2
<1>4. x # NoItem
  BY DEF NoItem
<1>5. \A i \in Items : item'[i] = IF i = r.item THEN x ELSE item[i]
  BY <1>1, <1>2
<1>6. /\ downloads' = downloads
      /\ crossed' = crossed \cup {i \in Items : item'[i].last < item[i].last}
  BY DEF CoreOnly, timeVars
<1>7. \A i \in Items : item'[i].last <= downloads'[i]
  BY <1>2, <1>5, <1>6 DEF CountInv, Genuine
<1>8. ASSUME NEW i \in Items \ (Gone \cup crossed')
      PROVE  item'[i].attempts <= item'[i].last
  <2>1. i \notin crossed /\ ~(item'[i].last < item[i].last)
    BY <1>6
  <2>2. item[i].attempts <= item[i].last
    BY <1>2, <2>1 DEF CountInv
  <2>3. /\ item[i].attempts \in Nat /\ item[i].last \in Nat
        /\ x.attempts \in Nat /\ x.last \in Nat
    BY <1>2 DEF ItemType
  <2>4. CASE i = r.item
    BY <1>5, <2>1, <2>2, <2>3, <2>4
  <2> QED
    BY <1>5, <2>2, <2>4
<1> QED
  BY <1>3, <1>4, <1>5, <1>7, <1>8 DEF CountInv

LEMMA FetchedOK ==
    ASSUME IInv, NEW r \in Results
    PROVE  LET x == Fetched(r.item, r.at) IN
           /\ x \in ItemType /\ x.last = r.at /\ x.state = "fetched"
           /\ x.attempts = item[r.item].attempts
<1>1. item[r.item] \in ItemType /\ r.at \in Nat
  BY KeyOK DEF IInv, CoreType
<1> QED
  BY <1>1 DEF Fetched, ItemType

LEMMA FailedOK ==
    ASSUME IInv, NEW r \in Results, NEW n \in Nat
    PROVE  LET x == Failed(r.item, r.at, n) IN
           /\ x \in ItemType /\ x.last = r.at /\ x.state = "failed"
           /\ x.attempts = IF item[r.item].last = r.at THEN item[r.item].attempts ELSE n
<1>1. item[r.item] \in ItemType /\ r.at \in Nat
  BY KeyOK DEF IInv, CoreType
<1> QED
  BY <1>1 DEF Failed, ItemType

\* A handler whose batch shrinks holds nothing it did not hold.
LEMMA JobStep ==
    ASSUME IInv, NEW s \in Slots, NEW j \in JobType, jobs' = [jobs EXCEPT ![s] = j],
           j.left \subseteq jobs[s].left,
           j.chunk \subseteq jobs[s].left \cup jobs[s].chunk,
           j.repeats \subseteq jobs[s].left \cup jobs[s].repeats,
           UNCHANGED <<got, batch, downloads>>
    PROVE  jobs' \in [Slots -> JobType] /\ ReportsInv'
<1>1. jobs \in [Slots -> JobType]
  BY DEF IInv, CoreType
<1>2. \A t \in Slots : jobs'[t] = IF t = s THEN j ELSE jobs[t]
  BY <1>1
<1> QED
  BY <1>1, <1>2 DEF IInv, ReportsInv, Genuine

\* The keys a handler answers for stay accounted for when nothing stored is
\* lost.
LEMMA KeysKept ==
    ASSUME IInv, NEW s \in Slots, NEW j \in JobType, jobs' = [jobs EXCEPT ![s] = j],
           stored \subseteq stored',
           \A r \in j.repeats : Key(r) \in stored',
           j.ph = "write" => \A r \in j.left : r \in j.chunk \/ Key(r) \in stored' \cup j.failed
    PROVE  HandlerInv'
<1>1. \A t \in Slots : jobs'[t] = IF t = s THEN j ELSE jobs[t]
  BY DEF IInv, CoreType
<1> QED
  BY <1>1 DEF IInv, StoredInv, HandlerInv

\* What every step of a handler keeps.
CoreInv == CoreType /\ ReportsInv /\ StoredInv /\ CountInv
ItemsStay == \A i \in Items : item[i] # NoItem => item'[i] # NoItem

LEMMA JobFacts ==
    ASSUME IInv, NEW s \in Slots
    PROVE  /\ jobs[s] \in JobType
           /\ jobs[s].left \subseteq Results /\ jobs[s].chunk \subseteq Results
           /\ jobs[s].repeats \subseteq Results /\ jobs[s].failed \subseteq Messages
           /\ \A r \in jobs[s].left \cup jobs[s].chunk \cup jobs[s].repeats : Genuine(r)
<1>1. jobs[s] \in JobType
  BY DEF IInv, CoreType
<1> QED
  BY <1>1 DEF JobType, IInv, ReportsInv

LEMMA FinishedOK ==
    ASSUME NEW s \in Slots, NEW ph \in {"done", "error"}
    PROVE  LET j == Finished(s, ph) IN
           /\ j \in JobType /\ j.left = {} /\ j.repeats = {} /\ j.chunk = {} /\ j.ph # "write"
  BY JobOK, NoJobOK DEF Finished, NoJob

\* Steps that only move a handler on.
LEMMA JobOnly ==
    ASSUME IInv, NEW s \in Slots, NEW j \in JobType, jobs' = [jobs EXCEPT ![s] = j],
           j.left \subseteq jobs[s].left,
           j.chunk \subseteq jobs[s].left \cup jobs[s].chunk,
           j.repeats \subseteq jobs[s].left \cup jobs[s].repeats,
           \A r \in j.repeats : Key(r) \in stored,
           j.ph = "write" => \A r \in j.left : r \in j.chunk \/ Key(r) \in stored \cup j.failed,
           UNCHANGED <<registered, subscribed, fails, item, stored>>,
           seen' \subseteq stored, CoreOnly
    PROVE  CoreInv' /\ ItemsStay
<1>0. UNCHANGED <<got, batch, downloads>>
  BY DEF CoreOnly, adapterVars, timeVars
<1>1. jobs' \in [Slots -> JobType] /\ ReportsInv'
  BY <1>0, JobStep
<1>2. HandlerInv'
  BY KeysKept
<1>3. CoreType'
  BY <1>1 DEF IInv, CoreType
<1>4. StoredInv'
  BY <1>2 DEF IInv, StoredInv, FetchedIsStored
<1>5. \A i \in Items : item[i].last \in Nat
  BY DEF IInv, CoreType, ItemType
<1>6. crossed' = crossed
  BY <1>5 DEF CoreOnly
<1>7. CountInv'
  BY <1>0, <1>6 DEF IInv, CountInv
<1> QED
  BY <1>1, <1>3, <1>4, <1>7 DEF CoreInv, ItemsStay

\* Steps that take in one report and move the handler on.
LEMMA ItemAndJob ==
    ASSUME IInv, NEW s \in Slots, NEW j \in JobType, jobs' = [jobs EXCEPT ![s] = j],
           j.left \subseteq jobs[s].left, j.chunk \subseteq jobs[s].chunk,
           j.repeats \subseteq jobs[s].repeats,
           stored \subseteq stored', stored' \subseteq Messages,
           j.ph = "write" => \A r \in j.left : r \in j.chunk \/ Key(r) \in stored' \cup j.failed,
           NEW r \in Results, Genuine(r), NEW x \in ItemType, x.last = r.at,
           r.item \notin Gone => x.attempts <= item[r.item].attempts + 1,
           r.item \notin Gone /\ item[r.item].last = r.at => x.attempts = item[r.item].attempts,
           x.state \in {"failed", "fetched"}, x.state = "fetched" => Key(r) \in stored',
           item' = [item EXCEPT ![r.item] = x],
           UNCHANGED <<registered, subscribed, fails, seen>>, CoreOnly
    PROVE  CoreInv' /\ ItemsStay
<1>0. UNCHANGED <<got, batch, downloads>>
  BY DEF CoreOnly, adapterVars, timeVars
<1>1. jobs' \in [Slots -> JobType] /\ ReportsInv'
  BY <1>0, JobStep
<1>2. \A q \in j.repeats : Key(q) \in stored'
  BY DEF IInv, StoredInv, HandlerInv
<1>3. HandlerInv'
  BY <1>2, KeysKept
<1>4. item' \in [Items -> ItemType] /\ CountInv' /\ ItemsStay
  BY ItemUpdated DEF ItemsStay
<1>5. CoreType'
  BY <1>1, <1>4 DEF IInv, CoreType
<1>6. FetchedIsStored'
  <2>1. \A i \in Items : item'[i] = IF i = r.item THEN x ELSE item[i]
    BY KeyOK DEF IInv, CoreType
  <2> QED
    BY <2>1 DEF IInv, StoredInv, FetchedIsStored, Key
<1>7. StoredInv'
  BY <1>3, <1>6 DEF IInv, StoredInv
<1> QED
  BY <1>1, <1>4, <1>5, <1>7 DEF CoreInv

LEMMA RecordFetchFailureOK ==
    ASSUME IInv, NEW s \in Slots, RecordFetchFailure(s), CoreOnly
    PROVE  CoreInv' /\ ItemsStay
<1>1. PICK r \in jobs[s].left :
        /\ r.out # "cap"
        /\ item' = [item EXCEPT ![r.item] = Failed(r.item, r.at, DecideFetchOutcome(r))]
        /\ jobs' = [jobs EXCEPT ![s].left = @ \ {r}]
  BY DEF RecordFetchFailure
<1> DEFINE j == [jobs[s] EXCEPT !.left = @ \ {r}]
           x == Failed(r.item, r.at, DecideFetchOutcome(r))
<1>2. jobs[s] \in JobType /\ r \in Results /\ Genuine(r) /\ jobs[s].ph = "record"
  BY JobFacts DEF RecordFetchFailure
<1>3. /\ j \in JobType /\ j.left \subseteq jobs[s].left /\ j.chunk = jobs[s].chunk
      /\ j.repeats = jobs[s].repeats /\ j.ph = "record"
  BY <1>2 DEF JobType
<1>4. jobs' = [jobs EXCEPT ![s] = j]
  BY <1>1
<1>5. item[r.item] \in ItemType /\ item[r.item].attempts \in Nat
  BY <1>2, KeyOK DEF IInv, CoreType, ItemType
<1>6. /\ DecideFetchOutcome(r) \in Nat
      /\ r.item \notin Gone => DecideFetchOutcome(r) = item[r.item].attempts + 1
  BY <1>1, <1>2, <1>5, CapItemsAssumption DEF DecideFetchOutcome, Genuine, Results, Outcomes
<1>7. /\ x \in ItemType /\ x.last = r.at /\ x.state = "failed"
      /\ x.attempts = IF item[r.item].last = r.at THEN item[r.item].attempts
                      ELSE DecideFetchOutcome(r)
  BY <1>2, <1>6, FailedOK
<1>8. /\ r.item \notin Gone => x.attempts <= item[r.item].attempts + 1
      /\ item[r.item].last = r.at => x.attempts = item[r.item].attempts
  BY <1>5, <1>6, <1>7
<1>9. stored' = stored /\ stored \subseteq Messages /\ UNCHANGED <<registered, subscribed, fails, seen>>
  BY DEF RecordFetchFailure, IInv, CoreType
<1> HIDE DEF j, x
<1>10. item' = [item EXCEPT ![r.item] = x]
  BY <1>1 DEF x
<1> QED
  BY <1>2, <1>3, <1>4, <1>7, <1>8, <1>9, <1>10, ItemAndJob

LEMMA WriteRecordOK ==
    ASSUME IInv, NEW s \in Slots, WriteRecord(s), CoreOnly
    PROVE  CoreInv' /\ ItemsStay
<1>1. PICK r \in jobs[s].chunk :
        /\ stored' = stored \cup {Key(r)}
        /\ item' = [item EXCEPT ![r.item] = Fetched(r.item, r.at)]
        /\ jobs' = [jobs EXCEPT ![s].chunk = @ \ {r}]
  BY DEF WriteRecord
<1> DEFINE j == [jobs[s] EXCEPT !.chunk = @ \ {r}]
           x == Fetched(r.item, r.at)
<1>2. jobs[s] \in JobType /\ r \in Results /\ Genuine(r) /\ jobs[s].ph = "write"
  BY JobFacts DEF WriteRecord
<1>3. /\ j \in JobType /\ j.left = jobs[s].left /\ j.chunk = jobs[s].chunk \ {r}
      /\ j.repeats = jobs[s].repeats /\ j.failed = jobs[s].failed
  BY <1>2 DEF JobType
<1>4. jobs' = [jobs EXCEPT ![s] = j]
  BY <1>1
<1>5. item[r.item].attempts \in Nat
  BY <1>2, KeyOK DEF IInv, CoreType, ItemType
<1>6. /\ x \in ItemType /\ x.last = r.at /\ x.state = "fetched"
      /\ x.attempts = item[r.item].attempts
  BY <1>2, FetchedOK
<1>7. stored \subseteq stored' /\ stored' \subseteq Messages /\ Key(r) \in stored'
  BY <1>1, <1>2, KeyOK DEF IInv, CoreType
<1>8. \A q \in j.left : q \in j.chunk \/ Key(q) \in stored' \cup j.failed
  BY <1>1, <1>2, <1>3 DEF IInv, StoredInv, HandlerInv
<1>9. UNCHANGED <<registered, subscribed, fails, seen>>
  BY DEF WriteRecord
<1> HIDE DEF j, x
<1>10. item' = [item EXCEPT ![r.item] = x]
  BY <1>1 DEF x
<1>11. /\ x.attempts <= item[r.item].attempts + 1
       /\ j.left \subseteq jobs[s].left /\ j.chunk \subseteq jobs[s].chunk
  BY <1>3, <1>5, <1>6
<1> QED
  BY <1>2, <1>3, <1>4, <1>6, <1>7, <1>8, <1>9, <1>10, <1>11, ItemAndJob

LEMMA WriteRecordFailsOK ==
    ASSUME IInv, NEW s \in Slots, WriteRecordFails(s), CoreOnly
    PROVE  CoreInv' /\ ItemsStay
<1>1. PICK r \in jobs[s].chunk :
        /\ \/ item' = [item EXCEPT ![r.item] = Failed(r.item, r.at, item[r.item].attempts + 1)]
           \/ item' = item
        /\ jobs' = [jobs EXCEPT ![s].chunk = @ \ {r}, ![s].failed = @ \cup {Key(r)}]
  BY DEF WriteRecordFails
<1> DEFINE j == [jobs[s] EXCEPT !.chunk = @ \ {r}, !.failed = @ \cup {Key(r)}]
           x == Failed(r.item, r.at, item[r.item].attempts + 1)
<1>2. /\ jobs[s] \in JobType /\ r \in Results /\ Genuine(r) /\ jobs[s].ph = "write"
      /\ jobs \in [Slots -> JobType] /\ Key(r) \in Messages
  BY JobFacts, KeyOK DEF WriteRecordFails, IInv, CoreType
<1>3. /\ j \in JobType /\ j.left = jobs[s].left /\ j.chunk = jobs[s].chunk \ {r}
      /\ j.repeats = jobs[s].repeats /\ j.failed = jobs[s].failed \cup {Key(r)}
  BY <1>2 DEF JobType
<1>4. jobs' = [jobs EXCEPT ![s] = j]
  BY <1>1, <1>2 DEF JobType
<1>5. item[r.item].attempts \in Nat
  BY <1>2, KeyOK DEF IInv, CoreType, ItemType
<1>6. /\ x \in ItemType /\ x.last = r.at /\ x.state = "failed"
      /\ x.attempts = IF item[r.item].last = r.at THEN item[r.item].attempts
                      ELSE item[r.item].attempts + 1
  BY <1>2, <1>5, FailedOK
<1>7. /\ UNCHANGED <<registered, subscribed, fails, seen, stored>>
      /\ stored \subseteq Messages /\ seen \subseteq stored
  BY DEF WriteRecordFails, IInv, CoreType, StoredInv
<1>8. \A q \in j.left : q \in j.chunk \/ Key(q) \in stored \cup j.failed
  BY <1>2, <1>3 DEF IInv, StoredInv, HandlerInv
<1> HIDE DEF j, x
<1>9. CASE item' = item
  <2>1. \A q \in j.repeats : Key(q) \in stored
    BY <1>3 DEF IInv, StoredInv, HandlerInv
  <2> QED
    BY <1>3, <1>4, <1>7, <1>8, <1>9, <2>1, JobOnly
<1>10. CASE item' = [item EXCEPT ![r.item] = x]
  <2>1. /\ x.attempts <= item[r.item].attempts + 1
        /\ item[r.item].last = r.at => x.attempts = item[r.item].attempts
        /\ j.left \subseteq jobs[s].left /\ j.chunk \subseteq jobs[s].chunk
    BY <1>3, <1>5, <1>6
  <2> QED
    BY <1>2, <1>3, <1>4, <1>6, <1>7, <1>8, <1>10, <2>1, ItemAndJob
<1> QED
  BY <1>1, <1>9, <1>10 DEF x

LEMMA MarkRepeatOK ==
    ASSUME IInv, NEW s \in Slots, MarkRepeat(s), CoreOnly
    PROVE  CoreInv' /\ ItemsStay
<1>1. PICK r \in jobs[s].repeats :
        /\ item' = [item EXCEPT ![r.item] = Fetched(r.item, r.at)]
        /\ jobs' = [jobs EXCEPT ![s].repeats = @ \ {r}]
  BY DEF MarkRepeat
<1> DEFINE j == [jobs[s] EXCEPT !.repeats = @ \ {r}]
           x == Fetched(r.item, r.at)
<1>2. jobs[s] \in JobType /\ r \in Results /\ Genuine(r) /\ jobs[s].ph = "repeats"
  BY JobFacts DEF MarkRepeat
<1>3. /\ j \in JobType /\ j.left = jobs[s].left /\ j.chunk = jobs[s].chunk
      /\ j.repeats \subseteq jobs[s].repeats /\ j.ph = "repeats"
  BY <1>2 DEF JobType
<1>4. jobs' = [jobs EXCEPT ![s] = j]
  BY <1>1
<1>5. item[r.item].attempts \in Nat
  BY <1>2, KeyOK DEF IInv, CoreType, ItemType
<1>6. /\ x \in ItemType /\ x.last = r.at /\ x.state = "fetched"
      /\ x.attempts = item[r.item].attempts
  BY <1>2, FetchedOK
<1>7. /\ UNCHANGED <<registered, subscribed, fails, seen, stored>>
      /\ stored \subseteq Messages /\ Key(r) \in stored
  BY <1>1 DEF MarkRepeat, IInv, CoreType, StoredInv, HandlerInv
<1> HIDE DEF j, x
<1>8. item' = [item EXCEPT ![r.item] = x]
  BY <1>1 DEF x
<1>9. /\ x.attempts <= item[r.item].attempts + 1
      /\ j.left \subseteq jobs[s].left /\ j.chunk \subseteq jobs[s].chunk
  BY <1>3, <1>5, <1>6
<1> QED
  BY <1>2, <1>3, <1>4, <1>6, <1>7, <1>8, <1>9, ItemAndJob

LEMMA FindRepeatsOK ==
    ASSUME IInv, NEW s \in Slots, FindRepeats(s), CoreOnly
    PROVE  CoreInv' /\ ItemsStay
<1> DEFINE rep == {r \in jobs[s].left : Key(r) \in seen}
           next == [jobs[s] EXCEPT !.ph = "filter", !.repeats = rep]
           j == IF jobs[s].left = {} THEN Finished(s, "done") ELSE next
<1>1. jobs[s] \in JobType /\ jobs' = [jobs EXCEPT ![s] = j]
  BY JobFacts DEF FindRepeats, IInv, CoreType
<1>2. /\ next \in JobType /\ next.left = jobs[s].left /\ next.chunk = jobs[s].chunk
      /\ next.repeats = rep /\ next.ph = "filter"
  BY <1>1 DEF JobType
<1>3. /\ j \in JobType /\ j.left \subseteq jobs[s].left /\ j.chunk \subseteq jobs[s].chunk
      /\ j.repeats \subseteq rep /\ j.ph # "write"
  BY <1>2, FinishedOK
<1>4. \A r \in rep : Key(r) \in stored
  BY DEF IInv, StoredInv
<1>5. UNCHANGED <<registered, subscribed, fails, item, stored>> /\ seen' \subseteq stored
  BY DEF FindRepeats, IInv, StoredInv
<1>6. rep \subseteq jobs[s].left
  OBVIOUS
<1> HIDE DEF j, rep
<1> QED
  BY <1>1, <1>3, <1>4, <1>5, <1>6, JobOnly

LEMMA FindSurvivorsOK ==
    ASSUME IInv, NEW s \in Slots, FindSurvivors(s), CoreOnly
    PROVE  CoreInv' /\ ItemsStay
<1> DEFINE sur == {r \in jobs[s].left : Key(r) \notin seen}
           j == [jobs[s] EXCEPT !.ph = "write", !.left = sur, !.chunk = sur]
<1>1. jobs[s] \in JobType /\ jobs \in [Slots -> JobType]
  BY JobFacts DEF IInv, CoreType
<1>2. jobs' = [jobs EXCEPT ![s] = j]
  BY <1>1 DEF FindSurvivors, JobType
<1>3. /\ j \in JobType /\ j.left = sur /\ j.chunk = sur /\ j.repeats = jobs[s].repeats
  BY <1>1 DEF JobType
<1>4. UNCHANGED <<registered, subscribed, fails, item, stored>> /\ seen' \subseteq stored
  BY DEF FindSurvivors, IInv, StoredInv
<1>5. \A r \in jobs[s].repeats : Key(r) \in stored
  BY DEF IInv, StoredInv, HandlerInv
<1>6. sur \subseteq jobs[s].left
  OBVIOUS
<1> HIDE DEF j, sur
<1> QED
  BY <1>2, <1>3, <1>4, <1>5, <1>6, JobOnly

LEMMA MarkSeenOK ==
    ASSUME IInv, NEW s \in Slots, MarkSeen(s), CoreOnly
    PROVE  CoreInv' /\ ItemsStay
<1> DEFINE j == [jobs[s] EXCEPT !.ph = "repeats", !.left = {}, !.failed = {}]
<1>1. jobs[s] \in JobType /\ jobs \in [Slots -> JobType]
  BY JobFacts DEF IInv, CoreType
<1>2. jobs' = [jobs EXCEPT ![s] = j]
  BY <1>1 DEF MarkSeen, JobType
<1>3. /\ j \in JobType /\ j.left = {} /\ j.chunk = jobs[s].chunk /\ j.repeats = jobs[s].repeats
      /\ j.ph = "repeats"
  BY <1>1 DEF JobType
<1>4. \A r \in jobs[s].left : Key(r) \in stored \cup jobs[s].failed
  BY DEF MarkSeen, IInv, StoredInv, HandlerInv
<1>5. UNCHANGED <<registered, subscribed, fails, item, stored>> /\ seen' \subseteq stored
  BY <1>4 DEF MarkSeen, IInv, StoredInv
<1>6. \A r \in jobs[s].repeats : Key(r) \in stored
  BY DEF IInv, StoredInv, HandlerInv
<1> HIDE DEF j
<1> QED
  BY <1>2, <1>3, <1>5, <1>6, JobOnly

LEMMA AnswerOK ==
    ASSUME IInv, NEW s \in Slots, Answer(s) \/ HandlerFails(s), CoreOnly
    PROVE  CoreInv' /\ ItemsStay
<1>1. PICK ph \in {"done", "error"} : jobs' = [jobs EXCEPT ![s] = Finished(s, ph)]
  BY DEF Answer, HandlerFails
<1>2. UNCHANGED <<registered, subscribed, fails, item, stored>> /\ seen' \subseteq stored
  BY DEF Answer, HandlerFails, IInv, StoredInv
<1> DEFINE j == Finished(s, ph)
<1>3. /\ j \in JobType /\ j.left = {} /\ j.repeats = {} /\ j.chunk = {} /\ j.ph # "write"
  BY FinishedOK
<1> HIDE DEF j
<1>4. jobs' = [jobs EXCEPT ![s] = j]
  BY <1>1 DEF j
<1> QED
  BY <1>2, <1>3, <1>4, JobOnly

LEMMA SeenExpiresOK ==
    ASSUME IInv, SeenExpires, CoreOnly
    PROVE  CoreInv' /\ ItemsStay
<1>1. UNCHANGED <<registered, subscribed, fails, item, stored, jobs>> /\ seen' \subseteq seen
  BY DEF SeenExpires
<1>2. jobs' = [jobs EXCEPT ![0] = jobs[0]] /\ 0 \in Slots
  BY <1>1, CapItemsAssumption DEF IInv, CoreType
<1>3. /\ \A r \in jobs[0].repeats : Key(r) \in stored
      /\ jobs[0].ph = "write" =>
           \A r \in jobs[0].left : r \in jobs[0].chunk \/ Key(r) \in stored \cup jobs[0].failed
      /\ seen \subseteq stored
  BY <1>2 DEF IInv, StoredInv, HandlerInv
<1>4. jobs[0] \in JobType
  BY <1>2, JobFacts
<1> QED
  BY <1>1, <1>2, <1>3, <1>4, JobOnly

-----------------------------------------------------------------------------
\* An index makes items known; it changes none that is known.
LEMMA WriteIndexOK ==
    ASSUME IInv, NEW f, NEW ok, NEW listed, WriteIndex(f, ok, listed),
           UNCHANGED <<got, batch, downloads, crossed>>
    PROVE  /\ CoreInv' /\ ItemsStay /\ UNCHANGED <<registered, subscribed>>
           /\ f \in registered => \A i \in Items \cap listed : item'[i] # NoItem
<1>1. UNCHANGED <<registered, subscribed, stored, seen, jobs>>
  BY DEF WriteIndex
<1>2. fails' \in [Feeds -> 0..FailCap]
  <2>1. fails \in [Feeds -> 0..FailCap]
    BY DEF IInv, CoreType
  <2>2. CASE f \in registered
    BY <2>1, <2>2 DEF WriteIndex, UpdateFeedHealth, FailCap
  <2> QED
    BY <2>1, <2>2 DEF WriteIndex
<1>3. \A b \in BOOLEAN :
        /\ NewItem(b) \in ItemType /\ NewItem(b) # NoItem /\ NewItem(b).state # "fetched"
        /\ NewItem(b).attempts = 0 /\ NewItem(b).last = 0
  BY DEF NewItem, NoItem, ItemType
<1>4. /\ DOMAIN item' = Items /\ item' = [i \in Items |-> item'[i]]
      /\ \A i \in Items : \/ item'[i] = item[i] /\ (item[i] = NoItem /\ f \in registered => i \notin listed)
                          \/ item[i] = NoItem /\ \E b \in BOOLEAN : item'[i] = NewItem(b)
  <2>1. item \in [Items -> ItemType]
    BY DEF IInv, CoreType
  <2>2. CASE f \notin registered
    BY <2>1, <2>2 DEF WriteIndex
  <2>3. CASE f \in registered
    <3>1. PICK old \in SUBSET (listed \cap OldItems) :
            item' = [i \in Items |->
                       IF i \in listed /\ item[i] = NoItem THEN NewItem(i \in old) ELSE item[i]]
      BY <2>3 DEF WriteIndex
    <3>2. \A i : (i \in old) \in BOOLEAN
      OBVIOUS
    <3> QED
      BY <3>1, <3>2, Zenon
  <2> QED
    BY <2>2, <2>3
<1>5. CoreType'
  BY <1>1, <1>2, <1>3, <1>4 DEF IInv, CoreType
<1>6. ItemsStay
  BY <1>4 DEF ItemsStay
<1>7. \A i \in Items \cap listed : f \in registered => item'[i] # NoItem
  BY <1>3, <1>4
<1>8. CountInv'
  <2>1. downloads \in [Items -> Nat]
    BY DEF IInv, RestType
  <2> QED
    BY <1>3, <1>4, <2>1 DEF IInv, CountInv
<1>9. StoredInv' /\ ReportsInv'
  BY <1>1, <1>3, <1>4 DEF IInv, StoredInv, HandlerInv, FetchedIsStored, ReportsInv, Genuine
<1> QED
  BY <1>1, <1>5, <1>6, <1>7, <1>8, <1>9 DEF CoreInv

LEMMA WriteRegistryOK ==
    ASSUME IInv, NEW l \in SUBSET Feeds, WriteRegistry(l),
           UNCHANGED <<got, batch, downloads, crossed, poll>>
    PROVE  CoreInv' /\ PollInv' /\ subscribed' = l /\ UNCHANGED item
<1>1. CoreType'
  BY DEF WriteRegistry, IInv, CoreType
<1>2. ReportsInv' /\ StoredInv' /\ CountInv' /\ PollInv'
  BY DEF WriteRegistry, IInv, ReportsInv, Genuine, StoredInv, HandlerInv, FetchedIsStored,
         CountInv, PollInv
<1> QED
  BY <1>1, <1>2 DEF CoreInv, WriteRegistry

LEMMA RegistryStep == ASSUME IInv, Registry PROVE IInv'
<1> USE DEF coreVars, adapterVars, upstreamVars, timeVars, lateVars, bounds, ToFeeds
<1>1. ASSUME UNCHANGED coreVars, UNCHANGED <<tag, poll, todo, got, batch>>,
             UNCHANGED upstreamVars, UNCHANGED <<downloads, crossed, overrun, raaTag>>,
             raaNew' \in SUBSET Feeds, lateRegistry' \in SUBSET SUBSET Feeds
      PROVE  IInv'
  <2>1. CoreType' /\ ReportsInv' /\ StoredInv' /\ CountInv'
    BY <1>1, CoreKept
  <2>2. LoopType' /\ RestType'
    BY <1>1 DEF IInv, LoopType, RestType
  <2>3. PollInv' /\ ValidatorsCovered'
    BY <1>1, CoverKept
  <2> QED
    BY <2>1, <2>2, <2>3 DEF IInv
<1>2. raaNew \in SUBSET Feeds /\ raaList \in SUBSET Feeds /\ lateRegistry \in SUBSET SUBSET Feeds
  BY DEF IInv, LoopType, RestType
<1>3. CASE SkipRegistry
  BY <1>1, <1>2, <1>3 DEF SkipRegistry
<1>4. CASE RegistryGetFails
  BY <1>1, <1>2, <1>4 DEF RegistryGetFails
<1>5. CASE RegistryNotModified
  BY <1>1, <1>2, <1>5 DEF RegistryNotModified
<1>6. CASE RegistryGet
  BY <1>1, <1>2, <1>6 DEF RegistryGet
<1>7. CASE RegistryPosted
  <2>1. CoreInv' /\ PollInv' /\ subscribed' = raaNew /\ UNCHANGED item
    BY <1>2, <1>7, WriteRegistryOK DEF RegistryPosted
  <2>2. LoopType' /\ RestType'
    BY <1>2, <1>7 DEF RegistryPosted, IInv, LoopType, RestType, Validators
  <2>3. ValidatorsCovered'
    BY <1>7, <2>1 DEF RegistryPosted, IInv, ValidatorsCovered
  <2> QED
    BY <2>1, <2>2, <2>3 DEF IInv, CoreInv
<1>8. CASE RegistryRefused
  BY <1>1, <1>2, <1>8 DEF RegistryRefused, RegistryRetry
<1>9. CASE RegistryUnanswered
  BY <1>1, <1>2, <1>9 DEF RegistryUnanswered, RegistryRetry
<1> QED
  BY <1>3, <1>4, <1>5, <1>6, <1>7, <1>8, <1>9 DEF Registry

LEMMA LateRegistryStep == ASSUME IInv, LateRegistry PROVE IInv'
<1> USE DEF coreVars, adapterVars, upstreamVars, timeVars, lateVars, bounds
<1>1. PICK l \in lateRegistry :
        /\ IF RegistryAccepted(l)
             THEN WriteRegistry(l) /\ overrun' = (overrun \/ raaTag \notin {None, l})
             ELSE UNCHANGED <<coreVars, overrun>>
        /\ lateRegistry' = lateRegistry \ {l}
  BY DEF LateRegistry
<1>2. LoopType' /\ RestType'
  BY <1>1 DEF LateRegistry, IInv, LoopType, RestType
<1>3. CASE RegistryAccepted(l)
  <2>1. CoreInv' /\ PollInv' /\ subscribed' = l /\ UNCHANGED item
    BY <1>1, <1>3, WriteRegistryOK DEF LateRegistry, IInv, RestType
  <2>2. ValidatorsCovered'
    BY <1>1, <1>3, <2>1 DEF LateRegistry, IInv, ValidatorsCovered
  <2> QED
    BY <1>2, <2>1, <2>2 DEF IInv, CoreInv
<1>4. CASE ~RegistryAccepted(l)
  <2>1. CoreType' /\ ReportsInv' /\ StoredInv' /\ CountInv'
    BY <1>1, <1>4, CoreKept DEF LateRegistry
  <2>2. PollInv' /\ ValidatorsCovered'
    BY <1>1, <1>4, CoverKept DEF LateRegistry
  <2> QED
    BY <1>2, <2>1, <2>2 DEF IInv
<1> QED
  BY <1>3, <1>4

LEMMA FeedStepOK == ASSUME IInv, NEW f \in Feeds, FeedStep(f) PROVE IInv'
<1> USE DEF coreVars, adapterVars, upstreamVars, timeVars, lateVars, bounds
<1>0. poll[f].pc # "off" => f \in registered
  BY DEF IInv, PollInv, NoPoll
<1>1. ASSUME NEW p, DOMAIN p = PollFields, p.listed \in SUBSET Items, Polled(f, p), UNCHANGED coreVars
      PROVE  IInv'
  <2>1. CoreType' /\ ReportsInv' /\ StoredInv' /\ CountInv'
    BY <1>1, CoreKept DEF Polled
  <2>2. LoopType' /\ RestType'
    BY <1>1 DEF Polled, IInv, LoopType, RestType
  <2>3. \A g \in Feeds : poll'[g] = IF g = f THEN p ELSE poll[g]
    BY <1>1 DEF Polled, IInv, LoopType
  <2>4. PollInv' /\ ValidatorsCovered'
    BY <1>0, <1>1, <2>3 DEF Polled, IInv, PollInv, ValidatorsCovered
  <2> QED
    BY <2>1, <2>2, <2>4 DEF IInv
<1>2. \A ok, new : \A l \in SUBSET Items :
        DOMAIN PostPoll(ok, new, l) = PollFields /\ PostPoll(ok, new, l).listed = l
  BY DEF PostPoll, PollFields
<1>3. list[f] \in SUBSET Items
  BY DEF IInv, RestType
<1>4. CASE FeedGetFails(f)
  BY <1>1, <1>2, <1>4 DEF FeedGetFails, Polled
<1>5. CASE FeedNotModified(f)
  BY <1>1, <1>2, <1>5 DEF FeedNotModified, Polled
<1>6. CASE FeedGet(f)
  BY <1>1, <1>2, <1>3, <1>6 DEF FeedGet, Polled
<1>7. CASE IndexPosted(f)
  <2>1. f \in registered
    BY <1>0, <1>7 DEF IndexPosted
  <2>2. /\ CoreInv' /\ ItemsStay /\ UNCHANGED <<registered, subscribed>>
        /\ \A i \in Items \cap poll[f].listed : item'[i] # NoItem
    BY <1>7, <2>1, WriteIndexOK DEF IndexPosted
  <2>3. /\ DOMAIN poll = Feeds /\ poll[f].listed \in SUBSET Items
        /\ tag \in [Feeds -> Validators(Items)]
    BY DEF IInv, LoopType
  <2>4. \A g \in Feeds : poll'[g] = IF g = f THEN NoPoll ELSE poll[g]
    BY <1>7, <2>3 DEF IndexPosted
  <2>5. /\ tag' \in [Feeds -> Validators(Items)]
        /\ \A g \in Feeds : tag'[g] = tag[g] \/ (g = f /\ tag'[g] = poll[f].listed)
    <3>1. tag' = tag \/ tag' = [tag EXCEPT ![f] = poll[f].listed]
      BY <1>7, Zenon DEF IndexPosted
    <3>2. poll[f].listed \in Validators(Items)
      BY <2>3 DEF Validators
    <3> QED
      BY <2>3, <3>1, <3>2
  <2>6. LoopType' /\ RestType'
    BY <1>7, <2>4, <2>5, NoPollOK DEF IndexPosted, IInv, LoopType, RestType
  <2>7. PollInv'
    BY <2>2, <2>4 DEF IInv, PollInv
  <2>8. \A g \in Feeds : tag'[g] # None => \A i \in tag'[g] : item'[i] # NoItem
    <3>1. \A g \in Feeds : tag[g] # None => tag[g] \subseteq Items
      BY <2>3 DEF Validators
    <3> QED
      BY <2>2, <2>3, <2>5, <3>1 DEF IInv, ValidatorsCovered, ItemsStay
  <2>9. ValidatorsCovered'
    BY <1>7, <2>2, <2>8 DEF IndexPosted, IInv, ValidatorsCovered
  <2> QED
    BY <2>2, <2>6, <2>7, <2>9 DEF IInv, CoreInv
<1>8. CASE IndexRefused(f) \/ IndexUnanswered(f)
  <2>1. IndexRetry(f)
    BY <1>8 DEF IndexRefused, IndexUnanswered
  <2>2. CoreType' /\ ReportsInv' /\ StoredInv' /\ CountInv'
    BY <2>1, CoreKept DEF IndexRetry
  <2>3. /\ DOMAIN poll = Feeds /\ DOMAIN poll[f] = PollFields /\ poll[f].listed \in SUBSET Items
    BY DEF IInv, LoopType
  <2>4. /\ \A g \in Feeds \ {f} : poll'[g] = poll[g]
        /\ poll'[f] = IF poll[f].n < MaxCoreRetries THEN [poll[f] EXCEPT !.n = @ + 1] ELSE NoPoll
        /\ DOMAIN poll' = Feeds
    BY <2>1, <2>3 DEF IndexRetry
  <2>5. DOMAIN poll'[f] = PollFields /\ poll'[f].listed \in SUBSET Items
    BY <2>3, <2>4, NoPollOK DEF PollFields
  <2>6. LoopType' /\ RestType'
    BY <2>1, <2>4, <2>5 DEF IndexRetry, IInv, LoopType, RestType
  <2>7. poll[f] # NoPoll
    BY <2>1 DEF IndexRetry, NoPoll
  <2>8. PollInv' /\ ValidatorsCovered'
    BY <2>1, <2>4, <2>7, CoverKept DEF IndexRetry
  <2> QED
    BY <2>2, <2>6, <2>8 DEF IInv
<1> QED
  BY <1>4, <1>5, <1>6, <1>7, <1>8 DEF FeedStep

LEMMA LateIndexStep == ASSUME IInv, LateIndex PROVE IInv'
<1> USE DEF coreVars, adapterVars, upstreamVars, timeVars, lateVars, bounds
<1>1. PICK x \in lateIndex : WriteIndex(x.feed, x.ok, x.listed)
  BY DEF LateIndex
<1>2. CoreInv' /\ ItemsStay /\ UNCHANGED <<registered, subscribed>>
  BY <1>1, WriteIndexOK DEF LateIndex
<1>3. LoopType' /\ RestType'
  BY DEF LateIndex, IInv, LoopType, RestType
<1>4. PollInv' /\ ValidatorsCovered'
  BY <1>2, CoverKept DEF LateIndex, ItemsStay
<1> QED
  BY <1>2, <1>3, <1>4 DEF IInv, CoreInv

LEMMA PollingStep == ASSUME IInv, Polling PROVE IInv'
<1> USE DEF coreVars, adapterVars, upstreamVars, timeVars, lateVars, bounds
<1>1. /\ UNCHANGED coreVars /\ UNCHANGED <<got, batch, todo, tag, raaTag, raaNew, downloads>>
      /\ UNCHANGED <<crossed, overrun, lateRegistry>> /\ UNCHANGED upstreamVars
  BY DEF Polling, ListFeeds, ListFeedsFails, FeedDeadline, FeedsDone
<1>2. /\ DOMAIN poll' = Feeds
      /\ \A f \in Feeds : \/ poll'[f] = poll[f]
                          \/ poll'[f] = NoPoll
                          \/ f \in subscribed /\ poll'[f] = GetPoll
  BY DEF Polling, ListFeeds, ListFeedsFails, FeedDeadline, FeedsDone, IInv, LoopType
<1>3. CoreType' /\ ReportsInv' /\ StoredInv' /\ CountInv'
  BY <1>1, CoreKept
<1>4. LoopType' /\ RestType'
  BY <1>1, <1>2, NoPollOK DEF IInv, LoopType, RestType
<1>5. PollInv'
  BY <1>1, <1>2 DEF IInv, PollInv, CoreType
<1>6. ValidatorsCovered'
  BY <1>1 DEF IInv, ValidatorsCovered
<1> QED
  BY <1>3, <1>4, <1>5, <1>6 DEF IInv

\* Steps of the drain and of time that only move the adapter on.
LEMMA LoopOnly ==
    ASSUME IInv, UNCHANGED coreVars, UNCHANGED <<downloads, crossed, overrun, lateRegistry>>,
           UNCHANGED <<raaTag, raaNew, tag, poll>>,
           got' \subseteq got, batch' \subseteq batch, todo' \subseteq Items,
           raaList' \subseteq Feeds, list' \in [Feeds -> SUBSET Items]
    PROVE  IInv'
<1>1. CoreType' /\ ReportsInv' /\ StoredInv' /\ CountInv'
  BY CoreKept
<1>2. LoopType' /\ RestType'
  BY DEF IInv, LoopType, RestType
<1>3. PollInv' /\ ValidatorsCovered'
  BY CoverKept DEF coreVars
<1> QED
  BY <1>1, <1>2, <1>3 DEF IInv

\* Steps of the drain that hand a batch to a handler or take the answer.
LEMMA BatchStep ==
    ASSUME IInv, UNCHANGED <<registered, subscribed, fails, item, stored, seen>>,
           UNCHANGED <<downloads, crossed, overrun, lateRegistry>>,
           UNCHANGED <<raaTag, raaNew, tag, poll>>, UNCHANGED upstreamVars,
           got' \cup batch' \subseteq got \cup batch, todo' \subseteq todo,
           jobs' = [s \in Slots |-> jobs'[s]],
           \A s \in Slots :
              \/ \E t \in Slots : jobs'[s] = jobs[t]
              \/ \E ph \in {"none", "record", "done", "error"} :
                 \E b \in SUBSET (got \cup batch) : jobs'[s] = Job(ph, b)
    PROVE  IInv'
<1>1. DOMAIN jobs' = Slots
  OBVIOUS
<1>2. CoreType' /\ ReportsInv' /\ StoredInv' /\ CountInv'
  BY <1>1, JobsMoved
<1>3. LoopType' /\ RestType'
  BY DEF IInv, LoopType, RestType, upstreamVars
<1>4. PollInv' /\ ValidatorsCovered'
  BY CoverKept
<1> QED
  BY <1>2, <1>3, <1>4 DEF IInv

LEMMA DrainStep == ASSUME IInv, Drain PROVE IInv'
<1> USE DEF upstreamVars, timeVars, lateVars, bounds, ToSleep
<1>1. /\ todo \subseteq Items /\ raaList \subseteq Feeds /\ list \in [Feeds -> SUBSET Items]
      /\ jobs \in [Slots -> JobType] /\ 0 \in Slots
  BY CapItemsAssumption DEF IInv, LoopType, RestType, CoreType
<1>2. CASE FetchPending
  BY <1>1, <1>2, LoopOnly DEF FetchPending, PendingItems
<1>3. CASE DrainEnds
  BY <1>1, <1>3, LoopOnly DEF DrainEnds
<1>4. CASE FetchPendingFails
  BY <1>1, <1>4, LoopOnly DEF FetchPendingFails
<1>5. CASE Deadline
  BY <1>1, <1>5, LoopOnly DEF Deadline
<1>6. ASSUME NEW b \in SUBSET (got \cup batch), StartBatch(b)
      PROVE  /\ jobs' = [s \in Slots |-> jobs'[s]]
             /\ \A s \in Slots :
                  \/ \E t \in Slots : jobs'[s] = jobs[t]
                  \/ \E ph \in {"none", "record", "done", "error"} :
                     \E c \in SUBSET (got \cup batch) : jobs'[s] = Job(ph, c)
  BY <1>1, <1>6 DEF StartBatch
<1>7. jobs' = jobs =>
        /\ jobs' = [s \in Slots |-> jobs'[s]]
        /\ \A s \in Slots : \E t \in Slots : jobs'[s] = jobs[t]
  BY <1>1
<1>8. CASE Collect
  <2>1. PICK r \in got :
          /\ got' = got \ {r} /\ batch' = batch \cup {r}
          /\ StartBatch(batch \cup {r}) \/ jobs' = jobs
    BY <1>8 DEF Collect
  <2> QED
    BY <1>6, <1>7, <1>8, <2>1, BatchStep DEF Collect
<1>9. CASE RoundEnds
  <2>1. StartBatch(batch) \/ jobs' = jobs
    BY <1>9 DEF RoundEnds
  <2> QED
    BY <1>6, <1>7, <1>9, <2>1, BatchStep DEF RoundEnds
<1>10. NoJob = Job("none", {})
  BY DEF NoJob
<1>11. CASE BatchPosted
  <2>1. /\ jobs' = [s \in Slots |-> jobs'[s]]
        /\ \A s \in Slots : \/ \E t \in Slots : jobs'[s] = jobs[t]
                            \/ jobs'[s] = Job("none", {})
    BY <1>1, <1>10, <1>11 DEF BatchPosted
  <2> QED
    BY <1>11, <2>1, BatchStep DEF BatchPosted
<1>12. ASSUME NEW js, DOMAIN js = Slots, BatchRetry(js),
              \A s \in Slots : (\E t \in Slots : js[s] = jobs[t]) \/ js[s] = NoJob
       PROVE  IInv'
  <2>1. /\ jobs' = [s \in Slots |-> jobs'[s]]
        /\ \A s \in Slots : \/ \E t \in Slots : jobs'[s] = jobs[t]
                            \/ jobs'[s] = Job("none", {})
                            \/ jobs'[s] = Job("record", batch)
    BY <1>1, <1>10, <1>12 DEF BatchRetry
  <2>2. \A s \in Slots :
           \/ \E t \in Slots : jobs'[s] = jobs[t]
           \/ \E ph \in {"none", "record", "done", "error"} :
              \E c \in SUBSET (got \cup batch) : jobs'[s] = Job(ph, c)
    BY <2>1
  <2>3. got' \cup batch' \subseteq got \cup batch /\ todo' \subseteq todo
    BY <1>12 DEF BatchRetry
  <2> QED
    BY <1>12, <2>1, <2>2, <2>3, BatchStep DEF BatchRetry
<1>13. CASE BatchRefused
  BY <1>1, <1>12, <1>13 DEF BatchRefused
<1>14. CASE BatchUnanswered
  <2>1. PICK s \in Slots \ {0} :
          BatchRetry([jobs EXCEPT ![s] = IF jobs[0].ph = "done" THEN NoJob ELSE jobs[0]])
    BY <1>14 DEF BatchUnanswered
  <2> QED
    BY <1>1, <1>12, <2>1
<1> QED
  BY <1>2, <1>3, <1>4, <1>5, <1>8, <1>9, <1>11, <1>13, <1>14 DEF Drain

LEMMA DownloadStep == ASSUME IInv, NEW i \in Items, Download(i) PROVE IInv'
<1> USE DEF coreVars, upstreamVars, lateVars, bounds
<1>0. /\ UNCHANGED coreVars /\ UNCHANGED <<raaTag, raaNew, tag, poll, batch, overrun, crossed>>
      /\ UNCHANGED upstreamVars /\ UNCHANGED lateRegistry
      /\ todo' = todo \ {i} /\ downloads' = [downloads EXCEPT ![i] = @ + 1]
  BY DEF Download
<1>a. PICK out \in Outcomes :
         /\ got' = got \cup {[item |-> i, at |-> downloads[i] + 1, out |-> out]}
         /\ out = "permanent" => i \in Gone
  BY DEF Download, Outcomes
<1>1. PICK r : r = [item |-> i, at |-> downloads[i] + 1, out |-> out]
  OBVIOUS
<1>2. downloads \in [Items -> Nat] /\ got \subseteq Results /\ batch \subseteq Results
  BY DEF IInv, RestType, LoopType
<1>3. r \in Results /\ r.item = i /\ r.at = downloads[i] + 1 /\ r.out = out
  BY <1>1, <1>2 DEF Results
<1>4. /\ downloads' \in [Items -> Nat]
      /\ \A k \in Items : downloads[k] <= downloads'[k]
      /\ downloads'[i] = downloads[i] + 1
  BY <1>0, <1>2
<1>5. \A q \in Results : Genuine(q) => Genuine(q)'
  <2>1. \A q \in Results : q.item \in Items /\ q.at \in Nat
    BY DEF Results
  <2> QED
    BY <1>2, <1>4, <2>1 DEF Genuine
<1>6. Genuine(r)'
  BY <1>a, <1>3, <1>4 DEF Genuine
<1>7. got' = got \cup {r}
  BY <1>a, <1>1
<1>8. ReportsInv'
  <2>1. \A s \in Slots : jobs[s].left \cup jobs[s].chunk \cup jobs[s].repeats \subseteq Results
    BY JobFacts
  <2>2. \A q \in got \cup batch : Genuine(q)
    BY DEF IInv, ReportsInv
  <2>3. \A s \in Slots : \A q \in jobs[s].left \cup jobs[s].chunk \cup jobs[s].repeats : Genuine(q)
    BY DEF IInv, ReportsInv
  <2> QED
    BY <1>0, <1>2, <1>5, <1>6, <1>7, <2>1, <2>2, <2>3 DEF ReportsInv
<1>9. CoreType' /\ StoredInv'
  BY <1>0 DEF IInv, CoreType, StoredInv, HandlerInv, FetchedIsStored
<1>10. CountInv'
  <2>1. \A k \in Items : item[k].last \in Nat
    BY DEF IInv, CoreType, ItemType
  <2> QED
    BY <1>0, <1>2, <1>4, <2>1 DEF IInv, CountInv
<1>11. LoopType' /\ RestType'
  BY <1>0, <1>2, <1>3, <1>4, <1>7 DEF IInv, LoopType, RestType
<1>12. PollInv' /\ ValidatorsCovered'
  BY <1>0, CoverKept
<1> QED
  BY <1>8, <1>9, <1>10, <1>11, <1>12 DEF IInv

LEMMA HandlerStepOK ==
    ASSUME IInv, CoreOnly,
           \/ \E s \in Slots : HandlerStep(s) \/ WriteRecordFails(s) \/ HandlerFails(s)
           \/ SeenExpires
    PROVE  IInv'
<1>1. CoreInv' /\ ItemsStay
  BY RecordFetchFailureOK, FindRepeatsOK, FindSurvivorsOK, WriteRecordOK, MarkSeenOK,
     MarkRepeatOK, AnswerOK, WriteRecordFailsOK, SeenExpiresOK DEF HandlerStep
<1>2. UNCHANGED <<registered, subscribed>>
  BY DEF HandlerStep, WriteRecordFails, HandlerFails, SeenExpires, RecordFetchFailure, FindRepeats,
         FindSurvivors, WriteRecord, MarkSeen, MarkRepeat, Answer
<1>3. LoopType' /\ RestType'
  BY DEF CoreOnly, adapterVars, upstreamVars, timeVars, IInv, LoopType, RestType
<1>4. PollInv' /\ ValidatorsCovered'
  BY <1>1, <1>2, CoverKept DEF CoreOnly, adapterVars, ItemsStay
<1> QED
  BY <1>1, <1>3, <1>4 DEF IInv, CoreInv

\* A restart forgets validators, batches and handlers, and breaks no promise.
LEMMA RestartStep == ASSUME IInv, AdapterRestart \/ RestartCore PROVE IInv'
<1> USE DEF upstreamVars, timeVars, lateVars, bounds, adapterVars
<1>1. /\ jobs \in [Slots -> JobType] /\ 0 \in Slots /\ NoJob = Job("none", {})
  BY CapItemsAssumption DEF IInv, CoreType, NoJob
<1>2. CASE AdapterRestart
  <2>1. UNCHANGED <<registered, subscribed, fails, item, stored, seen, downloads, crossed>>
    BY <1>2 DEF AdapterRestart
  <2>2. /\ jobs' = [s \in Slots |-> jobs'[s]]
        /\ \A s \in Slots : \/ \E t \in Slots : jobs'[s] = jobs[t]
                            \/ jobs'[s] = Job("none", {})
    BY <1>1, <1>2 DEF AdapterRestart
  <2>3. \A s \in Slots :
           \/ \E t \in Slots : jobs'[s] = jobs[t]
           \/ \E ph \in {"none", "record", "done", "error"} :
              \E c \in SUBSET (got \cup batch) : jobs'[s] = Job(ph, c)
    BY <2>2
  <2>4. DOMAIN jobs' = Slots /\ got' \cup batch' \subseteq got \cup batch
    BY <1>2, <2>2 DEF AdapterRestart
  <2>5. CoreType' /\ ReportsInv' /\ StoredInv' /\ CountInv'
    BY <2>1, <2>2, <2>3, <2>4, JobsMoved
  <2>6. LoopType' /\ RestType'
    BY <1>2, NoPollOK DEF AdapterRestart, IInv, LoopType, RestType, Validators
  <2>7. PollInv' /\ ValidatorsCovered'
    BY <1>2, CoverKept DEF AdapterRestart
  <2> QED
    BY <2>5, <2>6, <2>7 DEF IInv
<1>3. CASE RestartCore
  <2>1. /\ UNCHANGED <<registered, subscribed, fails, item, stored, downloads, crossed>>
        /\ UNCHANGED adapterVars /\ UNCHANGED upstreamVars /\ UNCHANGED overrun
        /\ seen' = {} /\ lateRegistry' = {}
        /\ jobs' = [s \in Slots |-> IF s = 0 /\ jobs[0].ph # "none" THEN Job("error", {}) ELSE NoJob]
    BY <1>3 DEF RestartCore, CoreRestart
  <2>2. \A s \in Slots :
          /\ jobs'[s] \in JobType /\ jobs'[s].left = {} /\ jobs'[s].repeats = {}
          /\ jobs'[s].chunk = {}
    BY <1>1, <2>1, JobOK
  <2>3. CoreType' /\ ReportsInv' /\ StoredInv' /\ CountInv'
    BY <2>1, <2>2 DEF IInv, CoreType, ReportsInv, Genuine, StoredInv, HandlerInv,
                      FetchedIsStored, CountInv
  <2>4. LoopType' /\ RestType'
    BY <2>1 DEF IInv, LoopType, RestType
  <2>5. PollInv' /\ ValidatorsCovered'
    BY <2>1, CoverKept
  <2> QED
    BY <2>3, <2>4, <2>5 DEF IInv
<1> QED
  BY <1>2, <1>3

LEMMA NextInv == IInv /\ [Next]_vars => IInv'
<1> SUFFICES ASSUME IInv, [Next]_vars PROVE IInv'
  OBVIOUS
<1> USE DEF coreVars, adapterVars, upstreamVars, timeVars, lateVars, bounds
<1>1. /\ todo \subseteq Items /\ raaList \subseteq Feeds /\ list \in [Feeds -> SUBSET Items]
  BY DEF IInv, LoopType, RestType
<1>2. CASE PublishRegistry
  BY <1>1, <1>2, LoopOnly DEF PublishRegistry
<1>3. ASSUME NEW f \in Feeds, PublishFeed(f) PROVE IInv'
  BY <1>1, <1>3, LoopOnly DEF PublishFeed
<1>4. ASSUME NEW f \in Feeds, FeedStep(f) PROVE IInv'
  BY <1>4, FeedStepOK
<1>5. ASSUME NEW i \in Items, FifteenMinutes(i) PROVE IInv'
  BY <1>1, <1>5, LoopOnly DEF FifteenMinutes
<1>6. ASSUME NEW i \in Items, Download(i) PROVE IInv'
  BY <1>6, DownloadStep
<1>7. CASE Registry
  BY <1>7, RegistryStep
<1>8. CASE LateRegistry
  BY <1>8, LateRegistryStep
<1>9. CASE Polling
  BY <1>9, PollingStep
<1>10. CASE LateIndex
  BY <1>10, LateIndexStep
<1>11. CASE Drain
  BY <1>11, DrainStep
<1>12. CASE NextCycle
  BY <1>1, <1>12, LoopOnly DEF NextCycle
<1>13. CASE AdapterRestart \/ RestartCore
  BY <1>13, RestartStep
<1>14. ASSUME NEW s \in Slots, Handle(s) \/ HandleFails(s) PROVE IInv'
  BY <1>14, HandlerStepOK DEF Handle, HandleFails
<1>15. CASE SeenKeyExpires
  BY <1>15, HandlerStepOK DEF SeenKeyExpires
<1>16. CASE UNCHANGED vars
  BY <1>1, <1>16, LoopOnly DEF vars
<1> QED
  BY <1>2, <1>3, <1>4, <1>5, <1>6, <1>7, <1>8, <1>9, <1>10, <1>11, <1>12, <1>13, <1>14,
     <1>15, <1>16 DEF Next

LEMMA Inductive == Spec => []IInv
  BY InitInv, NextInv, PTL DEF Spec

-----------------------------------------------------------------------------
\* However many handlers of the same documents overlap, and whichever of them
\* fail, cap_controller marks an item fetched only when cap_message_writer has its
\* message: the seen-set never vouches for a message that was not stored.
THEOREM NothingFetchedInVain == Spec => []FetchedIsStored
<1>1. IInv => FetchedIsStored
  BY DEF IInv, StoredInv
<1> QED
  BY <1>1, Inductive, PTL

\* A validator the adapter holds is backed by what the core has written: all
\* listed items for a feed, and for the registry the very list, unless a late
\* registry was written over it.
THEOREM ValidatorSound == Spec => []ValidatorsCovered
<1>1. IInv => ValidatorsCovered
  BY DEF IInv
<1> QED
  BY <1>1, Inductive, PTL

\* Repeated POSTs and overlapping handlers count a download once, unless the
\* reports of two downloads of an item cross.
THEOREM AttemptsSound == Spec => []AttemptsAreDownloads
<1>1. IInv => AttemptsAreDownloads
  <2> SUFFICES ASSUME IInv, NEW i \in Items \ (Gone \cup crossed)
               PROVE  item[i].attempts <= downloads[i]
    BY DEF AttemptsAreDownloads
  <2>1. item[i].attempts \in Nat /\ item[i].last \in Nat /\ downloads[i] \in Nat
    BY DEF IInv, CoreType, ItemType, RestType
  <2>2. item[i].attempts <= item[i].last /\ item[i].last <= downloads[i]
    BY DEF IInv, CountInv
  <2> QED
    BY <2>1, <2>2
<1> QED
  BY <1>1, Inductive, PTL

-----------------------------------------------------------------------------
(***************************************************************************)
(* The host limiter: its three rules, for any callers, hosts, interval and *)
(* number of slots.                                                        *)
(***************************************************************************)

\* Whoever is past the host's semaphore holds it, alone.
HostInv ==
    /\ \A p \in Callers : pc[p] \in Holding => HostOf[p] \in sem
    /\ \A p, q \in Callers :
          pc[p] \in Holding /\ pc[q] \in Holding /\ HostOf[p] = HostOf[q] => p = q

\* lastEnd is never earlier than the real end of the last request, except
\* between that end and the stamp that Done puts on it.
ClockInv == \A h \in Hosts :
               \/ elapsed[h] <= quiet[h]
               \/ \E p \in Callers : HostOf[p] = h /\ pc[p] = "stamp"

\* A sleep that has begun is long enough, and one that has ended was.
SleepInv == \A p \in Callers :
               /\ pc[p] = "sleep" => MinHostInterval <= quiet[HostOf[p]] + left[p]
               /\ pc[p] = "slot" => quiet[HostOf[p]] = MinHostInterval

\* globalSem counts the requests in flight.
SlotInv == slots = Cardinality(Running)

LimiterInv == LimiterTypeOK /\ HostInv /\ ClockInv /\ SleepInv /\ SlotInv

USE CallersAssumption, LimitsAssumption

\* Types are kept by every step.
LEMMA TypeNext == LimiterTypeOK /\ [LimiterNext]_limiterVars => LimiterTypeOK'
<1> SUFFICES ASSUME LimiterTypeOK, [LimiterNext]_limiterVars PROVE LimiterTypeOK'
  OBVIOUS
<1> USE DEF LimiterTypeOK, Interval, Holding, Waiting, Up, Down
<1>1. CASE Tick
  BY <1>1 DEF Tick
<1>2. ASSUME NEW p \in Callers,
             Call(p) \/ AcquireHost(p) \/ Wake(p) \/ Cancel(p) \/ Stamp(p) \/ ReleaseHost(p)
      PROVE  LimiterTypeOK'
  BY <1>2 DEF Call, AcquireHost, Wake, Cancel, Stamp, ReleaseHost
<1>3. ASSUME NEW p \in Callers, ReadClock(p) PROVE LimiterTypeOK'
  BY <1>3 DEF ReadClock
<1>4. ASSUME NEW p \in Callers, AcquireSlot(p) PROVE LimiterTypeOK'
  BY <1>4 DEF AcquireSlot
<1>5. ASSUME NEW p \in Callers, EndRequest(p) PROVE LimiterTypeOK'
  BY <1>5 DEF EndRequest
<1>6. CASE UNCHANGED limiterVars
  BY <1>6 DEF limiterVars
<1> QED
  BY <1>1, <1>2, <1>3, <1>4, <1>5, <1>6 DEF LimiterNext

\* The semaphore of a host has one holder.
LEMMA HostNext == LimiterTypeOK /\ HostInv /\ [LimiterNext]_limiterVars => HostInv'
<1> SUFFICES ASSUME LimiterTypeOK, HostInv, [LimiterNext]_limiterVars PROVE HostInv'
  OBVIOUS
<1> USE DEF LimiterTypeOK, HostInv, Holding, Waiting
<1>1. CASE Tick \/ UNCHANGED limiterVars
  BY <1>1 DEF Tick, limiterVars
<1>2. ASSUME NEW p \in Callers, Call(p) \/ AcquireHost(p) \/ Wake(p) \/ Cancel(p)
      PROVE  HostInv'
  BY <1>2 DEF Call, AcquireHost, Wake, Cancel
<1>3. ASSUME NEW p \in Callers, ReadClock(p) \/ AcquireSlot(p)
      PROVE  HostInv'
  BY <1>3 DEF ReadClock, AcquireSlot
<1>4. ASSUME NEW p \in Callers, EndRequest(p) \/ Stamp(p) \/ ReleaseHost(p)
      PROVE  HostInv'
  BY <1>4 DEF EndRequest, Stamp, ReleaseHost
<1> QED
  BY <1>1, <1>2, <1>3, <1>4 DEF LimiterNext

\* A token of globalSem stands for a request, so that Done always finds one
\* to give back.
LEMMA SlotNext == LimiterTypeOK /\ SlotInv /\ [LimiterNext]_limiterVars => SlotInv'
<1> SUFFICES ASSUME LimiterTypeOK, SlotInv, [LimiterNext]_limiterVars PROVE SlotInv'
  OBVIOUS
<1> USE DEF SlotInv, Running
<1>1. IsFiniteSet(Running) /\ Cardinality(Running) \in Nat
  BY FS_Subset, FS_CardinalityType
<1>2. CASE Tick \/ UNCHANGED limiterVars
  BY <1>2 DEF Tick, limiterVars
<1>3. ASSUME NEW p \in Callers, pc[p] # "request", pc'[p] # "request",
             pc' = [pc EXCEPT ![p] = pc'[p]], UNCHANGED slots
      PROVE  SlotInv'
  <2>1. Running' = Running
    BY <1>3 DEF LimiterTypeOK
  <2> QED
    BY <1>3, <2>1
<1>4. ASSUME NEW p \in Callers, AcquireSlot(p) PROVE SlotInv'
  <2>1. Running' = Running \cup {p} /\ p \notin Running
    BY <1>4 DEF AcquireSlot, LimiterTypeOK
  <2> QED
    BY <1>1, <1>4, <2>1, FS_AddElement DEF AcquireSlot
<1>5. ASSUME NEW p \in Callers, EndRequest(p) PROVE SlotInv'
  <2>1. Running' = Running \ {p} /\ p \in Running
    BY <1>5 DEF EndRequest, LimiterTypeOK
  <2>2. Cardinality(Running \ {p}) = Cardinality(Running) - 1
    BY <1>1, <2>1, FS_RemoveElement
  <2>3. Cardinality(Running) > 0
    BY <1>1, <2>1, FS_EmptySet
  <2> QED
    BY <1>1, <1>5, <2>1, <2>2, <2>3 DEF EndRequest, Down
<1>6. ASSUME NEW p \in Callers, Call(p) \/ AcquireHost(p) \/ ReadClock(p) \/ Wake(p)
                                \/ Cancel(p) \/ Stamp(p) \/ ReleaseHost(p)
      PROVE  SlotInv'
  <2>1. /\ pc[p] # "request" /\ pc'[p] # "request"
        /\ pc' = [pc EXCEPT ![p] = pc'[p]] /\ UNCHANGED slots
    BY <1>6 DEF LimiterTypeOK, Call, AcquireHost, ReadClock, Wake, Cancel, Stamp, ReleaseHost
  <2> QED
    BY <1>3, <2>1
<1> QED
  BY <1>2, <1>4, <1>5, <1>6 DEF LimiterNext

\* The clocks.
LEMMA ClockNext ==
  ASSUME LimiterInv, [LimiterNext]_limiterVars
  PROVE  ClockInv' /\ SleepInv'
<1> USE DEF LimiterInv, LimiterTypeOK, HostInv, ClockInv, SleepInv, Interval, Holding, Waiting
<1>1. CASE Tick
  <2>1. ClockInv'
    BY <1>1 DEF Tick, Up
  <2>2. SleepInv'
    BY <1>1 DEF Tick, Up, Down
  <2> QED
    BY <2>1, <2>2
<1>2. CASE UNCHANGED limiterVars
  BY <1>2 DEF limiterVars
<1>3. ASSUME NEW p \in Callers, Call(p) \/ AcquireHost(p) \/ Cancel(p) \/ Wake(p)
      PROVE  ClockInv' /\ SleepInv'
  BY <1>3 DEF Call, AcquireHost, Cancel, Wake
<1>4. ASSUME NEW p \in Callers, ReadClock(p) PROVE ClockInv' /\ SleepInv'
  <2>1. elapsed[HostOf[p]] <= quiet[HostOf[p]]
    BY <1>4 DEF ReadClock
  <2>2. ClockInv'
    BY <1>4 DEF ReadClock
  <2>3. SleepInv'
    BY <1>4, <2>1 DEF ReadClock
  <2> QED
    BY <2>2, <2>3
<1>5. ASSUME NEW p \in Callers, AcquireSlot(p) PROVE ClockInv' /\ SleepInv'
  BY <1>5 DEF AcquireSlot
<1>6. ASSUME NEW p \in Callers, EndRequest(p) PROVE ClockInv' /\ SleepInv'
  <2>1. ClockInv'
    BY <1>6 DEF EndRequest
  <2>2. SleepInv'
    BY <1>6 DEF EndRequest
  <2> QED
    BY <2>1, <2>2
<1>7. ASSUME NEW p \in Callers, Stamp(p) PROVE ClockInv' /\ SleepInv'
  <2>1. ClockInv'
    BY <1>7 DEF Stamp
  <2>2. SleepInv'
    BY <1>7 DEF Stamp
  <2> QED
    BY <2>1, <2>2
<1>8. ASSUME NEW p \in Callers, ReleaseHost(p) PROVE ClockInv' /\ SleepInv'
  BY <1>8 DEF ReleaseHost
<1> QED
  BY <1>1, <1>2, <1>3, <1>4, <1>5, <1>6, <1>7, <1>8 DEF LimiterNext

\* The inductive invariant.
LEMMA LimiterInductive == LimiterSpec => []LimiterInv
<1>1. LimiterInit => LimiterInv
  <2> SUFFICES ASSUME LimiterInit PROVE LimiterInv
    OBVIOUS
  <2>1. LimiterTypeOK
    BY DEF LimiterInit, LimiterTypeOK, Interval
  <2>2. HostInv /\ SleepInv
    BY DEF LimiterInit, HostInv, SleepInv, Holding, Waiting
  <2>3. ClockInv
    BY DEF LimiterInit, ClockInv
  <2>4. Running = {}
    BY DEF LimiterInit, Running
  <2>5. SlotInv
    BY <2>4, FS_EmptySet DEF LimiterInit, SlotInv
  <2> QED
    BY <2>1, <2>2, <2>3, <2>5 DEF LimiterInv
<1>2. LimiterInv /\ [LimiterNext]_limiterVars => LimiterInv'
  BY TypeNext, HostNext, ClockNext, SlotNext DEF LimiterInv
<1> QED
  BY <1>1, <1>2, PTL DEF LimiterSpec

\* Every variable keeps its type; globalSem never exceeds its capacity.
THEOREM LimiterTypeCorrect == LimiterSpec => []LimiterTypeOK
<1>1. LimiterInit => LimiterTypeOK
  BY DEF LimiterInit, LimiterTypeOK, Interval
<1> QED
  BY <1>1, TypeNext, PTL DEF LimiterSpec

\* HostLimiter's first rule: a host never serves two requests of this adapter
\* at once.
THEOREM Exclusive == LimiterSpec => []OnePerHost
<1>1. LimiterInv => OnePerHost
  BY DEF LimiterInv, HostInv, OnePerHost, Running, Holding
<1> QED
  BY <1>1, LimiterInductive, PTL

\* HostLimiter's second rule: between two requests to a host lies at least
\* minHostInterval, although Wait reads lastEnd and Done writes it without
\* holding one lock throughout.
THEOREM Spaced == LimiterSpec => MinGap
<1> DEFINE Gap == \A p \in Callers : pc[p] # "request" /\ pc'[p] = "request"
                                        => quiet[HostOf[p]] = MinHostInterval
<1>1. LimiterInv /\ [LimiterNext]_limiterVars => [Gap]_limiterVars
  BY DEF LimiterInv, LimiterTypeOK, SleepInv, Holding, Waiting, LimiterNext, limiterVars,
    Tick, Call, AcquireHost, ReadClock, Wake, AcquireSlot, Cancel, EndRequest, Stamp, ReleaseHost
<1> QED
  BY <1>1, LimiterInductive, PTL DEF LimiterSpec, MinGap

\* HostLimiter's third rule: no more than maxParallelHosts requests at a time,
\* although Done releases its token with a select that may find none.
THEOREM Parallel == LimiterSpec => []MaxParallel
<1>1. LimiterInv => MaxParallel
  BY DEF LimiterInv, LimiterTypeOK, SlotInv, MaxParallel
<1> QED
  BY <1>1, LimiterInductive, PTL

=============================================================================
