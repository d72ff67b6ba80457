-------------------------- MODULE JmaAdapterProofs --------------------------
(***************************************************************************)
(* What JmaAdapter's runs check on two telegrams, proved for any set of    *)
(* telegrams and any number of crashes and disk faults; then the byte      *)
(* budget its requests draw on.                                            *)
(***************************************************************************)
EXTENDS JmaAdapter, JmaBudget, TLAPS

(* The steps of fetchAndIngestItem, and those of them that come before its *)
(* result is in the spool.                                                 *)
Unsaved == {"download", "spool", "report"}
FetchPCs == Unsaved \cup {"mark", "send", "delete"}

\* Where cur names a telegram, what is already known of it there, and who
\* called fetchAndIngestItem.
CurInv ==
    /\ pc \in FetchPCs \cup {"replayBad", "replayMark", "replayDelete"} => cur \in Items
    /\ pc = "replayBad" => cur \in quarantine
    /\ pc \in {"replayMark", "replayDelete", "delete"} => item[cur] \in Final
    /\ pc \in {"mark", "send"} => Spooled(cur)
    /\ pc \in Unsaved => cur \notin fetched

\* The loops that call fetchAndIngestItem.  The fallback works off URLs that
\* were not fetched when the listing was read, each of them once.
LoopInv ==
    /\ pc \in FetchPCs => phase \in {"fallback", "drain"}
    /\ pc = "fallback" => phase = "fallback"
    /\ pc = "drainNext" => phase = "drain"
    /\ pc \in {"index", "fallback"} => todo \cap fetched = {}
    /\ pc \in FetchPCs /\ phase = "fallback" => todo \cap fetched = {} /\ cur \notin todo

\* Only these places are reached with the latch set.
LatchInv == fatal => pc \in {"cycle", "gate", "drain", "fallback", "drainNext"}

\* What the running process takes for fetched includes the history file,
\* unless a failed write has latched it.
MemoryInv == pc # "down" /\ ~fatal => OnDisk \subseteq fetched

\* Everything on the listing in hand that is not about to be sent is known.
ListingInv ==
    /\ pc = "index" => \A i \in listing \ todo : item[i] # "absent" \/ Kept(i)
    /\ pc = "validator" => \A i \in listing : item[i] # "absent" \/ Kept(i)

IInv == /\ TypeOK /\ NothingLost /\ ValidatorCovers
        /\ CurInv /\ LoopInv /\ LatchInv /\ MemoryInv /\ ListingInv

\* Without torn writes the history file never loses a line.
HistoryInv == torn = FALSE /\ tail = {} /\ acquired \subseteq history /\ fetched \subseteq history

----------------------------------------------------------------------------
(* Type correctness.                                                       *)

\* A durable write, whether it succeeds or latches, keeps the two flags typed.
LEMMA PersistType ==
  ASSUME TypeOK, PersistOk \/ PersistFails
  PROVE  faults' \in 0..MaxFaults /\ fatal' \in BOOLEAN
<1>1. faults' \in 0..MaxFaults
  BY BoundsAssumption DEF TypeOK, PersistOk, PersistFails
<1>2. fatal' \in BOOLEAN
  BY Zenon DEF TypeOK, PersistOk, PersistFails
<1> QED
  BY <1>1, <1>2

\* So does MarkFetched, which also keeps the history file typed.
LEMMA MarkType ==
  ASSUME TypeOK, NEW i \in Items, MarkFetched(i) \/ MarkFetchedFails(i)
  PROVE  /\ faults' \in 0..MaxFaults /\ fatal' \in BOOLEAN
         /\ history' \subseteq Items /\ torn' \in BOOLEAN /\ tail' \subseteq Items
         /\ fetched' \subseteq Items /\ acquired' \subseteq Items
<1>1. CASE MarkFetched(i)
  BY <1>1, PersistType DEF TypeOK, MarkFetched, AppendLine, hist
<1>2. CASE MarkFetchedFails(i)
  <2>1. faults' \in 0..MaxFaults
    BY <1>2, BoundsAssumption DEF TypeOK, MarkFetchedFails, PersistFails
  <2>2. fatal' \in BOOLEAN
    BY <1>2, Zenon DEF MarkFetchedFails, PersistFails
  <2> QED
    BY <1>2, <2>1, <2>2 DEF TypeOK, MarkFetchedFails, AppendLine, hist
<1> QED
  BY <1>1, <1>2

CoreType == /\ item \in [Items -> {"absent", "pending", "failed"} \cup Final]
            /\ attempts \in [Items -> 0..MaxRetryAttempts] /\ cooling \subseteq Items

\* The core's transactions keep sea.jma_item typed.
LEMMA CoreTypeNext ==
  ASSUME TypeOK, NEW i \in Items, NEW k,
         CoreFailure(i) \/ CoreMessage(i, k) \/ UNCHANGED core \/ CoreIndex(todo)
  PROVE  CoreType'
  BY BoundsAssumption DEF TypeOK, CoreType, CoreFailure, CoreMessage, CoreIndex, core, Final

\* Every step of the adapter and its environment keeps the types.
LEMMA TypeNext == TypeOK /\ CurInv /\ [Next]_vars => TypeOK'
<1> SUFFICES ASSUME TypeOK, CurInv, [Next]_vars PROVE TypeOK'
  OBVIOUS
<1>1. CASE Boot
  BY <1>1 DEF TypeOK, SpoolKinds, Readable, PCs, Boot, OnDisk, disk, core, bounds, hist
<1>2. CASE RunLoop
  BY <1>2 DEF TypeOK, SpoolKinds, Readable, PCs, RunLoop, Forget, disk, core, bounds,
    hist
<1>3. CASE ReplayList
  <2>1. faults' \in 0..MaxFaults
    BY <1>3, BoundsAssumption DEF TypeOK, ReplayList, PersistOk, PersistFails
  <2>2. fatal' \in BOOLEAN
    BY <1>3, Zenon DEF TypeOK, ReplayList, PersistOk, PersistFails
  <2> QED
    BY <1>3, <2>1, <2>2 DEF TypeOK, SpoolKinds, Readable, PCs, ReplayList, ReplayReturn,
      hist, core
<1>4. CASE ReplayDone
  BY <1>4 DEF TypeOK, SpoolKinds, Readable, PCs, ReplayDone, ReplayReturn, disk, mem,
    core, bounds, hist
<1>5. CASE ReplayMarkBad
  BY <1>5, MarkType DEF TypeOK, SpoolKinds, Readable, PCs, ReplayMarkBad, ReplayReturn,
    core, hist, CurInv, Unsaved, FetchPCs
<1>6. CASE ReplayMark
  BY <1>6, MarkType DEF TypeOK, SpoolKinds, Readable, PCs, ReplayMark, ReplayReturn,
    core, hist, CurInv, Unsaved, FetchPCs
<1>7. CASE ReplayDelete
  BY <1>7, PersistType DEF TypeOK, SpoolKinds, Readable, PCs, ReplayDelete, PersistOk,
    ReplayReturn, hist, core, CurInv, Unsaved, FetchPCs
<1>8. CASE Gate
  BY <1>8 DEF TypeOK, SpoolKinds, Readable, PCs, Gate, disk, mem, core, bounds, hist
<1>9. CASE FeedAttempt
  BY <1>9, PersistType, ZenonT(40) DEF TypeOK, SpoolKinds, Readable, PCs, FeedAttempt, PersistOk,
    hist, mem, core
<1>10. CASE FeedGetNothing
  BY <1>10, PersistType DEF TypeOK, SpoolKinds, Readable, PCs, FeedGetNothing,
    PersistOk, hist, mem, core
<1>11. CASE FeedGetListing
  BY <1>11 DEF TypeOK, SpoolKinds, Readable, PCs, FeedGetListing, Spooled, hist, core,
    bounds, CurInv, Unsaved, FetchPCs
<1>12. CASE IndexAccepted
  BY <1>12 DEF TypeOK, SpoolKinds, Readable, PCs, IndexAccepted, CoreIndex, disk,
    bounds, hist
<1>13. CASE IndexRefused
  BY <1>13 DEF TypeOK, SpoolKinds, Readable, PCs, IndexRefused, core, CoreIndex, disk,
    bounds, hist
<1>14. CASE SaveValidator
  BY <1>14, PersistType DEF TypeOK, SpoolKinds, Readable, PCs, SaveValidator, PersistOk,
    hist, core, CurInv, Unsaved, FetchPCs
<1>15. CASE FallbackDone
  BY <1>15, PersistType DEF TypeOK, SpoolKinds, Readable, PCs, FallbackDone, PersistOk,
    disk, core, hist
<1>16. CASE DrainStop
  BY <1>16 DEF TypeOK, SpoolKinds, Readable, PCs, DrainStop, DrainReturn, disk, core,
    bounds, hist
<1>17. CASE DrainGet
  BY <1>17 DEF TypeOK, SpoolKinds, Readable, PCs, DrainGet, Eligible, Pending, DrainReturn, disk,
    core, bounds, hist
<1>18. CASE DrainBatchDone
  BY <1>18 DEF TypeOK, SpoolKinds, Readable, PCs, DrainBatchDone, DrainReturn, disk,
    core, bounds, hist
<1>19. CASE DownloadFinal
  BY <1>19 DEF TypeOK, SpoolKinds, Readable, PCs, DownloadFinal, hist, core, bounds,
    CurInv, Unsaved, FetchPCs
<1>20. CASE DownloadTransient
  BY <1>20 DEF TypeOK, SpoolKinds, Readable, PCs, DownloadTransient, hist, mem, core,
    bounds
<1>21. CASE DownloadAborted
  BY <1>21, PersistType DEF TypeOK, SpoolKinds, Readable, PCs, DownloadAborted,
    PersistOk, FetchReturn, hist, core
<1>22. CASE SaveSpool
  BY <1>22, PersistType DEF TypeOK, SpoolKinds, Readable, PCs, SaveSpool, PersistOk,
    FetchReturn, hist, core, CurInv, Unsaved, FetchPCs
<1>23. CASE Mark
  BY <1>23, MarkType DEF TypeOK, SpoolKinds, Readable, PCs, Mark, FetchReturn, core,
    hist, CurInv, Unsaved, FetchPCs
<1>24. CASE SendAccepted
  BY <1>24, CoreTypeNext DEF TypeOK, SpoolKinds, Readable, PCs, SendAccepted, Acked,
    disk, mem, bounds, hist, core, CoreType, CurInv, Unsaved, FetchPCs
<1>25. CASE SendRefused
  BY <1>25, PersistType, CoreTypeNext DEF TypeOK, SpoolKinds, Readable, PCs,
    SendRefused, NotAcked, PersistOk, FetchReturn, disk, core, hist, CoreType, CurInv,
    Unsaved, FetchPCs
<1>26. CASE DeleteSpool
  BY <1>26, PersistType DEF TypeOK, SpoolKinds, Readable, PCs, DeleteSpool, PersistOk,
    FetchReturn, hist, core, CurInv, Unsaved, FetchPCs
<1>27. CASE ReportFailure
  BY <1>27, CoreTypeNext DEF TypeOK, SpoolKinds, Readable, PCs, ReportFailure, core,
    FetchReturn, disk, bounds, hist, CoreType, CurInv, Unsaved, FetchPCs
<1>28. CASE BackoffExpires
  <2>1. backoff' \in BOOLEAN
    BY <1>28, Zenon DEF BackoffExpires
  <2> QED
    BY <1>28, <2>1 DEF TypeOK, BackoffExpires, hist, mem, core, bounds
<1>29. CASE FeedDue
  BY <1>29 DEF TypeOK, SpoolKinds, Readable, PCs, FeedDue, hist, mem, core, bounds
<1>30. CASE Crash
  <2>1. crashes' \in 0..MaxCrashes
    BY <1>30, BoundsAssumption DEF TypeOK, Crash
  <2>2. fatal' \in BOOLEAN /\ fresh' \in BOOLEAN
    BY <1>30, Zenon DEF Crash, Forget
  <2> QED
    BY <1>30, <2>1, <2>2 DEF TypeOK, PCs, Crash, Forget, disk, hist, core
<1>31. ASSUME NEW i \in Items, ReplayQuarantine(i) PROVE TypeOK'
  BY <1>31, PersistType DEF TypeOK, SpoolKinds, Readable, PCs, ReplayQuarantine,
    ReplayHead, PersistOk, ReplayReturn, hist, core, CurInv, Unsaved, FetchPCs
<1>32. ASSUME NEW i \in Items, ReplayAccepted(i) PROVE TypeOK'
  BY <1>32, CoreTypeNext DEF TypeOK, SpoolKinds, Readable, PCs, ReplayAccepted,
    ReplayHead, Acked, disk, bounds, hist, core, CoreType, CurInv, Unsaved, FetchPCs
<1>33. ASSUME NEW i \in Items, ReplayRefused(i) PROVE TypeOK'
  BY <1>33, PersistType, CoreTypeNext DEF TypeOK, SpoolKinds, Readable, PCs,
    ReplayRefused, ReplayHead, NotAcked, PersistOk, ReplayReturn, disk, core, hist,
    CoreType, CurInv, Unsaved, FetchPCs
<1>34. ASSUME NEW i \in Items, FallbackNext(i) PROVE TypeOK'
  BY <1>34 DEF TypeOK, SpoolKinds, Readable, PCs, FallbackNext, disk, core, bounds, hist
<1>35. ASSUME NEW i \in Items, DrainNext(i) PROVE TypeOK'
  BY <1>35 DEF TypeOK, SpoolKinds, Readable, PCs, DrainNext, Spooled, disk, core,
    bounds, hist
<1>36. ASSUME NEW i \in Items, Publish(i) PROVE TypeOK'
  BY <1>36 DEF TypeOK, SpoolKinds, Readable, PCs, Publish, disk, mem, core, bounds, hist
<1>37. ASSUME NEW i \in Items, RetryIntervalOver(i) PROVE TypeOK'
  BY <1>37 DEF TypeOK, SpoolKinds, Readable, PCs, RetryIntervalOver, disk, mem, bounds,
    hist
<1>38. ASSUME NEW i \in Items, Corrupt(i) PROVE TypeOK'
  <2>1. faults' \in 0..MaxFaults
    BY <1>38, BoundsAssumption DEF TypeOK, Corrupt
  <2> QED
    BY <1>38, <2>1 DEF TypeOK, SpoolKinds, Readable, Corrupt, hist, mem, core
<1>39. ASSUME NEW i \in Items, ReplayNoUrl(i) PROVE TypeOK'
  BY <1>39, PersistType DEF TypeOK, SpoolKinds, Readable, PCs, ReplayNoUrl, ReplayHead,
    PersistOk, ReplayReturn, disk, hist, core
<1>40. CASE UNCHANGED vars
  BY <1>40 DEF TypeOK, vars, disk, mem, core, hist, bounds
<1> QED
  BY <1>1, <1>2, <1>3, <1>4, <1>5, <1>6, <1>7, <1>8, <1>9, <1>10, <1>11, <1>12, <1>13,
    <1>14, <1>15, <1>16, <1>17, <1>18, <1>19, <1>20, <1>21, <1>22, <1>23, <1>24, <1>25,
    <1>26, <1>27, <1>28, <1>29, <1>30, <1>31, <1>32, <1>33, <1>34, <1>35, <1>36, <1>37,
    <1>38, <1>39, <1>40 DEF Next, Adapter, Environment, Replay, Poll, Drain, Fetch

----------------------------------------------------------------------------
(* The inductive step.                                                     *)

\* Steps of a latched controller lead to its exit.
LEMMA LatchNext ==
  ASSUME IInv, [Next]_vars
  PROVE  LatchInv'
<1> USE DEF IInv, LatchInv, vars, disk, mem, core, hist, bounds
<1>1. CASE Boot \/ RunLoop \/ Crash
  BY <1>1 DEF Boot, OnDisk, RunLoop, Forget, Crash
<1>2. CASE Replay
  BY <1>2, ZenonT(40) DEF Replay, ReplayList, PersistOk, Readable, PersistFails, ReplayReturn,
    ReplayDone, ReplayMarkBad, MarkFetched, MarkFetchedFails, AppendLine, ReplayMark,
    ReplayDelete, ReplayNoUrl, ReplayQuarantine, ReplayHead, ReplayAccepted, Acked, CoreMessage,
    CoreFailure, Final, ReplayRefused, NotAcked
<1>3. CASE Poll
  BY <1>3 DEF Poll, Gate, FeedAttempt, PersistOk, PersistFails, FeedGetNothing,
    FeedGetListing, Spooled, IndexAccepted, CoreIndex, IndexRefused, SaveValidator,
    FallbackDone, FallbackNext
<1>4. CASE Drain
  BY <1>4 DEF Drain, DrainStop, DrainReturn, DrainGet, Eligible, Pending, DrainBatchDone,
    DrainNext, Spooled
<1>5. CASE Fetch
  BY <1>5 DEF Fetch, DownloadFinal, DownloadTransient, DownloadAborted, PersistOk,
    PersistFails, FetchReturn, SaveSpool, Mark, MarkFetched, MarkFetchedFails,
    AppendLine, SendAccepted, Acked, CoreMessage, CoreFailure, Final, SendRefused,
    NotAcked, DeleteSpool, ReportFailure
<1>6. CASE BackoffExpires \/ FeedDue \/ \E i \in Items : Publish(i) \/
    RetryIntervalOver(i) \/ Corrupt(i)
  BY <1>6 DEF BackoffExpires, FeedDue, Publish, RetryIntervalOver, Corrupt
<1>7. CASE UNCHANGED vars
  BY <1>7
<1> QED
  BY <1>1, <1>2, <1>3, <1>4, <1>5, <1>6, <1>7 DEF Next, Adapter, Environment

\* What is known of the telegram in hand.
LEMMA CurNext ==
  ASSUME IInv, [Next]_vars
  PROVE  CurInv'
<1> USE DEF IInv, CurInv, FetchPCs, Unsaved, Spooled, Final, LoopInv, TypeOK,
    SpoolKinds, Readable, vars, disk, mem, core, hist, bounds
<1>1. CASE Boot \/ RunLoop \/ Crash
  BY <1>1 DEF Boot, OnDisk, RunLoop, Forget, Crash
<1>2. CASE Replay
  BY <1>2 DEF Replay, ReplayList, PersistOk, PersistFails, ReplayReturn, ReplayDone,
    ReplayMarkBad, MarkFetched, MarkFetchedFails, AppendLine, ReplayMark, ReplayDelete,
    ReplayNoUrl, ReplayQuarantine, ReplayHead, ReplayAccepted, Acked, CoreMessage, CoreFailure,
    ReplayRefused, NotAcked
<1>3. CASE Poll
  BY <1>3 DEF Poll, Gate, FeedAttempt, PersistOk, PersistFails, FeedGetNothing,
    FeedGetListing, IndexAccepted, CoreIndex, IndexRefused, SaveValidator, FallbackDone,
    FallbackNext
<1>4. CASE Drain
  BY <1>4 DEF Drain, DrainStop, DrainReturn, DrainGet, Eligible, Pending, DrainBatchDone,
    DrainNext
<1>5. CASE Fetch
  BY <1>5, ZenonT(40) DEF Fetch, DownloadFinal, DownloadTransient, DownloadAborted, PersistOk,
    PersistFails, FetchReturn, SaveSpool, Mark, MarkFetched, MarkFetchedFails,
    AppendLine, SendAccepted, Acked, CoreMessage, CoreFailure, SendRefused, NotAcked,
    DeleteSpool, ReportFailure
<1>6. CASE BackoffExpires \/ FeedDue \/ \E i \in Items : Publish(i) \/
    RetryIntervalOver(i) \/ Corrupt(i)
  BY <1>6 DEF BackoffExpires, FeedDue, Publish, RetryIntervalOver, Corrupt
<1>7. CASE UNCHANGED vars
  BY <1>7
<1> QED
  BY <1>1, <1>2, <1>3, <1>4, <1>5, <1>6, <1>7 DEF Next, Adapter, Environment

\* What is known of the work list.
LEMMA LoopNext ==
  ASSUME IInv, [Next]_vars
  PROVE  LoopInv'
<1> USE DEF IInv, LoopInv, FetchPCs, Unsaved, CurInv, TypeOK, vars, disk, mem, core,
    hist, bounds
<1>1. CASE Boot \/ RunLoop \/ Crash
  BY <1>1, NoItemAssumption DEF Boot, OnDisk, RunLoop, Forget, Crash
<1>2. CASE Replay
  BY <1>2, NoItemAssumption DEF Replay, ReplayList, PersistOk, Readable, PersistFails,
    ReplayReturn, ReplayDone, ReplayMarkBad, MarkFetched, MarkFetchedFails, AppendLine,
    ReplayMark, ReplayDelete, ReplayNoUrl, ReplayQuarantine, ReplayHead, ReplayAccepted, Acked,
    CoreMessage, CoreFailure, Final, ReplayRefused, NotAcked
<1>3. CASE Poll
  BY <1>3, NoItemAssumption DEF Poll, Gate, FeedAttempt, PersistOk, PersistFails,
    FeedGetNothing, FeedGetListing, Spooled, IndexAccepted, CoreIndex, IndexRefused,
    SaveValidator, FallbackDone, FallbackNext
<1>4. CASE Drain
  BY <1>4, NoItemAssumption DEF Drain, DrainStop, DrainReturn, DrainGet, Eligible, Pending,
    DrainBatchDone, DrainNext, Spooled
<1>5. CASE Fetch
  <2>1. CASE DownloadFinal
    BY <2>1, NoItemAssumption DEF DownloadFinal
  <2>2. CASE DownloadTransient
    BY <2>2, NoItemAssumption DEF DownloadTransient
  <2>3. CASE DownloadAborted
    BY <2>3, NoItemAssumption DEF DownloadAborted, PersistOk, PersistFails,
      FetchReturn
  <2>4. CASE SaveSpool
    BY <2>4, NoItemAssumption DEF SaveSpool, PersistOk, PersistFails, FetchReturn
  <2>5. CASE Mark
    BY <2>5, NoItemAssumption DEF Mark, MarkFetched, MarkFetchedFails, FetchReturn,
      AppendLine, PersistOk, PersistFails
  <2>6. CASE SendAccepted
    BY <2>6, NoItemAssumption DEF SendAccepted, Acked, CoreMessage, CoreFailure, Final
  <2>7. CASE SendRefused
    BY <2>7, NoItemAssumption DEF SendRefused, NotAcked, PersistOk, PersistFails,
      FetchReturn, CoreMessage, CoreFailure, Final
  <2>8. CASE DeleteSpool
    BY <2>8, NoItemAssumption DEF DeleteSpool, PersistOk, PersistFails, FetchReturn
  <2>9. CASE ReportFailure
    BY <2>9, NoItemAssumption DEF ReportFailure, CoreFailure, FetchReturn
  <2> QED
    BY <1>5, <2>1, <2>2, <2>3, <2>4, <2>5, <2>6, <2>7, <2>8, <2>9 DEF Fetch
<1>6. CASE BackoffExpires \/ FeedDue \/ \E i \in Items : Publish(i) \/
    RetryIntervalOver(i) \/ Corrupt(i)
  BY <1>6, NoItemAssumption DEF BackoffExpires, FeedDue, Publish, RetryIntervalOver,
    Corrupt
<1>7. CASE UNCHANGED vars
  BY <1>7
<1> QED
  BY <1>1, <1>2, <1>3, <1>4, <1>5, <1>6, <1>7 DEF Next, Adapter, Environment

\* The process remembers the history file.
LEMMA MemoryNext ==
  ASSUME IInv, [Next]_vars
  PROVE  MemoryInv'
<1> USE DEF IInv, MemoryInv, OnDisk, CurInv, FetchPCs, LatchInv, vars, disk, mem,
    core, hist, bounds
<1>1. CASE Boot \/ RunLoop \/ Crash
  BY <1>1 DEF Boot, RunLoop, Forget, Crash
<1>2. CASE Replay
  BY <1>2 DEF Replay, ReplayList, PersistOk, Readable, PersistFails, ReplayReturn,
    ReplayDone, ReplayMarkBad, MarkFetched, MarkFetchedFails, AppendLine, ReplayMark,
    ReplayDelete, ReplayNoUrl, ReplayQuarantine, ReplayHead, ReplayAccepted, Acked, CoreMessage,
    CoreFailure, Final, ReplayRefused, NotAcked
<1>3. CASE Poll
  BY <1>3 DEF Poll, Gate, FeedAttempt, PersistOk, PersistFails, FeedGetNothing,
    FeedGetListing, Spooled, IndexAccepted, CoreIndex, IndexRefused, SaveValidator,
    FallbackDone, FallbackNext
<1>4. CASE Drain
  BY <1>4 DEF Drain, DrainStop, DrainReturn, DrainGet, Eligible, Pending, DrainBatchDone,
    DrainNext, Spooled
<1>5. CASE Fetch
  BY <1>5 DEF Fetch, DownloadFinal, DownloadTransient, DownloadAborted, PersistOk,
    PersistFails, FetchReturn, SaveSpool, Mark, MarkFetched, MarkFetchedFails,
    AppendLine, SendAccepted, Acked, CoreMessage, CoreFailure, Final, SendRefused,
    NotAcked, DeleteSpool, ReportFailure
<1>6. CASE BackoffExpires \/ FeedDue \/ \E i \in Items : Publish(i) \/
    RetryIntervalOver(i) \/ Corrupt(i)
  BY <1>6 DEF BackoffExpires, FeedDue, Publish, RetryIntervalOver, Corrupt
<1>7. CASE UNCHANGED vars
  BY <1>7
<1> QED
  BY <1>1, <1>2, <1>3, <1>4, <1>5, <1>6, <1>7 DEF Next, Adapter, Environment

\* A fetched telegram stays kept.
LEMMA KeptNext ==
  ASSUME IInv, [Next]_vars
  PROVE  NothingLost'
<1> USE DEF IInv, NothingLost, CurInv, MemoryInv, LatchInv, FetchPCs, Unsaved, Kept,
    Spooled, OnDisk, Final, TypeOK, SpoolKinds, Readable, vars, disk, mem, core, hist,
    bounds
<1>1. CASE Boot \/ RunLoop \/ Crash
  BY <1>1 DEF Boot, RunLoop, Forget, Crash
<1>2. CASE Replay
  BY <1>2 DEF Replay, ReplayList, PersistOk, PersistFails, ReplayReturn, ReplayDone,
    ReplayMarkBad, MarkFetched, MarkFetchedFails, AppendLine, ReplayMark, ReplayDelete,
    ReplayNoUrl, ReplayQuarantine, ReplayHead, ReplayAccepted, Acked, CoreMessage, CoreFailure,
    ReplayRefused, NotAcked
<1>3. CASE Poll
  BY <1>3 DEF Poll, Gate, FeedAttempt, PersistOk, PersistFails, FeedGetNothing,
    FeedGetListing, IndexAccepted, CoreIndex, IndexRefused, SaveValidator, FallbackDone,
    FallbackNext
<1>4. CASE Drain
  BY <1>4 DEF Drain, DrainStop, DrainReturn, DrainGet, Eligible, Pending, DrainBatchDone,
    DrainNext
<1>5. CASE Fetch
  <2>1. CASE DownloadFinal
    BY <2>1 DEF DownloadFinal
  <2>2. CASE DownloadTransient
    BY <2>2 DEF DownloadTransient
  <2>3. CASE DownloadAborted
    BY <2>3 DEF DownloadAborted, PersistOk, PersistFails, FetchReturn
  <2>4. CASE SaveSpool
    BY <2>4 DEF SaveSpool, PersistOk, PersistFails, FetchReturn
  <2>5. CASE Mark
    BY <2>5 DEF Mark, MarkFetched, MarkFetchedFails, FetchReturn, AppendLine,
      PersistOk, PersistFails
  <2>6. CASE SendAccepted
    BY <2>6 DEF SendAccepted, Acked, CoreMessage, CoreFailure
  <2>7. CASE SendRefused
    BY <2>7 DEF SendRefused, NotAcked, PersistOk, PersistFails, FetchReturn,
      CoreMessage, CoreFailure
  <2>8. CASE DeleteSpool
    BY <2>8 DEF DeleteSpool, PersistOk, PersistFails, FetchReturn
  <2>9. CASE ReportFailure
    BY <2>9 DEF ReportFailure, CoreFailure, FetchReturn
  <2> QED
    BY <1>5, <2>1, <2>2, <2>3, <2>4, <2>5, <2>6, <2>7, <2>8, <2>9 DEF Fetch
<1>6. CASE BackoffExpires \/ FeedDue \/ \E i \in Items : Publish(i) \/
    RetryIntervalOver(i) \/ Corrupt(i)
  BY <1>6 DEF BackoffExpires, FeedDue, Publish, RetryIntervalOver, Corrupt
<1>7. CASE UNCHANGED vars
  BY <1>7
<1> QED
  BY <1>1, <1>2, <1>3, <1>4, <1>5, <1>6, <1>7 DEF Next, Adapter, Environment

\* The stored validator covers only known telegrams.
LEMMA CoversNext ==
  ASSUME IInv, [Next]_vars
  PROVE  ValidatorCovers'
<1> USE DEF IInv, ValidatorCovers, ListingInv, CurInv, FetchPCs, Unsaved, Kept,
    Spooled, OnDisk, Final, TypeOK, SpoolKinds, Readable, vars, disk, mem, core, hist,
    bounds
<1>1. CASE Boot \/ RunLoop \/ Crash
  BY <1>1 DEF Boot, RunLoop, Forget, Crash
<1>2. CASE Replay
  BY <1>2 DEF Replay, ReplayList, PersistOk, PersistFails, ReplayReturn, ReplayDone,
    ReplayMarkBad, MarkFetched, MarkFetchedFails, AppendLine, ReplayMark, ReplayDelete,
    ReplayNoUrl, ReplayQuarantine, ReplayHead, ReplayAccepted, Acked, CoreMessage, CoreFailure,
    ReplayRefused, NotAcked
<1>3. CASE Poll
  BY <1>3 DEF Poll, Gate, FeedAttempt, PersistOk, PersistFails, FeedGetNothing,
    FeedGetListing, IndexAccepted, CoreIndex, IndexRefused, SaveValidator, FallbackDone,
    FallbackNext
<1>4. CASE Drain
  BY <1>4 DEF Drain, DrainStop, DrainReturn, DrainGet, Eligible, Pending, DrainBatchDone,
    DrainNext
<1>5. CASE Fetch
  BY <1>5, ZenonT(40) DEF Fetch, DownloadFinal, DownloadTransient, DownloadAborted, PersistOk,
    PersistFails, FetchReturn, SaveSpool, Mark, MarkFetched, MarkFetchedFails,
    AppendLine, SendAccepted, Acked, CoreMessage, CoreFailure, SendRefused, NotAcked,
    DeleteSpool, ReportFailure
<1>6. CASE BackoffExpires \/ FeedDue \/ \E i \in Items : Publish(i) \/
    RetryIntervalOver(i) \/ Corrupt(i)
  BY <1>6 DEF BackoffExpires, FeedDue, Publish, RetryIntervalOver, Corrupt
<1>7. CASE UNCHANGED vars
  BY <1>7
<1> QED
  BY <1>1, <1>2, <1>3, <1>4, <1>5, <1>6, <1>7 DEF Next, Adapter, Environment

\* And so will the validator of the listing in hand.
LEMMA ListingNext ==
  ASSUME IInv, [Next]_vars
  PROVE  ListingInv'
<1> USE DEF IInv, ListingInv, NothingLost, CurInv, FetchPCs, Unsaved, Kept, Spooled,
    OnDisk, Final, TypeOK, SpoolKinds, Readable, vars, disk, mem, core, hist, bounds
<1>1. CASE Boot \/ RunLoop \/ Crash
  BY <1>1 DEF Boot, RunLoop, Forget, Crash
<1>2. CASE Replay
  BY <1>2 DEF Replay, ReplayList, PersistOk, PersistFails, ReplayReturn, ReplayDone,
    ReplayMarkBad, MarkFetched, MarkFetchedFails, AppendLine, ReplayMark, ReplayDelete,
    ReplayNoUrl, ReplayQuarantine, ReplayHead, ReplayAccepted, Acked, CoreMessage, CoreFailure,
    ReplayRefused, NotAcked
<1>3. CASE Poll
  BY <1>3 DEF Poll, Gate, FeedAttempt, PersistOk, PersistFails, FeedGetNothing,
    FeedGetListing, IndexAccepted, CoreIndex, IndexRefused, SaveValidator, FallbackDone,
    FallbackNext
<1>4. CASE Drain
  BY <1>4 DEF Drain, DrainStop, DrainReturn, DrainGet, Eligible, Pending, DrainBatchDone,
    DrainNext
<1>5. CASE Fetch
  BY <1>5 DEF Fetch, DownloadFinal, DownloadTransient, DownloadAborted, PersistOk,
    PersistFails, FetchReturn, SaveSpool, Mark, MarkFetched, MarkFetchedFails,
    AppendLine, SendAccepted, Acked, CoreMessage, CoreFailure, SendRefused, NotAcked,
    DeleteSpool, ReportFailure
<1>6. CASE BackoffExpires \/ FeedDue \/ \E i \in Items : Publish(i) \/
    RetryIntervalOver(i) \/ Corrupt(i)
  BY <1>6 DEF BackoffExpires, FeedDue, Publish, RetryIntervalOver, Corrupt
<1>7. CASE UNCHANGED vars
  BY <1>7
<1> QED
  BY <1>1, <1>2, <1>3, <1>4, <1>5, <1>6, <1>7 DEF Next, Adapter, Environment

\* The inductive invariant holds in the initial state ...
LEMMA InitIInv == Init => IInv
<1> SUFFICES ASSUME Init PROVE IInv
  OBVIOUS
<1>1. TypeOK
  <2>1. torn \in BOOLEAN /\ backoff \in BOOLEAN /\ due \in BOOLEAN
    BY Zenon DEF Init
  <2>2. fresh \in BOOLEAN /\ fatal \in BOOLEAN
    BY Zenon DEF Init
  <2>3. /\ attempts \in [Items -> 0..MaxRetryAttempts]
        /\ faults \in 0..MaxFaults /\ crashes \in 0..MaxCrashes
    BY BoundsAssumption DEF Init
  <2>4. spool \in [Items -> SpoolKinds]
    BY DEF Init, SpoolKinds
  <2>5. item \in [Items -> {"absent", "pending", "failed"} \cup Final]
    BY DEF Init
  <2> QED
    BY <2>1, <2>2, <2>3, <2>4, <2>5, ListedAssumption DEF Init, TypeOK, PCs
<1>2. NothingLost /\ ValidatorCovers
  BY DEF Init, NothingLost, ValidatorCovers, OnDisk
<1>3. CurInv /\ LoopInv /\ MemoryInv /\ ListingInv
  BY DEF Init, CurInv, LoopInv, MemoryInv, ListingInv, FetchPCs, Unsaved
<1>4. LatchInv
  BY DEF Init, LatchInv
<1> QED
  BY <1>1, <1>2, <1>3, <1>4 DEF IInv

\* ... and every step preserves it.
LEMMA NextIInv == IInv /\ [Next]_vars => IInv'
<1> SUFFICES ASSUME IInv, [Next]_vars PROVE IInv'
  OBVIOUS
<1>1. TypeOK'
  BY TypeNext DEF IInv
<1>2. NothingLost' /\ ValidatorCovers'
  BY KeptNext, CoversNext
<1>3. CurInv' /\ LoopInv' /\ LatchInv' /\ MemoryInv' /\ ListingInv'
  BY CurNext, LoopNext, LatchNext, MemoryNext, ListingNext
<1> QED
  BY <1>1, <1>2, <1>3 DEF IInv

\* So it holds throughout every behaviour.
THEOREM Inductive == Spec => []IInv
  BY InitIInv, NextIInv, PTL DEF Spec

----------------------------------------------------------------------------
(* What follows from it.                                                   *)

\* Every behaviour of the adapter stays within its types.
THEOREM TypeCorrect == Spec => []TypeOK
<1>1. IInv => TypeOK
  BY DEF IInv
<1> QED
  BY <1>1, Inductive, PTL

\* The acquisition invariant of controller.go: however many crashes, failed
\* writes, torn history lines and damaged spool files there are, a URL that
\* counts as fetched still has its telegram in the spool, in the core or in
\* quarantine.
THEOREM Acquisition == Spec => []NothingLost
<1>1. IInv => NothingLost
  BY DEF IInv
<1> QED
  BY <1>1, Inductive, PTL

\* A validator that silences a feed (processFeed's SaveFeedValidator) covers
\* only telegrams the core or the adapter already holds.
THEOREM ValidatorSound == Spec => []ValidatorCovers
<1>1. IInv => ValidatorCovers
  BY DEF IInv
<1> QED
  BY <1>1, Inductive, PTL

\* setFatal stops every request to JMA until the process has restarted.
THEOREM LatchSound == Spec => []LatchStopsRequests
<1>1. IInv => LatchStopsRequests
  BY DEF IInv, LatchInv, LatchStopsRequests
<1> QED
  BY <1>1, Inductive, PTL

----------------------------------------------------------------------------
(* Without torn writes fetched_history.txt is exact.                       *)

\* A complete line is never lost from the history file.
LEMMA HistoryNext ==
  ASSUME HistoryInv, [Next]_vars, "torn" \notin Faults
  PROVE  HistoryInv'
<1> USE DEF HistoryInv, OnDisk, vars, disk, mem, core, hist, bounds
<1>1. CASE Boot \/ RunLoop \/ Crash
  BY <1>1 DEF Boot, RunLoop, Forget, Crash
<1>2. CASE Replay
  BY <1>2 DEF Replay, ReplayList, PersistOk, Readable, PersistFails, ReplayReturn,
    ReplayDone, ReplayMarkBad, MarkFetched, MarkFetchedFails, AppendLine, ReplayMark,
    ReplayDelete, ReplayNoUrl, ReplayQuarantine, ReplayHead, ReplayAccepted, Acked, CoreMessage,
    CoreFailure, Final, ReplayRefused, NotAcked
<1>3. CASE Poll
  BY <1>3 DEF Poll, Gate, FeedAttempt, PersistOk, PersistFails, FeedGetNothing,
    FeedGetListing, Spooled, IndexAccepted, CoreIndex, IndexRefused, SaveValidator,
    FallbackDone, FallbackNext
<1>4. CASE Drain
  BY <1>4 DEF Drain, DrainStop, DrainReturn, DrainGet, Eligible, Pending, DrainBatchDone,
    DrainNext, Spooled
<1>5. CASE Fetch
  BY <1>5 DEF Fetch, DownloadFinal, DownloadTransient, DownloadAborted, PersistOk,
    PersistFails, FetchReturn, SaveSpool, Mark, MarkFetched, MarkFetchedFails,
    AppendLine, SendAccepted, Acked, CoreMessage, CoreFailure, Final, SendRefused,
    NotAcked, DeleteSpool, ReportFailure
<1>6. CASE BackoffExpires \/ FeedDue \/ \E i \in Items : Publish(i) \/
    RetryIntervalOver(i) \/ Corrupt(i)
  BY <1>6 DEF BackoffExpires, FeedDue, Publish, RetryIntervalOver, Corrupt
<1>7. CASE UNCHANGED vars
  BY <1>7
<1> QED
  BY <1>1, <1>2, <1>3, <1>4, <1>5, <1>6, <1>7 DEF Next, Adapter, Environment

\* If no append to fetched_history.txt is ever cut short, a telegram whose
\* MarkFetched succeeded is never downloaded again, across any number of
\* restarts (controller.go: "never re-fetch an item").
THEOREM FetchedOnce ==
  ASSUME "torn" \notin Faults
  PROVE  Spec => []NoRefetch
<1>1. Init => HistoryInv
  BY DEF Init, HistoryInv
<1>2. HistoryInv /\ [Next]_vars => HistoryInv'
  BY HistoryNext
<1>3. IInv /\ HistoryInv => NoRefetch
  BY DEF IInv, CurInv, MemoryInv, LatchInv, HistoryInv, NoRefetch, OnDisk, Unsaved, FetchPCs
<1> QED
  BY <1>1, <1>2, <1>3, Inductive, PTL DEF Spec

----------------------------------------------------------------------------
(* Without torn writes and damaged spool files nothing is reopened.        *)

\* What the core has closed is in the history file or still in the spool, so
\* it is not downloaded again; a telegram that the core drops is in the spool
\* only as long as the core has not closed it.
StableInv ==
    /\ \A i \in Items : spool[i] \in {"none", "telegram", "outcome"}
    /\ \A i \in Items : item[i] \in Final => i \in history \/ Spooled(i)
    /\ \A i \in Rejected : spool[i] = "telegram" => item[i] \notin Final
    /\ pc \in {"index", "fallback"} => \A i \in todo : ~Spooled(i)
    /\ pc \in FetchPCs /\ phase = "fallback" => \A i \in todo : ~Spooled(i)
    /\ pc \in Unsaved => ~Spooled(cur)
    /\ pc \in {"mark", "send"} => spool[cur] = kind
    /\ pc \in {"send", "delete", "replayDelete"} => cur \in history

\* What a step does to the items of the core.
Stable == \A i \in Items : item[i] \in Final => item'[i] \in Final

\* The core's side of a message whose telegram the core has not closed, or takes.
LEMMA MessageStable ==
  ASSUME TypeOK, NEW i \in Items, NEW k \in {"telegram", "outcome"},
         k = "telegram" /\ i \in Rejected => item[i] \notin Final,
         CoreMessage(i, k) \/ UNCHANGED core
  PROVE  /\ Stable
         /\ \A j \in Items : item'[j] \in Final => item[j] \in Final \/ j = i
         /\ k = "telegram" /\ i \in Rejected => item'[i] \notin Final
  BY DEF TypeOK, Stable, CoreMessage, CoreFailure, core, Final

\* No step reopens what is closed, and every step keeps the reason why.
LEMMA StableNext ==
  ASSUME IInv, HistoryInv, HistoryInv', StableInv, [Next]_vars, "corrupt" \notin Faults
  PROVE  StableInv' /\ Stable
<1> USE DEF vars, disk, mem, core, hist, bounds, Unsaved, FetchPCs
<1>1. TypeOK /\ CurInv /\ LoopInv /\ LatchInv /\ MemoryInv
  BY DEF IInv
<1>2. pc \in Unsaved => cur \in Items /\ item[cur] \notin Final
  <2> SUFFICES ASSUME pc \in Unsaved PROVE cur \in Items /\ item[cur] \notin Final
    OBVIOUS
  <2>1. cur \in Items /\ cur \notin fetched /\ ~fatal /\ pc # "down"
    BY <1>1 DEF CurInv, LatchInv
  <2>2. cur \notin history
    BY <1>1, <2>1 DEF MemoryInv, OnDisk
  <2> QED BY <2>1, <2>2 DEF StableInv
<1>3. ASSUME UNCHANGED <<spool, item, kind, cur, todo, phase>>, history \subseteq history',
             pc' \notin FetchPCs \cup {"index", "fallback", "replayDelete"} \/ pc' = pc
      PROVE  StableInv' /\ Stable
  BY <1>3 DEF StableInv, Stable, Spooled
<1>4. ASSUME UNCHANGED <<spool, item>>, history \subseteq history',
             pc' \notin FetchPCs \cup {"index", "fallback", "replayDelete"}
      PROVE  StableInv' /\ Stable
  BY <1>4 DEF StableInv, Stable, Spooled
<1>5. CASE Boot \/ RunLoop \/ Crash \/ Gate \/ FeedAttempt \/ FeedGetNothing \/ SaveValidator
           \/ FallbackDone \/ DrainStop \/ DrainGet \/ DrainBatchDone
  BY <1>4, <1>5 DEF Boot, RunLoop, Forget, Crash, Gate, FeedAttempt, FeedGetNothing,
    SaveValidator, FallbackDone, DrainStop, DrainReturn, DrainGet, DrainBatchDone
<1>6. CASE BackoffExpires \/ FeedDue \/ UNCHANGED vars
           \/ \E i \in Items : Publish(i) \/ RetryIntervalOver(i) \/ Corrupt(i)
  BY <1>3, <1>6 DEF BackoffExpires, FeedDue, Publish, RetryIntervalOver, Corrupt
<1>7. CASE ReplayList
  <2>1. \A i \in Items : spool[i] # "badfile"
    BY DEF StableInv
  <2>2. spool' = spool
    <3>1. \/ spool' = [i \in Items |-> IF i \in {j \in Items : spool[j] = "badfile"} THEN "none"
                                       ELSE spool[i]]
          \/ spool' = spool
      BY <1>7 DEF ReplayList
    <3> QED BY <1>1, <2>1, <3>1 DEF TypeOK
  <2> QED BY <1>4, <1>7, <2>2 DEF ReplayList, ReplayReturn
<1>8. CASE ReplayDone
  BY <1>4, <1>8 DEF ReplayDone, ReplayReturn
<1>9. ASSUME NEW i \in Items, ReplayNoUrl(i) \/ ReplayQuarantine(i) PROVE FALSE
  BY <1>9 DEF ReplayNoUrl, ReplayQuarantine, StableInv
<1>10. ASSUME NEW i \in Items, ReplayAccepted(i) \/ ReplayRefused(i) PROVE StableInv' /\ Stable
  <2>1. /\ spool[i] \in {"telegram", "outcome"}
        /\ CoreMessage(i, spool[i]) \/ UNCHANGED core
        /\ UNCHANGED <<spool, history>>
        /\ pc' \notin FetchPCs \cup {"index", "fallback", "replayDelete"}
    BY <1>10 DEF ReplayAccepted, ReplayRefused, ReplayReturn, Acked, NotAcked
  <2>2. /\ Stable
        /\ \A j \in Items : item'[j] \in Final => item[j] \in Final \/ j = i
        /\ spool[i] = "telegram" /\ i \in Rejected => item'[i] \notin Final
    BY <1>1, <2>1, MessageStable DEF StableInv
  <2> QED BY <2>1, <2>2, RejectedAssumption DEF StableInv, Spooled
<1>11. CASE ReplayMarkBad
  BY <1>4, <1>11 DEF ReplayMarkBad, ReplayReturn, MarkFetched, MarkFetchedFails, AppendLine,
    HistoryInv
<1>12. CASE ReplayMark
  <2>1. /\ UNCHANGED <<spool, item, kind, phase>> /\ history \subseteq history'
        /\ pc' \notin FetchPCs \cup {"index", "fallback"}
    BY <1>12 DEF ReplayMark, ReplayReturn, MarkFetched, MarkFetchedFails, AppendLine, HistoryInv
  <2>2. pc' = "replayDelete" => cur' \in history'
    BY <1>12 DEF ReplayMark, ReplayReturn, MarkFetched, HistoryInv
  <2> QED BY <2>1, <2>2 DEF StableInv, Stable, Spooled
<1>13. CASE ReplayDelete
  <2>1. /\ spool' = [spool EXCEPT ![cur] = "none"] \/ UNCHANGED spool
        /\ UNCHANGED <<item, history>> /\ cur \in history /\ cur \in Items
        /\ pc' \notin FetchPCs \cup {"index", "fallback", "replayDelete"}
    BY <1>1, <1>13 DEF ReplayDelete, ReplayReturn, StableInv, CurInv
  <2>2. \A i \in Items : spool'[i] = spool[i] \/ (i \in history /\ spool'[i] = "none")
    BY <1>1, <2>1 DEF TypeOK
  <2> QED BY <2>1, <2>2, RejectedAssumption DEF StableInv, Stable, Spooled
<1>14. CASE FeedGetListing
  BY <1>14 DEF FeedGetListing, StableInv, Stable, Spooled
<1>15. CASE IndexAccepted \/ IndexRefused
  <2>1. /\ item' = item \/ CoreIndex(todo)
        /\ UNCHANGED <<spool, history>>
        /\ pc' \in {"validator", "fallback"} /\ pc = "index"
        /\ pc' = "fallback" => todo' = todo
    BY <1>15 DEF IndexAccepted, IndexRefused
  <2>2. Stable /\ \A j \in Items : item'[j] \in Final => item[j] \in Final
    BY <2>1 DEF Stable, CoreIndex, Final
  <2> QED BY <2>1, <2>2, RejectedAssumption DEF StableInv, Spooled
<1>16. ASSUME NEW i \in Items, FallbackNext(i) PROVE StableInv' /\ Stable
  BY <1>1, <1>16 DEF FallbackNext, StableInv, Stable, Spooled, LoopInv
<1>17. ASSUME NEW i \in Items, DrainNext(i) PROVE StableInv' /\ Stable
  BY <1>1, <1>17 DEF DrainNext, StableInv, Stable, Spooled, LoopInv
<1>18. CASE DownloadFinal \/ DownloadTransient
  BY <1>18 DEF DownloadFinal, DownloadTransient, StableInv, Stable, Spooled
<1>19. CASE DownloadAborted
  BY <1>1, <1>19 DEF DownloadAborted, FetchReturn, StableInv, Stable, Spooled, LoopInv
<1>20. CASE SaveSpool
  <2>1. cur \in Items /\ item[cur] \notin Final /\ kind \in {"telegram", "outcome"}
        /\ (phase = "fallback" => cur \notin todo) /\ phase \in {"fallback", "drain"}
    BY <1>1, <1>2, <1>20 DEF SaveSpool, TypeOK, LoopInv
  <2>2. CASE /\ spool' = [spool EXCEPT ![cur] = kind] /\ pc' = "mark"
             /\ UNCHANGED <<cur, kind, item, history, todo, phase>>
    BY <1>1, <1>20, <2>1, <2>2 DEF SaveSpool, StableInv, Stable, Spooled, TypeOK
  <2>3. CASE spool' = spool /\ FetchReturn /\ UNCHANGED <<item, history, todo, phase>>
    BY <1>1, <1>20, <2>1, <2>3 DEF SaveSpool, FetchReturn, StableInv, Stable, Spooled
  <2> QED BY <1>20, <2>2, <2>3 DEF SaveSpool
<1>21. CASE Mark
  <2>1. /\ UNCHANGED <<spool, item, todo, phase>> /\ history \subseteq history' /\ pc = "mark"
    BY <1>21 DEF Mark, MarkFetched, MarkFetchedFails, AppendLine, HistoryInv
  <2>2. CASE MarkFetched(cur) /\ pc' = "send" /\ UNCHANGED <<cur, kind>>
    <3>1. cur \in history'
      BY <2>2 DEF MarkFetched, HistoryInv
    <3> QED BY <2>1, <2>2, <3>1 DEF StableInv, Stable, Spooled
  <2>3. CASE FetchReturn
    BY <1>1, <2>1, <2>3 DEF FetchReturn, StableInv, Stable, Spooled, LoopInv
  <2> QED BY <1>21, <2>2, <2>3 DEF Mark
<1>22. CASE SendAccepted \/ SendRefused
  <2>1. /\ CoreMessage(cur, kind) \/ UNCHANGED core
        /\ UNCHANGED <<spool, history, todo, phase>>
        /\ (pc' = "delete" /\ cur' = cur) \/ FetchReturn
    BY <1>22 DEF SendAccepted, SendRefused, Acked, NotAcked
  <2>2. cur \in Items /\ kind \in {"telegram", "outcome"} /\ spool[cur] = kind /\ cur \in history
    BY <1>1, <1>22 DEF SendAccepted, SendRefused, StableInv, CurInv, TypeOK
  <2>3. /\ Stable
        /\ \A j \in Items : item'[j] \in Final => item[j] \in Final \/ j = cur
        /\ kind = "telegram" /\ cur \in Rejected => item'[cur] \notin Final
    BY <1>1, <2>1, <2>2, MessageStable DEF StableInv
  <2>4. /\ \A i \in Items : spool'[i] \in {"none", "telegram", "outcome"}
        /\ \A i \in Items : item'[i] \in Final => i \in history' \/ Spooled(i)'
        /\ \A i \in Rejected : spool'[i] = "telegram" => item'[i] \notin Final
    BY <2>1, <2>2, <2>3, RejectedAssumption DEF StableInv, Spooled
  <2> QED BY <1>1, <1>22, <2>1, <2>2, <2>3, <2>4
          DEF SendAccepted, SendRefused, FetchReturn, StableInv, Spooled, LoopInv
<1>23. CASE DeleteSpool
  <2>1. /\ spool' = [spool EXCEPT ![cur] = "none"] \/ UNCHANGED spool
        /\ UNCHANGED <<item, history, todo, phase>> /\ FetchReturn
        /\ cur \in history /\ cur \in Items /\ pc = "delete" /\ phase \in {"fallback", "drain"}
    BY <1>1, <1>23 DEF DeleteSpool, StableInv, CurInv, LoopInv
  <2>2. \A i \in Items : spool'[i] = spool[i] \/ (i \in history /\ spool'[i] = "none")
    BY <1>1, <2>1 DEF TypeOK
  <2>3. \A i \in todo : i \in Items
    BY <1>1 DEF TypeOK
  <2> QED BY <2>1, <2>2, <2>3, RejectedAssumption DEF FetchReturn, StableInv, Stable, Spooled
<1>24. CASE ReportFailure
  <2>1. /\ UNCHANGED <<spool, history, todo, phase>> /\ FetchReturn /\ pc = "report"
        /\ CoreFailure(cur) \/ UNCHANGED core
    BY <1>24 DEF ReportFailure
  <2>2. cur \in Items /\ item[cur] \notin Final /\ phase \in {"fallback", "drain"}
    BY <1>1, <1>2, <2>1 DEF LoopInv
  <2>3. Stable /\ \A j \in Items : item'[j] \in Final => item[j] \in Final
    BY <1>1, <2>1, <2>2 DEF Stable, CoreFailure, TypeOK, Final
  <2> QED BY <2>1, <2>2, <2>3, RejectedAssumption DEF FetchReturn, StableInv, Spooled
<1> QED
  BY <1>5, <1>6, <1>7, <1>8, <1>9, <1>10, <1>11, <1>12, <1>13, <1>14, <1>15, <1>16, <1>17,
     <1>18, <1>19, <1>20, <1>21, <1>22, <1>23, <1>24
  DEF Next, Adapter, Environment, Replay, Poll, Drain, Fetch

\* If no append is cut short and no spool file damaged, what the core has
\* ingested or closed (jma_item) is never reopened by a late report or by a
\* message sent again, whatever crashes, fails and is sent twice.
THEOREM NothingReopened ==
  ASSUME "torn" \notin Faults, "corrupt" \notin Faults
  PROVE  Spec => FinalIsStable
<1>1. Init => HistoryInv /\ StableInv
  BY RejectedAssumption DEF Init, HistoryInv, StableInv, Unsaved, FetchPCs, Final
<1>2. HistoryInv /\ [Next]_vars => HistoryInv'
  BY HistoryNext
<1>3. IInv /\ HistoryInv /\ HistoryInv' /\ StableInv /\ [Next]_vars =>
        /\ StableInv'
        /\ [\A i \in Items : item[i] \in Final => item'[i] \in Final]_vars
  BY StableNext DEF Stable
<1> QED
  BY <1>1, <1>2, <1>3, Inductive, PTL DEF Spec, FinalIsStable

-----------------------------------------------------------------------------
(***************************************************************************)
(* The byte budget: the bound on a day's downloads, for any limit, any     *)
(* size of requests and any number of days, failed writes and crashes.     *)
(***************************************************************************)

\* What byte_budget.json says of this day.
FileCount == IF fileDate = day THEN fileUsed ELSE 0

\* No date lies ahead, and only a request in flight has bytes to count.
ShapeInv ==
    /\ fileDate <= day /\ date <= day
    /\ today <= count /\ count <= Reserved
    /\ stage # "wire" => count = 0 /\ today = 0

\* Memory and file agree while the process works.
MirrorInv ==
    /\ stage = "ready" => UsedToday = FileCount
    /\ stage = "wire" => /\ date = fileDate /\ used = fileUsed
                      /\ Reserved <= used /\ used <= DailyLimit
    /\ FileCount <= DailyLimit

\* Every byte of the day is in the file, in the open reservation, or carried;
\* bytes are carried only once a day.
AccountInv ==
    /\ stage # "wire" => spent <= FileCount + carried
    /\ stage = "wire" /\ fileDate = day => spent + Reserved <= fileUsed + carried + today
    /\ stage = "wire" /\ fileDate # day => spent <= today /\ carried = 0
    /\ carried <= Reserved

BudgetInv == BudgetTypeOK /\ ShapeInv /\ MirrorInv /\ AccountInv

\* The assumptions on the constants.
USE LimitAssumption, ReservedAssumption, OverheadAssumption, DaysAssumption

\* It holds at the start.
LEMMA BudgetInitInv == BudgetInit => BudgetInv
  BY DEF BudgetInit, BudgetInv, BudgetTypeOK, ShapeInv, MirrorInv, AccountInv, FileCount

\* Every step keeps it, provided that the wire never carries more than was
\* reserved.
LEMMA BudgetNextInv ==
  ASSUME Overhead = 0, BudgetInv, [BudgetNext]_budgetVars
  PROVE  BudgetInv'
<1> USE DEF BudgetInv, BudgetTypeOK, ShapeInv, MirrorInv, AccountInv, FileCount, UsedToday,
            budgetVars, file, budget
<1>1. CASE LoadByteBudget
  BY <1>1 DEF LoadByteBudget
<1>2. CASE Reserve
  BY <1>2 DEF Reserve
<1>3. CASE ReserveRefused
  BY <1>3 DEF ReserveRefused
<1>4. CASE ReserveFails
  BY <1>4 DEF ReserveFails, Fault
<1>5. CASE Receive
  BY <1>5 DEF Receive
<1>6. CASE Commit
  <2>1. CommitUsed \in Nat /\ CommitUsed <= DailyLimit
    BY <1>6 DEF Commit, CommitUsed
  <2>2. spent <= CommitUsed + carried
    BY <1>6 DEF Commit, CommitUsed
  <2> QED
    BY <1>6, <2>1, <2>2 DEF Commit
<1>7. CASE CommitFails
  BY <1>7 DEF CommitFails, Fault, Lost
<1>8. CASE Exit
  BY <1>8 DEF Exit
<1>9. CASE Killed
  BY <1>9 DEF Killed, Fault, Lost
<1>10. CASE Midnight
  BY <1>10 DEF Midnight
<1>11. CASE UNCHANGED budgetVars
  BY <1>11
<1> QED
  BY <1>1, <1>2, <1>3, <1>4, <1>5, <1>6, <1>7, <1>8, <1>9, <1>10, <1>11 DEF BudgetNext

\* Store.Reserve and Store.Commit keep a day within its limit, but for one
\* request that was under way at midnight when the process ended; so the limit
\* is passed by at most one reservation.
THEOREM DailyCap ==
  ASSUME Overhead = 0
  PROVE  BudgetSpec => []BoundedOvershoot
<1>1. BudgetInv /\ [BudgetNext]_budgetVars => BudgetInv'
  BY BudgetNextInv
<1>2. BudgetInv => BoundedOvershoot
  BY DEF BudgetInv, BudgetTypeOK, ShapeInv, MirrorInv, AccountInv, FileCount, BoundedOvershoot
<1> QED
  BY BudgetInitInv, <1>1, <1>2, PTL DEF BudgetSpec

=============================================================================
