----------------------------- MODULE JmaBudget -----------------------------
(***************************************************************************)
(* The daily byte budget of the JMA adapter (state.go, byte_budget.json)   *)
(* and the requests that draw on it (FetchFeed and FetchData of            *)
(* jma_client.go): reserve the worst case, read the response, commit what  *)
(* was read.  Requests are serial; midnight (UTC), a failed write or a     *)
(* crash may fall anywhere in between.                                     *)
(***************************************************************************)
EXTENDS Integers

CONSTANTS
    DailyLimit,   \* JMA_DAILY_BYTE_LIMIT
    Reserved,     \* maxItemBytes + 1
    Overhead,     \* wire bytes of a compressed body above the decoded bound
    MaxDays,      \* bound on the number of days
    MaxFailures     \* bound on the number of failed writes and crashes

ASSUME LimitAssumption == DailyLimit \in Nat
ASSUME ReservedAssumption == Reserved \in Nat
ASSUME OverheadAssumption == Overhead \in Nat
ASSUME DaysAssumption == MaxDays \in Nat \ {0} /\ MaxFailures \in Nat

VARIABLES
    day,        \* the UTC day
    fileDate, fileUsed,    \* byte_budget.json; date 0: no file yet
    date, used,            \* Store.budget
    stage,         \* "down", "ready", "wire" (request in flight), "exit" (latched)
    count,      \* countingReader: bytes of the response in flight
    today,      \* those of them that arrived since midnight
    failures,
    spent,      \* bytes received from JMA this day
    carried     \* bytes of this day whose count ended with a process

budgetVars ==
    <<day, fileDate, fileUsed, date, used, stage, count, today, failures, spent, carried>>

file == <<fileDate, fileUsed>>
budget == <<date, used>>

BudgetTypeOK ==
    /\ day \in 1..MaxDays /\ fileDate \in 0..MaxDays /\ fileUsed \in Nat
    /\ date \in 0..MaxDays /\ used \in Nat
    /\ stage \in {"down", "ready", "wire", "exit"}
    /\ count \in Nat /\ today \in Nat /\ failures \in 0..MaxFailures
    /\ spent \in Nat /\ carried \in Nat

BudgetInit ==
    /\ day = 1 /\ fileDate = 0 /\ fileUsed = 0 /\ date = 0 /\ used = 0
    /\ stage = "down" /\ count = 0 /\ today = 0 /\ failures = 0 /\ spent = 0 /\ carried = 0

Fault == failures < MaxFailures /\ failures' = failures + 1

----------------------------------------------------------------------------
\* loadByteBudget: another day's figures count for nothing; a missing file is
\* written at once.
LoadByteBudget ==
    /\ stage = "down" /\ stage' = "ready"
    /\ date' = day /\ used' = IF fileDate = day THEN fileUsed ELSE 0
    /\ IF fileDate = 0 THEN fileDate' = day /\ fileUsed' = 0 ELSE UNCHANGED file
    /\ UNCHANGED <<day, count, today, failures, spent, carried>>

\* The figure Reserve and Commit start from.
UsedToday == IF date = day THEN used ELSE 0

\* Mutant: the reservation stays in memory until the commit.
ReserveInMemory ==
    /\ stage = "ready" /\ UsedToday + Reserved <= DailyLimit
    /\ stage' = "wire" /\ date' = day /\ used' = UsedToday + Reserved
    /\ UNCHANGED <<day, file, count, today, failures, spent, carried>>

\* Reserve succeeds and the request goes out.
Reserve ==
    /\ stage = "ready" /\ UsedToday + Reserved <= DailyLimit
    /\ stage' = "wire" /\ date' = day /\ used' = UsedToday + Reserved
    /\ fileDate' = date' /\ fileUsed' = used'
    /\ UNCHANGED <<day, count, today, failures, spent, carried>>

\* Reserve refuses: the day's limit would be passed.
ReserveRefused ==
    /\ stage = "ready" /\ UsedToday + Reserved > DailyLimit
    /\ date' = day /\ used' = UsedToday
    /\ UNCHANGED <<day, file, stage, count, today, failures, spent, carried>>

\* Reserve cannot store the reservation: undone, and the controller latches.
ReserveFails ==
    /\ stage = "ready" /\ UsedToday + Reserved <= DailyLimit
    /\ Fault /\ stage' = "exit" /\ date' = day /\ used' = UsedToday
    /\ UNCHANGED <<day, file, count, today, spent, carried>>

\* One unit of the body is read; reading stops at the bound on the decoded
\* body, which compressed framing may exceed on the wire.
Receive ==
    /\ stage = "wire" /\ count < Reserved + Overhead
    /\ count' = count + 1 /\ today' = today + 1 /\ spent' = spent + 1
    /\ UNCHANGED <<day, file, budget, stage, failures, carried>>

\* The new figure, never below zero; across midnight just what was read.
CommitUsed ==
    IF date # day THEN count
    ELSE IF used + count < Reserved THEN 0 ELSE used - Reserved + count

\* Commit(reserved, actual), at any end of the response.
Commit ==
    /\ stage = "wire" /\ stage' = "ready"
    /\ date' = day /\ used' = CommitUsed
    /\ fileDate' = date' /\ fileUsed' = used'
    /\ count' = 0 /\ today' = 0
    /\ UNCHANGED <<day, failures, spent, carried>>

\* What a process that ends with a request in flight takes with it: bytes of
\* this day, when the reservation was made the day before.
Lost == IF stage = "wire" /\ fileDate # day THEN today ELSE 0

\* Commit cannot be stored: undone in memory, and the controller latches.
CommitFails ==
    /\ stage = "wire" /\ Fault
    /\ stage' = "exit" /\ carried' = carried + Lost
    /\ count' = 0 /\ today' = 0
    /\ UNCHANGED <<day, file, budget, spent>>

\* A latched controller ends the process; compose restarts it.
Exit ==
    /\ stage = "exit" /\ stage' = "down" /\ date' = 0 /\ used' = 0
    /\ UNCHANGED <<day, file, count, today, failures, spent, carried>>

Killed ==
    /\ stage # "down" /\ Fault
    /\ stage' = "down" /\ date' = 0 /\ used' = 0 /\ count' = 0 /\ today' = 0
    /\ carried' = carried + Lost
    /\ UNCHANGED <<day, file, spent>>

Midnight ==
    /\ day < MaxDays /\ day' = day + 1
    /\ spent' = 0 /\ today' = 0 /\ carried' = 0
    /\ UNCHANGED <<file, budget, stage, count, failures>>

BudgetNext == \/ LoadByteBudget \/ Reserve \/ ReserveRefused \/ ReserveFails \/ Receive \/ Commit
        \/ CommitFails \/ Exit \/ Killed \/ Midnight
BudgetSpec == BudgetInit /\ [][BudgetNext]_budgetVars

----------------------------------------------------------------------------
\* What the code guarantees when a response is never longer on the wire than
\* its reservation: a day exceeds its limit at most by what one request,
\* reserved the day before, brought after midnight and no commit recorded.
BoundedOvershoot == spent <= DailyLimit + carried /\ carried <= Reserved

=============================================================================
