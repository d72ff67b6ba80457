---------------------------- MODULE WindowPoller ----------------------------
(***************************************************************************)
(* What an adapter promises that asks a source, again and again, for what  *)
(* changed within a window of time and keeps nothing of its own: a change  *)
(* is stored, unless the poll that should have brought it began later than *)
(* a whole window after the previous complete one.                         *)
(***************************************************************************)
EXTENDS Naturals

CONSTANTS
    Events,     \* what the source lists
    Window      \* how far back a poll asks

VARIABLES
    status,     \* of the last change of each event
    idle,       \* the time since the last complete poll began, up to Window + 1
    elapsed,    \* the time since this poll began, up to Window + 1
    late        \* this poll began more than a window after that one

vars == <<status, idle, elapsed, late>>

Later(t) == IF t > Window THEN t ELSE t + 1

Init ==
    /\ status = [e \in Events |-> "new"]
    /\ idle = Window + 1 /\ elapsed = 0
    /\ late = FALSE

\* The source changes an event.
Publish(e) ==
    /\ status' = [status EXCEPT ![e] = "new"]
    /\ UNCHANGED <<idle, elapsed, late>>

\* Some of the changes are stored, as part of a poll that may yet fail.
Store(S) ==
    /\ status' = [e \in Events |-> IF e \in S THEN "stored" ELSE status[e]]
    /\ UNCHANGED <<idle, elapsed, late>>

\* A poll begins; one that asks for everything is never late.
Begin ==
    /\ elapsed' = 0
    /\ late' \in {FALSE, idle > Window}
    /\ UNCHANGED <<status, idle>>

\* A poll is complete.  Only a late one may overlook changes.
Complete(S) ==
    /\ S # {} => late
    /\ \A e \in S : status[e] = "new"
    /\ status' = [e \in Events |-> IF e \in S THEN "overlooked" ELSE status[e]]
    /\ idle' = elapsed
    /\ UNCHANGED <<elapsed, late>>

Pass ==
    /\ idle' = Later(idle) /\ elapsed' = Later(elapsed)
    /\ UNCHANGED <<status, late>>

Next ==
    \/ \E e \in Events : Publish(e)
    \/ \E S \in SUBSET Events : Store(S) \/ Complete(S)
    \/ Begin
    \/ Pass

Spec == Init /\ [][Next]_vars
=============================================================================
