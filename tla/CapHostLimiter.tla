--------------------------- MODULE CapHostLimiter ---------------------------
(***************************************************************************)
(* The CAP adapter's HostLimiter (cap_adapter/app/adapter/limiter.go) and  *)
(* the goroutines that call it: pollRAA, pollSingleFeed and fetchSingleCAP *)
(* all bracket one HTTP request with Wait(host) and Done(host).  A redirect *)
(* that the HTTP client follows stays within its bracket and is not seen.   *)
(*                                                                         *)
(* Time is kept as what the code compares: how long ago a request ended,   *)
(* up to minHostInterval, and how much of a sleep is left.                 *)
(***************************************************************************)
EXTENDS Naturals, FiniteSets

CONSTANTS
    Callers,          \* goroutines
    Hosts,
    HostOf,           \* Callers -> Hosts: the host a caller passes to Wait
    MinHostInterval,  \* minHostInterval, in ticks
    MaxParallelHosts  \* capacity of globalSem

ASSUME CallersAssumption == IsFiniteSet(Callers) /\ HostOf \in [Callers -> Hosts]
ASSUME LimitsAssumption == MinHostInterval \in Nat /\ MaxParallelHosts \in Nat \ {0}

VARIABLES
    pc,       \* of each caller
    sem,      \* hostState.sem: hosts whose slot is taken
    slots,    \* tokens in globalSem
    elapsed,  \* time since hostState.lastEnd, at most MinHostInterval
    left,     \* of each caller: what remains of its sleep
    quiet     \* time since the last request to a host really ended

limiterVars == <<pc, sem, slots, elapsed, left, quiet>>

Interval == 0..MinHostInterval
Waiting == {"held", "sleep", "slot"}
Holding == Waiting \cup {"request", "stamp", "release"}
Up(n) == IF n < MinHostInterval THEN n + 1 ELSE n
Down(n) == IF n > 0 THEN n - 1 ELSE n

Running == {p \in Callers : pc[p] = "request"}

LimiterTypeOK ==
    /\ pc \in [Callers -> {"idle", "want"} \cup Holding]
    /\ sem \subseteq Hosts /\ slots \in 0..MaxParallelHosts
    /\ elapsed \in [Hosts -> Interval] /\ left \in [Callers -> Interval]
    /\ quiet \in [Hosts -> Interval]

\* A host that was never asked is as good as one left alone long enough.
LimiterInit ==
    /\ pc = [p \in Callers |-> "idle"] /\ sem = {} /\ slots = 0
    /\ elapsed = [h \in Hosts |-> MinHostInterval]
    /\ left = [p \in Callers |-> 0]
    /\ quiet = [h \in Hosts |-> MinHostInterval]

----------------------------------------------------------------------------
(* Wait.                                                                   *)

Call(p) ==
    /\ pc[p] = "idle" /\ pc' = [pc EXCEPT ![p] = "want"]
    /\ UNCHANGED <<sem, slots, elapsed, left, quiet>>

\* Mutant: the host is taken without waiting for it.
AcquireHostAnyway(p) ==
    /\ pc[p] = "want"
    /\ sem' = sem \cup {HostOf[p]} /\ pc' = [pc EXCEPT ![p] = "held"]
    /\ UNCHANGED <<slots, elapsed, left, quiet>>

\* hs.sem <- struct{}{}
AcquireHost(p) ==
    /\ pc[p] = "want" /\ HostOf[p] \notin sem
    /\ sem' = sem \cup {HostOf[p]} /\ pc' = [pc EXCEPT ![p] = "held"]
    /\ UNCHANGED <<slots, elapsed, left, quiet>>

\* The wait is computed from lastEnd under hs.mu.
ReadClock(p) ==
    /\ pc[p] = "held"
    /\ left' = [left EXCEPT ![p] = MinHostInterval - elapsed[HostOf[p]]]
    /\ pc' = [pc EXCEPT ![p] = IF left'[p] > 0 THEN "sleep" ELSE "slot"]
    /\ UNCHANGED <<sem, slots, elapsed, quiet>>

Wake(p) ==
    /\ pc[p] = "sleep" /\ left[p] = 0 /\ pc' = [pc EXCEPT ![p] = "slot"]
    /\ UNCHANGED <<sem, slots, elapsed, left, quiet>>

\* Mutant: the semaphore admits one request too many.
AcquireSlotUnbounded(p) ==
    /\ pc[p] = "slot" /\ slots <= MaxParallelHosts
    /\ slots' = slots + 1 /\ pc' = [pc EXCEPT ![p] = "request"]
    /\ UNCHANGED <<sem, elapsed, left, quiet>>

\* hl.globalSem <- struct{}{}; Wait returns and the request is made.
AcquireSlot(p) ==
    /\ pc[p] = "slot" /\ slots < MaxParallelHosts
    /\ slots' = slots + 1 /\ pc' = [pc EXCEPT ![p] = "request"]
    /\ UNCHANGED <<sem, elapsed, left, quiet>>

\* Mutant: a cancelled sleep keeps the host.
CancelKeepsHost(p) ==
    /\ \/ pc[p] = "want" /\ UNCHANGED sem
       \/ pc[p] = "sleep" /\ UNCHANGED sem
       \/ pc[p] = "slot" /\ sem' = sem \ {HostOf[p]}
    /\ pc' = [pc EXCEPT ![p] = "idle"] /\ left' = [left EXCEPT ![p] = 0]
    /\ UNCHANGED <<slots, elapsed, quiet>>

\* Mutant: a caller whose Wait failed calls Done all the same.
CancelThenDone(p) ==
    /\ \/ pc[p] = "want" /\ UNCHANGED sem
       \/ pc[p] \in {"sleep", "slot"} /\ sem' = sem \ {HostOf[p]}
    /\ pc' = [pc EXCEPT ![p] = "idle"] /\ left' = [left EXCEPT ![p] = 0]
    /\ slots' = Down(slots)
    /\ UNCHANGED <<elapsed, quiet>>

\* ctx.Done() in any of Wait's three blocking places.
Cancel(p) ==
    /\ \/ pc[p] = "want" /\ UNCHANGED sem
       \/ pc[p] \in {"sleep", "slot"} /\ sem' = sem \ {HostOf[p]}
    /\ pc' = [pc EXCEPT ![p] = "idle"] /\ left' = [left EXCEPT ![p] = 0]
    /\ UNCHANGED <<slots, elapsed, quiet>>

----------------------------------------------------------------------------
(* The request and Done.                                                   *)

\* Mutant: Done gives the host back before it records the end.
EndRequestFreesHost(p) ==
    /\ pc[p] = "request" /\ pc' = [pc EXCEPT ![p] = "stamp"]
    /\ slots' = Down(slots) /\ quiet' = [quiet EXCEPT ![HostOf[p]] = 0]
    /\ sem' = sem \ {HostOf[p]}
    /\ UNCHANGED <<elapsed, left>>

\* The body is read (or the request failed); Done frees the global slot, if
\* one is taken ...
EndRequest(p) ==
    /\ pc[p] = "request" /\ pc' = [pc EXCEPT ![p] = "stamp"]
    /\ slots' = Down(slots) /\ quiet' = [quiet EXCEPT ![HostOf[p]] = 0]
    /\ UNCHANGED <<sem, elapsed, left>>

\* ... records lastEnd ...
Stamp(p) ==
    /\ pc[p] = "stamp" /\ pc' = [pc EXCEPT ![p] = "release"]
    /\ elapsed' = [elapsed EXCEPT ![HostOf[p]] = 0]
    /\ UNCHANGED <<sem, slots, left, quiet>>

\* ... and frees the host.
ReleaseHost(p) ==
    /\ pc[p] = "release" /\ pc' = [pc EXCEPT ![p] = "idle"]
    /\ sem' = sem \ {HostOf[p]}
    /\ UNCHANGED <<slots, elapsed, left, quiet>>

----------------------------------------------------------------------------
Tick ==
    /\ elapsed' = [h \in Hosts |-> Up(elapsed[h])]
    /\ quiet' = [h \in Hosts |-> Up(quiet[h])]
    /\ left' = [p \in Callers |-> Down(left[p])]
    /\ UNCHANGED <<pc, sem, slots>>

LimiterNext == \/ Tick
        \/ \E p \in Callers :
              \/ Call(p) \/ AcquireHost(p) \/ ReadClock(p) \/ Wake(p) \/ AcquireSlot(p)
              \/ Cancel(p) \/ EndRequest(p) \/ Stamp(p) \/ ReleaseHost(p)

LimiterSpec == LimiterInit /\ [][LimiterNext]_limiterVars

(* Go schedules every runnable goroutine and serves the senders blocked on a *)
(* channel in order; a request ends by the client's timeout.                 *)
LimiterFairness ==
    /\ WF_limiterVars(Tick)
    /\ \A p \in Callers :
          /\ SF_limiterVars(AcquireHost(p)) /\ SF_limiterVars(AcquireSlot(p))
          /\ WF_limiterVars(ReadClock(p)) /\ WF_limiterVars(Wake(p))
          /\ WF_limiterVars(EndRequest(p)) /\ WF_limiterVars(Stamp(p))
          /\ WF_limiterVars(ReleaseHost(p))
LimiterLiveSpec == LimiterSpec /\ LimiterFairness

----------------------------------------------------------------------------
\* "One in-flight request per host."
OnePerHost == \A p, q \in Running : HostOf[p] = HostOf[q] => p = q

\* "At most maxParallelHosts distinct hosts in flight concurrently."
MaxParallel == Cardinality(Running) <= MaxParallelHosts

\* "At least minHostInterval between the end of one request and the start of
\* the next to the same host", whoever made the two.
MinGap == [][\A p \in Callers :
                pc[p] # "request" /\ pc'[p] = "request"
                   => quiet[HostOf[p]] = MinHostInterval]_limiterVars

\* A caller of Wait makes its request, unless its context ends first: no host
\* or global slot is leaked.
Served == \A p \in Callers : pc[p] = "want" ~> pc[p] \in {"request", "idle"}

=============================================================================
