-------------------------- MODULE CapHostLimiterMC --------------------------
(* Two callers share a host, the others have hosts of their own.             *)
EXTENDS CapHostLimiter

CONSTANTS p1, p2, p3, p4, h1, h2, h3

MCHostOf == [p \in Callers |-> IF p \in {p1, p2} THEN h1 ELSE IF p = p3 THEN h2 ELSE h3]

=============================================================================
