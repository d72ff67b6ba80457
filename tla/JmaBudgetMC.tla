---------------------------- MODULE JmaBudgetMC ----------------------------
(* Limits small enough that a day's budget is used up by a few requests.    *)
EXTENDS JmaBudget

=============================================================================
