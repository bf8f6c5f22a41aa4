------------------------ MODULE MCKConditionVariable ------------------------
(* Model values and priorities for checking KConditionVariable.            *)
EXTENDS KConditionVariable

CONSTANTS t1, t2, t3, t4

\* t1 is the least urgent thread, t3 the most urgent one.
MCPriority ==
  [t \in GuestThreads |-> IF t = t1 THEN 3 ELSE IF t = t2 THEN 2 ELSE 1]

=============================================================================
