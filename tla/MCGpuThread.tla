---------------------------- MODULE MCGpuThread ----------------------------
(***************************************************************************)
(* The configurations of the model of GpuThread: commands and requests     *)
(* without fences, without and with a stop; fences of both kinds of        *)
(* renderer in one list; and the destruction of a fence manager.           *)
(***************************************************************************)
EXTENDS GpuThread

Budget(async, check, mayStop, calls, nFences, operations) ==
    [is_async |-> async, can_async_check |-> check, stop |-> mayStop,
     calls |-> calls, fences |-> nFences, operations |-> operations]

MCBudgets ==
    {Budget(async, FALSE, FALSE, 3, 0, 0) : async \in BOOLEAN}
      \union {Budget(async, FALSE, TRUE, 2, 0, 0) : async \in BOOLEAN}
      \union {Budget(TRUE, check, FALSE, 1, 2, 2) : check \in BOOLEAN}
      \union {Budget(TRUE, TRUE, TRUE, 1, 1, 1)}
(***************************************************************************)
(* Only synchronous calls, and only the destruction of a fence manager:    *)
(* for the two observations of the README.                                 *)
(***************************************************************************)
MCSyncBudgets == {Budget(FALSE, FALSE, FALSE, 3, 0, 0)}
MCDestroyBudgets == {Budget(TRUE, TRUE, TRUE, 0, 0, 0)}
=============================================================================
