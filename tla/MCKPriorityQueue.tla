-------------------------- MODULE MCKPriorityQueue --------------------------
(* Instances of KPriorityQueue for model checking.                         *)
EXTENDS KPriorityQueue, TLC

\* Three equal threads, or two of which one is pinned and the other waited for.
EqualOrPinning == {Threads \ (Pinnable \cup Contended), Pinnable \cup Contended}
AllThreads == {Threads}
OneProcess == [t \in Threads |-> "p"]
OwnProcesses == [t \in Threads |-> t]
PreemptLowest == [c \in Cores |-> LowestPriority]
ThreadSymmetry == Permutations(Threads \ (Pinnable \cup Contended))
AllMasks == (SUBSET Cores) \ {{}}

==============================================================================
