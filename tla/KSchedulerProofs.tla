-------------------------- MODULE KSchedulerProofs --------------------------
(***************************************************************************)
(* For any number of cores and threads: no thread is executed by two cores,*)
(* no rescheduling request is lost, a thread that has exited never gets    *)
(* past the release of the scheduler lock, and a thread whose termination  *)
(* is finished is gone from every core.                                    *)
(*                                                                         *)
(* The properties rest on each other.  OneCorePerThread follows from who   *)
(* holds which context guard (GuardInv).  ExitNeverReturns needs that a    *)
(* core that is about to test needs_scheduling finds it set when its thread*)
(* is not the chosen one (FlagInv), and that the only dead thread a core   *)
(* can still be told to run is the one whose exit is under way (DeadInv);  *)
(* that one is kept from other cores by its guard, which is never released.*)
(***************************************************************************)
EXTENDS KScheduler, KHardwareTimer, WellFoundedInduction, TLAPS

\* The lock has one owner; a half-written update belongs to it; a host thread
\* never switches.
LockInv ==
  /\ \A a \in Actors : pc[a] = "update" <=> owner = a
  /\ written # Nobody => owner # Nobody
  /\ pc[Host] \in {"run", "update", "ipi"}

\* The context whose guard a core holds.
Held(c) == IF pc[c] \in Executing THEN current[c]
           ELSE IF pc[c] \in {"switch", "verify"} THEN next[c] ELSE Nobody

\* Guards: what a core holds is locked, is held by it alone, and a dead
\* thread's guard stays locked.
GuardInv ==
  /\ \A c \in Cores : Held(c) \in Contexts => guard[Held(c)]
  /\ \A c, d \in Cores : c # d /\ Held(c) = Held(d) => Held(c) \notin Contexts
  /\ \A t \in terminated : guard[t]
  /\ \A c \in Cores : pc[c] \in {"switch", "verify"} => next[c] \notin terminated
  /\ \A c \in Cores : pc[c] = "verify" => current[c] = next[c]

\* needs_scheduling is set, or is about to be, whenever the core's choice is
\* not the thread it executes, or not the one it is switching to.
FlagInv ==
  \A c \in Cores :
    /\ pc[c] \in {"run", "update", "ipi"} /\ current[c] # Wanted(c)
         => needs[c] \/ written = c
    /\ pc[c] \in {"unload", "try", "check", "switch", "verify"} /\ next[c] # Wanted(c)
         => needs[c] \/ written = c

\* Dead threads: never chosen anew; still the choice of a core only while the
\* exiting core holds the lock; and the exiting core has been told to go.
DeadInv ==
  /\ \A c \in Cores : top[c] \notin terminated
  /\ \A c \in Cores : highest[c] \in terminated
                        => owner \in Cores /\ highest[c] = current[owner]
  /\ \A c \in Cores : pc[c] = "ipi" /\ current[c] \in terminated => needs[c]
  /\ ExitNeverReturns

\* What FinishTermination has found out stays true.
ScanInv ==
  \A t \in Threads :
    /\ scanned[t] > 0 => t \in terminated
    /\ \A c \in Cores : c < scanned[t] => current[c] # t

IInv == TypeOK /\ LockInv /\ GuardInv /\ FlagInv /\ DeadInv /\ ScanInv /\ RescheduleNotLost

\* Cores, the host and nobody are different actors.
LEMMA Distinct ==
  /\ Host \notin Cores /\ Nobody \notin Actors /\ Nobody \notin Contexts
  /\ Nobody \notin Cores /\ Main \notin Contexts /\ Main # Nobody
  /\ \A c \in Cores : c \in Contexts /\ c \notin Threads
BY SchedulerAssumption DEF Actors, Contexts

\* Types are kept by every step.
LEMMA TypeStep ==
  ASSUME TypeOK, [Next]_vars
  PROVE  TypeOK'
<1> USE SchedulerAssumption, Distinct
<1>1. ASSUME NEW a \in Actors, ChangeThreads(a) PROVE TypeOK'
  BY <1>1 DEF ChangeThreads, Lock, TypeOK, Goto, Executing, coreVars, Tops
<1>2. ASSUME NEW c \in Cores, Exit(c) PROVE TypeOK'
  BY <1>2 DEF Exit, Lock, TypeOK, Goto, Actors, Executing, coreVars, Tops
<1>3. ASSUME NEW t \in Threads, FinishTermination(t) PROVE TypeOK'
  BY <1>3 DEF FinishTermination, TypeOK, Goto, lockVars, coreVars
<1>4. ASSUME NEW a \in Actors, NEW c \in Cores, WriteHighest(a, c) PROVE TypeOK'
  BY <1>4 DEF WriteHighest, TypeOK, Goto, lockVars, coreVars
<1>5. ASSUME NEW a \in Actors, NEW c \in Cores, MarkNeeds(a, c) PROVE TypeOK'
  BY <1>5 DEF MarkNeeds, TypeOK, Goto, lockVars
<1>6. ASSUME NEW a \in Actors, NEW c \in Cores, Migrate(a, c) PROVE TypeOK'
  BY <1>6 DEF Migrate, TypeOK, Goto, coreVars
<1>7. ASSUME NEW a \in Actors, Unlock(a) PROVE TypeOK'
  BY <1>7 DEF Unlock, TypeOK, Goto, Executing, coreVars
<1>8. ASSUME NEW a \in Actors, NEW c \in Cores, Interrupt(a, c) PROVE TypeOK'
  BY <1>8 DEF Interrupt, TypeOK, Goto, lockVars
<1>9. ASSUME NEW c \in Cores, RescheduleCurrentCore(c) PROVE TypeOK'
  BY <1>9 DEF RescheduleCurrentCore, TypeOK, Goto, Executing, lockVars, coreVars
<1>10. ASSUME RescheduleHost PROVE TypeOK'
  BY <1>10 DEF RescheduleHost, TypeOK, Goto, Executing, lockVars, coreVars
<1>11. ASSUME NEW c \in Cores, ClearInterrupt(c) PROVE TypeOK'
  BY <1>11 DEF ClearInterrupt, TypeOK, Goto, Executing, lockVars
<1>12. ASSUME NEW c \in Cores, RequestScheduleOnInterrupt(c) PROVE TypeOK'
  BY <1>12 DEF RequestScheduleOnInterrupt, TypeOK, Goto, Executing, lockVars
<1>13. ASSUME NEW c \in Cores, ClearNeeds(c) PROVE TypeOK'
  BY <1>13 DEF ClearNeeds, TypeOK, Goto, Executing, Switching, lockVars
<1>14. ASSUME NEW c \in Cores, LoadHighest(c) PROVE TypeOK'
  BY <1>14 DEF LoadHighest, TypeOK, Goto, Contexts, Executing, lockVars, Wanted
<1>15. ASSUME NEW c \in Cores, Unload(c) PROVE TypeOK'
  BY <1>15 DEF Unload, TypeOK, Goto, Switching, lockVars
<1>16. ASSUME NEW c \in Cores, TryLock(c) PROVE TypeOK'
  BY <1>16 DEF TryLock, TypeOK, Goto, Switching, lockVars
<1>17. ASSUME NEW c \in Cores, CheckNeeds(c) PROVE TypeOK'
  BY <1>17 DEF CheckNeeds, TypeOK, Goto, Switching, lockVars
<1>18. ASSUME NEW c \in Cores, SwitchThread(c) PROVE TypeOK'
  BY <1>18 DEF SwitchThread, TypeOK, Goto, Switching, lockVars
<1>19. ASSUME NEW c \in Cores, CompleteSwitch(c) PROVE TypeOK'
  BY <1>19 DEF CompleteSwitch, TypeOK, Goto, Executing, Switching, lockVars
<1>20. ASSUME NEW c \in Cores, ReloadHighest(c) PROVE TypeOK'
  BY <1>20 DEF ReloadHighest, TypeOK, Goto, Contexts, Switching, lockVars, Wanted
<1>21. ASSUME UNCHANGED vars PROVE TypeOK'
  BY <1>21 DEF vars, TypeOK, lockVars, coreVars
<1> QED
  BY <1>1, <1>2, <1>3, <1>4, <1>5, <1>6, <1>7, <1>8, <1>9, <1>10, <1>11, <1>12, <1>13,
     <1>14, <1>15, <1>16, <1>17, <1>18, <1>19, <1>20, <1>21
     DEF Next, Release, Schedule, UpdateHighestPriorityThread

\* So is the ownership of the lock.
LEMMA LockStep ==
  ASSUME TypeOK, LockInv, [Next]_vars
  PROVE  LockInv'
<1> USE SchedulerAssumption, Distinct
<1>1. ASSUME NEW a \in Actors, ChangeThreads(a) PROVE LockInv'
  BY <1>1 DEF ChangeThreads, Lock, TypeOK, LockInv, Goto
<1>2. ASSUME NEW c \in Cores, Exit(c) PROVE LockInv'
  BY <1>2 DEF Exit, Lock, TypeOK, LockInv, Goto
<1>3. ASSUME NEW t \in Threads, FinishTermination(t) PROVE LockInv'
  BY <1>3 DEF FinishTermination, TypeOK, LockInv, Goto, lockVars
<1>4. ASSUME NEW a \in Actors, NEW c \in Cores, WriteHighest(a, c) PROVE LockInv'
  BY <1>4 DEF WriteHighest, TypeOK, LockInv, Goto, lockVars
<1>5. ASSUME NEW a \in Actors, NEW c \in Cores, MarkNeeds(a, c) PROVE LockInv'
  BY <1>5 DEF MarkNeeds, TypeOK, LockInv, Goto, lockVars
<1>6. ASSUME NEW a \in Actors, NEW c \in Cores, Migrate(a, c) PROVE LockInv'
  BY <1>6 DEF Migrate, TypeOK, LockInv, Goto
<1>7. ASSUME NEW a \in Actors, Unlock(a) PROVE LockInv'
  BY <1>7 DEF Unlock, TypeOK, LockInv, Goto
<1>8. ASSUME NEW a \in Actors, NEW c \in Cores, Interrupt(a, c) PROVE LockInv'
  BY <1>8 DEF Interrupt, TypeOK, LockInv, Goto, lockVars
<1>9. ASSUME NEW c \in Cores, RescheduleCurrentCore(c) PROVE LockInv'
  BY <1>9 DEF RescheduleCurrentCore, TypeOK, LockInv, Goto, lockVars
<1>10. ASSUME RescheduleHost PROVE LockInv'
  BY <1>10 DEF RescheduleHost, TypeOK, LockInv, Goto, lockVars
<1>11. ASSUME NEW c \in Cores, ClearInterrupt(c) PROVE LockInv'
  BY <1>11 DEF ClearInterrupt, TypeOK, LockInv, Goto, lockVars
<1>12. ASSUME NEW c \in Cores, RequestScheduleOnInterrupt(c) PROVE LockInv'
  BY <1>12 DEF RequestScheduleOnInterrupt, TypeOK, LockInv, Goto, lockVars
<1>13. ASSUME NEW c \in Cores, ClearNeeds(c) PROVE LockInv'
  BY <1>13 DEF ClearNeeds, TypeOK, LockInv, Goto, lockVars
<1>14. ASSUME NEW c \in Cores, LoadHighest(c) PROVE LockInv'
  BY <1>14 DEF LoadHighest, TypeOK, LockInv, Goto, lockVars
<1>15. ASSUME NEW c \in Cores, Unload(c) PROVE LockInv'
  BY <1>15 DEF Unload, TypeOK, LockInv, Goto, lockVars
<1>16. ASSUME NEW c \in Cores, TryLock(c) PROVE LockInv'
  BY <1>16 DEF TryLock, TypeOK, LockInv, Goto, lockVars
<1>17. ASSUME NEW c \in Cores, CheckNeeds(c) PROVE LockInv'
  BY <1>17 DEF CheckNeeds, TypeOK, LockInv, Goto, lockVars
<1>18. ASSUME NEW c \in Cores, SwitchThread(c) PROVE LockInv'
  BY <1>18 DEF SwitchThread, TypeOK, LockInv, Goto, lockVars
<1>19. ASSUME NEW c \in Cores, CompleteSwitch(c) PROVE LockInv'
  BY <1>19 DEF CompleteSwitch, TypeOK, LockInv, Goto, lockVars
<1>20. ASSUME NEW c \in Cores, ReloadHighest(c) PROVE LockInv'
  BY <1>20 DEF ReloadHighest, TypeOK, LockInv, Goto, lockVars
<1>21. ASSUME UNCHANGED vars PROVE LockInv'
  BY <1>21 DEF vars, TypeOK, LockInv, lockVars
<1> QED
  BY <1>1, <1>2, <1>3, <1>4, <1>5, <1>6, <1>7, <1>8, <1>9, <1>10, <1>11, <1>12, <1>13,
     <1>14, <1>15, <1>16, <1>17, <1>18, <1>19, <1>20, <1>21
     DEF Next, Release, Schedule, UpdateHighestPriorityThread

\* The guards: TryLock takes only what nobody holds, Exit kills only what its own core holds.
LEMMA GuardStep ==
  ASSUME TypeOK, LockInv, GuardInv, DeadInv, [Next]_vars
  PROVE  GuardInv'
<1> USE SchedulerAssumption, Distinct
<1>1. ASSUME NEW a \in Actors, ChangeThreads(a) PROVE GuardInv'
  BY <1>1 DEF ChangeThreads, Lock, TypeOK, LockInv, GuardInv, Held, Goto, Executing,
              coreVars
<1>2. ASSUME NEW c \in Cores, Exit(c) PROVE GuardInv'
  BY <1>2 DEF Exit, Lock, TypeOK, LockInv, GuardInv, Held, Goto, Contexts, Executing,
              coreVars
<1>3. ASSUME NEW t \in Threads, FinishTermination(t) PROVE GuardInv'
  BY <1>3 DEF FinishTermination, TypeOK, LockInv, GuardInv, Held, Goto, lockVars, coreVars
<1>4. ASSUME NEW a \in Actors, NEW c \in Cores, WriteHighest(a, c) PROVE GuardInv'
  BY <1>4 DEF WriteHighest, TypeOK, LockInv, GuardInv, Held, Goto, lockVars, coreVars
<1>5. ASSUME NEW a \in Actors, NEW c \in Cores, MarkNeeds(a, c) PROVE GuardInv'
  BY <1>5 DEF MarkNeeds, TypeOK, LockInv, GuardInv, Held, Goto, lockVars
<1>6. ASSUME NEW a \in Actors, NEW c \in Cores, Migrate(a, c) PROVE GuardInv'
  BY <1>6 DEF Migrate, TypeOK, LockInv, GuardInv, Held, Goto, coreVars
<1>7. ASSUME NEW a \in Actors, Unlock(a) PROVE GuardInv'
  BY <1>7 DEF Unlock, TypeOK, LockInv, GuardInv, Held, Goto, Executing, coreVars
<1>8. ASSUME NEW a \in Actors, NEW c \in Cores, Interrupt(a, c) PROVE GuardInv'
  BY <1>8 DEF Interrupt, TypeOK, LockInv, GuardInv, Held, Goto, lockVars
<1>9. ASSUME NEW c \in Cores, RescheduleCurrentCore(c) PROVE GuardInv'
  BY <1>9 DEF RescheduleCurrentCore, TypeOK, LockInv, GuardInv, Held, Goto, Executing,
              lockVars, coreVars
<1>10. ASSUME RescheduleHost PROVE GuardInv'
  BY <1>10 DEF RescheduleHost, TypeOK, LockInv, GuardInv, Held, Goto, lockVars, coreVars
<1>11. ASSUME NEW c \in Cores, ClearInterrupt(c) PROVE GuardInv'
  BY <1>11 DEF ClearInterrupt, TypeOK, LockInv, GuardInv, Held, Goto, Executing, lockVars
<1>12. ASSUME NEW c \in Cores, RequestScheduleOnInterrupt(c) PROVE GuardInv'
  BY <1>12 DEF RequestScheduleOnInterrupt, TypeOK, LockInv, GuardInv, Held, Goto, Executing,
               lockVars
<1>13. ASSUME NEW c \in Cores, ClearNeeds(c) PROVE GuardInv'
  BY <1>13 DEF ClearNeeds, TypeOK, LockInv, GuardInv, Held, Goto, Executing, lockVars
<1>14. ASSUME NEW c \in Cores, LoadHighest(c) PROVE GuardInv'
  BY <1>14 DEF LoadHighest, TypeOK, LockInv, GuardInv, Held, Goto, Executing, lockVars
<1>15. ASSUME NEW c \in Cores, Unload(c) PROVE GuardInv'
  <2>1. /\ pc' = [pc EXCEPT ![c] = "try"]
        /\ UNCHANGED <<current, next, terminated>>
    BY <1>15 DEF Unload, Goto, lockVars
  <2>2. Held(c)' = Nobody
    BY <2>1 DEF Held, Executing, TypeOK, Actors
  <2>3. \A d \in Cores : d # c => Held(d)' = Held(d)
    BY <2>1 DEF Held, TypeOK, Actors
  <2>4. \A d \in Cores : d # c /\ Held(d) \in Contexts => guard'[Held(d)]
    <3> SUFFICES ASSUME NEW d \in Cores, d # c, Held(d) \in Contexts
                 PROVE  guard'[Held(d)]
      OBVIOUS
    <3>1. Held(c) = current[c]
      BY <1>15 DEF Unload, Held, Executing
    <3>2. Held(d) # current[c]
      BY <3>1 DEF GuardInv
    <3> QED BY <1>15, <3>2 DEF Unload, GuardInv
  <2>5. \A t \in terminated : guard'[t]
    BY <1>15 DEF Unload, GuardInv, TypeOK, Contexts
  <2> QED BY <2>1, <2>2, <2>3, <2>4, <2>5 DEF GuardInv, TypeOK, Actors
<1>16. ASSUME NEW c \in Cores, TryLock(c) PROVE GuardInv'
  BY <1>16 DEF TryLock, TypeOK, LockInv, GuardInv, Held, Goto, Executing, lockVars
<1>17. ASSUME NEW c \in Cores, CheckNeeds(c) PROVE GuardInv'
  BY <1>17 DEF CheckNeeds, TypeOK, LockInv, GuardInv, Held, Goto, Executing, lockVars
<1>18. ASSUME NEW c \in Cores, SwitchThread(c) PROVE GuardInv'
  BY <1>18 DEF SwitchThread, TypeOK, LockInv, GuardInv, Held, Goto, Executing, lockVars
<1>19. ASSUME NEW c \in Cores, CompleteSwitch(c) PROVE GuardInv'
  BY <1>19 DEF CompleteSwitch, TypeOK, LockInv, GuardInv, Held, Goto, Actors, Executing,
               lockVars
<1>20. ASSUME NEW c \in Cores, ReloadHighest(c) PROVE GuardInv'
  BY <1>20 DEF ReloadHighest, TypeOK, LockInv, GuardInv, Held, Goto, Executing, lockVars
<1>21. ASSUME UNCHANGED vars PROVE GuardInv'
  BY <1>21 DEF vars, TypeOK, LockInv, GuardInv, Held, lockVars, coreVars
<1> QED
  BY <1>1, <1>2, <1>3, <1>4, <1>5, <1>6, <1>7, <1>8, <1>9, <1>10, <1>11, <1>12, <1>13,
     <1>14, <1>15, <1>16, <1>17, <1>18, <1>19, <1>20, <1>21
     DEF Next, Release, Schedule, UpdateHighestPriorityThread

\* The flag: WriteHighest leaves the mark to MarkNeeds, ClearNeeds comes before the look.
LEMMA FlagStep ==
  ASSUME TypeOK, LockInv, GuardInv, FlagInv, [Next]_vars
  PROVE  FlagInv'
<1> USE SchedulerAssumption, Distinct
<1>1. ASSUME NEW a \in Actors, ChangeThreads(a) PROVE FlagInv'
  BY <1>1 DEF ChangeThreads, Lock, TypeOK, LockInv, FlagInv, GuardInv, Goto, Wanted,
              coreVars
<1>2. ASSUME NEW c \in Cores, Exit(c) PROVE FlagInv'
  BY <1>2 DEF Exit, Lock, TypeOK, LockInv, FlagInv, GuardInv, Goto, Wanted, coreVars
<1>3. ASSUME NEW t \in Threads, FinishTermination(t) PROVE FlagInv'
  BY <1>3 DEF FinishTermination, TypeOK, LockInv, FlagInv, GuardInv, Goto, Wanted, coreVars
<1>4. ASSUME NEW a \in Actors, NEW c \in Cores, WriteHighest(a, c) PROVE FlagInv'
  BY <1>4 DEF WriteHighest, TypeOK, LockInv, FlagInv, GuardInv, Goto, Wanted, coreVars
<1>5. ASSUME NEW a \in Actors, NEW c \in Cores, MarkNeeds(a, c) PROVE FlagInv'
  BY <1>5 DEF MarkNeeds, TypeOK, LockInv, FlagInv, GuardInv, Goto, Wanted
<1>6. ASSUME NEW a \in Actors, NEW c \in Cores, Migrate(a, c) PROVE FlagInv'
  BY <1>6 DEF Migrate, TypeOK, LockInv, FlagInv, GuardInv, Goto, Wanted, coreVars
<1>7. ASSUME NEW a \in Actors, Unlock(a) PROVE FlagInv'
  BY <1>7 DEF Unlock, TypeOK, LockInv, FlagInv, GuardInv, Goto, Wanted, coreVars
<1>8. ASSUME NEW a \in Actors, NEW c \in Cores, Interrupt(a, c) PROVE FlagInv'
  BY <1>8 DEF Interrupt, TypeOK, LockInv, FlagInv, GuardInv, Goto, Wanted
<1>9. ASSUME NEW c \in Cores, RescheduleCurrentCore(c) PROVE FlagInv'
  BY <1>9 DEF RescheduleCurrentCore, TypeOK, LockInv, FlagInv, GuardInv, Goto, Wanted,
              coreVars
<1>10. ASSUME RescheduleHost PROVE FlagInv'
  BY <1>10 DEF RescheduleHost, TypeOK, LockInv, FlagInv, GuardInv, Goto, Wanted, coreVars
<1>11. ASSUME NEW c \in Cores, ClearInterrupt(c) PROVE FlagInv'
  BY <1>11 DEF ClearInterrupt, TypeOK, LockInv, FlagInv, GuardInv, Goto, Wanted
<1>12. ASSUME NEW c \in Cores, RequestScheduleOnInterrupt(c) PROVE FlagInv'
  BY <1>12 DEF RequestScheduleOnInterrupt, TypeOK, LockInv, FlagInv, GuardInv, Goto, Wanted
<1>13. ASSUME NEW c \in Cores, ClearNeeds(c) PROVE FlagInv'
  BY <1>13 DEF ClearNeeds, TypeOK, LockInv, FlagInv, GuardInv, Goto, Wanted
<1>14. ASSUME NEW c \in Cores, LoadHighest(c) PROVE FlagInv'
  BY <1>14 DEF LoadHighest, TypeOK, LockInv, FlagInv, GuardInv, Goto, Wanted
<1>15. ASSUME NEW c \in Cores, Unload(c) PROVE FlagInv'
  BY <1>15 DEF Unload, TypeOK, LockInv, FlagInv, GuardInv, Goto, Wanted
<1>16. ASSUME NEW c \in Cores, TryLock(c) PROVE FlagInv'
  BY <1>16 DEF TryLock, TypeOK, LockInv, FlagInv, GuardInv, Goto, Wanted
<1>17. ASSUME NEW c \in Cores, CheckNeeds(c) PROVE FlagInv'
  BY <1>17 DEF CheckNeeds, TypeOK, LockInv, FlagInv, GuardInv, Goto, Wanted
<1>18. ASSUME NEW c \in Cores, SwitchThread(c) PROVE FlagInv'
  BY <1>18 DEF SwitchThread, TypeOK, LockInv, FlagInv, GuardInv, Goto, Wanted
<1>19. ASSUME NEW c \in Cores, CompleteSwitch(c) PROVE FlagInv'
  BY <1>19 DEF CompleteSwitch, TypeOK, LockInv, FlagInv, GuardInv, Goto, Actors, Wanted
<1>20. ASSUME NEW c \in Cores, ReloadHighest(c) PROVE FlagInv'
  BY <1>20 DEF ReloadHighest, TypeOK, LockInv, FlagInv, GuardInv, Goto, Wanted
<1>21. ASSUME UNCHANGED vars PROVE FlagInv'
  BY <1>21 DEF vars, TypeOK, LockInv, FlagInv, GuardInv, Wanted, coreVars
<1> QED
  BY <1>1, <1>2, <1>3, <1>4, <1>5, <1>6, <1>7, <1>8, <1>9, <1>10, <1>11, <1>12, <1>13,
     <1>14, <1>15, <1>16, <1>17, <1>18, <1>19, <1>20, <1>21
     DEF Next, Release, Schedule, UpdateHighestPriorityThread

\* Dead threads: at the release of the lock by Exit the flag of the exiting core is set.
LEMMA DeadStep ==
  ASSUME TypeOK, LockInv, GuardInv, FlagInv, DeadInv, [Next]_vars
  PROVE  DeadInv'
<1> USE SchedulerAssumption, Distinct
<1>1. ASSUME NEW a \in Actors, ChangeThreads(a) PROVE DeadInv'
  BY <1>1 DEF ChangeThreads, Lock, TypeOK, LockInv, GuardInv, FlagInv, DeadInv,
              ExitNeverReturns, Held, Goto, Contexts, coreVars, Tops
<1>2. ASSUME NEW c \in Cores, Exit(c) PROVE DeadInv'
  BY <1>2 DEF Exit, Lock, TypeOK, LockInv, GuardInv, FlagInv, DeadInv, ExitNeverReturns,
              Held, Goto, Actors, Contexts, Executing, coreVars, Tops
<1>3. ASSUME NEW t \in Threads, FinishTermination(t) PROVE DeadInv'
  BY <1>3 DEF FinishTermination, TypeOK, LockInv, GuardInv, FlagInv, DeadInv,
              ExitNeverReturns, Held, Goto, lockVars, coreVars
<1>4. ASSUME NEW a \in Actors, NEW c \in Cores, WriteHighest(a, c) PROVE DeadInv'
  BY <1>4 DEF WriteHighest, TypeOK, LockInv, GuardInv, FlagInv, DeadInv, ExitNeverReturns,
              Held, Goto, lockVars, coreVars
<1>5. ASSUME NEW a \in Actors, NEW c \in Cores, MarkNeeds(a, c) PROVE DeadInv'
  BY <1>5 DEF MarkNeeds, TypeOK, LockInv, GuardInv, FlagInv, DeadInv, ExitNeverReturns,
              Held, Goto, lockVars
<1>6. ASSUME NEW a \in Actors, NEW c \in Cores, Migrate(a, c) PROVE DeadInv'
  BY <1>6 DEF Migrate, TypeOK, LockInv, GuardInv, FlagInv, DeadInv, ExitNeverReturns, Held,
              Goto, coreVars
<1>7. ASSUME NEW a \in Actors, Unlock(a) PROVE DeadInv'
  BY <1>7 DEF Unlock, TypeOK, LockInv, GuardInv, FlagInv, DeadInv, ExitNeverReturns, Held,
              Goto, Contexts, Wanted, coreVars
<1>8. ASSUME NEW a \in Actors, NEW c \in Cores, Interrupt(a, c) PROVE DeadInv'
  BY <1>8 DEF Interrupt, TypeOK, LockInv, GuardInv, FlagInv, DeadInv, ExitNeverReturns,
              Held, Goto, lockVars
<1>9. ASSUME NEW c \in Cores, RescheduleCurrentCore(c) PROVE DeadInv'
  BY <1>9 DEF RescheduleCurrentCore, TypeOK, LockInv, GuardInv, FlagInv, DeadInv,
              ExitNeverReturns, Held, Goto, lockVars, coreVars
<1>10. ASSUME RescheduleHost PROVE DeadInv'
  BY <1>10 DEF RescheduleHost, TypeOK, LockInv, GuardInv, FlagInv, DeadInv,
               ExitNeverReturns, Held, Goto, lockVars, coreVars
<1>11. ASSUME NEW c \in Cores, ClearInterrupt(c) PROVE DeadInv'
  BY <1>11 DEF ClearInterrupt, TypeOK, LockInv, GuardInv, FlagInv, DeadInv,
               ExitNeverReturns, Held, Goto, lockVars
<1>12. ASSUME NEW c \in Cores, RequestScheduleOnInterrupt(c) PROVE DeadInv'
  BY <1>12 DEF RequestScheduleOnInterrupt, TypeOK, LockInv, GuardInv, FlagInv, DeadInv,
               ExitNeverReturns, Held, Goto, lockVars
<1>13. ASSUME NEW c \in Cores, ClearNeeds(c) PROVE DeadInv'
  BY <1>13 DEF ClearNeeds, TypeOK, LockInv, GuardInv, FlagInv, DeadInv, ExitNeverReturns,
               Held, Goto, lockVars
<1>14. ASSUME NEW c \in Cores, LoadHighest(c) PROVE DeadInv'
  BY <1>14 DEF LoadHighest, TypeOK, LockInv, GuardInv, FlagInv, DeadInv, ExitNeverReturns,
               Held, Goto, Contexts, Executing, lockVars
<1>15. ASSUME NEW c \in Cores, Unload(c) PROVE DeadInv'
  BY <1>15 DEF Unload, TypeOK, LockInv, GuardInv, FlagInv, DeadInv, ExitNeverReturns, Held,
               Goto, lockVars
<1>16. ASSUME NEW c \in Cores, TryLock(c) PROVE DeadInv'
  BY <1>16 DEF TryLock, TypeOK, LockInv, GuardInv, FlagInv, DeadInv, ExitNeverReturns, Held,
               Goto, lockVars
<1>17. ASSUME NEW c \in Cores, CheckNeeds(c) PROVE DeadInv'
  BY <1>17 DEF CheckNeeds, TypeOK, LockInv, GuardInv, FlagInv, DeadInv, ExitNeverReturns,
               Held, Goto, lockVars
<1>18. ASSUME NEW c \in Cores, SwitchThread(c) PROVE DeadInv'
  BY <1>18 DEF SwitchThread, TypeOK, LockInv, GuardInv, FlagInv, DeadInv, ExitNeverReturns,
               Held, Goto, lockVars
<1>19. ASSUME NEW c \in Cores, CompleteSwitch(c) PROVE DeadInv'
  BY <1>19 DEF CompleteSwitch, TypeOK, LockInv, GuardInv, FlagInv, DeadInv,
               ExitNeverReturns, Held, Goto, lockVars
<1>20. ASSUME NEW c \in Cores, ReloadHighest(c) PROVE DeadInv'
  BY <1>20 DEF ReloadHighest, TypeOK, LockInv, GuardInv, FlagInv, DeadInv, ExitNeverReturns,
               Held, Goto, lockVars
<1>21. ASSUME UNCHANGED vars PROVE DeadInv'
  BY <1>21 DEF vars, TypeOK, LockInv, GuardInv, FlagInv, DeadInv, ExitNeverReturns, Held,
               lockVars, coreVars
<1> QED
  BY <1>1, <1>2, <1>3, <1>4, <1>5, <1>6, <1>7, <1>8, <1>9, <1>10, <1>11, <1>12, <1>13,
     <1>14, <1>15, <1>16, <1>17, <1>18, <1>19, <1>20, <1>21
     DEF Next, Release, Schedule, UpdateHighestPriorityThread

\* The scan: no core switches to a dead thread.
LEMMA ScanStep ==
  ASSUME TypeOK, GuardInv, ScanInv, [Next]_vars
  PROVE  ScanInv'
<1> USE SchedulerAssumption, Distinct
<1>1. ASSUME NEW a \in Actors, ChangeThreads(a) PROVE ScanInv'
  BY <1>1 DEF ChangeThreads, Lock, TypeOK, GuardInv, ScanInv, coreVars, Goto
<1>2. ASSUME NEW c \in Cores, Exit(c) PROVE ScanInv'
  BY <1>2 DEF Exit, Lock, TypeOK, GuardInv, ScanInv, coreVars, Goto
<1>3. ASSUME NEW t \in Threads, FinishTermination(t) PROVE ScanInv'
  BY <1>3 DEF FinishTermination, TypeOK, ScanInv, Cores, lockVars, coreVars
<1>4. ASSUME NEW a \in Actors, NEW c \in Cores, WriteHighest(a, c) PROVE ScanInv'
  BY <1>4 DEF WriteHighest, TypeOK, GuardInv, ScanInv, lockVars, coreVars, Goto
<1>5. ASSUME NEW a \in Actors, NEW c \in Cores, MarkNeeds(a, c) PROVE ScanInv'
  BY <1>5 DEF MarkNeeds, TypeOK, GuardInv, ScanInv, lockVars, Goto
<1>6. ASSUME NEW a \in Actors, NEW c \in Cores, Migrate(a, c) PROVE ScanInv'
  BY <1>6 DEF Migrate, TypeOK, GuardInv, ScanInv, coreVars, Goto
<1>7. ASSUME NEW a \in Actors, Unlock(a) PROVE ScanInv'
  BY <1>7 DEF Unlock, TypeOK, GuardInv, ScanInv, coreVars, Goto
<1>8. ASSUME NEW a \in Actors, NEW c \in Cores, Interrupt(a, c) PROVE ScanInv'
  BY <1>8 DEF Interrupt, TypeOK, GuardInv, ScanInv, lockVars, Goto
<1>9. ASSUME NEW c \in Cores, RescheduleCurrentCore(c) PROVE ScanInv'
  BY <1>9 DEF RescheduleCurrentCore, TypeOK, GuardInv, ScanInv, lockVars, coreVars, Goto
<1>10. ASSUME RescheduleHost PROVE ScanInv'
  BY <1>10 DEF RescheduleHost, TypeOK, GuardInv, ScanInv, lockVars, coreVars, Goto
<1>11. ASSUME NEW c \in Cores, ClearInterrupt(c) PROVE ScanInv'
  BY <1>11 DEF ClearInterrupt, TypeOK, GuardInv, ScanInv, lockVars, Goto
<1>12. ASSUME NEW c \in Cores, RequestScheduleOnInterrupt(c) PROVE ScanInv'
  BY <1>12 DEF RequestScheduleOnInterrupt, TypeOK, GuardInv, ScanInv, lockVars, Goto
<1>13. ASSUME NEW c \in Cores, ClearNeeds(c) PROVE ScanInv'
  BY <1>13 DEF ClearNeeds, TypeOK, GuardInv, ScanInv, lockVars, Goto
<1>14. ASSUME NEW c \in Cores, LoadHighest(c) PROVE ScanInv'
  BY <1>14 DEF LoadHighest, TypeOK, GuardInv, ScanInv, lockVars, Goto
<1>15. ASSUME NEW c \in Cores, Unload(c) PROVE ScanInv'
  BY <1>15 DEF Unload, TypeOK, GuardInv, ScanInv, lockVars, Goto
<1>16. ASSUME NEW c \in Cores, TryLock(c) PROVE ScanInv'
  BY <1>16 DEF TryLock, TypeOK, GuardInv, ScanInv, lockVars, Goto
<1>17. ASSUME NEW c \in Cores, CheckNeeds(c) PROVE ScanInv'
  BY <1>17 DEF CheckNeeds, TypeOK, GuardInv, ScanInv, lockVars, Goto
<1>18. ASSUME NEW c \in Cores, SwitchThread(c) PROVE ScanInv'
  BY <1>18 DEF SwitchThread, TypeOK, GuardInv, ScanInv, Cores, lockVars
<1>19. ASSUME NEW c \in Cores, CompleteSwitch(c) PROVE ScanInv'
  BY <1>19 DEF CompleteSwitch, TypeOK, GuardInv, ScanInv, lockVars, Goto
<1>20. ASSUME NEW c \in Cores, ReloadHighest(c) PROVE ScanInv'
  BY <1>20 DEF ReloadHighest, TypeOK, GuardInv, ScanInv, lockVars, Goto
<1>21. ASSUME UNCHANGED vars PROVE ScanInv'
  BY <1>21 DEF vars, TypeOK, GuardInv, ScanInv, lockVars, coreVars
<1> QED
  BY <1>1, <1>2, <1>3, <1>4, <1>5, <1>6, <1>7, <1>8, <1>9, <1>10, <1>11, <1>12, <1>13,
     <1>14, <1>15, <1>16, <1>17, <1>18, <1>19, <1>20, <1>21
     DEF Next, Release, Schedule, UpdateHighestPriorityThread

\* Requests: whoever changes a choice still has to interrupt the core.
LEMMA LostStep ==
  ASSUME TypeOK, LockInv, GuardInv, FlagInv, RescheduleNotLost, [Next]_vars
  PROVE  RescheduleNotLost'
<1> USE SchedulerAssumption, Distinct
<1>1. ASSUME NEW a \in Actors, ChangeThreads(a) PROVE RescheduleNotLost'
  BY <1>1 DEF ChangeThreads, Lock, TypeOK, LockInv, GuardInv, FlagInv, RescheduleNotLost,
              Goto, Wanted, coreVars
<1>2. ASSUME NEW c \in Cores, Exit(c) PROVE RescheduleNotLost'
  BY <1>2 DEF Exit, Lock, TypeOK, LockInv, GuardInv, FlagInv, RescheduleNotLost, Goto,
              Wanted, coreVars
<1>3. ASSUME NEW t \in Threads, FinishTermination(t) PROVE RescheduleNotLost'
  BY <1>3 DEF FinishTermination, TypeOK, LockInv, GuardInv, FlagInv, RescheduleNotLost,
              Goto, Wanted, coreVars
<1>4. ASSUME NEW a \in Actors, NEW c \in Cores, WriteHighest(a, c) PROVE RescheduleNotLost'
  BY <1>4 DEF WriteHighest, TypeOK, LockInv, GuardInv, FlagInv, RescheduleNotLost, Goto,
              Wanted, coreVars
<1>5. ASSUME NEW a \in Actors, NEW c \in Cores, MarkNeeds(a, c) PROVE RescheduleNotLost'
  BY <1>5 DEF MarkNeeds, TypeOK, LockInv, GuardInv, FlagInv, RescheduleNotLost, Goto, Wanted
<1>6. ASSUME NEW a \in Actors, NEW c \in Cores, Migrate(a, c) PROVE RescheduleNotLost'
  BY <1>6 DEF Migrate, TypeOK, LockInv, GuardInv, FlagInv, RescheduleNotLost, Goto, Wanted,
              coreVars
<1>7. ASSUME NEW a \in Actors, Unlock(a) PROVE RescheduleNotLost'
  BY <1>7 DEF Unlock, TypeOK, LockInv, GuardInv, FlagInv, RescheduleNotLost, Goto, Wanted,
              coreVars
<1>8. ASSUME NEW a \in Actors, NEW c \in Cores, Interrupt(a, c) PROVE RescheduleNotLost'
  BY <1>8 DEF Interrupt, TypeOK, LockInv, GuardInv, FlagInv, RescheduleNotLost, Goto,
              Contexts, Wanted
<1>9. ASSUME NEW c \in Cores, RescheduleCurrentCore(c) PROVE RescheduleNotLost'
  BY <1>9 DEF RescheduleCurrentCore, TypeOK, LockInv, GuardInv, FlagInv, RescheduleNotLost,
              Goto, Wanted, coreVars
<1>10. ASSUME RescheduleHost PROVE RescheduleNotLost'
  BY <1>10 DEF RescheduleHost, TypeOK, LockInv, GuardInv, FlagInv, RescheduleNotLost, Goto,
               Wanted, coreVars
<1>11. ASSUME NEW c \in Cores, ClearInterrupt(c) PROVE RescheduleNotLost'
  BY <1>11 DEF ClearInterrupt, TypeOK, LockInv, GuardInv, FlagInv, RescheduleNotLost, Goto,
               Actors, Wanted
<1>12. ASSUME NEW c \in Cores, RequestScheduleOnInterrupt(c) PROVE RescheduleNotLost'
  BY <1>12 DEF RequestScheduleOnInterrupt, TypeOK, LockInv, GuardInv, FlagInv,
               RescheduleNotLost, Goto, Wanted
<1>13. ASSUME NEW c \in Cores, ClearNeeds(c) PROVE RescheduleNotLost'
  BY <1>13 DEF ClearNeeds, TypeOK, LockInv, GuardInv, FlagInv, RescheduleNotLost, Goto,
               Wanted
<1>14. ASSUME NEW c \in Cores, LoadHighest(c) PROVE RescheduleNotLost'
  BY <1>14 DEF LoadHighest, TypeOK, LockInv, GuardInv, FlagInv, RescheduleNotLost, Goto,
               Wanted
<1>15. ASSUME NEW c \in Cores, Unload(c) PROVE RescheduleNotLost'
  BY <1>15 DEF Unload, TypeOK, LockInv, GuardInv, FlagInv, RescheduleNotLost, Goto, Wanted
<1>16. ASSUME NEW c \in Cores, TryLock(c) PROVE RescheduleNotLost'
  BY <1>16 DEF TryLock, TypeOK, LockInv, GuardInv, FlagInv, RescheduleNotLost, Goto, Wanted
<1>17. ASSUME NEW c \in Cores, CheckNeeds(c) PROVE RescheduleNotLost'
  BY <1>17 DEF CheckNeeds, TypeOK, LockInv, GuardInv, FlagInv, RescheduleNotLost, Goto,
               Wanted
<1>18. ASSUME NEW c \in Cores, SwitchThread(c) PROVE RescheduleNotLost'
  BY <1>18 DEF SwitchThread, TypeOK, LockInv, GuardInv, FlagInv, RescheduleNotLost, Goto,
               Wanted
<1>19. ASSUME NEW c \in Cores, CompleteSwitch(c) PROVE RescheduleNotLost'
  BY <1>19 DEF CompleteSwitch, TypeOK, LockInv, GuardInv, FlagInv, RescheduleNotLost, Goto,
               Wanted
<1>20. ASSUME NEW c \in Cores, ReloadHighest(c) PROVE RescheduleNotLost'
  BY <1>20 DEF ReloadHighest, TypeOK, LockInv, GuardInv, FlagInv, RescheduleNotLost, Goto,
               Wanted
<1>21. ASSUME UNCHANGED vars PROVE RescheduleNotLost'
  BY <1>21 DEF vars, TypeOK, LockInv, GuardInv, FlagInv, RescheduleNotLost, Wanted, coreVars
<1> QED
  BY <1>1, <1>2, <1>3, <1>4, <1>5, <1>6, <1>7, <1>8, <1>9, <1>10, <1>11, <1>12, <1>13,
     <1>14, <1>15, <1>16, <1>17, <1>18, <1>19, <1>20, <1>21
     DEF Next, Release, Schedule, UpdateHighestPriorityThread

\* The invariant holds when every core has just been activated.
LEMMA InvInit == Init => IInv
BY SchedulerAssumption, Distinct
   DEF Init, IInv, TypeOK, LockInv, GuardInv, Held, FlagInv, DeadInv, ExitNeverReturns, ScanInv,
       RescheduleNotLost, Actors, Contexts, Executing, Switching

\* Every step keeps it.
LEMMA InvStep == IInv /\ [Next]_vars => IInv'
BY TypeStep, LockStep, GuardStep, FlagStep, DeadStep, ScanStep, LostStep DEF IInv

\* The invariant holds of every behaviour.
THEOREM Invariance == Spec => []IInv
BY InvInit, InvStep, PTL DEF Spec

\* No thread is executed by two cores (ScheduleImplFiber's context guard).
THEOREM NoThreadRunsTwice == Spec => []OneCorePerThread
<1>1. IInv => OneCorePerThread
  BY Distinct DEF IInv, TypeOK, GuardInv, Held, OneCorePerThread
<1> QED BY <1>1, Invariance, PTL

\* No rescheduling request is lost (UpdateHighestPriorityThread, RescheduleCores).
THEOREM NoRequestIsLost == Spec => []RescheduleNotLost
<1>1. IInv => RescheduleNotLost
  BY DEF IInv
<1> QED BY <1>1, Invariance, PTL

\* KThread::Exit does not return.
THEOREM ExitIsFinal == Spec => []ExitNeverReturns
<1>1. IInv => ExitNeverReturns
  BY DEF IInv, DeadInv
<1> QED BY <1>1, Invariance, PTL

\* FinishTermination has made sure that no core executes the thread.
THEOREM TerminationIsFinal == Spec => []TerminatedIsGone
<1>1. IInv => TerminatedIsGone
  BY SchedulerAssumption DEF IInv, TypeOK, GuardInv, ScanInv, TerminatedIsGone, Cores
<1> QED BY <1>1, Invariance, PTL

-----------------------------------------------------------------------------
(***************************************************************************)
(* The timer whose interrupt ends the waits of the threads, for every set  *)
(* of tasks and every range of times: the tree of the timer stays ordered  *)
(* with m_next_task in front, and an interrupt is always on its way for    *)
(* the earliest task.                                                      *)
(*                                                                         *)
(* InterruptCovers alone is not inductive: when the last task is cancelled *)
(* nothing is said of the interrupt, yet the next task to be registered    *)
(* may rely on it.  WakeupScheduled says that an enabled interrupt is real *)
(* even when there is no task.                                             *)
(***************************************************************************)
WakeupScheduled ==
  /\ m_wakeup_time # MaxTime => m_wakeup_time \in event_queue \/ handler = "called"
  /\ handler = "in" => m_wakeup_time = MaxTime

TimerInv == TimerTypeOK /\ TreeOrdered /\ InterruptCovers /\ WakeupScheduled

\* Every nonempty set of natural numbers has a least element.
LEMMA LeastNatural ==
  ASSUME NEW S, S \subseteq Nat, S # {}
  PROVE  \E x \in S : \A y \in S : x <= y
<1>1. PICK x \in S : \A y \in S : <<y, x>> \notin OpToRel(<, Nat)
  BY WFMin, NatLessThanWellFounded
<1>2. \A y \in S : ~(y < x)
  BY <1>1 DEF OpToRel
<1> QED BY <1>2

\* A function on 1..n is a sequence of length n.
LEMMA FunctionIsSequence ==
  ASSUME NEW S, NEW n \in Nat, NEW f \in [1..n -> S]
  PROVE  f \in Seq(S) /\ Len(f) = n
  OBVIOUS

\* The place Before() looks for exists in an ordered tree: the tasks that are
\* not later than the new one are a prefix.
LEMMA BeforeExists ==
  ASSUME TimerTypeOK, TreeOrdered, NEW time \in Times
  PROVE  /\ Before(time) \in 0..Len(m_task_tree)
         /\ \A i \in 1..Len(m_task_tree) :
              i <= Before(time) => m_time[m_task_tree[i]] <= time
         /\ \A i \in 1..Len(m_task_tree) :
              i > Before(time) => m_time[m_task_tree[i]] > time
<1> DEFINE L == Len(m_task_tree)
           S == {i \in 1..L : m_time[m_task_tree[i]] > time}
<1>0. L \in Nat
  BY DEF TimerTypeOK
<1>1. \A i \in 1..L : m_task_tree[i] \in Tasks /\ m_time[m_task_tree[i]] \in Nat
  BY DEF TimerTypeOK, Times
<1>2. \E k \in 0..L : /\ \A i \in 1..L : i <= k => m_time[m_task_tree[i]] <= time
                      /\ \A i \in 1..L : i > k => m_time[m_task_tree[i]] > time
  <2>1. CASE S = {}
    <3>1. \A i \in 1..L : m_time[m_task_tree[i]] <= time
      BY <1>1, <2>1 DEF Times
    <3> QED BY <1>0, <3>1
  <2>2. CASE S # {}
    <3>1. PICK m \in S : \A j \in S : m <= j
      <4>1. S \subseteq Nat
        BY <1>0
      <4> HIDE DEF S
      <4> QED BY <2>2, <4>1, LeastNatural
    <3>2. m - 1 \in 0..L /\ m \in 1..L /\ m_time[m_task_tree[m]] > time
      BY <1>0, <3>1
    <3>3. ASSUME NEW i \in 1..L, i <= m - 1 PROVE m_time[m_task_tree[i]] <= time
      BY <1>0, <1>1, <3>1, <3>2, <3>3 DEF Times
    <3>4. ASSUME NEW i \in 1..L, i > m - 1 PROVE m_time[m_task_tree[i]] > time
      <4>1. m_time[m_task_tree[m]] <= m_time[m_task_tree[i]]
        BY <1>0, <3>2, <3>4 DEF TreeOrdered
      <4> QED BY <1>1, <3>2, <4>1 DEF Times
    <3> QED BY <3>2, <3>3, <3>4
  <2> QED BY <2>1, <2>2
<1> QED BY <1>2 DEF Before

\* Registering a task keeps the tree ordered and its first task in front.
LEMMA InsertKeepsTree ==
  ASSUME TimerTypeOK, TreeOrdered, NEW task \in Tasks, NEW time \in Times, time > 0,
         m_time[task] = 0,
         m_task_tree' = Inserted(task, Before(time)),
         m_time' = [m_time EXCEPT ![task] = time],
         m_next_task' = IF IsEarlier(time) THEN task ELSE m_next_task
  PROVE  m_task_tree' \in Seq(Tasks) /\ TreeOrdered'
<1> DEFINE L == Len(m_task_tree)
           k == Before(time)
<1>1. /\ k \in 0..L /\ L \in Nat
      /\ \A i \in 1..L : i <= k => m_time[m_task_tree[i]] <= time
      /\ \A i \in 1..L : i > k => m_time[m_task_tree[i]] > time
  BY BeforeExists DEF TimerTypeOK
<1> HIDE DEF k
<1>2. /\ Len(m_task_tree') = L + 1
      /\ m_task_tree' \in Seq(Tasks)
      /\ \A i \in 1..(L + 1) : m_task_tree'[i] =
           IF i <= k THEN m_task_tree[i]
           ELSE IF i = k + 1 THEN task ELSE m_task_tree[i - 1]
  <2>1. m_task_tree' = [i \in 1..(L + 1) |->
           IF i <= k THEN m_task_tree[i]
           ELSE IF i = k + 1 THEN task ELSE m_task_tree[i - 1]]
    BY DEF Inserted, k
  <2>2. m_task_tree \in Seq(Tasks)
    BY DEF TimerTypeOK
  <2>3. m_task_tree' \in [1..(L + 1) -> Tasks]
    BY <1>1, <2>1, <2>2
  <2> QED BY <1>1, <2>1, <2>3
<1>3. /\ \A i \in 1..L : /\ m_task_tree[i] # task /\ m_task_tree[i] \in Tasks
                         /\ m_time'[m_task_tree[i]] = m_time[m_task_tree[i]]
                         /\ m_time[m_task_tree[i]] \in Nat
      /\ m_time'[task] = time
  BY DEF TimerTypeOK, TreeOrdered, Times
<1>4. \A i, j \in 1..(L + 1) : m_task_tree'[i] = m_task_tree'[j] => i = j
  <2> SUFFICES ASSUME NEW i \in 1..(L + 1), NEW j \in 1..(L + 1),
                      m_task_tree'[i] = m_task_tree'[j], i < j
               PROVE  FALSE
    BY <1>1
  <2>1. \A a, b \in 1..L : m_task_tree[a] = m_task_tree[b] => a = b
    BY DEF TreeOrdered
  <2>2. CASE i = k + 1
    <3>1. m_task_tree'[i] = task /\ m_task_tree'[j] = m_task_tree[j - 1]
      BY <1>1, <1>2, <2>2
    <3>2. j - 1 \in 1..L
      BY <1>1, <2>2
    <3> QED BY <1>3, <3>1, <3>2
  <2>3. CASE j = k + 1
    <3>1. m_task_tree'[j] = task /\ m_task_tree'[i] = m_task_tree[i]
      BY <1>1, <1>2, <2>3
    <3>2. i \in 1..L
      BY <1>1, <2>3
    <3> QED BY <1>3, <3>1, <3>2
  <2>4. CASE i # k + 1 /\ j # k + 1
    <3> DEFINE a == IF i <= k THEN i ELSE i - 1
               b == IF j <= k THEN j ELSE j - 1
    <3>1. a \in 1..L /\ b \in 1..L /\ a # b
      BY <1>1, <2>4
    <3>2. m_task_tree'[i] = m_task_tree[a] /\ m_task_tree'[j] = m_task_tree[b]
      BY <1>1, <1>2, <2>4
    <3> HIDE DEF a, b
    <3> QED BY <2>1, <3>1, <3>2
  <2> QED BY <2>2, <2>3, <2>4
<1>5. \A i, j \in 1..(L + 1) :
        i <= j => m_time'[m_task_tree'[i]] <= m_time'[m_task_tree'[j]]
  <2> TAKE i, j \in 1..(L + 1)
  <2> HAVE i <= j
  <2>1. \A a, b \in 1..L : a <= b => m_time[m_task_tree[a]] <= m_time[m_task_tree[b]]
    BY DEF TreeOrdered
  <2>2. CASE i = k + 1
    <3>1. CASE j = k + 1
      <4>1. i = j /\ m_task_tree'[i] = task
        BY <1>1, <1>2, <2>2, <3>1
      <4> QED BY <1>3, <4>1 DEF Times
    <3>2. CASE j # k + 1
      <4>1. m_task_tree'[i] = task /\ m_task_tree'[j] = m_task_tree[j - 1]
        BY <1>1, <1>2, <2>2, <3>2
      <4>2. j - 1 \in 1..L /\ j - 1 > k
        BY <1>1, <2>2, <3>2
      <4>3. m_time[m_task_tree[j - 1]] > time
        BY <1>1, <4>2
      <4> QED BY <1>3, <4>1, <4>2, <4>3 DEF Times
    <3> QED BY <3>1, <3>2
  <2>4. CASE i # k + 1 /\ j = k + 1
    <3>1. m_task_tree'[j] = task /\ m_task_tree'[i] = m_task_tree[i]
      BY <1>1, <1>2, <2>4
    <3>2. i \in 1..L /\ i <= k
      BY <1>1, <2>4
    <3>3. m_time[m_task_tree[i]] <= time
      BY <1>1, <3>2
    <3> QED BY <1>3, <3>1, <3>2, <3>3
  <2>3. CASE i # k + 1 /\ j # k + 1
    <3> DEFINE a == IF i <= k THEN i ELSE i - 1
               b == IF j <= k THEN j ELSE j - 1
    <3>1. a \in 1..L /\ b \in 1..L /\ a <= b
      BY <1>1, <2>3
    <3>2. m_task_tree'[i] = m_task_tree[a] /\ m_task_tree'[j] = m_task_tree[b]
      BY <1>1, <1>2, <2>3
    <3> HIDE DEF a, b
    <3> QED BY <1>3, <2>1, <3>1, <3>2
  <2> QED BY <2>2, <2>3, <2>4
<1>6. \A t \in Tasks :
        m_time'[t] > 0 <=> \E i \in 1..(L + 1) : m_task_tree'[i] = t
  <2> TAKE t \in Tasks
  <2>1. CASE t = task
    <3>1. m_task_tree'[k + 1] = t /\ k + 1 \in 1..(L + 1)
      BY <1>1, <1>2, <2>1
    <3> QED BY <1>3, <2>1, <3>1
  <2>2. CASE t # task
    <3>1. m_time'[t] = m_time[t]
      BY <2>2 DEF TimerTypeOK
    <3>2. ASSUME NEW i \in 1..L, m_task_tree[i] = t
          PROVE  \E j \in 1..(L + 1) : m_task_tree'[j] = t
      <4>1. CASE i <= k
        <5>1. i \in 1..(L + 1) /\ m_task_tree'[i] = t
          BY <1>1, <1>2, <3>2, <4>1
        <5> QED BY <5>1
      <4>2. CASE i > k
        <5>1. i + 1 \in 1..(L + 1) /\ m_task_tree'[i + 1] = t
          BY <1>1, <1>2, <3>2, <4>2
        <5> QED BY <5>1
      <4> QED BY <1>1, <4>1, <4>2
    <3>3. ASSUME NEW j \in 1..(L + 1), m_task_tree'[j] = t
          PROVE  \E i \in 1..L : m_task_tree[i] = t
      <4>1. CASE j <= k
        BY <1>1, <1>2, <3>3, <4>1
      <4>2. CASE j > k
        <5>1. j - 1 \in 1..L /\ m_task_tree[j - 1] = t
          BY <1>1, <1>2, <2>2, <3>3, <4>2
        <5> QED BY <5>1
      <4> QED BY <1>1, <4>1, <4>2
    <3>4. m_time[t] > 0 <=> \E i \in 1..L : m_task_tree[i] = t
      BY DEF TreeOrdered
    <3> QED BY <3>1, <3>2, <3>3, <3>4
  <2> QED BY <2>1, <2>2
<1>7. m_next_task' = m_task_tree'[1] /\ m_task_tree' # << >>
  <2>0. m_task_tree' # << >>
    BY <1>1, <1>2
  <2>1. CASE L = 0
    <3>1. m_next_task = NULL
      BY <2>1 DEF TreeOrdered, TimerTypeOK
    <3>2. k = 0
      BY <1>1, <2>1
    <3>3. m_task_tree'[1] = task
      BY <1>1, <1>2, <2>1, <3>2
    <3> QED BY <2>0, <3>1, <3>3 DEF IsEarlier
  <2>2. CASE L > 0
    <3>1. m_next_task = m_task_tree[1] /\ 1 \in 1..L /\ m_task_tree[1] \in Tasks
      BY <1>1, <2>2 DEF TreeOrdered, TimerTypeOK
    <3>2. m_next_task # NULL
      BY <3>1, TimeAssumption
    <3>3. CASE m_time[m_task_tree[1]] > time
      <4>1. k = 0
        BY <1>1, <1>3, <3>1, <3>3 DEF Times
      <4>2. m_task_tree'[1] = task
        BY <1>1, <1>2, <4>1
      <4> QED BY <2>0, <3>1, <3>3, <4>2 DEF IsEarlier
    <3>4. CASE ~(m_time[m_task_tree[1]] > time)
      <4>1. k >= 1
        BY <1>1, <3>1, <3>4
      <4>2. m_task_tree'[1] = m_task_tree[1]
        BY <1>1, <1>2, <4>1
      <4> QED BY <2>0, <3>1, <3>2, <3>4, <4>2 DEF IsEarlier
    <3> QED BY <3>3, <3>4
  <2> QED BY <1>1, <2>1, <2>2
<1> QED BY <1>2, <1>4, <1>5, <1>6, <1>7 DEF TreeOrdered

\* Erasing a task keeps the tree ordered and its first task in front.
LEMMA EraseKeepsTree ==
  ASSUME TimerTypeOK, TreeOrdered, NEW task \in Tasks, RemoveTaskFromTree(task)
  PROVE  m_task_tree' \in Seq(Tasks) /\ TreeOrdered'
<1> DEFINE L == Len(m_task_tree)
<1>1. PICK p \in 1..L :
        /\ m_task_tree[p] = task
        /\ m_task_tree' = Erased(p)
        /\ m_time' = [m_time EXCEPT ![task] = 0]
        /\ m_next_task' = IF m_next_task # task THEN m_next_task
                          ELSE IF p = L THEN NULL ELSE m_task_tree[p + 1]
  BY DEF RemoveTaskFromTree
<1>2. L \in Nat /\ L > 0 /\ L - 1 \in Nat
  BY <1>1 DEF TimerTypeOK
<1>3. /\ Len(m_task_tree') = L - 1
      /\ m_task_tree' \in Seq(Tasks)
      /\ \A i \in 1..(L - 1) : m_task_tree'[i] =
           IF i < p THEN m_task_tree[i] ELSE m_task_tree[i + 1]
  <2>1. m_task_tree' = [i \in 1..(L - 1) |->
           IF i < p THEN m_task_tree[i] ELSE m_task_tree[i + 1]]
    BY <1>1 DEF Erased
  <2>2. m_task_tree \in Seq(Tasks)
    BY DEF TimerTypeOK
  <2>3. m_task_tree' \in [1..(L - 1) -> Tasks]
    BY <1>2, <2>1, <2>2
  <2>4. m_task_tree' \in Seq(Tasks) /\ Len(m_task_tree') = L - 1
    <3> HIDE DEF L
    <3> QED BY <1>2, <2>3, FunctionIsSequence
  <2>6. \A i \in 1..(L - 1) : m_task_tree'[i] =
           IF i < p THEN m_task_tree[i] ELSE m_task_tree[i + 1]
    BY <2>1
  <2> QED BY <2>4, <2>6
<1> DEFINE at(i) == IF i < p THEN i ELSE i + 1
<1>4. ASSUME NEW i \in 1..(L - 1)
      PROVE  /\ at(i) \in 1..L /\ at(i) # p
             /\ m_task_tree'[i] = m_task_tree[at(i)]
             /\ m_time'[m_task_tree[at(i)]] = m_time[m_task_tree[at(i)]]
  <2>1. at(i) \in 1..L /\ at(i) # p
    BY <1>1, <1>2
  <2>2. m_task_tree'[i] = m_task_tree[at(i)]
    <3>1. m_task_tree'[i] = IF i < p THEN m_task_tree[i] ELSE m_task_tree[i + 1]
      BY <1>3
    <3> QED BY <3>1
  <2> HIDE DEF at
  <2>3. m_task_tree[at(i)] # task /\ m_task_tree[at(i)] \in Tasks
    BY <1>1, <2>1 DEF TreeOrdered, TimerTypeOK
  <2> QED BY <1>1, <2>1, <2>2, <2>3 DEF TimerTypeOK
<1>5. ASSUME NEW i \in 1..(L - 1), NEW j \in 1..(L - 1)
      PROVE  /\ at(i) = at(j) => i = j
             /\ i <= j => at(i) <= at(j)
  BY <1>1, <1>2
<1>6. ASSUME NEW i \in 1..L, i # p
      PROVE  \E j \in 1..(L - 1) : at(j) = i
  <2>1. CASE i < p
    <3>1. i \in 1..(L - 1) /\ at(i) = i
      BY <1>1, <1>2, <2>1
    <3> QED BY <3>1
  <2>2. CASE i > p
    <3>1. i - 1 \in 1..(L - 1) /\ at(i - 1) = i
      BY <1>1, <1>2, <2>2
    <3> QED BY <3>1
  <2> QED BY <1>1, <1>2, <1>6, <2>1, <2>2
<1>7. at(1) = IF p = 1 THEN 2 ELSE 1
  BY <1>1
<1> HIDE DEF at
<1>8. ASSUME NEW i \in 1..(L - 1), NEW j \in 1..(L - 1)
      PROVE  /\ m_task_tree'[i] = m_task_tree'[j] => i = j
             /\ i <= j => m_time'[m_task_tree'[i]] <= m_time'[m_task_tree'[j]]
  <2>1. /\ m_task_tree[at(i)] = m_task_tree[at(j)] => at(i) = at(j)
        /\ at(i) <= at(j) => m_time[m_task_tree[at(i)]] <= m_time[m_task_tree[at(j)]]
    BY <1>4 DEF TreeOrdered
  <2>2. m_task_tree'[i] = m_task_tree[at(i)] /\ m_task_tree'[j] = m_task_tree[at(j)]
    BY <1>4
  <2> QED BY <1>4, <1>5, <2>1, <2>2
<1>9. \A t \in Tasks :
        m_time'[t] > 0 <=> \E i \in 1..(L - 1) : m_task_tree'[i] = t
  <2> TAKE t \in Tasks
  <2>1. CASE t = task
    <3>1. m_time'[t] = 0
      BY <1>1, <2>1 DEF TimerTypeOK
    <3>2. ASSUME NEW i \in 1..(L - 1), m_task_tree'[i] = t PROVE FALSE
      BY <1>1, <1>4, <2>1, <3>2 DEF TreeOrdered
    <3> QED BY <3>1, <3>2
  <2>2. CASE t # task
    <3>1. m_time'[t] = m_time[t]
      BY <1>1, <2>2 DEF TimerTypeOK
    <3>2. ASSUME NEW i \in 1..L, m_task_tree[i] = t
          PROVE  \E j \in 1..(L - 1) : m_task_tree'[j] = t
      <4>1. PICK j \in 1..(L - 1) : at(j) = i
        BY <1>1, <1>6, <2>2, <3>2
      <4> QED BY <1>4, <3>2, <4>1
    <3>3. ASSUME NEW j \in 1..(L - 1), m_task_tree'[j] = t
          PROVE  \E i \in 1..L : m_task_tree[i] = t
      BY <1>4, <3>3
    <3>4. m_time[t] > 0 <=> \E i \in 1..L : m_task_tree[i] = t
      BY DEF TreeOrdered
    <3> QED BY <3>1, <3>2, <3>3, <3>4
  <2> QED BY <2>1, <2>2
<1>10. m_next_task' = IF m_task_tree' = << >> THEN NULL ELSE m_task_tree'[1]
  <2>1. m_next_task = m_task_tree[1]
    BY <1>2 DEF TreeOrdered
  <2>2. m_task_tree' = << >> <=> L = 1
    BY <1>2, <1>3
  <2>3. CASE p = 1
    <3>1. m_next_task = task
      BY <1>1, <2>1, <2>3
    <3>2. CASE L = 1
      BY <1>1, <2>2, <2>3, <3>1, <3>2
    <3>3. CASE L # 1
      <4>1. 1 \in 1..(L - 1) /\ m_task_tree'[1] = m_task_tree[2]
        BY <1>2, <1>3, <2>3, <3>3
      <4> QED BY <1>1, <2>2, <2>3, <3>1, <3>3, <4>1
    <3> QED BY <3>2, <3>3
  <2>4. CASE p # 1
    <3>1. m_next_task # task /\ L # 1
      BY <1>1, <1>2, <2>1, <2>4 DEF TreeOrdered
    <3>2. 1 \in 1..(L - 1) /\ m_task_tree'[1] = m_task_tree[1]
      BY <1>1, <1>2, <1>3, <2>4, <3>1
    <3> QED BY <1>1, <2>1, <2>2, <3>1, <3>2
  <2> QED BY <2>3, <2>4
<1> QED BY <1>3, <1>8, <1>9, <1>10 DEF TreeOrdered

\* The successor of the first task is not earlier than it: after a removal the
\* next task is at or after the old one, so the old interrupt is soon enough.
LEMMA NextIsNotEarlier ==
  ASSUME TimerTypeOK, TreeOrdered, NEW task \in Tasks, RemoveTaskFromTree(task),
         m_next_task' # NULL
  PROVE  /\ m_next_task \in Tasks
         /\ m_time[m_next_task] <= m_time'[m_next_task']
<1>1. PICK p \in 1..Len(m_task_tree) :
        /\ m_task_tree[p] = task
        /\ m_time' = [m_time EXCEPT ![task] = 0]
        /\ m_next_task' = IF m_next_task # task THEN m_next_task
                          ELSE IF p = Len(m_task_tree) THEN NULL
                          ELSE m_task_tree[p + 1]
  BY DEF RemoveTaskFromTree
<1>2. Len(m_task_tree) \in Nat /\ 1 \in 1..Len(m_task_tree)
  BY <1>1 DEF TimerTypeOK
<1>3. m_next_task = m_task_tree[1] /\ m_next_task \in Tasks
  BY <1>2 DEF TreeOrdered, TimerTypeOK
<1>4. CASE m_next_task # task
  <2>1. m_next_task' = m_next_task /\ m_time'[m_next_task] = m_time[m_next_task]
    BY <1>1, <1>3, <1>4 DEF TimerTypeOK
  <2> QED BY <1>3, <2>1 DEF TimerTypeOK, Times
<1>5. CASE m_next_task = task
  <2>1. p # Len(m_task_tree) /\ m_next_task' = m_task_tree[p + 1]
    BY <1>1, <1>5
  <2>2. p + 1 \in 1..Len(m_task_tree) /\ p = 1
    <3>1. m_task_tree[p] = m_task_tree[1]
      BY <1>1, <1>3, <1>5
    <3>2. p = 1
      BY <1>1, <1>2, <3>1 DEF TreeOrdered
    <3> QED BY <1>2, <2>1, <3>2
  <2>3. /\ m_task_tree[p + 1] # task /\ m_task_tree[p + 1] \in Tasks
        /\ m_time[m_task_tree[1]] <= m_time[m_task_tree[p + 1]]
    BY <1>1, <1>2, <2>2 DEF TreeOrdered, TimerTypeOK
  <2> QED BY <1>1, <1>3, <2>1, <2>3 DEF TimerTypeOK
<1> QED BY <1>4, <1>5

\* Every step keeps the inductive invariant.
LEMMA TimerInvStep == TimerInv /\ [TimerNext]_timerVars => TimerInv'
<1> SUFFICES ASSUME TimerInv, [TimerNext]_timerVars PROVE TimerInv'
  OBVIOUS
<1>0. TimerTypeOK /\ TreeOrdered /\ InterruptCovers /\ WakeupScheduled
  BY DEF TimerInv
<1>t. MaxTime \in Nat /\ Horizon \in Nat /\ Horizon < MaxTime /\ NULL \notin Tasks
  BY TimeAssumption
<1>r. ASSUME NEW task \in Tasks, RemoveTaskFromTree(task)
      PROVE  m_time' \in [Tasks -> Times] /\ m_next_task' \in Tasks \cup {NULL}
  <2>1. PICK p \in 1..Len(m_task_tree) :
          /\ m_time' = [m_time EXCEPT ![task] = 0]
          /\ m_next_task' = IF m_next_task # task THEN m_next_task
                            ELSE IF p = Len(m_task_tree) THEN NULL
                            ELSE m_task_tree[p + 1]
    BY <1>r DEF RemoveTaskFromTree
  <2>2. p # Len(m_task_tree) => m_task_tree[p + 1] \in Tasks
    BY <1>0, <2>1 DEF TimerTypeOK
  <2> QED BY <1>0, <1>t, <2>1, <2>2 DEF TimerTypeOK, Times
<1>1. CASE Tick
  BY <1>0, <1>t, <1>1 DEF Tick, TimerInv, TimerTypeOK, TreeOrdered, InterruptCovers, WakeupScheduled
<1>2. CASE PopEvent
  <2>1. TimerTypeOK'
    BY <1>0, <1>2 DEF PopEvent, TimerTypeOK
  <2>2. TreeOrdered'
    BY <1>0, <1>2 DEF PopEvent, TreeOrdered
  <2>3. InterruptCovers' /\ WakeupScheduled'
    BY <1>0, <1>2 DEF PopEvent, InterruptCovers, WakeupScheduled
  <2> QED BY <2>1, <2>2, <2>3 DEF TimerInv
<1>3. CASE DoTask
  <2>1. TimerTypeOK'
    BY <1>0, <1>t, <1>3 DEF DoTask, TimerTypeOK, Times
  <2>2. TreeOrdered'
    BY <1>0, <1>3 DEF DoTask, TreeOrdered
  <2>3. InterruptCovers' /\ WakeupScheduled'
    <3>1. UNCHANGED <<m_time, m_next_task, event_queue>> /\ handler = "called"
      BY <1>3 DEF DoTask
    <3>2. CASE m_wakeup_time # MaxTime
      BY <1>3, <3>1, <3>2
      DEF DoTask, GetInterruptEnabled, InterruptCovers, WakeupScheduled
    <3>3. CASE m_wakeup_time = MaxTime
      <4>1. handler' = "none" /\ m_wakeup_time' = m_wakeup_time
        BY <1>3, <3>3 DEF DoTask, GetInterruptEnabled
      <4> QED BY <1>0, <3>1, <3>3, <4>1 DEF InterruptCovers, WakeupScheduled
    <3> QED BY <3>2, <3>3
  <2> QED BY <2>1, <2>2, <2>3 DEF TimerInv
<1>4. CASE DoInterruptTask
  <2>0. m_next_task \in Tasks /\ RemoveTaskFromTree(m_next_task)
    BY <1>0, <1>4 DEF DoInterruptTask, TimerTypeOK
  <2>1. m_task_tree' \in Seq(Tasks) /\ TreeOrdered'
    BY <1>0, <2>0, EraseKeepsTree
  <2>2. TimerTypeOK'
    BY <1>0, <1>r, <1>4, <2>0, <2>1 DEF DoInterruptTask, TimerTypeOK
  <2>3. InterruptCovers' /\ WakeupScheduled'
    BY <1>0, <1>4 DEF DoInterruptTask, InterruptCovers, WakeupScheduled
  <2> QED BY <2>1, <2>2, <2>3 DEF TimerInv
<1>5. CASE DoTaskReturns
  <2>0. m_wakeup_time = MaxTime /\ handler = "in" /\ handler' = "none"
    BY <1>0, <1>5 DEF DoTaskReturns, WakeupScheduled
  <2>2. TreeOrdered' /\ UNCHANGED <<m_next_task, m_time>>
    BY <1>0, <1>5 DEF DoTaskReturns, TreeOrdered
  <2>3. CASE m_next_task = NULL
    <3>1. UNCHANGED <<m_wakeup_time, event_queue>>
      BY <1>5, <2>3 DEF DoTaskReturns
    <3>2. TimerTypeOK'
      BY <1>0, <1>5, <3>1 DEF DoTaskReturns, TimerTypeOK
    <3> QED BY <2>0, <2>2, <2>3, <3>1, <3>2 DEF TimerInv, InterruptCovers, WakeupScheduled
  <2>4. CASE m_next_task # NULL
    <3>1. m_next_task \in Tasks /\ m_time[m_next_task] \in Times
      BY <1>0, <2>4 DEF TimerTypeOK
    <3>2. m_time[m_next_task] > 0
      <4>1. m_task_tree # << >> /\ m_next_task = m_task_tree[1]
        BY <1>0, <2>4 DEF TreeOrdered
      <4>2. 1 \in 1..Len(m_task_tree)
        BY <1>0, <4>1 DEF TimerTypeOK
      <4> QED BY <1>0, <3>1, <4>1, <4>2 DEF TreeOrdered
    <3>3. m_wakeup_time' = m_time[m_next_task] /\ event_queue' = {m_time[m_next_task]}
      BY <1>5, <1>t, <2>0, <2>4, <3>1, <3>2 DEF DoTaskReturns, EnableInterrupt, Times
    <3>4. TimerTypeOK'
      BY <1>0, <1>5, <3>1, <3>3 DEF DoTaskReturns, TimerTypeOK
    <3>5. InterruptCovers'
      BY <2>2, <3>1, <3>3 DEF InterruptCovers, Times
    <3>6. WakeupScheduled'
      BY <2>0, <3>3 DEF WakeupScheduled
    <3> QED BY <2>2, <3>4, <3>5, <3>6 DEF TimerInv
  <2> QED BY <2>3, <2>4
<1>6. ASSUME NEW task \in Tasks, CancelTask(task) PROVE TimerInv'
  <2>0. RemoveTaskFromTree(task) /\ UNCHANGED <<m_wakeup_time, event_queue, handler>>
    BY <1>6 DEF CancelTask
  <2>1. m_task_tree' \in Seq(Tasks) /\ TreeOrdered'
    BY <1>0, <2>0, EraseKeepsTree
  <2>2. TimerTypeOK'
    BY <1>0, <1>r, <1>6, <2>0, <2>1 DEF CancelTask, TimerTypeOK
  <2>3. WakeupScheduled'
    BY <1>0, <2>0 DEF WakeupScheduled
  <2>4. InterruptCovers'
    <3> SUFFICES ASSUME m_next_task' # NULL, handler # "in"
                 PROVE  m_wakeup_time' <= m_time'[m_next_task']
      BY <1>0, <2>0 DEF InterruptCovers, WakeupScheduled
    <3>1. m_next_task \in Tasks /\ m_time[m_next_task] <= m_time'[m_next_task']
      BY <1>0, <2>0, NextIsNotEarlier
    <3>2. m_next_task' \in Tasks
      BY <2>2 DEF TimerTypeOK
    <3>3. /\ m_wakeup_time \in Nat /\ m_time[m_next_task] \in Nat
          /\ m_time'[m_next_task'] \in Nat
      BY <1>0, <2>2, <3>1, <3>2 DEF TimerTypeOK, Times
    <3>4. m_wakeup_time <= m_time[m_next_task]
      BY <1>0, <1>t, <3>1 DEF InterruptCovers
    <3> QED BY <2>0, <3>1, <3>3, <3>4
  <2> QED BY <2>1, <2>2, <2>3, <2>4 DEF TimerInv
<1>7. ASSUME NEW task \in Tasks, NEW time \in Times, RegisterAbsoluteTask(task, time)
      PROVE  TimerInv'
  <2>0. /\ m_time[task] = 0 /\ time > 0 /\ handler # "in"
        /\ m_task_tree' = Inserted(task, Before(time))
        /\ m_time' = [m_time EXCEPT ![task] = time]
        /\ m_next_task' = IF IsEarlier(time) THEN task ELSE m_next_task
        /\ UNCHANGED <<now, handler, cur_time>>
    BY <1>7 DEF RegisterAbsoluteTask
  <2>1. m_task_tree' \in Seq(Tasks) /\ TreeOrdered'
    BY <1>0, <2>0, InsertKeepsTree
  <2>2. m_time' \in [Tasks -> Times] /\ m_next_task' \in Tasks \cup {NULL}
    BY <1>0, <2>0 DEF TimerTypeOK
  <2>3. CASE IsEarlier(time) /\ time <= m_wakeup_time
    <3>1. m_wakeup_time' = time /\ event_queue' = {time}
      BY <1>7, <2>3 DEF RegisterAbsoluteTask, EnableInterrupt
    <3>2. TimerTypeOK'
      BY <1>0, <2>0, <2>1, <2>2, <3>1 DEF TimerTypeOK
    <3>3. m_next_task' = task /\ m_time'[task] = time
      BY <1>0, <2>0, <2>3 DEF TimerTypeOK
    <3>4. InterruptCovers'
      BY <3>1, <3>3 DEF InterruptCovers, Times
    <3>5. WakeupScheduled'
      BY <2>0, <3>1 DEF WakeupScheduled
    <3> QED BY <2>1, <3>2, <3>4, <3>5 DEF TimerInv
  <2>4. CASE ~(IsEarlier(time) /\ time <= m_wakeup_time)
    <3>1. UNCHANGED <<m_wakeup_time, event_queue>>
      BY <1>7, <2>4 DEF RegisterAbsoluteTask
    <3>2. TimerTypeOK'
      BY <1>0, <2>0, <2>1, <2>2, <3>1 DEF TimerTypeOK
    <3>3. WakeupScheduled'
      BY <1>0, <2>0, <3>1 DEF WakeupScheduled
    <3>4. InterruptCovers'
      <4>1. CASE IsEarlier(time)
        <5>1. m_next_task' = task /\ m_time'[task] = time
          BY <1>0, <2>0, <4>1 DEF TimerTypeOK
        <5>2. m_wakeup_time <= time
          BY <1>0, <2>4, <4>1 DEF TimerTypeOK, Times
        <5> QED BY <1>0, <2>0, <3>1, <5>1, <5>2 DEF InterruptCovers, WakeupScheduled
      <4>2. CASE ~IsEarlier(time)
        <5>1. m_next_task' = m_next_task /\ m_next_task \in Tasks
          BY <1>0, <2>0, <4>2 DEF IsEarlier, TimerTypeOK
        <5>2. m_next_task # task
          <6>1. m_task_tree # << >> /\ m_next_task = m_task_tree[1]
            BY <1>0, <4>2 DEF TreeOrdered, IsEarlier
          <6>2. 1 \in 1..Len(m_task_tree)
            BY <1>0, <6>1 DEF TimerTypeOK
          <6>3. m_time[m_next_task] > 0
            BY <1>0, <5>1, <6>1, <6>2 DEF TreeOrdered
          <6> QED BY <2>0, <6>3
        <5>3. m_time'[m_next_task] = m_time[m_next_task]
          BY <1>0, <2>0, <5>1, <5>2 DEF TimerTypeOK
        <5> QED BY <1>0, <2>0, <3>1, <5>1, <5>3 DEF InterruptCovers
      <4> QED BY <4>1, <4>2
    <3> QED BY <2>1, <3>2, <3>3, <3>4 DEF TimerInv
  <2> QED BY <2>3, <2>4
<1>8. CASE UNCHANGED timerVars
  BY <1>0, <1>8 DEF timerVars, TimerInv, TimerTypeOK, TreeOrdered, InterruptCovers, WakeupScheduled
<1> QED
  BY <1>1, <1>2, <1>3, <1>4, <1>5, <1>6, <1>7, <1>8 DEF TimerNext

\* No registered task is ever without an interrupt on its way, in any number of
\* registrations, cancellations and late interrupts (RegisterAbsoluteTask,
\* CancelTask and DoTask).
THEOREM NoTaskIsMissed == TimerSpec => [](TimerTypeOK /\ TreeOrdered /\ InterruptCovers)
<1>1. TimerInit => TimerInv
  <2> SUFFICES ASSUME TimerInit PROVE TimerInv
    OBVIOUS
  <2>1. TimerTypeOK
    BY TimeAssumption DEF TimerInit, TimerTypeOK, Times
  <2>2. TreeOrdered
    BY DEF TimerInit, TreeOrdered
  <2>3. InterruptCovers /\ WakeupScheduled
    BY DEF TimerInit, InterruptCovers, WakeupScheduled
  <2> QED BY <2>1, <2>2, <2>3 DEF TimerInv
<1>2. TimerInv /\ [TimerNext]_timerVars => TimerInv'
  BY TimerInvStep
<1>3. TimerInv => TimerTypeOK /\ TreeOrdered /\ InterruptCovers
  BY DEF TimerInv
<1> QED BY <1>1, <1>2, <1>3, PTL DEF TimerSpec

=============================================================================
