------------------------ MODULE KResourceLimitProofs ------------------------
(***************************************************************************)
(* Theorems about KResourceLimit, for any finite set of threads and any    *)
(* word width, amounts and limits.                                         *)
(*                                                                         *)
(* What a resource limit counts is a sum over the threads that are about   *)
(* to give something back, so the first part proves what SumFunction does  *)
(* when one summand comes or goes.  The induction over finite sets is done *)
(* by taking a smallest counterexample.                                    *)
(***************************************************************************)
EXTENDS KResourceLimit, FiniteSetTheorems, TLAPS

-----------------------------------------------------------------------------
(* Sums *)

\* F gives the sum of f over every subset of S: the equation SumFunction solves.
IsSum(F, f, S) ==
  F = [s \in SUBSET S |->
         IF s = {} THEN 0
         ELSE f[CHOOSE x \in s : TRUE] + F[s \ {CHOOSE x \in s : TRUE}]]

\* Every nonempty set of natural numbers has a least element.
LEMMA LeastNatural ==
  ASSUME NEW S, S \subseteq Nat, S # {}
  PROVE  \E x \in S : \A y \in S : x <= y
<1>1. PICK x \in S : \A y \in S : <<y, x>> \notin OpToRel(<, Nat)
  BY WFMin, NatLessThanWellFounded
<1>2. \A y \in S : ~(y < x)
  BY <1>1 DEF OpToRel
<1> QED BY <1>2

\* Of some subsets of a finite set, one has no proper subset among them.
LEMMA SmallestSubset ==
  ASSUME NEW S, IsFiniteSet(S), NEW B \in SUBSET SUBSET S, B # {}
  PROVE  \E b \in B : \A x \in b : b \ {x} \notin B
<1> DEFINE C == {Cardinality(b) : b \in B}
<1>1. \A b \in B : IsFiniteSet(b) /\ Cardinality(b) \in Nat
  BY FS_Subset, FS_CardinalityType
<1>2. C \subseteq Nat /\ C # {}
  BY <1>1
<1> HIDE DEF C
<1>3. PICK n \in C : \A m \in C : n <= m
  BY <1>2, LeastNatural
<1>4. PICK b \in B : n = Cardinality(b)
  BY <1>3 DEF C
<1>5. ASSUME NEW x \in b PROVE b \ {x} \notin B
  <2>1. Cardinality(b \ {x}) = Cardinality(b) - 1
    BY <1>1, <1>5, FS_RemoveElement
  <2> QED BY <1>1, <1>3, <1>4, <2>1 DEF C
<1> QED BY <1>5

\* The equation has a solution: it is solved for the subsets of at most n
\* elements, for every n.
LEMMA SumExists ==
  ASSUME NEW S, IsFiniteSet(S), NEW f
  PROVE  \E F : IsSum(F, f, S)
<1> DEFINE chosen(s) == CHOOSE x \in s : TRUE
           Small(n) == {s \in SUBSET S : Cardinality(s) <= n}
           Solves(F, n) == F = [s \in Small(n) |-> IF s = {} THEN 0
                                  ELSE f[chosen(s)] + F[s \ {chosen(s)}]]
           B == {n \in Nat : ~ \E F : Solves(F, n)}
<1>1. \A s \in SUBSET S : IsFiniteSet(s) /\ Cardinality(s) \in Nat
                          /\ Cardinality(s) <= Cardinality(S)
  BY FS_Subset, FS_CardinalityType
<1>2. \A s \in SUBSET S : s # {} => /\ chosen(s) \in s
                                    /\ s \ {chosen(s)} \in SUBSET S
                                    /\ Cardinality(s \ {chosen(s)}) = Cardinality(s) - 1
  BY <1>1, FS_RemoveElement
<1>3. \A s \in SUBSET S : Cardinality(s) = 0 <=> s = {}
  BY <1>1, FS_EmptySet
<1> HIDE DEF chosen
<1>4. 0 \notin B
  <2>1. Small(0) = {{}}
    BY <1>1, <1>3
  <2> DEFINE F == [s \in Small(0) |-> 0]
  <2>2. Solves(F, 0)
    BY <2>1
  <2> QED BY <2>2
<1>5. ASSUME NEW n \in Nat, n \notin B PROVE n + 1 \notin B
  <2>1. PICK F : Solves(F, n)
    BY <1>5
  <2> DEFINE G == [s \in Small(n + 1) |-> IF s = {} THEN 0
                                          ELSE f[chosen(s)] + F[s \ {chosen(s)}]]
  <2>2. Small(n) \subseteq Small(n + 1)
    BY <1>1
  <2>3. \A s \in Small(n) : G[s] = F[s]
    BY <2>1, <2>2
  <2>4. \A s \in Small(n + 1) : s # {} => s \ {chosen(s)} \in Small(n)
    BY <1>1, <1>2
  <2>5. \A s \in Small(n + 1) : G[s] = IF s = {} THEN 0
                                       ELSE f[chosen(s)] + G[s \ {chosen(s)}]
    BY <2>3, <2>4
  <2>6. Solves(G, n + 1)
    BY <2>5
  <2> QED BY <2>6
<1>6. B = {}
  <2> SUFFICES ASSUME B # {} PROVE FALSE
    OBVIOUS
  <2>1. B \subseteq Nat
    OBVIOUS
  <2> HIDE DEF B
  <2>2. PICK n \in B : \A m \in B : n <= m
    BY <2>1, LeastNatural
  <2>3. n \in Nat /\ n # 0 /\ n - 1 \in Nat /\ n - 1 \notin B
    BY <1>4, <2>1, <2>2
  <2> QED BY <1>5, <2>2, <2>3
<1>7. Small(Cardinality(S)) = SUBSET S
  BY <1>1
<1>8. PICK F : Solves(F, Cardinality(S))
  BY <1>6, FS_CardinalityType
<1> QED BY <1>7, <1>8 DEF IsSum, chosen

\* SumFunction is such a solution, at the whole domain.
LEMMA SumSolves ==
  ASSUME NEW S, IsFiniteSet(S), NEW f, DOMAIN f = S
  PROVE  \E F : IsSum(F, f, S) /\ SumFunction(f) = F[S]
<1> DEFINE F == CHOOSE g : IsSum(g, f, S)
<1>1. IsSum(F, f, S)
  BY SumExists
<1>2. SumFunction(f) = F[S]
  BY DEF SumFunction, SumFunctionOnSet, FoldFunctionOnSet, MapThenFoldSet, IsSum
<1> QED BY <1>1, <1>2

\* The order in which the summands are chosen does not matter.
LEMMA SumAnyOrder ==
  ASSUME NEW S, IsFiniteSet(S), NEW f, \A x \in S : f[x] \in Nat,
         NEW F, IsSum(F, f, S)
  PROVE  /\ F[{}] = 0
         /\ \A s \in SUBSET S : F[s] \in Nat
         /\ \A s \in SUBSET S : \A x \in s : F[s] = f[x] + F[s \ {x}]
<1> DEFINE chosen(s) == CHOOSE x \in s : TRUE
           B1 == {s \in SUBSET S : F[s] \notin Nat}
           B2 == {s \in SUBSET S : \E x \in s : F[s] # f[x] + F[s \ {x}]}
<1>1. \A s \in SUBSET S : s # {} => chosen(s) \in s
  OBVIOUS
<1>2. \A s \in SUBSET S :
        F[s] = IF s = {} THEN 0 ELSE f[chosen(s)] + F[s \ {chosen(s)}]
  BY DEF IsSum
<1> HIDE DEF chosen
<1>3. F[{}] = 0
  BY <1>2
<1>4. B1 = {}
  <2> SUFFICES ASSUME B1 # {} PROVE FALSE
    OBVIOUS
  <2>1. PICK b \in B1 : \A x \in b : b \ {x} \notin B1
    <3>1. B1 \in SUBSET SUBSET S
      OBVIOUS
    <3> HIDE DEF B1
    <3> QED BY <3>1, SmallestSubset
  <2>2. b # {} /\ b \in SUBSET S /\ F[b] \notin Nat
    BY <1>3, <2>1
  <2>3. chosen(b) \in b /\ f[chosen(b)] \in Nat
    BY <1>1, <2>2
  <2>4. F[b \ {chosen(b)}] \in Nat
    BY <2>1, <2>2, <2>3
  <2> QED BY <1>2, <2>2, <2>3, <2>4
<1>5. B2 = {}
  <2> SUFFICES ASSUME B2 # {} PROVE FALSE
    OBVIOUS
  <2>1. PICK b \in B2 : \A x \in b : b \ {x} \notin B2
    <3>1. B2 \in SUBSET SUBSET S
      OBVIOUS
    <3> HIDE DEF B2
    <3> QED BY <3>1, SmallestSubset
  <2>2. PICK x \in b : F[b] # f[x] + F[b \ {x}]
    BY <2>1
  <2> DEFINE y == chosen(b)
  <2>3. b \in SUBSET S /\ y \in b /\ F[b] = f[y] + F[b \ {y}]
    BY <1>1, <1>2, <2>1, <2>2
  <2>4. x # y
    BY <2>2, <2>3
  <2> HIDE DEF y
  <2>5. F[b \ {y}] = f[x] + F[(b \ {y}) \ {x}]
    BY <2>1, <2>2, <2>3, <2>4
  <2>6. F[b \ {x}] = f[y] + F[(b \ {x}) \ {y}]
    BY <2>1, <2>2, <2>3, <2>4
  <2>7. (b \ {x}) \ {y} = (b \ {y}) \ {x}
    OBVIOUS
  <2>8. f[x] \in Nat /\ f[y] \in Nat /\ F[(b \ {y}) \ {x}] \in Nat
    BY <1>4, <2>2, <2>3
  <2>9. F[b] = f[y] + (f[x] + F[(b \ {y}) \ {x}])
    BY <2>3, <2>5
  <2>10. f[x] + F[b \ {x}] = f[x] + (f[y] + F[(b \ {y}) \ {x}])
    BY <2>6, <2>7
  <2> QED BY <2>2, <2>8, <2>9, <2>10
<1> QED BY <1>3, <1>4, <1>5

\* A sum is monotone, and depends on the summands only.
LEMMA SumsCompare ==
  ASSUME NEW S, IsFiniteSet(S), NEW f, \A x \in S : f[x] \in Nat,
         NEW F, IsSum(F, f, S),
         NEW T, IsFiniteSet(T), NEW g, \A x \in T : g[x] \in Nat,
         NEW G, IsSum(G, g, T),
         S \subseteq T, \A x \in S : f[x] <= g[x]
  PROVE  /\ F[S] <= G[S]
         /\ (\A x \in S : f[x] = g[x]) => F[S] = G[S]
<1> DEFINE B1 == {s \in SUBSET S : ~(F[s] <= G[s])}
           B2 == {s \in SUBSET S : F[s] # G[s]}
<1>1. /\ F[{}] = 0 /\ G[{}] = 0
      /\ \A s \in SUBSET S : F[s] \in Nat /\ G[s] \in Nat
      /\ \A s \in SUBSET S : \A x \in s : /\ F[s] = f[x] + F[s \ {x}]
                                          /\ G[s] = g[x] + G[s \ {x}]
  BY SumAnyOrder
<1>2. B1 = {}
  <2> SUFFICES ASSUME B1 # {} PROVE FALSE
    OBVIOUS
  <2>1. PICK b \in B1 : \A x \in b : b \ {x} \notin B1
    <3>1. B1 \in SUBSET SUBSET S
      OBVIOUS
    <3> HIDE DEF B1
    <3> QED BY <3>1, SmallestSubset
  <2>2. PICK x \in b : TRUE
    <3>1. {} \notin B1
      BY <1>1
    <3> QED BY <2>1, <3>1
  <2>3. F[b \ {x}] <= G[b \ {x}] /\ b \in SUBSET S /\ b \ {x} \in SUBSET S
    BY <2>1, <2>2
  <2>4. f[x] <= g[x] /\ f[x] \in Nat /\ g[x] \in Nat
    BY <2>2, <2>3
  <2>5. F[b] = f[x] + F[b \ {x}] /\ G[b] = g[x] + G[b \ {x}]
    BY <1>1, <2>2, <2>3
  <2>6. F[b \ {x}] \in Nat /\ G[b \ {x}] \in Nat
    BY <1>1, <2>3
  <2>7. F[b] <= G[b]
    BY <2>3, <2>4, <2>5, <2>6
  <2> QED BY <2>1, <2>7
<1>3. ASSUME \A x \in S : f[x] = g[x] PROVE B2 = {}
  <2> SUFFICES ASSUME B2 # {} PROVE FALSE
    OBVIOUS
  <2>1. PICK b \in B2 : \A x \in b : b \ {x} \notin B2
    <3>1. B2 \in SUBSET SUBSET S
      OBVIOUS
    <3> HIDE DEF B2
    <3> QED BY <3>1, SmallestSubset
  <2>2. PICK x \in b : TRUE
    BY <1>1, <2>1
  <2>3. F[b \ {x}] = G[b \ {x}] /\ b \in SUBSET S /\ f[x] = g[x]
    BY <1>3, <2>1, <2>2
  <2> QED BY <1>1, <2>1, <2>2, <2>3
<1> QED BY <1>2, <1>3

\* The sum of a function is a number ...
LEMMA SumIsNat ==
  ASSUME NEW S, IsFiniteSet(S), NEW f \in [S -> Nat]
  PROVE  SumFunction(f) \in Nat
  BY SumSolves, SumAnyOrder

\* ... zero if there are no summands ...
LEMMA SumOfNothing ==
  ASSUME NEW f, DOMAIN f = {}
  PROVE  SumFunction(f) = 0
  BY SumSolves, SumAnyOrder, FS_EmptySet

\* ... larger by the value of one more summand ...
LEMMA SumWithOneMore ==
  ASSUME NEW T, IsFiniteSet(T), NEW x \in T, NEW g \in [T -> Nat],
         NEW S, S = T \ {x}, NEW f \in [S -> Nat], \A y \in S : f[y] = g[y]
  PROVE  SumFunction(g) = SumFunction(f) + g[x]
<1>1. IsFiniteSet(S) /\ S \subseteq T /\ S \in SUBSET T /\ T \in SUBSET T
  BY FS_RemoveElement
<1>2. PICK F : IsSum(F, f, S) /\ SumFunction(f) = F[S]
  BY <1>1, SumSolves
<1>3. PICK G : IsSum(G, g, T) /\ SumFunction(g) = G[T]
  BY SumSolves
<1>4. \A y \in T : g[y] \in Nat
  OBVIOUS
<1>5. /\ \A s \in SUBSET T : G[s] \in Nat
      /\ \A s \in SUBSET T : \A y \in s : G[s] = g[y] + G[s \ {y}]
  BY <1>3, <1>4, SumAnyOrder
<1>6. G[T] = g[x] + G[S] /\ G[S] \in Nat
  BY <1>1, <1>5
<1>7. F[S] = G[S]
  <2>1. \A y \in S : f[y] \in Nat /\ f[y] <= g[y]
    BY <1>1, <1>4
  <2> QED BY <1>1, <1>2, <1>3, <1>4, <2>1, SumsCompare
<1> QED BY <1>2, <1>3, <1>4, <1>6, <1>7

\* ... and no smaller when the summands grow.
LEMMA SumMonotone ==
  ASSUME NEW S, IsFiniteSet(S), NEW f \in [S -> Nat], NEW g \in [S -> Nat],
         \A y \in S : f[y] <= g[y]
  PROVE  SumFunction(f) <= SumFunction(g)
<1>1. PICK F : IsSum(F, f, S) /\ SumFunction(f) = F[S]
  BY SumSolves
<1>2. PICK G : IsSum(G, g, S) /\ SumFunction(g) = G[S]
  BY SumSolves
<1> QED BY <1>1, <1>2, SumsCompare

-----------------------------------------------------------------------------
(* The invariant *)

MaxWord == 2^(WordBits - 1) - 1

\* The places of the three functions.
ReservePlaces == {"reserve", "check", "loop", "take", "wait", "unlocked",
                  "parked", "relock", "woken"}
ReleasePlaces == {"release", "give", "broadcast"}
LimitPlaces == {"limit", "set"}

\* What the fields of a call are, by the function that was called.
ReserveCalls ==
  [at : ReservePlaces,
   which : Resources, value : Amounts, timeout : Nat]
ReleaseCalls ==
  {c \in [at : ReleasePlaces, which : Resources,
          value : Amounts \cup {0}, hint : Amounts \cup {0}] :
     c.value = c.hint \/ c.value = 0 \/ c.hint = 0}
LimitCalls == [at : LimitPlaces, which : Resources, value : Limits]

Calls == {NoCall} \cup ReserveCalls \cup ReleaseCalls \cup LimitCalls

TypeOK ==
  /\ m_limit_values \in [Resources -> 0..MaxWord]
  /\ m_current_values \in [Resources -> Int]
  /\ m_current_hints \in [Resources -> Int]
  /\ m_peak_values \in [Resources -> Int]
  /\ live \in [Resources -> Nat] /\ exiting \in [Resources -> Nat]
  /\ tick \in Nat /\ calls \in Nat
  /\ call \in [Threads -> Calls]
  /\ m_lock \in Threads \cup {NoThread}
  /\ scheduler_lock \in Threads \cup {NoThread}
  /\ raised \subseteq Threads /\ terminating \subseteq Threads

\* Each lock is held where the code holds it, and by nobody else.
LocksOK ==
  \A t \in Threads :
    /\ m_lock = t <=> Inside(t)
    /\ scheduler_lock = t <=> At(t, "unlocked")

\* A thread sleeps in the wait list with a timer, and nowhere else.
ListOK ==
  /\ m_wait_list = {t \in Threads : At(t, "parked")}
  /\ timers = m_wait_list

\* m_waiter_count counts the threads that are inside m_cond_var.Wait().
WaitPlaces == {"wait", "unlocked", "parked", "relock", "woken"}
InsideWait == {t \in Threads : call[t].at \in WaitPlaces}
CountOK == m_waiter_count = Cardinality(InsideWait)

BaseInv == TypeOK /\ LocksOK /\ ListOK /\ CountOK

\* The largest word is a number: the first limit lies below it.
LEMMA MaxWordIsNat == MaxWord \in Nat /\ 2^(WordBits - 1) = MaxWord + 1
  BY ConstAssumption DEF MaxWord

\* The amounts and limits are numbers of the word.
LEMMA AmountsAndLimits ==
  /\ \A v \in Amounts : v \in Nat /\ 0 < v /\ v <= MaxWord
  /\ \A v \in Limits : v \in 0..MaxWord
  /\ FirstLimit \in 0..MaxWord
  BY MaxWordIsNat, ConstAssumption DEF MaxWord

\* The function a thread is in tells the fields of its call.
LEMMA CallFields ==
  ASSUME TypeOK, NEW t \in Threads
  PROVE  /\ call[t].at \in ReservePlaces => call[t] \in ReserveCalls
         /\ call[t].at \in ReleasePlaces => call[t] \in ReleaseCalls
         /\ call[t].at \in LimitPlaces => call[t] \in LimitCalls
         /\ At(t, "idle") => call[t] = NoCall
  BY DEF TypeOK, Calls, ReserveCalls, ReleaseCalls, LimitCalls, NoCall, At,
         ReservePlaces, ReleasePlaces, LimitPlaces

\* Within a function the arguments stay.
LEMMA GotoFields ==
  /\ \A c \in ReserveCalls, w \in ReservePlaces :
       /\ [c EXCEPT !.at = w] \in ReserveCalls
       /\ [c EXCEPT !.at = w].at = w
       /\ [c EXCEPT !.at = w].which = c.which
       /\ [c EXCEPT !.at = w].value = c.value
  /\ \A c \in ReleaseCalls, w \in ReleasePlaces :
       /\ [c EXCEPT !.at = w] \in ReleaseCalls
       /\ [c EXCEPT !.at = w].at = w
       /\ [c EXCEPT !.at = w].which = c.which
       /\ [c EXCEPT !.at = w].value = c.value
       /\ [c EXCEPT !.at = w].hint = c.hint
  /\ \A c \in LimitCalls, w \in LimitPlaces :
       /\ [c EXCEPT !.at = w] \in LimitCalls
       /\ [c EXCEPT !.at = w].at = w
       /\ [c EXCEPT !.at = w].which = c.which
       /\ [c EXCEPT !.at = w].value = c.value
<1>1. \A c \in ReserveCalls, w \in ReservePlaces :
        /\ [c EXCEPT !.at = w] \in ReserveCalls
        /\ [c EXCEPT !.at = w].at = w
        /\ [c EXCEPT !.at = w].which = c.which
        /\ [c EXCEPT !.at = w].value = c.value
  BY DEF ReserveCalls
<1>2. \A c \in ReleaseCalls, w \in ReleasePlaces :
        /\ [c EXCEPT !.at = w] \in ReleaseCalls
        /\ [c EXCEPT !.at = w].at = w
        /\ [c EXCEPT !.at = w].which = c.which
        /\ [c EXCEPT !.at = w].value = c.value
        /\ [c EXCEPT !.at = w].hint = c.hint
  BY DEF ReleaseCalls
<1>3. \A c \in LimitCalls, w \in LimitPlaces :
        /\ [c EXCEPT !.at = w] \in LimitCalls
        /\ [c EXCEPT !.at = w].at = w
        /\ [c EXCEPT !.at = w].which = c.which
        /\ [c EXCEPT !.at = w].value = c.value
  BY DEF LimitCalls
<1> QED BY <1>1, <1>2, <1>3

\* A thread that enters Wait(), or leaves it, is counted.
LEMMA WaitersCounted ==
  ASSUME NEW S, S \subseteq Threads
  PROVE  /\ IsFiniteSet(S) /\ Cardinality(S) \in Nat
         /\ Cardinality(S) = 0 <=> S = {}
         /\ \A t \in Threads \ S : Cardinality(S \cup {t}) = Cardinality(S) + 1
         /\ \A t \in S : Cardinality(S \ {t}) = Cardinality(S) - 1
  BY ConstAssumption, FS_Subset, FS_CardinalityType, FS_EmptySet,
     FS_AddElement, FS_RemoveElement

\* Goto() moves one thread.
LEMMA ThreadMoves ==
  ASSUME TypeOK, NEW t \in Threads, NEW w, Goto(t, w),
         \/ call[t] \in ReserveCalls /\ w \in ReservePlaces
         \/ call[t] \in ReleaseCalls /\ w \in ReleasePlaces
         \/ call[t] \in LimitCalls /\ w \in LimitPlaces
  PROVE  /\ call' \in [Threads -> Calls]
         /\ call'[t].at = w
         /\ call'[t].which = call[t].which /\ call'[t].value = call[t].value
         /\ call[t] \in ReleaseCalls => call'[t].hint = call[t].hint
         /\ \A u \in Threads : u # t => call'[u] = call[u]
<1> DEFINE c == [call[t] EXCEPT !.at = w]
<1>1. call' = [call EXCEPT ![t] = c]
  BY DEF Goto, TypeOK
<1>2. call[t] \in ReleaseCalls => w \in ReleasePlaces
  BY DEF ReserveCalls, ReleaseCalls, LimitCalls, ReservePlaces, ReleasePlaces,
         LimitPlaces
<1>3. /\ c \in Calls /\ c.at = w
      /\ c.which = call[t].which /\ c.value = call[t].value
      /\ call[t] \in ReleaseCalls => c.hint = call[t].hint
  BY <1>2, GotoFields DEF Calls
<1> HIDE DEF c
<1> QED BY <1>1, <1>3 DEF TypeOK

\* Lock() lets a thread go on to the place of its function that Entry names.
LEMMA ThreadEnters ==
  ASSUME TypeOK, NEW t \in Threads, call[t].at \in DOMAIN Entry,
         Goto(t, Entry[call[t].at])
  PROVE  /\ call' \in [Threads -> Calls]
         /\ \/ call[t].at = "reserve" /\ call'[t].at = "check"
            \/ call[t].at = "release" /\ call'[t].at = "give"
            \/ call[t].at = "limit" /\ call'[t].at = "set"
            \/ call[t].at = "relock" /\ call'[t].at = "woken"
         /\ call'[t].which = call[t].which /\ call'[t].value = call[t].value
         /\ call[t].at = "release" => call'[t].hint = call[t].hint
         /\ \A u \in Threads : u # t => call'[u] = call[u]
<1> DEFINE w == Entry[call[t].at]
<1>1. \/ call[t].at = "reserve" /\ w = "check"
      \/ call[t].at = "release" /\ w = "give"
      \/ call[t].at = "limit" /\ w = "set"
      \/ call[t].at = "relock" /\ w = "woken"
  BY DEF Entry
<1>2. Goto(t, w)
  OBVIOUS
<1> HIDE DEF w
<1>3. \/ call[t] \in ReserveCalls /\ w \in ReservePlaces
      \/ call[t] \in ReleaseCalls /\ w \in ReleasePlaces
      \/ call[t] \in LimitCalls /\ w \in LimitPlaces
  BY <1>1, CallFields DEF ReservePlaces, ReleasePlaces, LimitPlaces
<1>4. call[t].at = "release" => call[t] \in ReleaseCalls
  BY CallFields DEF ReleasePlaces
<1>5. /\ call' \in [Threads -> Calls]
      /\ call'[t].at = w
      /\ call'[t].which = call[t].which /\ call'[t].value = call[t].value
      /\ call[t] \in ReleaseCalls => call'[t].hint = call[t].hint
      /\ \A u \in Threads : u # t => call'[u] = call[u]
  BY <1>2, <1>3, ThreadMoves
<1> QED BY <1>1, <1>4, <1>5

\* As long as m_lock is owned by the thread inside, nobody is inside with it,
\* and what it updates is not lost.
LEMMA NoRace ==
  ASSUME LocksOK, NEW t \in Threads, Inside(t)
  PROVE  /\ \A u \in Threads \ {t} : ~Inside(u)
         /\ \A old, new : UpdatedValues(t, old, new) = {new}
         /\ \A n : UpdatedCount(t, n) = {n}
<1>1. \A u \in Threads \ {t} : ~Inside(u)
  BY DEF LocksOK
<1>2. \A u \in Threads \ {t} : call[u].at \notin {"take", "give", "loop", "woken"}
  BY <1>1 DEF Inside
<1>3. \A old, new : /\ Updated(t, {"take", "give"}, old, new) = {new}
                    /\ Updated(t, {"loop", "woken"}, old, new) = {new}
  BY <1>2 DEF Updated
<1> QED BY <1>1, <1>3 DEF UpdatedValues, UpdatedCount

\* A call begins or returns: its thread has other fields, the others the same.
LEMMA ThreadCalls ==
  ASSUME TypeOK, NEW t \in Threads, NEW c \in Calls,
         call' = [call EXCEPT ![t] = c]
  PROVE  /\ call' \in [Threads -> Calls]
         /\ call'[t] = c
         /\ \A u \in Threads : u # t => call'[u] = call[u]
  BY DEF TypeOK

\* Threads of the wait list that are woken go on to take m_lock again.
LEMMA ThreadsWoken ==
  ASSUME NEW S \in SUBSET Threads, NEW c \in [Threads -> Calls],
         \A x \in S : c[x] \in ReserveCalls,
         Wake(S, c)
  PROVE  /\ call' \in [Threads -> Calls]
         /\ \A x \in S : call'[x].at = "relock"
         /\ \A x \in Threads \ S : call'[x] = c[x]
<1>1. \A x \in S : /\ [c[x] EXCEPT !.at = "relock"] \in Calls
                   /\ [c[x] EXCEPT !.at = "relock"].at = "relock"
  BY GotoFields DEF Calls, ReservePlaces
<1> QED BY <1>1 DEF Wake

\* The larger of two numbers.
LEMMA MaxOfTwo ==
  ASSUME NEW a \in Int, NEW b \in Int
  PROVE  Max({a, b}) = IF a >= b THEN a ELSE b
<1>1. CASE a >= b
  <2>1. \A x \in {a, b} : (\A y \in {a, b} : x >= y) <=> x = a
    BY <1>1
  <2> QED BY <1>1, <2>1 DEF Max
<1>2. CASE ~(a >= b)
  <2>1. \A x \in {a, b} : (\A y \in {a, b} : x >= y) <=> x = b
    BY <1>2
  <2> QED BY <1>2, <2>1 DEF Max
<1> QED BY <1>1, <1>2

\* What ReserveTake() and Release() do when they own m_lock.
LEMMA TakeAlone ==
  ASSUME LocksOK, NEW t \in Threads, ReserveTake(t)
  PROVE  LET r == call[t].which
             v == call[t].value
             current == WrappingAdd(m_current_values[r], v)
         IN  /\ m_current_values' = [m_current_values EXCEPT ![r] = current]
             /\ m_current_hints' =
                  [m_current_hints EXCEPT ![r] = WrappingAdd(m_current_hints[r], v)]
             /\ m_peak_values' =
                  [m_peak_values EXCEPT ![r] = Max({m_peak_values[r], current})]
  BY NoRace DEF ReserveTake, At, Inside

LEMMA ReleaseAlone ==
  ASSUME LocksOK, NEW t \in Threads, Release(t)
  PROVE  LET r == call[t].which
         IN  /\ m_current_values' =
                  [m_current_values EXCEPT ![r] = m_current_values[r] - call[t].value]
             /\ m_current_hints' =
                  [m_current_hints EXCEPT ![r] = m_current_hints[r] - call[t].hint]
  BY NoRace DEF Release, At, Inside

\* Where a thread is, which lock it holds, who sleeps and who is counted: every
\* step of the program keeps these in agreement, as long as no wait for m_lock
\* is cancelled.
LEMMA BaseStep ==
  ASSUME BaseInv, [Next]_vars, ~cancelled'
  PROVE  BaseInv'
<1> USE DEF BaseInv
<1>0. NoCall \in Calls /\ NoCall.at = "idle"
  BY DEF NoCall, Calls
<1>1. ASSUME NEW t \in Threads, NEW c \in Calls, Call(t, c),
             c.at \in {"reserve", "release", "limit"},
             live' \in [Resources -> Nat], exiting' \in [Resources -> Nat]
      PROVE  BaseInv'
  <2>1. /\ call' \in [Threads -> Calls] /\ call'[t] = c
        /\ \A u \in Threads : u # t => call'[u] = call[u]
    BY <1>1, ThreadCalls DEF Call
  <2>2. TypeOK'
    BY <1>1, <2>1 DEF Call, TypeOK, waiting
  <2>3. LocksOK'
    BY <1>1, <2>1 DEF Call, LocksOK, Inside, At, waiting
  <2>4. ListOK'
    BY <1>1, <2>1 DEF Call, ListOK, At, waiting
  <2>5. InsideWait' = InsideWait
    BY <1>1, <2>1 DEF Call, InsideWait, WaitPlaces, At
  <2> QED BY <1>1, <2>2, <2>3, <2>4, <2>5 DEF Call, CountOK, waiting
<1>2. ASSUME NEW t \in Threads, NEW r \in Resources, NEW v \in Amounts,
             BeginReserve(t, r, v)
      PROVE  BaseInv'
  <2> DEFINE c == [at |-> "reserve", which |-> r, value |-> v,
                   timeout |-> tick + Timeout]
  <2>1. c \in Calls /\ c.at = "reserve"
    BY ConstAssumption DEF Calls, ReserveCalls, ReservePlaces, TypeOK
  <2>2. Call(t, c) /\ UNCHANGED <<live, exiting>>
    BY <1>2 DEF BeginReserve
  <2> HIDE DEF c
  <2> QED BY <1>1, <2>1, <2>2 DEF TypeOK
<1>3. ASSUME NEW t \in Threads, NEW r \in Resources, NEW v \in Amounts,
             BeginRelease(t, r, v)
      PROVE  BaseInv'
  <2>1. PICK c \in ReleaseCalls : Call(t, c) /\ c.at = "release"
    <3>1. \A x, h \in {0, v} : x = h \/ x = 0 \/ h = 0 =>
            [at |-> "release", which |-> r, value |-> x, hint |-> h] \in ReleaseCalls
      BY DEF ReleaseCalls, ReleasePlaces
    <3> QED BY <1>3, <3>1 DEF BeginRelease
  <2>2. live' \in [Resources -> Nat] /\ exiting' \in [Resources -> Nat]
    BY <1>3, AmountsAndLimits DEF BeginRelease, TypeOK
  <2>3. c \in Calls
    BY <2>1 DEF Calls
  <2> QED BY <1>1, <2>1, <2>2, <2>3
<1>4. ASSUME NEW t \in Threads, NEW r \in Resources, NEW v \in Limits,
             BeginSetLimitValue(t, r, v)
      PROVE  BaseInv'
  <2> DEFINE c == [at |-> "limit", which |-> r, value |-> v]
  <2>1. c \in Calls /\ c.at = "limit"
    BY DEF Calls, LimitCalls, LimitPlaces
  <2>2. Call(t, c) /\ UNCHANGED <<live, exiting>>
    BY <1>4 DEF BeginSetLimitValue
  <2> HIDE DEF c
  <2> QED BY <1>1, <2>1, <2>2 DEF TypeOK
\* A step of a thread that does not enter or leave Wait(), nor sleep.
<1>5. ASSUME NEW t \in Threads,
             call[t].at \notin WaitPlaces, call'[t].at \notin WaitPlaces,
             call' \in [Threads -> Calls],
             \A u \in Threads : u # t => call'[u] = call[u],
             m_waiter_count' = m_waiter_count, m_wait_list' = m_wait_list,
             timers' = timers
      PROVE  ListOK' /\ CountOK'
  <2>1. InsideWait' = InsideWait
    BY <1>5 DEF InsideWait
  <2>2. CountOK'
    BY <1>5, <2>1 DEF CountOK
  <2>3. ListOK'
    BY <1>5 DEF ListOK, At, WaitPlaces
  <2> QED BY <2>2, <2>3
<1>6. ASSUME NEW t \in Threads, Lock(t) PROVE BaseInv'
  <2>1. /\ call[t].at \in DOMAIN Entry /\ Goto(t, Entry[call[t].at])
        /\ m_lock = NoThread /\ m_lock' = t /\ UNCHANGED <<values, waiting, outside>>
    BY <1>6 DEF Lock
  <2>2. /\ call' \in [Threads -> Calls]
        /\ \/ call[t].at = "reserve" /\ call'[t].at = "check"
           \/ call[t].at = "release" /\ call'[t].at = "give"
           \/ call[t].at = "limit" /\ call'[t].at = "set"
           \/ call[t].at = "relock" /\ call'[t].at = "woken"
        /\ \A u \in Threads : u # t => call'[u] = call[u]
    BY <2>1, ThreadEnters
  <2>3. TypeOK'
    BY <2>1, <2>2 DEF TypeOK, values, waiting, outside
  <2>4. LocksOK'
    BY <2>1, <2>2, ConstAssumption DEF LocksOK, Inside, At, waiting
  <2>5. ListOK'
    BY <2>1, <2>2 DEF ListOK, At, waiting
  <2>6. InsideWait' = InsideWait
    BY <2>2 DEF InsideWait, WaitPlaces
  <2> QED BY <2>1, <2>3, <2>4, <2>5, <2>6 DEF CountOK, waiting
\* A step that returns.
<1>7. ASSUME NEW t \in Threads, Return(t), m_lock = t,
             call[t].at \in {"check", "loop", "take", "give", "set"},
             m_limit_values' \in [Resources -> 0..MaxWord],
             m_current_values' \in [Resources -> Int],
             m_current_hints' \in [Resources -> Int],
             m_peak_values' \in [Resources -> Int],
             live' \in [Resources -> Nat], exiting' \in [Resources -> Nat],
             raised' \subseteq Threads,
             UNCHANGED <<m_waiter_count, m_wait_list, scheduler_lock, timers, outside>>
      PROVE  BaseInv'
  <2>1. /\ call' \in [Threads -> Calls] /\ call'[t] = NoCall
        /\ \A u \in Threads : u # t => call'[u] = call[u]
    BY <1>0, <1>7, ThreadCalls DEF Return
  <2>2. TypeOK'
    BY <1>7, <2>1 DEF TypeOK, Return, Unlock, outside
  <2>3. LocksOK'
    BY <1>0, <1>7, <2>1, ConstAssumption DEF LocksOK, Inside, Return, Unlock, At
  <2> QED BY <1>0, <1>5, <1>7, <2>1, <2>2, <2>3 DEF At, WaitPlaces
\* A step from one place with m_lock to another, outside of Wait().
<1>7a. ASSUME NEW t \in Threads, NEW w \in {"loop", "take", "broadcast"}, m_lock = t,
              call[t].at \in {"check", "loop", "give"},
              call' \in [Threads -> Calls], call'[t].at = w,
              \A u \in Threads : u # t => call'[u] = call[u],
              m_current_values' \in [Resources -> Int],
              m_current_hints' \in [Resources -> Int],
              exiting' \in [Resources -> Nat],
              UNCHANGED <<m_limit_values, m_peak_values, live, m_lock, waiting, outside>>
      PROVE  BaseInv'
  <2>1. TypeOK'
    BY <1>7a DEF TypeOK, waiting, outside
  <2>2. LocksOK'
    BY <1>7a, ConstAssumption DEF LocksOK, Inside, At, waiting
  <2> QED BY <1>5, <1>7a, <2>1, <2>2 DEF waiting, WaitPlaces
<1>7b. ASSUME NEW t \in Threads, ReserveCheck(t) PROVE BaseInv'
  <2>1. /\ call[t].at = "check" /\ m_lock = t
        /\ UNCHANGED <<values, waiting, outside>>
    BY <1>7b DEF ReserveCheck, LocksOK, Inside, At
  <2>2. CASE HintsAreFull(call[t].which)
    <3>1. Return(t)
      BY <1>7b, <2>2 DEF ReserveCheck
    <3> QED BY <1>7, <2>1, <3>1 DEF TypeOK, values, waiting
  <2>3. CASE ~HintsAreFull(call[t].which)
    <3>1. Goto(t, "loop") /\ UNCHANGED m_lock
      BY <1>7b, <2>3 DEF ReserveCheck
    <3>2. /\ call' \in [Threads -> Calls] /\ call'[t].at = "loop"
          /\ \A u \in Threads : u # t => call'[u] = call[u]
      BY <2>1, <3>1, CallFields, ThreadMoves DEF ReservePlaces
    <3> QED BY <1>7a, <2>1, <3>1, <3>2 DEF TypeOK, values
  <2> QED BY <2>2, <2>3
<1>7c. ASSUME NEW t \in Threads, ReserveFits(t) PROVE BaseInv'
  <2>1. /\ call[t].at = "loop" /\ m_lock = t /\ Goto(t, "take")
        /\ UNCHANGED <<values, waiting, m_lock, outside>>
    BY <1>7c DEF ReserveFits, LocksOK, Inside, At
  <2>2. /\ call' \in [Threads -> Calls] /\ call'[t].at = "take"
        /\ \A u \in Threads : u # t => call'[u] = call[u]
    BY <2>1, CallFields, ThreadMoves DEF ReservePlaces
  <2> QED BY <1>7a, <2>1, <2>2 DEF TypeOK, values
<1>8. \A a, b \in Int : WrappingAdd(a, b) \in Int
  BY MaxWordIsNat DEF WrappingAdd
<1>9. ASSUME NEW t \in Threads, ReserveTake(t) PROVE BaseInv'
  <2> DEFINE r == call[t].which
             v == call[t].value
             current == WrappingAdd(m_current_values[r], v)
  <2>1. At(t, "take") /\ Return(t) /\ m_lock = t
    BY <1>9 DEF ReserveTake, LocksOK, Inside, At
  <2>2. r \in Resources /\ v \in Nat
    BY <2>1, CallFields, AmountsAndLimits DEF ReserveCalls, ReservePlaces, At
  <2>3. /\ m_current_values' = [m_current_values EXCEPT ![r] = current]
        /\ m_current_hints' =
             [m_current_hints EXCEPT ![r] = WrappingAdd(m_current_hints[r], v)]
        /\ m_peak_values' =
             [m_peak_values EXCEPT ![r] = Max({m_peak_values[r], current})]
        /\ live' = [live EXCEPT ![r] = live[r] + v]
        /\ UNCHANGED <<m_limit_values, exiting, waiting, outside>>
    BY <1>9, TakeAlone DEF ReserveTake
  <2>4. current \in Int /\ WrappingAdd(m_current_hints[r], v) \in Int
    <3>1. m_current_values[r] \in Int /\ m_current_hints[r] \in Int /\ v \in Int
      BY <2>2 DEF TypeOK
    <3> HIDE DEF r, v
    <3> QED BY <1>8, <3>1
  <2> HIDE DEF r, v, current
  <2>5. Max({m_peak_values[r], current}) \in Int
    <3>1. m_peak_values[r] \in Int
      BY <2>2 DEF TypeOK
    <3>2. Max({m_peak_values[r], current}) =
            IF m_peak_values[r] >= current THEN m_peak_values[r] ELSE current
      BY <2>4, <3>1, MaxOfTwo
    <3> QED BY <2>4, <3>1, <3>2
  <2>6. /\ m_current_values' \in [Resources -> Int]
        /\ m_current_hints' \in [Resources -> Int]
    BY <2>2, <2>3, <2>4 DEF TypeOK
  <2>7. live' \in [Resources -> Nat]
    BY <2>2, <2>3 DEF TypeOK
  <2>8. m_peak_values' \in [Resources -> Int]
    <3> DEFINE peak == Max({m_peak_values[r], current})
    <3>1. m_peak_values' = [m_peak_values EXCEPT ![r] = peak] /\ peak \in Int
      BY <2>3, <2>5
    <3> HIDE DEF peak
    <3> QED BY <3>1 DEF TypeOK
  <2> QED BY <1>7, <2>1, <2>3, <2>6, <2>7, <2>8 DEF TypeOK, At, waiting
<1>10. ASSUME NEW t \in Threads, ReserveFail(t) PROVE BaseInv'
  <2>1. At(t, "loop") /\ Return(t) /\ m_lock = t /\ UNCHANGED <<values, waiting, outside>>
    BY <1>10 DEF ReserveFail, LocksOK, Inside, At
  <2> QED BY <1>7, <2>1 DEF TypeOK, At, values, waiting
<1>11. ASSUME NEW t \in Threads, ReserveWait(t) PROVE BaseInv'
  <2>1. At(t, "loop") /\ Goto(t, "wait") /\ m_waiter_count' = m_waiter_count + 1
    BY <1>11, NoRace DEF ReserveWait, Inside, At
  <2>2. UNCHANGED <<values, m_wait_list, m_lock, scheduler_lock, timers, raised, outside>>
    BY <1>11 DEF ReserveWait
  <2>3. /\ call' \in [Threads -> Calls] /\ call'[t].at = "wait"
        /\ \A u \in Threads : u # t => call'[u] = call[u]
    BY <2>1, CallFields, ThreadMoves DEF ReservePlaces, At
  <2>4. TypeOK'
    BY <2>2, <2>3 DEF TypeOK, values, outside
  <2>5. LocksOK' /\ ListOK'
    BY <2>1, <2>2, <2>3 DEF LocksOK, ListOK, Inside, At
  <2>6. InsideWait' = InsideWait \cup {t} /\ t \in Threads \ InsideWait
    BY <2>1, <2>3 DEF InsideWait, WaitPlaces, At
  <2>7. CountOK'
    BY <2>1, <2>6, WaitersCounted DEF CountOK, InsideWait
  <2> QED BY <2>4, <2>5, <2>7
<1>12. ASSUME NEW t \in Threads, WaitRefused(t) PROVE BaseInv'
  <2>1. At(t, "wait") /\ Goto(t, "woken") /\ UNCHANGED <<values, waiting, m_lock, outside>>
    BY <1>12 DEF WaitRefused
  <2>2. /\ call' \in [Threads -> Calls] /\ call'[t].at = "woken"
        /\ \A u \in Threads : u # t => call'[u] = call[u]
    BY <2>1, CallFields, ThreadMoves DEF ReservePlaces, At
  <2>3. TypeOK'
    BY <2>1, <2>2 DEF TypeOK, values, waiting, outside
  <2>4. LocksOK' /\ ListOK'
    BY <2>1, <2>2 DEF LocksOK, ListOK, Inside, At, waiting
  <2>5. InsideWait' = InsideWait
    BY <2>1, <2>2 DEF InsideWait, WaitPlaces, At
  <2> QED BY <2>1, <2>3, <2>4, <2>5 DEF CountOK, waiting
<1>13. ASSUME NEW t \in Threads, WaitUnlock(t) PROVE BaseInv'
  <2>1. /\ At(t, "wait") /\ Goto(t, "unlocked") /\ m_lock = t
        /\ scheduler_lock = NoThread /\ scheduler_lock' = t /\ m_lock' = NoThread
    BY <1>13 DEF WaitUnlock, Unlock, LocksOK, Inside, At
  <2>2. UNCHANGED <<values, m_waiter_count, m_wait_list, timers, raised, outside>>
    BY <1>13 DEF WaitUnlock
  <2>3. /\ call' \in [Threads -> Calls] /\ call'[t].at = "unlocked"
        /\ \A u \in Threads : u # t => call'[u] = call[u]
    BY <2>1, CallFields, ThreadMoves DEF ReservePlaces, At
  <2>4. TypeOK'
    BY <2>1, <2>2, <2>3 DEF TypeOK, values, outside
  <2>5. LocksOK' /\ ListOK'
    BY <2>1, <2>2, <2>3, ConstAssumption DEF LocksOK, ListOK, Inside, At
  <2>6. InsideWait' = InsideWait
    BY <2>1, <2>3 DEF InsideWait, WaitPlaces, At
  <2> QED BY <2>2, <2>4, <2>5, <2>6 DEF CountOK
<1>14. ASSUME NEW t \in Threads, WaitPark(t) PROVE BaseInv'
  <2>1. /\ At(t, "unlocked") /\ Goto(t, "parked") /\ scheduler_lock = t
        /\ m_wait_list' = m_wait_list \cup {t} /\ timers' = timers \cup {t}
        /\ scheduler_lock' = NoThread
    BY <1>14 DEF WaitPark, LocksOK, At
  <2>2. UNCHANGED <<values, m_waiter_count, m_lock, raised, outside>>
    BY <1>14 DEF WaitPark
  <2>3. /\ call' \in [Threads -> Calls] /\ call'[t].at = "parked"
        /\ \A u \in Threads : u # t => call'[u] = call[u]
    BY <2>1, CallFields, ThreadMoves DEF ReservePlaces, At
  <2>4. TypeOK'
    BY <2>1, <2>2, <2>3 DEF TypeOK, values, outside
  <2>5. LocksOK'
    BY <2>1, <2>2, <2>3, ConstAssumption DEF LocksOK, Inside, At
  <2>6. ListOK'
    BY <2>1, <2>3 DEF ListOK, At
  <2>7. InsideWait' = InsideWait
    BY <2>1, <2>3 DEF InsideWait, WaitPlaces, At
  <2> QED BY <2>2, <2>4, <2>5, <2>6, <2>7 DEF CountOK
<1>15. ASSUME NEW t \in Threads, ReserveWoken(t) PROVE BaseInv'
  <2>1. At(t, "woken") /\ Goto(t, "loop") /\ m_waiter_count' = m_waiter_count - 1
    BY <1>15, NoRace DEF ReserveWoken, Inside, At
  <2>2. UNCHANGED <<values, m_wait_list, m_lock, scheduler_lock, timers, raised, outside>>
    BY <1>15 DEF ReserveWoken
  <2>3. /\ call' \in [Threads -> Calls] /\ call'[t].at = "loop"
        /\ \A u \in Threads : u # t => call'[u] = call[u]
    BY <2>1, CallFields, ThreadMoves DEF ReservePlaces, At
  <2>4. TypeOK'
    BY <2>2, <2>3 DEF TypeOK, values, outside
  <2>5. LocksOK' /\ ListOK'
    BY <2>1, <2>2, <2>3 DEF LocksOK, ListOK, Inside, At
  <2>6. InsideWait' = InsideWait \ {t} /\ t \in InsideWait
    BY <2>1, <2>3 DEF InsideWait, WaitPlaces, At
  <2>7. CountOK'
    BY <2>1, <2>6, WaitersCounted DEF CountOK, InsideWait
  <2> QED BY <2>4, <2>5, <2>7
\* The steps that wake threads: a wait times out or is cancelled, or all end.
<1>16. ASSUME NEW S \in SUBSET m_wait_list, Wake(S, call), scheduler_lock = NoThread,
              terminating' \subseteq Threads,
              UNCHANGED <<values, m_waiter_count, scheduler_lock, m_lock, tick, calls>>
       PROVE  BaseInv'
  <2>1. S \in SUBSET Threads /\ \A x \in S : At(x, "parked") /\ call[x] \in ReserveCalls
    BY <1>16, CallFields DEF ListOK, ReservePlaces, At
  <2>2. /\ call' \in [Threads -> Calls]
        /\ \A x \in S : call'[x].at = "relock"
        /\ \A x \in Threads \ S : call'[x] = call[x]
    BY <1>16, <2>1, ThreadsWoken DEF TypeOK
  <2>3. TypeOK'
    BY <1>16, <2>2 DEF TypeOK, Wake, values
  <2>4. LocksOK'
    BY <1>16, <2>1, <2>2 DEF LocksOK, Inside, At
  <2>5. ListOK'
    BY <1>16, <2>1, <2>2 DEF ListOK, Wake, At
  <2>6. InsideWait' = InsideWait
    BY <2>1, <2>2 DEF InsideWait, WaitPlaces, At
  <2> QED BY <1>16, <2>3, <2>4, <2>5, <2>6 DEF CountOK
<1>17. ASSUME NEW t \in Threads, TimedOut(t) PROVE BaseInv'
  <2>1. {t} \in SUBSET m_wait_list
    BY <1>17 DEF TimedOut, ListOK
  <2> QED BY <1>16, <1>17, <2>1 DEF TimedOut, TypeOK, outside
<1>18. ASSUME NEW t \in Threads, Terminate(t) PROVE BaseInv'
  <2>1. {t} \cap m_wait_list \in SUBSET m_wait_list
    OBVIOUS
  <2>2. terminating' \subseteq Threads
    BY <1>18 DEF Terminate, TypeOK
  <2>3. Wake({t} \cap m_wait_list, call)
    BY <1>18 DEF Terminate, CancelLockWait
  <2> QED BY <1>16, <1>18, <2>1, <2>2, <2>3 DEF Terminate
<1>19. ASSUME NEW t \in Threads, Release(t) PROVE BaseInv'
  <2> DEFINE r == call[t].which
  <2>1. call[t].at = "give" /\ m_lock = t
    BY <1>19 DEF Release, LocksOK, Inside, At
  <2>2. /\ call[t] \in ReleaseCalls /\ r \in Resources
        /\ call[t].value \in Nat /\ call[t].hint \in Nat
    BY <2>1, CallFields, AmountsAndLimits DEF ReleaseCalls, ReleasePlaces
  <2>3. /\ m_current_values' \in [Resources -> Int]
        /\ m_current_hints' \in [Resources -> Int]
    BY <1>19, <2>2, ReleaseAlone DEF TypeOK
  <2>4. /\ exiting' \in [Resources -> Nat]
        /\ UNCHANGED <<m_limit_values, m_peak_values, live, waiting, outside>>
    BY <1>19, <2>2 DEF Release, TypeOK
  <2>5. CASE ~MustBroadcast
    <3>1. Return(t)
      BY <1>19, <2>5 DEF Release
    <3> QED BY <1>7, <2>1, <2>3, <2>4, <3>1 DEF TypeOK, waiting
  <2>6. CASE MustBroadcast
    <3>1. UNCHANGED m_lock /\ Goto(t, "broadcast")
      BY <1>19, <2>6 DEF Release
    <3>2. /\ call' \in [Threads -> Calls] /\ call'[t].at = "broadcast"
          /\ \A u \in Threads : u # t => call'[u] = call[u]
      BY <2>2, <3>1, ThreadMoves DEF ReleasePlaces
    <3> QED BY <1>7a, <2>1, <2>3, <2>4, <3>1, <3>2
  <2> QED BY <2>5, <2>6
<1>20. ASSUME NEW t \in Threads, Broadcast(t) PROVE BaseInv'
  <2> DEFINE c == [call EXCEPT ![t] = NoCall]
  <2>1. /\ At(t, "broadcast") /\ m_lock = t /\ m_lock' = NoThread
        /\ scheduler_lock = NoThread /\ Wake(m_wait_list, c)
        /\ UNCHANGED <<values, m_waiter_count, scheduler_lock, outside>>
    BY <1>20 DEF Broadcast, Unlock, LocksOK, Inside, At
  <2>2. /\ c \in [Threads -> Calls] /\ c[t] = NoCall
        /\ \A u \in Threads : u # t => c[u] = call[u]
    BY <1>0 DEF TypeOK
  <2> HIDE DEF c
  <2>3. /\ m_wait_list \in SUBSET Threads /\ t \notin m_wait_list
        /\ \A x \in m_wait_list : At(x, "parked") /\ c[x] \in ReserveCalls
    BY <2>1, <2>2, CallFields DEF ListOK, ReservePlaces, At
  <2>4. /\ call' \in [Threads -> Calls]
        /\ \A x \in m_wait_list : call'[x].at = "relock"
        /\ \A x \in Threads \ m_wait_list : call'[x] = c[x]
    BY <2>1, <2>2, <2>3, ThreadsWoken
  <2>5. TypeOK'
    BY <2>1, <2>4 DEF TypeOK, Wake, values, outside
  <2>6. LocksOK'
    BY <1>0, <2>1, <2>2, <2>3, <2>4, ConstAssumption DEF LocksOK, Inside, At
  <2>7. ListOK'
    BY <1>0, <2>1, <2>2, <2>3, <2>4 DEF ListOK, Wake, At
  <2>8. InsideWait' = InsideWait
    BY <1>0, <2>1, <2>2, <2>3, <2>4 DEF InsideWait, WaitPlaces, At
  <2> QED BY <2>1, <2>5, <2>6, <2>7, <2>8 DEF CountOK
<1>21. ASSUME NEW t \in Threads, SetLimitValue(t) PROVE BaseInv'
  <2>1. /\ At(t, "set") /\ m_lock = t /\ Return(t)
        /\ UNCHANGED <<m_current_values, m_current_hints, live, exiting,
                       m_waiter_count, m_wait_list, scheduler_lock, timers, outside>>
    BY <1>21 DEF SetLimitValue, LocksOK, Inside, At
  <2>2. call[t].which \in Resources /\ call[t].value \in 0..MaxWord
    BY <2>1, CallFields, AmountsAndLimits DEF LimitCalls, LimitPlaces, At
  <2>3. /\ m_limit_values' \in [Resources -> 0..MaxWord]
        /\ m_peak_values' \in [Resources -> Int]
        /\ raised' \subseteq Threads
    BY <1>21, <2>2 DEF SetLimitValue, TypeOK
  <2> QED BY <1>7, <2>1, <2>3 DEF TypeOK, At
<1>22. ASSUME Tick PROVE BaseInv'
  BY <1>22 DEF Tick, TypeOK, LocksOK, ListOK, CountOK, InsideWait, Inside, At,
              values, waiting
<1>23. ASSUME UNCHANGED vars PROVE BaseInv'
  BY <1>23 DEF vars, TypeOK, LocksOK, ListOK, CountOK, InsideWait, Inside, At
<1> QED
  BY <1>2, <1>3, <1>4, <1>6, <1>9, <1>10, <1>11, <1>12, <1>13, <1>14, <1>15,
     <1>17, <1>18, <1>19, <1>20, <1>21, <1>22, <1>23, <1>7b, <1>7c DEF Next, Step

-----------------------------------------------------------------------------
(* The accounts *)

\* The places of Release() before it has given back.
Giving == {"release", "give"}

\* Calls c of Release() that are on their way, whatever the calls are: finitely
\* many, and what they give back are numbers.
LEMMA ReleasesOf ==
  ASSUME NEW c \in [Threads -> Calls], NEW S \in SUBSET Threads,
         \A t \in S : c[t].at \in Giving
  PROVE  /\ IsFiniteSet(S)
         /\ \A t \in S : /\ c[t].hint \in Nat /\ c[t].value \in Nat
                         /\ Max({c[t].value, c[t].hint}) \in Nat
                         /\ c[t].hint <= Max({c[t].value, c[t].hint})
<1>1. IsFiniteSet(S)
  BY ConstAssumption, FS_Subset
<1>2. ASSUME NEW t \in S
      PROVE  /\ c[t].hint \in Nat /\ c[t].value \in Nat
             /\ Max({c[t].value, c[t].hint}) \in Nat
             /\ c[t].hint <= Max({c[t].value, c[t].hint})
  <2>1. t \in Threads /\ c[t] \in Calls /\ c[t].at \in Giving
    BY <1>2
  <2>2. c[t] \in ReleaseCalls
    BY <2>1 DEF Calls, ReserveCalls, LimitCalls, NoCall, Giving, ReservePlaces,
               LimitPlaces
  <2>3. c[t].hint \in Nat /\ c[t].value \in Nat
    BY <2>2, AmountsAndLimits DEF ReleaseCalls
  <2>4. Max({c[t].value, c[t].hint}) =
          IF c[t].value >= c[t].hint THEN c[t].value ELSE c[t].hint
    BY <2>3, MaxOfTwo
  <2> QED BY <2>3, <2>4
<1> QED BY <1>1, <1>2

\* What they hold is a number, no smaller in values than in hints.
LEMMA ReleasedSums ==
  ASSUME NEW c \in [Threads -> Calls], NEW S \in SUBSET Threads,
         \A t \in S : c[t].at \in Giving
  PROVE  /\ SumFunction([t \in S |-> c[t].hint]) \in Nat
         /\ SumFunction([t \in S |-> Max({c[t].value, c[t].hint})]) \in Nat
         /\ SumFunction([t \in S |-> c[t].hint])
              <= SumFunction([t \in S |-> Max({c[t].value, c[t].hint})])
<1> DEFINE f == [t \in S |-> c[t].hint]
           g == [t \in S |-> Max({c[t].value, c[t].hint})]
<1>1. IsFiniteSet(S)
  BY ReleasesOf
<1>2. f \in [S -> Nat] /\ g \in [S -> Nat] /\ \A t \in S : f[t] <= g[t]
  BY ReleasesOf
<1> HIDE DEF f, g
<1>3. SumFunction(f) \in Nat /\ SumFunction(g) \in Nat
  BY <1>1, <1>2, SumIsNat
<1>4. SumFunction(f) <= SumFunction(g)
  BY <1>1, <1>2, SumMonotone
<1> QED BY <1>3, <1>4 DEF f, g

\* A Release() that begins holds what it will give back.
LEMMA ReleaseBegins ==
  ASSUME TypeOK, TypeOK', NEW r \in Resources, NEW t \in Threads,
         \A u \in Threads : u # t => call'[u] = call[u],
         call[t].at \notin Giving, call'[t].at \in Giving, call'[t].which = r
  PROVE  /\ ReleasedHints(r)' = ReleasedHints(r) + call'[t].hint
         /\ ReleasedValues(r)' =
              ReleasedValues(r) + Max({call'[t].value, call'[t].hint})
         /\ \A q \in Resources : q # r =>
              /\ ReleasedHints(q)' = ReleasedHints(q)
              /\ ReleasedValues(q)' = ReleasedValues(q)
<1> DEFINE S == Releasing(r)
           T == Releasing(r)'
           f == [u \in S |-> call[u].hint]
           g == [u \in T |-> call'[u].hint]
           ff == [u \in S |-> Max({call[u].value, call[u].hint})]
           gg == [u \in T |-> Max({call'[u].value, call'[u].hint})]
<1>1. t \in T /\ S = T \ {t}
  BY DEF Releasing, Giving
<1>2. f \in [S -> Nat] /\ ff \in [S -> Nat]
  <2>1. \A u \in S : call[u].hint \in Nat /\ Max({call[u].value, call[u].hint}) \in Nat
    <3>1. S \in SUBSET Threads /\ \A u \in S : call[u].at \in Giving
      BY DEF Releasing, Giving
    <3>2. call \in [Threads -> Calls]
      BY DEF TypeOK
    <3> HIDE DEF S
    <3> QED BY <3>1, <3>2, ReleasesOf
  <2> QED BY <2>1
<1>3. IsFiniteSet(T) /\ g \in [T -> Nat] /\ gg \in [T -> Nat]
  <2>1. /\ IsFiniteSet(T)
        /\ \A u \in T : call'[u].hint \in Nat /\ Max({call'[u].value, call'[u].hint}) \in Nat
    <3>1. T \in SUBSET Threads /\ \A u \in T : call'[u].at \in Giving
      BY DEF Releasing, Giving
    <3>2. call' \in [Threads -> Calls]
      BY DEF TypeOK
    <3> HIDE DEF T
    <3> QED BY <3>1, <3>2, ReleasesOf
  <2> QED BY <2>1
<1>4. \A u \in S : f[u] = g[u] /\ ff[u] = gg[u]
  BY <1>1 DEF Releasing
<1>5. g[t] = call'[t].hint /\ gg[t] = Max({call'[t].value, call'[t].hint})
  BY <1>1
<1>6. /\ ReleasedHints(r) = SumFunction(f) /\ ReleasedValues(r) = SumFunction(ff)
      /\ ReleasedHints(r)' = SumFunction(g) /\ ReleasedValues(r)' = SumFunction(gg)
  BY DEF ReleasedHints, ReleasedValues
<1>7. ASSUME NEW q \in Resources, q # r
      PROVE  ReleasedHints(q)' = ReleasedHints(q) /\ ReleasedValues(q)' = ReleasedValues(q)
  <2>1. Releasing(q)' = Releasing(q)
    BY <1>7 DEF Releasing, Giving
  <2>2. \A u \in Releasing(q) : call'[u] = call[u]
    BY <1>7 DEF Releasing, Giving
  <2> QED BY <2>1, <2>2 DEF ReleasedHints, ReleasedValues
<1> HIDE DEF f, g, ff, gg, S, T
<1>8. SumFunction(g) = SumFunction(f) + g[t]
  BY <1>1, <1>2, <1>3, <1>4, SumWithOneMore
<1>9. SumFunction(gg) = SumFunction(ff) + gg[t]
  BY <1>1, <1>2, <1>3, <1>4, SumWithOneMore
<1> QED BY <1>5, <1>6, <1>7, <1>8, <1>9

\* A Release() that has given it back holds nothing any more.
LEMMA ReleaseEnds ==
  ASSUME TypeOK, TypeOK', NEW r \in Resources, NEW t \in Threads,
         \A u \in Threads : u # t => call'[u] = call[u],
         call[t].at \in Giving, call[t].which = r, call'[t].at \notin Giving
  PROVE  /\ ReleasedHints(r) = ReleasedHints(r)' + call[t].hint
         /\ ReleasedValues(r) =
              ReleasedValues(r)' + Max({call[t].value, call[t].hint})
         /\ \A q \in Resources : q # r =>
              /\ ReleasedHints(q)' = ReleasedHints(q)
              /\ ReleasedValues(q)' = ReleasedValues(q)
<1> DEFINE T == Releasing(r)
           S == Releasing(r)'
           g == [u \in T |-> call[u].hint]
           f == [u \in S |-> call'[u].hint]
           gg == [u \in T |-> Max({call[u].value, call[u].hint})]
           ff == [u \in S |-> Max({call'[u].value, call'[u].hint})]
<1>1. t \in T /\ S = T \ {t}
  BY DEF Releasing, Giving
<1>2. IsFiniteSet(T) /\ g \in [T -> Nat] /\ gg \in [T -> Nat]
  <2>1. /\ IsFiniteSet(T)
        /\ \A u \in T : call[u].hint \in Nat /\ Max({call[u].value, call[u].hint}) \in Nat
    <3>1. T \in SUBSET Threads /\ \A u \in T : call[u].at \in Giving
      BY DEF Releasing, Giving
    <3>2. call \in [Threads -> Calls]
      BY DEF TypeOK
    <3> HIDE DEF T
    <3> QED BY <3>1, <3>2, ReleasesOf
  <2> QED BY <2>1
<1>3. f \in [S -> Nat] /\ ff \in [S -> Nat]
  <2>1. \A u \in S : call'[u].hint \in Nat /\ Max({call'[u].value, call'[u].hint}) \in Nat
    <3>1. S \in SUBSET Threads /\ \A u \in S : call'[u].at \in Giving
      BY DEF Releasing, Giving
    <3>2. call' \in [Threads -> Calls]
      BY DEF TypeOK
    <3> HIDE DEF S
    <3> QED BY <3>1, <3>2, ReleasesOf
  <2> QED BY <2>1
<1>4. \A u \in S : f[u] = g[u] /\ ff[u] = gg[u]
  BY <1>1 DEF Releasing
<1>5. g[t] = call[t].hint /\ gg[t] = Max({call[t].value, call[t].hint})
  BY <1>1
<1>6. /\ ReleasedHints(r)' = SumFunction(f) /\ ReleasedValues(r)' = SumFunction(ff)
      /\ ReleasedHints(r) = SumFunction(g) /\ ReleasedValues(r) = SumFunction(gg)
  BY DEF ReleasedHints, ReleasedValues
<1>7. ASSUME NEW q \in Resources, q # r
      PROVE  ReleasedHints(q)' = ReleasedHints(q) /\ ReleasedValues(q)' = ReleasedValues(q)
  <2>1. Releasing(q)' = Releasing(q)
    BY <1>7 DEF Releasing, Giving
  <2>2. \A u \in Releasing(q) : call'[u] = call[u]
    BY <1>7 DEF Releasing, Giving
  <2> QED BY <2>1, <2>2 DEF ReleasedHints, ReleasedValues
<1> HIDE DEF f, g, ff, gg, S, T
<1>8. SumFunction(g) = SumFunction(f) + g[t]
  BY <1>1, <1>2, <1>3, <1>4, SumWithOneMore
<1>9. SumFunction(gg) = SumFunction(ff) + gg[t]
  BY <1>1, <1>2, <1>3, <1>4, SumWithOneMore
<1> QED BY <1>5, <1>6, <1>7, <1>8, <1>9

\* Nothing else changes what is held: a call on its way stays on it with its
\* arguments, the others do not begin one.
HeldKept(u) ==
  \/ call'[u] = call[u]
  \/ call[u].at \notin Giving /\ call'[u].at \notin Giving
  \/ /\ call[u].at \in Giving /\ call'[u].at \in Giving
     /\ call'[u].which = call[u].which /\ call'[u].value = call[u].value
     /\ call'[u].hint = call[u].hint

LEMMA ReleasedUnchanged ==
  ASSUME \A u \in Threads : HeldKept(u)
  PROVE  \A r \in Resources : /\ ReleasedHints(r)' = ReleasedHints(r)
                              /\ ReleasedValues(r)' = ReleasedValues(r)
<1> TAKE r \in Resources
<1>1. Releasing(r)' = Releasing(r)
  BY DEF Releasing, HeldKept, Giving
<1>2. \A u \in Releasing(r) : call'[u].value = call[u].value /\ call'[u].hint = call[u].hint
  BY DEF Releasing, HeldKept, Giving
<1> QED BY <1>1, <1>2 DEF ReleasedHints, ReleasedValues

\* Addition of an amount to a number that is not negative wraps around to a
\* negative number or is exact.
LEMMA WordArithmetic ==
  ASSUME NEW a \in Int, NEW b \in Int, 0 <= a, a <= MaxWord, 0 < b, b <= MaxWord
  PROVE  /\ WrappingAdd(a, b) \in Int
         /\ a + b <= MaxWord => WrappingAdd(a, b) = a + b
         /\ a + b > MaxWord => WrappingAdd(a, b) < 0
<1>1. MaxWord \in Nat /\ WrappingAdd(a, b) =
        ((a + b + (MaxWord + 1)) % (2 * (MaxWord + 1))) - (MaxWord + 1)
  BY MaxWordIsNat DEF WrappingAdd
<1> DEFINE m == MaxWord + 1
           n == a + b + m
<1>2. n \in Nat /\ m \in Nat \ {0}
  BY <1>1
<1>3. CASE a + b <= MaxWord
  <2>1. n % (2 * m) = n
    BY <1>1, <1>2, <1>3
  <2> QED BY <1>1, <1>3, <2>1
<1>4. CASE a + b > MaxWord
  <2>1. n % (2 * m) = n - 2 * m
    BY <1>1, <1>2, <1>4
  <2> QED BY <1>1, <1>4, <2>1
<1> QED BY <1>1, <1>3, <1>4

\* The test of Reserve() is what it looks like for a value within its limit.
LEMMA RoomTest ==
  ASSUME NEW cur \in Int, NEW lim \in 0..MaxWord, 0 <= cur, cur <= lim,
         NEW v \in Amounts
  PROVE  ~(WrappingAdd(cur, v) <= cur) /\ WrappingAdd(cur, v) <= lim <=> cur + v <= lim
<1>1. MaxWord \in Nat /\ v \in Nat /\ 0 < v /\ v <= MaxWord
  BY AmountsAndLimits, MaxWordIsNat
<1>2. /\ WrappingAdd(cur, v) \in Int
      /\ cur + v <= MaxWord => WrappingAdd(cur, v) = cur + v
      /\ cur + v > MaxWord => WrappingAdd(cur, v) < 0
  BY <1>1, WordArithmetic
<1>3. CASE cur + v <= MaxWord
  BY <1>1, <1>2, <1>3
<1>4. CASE cur + v > MaxWord
  BY <1>1, <1>2, <1>4
<1> QED BY <1>1, <1>3, <1>4

\* With the accounts in order, what fits is counted without wrapping around.
LEMMA FitsMeansRoom ==
  ASSUME TypeOK, BooksBalance, NEW r \in Resources, NEW v \in Amounts
  PROVE  /\ Fits(r, v) <=> m_current_values[r] + v <= m_limit_values[r]
         /\ Fits(r, v) => /\ WrappingAdd(m_current_values[r], v) = m_current_values[r] + v
                          /\ WrappingAdd(m_current_hints[r], v) = m_current_hints[r] + v
<1>1. /\ m_current_values[r] \in Int /\ m_limit_values[r] \in 0..MaxWord
      /\ m_current_hints[r] \in Int /\ m_peak_values[r] \in Int /\ MaxWord \in Nat
      /\ v \in Nat /\ 0 < v /\ v <= MaxWord
  BY AmountsAndLimits, MaxWordIsNat DEF TypeOK
<1>2. /\ 0 <= m_current_hints[r] /\ m_current_hints[r] <= m_current_values[r]
      /\ m_current_values[r] <= m_limit_values[r]
  BY <1>1 DEF BooksBalance
<1>3. Fits(r, v) <=> m_current_values[r] + v <= m_limit_values[r]
  BY <1>1, <1>2, RoomTest DEF Fits, WouldOverflow
<1>4. /\ m_current_values[r] + v <= MaxWord =>
           WrappingAdd(m_current_values[r], v) = m_current_values[r] + v
      /\ m_current_hints[r] + v <= MaxWord =>
           WrappingAdd(m_current_hints[r], v) = m_current_hints[r] + v
  BY <1>1, <1>2, WordArithmetic
<1> QED BY <1>1, <1>2, <1>3, <1>4

\* The steps of Reserve() with m_lock: the thread stays in its call or returns.
ReserveStep(t) ==
  \/ ReserveCheck(t) \/ ReserveFits(t) \/ ReserveTake(t) \/ ReserveFail(t)
  \/ ReserveWait(t) \/ WaitRefused(t) \/ WaitUnlock(t) \/ WaitPark(t)
  \/ ReserveWoken(t)

\* The other threads stay where they are.
LEMMA ReserveMoves ==
  ASSUME TypeOK, NEW t \in Threads, ReserveStep(t)
  PROVE  /\ call[t] \in ReserveCalls
         /\ \/ call'[t] = NoCall
            \/ /\ call'[t].at \in ReservePlaces
               /\ call'[t].which = call[t].which
               /\ call'[t].value = call[t].value
         /\ \A u \in Threads : u # t => call'[u] = call[u]
<1>1. call[t].at \in ReservePlaces
  BY DEF ReserveStep, ReserveCheck, ReserveFits, ReserveTake, ReserveFail,
         ReserveWait, WaitRefused, WaitUnlock, WaitPark, ReserveWoken, At,
         ReservePlaces
<1>2. call[t] \in ReserveCalls
  BY <1>1, CallFields
<1>3. CASE Return(t)
  BY <1>2, <1>3 DEF Return, TypeOK
<1>4. CASE \E w \in ReservePlaces : Goto(t, w)
  BY <1>2, <1>4, ThreadMoves
<1>5. Return(t) \/ \E w \in ReservePlaces : Goto(t, w)
  BY DEF ReserveStep, ReserveCheck, ReserveFits, ReserveTake, ReserveFail,
         ReserveWait, WaitRefused, WaitUnlock, WaitPark, ReserveWoken,
         ReservePlaces
<1> QED BY <1>3, <1>4, <1>5

\* A thread that has passed the test of Reserve() has room until it takes it.
TakeOK == \A t \in Threads : At(t, "take") => Fits(call[t].which, call[t].value)

\* Values and limits change only in the hands of the thread with m_lock, which
\* is then no longer, and nobody else is, about to take.
LEMMA TakeStep ==
  ASSUME BaseInv, BaseInv', TakeOK, [Next]_vars, ~cancelled'
  PROVE  TakeOK'
<1> USE DEF BaseInv
<1>1. ASSUME UNCHANGED <<m_current_values, m_limit_values>>,
             \A u \in Threads : At(u, "take")' =>
               /\ Fits(call[u].which, call[u].value)
               /\ call'[u].which = call[u].which /\ call'[u].value = call[u].value
      PROVE  TakeOK'
  BY <1>1 DEF TakeOK, Fits, WouldOverflow, WrappingAdd
\* The thread with m_lock moves to another place.
<1>2. ASSUME NEW t \in Threads, Inside(t), call'[t].at # "take",
             \A u \in Threads : u # t => call'[u] = call[u]
      PROVE  TakeOK'
  <2>1. \A u \in Threads : u # t => call'[u].at # "take"
    BY <1>2, NoRace DEF Inside
  <2> QED BY <1>2, <2>1 DEF TakeOK, At
\* No thread comes to "take", and nothing it looks at changes.
<1>3. ASSUME UNCHANGED <<m_current_values, m_limit_values>>,
             \A u \in Threads : call'[u] = call[u] \/ call'[u].at # "take"
      PROVE  TakeOK'
  BY <1>1, <1>3 DEF TakeOK, At
<1>4. ASSUME NEW t \in Threads, NEW c, Call(t, c), c.at # "take" PROVE TakeOK'
  BY <1>3, <1>4 DEF Call, TypeOK
<1>5. ASSUME NEW t \in Threads, NEW r \in Resources,
             \/ \E v \in Amounts : BeginReserve(t, r, v) \/ BeginRelease(t, r, v)
             \/ \E v \in Limits : BeginSetLimitValue(t, r, v)
      PROVE  TakeOK'
  BY <1>4, <1>5 DEF BeginReserve, BeginRelease, BeginSetLimitValue
<1>6. ASSUME NEW t \in Threads, Lock(t) PROVE TakeOK'
  <2>1. \A u \in Threads : call'[u] = call[u] \/ call'[u].at # "take"
    BY <1>6, ThreadEnters DEF Lock
  <2> QED BY <1>3, <1>6, <2>1 DEF Lock, values
<1>7. ASSUME NEW t \in Threads, ReserveFits(t) PROVE TakeOK'
  <2>1. /\ \A u \in Threads : u # t => call'[u] = call[u]
        /\ call'[t].which = call[t].which /\ call'[t].value = call[t].value
    BY <1>7, CallFields, ThreadMoves DEF ReserveFits, At, ReservePlaces
  <2>2. Fits(call[t].which, call[t].value) /\ UNCHANGED <<m_current_values, m_limit_values>>
    BY <1>7 DEF ReserveFits, values
  <2> QED BY <1>1, <2>1, <2>2 DEF TakeOK, At
<1>8. ASSUME NEW t \in Threads, NEW w \in {"loop", "wait", "unlocked", "parked", "woken"},
             call[t].at \in ReservePlaces, Goto(t, w),
             UNCHANGED <<m_current_values, m_limit_values>>
      PROVE  TakeOK'
  <2>1. /\ \A u \in Threads : u # t => call'[u] = call[u]
        /\ call'[t].at = w
    BY <1>8, CallFields, ThreadMoves DEF ReservePlaces
  <2> QED BY <1>3, <1>8, <2>1
<1>9. ASSUME NEW t \in Threads, Return(t), Inside(t) PROVE TakeOK'
  BY <1>2, <1>9 DEF Return, NoCall, TypeOK
<1>10. ASSUME NEW t \in Threads, ReserveStep(t) PROVE TakeOK'
  <2>1. CASE ReserveCheck(t)
    BY <1>8, <1>9, <2>1 DEF ReserveCheck, At, Inside, ReservePlaces, values
  <2>2. CASE ReserveTake(t) \/ ReserveFail(t)
    BY <1>9, <2>2 DEF ReserveTake, ReserveFail, At, Inside
  <2>3. CASE ReserveWait(t) \/ WaitRefused(t) \/ WaitUnlock(t) \/ WaitPark(t)
             \/ ReserveWoken(t)
    BY <1>8, <2>3 DEF ReserveWait, WaitRefused, WaitUnlock, WaitPark, ReserveWoken,
                      At, ReservePlaces, values
  <2> QED BY <1>7, <1>10, <2>1, <2>2, <2>3 DEF ReserveStep
<1>11. ASSUME NEW t \in Threads, Release(t) PROVE TakeOK'
  <2>1. CASE Return(t)
    BY <1>9, <1>11, <2>1 DEF Release, At, Inside
  <2>2. CASE Goto(t, "broadcast")
    <3>1. call'[t].at = "broadcast" /\ \A u \in Threads : u # t => call'[u] = call[u]
      BY <1>11, <2>2, CallFields, ThreadMoves DEF Release, At, ReleasePlaces
    <3> QED BY <1>2, <1>11, <3>1 DEF Release, At, Inside
  <2> QED BY <1>11, <2>1, <2>2 DEF Release
<1>12. ASSUME NEW t \in Threads, SetLimitValue(t) PROVE TakeOK'
  BY <1>9, <1>12 DEF SetLimitValue, At, Inside
<1>13. ASSUME NEW S, NEW c, Wake(S, c), c \in [Threads -> Calls],
              UNCHANGED values,
              \A x \in S \cap Threads : c[x] \in ReserveCalls,
              \A u \in Threads : c[u] = call[u] \/ c[u] = NoCall
       PROVE  TakeOK'
  <2>1. \A x \in S \cap Threads : [c[x] EXCEPT !.at = "relock"].at = "relock"
    BY <1>13, GotoFields DEF ReservePlaces
  <2>2. \A u \in Threads : call'[u] = call[u] \/ call'[u].at # "take"
    BY <1>13, <2>1 DEF Wake, NoCall
  <2> QED BY <1>3, <1>13, <2>2 DEF values
<1>14. \A x \in m_wait_list : x \in Threads /\ call[x] \in ReserveCalls
  BY CallFields DEF ListOK, ReservePlaces, At
<1>15. ASSUME NEW t \in Threads, TimedOut(t) PROVE TakeOK'
  BY <1>13, <1>14, <1>15 DEF TimedOut, ListOK, TypeOK
<1>16. ASSUME NEW t \in Threads, Terminate(t) PROVE TakeOK'
  <2>1. Wake({t} \cap m_wait_list, call) /\ UNCHANGED values
    BY <1>16 DEF Terminate, CancelLockWait
  <2> QED BY <1>13, <1>14, <2>1 DEF TypeOK
<1>17. ASSUME NEW t \in Threads, Broadcast(t) PROVE TakeOK'
  <2> DEFINE c == [call EXCEPT ![t] = NoCall]
  <2>1. Wake(m_wait_list, c) /\ UNCHANGED values /\ call[t].at = "broadcast"
    BY <1>17 DEF Broadcast, At
  <2>2. c \in [Threads -> Calls] /\ \A u \in Threads : c[u] = call[u] \/ c[u] = NoCall
    BY DEF TypeOK, Calls
  <2>3. \A x \in m_wait_list : c[x] \in ReserveCalls
    BY <1>14, <2>1 DEF ListOK, At, TypeOK
  <2> HIDE DEF c
  <2> QED BY <1>13, <2>1, <2>2, <2>3
<1>18. ASSUME Tick \/ UNCHANGED vars PROVE TakeOK'
  BY <1>3, <1>18 DEF Tick, vars, values
<1> QED
  BY <1>5, <1>6, <1>10, <1>11, <1>12, <1>15, <1>16, <1>17, <1>18
  DEF Next, Step, ReserveStep

\* Every step keeps the accounts.
LEMMA AccountStep ==
  ASSUME BaseInv, BaseInv', TakeOK, BooksBalance, [Next]_vars, ~cancelled'
  PROVE  BooksBalance'
<1> USE DEF BaseInv
\* A number in front of the sums of every resource.
<1>0. /\ \A r \in Resources :
           /\ ReleasedHints(r) \in Nat /\ ReleasedValues(r) \in Nat
           /\ ReleasedHints(r) <= ReleasedValues(r)
      /\ \A r \in Resources :
           /\ ReleasedHints(r)' \in Nat /\ ReleasedValues(r)' \in Nat
           /\ ReleasedHints(r)' <= ReleasedValues(r)'
  <2>1. call \in [Threads -> Calls] /\ call' \in [Threads -> Calls]
    BY DEF TypeOK
  <2>2. \A r : /\ Releasing(r) \in SUBSET Threads
               /\ \A t \in Releasing(r) : call[t].at \in Giving
    BY DEF Releasing, Giving
  <2>3. \A r : /\ Releasing(r)' \in SUBSET Threads
               /\ \A t \in Releasing(r)' : call'[t].at \in Giving
    BY DEF Releasing, Giving
  <2>4. ASSUME NEW r \in Resources
        PROVE  /\ ReleasedHints(r) \in Nat /\ ReleasedValues(r) \in Nat
               /\ ReleasedHints(r) <= ReleasedValues(r)
    BY <2>1, <2>2, ReleasedSums DEF ReleasedHints, ReleasedValues
  <2>5. ASSUME NEW r \in Resources
        PROVE  /\ ReleasedHints(r)' \in Nat /\ ReleasedValues(r)' \in Nat
               /\ ReleasedHints(r)' <= ReleasedValues(r)'
    BY <2>1, <2>3, ReleasedSums DEF ReleasedHints, ReleasedValues
  <2> QED BY <2>4, <2>5
\* A step that moves no account and no Release().
<1>1. ASSUME UNCHANGED values,
             \A u \in Threads : HeldKept(u)
      PROVE  BooksBalance'
  BY <1>1, ReleasedUnchanged DEF BooksBalance, values
<1>2. ASSUME NEW t \in Threads, NEW r \in Resources, NEW v \in Amounts,
             BeginReserve(t, r, v)
      PROVE  BooksBalance'
  <2>1. /\ \A u \in Threads : u # t => call'[u] = call[u]
        /\ call[t].at = "idle" /\ call'[t].at = "reserve"
    BY <1>2 DEF BeginReserve, Call, TypeOK, At
  <2>2. UNCHANGED values
    BY <1>2 DEF BeginReserve, Call, values
  <2> QED BY <1>1, <2>1, <2>2 DEF HeldKept, Giving
<1>3. ASSUME NEW t \in Threads, NEW r \in Resources, NEW v \in Limits,
             BeginSetLimitValue(t, r, v)
      PROVE  BooksBalance'
  <2>1. /\ \A u \in Threads : u # t => call'[u] = call[u]
        /\ call[t].at = "idle" /\ call'[t].at = "limit"
    BY <1>3 DEF BeginSetLimitValue, Call, TypeOK, At
  <2>2. UNCHANGED values
    BY <1>3 DEF BeginSetLimitValue, Call, values
  <2> QED BY <1>1, <2>1, <2>2 DEF HeldKept, Giving
<1>4. ASSUME NEW t \in Threads, NEW r \in Resources, NEW v \in Amounts,
             BeginRelease(t, r, v)
      PROVE  BooksBalance'
  <2>1. v \in Nat /\ 0 < v
    BY AmountsAndLimits
  <2>2. /\ \A u \in Threads : u # t => call'[u] = call[u]
        /\ call[t].at \notin Giving /\ call'[t].at \in Giving /\ call'[t].which = r
        /\ UNCHANGED <<m_limit_values, m_current_values, m_current_hints, m_peak_values>>
    BY <1>4 DEF BeginRelease, Call, TypeOK, At, Giving
  <2>3. \/ /\ live' = [live EXCEPT ![r] = live[r] - v] /\ exiting' = exiting
           /\ call'[t].value \in {0, v} /\ call'[t].hint = v
        \/ /\ exiting' = [exiting EXCEPT ![r] = exiting[r] - v] /\ live' = live
           /\ call'[t].value = v /\ call'[t].hint = 0
    BY <1>4 DEF BeginRelease, Call, TypeOK
  <2>4. Max({call'[t].value, call'[t].hint}) = v
    <3>1. call'[t].value \in Int /\ call'[t].hint \in Int
      BY <2>1, <2>3
    <3>2. Max({call'[t].value, call'[t].hint}) =
            IF call'[t].value >= call'[t].hint THEN call'[t].value ELSE call'[t].hint
      BY <3>1, MaxOfTwo
    <3> QED BY <2>1, <2>3, <3>2
  <2>5. /\ ReleasedHints(r)' = ReleasedHints(r) + call'[t].hint
        /\ ReleasedValues(r)' = ReleasedValues(r) + v
        /\ \A q \in Resources : q # r => /\ ReleasedHints(q)' = ReleasedHints(q)
                                         /\ ReleasedValues(q)' = ReleasedValues(q)
    BY <2>2, <2>4, ReleaseBegins
  <2>6. /\ live'[r] + ReleasedHints(r)' = live[r] + ReleasedHints(r)
        /\ live'[r] + exiting'[r] + ReleasedValues(r)' =
             live[r] + exiting[r] + ReleasedValues(r)
    BY <1>0, <2>1, <2>3, <2>5 DEF TypeOK
  <2>7. \A q \in Resources : q # r => live'[q] = live[q] /\ exiting'[q] = exiting[q]
    BY <2>3 DEF TypeOK
  <2> QED BY <2>2, <2>5, <2>6, <2>7 DEF BooksBalance
<1>5. ASSUME NEW t \in Threads, ReserveTake(t) PROVE BooksBalance'
  <2>1. PICK r \in Resources, v \in Amounts : r = call[t].which /\ v = call[t].value
    <3>1. call[t] \in ReserveCalls
      BY <1>5, ReserveMoves DEF ReserveStep
    <3> QED BY <3>1 DEF ReserveCalls
  <2>2. v \in Nat /\ 0 < v /\ Fits(r, v)
    BY <1>5, <2>1, AmountsAndLimits DEF ReserveTake, TakeOK
  <2>3. /\ WrappingAdd(m_current_values[r], v) = m_current_values[r] + v
        /\ WrappingAdd(m_current_hints[r], v) = m_current_hints[r] + v
        /\ m_current_values[r] + v <= m_limit_values[r]
    BY <2>1, <2>2, FitsMeansRoom
  <2>4. /\ m_current_values' = [m_current_values EXCEPT ![r] = m_current_values[r] + v]
        /\ m_current_hints' = [m_current_hints EXCEPT ![r] = m_current_hints[r] + v]
        /\ m_peak_values' = [m_peak_values EXCEPT
                               ![r] = Max({m_peak_values[r], m_current_values[r] + v})]
        /\ live' = [live EXCEPT ![r] = live[r] + v]
        /\ UNCHANGED <<m_limit_values, exiting>>
    BY <1>5, <2>1, <2>3, TakeAlone DEF ReserveTake
  <2>5. \A u \in Threads : HeldKept(u)
    BY <1>5, ReserveMoves DEF ReserveStep, ReserveCalls, NoCall, HeldKept, Giving,
                              ReservePlaces
  <2>6. \A q \in Resources : /\ ReleasedHints(q)' = ReleasedHints(q)
                             /\ ReleasedValues(q)' = ReleasedValues(q)
    BY <2>5, ReleasedUnchanged
  <2>7. \A q \in Resources : /\ m_current_values[q] \in Int /\ m_current_hints[q] \in Int
                             /\ m_peak_values[q] \in Int /\ m_limit_values[q] \in Int
                             /\ live[q] \in Nat /\ exiting[q] \in Nat
    BY DEF TypeOK
  <2>8. Max({m_peak_values[r], m_current_values[r] + v}) =
          IF m_peak_values[r] >= m_current_values[r] + v THEN m_peak_values[r]
          ELSE m_current_values[r] + v
    BY <2>1, <2>2, <2>7, MaxOfTwo
  <2>9. ASSUME NEW q \in Resources, q # r
        PROVE  /\ m_current_values'[q] = m_current_values[q]
               /\ m_current_hints'[q] = m_current_hints[q]
               /\ m_peak_values'[q] = m_peak_values[q]
               /\ live'[q] = live[q] /\ exiting'[q] = exiting[q]
               /\ m_limit_values'[q] = m_limit_values[q]
    BY <2>4, <2>9 DEF TypeOK
  <2>10. /\ m_current_values'[r] = m_current_values[r] + v
         /\ m_current_hints'[r] = m_current_hints[r] + v
         /\ m_peak_values'[r] = Max({m_peak_values[r], m_current_values[r] + v})
         /\ live'[r] = live[r] + v /\ exiting'[r] = exiting[r]
         /\ m_limit_values'[r] = m_limit_values[r]
    BY <2>1, <2>4 DEF TypeOK
  <2>11. /\ 0 <= m_current_hints'[r]
         /\ m_current_hints'[r] <= m_current_values'[r]
         /\ m_current_values'[r] <= m_peak_values'[r]
         /\ m_peak_values'[r] <= m_limit_values'[r]
    BY <2>1, <2>2, <2>3, <2>7, <2>8, <2>10 DEF BooksBalance
  <2>12. /\ m_current_hints'[r] = live'[r] + ReleasedHints(r)'
         /\ m_current_values'[r] = live'[r] + exiting'[r] + ReleasedValues(r)'
    <3>1. /\ m_current_hints[r] = live[r] + ReleasedHints(r)
          /\ m_current_values[r] = live[r] + exiting[r] + ReleasedValues(r)
      BY <2>1 DEF BooksBalance
    <3> QED BY <1>0, <2>1, <2>2, <2>6, <2>7, <2>10, <3>1
  <2>13. ASSUME NEW q \in Resources, q # r
         PROVE  /\ 0 <= m_current_hints'[q]
                /\ m_current_hints'[q] <= m_current_values'[q]
                /\ m_current_values'[q] <= m_peak_values'[q]
                /\ m_peak_values'[q] <= m_limit_values'[q]
                /\ m_current_hints'[q] = live'[q] + ReleasedHints(q)'
                /\ m_current_values'[q] = live'[q] + exiting'[q] + ReleasedValues(q)'
    BY <2>6, <2>9, <2>13 DEF BooksBalance
  <2> QED BY <2>11, <2>12, <2>13 DEF BooksBalance
<1>6. ASSUME NEW t \in Threads, ReserveStep(t), UNCHANGED values PROVE BooksBalance'
  <2>1. \A u \in Threads : HeldKept(u)
    BY <1>6, ReserveMoves DEF ReserveCalls, NoCall, HeldKept, Giving, ReservePlaces
  <2> QED BY <1>1, <1>6, <2>1
<1>7. ASSUME NEW S \in SUBSET Threads, NEW c \in [Threads -> Calls], Wake(S, c),
             UNCHANGED values,
             \A x \in S : c[x].at = "parked",
             \A u \in Threads : c[u] = call[u] \/ (call[u].at \notin Giving /\ c[u] = NoCall)
      PROVE  BooksBalance'
  <2>1. \A x \in S : c[x] \in ReserveCalls
    BY <1>7 DEF Calls, ReserveCalls, ReleaseCalls, LimitCalls, NoCall,
               ReleasePlaces, LimitPlaces
  <2>2. /\ \A x \in S : call'[x].at = "relock"
        /\ \A x \in Threads \ S : call'[x] = c[x]
    BY <1>7, <2>1, ThreadsWoken
  <2>3. \A u \in Threads : HeldKept(u)
    BY <1>7, <2>2 DEF NoCall, HeldKept, Giving
  <2> QED BY <1>1, <1>7, <2>3
<1>8. ASSUME NEW t \in Threads, TimedOut(t) PROVE BooksBalance'
  <2>1. /\ {t} \in SUBSET Threads /\ call \in [Threads -> Calls]
        /\ \A x \in {t} : call[x].at = "parked"
    BY <1>8 DEF TimedOut, ListOK, At, TypeOK
  <2> QED BY <1>7, <1>8, <2>1 DEF TimedOut
<1>9. ASSUME NEW t \in Threads, Terminate(t) PROVE BooksBalance'
  <2> DEFINE S == {t} \cap m_wait_list
  <2>1. /\ S \in SUBSET Threads /\ call \in [Threads -> Calls]
        /\ \A x \in S : call[x].at = "parked"
    BY DEF ListOK, At, TypeOK
  <2>2. Wake(S, call) /\ UNCHANGED values
    BY <1>9 DEF Terminate, CancelLockWait
  <2> HIDE DEF S
  <2> QED BY <1>7, <2>1, <2>2
<1>10. ASSUME NEW t \in Threads, Broadcast(t) PROVE BooksBalance'
  <2> DEFINE c == [call EXCEPT ![t] = NoCall]
  <2>1. Wake(m_wait_list, c) /\ UNCHANGED values /\ call[t].at = "broadcast"
    BY <1>10 DEF Broadcast, At
  <2>2. /\ c \in [Threads -> Calls]
        /\ \A u \in Threads : c[u] = call[u] \/ (call[u].at \notin Giving /\ c[u] = NoCall)
        /\ \A u \in Threads : u # t => c[u] = call[u]
    BY <2>1 DEF TypeOK, Calls, Giving
  <2>3. /\ m_wait_list \in SUBSET Threads
        /\ \A x \in m_wait_list : c[x].at = "parked"
    BY <2>1, <2>2 DEF ListOK, At
  <2> HIDE DEF c
  <2> QED BY <1>7, <2>1, <2>2, <2>3
<1>11. ASSUME NEW t \in Threads, Release(t) PROVE BooksBalance'
  <2>1. call[t].at \in Giving
    BY <1>11 DEF Release, At, Giving
  <2>0. call[t] \in ReleaseCalls
    BY <2>1, CallFields DEF Giving, ReleasePlaces
  <2>2. PICK r \in Resources, v \in Nat, h \in Nat :
          /\ r = call[t].which /\ v = call[t].value /\ h = call[t].hint
          /\ v = h \/ v = 0 \/ h = 0
    BY <2>0, AmountsAndLimits DEF ReleaseCalls
  <2>3. call'[t].at \notin Giving /\ \A u \in Threads : u # t => call'[u] = call[u]
    <3>1. CASE Return(t)
      BY <3>1 DEF Return, TypeOK, NoCall, Giving
    <3>2. CASE Goto(t, "broadcast")
      BY <2>0, <3>2, ThreadMoves DEF ReleasePlaces, Giving
    <3> QED BY <1>11, <3>1, <3>2 DEF Release
  <2>4. /\ m_current_values' = [m_current_values EXCEPT ![r] = m_current_values[r] - v]
        /\ m_current_hints' = [m_current_hints EXCEPT ![r] = m_current_hints[r] - h]
        /\ exiting' = IF v = 0 THEN [exiting EXCEPT ![r] = exiting[r] + h] ELSE exiting
        /\ UNCHANGED <<m_limit_values, m_peak_values, live>>
    BY <1>11, <2>2, ReleaseAlone DEF Release
  <2>5. Max({v, h}) = IF v >= h THEN v ELSE h
    BY <2>2, MaxOfTwo
  <2>6. /\ ReleasedHints(r) = ReleasedHints(r)' + h
        /\ ReleasedValues(r) = ReleasedValues(r)' + Max({v, h})
        /\ \A q \in Resources : q # r => /\ ReleasedHints(q)' = ReleasedHints(q)
                                         /\ ReleasedValues(q)' = ReleasedValues(q)
    BY <2>1, <2>2, <2>3, ReleaseEnds
  <2>7. \A q \in Resources : /\ m_current_values[q] \in Int /\ m_current_hints[q] \in Int
                             /\ m_peak_values[q] \in Int /\ m_limit_values[q] \in Int
                             /\ live[q] \in Nat /\ exiting[q] \in Nat
    BY DEF TypeOK
  <2>8. ASSUME NEW q \in Resources, q # r
        PROVE  /\ m_current_values'[q] = m_current_values[q]
               /\ m_current_hints'[q] = m_current_hints[q]
               /\ m_peak_values'[q] = m_peak_values[q]
               /\ live'[q] = live[q] /\ exiting'[q] = exiting[q]
               /\ m_limit_values'[q] = m_limit_values[q]
    BY <2>4, <2>8 DEF TypeOK
  <2>9. /\ m_current_values'[r] = m_current_values[r] - v
        /\ m_current_hints'[r] = m_current_hints[r] - h
        /\ exiting'[r] = IF v = 0 THEN exiting[r] + h ELSE exiting[r]
        /\ m_peak_values'[r] = m_peak_values[r]
        /\ live'[r] = live[r]
        /\ m_limit_values'[r] = m_limit_values[r]
    BY <2>2, <2>4 DEF TypeOK
  <2>10. /\ m_current_hints[r] = live[r] + ReleasedHints(r)
         /\ m_current_values[r] = live[r] + exiting[r] + ReleasedValues(r)
         /\ m_current_values[r] <= m_peak_values[r]
         /\ m_peak_values[r] <= m_limit_values[r]
    BY <2>2 DEF BooksBalance
  <2>11. m_current_hints'[r] = live'[r] + ReleasedHints(r)'
    BY <1>0, <2>2, <2>6, <2>7, <2>9, <2>10
  <2>12. m_current_values'[r] = live'[r] + exiting'[r] + ReleasedValues(r)'
    BY <1>0, <2>2, <2>5, <2>6, <2>7, <2>9, <2>10
  <2>13. /\ 0 <= m_current_hints'[r]
         /\ m_current_hints'[r] <= m_current_values'[r]
         /\ m_current_values'[r] <= m_peak_values'[r]
         /\ m_peak_values'[r] <= m_limit_values'[r]
    BY <1>0, <2>2, <2>7, <2>9, <2>10, <2>11, <2>12
  <2>14. ASSUME NEW q \in Resources, q # r
         PROVE  /\ 0 <= m_current_hints'[q]
                /\ m_current_hints'[q] <= m_current_values'[q]
                /\ m_current_values'[q] <= m_peak_values'[q]
                /\ m_peak_values'[q] <= m_limit_values'[q]
                /\ m_current_hints'[q] = live'[q] + ReleasedHints(q)'
                /\ m_current_values'[q] = live'[q] + exiting'[q] + ReleasedValues(q)'
    BY <2>6, <2>8, <2>14 DEF BooksBalance
  <2> QED BY <2>11, <2>12, <2>13, <2>14 DEF BooksBalance
<1>12. ASSUME NEW t \in Threads, SetLimitValue(t) PROVE BooksBalance'
  <2>1. call[t].at = "set" /\ Return(t)
        /\ UNCHANGED <<m_current_values, m_current_hints, live, exiting>>
    BY <1>12 DEF SetLimitValue, At
  <2>2. PICK r \in Resources, v \in Nat : r = call[t].which /\ v = call[t].value
    <3>1. call[t] \in LimitCalls
      BY <2>1, CallFields DEF LimitPlaces
    <3> QED BY <3>1, AmountsAndLimits DEF LimitCalls
  <2>3. \A u \in Threads : HeldKept(u)
    BY <2>1 DEF Return, NoCall, TypeOK, HeldKept, Giving
  <2>4. \A q \in Resources : /\ ReleasedHints(q)' = ReleasedHints(q)
                             /\ ReleasedValues(q)' = ReleasedValues(q)
    BY <2>3, ReleasedUnchanged
  <2>5. CASE MaySetLimit(r, v)
    <3>1. /\ m_limit_values' = [m_limit_values EXCEPT ![r] = v]
          /\ m_peak_values' = [m_peak_values EXCEPT ![r] = m_current_values[r]]
          /\ m_current_values[r] <= v
      BY <1>12, <2>2, <2>5 DEF SetLimitValue, MaySetLimit
    <3>2. \A q \in Resources : /\ m_current_values[q] \in Int /\ m_current_hints[q] \in Int
                               /\ m_peak_values[q] \in Int /\ m_limit_values[q] \in Int
      BY DEF TypeOK
    <3>3. ASSUME NEW q \in Resources
          PROVE  /\ m_peak_values'[q] = IF q = r THEN m_current_values[r]
                                        ELSE m_peak_values[q]
                 /\ m_limit_values'[q] = IF q = r THEN v ELSE m_limit_values[q]
      BY <3>1 DEF TypeOK
    <3> QED BY <2>1, <2>2, <2>4, <3>1, <3>2, <3>3 DEF BooksBalance
  <2>6. CASE ~MaySetLimit(r, v)
    <3>1. UNCHANGED values
      BY <1>12, <2>1, <2>2, <2>6 DEF SetLimitValue, values
    <3> QED BY <1>1, <2>3, <3>1
  <2> QED BY <2>5, <2>6
<1>13. ASSUME Tick \/ UNCHANGED vars PROVE BooksBalance'
  BY <1>1, <1>13 DEF Tick, vars, values, HeldKept
<1>14. \A t \in Threads :
         ReserveStep(t) => ReserveTake(t) \/ UNCHANGED values
  BY DEF ReserveStep, ReserveCheck, ReserveFits, ReserveFail, ReserveWait,
         WaitRefused, WaitUnlock, WaitPark, ReserveWoken
<1>15. \A t \in Threads : Step(t) => \/ Lock(t) \/ ReserveStep(t) \/ Release(t)
                                     \/ Broadcast(t) \/ SetLimitValue(t)
  BY DEF Step, ReserveStep
<1>16. ASSUME NEW t \in Threads, Lock(t) PROVE BooksBalance'
  <2>1. \A u \in Threads : HeldKept(u)
    BY <1>16, ThreadEnters DEF Lock, HeldKept, Giving
  <2> QED BY <1>1, <1>16, <2>1 DEF Lock
<1> QED
  BY <1>2, <1>3, <1>4, <1>5, <1>6, <1>8, <1>9, <1>10, <1>11, <1>12, <1>13, <1>14,
     <1>15, <1>16 DEF Next

-----------------------------------------------------------------------------
(* Sleepers *)

NoRoom(t) == ~Fits(call[t].which, call[t].value)
Announced == \E u \in Threads : At(u, "broadcast")

\* NoSleepWithRoom is about the wait list; a thread is on its way there from the
\* moment it has found no room, through the unlock of m_lock to the insertion.
SleepOK ==
  \A t \in Threads :
    /\ At(t, "wait") => NoRoom(t)
    /\ call[t].at \in {"unlocked", "parked"} /\ t \notin raised => NoRoom(t) \/ Announced

\* A step that leaves the values and limits alone: who sleeps after it slept, or
\* had found no room, before it.
LEMMA SleepKept ==
  ASSUME UNCHANGED <<m_current_values, m_limit_values>>,
         Announced => Announced',
         \A t \in Threads :
           /\ call'[t].at \in {"wait", "unlocked", "parked"} =>
                call'[t].which = call[t].which /\ call'[t].value = call[t].value
           /\ call'[t].at = "wait" => NoRoom(t)
           /\ call'[t].at \in {"unlocked", "parked"} /\ t \notin raised' =>
                NoRoom(t) \/ Announced
  PROVE  SleepOK'
  BY DEF SleepOK, NoRoom, Fits, WouldOverflow, WrappingAdd, At

\* Every step keeps the promise to those who sleep.
LEMMA SleepStep ==
  ASSUME BaseInv, BaseInv', TakeOK, BooksBalance, BooksBalance', SleepOK,
         [Next]_vars, ~cancelled'
  PROVE  SleepOK'
<1> USE DEF BaseInv
\* A thread with m_lock that is not about to broadcast is alone.
<1>0. ASSUME NEW t \in Threads, Inside(t) PROVE Announced => At(t, "broadcast")
  BY <1>0, NoRace DEF Announced, Inside, At
<1>1. ASSUME NEW t \in Threads, NEW c, Call(t, c),
             c.at \in {"reserve", "release", "limit"}
      PROVE  SleepOK'
  <2>1. /\ call[t].at = "idle" /\ call'[t].at \in {"reserve", "release", "limit"}
        /\ \A u \in Threads : u # t => call'[u] = call[u]
        /\ UNCHANGED <<m_current_values, m_limit_values, m_lock, raised>>
    BY <1>1 DEF Call, TypeOK, At, waiting
  <2>2. Announced => Announced'
    BY <2>1 DEF Announced, At
  <2> QED BY <2>1, <2>2, SleepKept DEF SleepOK, At
<1>2. ASSUME NEW t \in Threads, NEW r \in Resources,
             \/ \E v \in Amounts : BeginReserve(t, r, v) \/ BeginRelease(t, r, v)
             \/ \E v \in Limits : BeginSetLimitValue(t, r, v)
      PROVE  SleepOK'
  BY <1>1, <1>2 DEF BeginReserve, BeginRelease, BeginSetLimitValue
<1>3. ASSUME NEW t \in Threads, Lock(t) PROVE SleepOK'
  <2>1. /\ \A u \in Threads : u # t => call'[u] = call[u]
        /\ call[t].at \in DOMAIN Entry
        /\ call'[t].at \in {"check", "give", "set", "woken"}
        /\ UNCHANGED <<m_current_values, m_limit_values, raised>>
    BY <1>3, ThreadEnters DEF Lock, values, waiting
  <2>2. Announced => Announced'
    BY <2>1 DEF Announced, At, Entry
  <2> QED BY <2>1, <2>2, SleepKept DEF SleepOK, At
\* A thread with m_lock goes on in Reserve(), with nothing changed.
<1>4. ASSUME NEW t \in Threads, call[t].at \in {"check", "loop", "wait", "woken"},
             \/ Return(t)
             \/ \E w \in {"loop", "take", "woken"} : Goto(t, w),
             UNCHANGED <<m_current_values, m_limit_values, raised>>
      PROVE  SleepOK'
  <2>1. ~Announced
    BY <1>0, <1>4 DEF Inside, At
  <2>2. /\ call'[t].at \notin {"wait", "unlocked", "parked"}
        /\ \A u \in Threads : u # t => call'[u] = call[u]
    <3>1. CASE Return(t)
      BY <3>1 DEF Return, NoCall, TypeOK
    <3>2. CASE \E w \in {"loop", "take", "woken"} : Goto(t, w)
      <4>1. PICK w \in {"loop", "take", "woken"} : Goto(t, w)
        BY <3>2
      <4>2. call[t] \in ReserveCalls /\ w \in ReservePlaces
        BY <1>4, CallFields DEF ReservePlaces
      <4>3. call'[t].at = w /\ \A u \in Threads : u # t => call'[u] = call[u]
        BY <4>1, <4>2, ThreadMoves
      <4> QED BY <4>3
    <3> QED BY <1>4, <3>1, <3>2
  <2> QED BY <1>4, <2>1, <2>2, SleepKept DEF SleepOK, At
<1>5. ASSUME NEW t \in Threads, ReserveWait(t) PROVE SleepOK'
  <2>1. /\ call[t].at = "loop" /\ NoRoom(t) /\ Goto(t, "wait")
        /\ UNCHANGED <<m_current_values, m_limit_values, raised>>
    BY <1>5 DEF ReserveWait, At, NoRoom, values
  <2>2. ~Announced
    BY <1>0, <2>1 DEF Inside, At
  <2>3. /\ call'[t].at = "wait"
        /\ call'[t].which = call[t].which /\ call'[t].value = call[t].value
        /\ \A u \in Threads : u # t => call'[u] = call[u]
    BY <2>1, CallFields, ThreadMoves DEF ReservePlaces
  <2> QED BY <2>1, <2>2, <2>3, SleepKept DEF SleepOK, At
<1>6. ASSUME NEW t \in Threads,
             \/ ReserveCheck(t) \/ ReserveFits(t) \/ ReserveFail(t)
             \/ WaitRefused(t) \/ ReserveWoken(t)
      PROVE  SleepOK'
  <2>1. call[t].at \in {"check", "loop", "wait", "woken"}
    BY <1>6 DEF ReserveCheck, ReserveFits, ReserveFail, WaitRefused, ReserveWoken, At
  <2>2. Return(t) \/ \E w \in {"loop", "take", "woken"} : Goto(t, w)
    BY <1>6 DEF ReserveCheck, ReserveFits, ReserveFail, WaitRefused, ReserveWoken
  <2>3. UNCHANGED <<m_current_values, m_limit_values, raised>>
    BY <1>6 DEF ReserveCheck, ReserveFits, ReserveFail, WaitRefused, ReserveWoken,
                values, waiting
  <2> QED BY <1>4, <2>1, <2>2, <2>3
<1>7. ASSUME NEW t \in Threads, WaitUnlock(t) PROVE SleepOK'
  <2>1. /\ call[t].at = "wait" /\ Goto(t, "unlocked")
        /\ UNCHANGED <<m_current_values, m_limit_values, raised>>
    BY <1>7 DEF WaitUnlock, At, values
  <2>2. ~Announced /\ NoRoom(t)
    BY <1>0, <2>1 DEF Inside, At, SleepOK
  <2>3. /\ call'[t].at = "unlocked"
        /\ call'[t].which = call[t].which /\ call'[t].value = call[t].value
        /\ \A u \in Threads : u # t => call'[u] = call[u]
    BY <2>1, CallFields, ThreadMoves DEF ReservePlaces
  <2> QED BY <2>1, <2>2, <2>3, SleepKept DEF SleepOK, At
<1>8. ASSUME NEW t \in Threads, WaitPark(t) PROVE SleepOK'
  <2>1. /\ call[t].at = "unlocked" /\ Goto(t, "parked")
        /\ UNCHANGED <<m_current_values, m_limit_values, raised>>
    BY <1>8 DEF WaitPark, At, values
  <2>2. /\ call'[t].at = "parked"
        /\ call'[t].which = call[t].which /\ call'[t].value = call[t].value
        /\ \A u \in Threads : u # t => call'[u] = call[u]
    BY <2>1, CallFields, ThreadMoves DEF ReservePlaces
  <2>3. Announced => Announced'
    BY <2>1, <2>2 DEF Announced, At
  <2> QED BY <2>1, <2>2, <2>3, SleepKept DEF SleepOK, At
\* Of the threads that sleep, some wake up.
<1>9. ASSUME NEW S \in SUBSET m_wait_list, Wake(S, call), UNCHANGED values
      PROVE  SleepOK'
  <2>1. S \in SUBSET Threads /\ \A x \in S : At(x, "parked") /\ call[x] \in ReserveCalls
    BY <1>9, CallFields DEF ListOK, ReservePlaces, At
  <2>2. /\ \A x \in S : call'[x].at = "relock"
        /\ \A x \in Threads \ S : call'[x] = call[x]
    BY <1>9, <2>1, ThreadsWoken DEF TypeOK
  <2>3. Announced => Announced'
    BY <1>9, <2>1, <2>2 DEF Announced, At
  <2>4. raised' = raised \ S /\ UNCHANGED <<m_current_values, m_limit_values>>
    BY <1>9 DEF Wake, values
  <2> QED BY <2>2, <2>3, <2>4, SleepKept DEF SleepOK, At
<1>10. ASSUME NEW t \in Threads, TimedOut(t) \/ Terminate(t) PROVE SleepOK'
  <2>1. CASE TimedOut(t)
    <3>1. {t} \in SUBSET m_wait_list
      BY <2>1 DEF TimedOut, ListOK
    <3> QED BY <1>9, <2>1, <3>1 DEF TimedOut
  <2>2. CASE Terminate(t)
    <3>1. {t} \cap m_wait_list \in SUBSET m_wait_list
      OBVIOUS
    <3>2. Wake({t} \cap m_wait_list, call)
      BY <2>2 DEF Terminate, CancelLockWait
    <3> QED BY <1>9, <2>2, <3>1, <3>2 DEF Terminate
  <2> QED BY <1>10, <2>1, <2>2
\* Everybody wakes up: nobody is between the unlock and the list, because the
\* scheduler lock is free.
<1>11. ASSUME NEW t \in Threads, Broadcast(t) PROVE SleepOK'
  <2> DEFINE c == [call EXCEPT ![t] = NoCall]
  <2>1. /\ call[t].at = "broadcast"
        /\ scheduler_lock = NoThread /\ Wake(m_wait_list, c)
        /\ UNCHANGED <<m_current_values, m_limit_values>>
    BY <1>11 DEF Broadcast, At, values
  <2>2. /\ c \in [Threads -> Calls] /\ c[t] = NoCall
        /\ \A u \in Threads : u # t => c[u] = call[u]
    BY DEF TypeOK, Calls
  <2> HIDE DEF c
  <2>3. /\ m_wait_list \in SUBSET Threads
        /\ \A x \in m_wait_list : c[x] \in ReserveCalls
    BY <2>1, <2>2, CallFields DEF ListOK, ReservePlaces, At
  <2>4. /\ \A x \in m_wait_list : call'[x].at = "relock"
        /\ \A x \in Threads \ m_wait_list : call'[x] = c[x]
    BY <2>1, <2>2, <2>3, ThreadsWoken
  <2>5. \A u \in Threads :
          call'[u].at \notin {"wait", "unlocked", "parked"}
    <3>1. \A u \in Threads : call[u].at \notin {"wait", "unlocked"}
      BY <2>1, NoRace, ConstAssumption DEF LocksOK, Inside, At
    <3> QED BY <2>1, <2>2, <2>4, <3>1 DEF ListOK, At, NoCall
  <2> QED BY <2>5 DEF SleepOK, At
<1>12. \A u \in Threads :
         call[u].at \in {"wait", "unlocked", "parked"} =>
           call[u].which \in Resources /\ call[u].value \in Amounts
  BY CallFields DEF ReserveCalls, ReservePlaces
\* In both states the test of Reserve() compares numbers.
<1>13. ASSUME NEW q \in Resources, NEW w \in Amounts
       PROVE  /\ Fits(q, w) <=> m_current_values[q] + w <= m_limit_values[q]
              /\ Fits(q, w)' <=> m_current_values'[q] + w <= m_limit_values'[q]
  <2>1. /\ m_current_values'[q] \in Int /\ m_limit_values'[q] \in 0..MaxWord
        /\ m_current_hints'[q] \in Int /\ m_peak_values'[q] \in Int
    BY DEF TypeOK
  <2>2. 0 <= m_current_values'[q] /\ m_current_values'[q] <= m_limit_values'[q]
    BY <2>1, MaxWordIsNat DEF BooksBalance
  <2>3. Fits(q, w)' <=> m_current_values'[q] + w <= m_limit_values'[q]
    BY <2>1, <2>2, RoomTest DEF Fits, WouldOverflow
  <2> QED BY <2>3, FitsMeansRoom
<1>14. \A q \in Resources : /\ m_current_values[q] \in Int /\ m_limit_values[q] \in Int
                            /\ m_current_values'[q] \in Int /\ m_limit_values'[q] \in Int
  BY MaxWordIsNat DEF TypeOK
\* Less room does not let anybody in.
<1>15. ASSUME NEW t \in Threads, ReserveTake(t) PROVE SleepOK'
  <2>1. call[t].at = "take"
    BY <1>15 DEF ReserveTake, At
  <2>2. ~Announced
    BY <1>0, <2>1 DEF Inside, At
  <2>3. call'[t].at = "idle" /\ \A u \in Threads : u # t => call'[u] = call[u]
    BY <1>15 DEF ReserveTake, Return, NoCall, TypeOK
  <2>4. PICK r \in Resources, v \in Amounts : r = call[t].which /\ v = call[t].value
    BY <2>1, CallFields DEF ReserveCalls, ReservePlaces
  <2>5. /\ v \in Nat /\ UNCHANGED <<m_limit_values, raised>>
        /\ m_current_values' = [m_current_values EXCEPT ![r] = m_current_values[r] + v]
    <3>1. WrappingAdd(m_current_values[r], v) = m_current_values[r] + v
      BY <2>1, <2>4, FitsMeansRoom DEF TakeOK, At
    <3> QED BY <1>15, <2>4, <3>1, AmountsAndLimits, TakeAlone DEF ReserveTake, waiting
  <2>6. \A q \in Resources : m_current_values[q] <= m_current_values'[q]
    BY <1>14, <2>5 DEF TypeOK
  <2>7. ASSUME NEW q \in Resources, NEW w \in Amounts, ~Fits(q, w) PROVE ~Fits(q, w)'
    BY <1>13, <1>14, <2>5, <2>6, <2>7, AmountsAndLimits
  <2>8. \A u \in Threads :
          /\ call[u].at = "wait" => ~Fits(call[u].which, call[u].value)
          /\ call[u].at \in {"unlocked", "parked"} /\ u \notin raised =>
               ~Fits(call[u].which, call[u].value)
    BY <2>2 DEF SleepOK, NoRoom, At
  <2>9. ASSUME NEW u \in Threads, u # t,
               \/ call[u].at = "wait"
               \/ call[u].at \in {"unlocked", "parked"} /\ u \notin raised
        PROVE  NoRoom(u)'
    <3>1. PICK q \in Resources, w \in Amounts :
            q = call[u].which /\ w = call[u].value /\ ~Fits(q, w)
      BY <1>12, <2>8, <2>9
    <3>2. ~Fits(q, w)'
      BY <2>7, <3>1
    <3>3. q = call'[u].which /\ w = call'[u].value
      BY <2>3, <2>9, <3>1
    <3> QED BY <3>2, <3>3 DEF NoRoom, Fits, WouldOverflow
  <2> QED BY <2>3, <2>5, <2>9 DEF SleepOK, At
\* More room is announced, if anybody waits for it.
<1>16. ASSUME NEW t \in Threads, Release(t) PROVE SleepOK'
  <2>1. call[t].at = "give"
    BY <1>16 DEF Release, At
  <2>2. \A u \in Threads : call[u].at # "wait"
    BY <2>1, NoRace DEF Inside
  <2>3. CASE MustBroadcast
    <3>1. Goto(t, "broadcast")
      BY <1>16, <2>3 DEF Release
    <3>2. call'[t].at = "broadcast" /\ \A u \in Threads : u # t => call'[u] = call[u]
      BY <2>1, <3>1, CallFields, ThreadMoves DEF ReleasePlaces
    <3>3. Announced'
      BY <3>2 DEF Announced, At
    <3> QED BY <2>2, <3>2, <3>3 DEF SleepOK, At
  <2>4. CASE ~MustBroadcast
    <3>1. Return(t)
      BY <1>16, <2>4 DEF Release
    <3>2. InsideWait = {}
      BY <2>4, WaitersCounted DEF MustBroadcast, CountOK, InsideWait
    <3>3. \A u \in Threads : call[u].at \notin {"wait", "unlocked", "parked"}
      BY <3>2 DEF InsideWait, WaitPlaces
    <3>4. call'[t].at = "idle" /\ \A u \in Threads : u # t => call'[u] = call[u]
      BY <3>1 DEF Return, NoCall, TypeOK
    <3> QED BY <3>3, <3>4 DEF SleepOK, At
  <2> QED BY <2>3, <2>4
\* A lower limit lets nobody in, and a higher one is noted in raised.
<1>17. ASSUME NEW t \in Threads, SetLimitValue(t) PROVE SleepOK'
  <2>1. call[t].at = "set" /\ Return(t) /\ UNCHANGED m_current_values
    BY <1>17 DEF SetLimitValue, At
  <2>2. ~Announced /\ \A u \in Threads : call[u].at # "wait"
    BY <1>0, <2>1, NoRace DEF Inside, At
  <2>3. call'[t].at = "idle" /\ \A u \in Threads : u # t => call'[u] = call[u]
    BY <2>1 DEF Return, NoCall, TypeOK
  <2>4. PICK r \in Resources, v \in Nat : r = call[t].which /\ v = call[t].value
    <3>1. call[t] \in LimitCalls
      BY <2>1, CallFields DEF LimitPlaces
    <3> QED BY <3>1, AmountsAndLimits DEF LimitCalls
  <2>5. ASSUME NEW u \in Threads, u # t, call[u].at \in {"unlocked", "parked"},
               u \notin raised'
        PROVE  NoRoom(u)'
    <3>1. u \notin raised /\ m_limit_values'[call[u].which] <= m_limit_values[call[u].which]
      <4>1. CASE MaySetLimit(r, v)
        <5>1. /\ m_limit_values' = [m_limit_values EXCEPT ![r] = v]
              /\ u \notin raised
              /\ ~(call[u].which = r /\ v > m_limit_values[r])
          BY <1>17, <2>4, <2>5, <4>1 DEF SetLimitValue
        <5> QED BY <1>12, <1>14, <2>5, <5>1 DEF TypeOK
      <4>2. CASE ~MaySetLimit(r, v)
        <5>1. UNCHANGED <<m_limit_values, raised>>
          BY <1>17, <2>4, <4>2 DEF SetLimitValue
        <5> QED BY <1>12, <1>14, <2>5, <5>1
      <4> QED BY <4>1, <4>2
    <3>2. PICK q \in Resources, w \in Amounts :
            q = call[u].which /\ w = call[u].value /\ ~Fits(q, w)
      BY <1>12, <2>2, <2>5, <3>1 DEF SleepOK, NoRoom, At
    <3>3. ~Fits(q, w)'
      BY <1>13, <1>14, <2>1, <3>1, <3>2, AmountsAndLimits
    <3>4. q = call'[u].which /\ w = call'[u].value
      BY <2>3, <2>5, <3>2
    <3> QED BY <3>3, <3>4 DEF NoRoom, Fits, WouldOverflow
  <2> QED BY <2>2, <2>3, <2>5 DEF SleepOK, At
<1>18. ASSUME Tick \/ UNCHANGED vars PROVE SleepOK'
  BY <1>18, SleepKept DEF Tick, vars, values, waiting, SleepOK, Announced, At
<1> QED
  BY <1>2, <1>3, <1>5, <1>6, <1>7, <1>8, <1>10, <1>11, <1>15, <1>16, <1>17,
     <1>18 DEF Next, Step

-----------------------------------------------------------------------------
(* The theorems *)

Inv == BaseInv /\ TakeOK /\ BooksBalance /\ SleepOK

\* A terminated thread may pass Lock() without m_lock, and nothing of this is
\* true any more: the invariant of the program ends there.
InvUntilCancel == ~cancelled => Inv

\* The invariant holds at first, and every step keeps it.
LEMMA InvInit == Init => InvUntilCancel
<1> SUFFICES ASSUME Init PROVE Inv
  BY DEF InvUntilCancel
<1>1. NoCall \in Calls /\ NoCall.at = "idle"
  BY DEF NoCall, Calls
<1>2. TypeOK
  BY <1>1, AmountsAndLimits DEF Init, TypeOK
<1>3. LocksOK /\ ListOK
  BY <1>1, ConstAssumption DEF Init, LocksOK, ListOK, Inside, At
<1>4. InsideWait = {}
  BY <1>1 DEF Init, InsideWait, WaitPlaces
<1>5. CountOK
  BY <1>4, FS_EmptySet DEF Init, CountOK
<1>6. BooksBalance
  <2>1. \A r \in Resources : Releasing(r) = {}
    BY <1>1 DEF Init, Releasing
  <2>2. \A r \in Resources : ReleasedHints(r) = 0 /\ ReleasedValues(r) = 0
    BY <2>1, SumOfNothing DEF ReleasedHints, ReleasedValues
  <2> QED BY <2>2, AmountsAndLimits, MaxWordIsNat DEF Init, BooksBalance
<1>7. SleepOK /\ TakeOK
  BY <1>1 DEF Init, SleepOK, TakeOK, At
<1> QED BY <1>2, <1>3, <1>5, <1>6, <1>7 DEF Inv, BaseInv

\* A cancelled wait is not forgotten.
LEMMA CancelledStays == [Next]_vars /\ ~cancelled' => ~cancelled
<1> SUFFICES ASSUME [Next]_vars, ~cancelled' PROVE ~cancelled
  OBVIOUS
<1>1. ASSUME NEW t \in Threads, NEW c, Call(t, c) PROVE ~cancelled
  BY <1>1 DEF Call
<1>2. ASSUME NEW t \in Threads, NEW r \in Resources,
             \/ \E v \in Amounts : BeginReserve(t, r, v) \/ BeginRelease(t, r, v)
             \/ \E v \in Limits : BeginSetLimitValue(t, r, v)
      PROVE  ~cancelled
  BY <1>1, <1>2 DEF BeginReserve, BeginRelease, BeginSetLimitValue
<1>3. ASSUME NEW t \in Threads, Step(t) PROVE ~cancelled
  BY <1>3 DEF Step, Lock, ReserveCheck, ReserveFits, ReserveTake, ReserveFail,
              ReserveWait, WaitRefused, WaitUnlock, WaitPark, ReserveWoken,
              Release, Broadcast, SetLimitValue, outside
<1>4. ASSUME NEW t \in Threads, TimedOut(t) \/ Terminate(t) PROVE ~cancelled
  BY <1>4 DEF TimedOut, Terminate, CancelLockWait, outside
<1>5. ASSUME Tick \/ UNCHANGED vars PROVE ~cancelled
  BY <1>5 DEF Tick, vars
<1> QED BY <1>2, <1>3, <1>4, <1>5 DEF Next

\* The parts of the invariant rest on each other in this order.
LEMMA InvStep == InvUntilCancel /\ [Next]_vars => InvUntilCancel'
<1> SUFFICES ASSUME InvUntilCancel, [Next]_vars, ~cancelled' PROVE Inv'
  BY DEF InvUntilCancel
<1>1. Inv
  BY CancelledStays DEF InvUntilCancel
<1> QED BY <1>1, BaseStep, TakeStep, AccountStep, SleepStep DEF Inv

\* The assertions of KResourceLimit hold, and its counters are the amounts the
\* objects of the guest hold: Reserve(), Release() and SetLimitValue() of any
\* number of threads, with amounts up to the largest s64, terminations included,
\* until one of them cancels a wait for m_lock.
THEOREM AccountsAreExact == Spec => []Accounted
<1>1. InvUntilCancel => Accounted
  BY DEF InvUntilCancel, Inv, Accounted
<1> QED BY <1>1, InvInit, InvStep, PTL DEF Spec

\* No thread sleeps in KLightConditionVariable::Wait() while what Reserve() asks
\* for would fit, unless the broadcast is about to come or the limit was raised,
\* until a termination cancels a wait for m_lock.
THEOREM SleepersHaveNoRoom == Spec => []NoSleepWithRoom
<1>1. InvUntilCancel => NoSleepWithRoom
  BY DEF InvUntilCancel, Inv, BaseInv, SleepOK, ListOK, NoSleepWithRoom,
         SleepersAreTold, NoRoom, Announced, At
<1> QED BY <1>1, InvInit, InvStep, PTL DEF Spec

\* Until a wait for m_lock is cancelled, m_lock is held exactly where the code
\* holds it, and the wait list, the timers and m_waiter_count agree with the
\* threads that wait: Release() may look at the count alone to decide whether
\* anybody has to be told.
THEOREM WaitersAreCounted ==
  Spec => [](~cancelled => LocksOK /\ ListOK /\ CountOK)
<1>1. InvUntilCancel => (~cancelled => LocksOK /\ ListOK /\ CountOK)
  BY DEF InvUntilCancel, Inv, BaseInv
<1> QED BY <1>1, InvInit, InvStep, PTL DEF Spec
=============================================================================
