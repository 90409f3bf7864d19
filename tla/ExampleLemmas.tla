----------------------------- MODULE ExampleLemmas -----------------------------
(***************************************************************************)
(* Lemmas that the proofs about the programs under src/examples share.     *)
(*                                                                         *)
(* What the sums of the models (MapThenSumSet of FiniteSetsExt) are worth, *)
(* for finite sets of any size: the offsets and the lengths that           *)
(* writing_to_file_threaded.c adds up, and the averages of                 *)
(* image_blurring_multithreaded.c.  A sum is defined by recursion over the *)
(* subsets of a set.  The induction is over a set of subsets, so that no   *)
(* operator has to be instantiated: the strict subset ordering of a finite *)
(* set is well-founded, so if some subset is missing from the set of       *)
(* subsets, a smallest one is.                                             *)
(*                                                                         *)
(* And who is in the backlog of PoolContract after each of its steps.      *)
(***************************************************************************)
EXTENDS Integers, Sequences, FiniteSets, FiniteSetsExt, FiniteSetTheorems,
        SequenceTheorems, WellFoundedInduction, TLAPS


(* The sum of f over S.                                                    *)
Total(f, S) == MapThenSumSet(LAMBDA x : f[x], S)

Some(s) == CHOOSE x \in s : TRUE

\* g is the sum of f over each of the subsets of S.
SumsUp(g, f, S) ==
  g = [s \in SUBSET S |-> IF s = {} THEN 0 ELSE f[Some(s)] + g[s \ {Some(s)}]]

-----------------------------------------------------------------------------
(* Induction, and that the recursion defines a function.                   *)

(* What holds of every subset of S of which it holds for all smaller ones  *)
(* holds of S.                                                             *)
LEMMA SubsetInduction ==
  ASSUME NEW S, IsFiniteSet(S), NEW Q,
         \A T \in SUBSET S : (\A U \in SUBSET T : U # T => U \in Q) => T \in Q
  PROVE  S \in Q
<1>. DEFINE Missing == {T \in SUBSET S : T \notin Q}
<1>1. SUFFICES ASSUME Missing # {} PROVE FALSE
  OBVIOUS
<1>2. Missing \subseteq FiniteSubsetsOf(S)
  BY FS_FiniteSubsetsOfFinite
<1>3. PICK T \in Missing : \A U \in Missing : <<U, T>> \notin StrictSubsetOrdering(S)
  <2>. HIDE DEF Missing
  <2>. QED BY <1>1, <1>2, FS_StrictSubsetOrderingWellFounded, WFMin
<1>4. \A U \in SUBSET T : U # T => U \in Q
  BY <1>3 DEF StrictSubsetOrdering
<1>. QED BY <1>3, <1>4

(* The element taken out of a set that is not empty is one of its own.     *)
LEMMA SomeIn == ASSUME NEW s, s # {} PROVE Some(s) \in s
BY DEF Some

(* The sum over the empty set.                                             *)
LEMMA SumsUpEmpty == ASSUME NEW S, NEW f, NEW g, SumsUp(g, f, S) PROVE g[{}] = 0
BY DEF SumsUp

(* The sum over a set that is not empty.                                   *)
LEMMA SumsUpMore ==
  ASSUME NEW S, NEW f, NEW g, SumsUp(g, f, S), NEW s \in SUBSET S, s # {}
  PROVE  g[s] = f[Some(s)] + g[s \ {Some(s)}]
<1>. DEFINE h == [u \in SUBSET S |-> IF u = {} THEN 0 ELSE f[Some(u)] + g[u \ {Some(u)}]]
<1>1. g = h
  BY DEF SumsUp
<1>2. h[s] = f[Some(s)] + g[s \ {Some(s)}]
  OBVIOUS
<1>. HIDE DEF h
<1>. QED BY <1>1, <1>2

(* Two functions that sum up the same agree where both are defined.        *)
LEMMA SumsAgree ==
  ASSUME NEW S, NEW T, NEW f, NEW g, NEW h, SumsUp(g, f, S), SumsUp(h, f, T),
         NEW s \in SUBSET (S \cap T), IsFiniteSet(s)
  PROVE  g[s] = h[s]
<1>. DEFINE Q == {u \in SUBSET s : g[u] = h[u]}
<1>1. ASSUME NEW u \in SUBSET s, \A v \in SUBSET u : v # u => v \in Q
      PROVE  u \in Q
  <2>1. u \in SUBSET S /\ u \in SUBSET T
    OBVIOUS
  <2>2. CASE u = {}
    BY <2>2, SumsUpEmpty
  <2>3. CASE u # {}
    <3>1. u \ {Some(u)} \in Q
      BY <1>1, <2>3, SomeIn
    <3>2. g[u] = f[Some(u)] + g[u \ {Some(u)}]
      BY <2>1, <2>3, SumsUpMore
    <3>3. h[u] = f[Some(u)] + h[u \ {Some(u)}]
      BY <2>1, <2>3, SumsUpMore
    <3>. QED BY <3>1, <3>2, <3>3
  <2>. QED BY <2>2, <2>3
<1>. HIDE DEF Q
<1>2. s \in Q
  BY <1>1, SubsetInduction
<1>. QED BY <1>2 DEF Q

(* The sum over each subset, taken from a function of its own.             *)
OwnSum(f, s) == (CHOOSE h : SumsUp(h, f, s))[s]

(* There is a function that sums up.                                       *)
LEMMA SumsExist ==
  ASSUME NEW f, NEW S, IsFiniteSet(S)
  PROVE  \E g : SumsUp(g, f, S)
<1>. DEFINE Q == {T \in SUBSET S : \E g : SumsUp(g, f, T)}
<1>1. ASSUME NEW T \in SUBSET S, \A U \in SUBSET T : U # T => U \in Q
      PROVE  T \in Q
  <2>1. CASE T = {}
    <3>1. SumsUp([s \in SUBSET T |-> 0], f, T)
      BY <2>1 DEF SumsUp
    <3>. QED BY <3>1
  <2>2. CASE T # {}
    <3>. DEFINE g == [s \in SUBSET T |-> IF s = T THEN f[Some(T)] + OwnSum(f, T \ {Some(T)})
                                                 ELSE OwnSum(f, s)]
    <3>1. \A s \in SUBSET T : s # T => SumsUp(CHOOSE h : SumsUp(h, f, s), f, s)
      BY <1>1
    <3>2. ASSUME NEW s \in SUBSET T
          PROVE  g[s] = IF s = {} THEN 0 ELSE f[Some(s)] + g[s \ {Some(s)}]
      <4>1. CASE s = T
        BY <2>2, <4>1, SomeIn
      <4>2. CASE s # T /\ s = {}
        BY <3>1, <4>2, SumsUpEmpty DEF OwnSum
      <4>3. CASE s # T /\ s # {}
        <5>. DEFINE u == s \ {Some(s)}
                    h == CHOOSE h : SumsUp(h, f, s)
                    k == CHOOSE k : SumsUp(k, f, u)
        <5>1. u \in SUBSET s /\ u # s /\ u # T
          BY <4>3, SomeIn
        <5>2. SumsUp(h, f, s) /\ SumsUp(k, f, u)
          BY <3>1, <4>3, <5>1
        <5>3. IsFiniteSet(u)
          BY <5>1, FS_Subset
        <5>. HIDE DEF h, k
        <5>4. h[s] = f[Some(s)] + h[u]
          BY <4>3, <5>2, SumsUpMore
        <5>5. h[u] = k[u]
          BY <5>1, <5>2, <5>3, SumsAgree
        <5>6. g[s] = h[s] /\ g[u] = k[u]
          BY <4>3, <5>1 DEF OwnSum, h, k
        <5>. QED BY <4>3, <5>4, <5>5, <5>6
      <4>. QED BY <4>1, <4>2, <4>3
    <3>3. g = [s \in SUBSET T |-> g[s]]
      OBVIOUS
    <3>. HIDE DEF g
    <3>4. g = [s \in SUBSET T |-> IF s = {} THEN 0 ELSE f[Some(s)] + g[s \ {Some(s)}]]
      BY <3>2, <3>3
    <3>5. SumsUp(g, f, T)
      BY <3>4 DEF SumsUp
    <3>. QED BY <3>5
  <2>. QED BY <2>1, <2>2
<1>. HIDE DEF Q
<1>2. S \in Q
  BY <1>1, SubsetInduction
<1>. QED BY <1>2 DEF Q

-----------------------------------------------------------------------------
(* Sums.                                                                   *)

(* A sum is what any function that sums up over a larger set says it is.   *)
LEMMA TotalIs ==
  ASSUME NEW f, NEW S, IsFiniteSet(S), NEW g, SumsUp(g, f, S), NEW T \in SUBSET S
  PROVE  Total(f, T) = g[T]
<1>1. Total(f, T) = OwnSum(f, T)
  BY DEF Total, MapThenSumSet, MapThenFoldSet, OwnSum, SumsUp, Some
<1>2. IsFiniteSet(T)
  BY FS_Subset
<1>. DEFINE h == CHOOSE h : SumsUp(h, f, T)
<1>3. SumsUp(h, f, T)
  BY <1>2, SumsExist
<1>. HIDE DEF h
<1>4. h[T] = g[T]
  BY <1>2, <1>3, SumsAgree
<1>. QED BY <1>1, <1>4 DEF OwnSum, h

(* The empty sum is 0.                                                     *)
LEMMA TotalEmpty == ASSUME NEW f PROVE Total(f, {}) = 0
<1>1. IsFiniteSet({})
  BY FS_EmptySet
<1>2. PICK g : SumsUp(g, f, {})
  BY <1>1, SumsExist
<1>3. Total(f, {}) = g[{}]
  BY <1>1, <1>2, TotalIs
<1>. QED BY <1>2, <1>3, SumsUpEmpty

(* One element, not any, can be taken out.                                 *)
LEMMA TotalSome ==
  ASSUME NEW f, NEW S, IsFiniteSet(S), S # {}
  PROVE  Total(f, S) = f[Some(S)] + Total(f, S \ {Some(S)})
<1>1. PICK g : SumsUp(g, f, S)
  BY SumsExist
<1>2. Total(f, S) = g[S] /\ Total(f, S \ {Some(S)}) = g[S \ {Some(S)}]
  BY <1>1, TotalIs
<1>3. g[S] = f[Some(S)] + g[S \ {Some(S)}]
  BY <1>1, SumsUpMore
<1>. QED BY <1>2, <1>3

(* A sum of integers is one.                                               *)
LEMMA TotalType ==
  ASSUME NEW f, NEW S, IsFiniteSet(S), \A x \in S : f[x] \in Int
  PROVE  Total(f, S) \in Int
<1>. DEFINE Q == {T \in SUBSET S : Total(f, T) \in Int}
<1>1. ASSUME NEW T \in SUBSET S, \A U \in SUBSET T : U # T => U \in Q
      PROVE  T \in Q
  <2>1. CASE T = {}
    BY <2>1, TotalEmpty
  <2>2. CASE T # {}
    <3>1. Some(T) \in T /\ T \ {Some(T)} \in Q
      BY <1>1, <2>2, SomeIn
    <3>2. Total(f, T) = f[Some(T)] + Total(f, T \ {Some(T)})
      BY <2>2, FS_Subset, TotalSome
    <3>. QED BY <3>1, <3>2
  <2>. QED BY <2>1, <2>2
<1>. HIDE DEF Q
<1>2. S \in Q
  BY <1>1, SubsetInduction
<1>. QED BY <1>2 DEF Q

(* Any element can be taken out.                                           *)
LEMMA TotalRemove ==
  ASSUME NEW f, NEW S, IsFiniteSet(S), \A x \in S : f[x] \in Int, NEW y \in S
  PROVE  Total(f, S) = f[y] + Total(f, S \ {y})
<1>. DEFINE Q == {T \in SUBSET S : \A x \in T : Total(f, T) = f[x] + Total(f, T \ {x})}
<1>1. ASSUME NEW T \in SUBSET S, \A U \in SUBSET T : U # T => U \in Q, NEW x \in T
      PROVE  Total(f, T) = f[x] + Total(f, T \ {x})
  <2>. DEFINE z == Some(T)
  <2>1. z \in T /\ IsFiniteSet(T) /\ Total(f, T) = f[z] + Total(f, T \ {z})
    BY FS_Subset, TotalSome, SomeIn
  <2>2. CASE x = z
    BY <2>1, <2>2
  <2>3. CASE x # z
    <3>. HIDE DEF z
    <3>1. T \ {z} \in Q /\ T \ {x} \in Q
      BY <1>1, <2>1, <2>3
    <3>2. x \in T \ {z} /\ z \in T \ {x}
      BY <2>1, <2>3
    <3>3. Total(f, T \ {z}) = f[x] + Total(f, (T \ {z}) \ {x})
      BY <3>1, <3>2
    <3>4. Total(f, T \ {x}) = f[z] + Total(f, (T \ {x}) \ {z})
      BY <3>1, <3>2
    <3>5. (T \ {z}) \ {x} = (T \ {x}) \ {z}
      OBVIOUS
    <3>6. Total(f, (T \ {x}) \ {z}) \in Int /\ f[x] \in Int /\ f[z] \in Int
      <4>1. IsFiniteSet((T \ {x}) \ {z})
        BY FS_Subset
      <4>. QED BY <2>1, <4>1, TotalType
    <3>. HIDE DEF Q
    <3>7. Total(f, T) = f[z] + (f[x] + Total(f, (T \ {x}) \ {z}))
      BY <2>1, <3>3, <3>5
    <3>. QED BY <3>4, <3>6, <3>7
  <2>. QED BY <2>2, <2>3
<1>2. \A T \in SUBSET S : (\A U \in SUBSET T : U # T => U \in Q) => T \in Q
  BY <1>1
<1>. HIDE DEF Q
<1>3. S \in Q
  BY <1>2, SubsetInduction
<1>. QED BY <1>3 DEF Q

(* The sum of one term is that term.                                       *)
LEMMA TotalOne == ASSUME NEW f, NEW x, f[x] \in Int PROVE Total(f, {x}) = f[x]
<1>1. IsFiniteSet({x})
  BY FS_Singleton
<1>2. {x} \ {x} = {}
  OBVIOUS
<1>3. Total(f, {x}) = f[x] + Total(f, {x} \ {x})
  BY <1>1, TotalRemove
<1>4. Total(f, {x} \ {x}) = 0
  BY Zenon, <1>2, TotalEmpty
<1>. QED BY <1>3, <1>4

(* A sum of numbers between 0 and b is between 0 and b for each of them.   *)
LEMMA TotalBound ==
  ASSUME NEW f, NEW S, IsFiniteSet(S), NEW b \in Nat, \A x \in S : f[x] \in 0 .. b
  PROVE  Total(f, S) \in 0 .. b * Cardinality(S)
<1>. DEFINE Q == {T \in SUBSET S : Total(f, T) \in 0 .. b * Cardinality(T)}
<1>1. ASSUME NEW T \in SUBSET S, \A U \in SUBSET T : U # T => U \in Q
      PROVE  T \in Q
  <2>1. CASE T = {}
    BY <2>1, TotalEmpty, FS_EmptySet
  <2>2. CASE T # {}
    <3>. DEFINE U == T \ {Some(T)}
    <3>1. Some(T) \in T /\ U \in Q
      BY <1>1, <2>2, SomeIn
    <3>2. /\ IsFiniteSet(T) /\ IsFiniteSet(U)
          /\ Cardinality(T) \in Nat /\ Cardinality(U) = Cardinality(T) - 1
      BY <3>1, FS_Subset, FS_RemoveElement, FS_CardinalityType
    <3>3. Total(f, T) = f[Some(T)] + Total(f, U)
      BY <2>2, <3>2, TotalSome
    <3>4. Total(f, U) \in 0 .. b * Cardinality(U) /\ f[Some(T)] \in 0 .. b
      BY <3>1
    <3>5. b * Cardinality(T) = b * Cardinality(U) + b
      BY <3>2
    <3>6. b * Cardinality(U) \in Int
      BY <3>2
    <3>. HIDE DEF U, Q
    <3>7. Total(f, T) \in 0 .. b * Cardinality(T)
      BY <3>3, <3>4, <3>5, <3>6
    <3>. QED BY <3>7 DEF Q
  <2>. QED BY <2>1, <2>2
<1>. HIDE DEF Q
<1>2. S \in Q
  BY <1>1, SubsetInduction
<1>. QED BY <1>2 DEF Q

(* A sum depends only on the terms.                                        *)
LEMMA TotalSame ==
  ASSUME NEW f, NEW g, NEW S, IsFiniteSet(S), \A x \in S : f[x] = g[x]
  PROVE  Total(f, S) = Total(g, S)
<1>. DEFINE Q == {T \in SUBSET S : Total(f, T) = Total(g, T)}
<1>1. ASSUME NEW T \in SUBSET S, \A U \in SUBSET T : U # T => U \in Q
      PROVE  T \in Q
  <2>1. CASE T = {}
    BY <2>1, TotalEmpty
  <2>2. CASE T # {}
    <3>1. Some(T) \in T /\ T \ {Some(T)} \in Q /\ IsFiniteSet(T)
      BY <1>1, <2>2, SomeIn, FS_Subset
    <3>2. /\ Total(f, T) = f[Some(T)] + Total(f, T \ {Some(T)})
          /\ Total(g, T) = g[Some(T)] + Total(g, T \ {Some(T)})
      BY <2>2, <3>1, TotalSome
    <3>. QED BY <3>1, <3>2
  <2>. QED BY <2>1, <2>2
<1>. HIDE DEF Q
<1>2. S \in Q
  BY <1>1, SubsetInduction
<1>. QED BY <1>2 DEF Q

(* A sum of natural numbers is one.                                        *)
LEMMA TotalNat ==
  ASSUME NEW f, NEW S, IsFiniteSet(S), \A x \in S : f[x] \in Nat
  PROVE  Total(f, S) \in Nat
<1>. DEFINE Q == {T \in SUBSET S : Total(f, T) \in Nat}
<1>1. ASSUME NEW T \in SUBSET S, \A U \in SUBSET T : U # T => U \in Q
      PROVE  T \in Q
  <2>1. CASE T = {}
    BY <2>1, TotalEmpty
  <2>2. CASE T # {}
    <3>1. Some(T) \in T /\ T \ {Some(T)} \in Q
      BY <1>1, <2>2, SomeIn
    <3>2. Total(f, T) = f[Some(T)] + Total(f, T \ {Some(T)})
      BY <2>2, FS_Subset, TotalSome
    <3>. QED BY <3>1, <3>2
  <2>. QED BY <2>1, <2>2
<1>. HIDE DEF Q
<1>2. S \in Q
  BY <1>1, SubsetInduction
<1>. QED BY <1>2 DEF Q

(* The sum over two sets that have nothing in common.                      *)
LEMMA TotalUnion ==
  ASSUME NEW f, NEW S, NEW R, IsFiniteSet(S), IsFiniteSet(R), S \cap R = {},
         \A x \in S \cup R : f[x] \in Int
  PROVE  Total(f, S \cup R) = Total(f, S) + Total(f, R)
<1>. DEFINE Q == {T \in SUBSET S : Total(f, T \cup R) = Total(f, T) + Total(f, R)}
<1>1. ASSUME NEW T \in SUBSET S, \A U \in SUBSET T : U # T => U \in Q
      PROVE  T \in Q
  <2>1. CASE T = {}
    <3>1. Total(f, R) \in Int /\ Total(f, {}) = 0 /\ T \cup R = R
      BY <2>1, TotalType, TotalEmpty
    <3>. QED BY <2>1, <3>1
  <2>2. CASE T # {}
    <3>. DEFINE x == Some(T)
                U == T \ {x}
    <3>1. x \in T /\ U \in Q
      BY <1>1, <2>2, SomeIn
    <3>2. IsFiniteSet(T) /\ IsFiniteSet(U) /\ IsFiniteSet(T \cup R)
      BY FS_Subset, FS_Union
    <3>. HIDE DEF x
    <3>3. Total(f, T) = f[x] + Total(f, U)
      BY <3>1, <3>2, TotalRemove
    <3>4. Total(f, T \cup R) = f[x] + Total(f, (T \cup R) \ {x})
      BY <3>1, <3>2, TotalRemove
    <3>5. (T \cup R) \ {x} = U \cup R
      BY <3>1
    <3>6. Total(f, U) \in Int /\ Total(f, R) \in Int /\ f[x] \in Int
      BY <3>1, <3>2, TotalType
    <3>7. Total(f, U \cup R) = Total(f, U) + Total(f, R)
      BY <3>1
    <3>. HIDE DEF U
    <3>8. Total(f, T \cup R) = f[x] + Total(f, U \cup R)
      BY Zenon, <3>4, <3>5
    <3>9. Total(f, T \cup R) = Total(f, T) + Total(f, R)
      BY <3>3, <3>6, <3>7, <3>8
    <3>. QED BY <3>9
  <2>. QED BY <2>1, <2>2
<1>. HIDE DEF Q
<1>2. S \in Q
  BY <1>1, SubsetInduction
<1>. QED BY <1>2 DEF Q

(* The sum over an interval grows by its last term.                        *)
LEMMA TotalNext ==
  ASSUME NEW f, NEW a \in Int, NEW n \in Int, a <= n, \A x \in a .. n : f[x] \in Int
  PROVE  Total(f, a .. n) = Total(f, a .. n - 1) + f[n]
<1>1. IsFiniteSet(a .. n) /\ IsFiniteSet(a .. n - 1)
  BY FS_Interval
<1>. /\ (a .. n) \ {n} = a .. n - 1 /\ n \in a .. n
  OBVIOUS
<1>2. Total(f, a .. n) = f[n] + Total(f, a .. n - 1)
  BY <1>1, TotalRemove
<1>3. Total(f, a .. n - 1) \in Int /\ f[n] \in Int
  BY <1>1, TotalType
<1>. QED BY <1>2, <1>3

(* The sum over an interval is that of two intervals that make it up.      *)
LEMMA TotalSplit ==
  ASSUME NEW f, NEW a \in Int, NEW b \in Int, NEW c \in Int, a <= b, b <= c,
         \A x \in a .. c - 1 : f[x] \in Int
  PROVE  Total(f, a .. c - 1) = Total(f, a .. b - 1) + Total(f, b .. c - 1)
<1>1. IsFiniteSet(a .. b - 1) /\ IsFiniteSet(b .. c - 1)
  BY FS_Interval
<1>2. /\ (a .. b - 1) \cap (b .. c - 1) = {}
      /\ (a .. b - 1) \cup (b .. c - 1) = a .. c - 1
  OBVIOUS
<1>. QED BY <1>1, <1>2, TotalUnion

(* The sum over an interval of natural numbers is one.                     *)
LEMMA TotalPart ==
  ASSUME NEW f, NEW a \in Int, NEW c \in Int, \A x \in a .. c - 1 : f[x] \in Nat
  PROVE  Total(f, a .. c - 1) \in Nat
<1>1. IsFiniteSet(a .. c - 1)
  BY FS_Interval
<1>. QED BY <1>1, TotalNat

(* What holds of 0, and of each number up to n if it holds of the one      *)
(* before, holds of n.                                                     *)
LEMMA CountUp ==
  ASSUME NEW Q, NEW n \in Nat, 0 \in Q, \A m \in 0 .. n - 1 : m \in Q => m + 1 \in Q
  PROVE  n \in Q
<1>. DEFINE S == 0 .. n
            B == {T \in SUBSET S : \A m \in S : T = 0 .. m => m \in Q}
<1>1. ASSUME NEW T \in SUBSET S, \A U \in SUBSET T : U # T => U \in B
      PROVE  T \in B
  <2>1. SUFFICES ASSUME NEW m \in S, T = 0 .. m PROVE m \in Q
    OBVIOUS
  <2>2. CASE m = 0
    BY <2>2
  <2>3. CASE m # 0
    <3>1. m - 1 \in 0 .. n - 1 /\ m - 1 \in S
      BY <2>3
    <3>2. 0 .. m - 1 \subseteq T /\ 0 .. m - 1 # T
      BY <2>1, <2>3
    <3>3. 0 .. m - 1 \in B
      BY <1>1, <3>2
    <3>4. m - 1 \in Q
      BY <3>1, <3>3
    <3>. QED BY <3>1, <3>4
  <2>. QED BY <2>2, <2>3
<1>2. IsFiniteSet(S)
  BY FS_Interval
<1>3. \A T \in SUBSET S : (\A U \in SUBSET T : U # T => U \in B) => T \in B
  BY <1>1
<1>. HIDE DEF B, S
<1>4. S \in B
  BY <1>2, <1>3, SubsetInduction
<1>. QED BY <1>4 DEF B, S

(* Multiplication is monotonic.                                            *)
LEMMA Times ==
  ASSUME NEW a \in Nat, NEW b \in Nat, NEW c \in Nat, a <= b
  PROVE  a * c <= b * c /\ a * c \in Nat /\ b * c \in Nat
OBVIOUS

-----------------------------------------------------------------------------
(* Queues.                                                                 *)

(* A put adds what is put.                                                 *)
LEMMA RangeAppend ==
  ASSUME NEW D, NEW s \in Seq(D), NEW d \in D
  PROVE  Append(s, d) \in Seq(D) /\ Range(Append(s, d)) = Range(s) \cup {d}
<1>1. /\ Len(s) \in Nat /\ DOMAIN s = 1 .. Len(s) /\ Append(s, d) \in Seq(D)
      /\ DOMAIN Append(s, d) = 1 .. Len(s) + 1
      /\ \A n \in 1 .. Len(s) : Append(s, d)[n] = s[n]
      /\ Append(s, d)[Len(s) + 1] = d
  BY AppendProperties, LenProperties
<1>. QED BY <1>1 DEF Range

(* A take removes the head, which may be in the queue once more.           *)
LEMMA RangeTail ==
  ASSUME NEW D, NEW s \in Seq(D), s # <<>>
  PROVE  /\ Head(s) \in D /\ Tail(s) \in Seq(D)
         /\ Range(s) = {Head(s)} \cup Range(Tail(s))
<1>1. /\ Len(s) \in Nat \ {0} /\ DOMAIN s = 1 .. Len(s) /\ Head(s) = s[1]
      /\ Head(s) \in D /\ Tail(s) \in Seq(D)
      /\ DOMAIN Tail(s) = 1 .. Len(s) - 1
      /\ \A n \in 1 .. Len(s) - 1 : Tail(s)[n] = s[n + 1]
  BY HeadTailProperties, LenProperties, EmptySeq
<1>2. ASSUME NEW n \in 1 .. Len(s) PROVE s[n] \in {Head(s)} \cup Range(Tail(s))
  <2>1. CASE n = 1
    BY <1>1, <2>1
  <2>2. CASE n # 1
    <3>1. n - 1 \in DOMAIN Tail(s) /\ Tail(s)[n - 1] = s[n]
      BY <1>1, <2>2
    <3>. QED BY <3>1 DEF Range
  <2>. QED BY <2>1, <2>2
<1>3. ASSUME NEW n \in DOMAIN Tail(s) PROVE Tail(s)[n] \in Range(s)
  <2>1. n + 1 \in DOMAIN s /\ Tail(s)[n] = s[n + 1]
    BY <1>1
  <2>. QED BY <2>1 DEF Range
<1>4. Head(s) \in Range(s)
  BY <1>1 DEF Range
<1>. QED BY <1>1, <1>2, <1>3, <1>4 DEF Range

(* Only the empty queue has nothing in it.                                 *)
LEMMA RangeNothing ==
  ASSUME NEW D, NEW s \in Seq(D)
  PROVE  Range(s) = {} <=> s = <<>>
<1>1. s = <<>> => Range(s) = {}
  BY DEF Range
<1>2. s # <<>> => Range(s) # {}
  BY RangeTail
<1>. QED BY <1>1, <1>2
=============================================================================
