------------------------- MODULE BatchCountersProofs -------------------------
(***************************************************************************)
(* Proofs about BatchCounters, for any width of int, any room and any      *)
(* number of tasks between two waits.                                      *)
(***************************************************************************)
EXTENDS BatchCounters, TLAPS

\* What wrapping around can add to a count.
Laps == {z * Values : z \in Int}

Ints == -IntMax - 1 .. IntMax

(* The two ints and the outstanding tasks agree up to whole laps of an     *)
(* int.                                                                    *)
Counted ==
  /\ tasks_submitted \in Ints /\ tasks_completed \in Ints
  /\ outstanding \in Nat /\ lost \in Nat
  /\ tasks_completed + outstanding - tasks_submitted - lost \in Laps

(* One lap more or less is a number of laps again.                         *)
LEMMA LapsStep ==
  ASSUME NEW k \in Laps
  PROVE  k \in Int /\ k + Values \in Laps /\ k - Values \in Laps
<1>1. PICK z \in Int : k = z * Values
  BY DEF Laps
<1>2. Values \in Int
  BY CounterAssumption DEF Values
<1>3. /\ z * Values \in Int
      /\ (z + 1) * Values = z * Values + Values
      /\ (z - 1) * Values = z * Values - Values
  BY <1>2
<1>4. z + 1 \in Int /\ z - 1 \in Int
  OBVIOUS
<1> QED BY <1>1, <1>3, <1>4 DEF Laps

(* Laps other than none are at least one whole lap in size.                *)
LEMMA LapsSize ==
  ASSUME NEW k \in Laps
  PROVE  (k > 0 => k >= Values) /\ (k < 0 => k <= -Values)
<1>1. PICK z \in Int : k = z * Values
  BY DEF Laps
<1>2. Values \in Int /\ Values > 0
  BY CounterAssumption DEF Values
<1>3. CASE z >= 1
  <2>1. z - 1 \in Nat /\ z * Values = Values + (z - 1) * Values
    BY <1>2, <1>3
  <2>2. (z - 1) * Values >= 0
    BY <1>2, <2>1
  <2> QED BY <1>1, <1>2, <2>1, <2>2
<1>4. CASE z = 0
  BY <1>1, <1>2, <1>4
<1>5. CASE z <= -1
  <2>1. -z - 1 \in Nat /\ -(z * Values) = Values + (-z - 1) * Values
    BY <1>2, <1>5
  <2>2. (-z - 1) * Values >= 0
    BY <1>2, <2>1
  <2> QED BY <1>1, <1>2, <2>1, <2>2
<1> QED BY <1>3, <1>4, <1>5

(* n++ adds 1, or 1 less a lap.                                            *)
LEMMA IncrementedLap ==
  ASSUME NEW n \in Ints
  PROVE  /\ Incremented(n) \in Ints
         /\ Incremented(n) = n + 1 \/ Incremented(n) = n + 1 - Values
BY CounterAssumption DEF Incremented, Ints, Values

(* Counted holds in every reachable state, whether anybody waits or not.   *)
LEMMA CountedAlways == Spec => []Counted
<1> USE CounterAssumption
<1>1. Init => Counted
  <2>1. 0 * Values = 0
    BY DEF Values
  <2>2. 0 \in Laps
    BY <2>1 DEF Laps
  <2> QED BY <2>2 DEF Init, Counted, Ints
<1>2. Counted /\ [Next]_vars => Counted'
  <2> SUFFICES ASSUME Counted, [Next]_vars
               PROVE  Counted'
    OBVIOUS
  <2> DEFINE k == tasks_completed + outstanding - tasks_submitted - lost
  <2>1. /\ k \in Int /\ k \in Laps /\ k + Values \in Laps /\ k - Values \in Laps
        /\ Values \in Int
        /\ tasks_submitted \in Int /\ tasks_completed \in Int
    BY LapsStep DEF Counted, Ints, Values
  <2>2. CASE Put
    <3>1. /\ tasks_submitted' \in Ints
          /\ \/ tasks_submitted' = tasks_submitted + 1
             \/ tasks_submitted' = tasks_submitted + 1 - Values
      BY <2>2, IncrementedLap DEF Put, Counted
    <3>2. k' = k \/ k' = k + Values
      BY <2>1, <2>2, <3>1 DEF Put, Counted
    <3>3. k' \in Laps
      BY <2>1, <3>2
    <3> QED BY <2>2, <3>1, <3>3 DEF Put, Counted
  <2>3. CASE Complete
    <3>1. /\ tasks_completed' \in Ints
          /\ \/ tasks_completed' = tasks_completed + 1
             \/ tasks_completed' = tasks_completed + 1 - Values
      BY <2>3, IncrementedLap DEF Complete, Counted
    <3>2. k' = k \/ k' = k - Values
      BY <2>1, <2>3, <3>1 DEF Complete, Counted
    <3>3. k' \in Laps
      BY <2>1, <3>2
    <3> QED BY <2>3, <3>1, <3>3 DEF Complete, Counted
  <2>4. CASE WaitReturns
    <3>1. k' = 0 /\ 0 = 0 * Values
      BY <2>1, <2>4 DEF WaitReturns, Counted
    <3>2. k' \in Laps
      BY <3>1 DEF Laps
    <3> QED BY <2>4, <3>2 DEF WaitReturns, Counted, Ints
  <2>5. CASE UNCHANGED vars
    BY <2>5 DEF vars, Counted
  <2> QED
    BY <2>2, <2>3, <2>4, <2>5 DEF Next
<1> QED
  BY <1>1, <1>2, PTL DEF Spec

(* For any width of int and any number of puts: until a yatpool_wait has   *)
(* returned too early, the comparison of the two counters (yatpool.c:299)  *)
(* holds exactly when no task is queued or running, or the put that        *)
(* overflowed tasks_submitted is among the outstanding ones.               *)
THEOREM CountersSuffice == Spec => []ComparisonExact
<1>1. Counted => ComparisonExact
  <2> SUFFICES ASSUME Counted, lost = 0, outstanding < Values
               PROVE  BatchDone <=> outstanding = 0 \/ OverflowOutstanding
    BY DEF ComparisonExact
  <2> DEFINE k == tasks_completed + outstanding - tasks_submitted - lost
  <2>1. /\ k \in Int /\ (k > 0 => k >= Values) /\ (k < 0 => k <= -Values)
    BY LapsStep, LapsSize DEF Counted
  <2>2. /\ k = tasks_completed + outstanding - tasks_submitted
        /\ tasks_completed \in Int /\ tasks_submitted \in Int /\ outstanding \in Nat
        /\ tasks_completed <= IntMax /\ tasks_submitted <= IntMax
        /\ -IntMax - 1 <= tasks_completed /\ -IntMax - 1 <= tasks_submitted
        /\ IntMax \in Nat /\ Values = 2 * IntMax + 2
    BY CounterAssumption DEF Counted, Ints, Values
  <2> HIDE DEF k
  <2>3. outstanding = 0 => BatchDone
    BY <2>1, <2>2 DEF BatchDone
  <2>4. OverflowOutstanding => BatchDone
    <3>1. OverflowOutstanding => k > 0
      BY <2>1, <2>2 DEF OverflowOutstanding
    <3> QED BY <2>1, <2>2, <3>1 DEF BatchDone
  <2>5. BatchDone => outstanding = 0 \/ OverflowOutstanding
    BY <2>1, <2>2 DEF BatchDone, OverflowOutstanding
  <2> QED BY <2>3, <2>4, <2>5
<1> QED
  BY <1>1, CountedAlways, PTL
=============================================================================
