---------------------------- MODULE TaskQueueProofs ----------------------------
(***************************************************************************)
(* Proofs about TaskQueue, for every set of tasks and every capacity for   *)
(* which capacity+1 is a size_t.                                           *)
(***************************************************************************)
EXTENDS TaskQueue, SequenceTheorems, TLAPS

\* The capacity of the ring is representable.
Fits == Capacity + 1 < SizeMod

(* Dividing a number below 2c by c leaves the number or what exceeds c:    *)
(* the index arithmetic of the ring is a step to the next slot that wraps  *)
(* at the end of the array.                                                *)
LEMMA ModBelow ==
  ASSUME NEW c \in Nat, c > 0, NEW i \in 0 .. c
  PROVE  i % c = IF i = c THEN 0 ELSE i
<1>1. CASE i = c
  BY <1>1
<1>2. CASE i < c
  BY <1>2
<1>. QED BY <1>1, <1>2

(* The array taskqueue_init allocates has one slot more than was asked.    *)
LEMMA SlotsValue ==
  ASSUME Fits
  PROVE  Slots = Capacity + 1
BY ModBelow, QueueAssumption DEF Slots, Fits

(* The next index after i, without division.                              *)
LEMMA AdvanceValue ==
  ASSUME TypeOK, NEW i \in 0 .. capacity - 1
  PROVE  Advance(i) = IF i + 1 = capacity THEN 0 ELSE i + 1
BY ModBelow, QueueAssumption DEF Advance, TypeOK

-----------------------------------------------------------------------------

(* The number of queued tasks and the cells they are in are in range.      *)
LEMMA SizeType ==
  ASSUME TypeOK
  PROVE  /\ Size \in 0 .. Capacity
         /\ \A i \in 1 .. Size : Slot(i) \in 0 .. capacity - 1
BY QueueAssumption DEF TypeOK, Size, Slot

(* A put lengthens the queue by the cell at `end', which none of the       *)
(* queued tasks is in; those stay in their cells.                          *)
LEMMA PutGeometry ==
  ASSUME TypeOK, ~Full, end' = Advance(end), UNCHANGED <<capacity, start>>
  PROVE  /\ Size' = Size + 1
         /\ Slot(Size)' = end
         /\ \A i \in 1 .. Size : Slot(i)' = Slot(i) /\ Slot(i) # end
<1>1. /\ end' = IF end + 1 = capacity THEN 0 ELSE end + 1
      /\ end' # start
  BY AdvanceValue DEF TypeOK, Full
<1>2. /\ capacity \in Nat \ {0, 1} /\ start \in Nat /\ end \in Nat
      /\ start < capacity /\ end < capacity
      /\ capacity' = capacity /\ start' = start
  BY QueueAssumption DEF TypeOK
<1>3. Size' = Size + 1
  BY <1>1, <1>2 DEF Size
<1>4. Slot(Size)' = end
  BY <1>1, <1>2 DEF Size, Slot
<1>5. \A i \in 1 .. Size : Slot(i)' = Slot(i) /\ Slot(i) # end
  BY <1>1, <1>2 DEF Size, Slot
<1>. QED BY <1>3, <1>4, <1>5

(* The same of a pop: the oldest task is in the cell at `start'.           *)
LEMMA PopGeometry ==
  ASSUME TypeOK, TypeOK', ~Empty, start' = Advance(start), UNCHANGED <<capacity, end>>
  PROVE  /\ Size > 0
         /\ Size' = Size - 1
         /\ Slot(1) = start
         /\ \A i \in 1 .. Size - 1 : Slot(i)' = Slot(i + 1)
BY AdvanceValue, QueueAssumption DEF TypeOK, Empty, Size, Slot

(* For every capacity that fits: the indices stay inside the array.        *)
THEOREM Typing ==
  ASSUME Fits
  PROVE  Spec => []TypeOK
<1>1. Init => TypeOK
  BY SlotsValue, QueueAssumption DEF Init, TypeOK, Reply
<1>2. TypeOK /\ [Next]_vars => TypeOK'
  <2>. SUFFICES ASSUME TypeOK, [Next]_vars
                PROVE  TypeOK'
    OBVIOUS
  <2>1. ASSUME NEW t \in Task \cup {NoTask}, Put(t)
        PROVE  TypeOK'
    BY <2>1, AdvanceValue, QueueAssumption DEF TypeOK, Put, Reply
  <2>2. ASSUME NEW t \in Task \cup {NoTask}, PutRefused(t)
        PROVE  TypeOK'
    BY <2>2 DEF TypeOK, PutRefused, Reply
  <2>3. CASE Pop
    BY <2>3, AdvanceValue, QueueAssumption DEF TypeOK, Pop, Reply
  <2>4. CASE PopRefused
    BY <2>4 DEF TypeOK, PopRefused, Reply
  <2>5. CASE Destroy
    BY <2>5 DEF TypeOK, Destroy
  <2>6. CASE UNCHANGED vars
    BY <2>6 DEF TypeOK, vars
  <2>. QED BY <2>1, <2>2, <2>3, <2>4, <2>5, <2>6 DEF Next
<1>. QED BY <1>1, <1>2, PTL DEF Spec

(* For every capacity that fits: taskqueue_full and taskqueue_empty tell   *)
(* the truth about how many tasks are queued.                              *)
THEOREM FullAndEmpty ==
  ASSUME Fits
  PROVE  Spec => []FullAndEmptyExact
<1>1. TypeOK => FullAndEmptyExact
  BY AdvanceValue, QueueAssumption DEF TypeOK, FullAndEmptyExact, Full, Empty, Size
<1>. QED BY <1>1, Typing, PTL

(* The slots from start to end hold task pointers, not null ones: the type *)
(* of the queue's contents, which the refinement below needs.  That they   *)
(* are the right ones, in order, is what the refinement says.              *)
OccupiedSlotsHoldTasks == \A i \in 1 .. Size : data[Slot(i)] \in Task

(* For every capacity that fits, that is so in every state.                *)
LEMMA Occupied ==
  ASSUME Fits
  PROVE  Spec => []OccupiedSlotsHoldTasks
<1>1. Init => OccupiedSlotsHoldTasks
  BY DEF Init, OccupiedSlotsHoldTasks, Size
<1>2. TypeOK /\ TypeOK' /\ OccupiedSlotsHoldTasks /\ [Next]_vars
        => OccupiedSlotsHoldTasks'
  <2>. SUFFICES ASSUME TypeOK, TypeOK', OccupiedSlotsHoldTasks, [Next]_vars
                PROVE  OccupiedSlotsHoldTasks'
    OBVIOUS
  <2>1. ASSUME NEW t \in Task \cup {NoTask}, Put(t)
        PROVE  OccupiedSlotsHoldTasks'
    <3>1. /\ ~Full /\ end' = Advance(end) /\ UNCHANGED <<capacity, start>>
          /\ data' = [data EXCEPT ![end] = t] /\ t \in Task
      BY <2>1 DEF Put
    <3>2. /\ Size' = Size + 1 /\ Slot(Size)' = end
          /\ \A i \in 1 .. Size : Slot(i)' = Slot(i) /\ Slot(i) # end
      BY <3>1, PutGeometry
    <3>3. Size \in Nat /\ \A i \in 1 .. Size : Slot(i) \in 0 .. capacity - 1
      BY SizeType, QueueAssumption
    <3>4. ASSUME NEW i \in 1 .. Size + 1
            PROVE  data'[Slot(i)'] \in Task
      <4>1. CASE i = Size'
        BY <4>1, <3>1, <3>2 DEF TypeOK
      <4>2. CASE i \in 1 .. Size
        BY <4>2, <3>1, <3>2, <3>3 DEF TypeOK, OccupiedSlotsHoldTasks
      <4>. QED BY <4>1, <4>2, <3>2, <3>3
    <3>. QED BY <3>2, <3>4 DEF OccupiedSlotsHoldTasks
  <2>2. CASE Pop
    <3>1. /\ ~Empty /\ start' = Advance(start) /\ UNCHANGED <<capacity, end, data>>
      BY <2>2 DEF Pop
    <3>2. Size' = Size - 1 /\ \A i \in 1 .. Size - 1 : Slot(i)' = Slot(i + 1)
      BY <3>1, PopGeometry
    <3>3. Size \in Nat
      BY SizeType, QueueAssumption
    <3>. QED BY <3>1, <3>2, <3>3 DEF OccupiedSlotsHoldTasks
  <2>3. ASSUME UNCHANGED <<capacity, start, end, data>>
        PROVE  OccupiedSlotsHoldTasks'
    BY <2>3 DEF OccupiedSlotsHoldTasks, Size, Slot
  <2>. QED
    BY <2>1, <2>2, <2>3 DEF Next, PutRefused, PopRefused, Destroy, vars
<1>. QED BY <1>1, <1>2, Typing, PTL DEF Spec

-----------------------------------------------------------------------------

(* The queued tasks form a sequence that is as long as the ring is full.   *)
ContentsShape ==
  /\ Contents \in Seq(Task)
  /\ Len(Contents) = Size
  /\ \A i \in 1 .. Size : Contents[i] = data[Slot(i)]

(* The tasks in the slots from start to end have that shape.               *)
LEMMA ContentsType == TypeOK /\ OccupiedSlotsHoldTasks => ContentsShape
<1>. SUFFICES ASSUME TypeOK, OccupiedSlotsHoldTasks
              PROVE  ContentsShape
  OBVIOUS
<1>1. Size \in Nat
  BY SizeType, QueueAssumption
<1>2. Contents \in [1 .. Size -> Task]
  BY DEF Contents, OccupiedSlotsHoldTasks
<1>. QED BY <1>1, <1>2 DEF Contents, ContentsShape

(* taskqueue_put appends its task to the queue.                            *)
LEMMA PutAppends ==
  ASSUME TypeOK, TypeOK', OccupiedSlotsHoldTasks, OccupiedSlotsHoldTasks',
         NEW t \in Task \cup {NoTask}, Put(t)
  PROVE  Contents' = Append(Contents, t)
<1>1. /\ ~Full /\ end' = Advance(end) /\ UNCHANGED <<capacity, start>>
      /\ data' = [data EXCEPT ![end] = t] /\ t \in Task
  BY DEF Put
<1>2. /\ Size' = Size + 1 /\ Slot(Size)' = end
      /\ \A i \in 1 .. Size : Slot(i)' = Slot(i) /\ Slot(i) # end
  BY <1>1, PutGeometry
<1>3. Size \in Nat /\ \A i \in 1 .. Size : Slot(i) \in 0 .. capacity - 1
  BY SizeType, QueueAssumption
<1>4. /\ Contents \in Seq(Task) /\ Len(Contents) = Size
      /\ \A i \in 1 .. Size : Contents[i] = data[Slot(i)]
  BY ContentsType DEF ContentsShape
<1>5. /\ Contents' \in Seq(Task) /\ Len(Contents') = Size'
      /\ \A i \in 1 .. Size' : Contents'[i] = data'[Slot(i)']
  <2>1. ContentsShape'
    BY ContentsType, PTL
  <2>. QED BY <2>1 DEF ContentsShape
<1>6. /\ Append(Contents, t) \in Seq(Task)
      /\ Len(Append(Contents, t)) = Size + 1
      /\ \A i \in 1 .. Size : Append(Contents, t)[i] = Contents[i]
      /\ Append(Contents, t)[Size + 1] = t
  BY <1>1, <1>4, AppendProperties
<1>7. \A i \in 1 .. Size : Contents'[i] = Append(Contents, t)[i]
  BY <1>1, <1>2, <1>3, <1>4, <1>5, <1>6 DEF TypeOK
<1>8. Contents'[Size'] = t
  BY <1>1, <1>2, <1>3, <1>5 DEF TypeOK
<1>9. \A i \in 1 .. Size' : Contents'[i] = Append(Contents, t)[i]
  BY <1>2, <1>3, <1>6, <1>7, <1>8
<1>. QED BY <1>2, <1>5, <1>6, <1>9, SeqEqual

(* taskqueue_pop hands out the oldest task and removes it.                 *)
LEMMA PopRemovesHead ==
  ASSUME TypeOK, TypeOK', OccupiedSlotsHoldTasks, OccupiedSlotsHoldTasks', Pop
  PROVE  /\ Contents # <<>>
         /\ Contents' = Tail(Contents)
         /\ data[start] = Head(Contents)
<1>1. ~Empty /\ start' = Advance(start) /\ UNCHANGED <<capacity, end, data>>
  BY DEF Pop
<1>2. /\ Size > 0 /\ Size' = Size - 1 /\ Slot(1) = start
      /\ \A i \in 1 .. Size - 1 : Slot(i)' = Slot(i + 1)
  BY <1>1, PopGeometry
<1>3. Size \in Nat
  BY SizeType, QueueAssumption
<1>4. /\ Contents \in Seq(Task) /\ Len(Contents) = Size
      /\ \A i \in 1 .. Size : Contents[i] = data[Slot(i)]
  BY ContentsType DEF ContentsShape
<1>5. /\ Contents' \in Seq(Task) /\ Len(Contents') = Size'
      /\ \A i \in 1 .. Size' : Contents'[i] = data'[Slot(i)']
  <2>1. ContentsShape'
    BY ContentsType, PTL
  <2>. QED BY <2>1 DEF ContentsShape
<1>6. Contents # <<>>
  BY <1>2, <1>4
<1>7. /\ Tail(Contents) \in Seq(Task) /\ Len(Tail(Contents)) = Size - 1
      /\ \A i \in 1 .. Size - 1 : Tail(Contents)[i] = Contents[i + 1]
  BY <1>4, <1>6, HeadTailProperties
<1>8. \A i \in 1 .. Size' : Contents'[i] = Tail(Contents)[i]
  BY <1>1, <1>2, <1>3, <1>4, <1>5, <1>7
<1>9. Contents' = Tail(Contents)
  BY <1>2, <1>5, <1>7, <1>8, SeqEqual
<1>10. Head(Contents) = Contents[1]
  BY <1>4, <1>6
<1>. QED BY <1>2, <1>3, <1>4, <1>6, <1>9, <1>10

(* For every capacity that fits: what the calls return, and the order in   *)
(* which tasks come out, is that of a bounded first-in first-out queue.    *)
THEOREM Implementation ==
  ASSUME Fits
  PROVE  Spec => ImplementsFifo
<1>1. Init => Fifo!Init
  BY DEF Init, Fifo!Init, Contents, Size, Reply, Fifo!Reply
<1>2. /\ TypeOK /\ OccupiedSlotsHoldTasks /\ FullAndEmptyExact
      /\ TypeOK' /\ OccupiedSlotsHoldTasks'
      /\ [Next]_vars
      => [Fifo!Next]_Fifo!vars
  <2>. SUFFICES ASSUME TypeOK, OccupiedSlotsHoldTasks, FullAndEmptyExact,
                       TypeOK', OccupiedSlotsHoldTasks', [Next]_vars
                PROVE  [Fifo!Next]_Fifo!vars
    OBVIOUS
  <2>1. /\ Contents \in Seq(Task)
        /\ Full <=> Len(Contents) = Capacity
        /\ Empty <=> Contents = <<>>
    BY ContentsType, EmptySeq DEF FullAndEmptyExact, ContentsShape
  <2>2. Len(Contents) <= Capacity
    BY ContentsType, SizeType, QueueAssumption DEF ContentsShape
  <2>3. ASSUME NEW t \in Task \cup {NoTask}, Put(t)
        PROVE  Fifo!Put(t)
    <3>1. Len(Contents) < Capacity
      BY <2>1, <2>2, <2>3, ContentsType, SizeType, QueueAssumption
         DEF Put, ContentsShape
    <3>2. Contents' = Append(Contents, t)
      BY <2>3, PutAppends
    <3>. QED BY <2>3, <3>1, <3>2 DEF Put, Fifo!Put, Reply, Fifo!Reply
  <2>4. ASSUME UNCHANGED <<capacity, start, end, data>>
        PROVE  Contents' = Contents
    BY <2>4 DEF Contents, Size, Slot
  <2>5. ASSUME NEW t \in Task \cup {NoTask}, PutRefused(t)
        PROVE  Fifo!PutRefused(t)
    BY <2>1, <2>4, <2>5 DEF PutRefused, Fifo!PutRefused, Reply, Fifo!Reply
  <2>6. ASSUME Pop PROVE Fifo!Pop
    BY <2>6, PopRemovesHead DEF Pop, Fifo!Pop, Reply, Fifo!Reply
  <2>7. ASSUME PopRefused PROVE Fifo!PopRefused
    BY <2>1, <2>4, <2>7 DEF PopRefused, Fifo!PopRefused, Reply, Fifo!Reply
  <2>8. ASSUME Destroy PROVE Fifo!Destroy
    BY <2>4, <2>8 DEF Destroy, Fifo!Destroy
  <2>9. CASE UNCHANGED vars
    BY <2>4, <2>9 DEF vars, Fifo!vars
  <2>. QED
    BY <2>3, <2>5, <2>6, <2>7, <2>8, <2>9 DEF Next, Fifo!Next
<1>. QED
  BY <1>1, <1>2, Typing, Occupied, FullAndEmpty, PTL
     DEF Spec, ImplementsFifo, Fifo!Spec
=============================================================================
