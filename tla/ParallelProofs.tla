---------------------------- MODULE ParallelProofs ----------------------------
(* ParallelInv is an inductive invariant of Parallel, for any number of         *)
(* goroutines and rows.                                                       *)
EXTENDS Parallel, FiniteSetTheorems, TLAPS

USE DataSizeAssumption, PartsAssumption DEF Rows

\* A part has at least one row when there are rows.
LEMMA PartSizeType == PartSize \in Nat /\ (DataSize > 0 => PartSize > 0)
  <1>1. Cardinality(Workers) \in Nat /\ Cardinality(Workers) # 0
    BY WorkersAssumption, FS_CardinalityType, FS_EmptySet
  <1>2. PICK n \in Nat : n = Cardinality(Workers) * PartsPerWorker /\ n > 0
    <2>1. Cardinality(Workers) * PartsPerWorker \in Nat
      BY <1>1
    <2>2. Cardinality(Workers) * PartsPerWorker # 0
      BY <1>1
    <2> QED
      BY <2>1, <2>2
  <1>3. DataSize \div n \in Int
    BY <1>2
  <1> QED
    BY <1>2, <1>3 DEF PartSize

LEMMA ParallelInit == Init => ParallelInv
  <1> SUFFICES ASSUME Init PROVE ParallelInv
    OBVIOUS
  <1> USE DEF Init
  <1>1. TypeOK
    <2>1. 0 \in 0..DataSize /\ 0 \in Nat
      OBVIOUS
    <2>2. at \in [Workers -> 0..DataSize] /\ end \in [Workers -> 0..DataSize]
      BY <2>1
    <2>3. pc \in [Workers -> {"take", "copy", "done"}] /\ written \in [Rows -> Nat]
      BY <2>1
    <2> QED
      BY <2>1, <2>2, <2>3 DEF TypeOK
  <1>2. \A w \in Workers : pc[w] = "take" /\ Left(w) = {}
    BY DEF Left
  <1>3. NoRowShared
    BY <1>2 DEF NoRowShared
  <1>4. \A w \in Workers : WorkerInv(w)
    BY <1>2 DEF WorkerInv
  <1>5. \A y \in Rows : RowInv(y)
    BY DEF RowInv
  <1> QED
    BY <1>1, <1>3, <1>4, <1>5 DEF ParallelInv

LEMMA TakeStep ==
    ASSUME ParallelInv, NEW w \in Workers, Take(w)
    PROVE  ParallelInv'
  <1> USE DEF Take
  <1>1. TypeOK /\ idx \in Nat /\ idx < DataSize /\ PartSize \in Nat /\ PartSize > 0
    BY PartSizeType DEF ParallelInv, TypeOK
  <1>2. PICK e \in Nat :
            /\ e = Least(idx + PartSize, DataSize)
            /\ idx < e /\ e <= DataSize /\ e <= idx + PartSize
            /\ e < DataSize => e = idx + PartSize
    BY <1>1 DEF Least
  <1>3. /\ at'[w] = idx /\ end'[w] = e /\ pc'[w] = "copy"
        /\ \A v \in Workers \ {w} :
               at'[v] = at[v] /\ end'[v] = end[v] /\ pc'[v] = pc[v]
        /\ idx' = idx + PartSize /\ UNCHANGED <<written, returned>>
    BY <1>1, <1>2 DEF TypeOK
  <1>4. TypeOK'
    BY <1>1, <1>2 DEF TypeOK
  <1>5. /\ Left(w)' = {y \in Rows : idx <= y /\ y < e}
        /\ \A v \in Workers \ {w} : Left(v)' = Left(v)
    BY <1>3 DEF Left
  <1>6. \A v \in Workers : \A y \in Left(v) : y < idx
    BY <1>1 DEF ParallelInv, WorkerInv, Left, TypeOK
  <1>7. NoRowShared'
    <2>1. \A v \in Workers \ {w} : Left(v)' \cap Left(w)' = {}
      BY <1>1, <1>5, <1>6
    <2>2. \A y \in Left(w)' : written'[y] = 0
      BY <1>3, <1>5 DEF ParallelInv, RowInv
    <2> QED
      BY <1>3, <1>5, <2>1, <2>2 DEF ParallelInv, NoRowShared
  <1>8. ASSUME NEW v \in Workers PROVE WorkerInv(v)'
    BY <1>1, <1>2, <1>3 DEF ParallelInv, WorkerInv, TypeOK
  <1>9. ASSUME NEW y \in Rows PROVE RowInv(y)'
    <2>1. written'[y] \in {0, 1} /\ (y >= idx' => written'[y] = 0)
      BY <1>1, <1>3 DEF ParallelInv, RowInv
    <2>2. ASSUME y < idx', written'[y] = 0 PROVE \E v \in Workers : y \in Left(v)'
      <3>1. CASE y < idx
        <4>1. PICK v \in Workers : y \in Left(v)
          BY <1>3, <2>2, <3>1 DEF ParallelInv, RowInv
        <4>2. v # w
          BY <4>1 DEF Left
        <4> QED
          BY <1>5, <4>1, <4>2
      <3>2. CASE y >= idx
        BY <1>1, <1>2, <1>3, <1>5, <2>2, <3>2
      <3> QED
        BY <1>1, <3>1, <3>2
    <2> QED
      BY <2>1, <2>2 DEF RowInv
  <1>10. returned' => \A v \in Workers : pc'[v] = "done"
    BY <1>3 DEF ParallelInv
  <1> QED
    BY <1>4, <1>7, <1>8, <1>9, <1>10 DEF ParallelInv

LEMMA FinishStep ==
    ASSUME ParallelInv, NEW w \in Workers, Finish(w)
    PROVE  ParallelInv'
  <1> USE DEF Finish
  <1>1. TypeOK /\ idx \in Nat /\ idx >= DataSize /\ PartSize \in Nat
    BY PartSizeType DEF ParallelInv, TypeOK
  <1>2. /\ pc'[w] = "done" /\ \A v \in Workers \ {w} : pc'[v] = pc[v]
        /\ idx' = idx + PartSize /\ UNCHANGED <<at, end, written, returned>>
    BY <1>1 DEF TypeOK
  <1>3. TypeOK'
    BY <1>1 DEF TypeOK
  <1>4. \A v \in Workers : Left(v)' = Left(v)
    BY <1>2 DEF Left
  <1>5. NoRowShared'
    BY <1>2, <1>4 DEF ParallelInv, NoRowShared
  <1>6. ASSUME NEW v \in Workers PROVE WorkerInv(v)'
    BY <1>1, <1>2 DEF ParallelInv, WorkerInv, TypeOK
  <1>7. ASSUME NEW y \in Rows PROVE RowInv(y)'
    <2>1. y < idx
      BY <1>1
    <2>2. written[y] = 0 => \E v \in Workers : y \in Left(v)'
      BY <1>4, <2>1 DEF ParallelInv, RowInv
    <2> QED
      BY <1>1, <1>2, <2>1, <2>2 DEF ParallelInv, RowInv
  <1>8. returned' => \A v \in Workers : pc'[v] = "done"
    BY <1>2 DEF ParallelInv
  <1> QED
    BY <1>3, <1>5, <1>6, <1>7, <1>8 DEF ParallelInv

LEMMA CopyStep ==
    ASSUME ParallelInv, NEW w \in Workers, Copy(w)
    PROVE  ParallelInv'
  <1> USE DEF Copy
  <1>1. /\ TypeOK /\ pc[w] = "copy"
        /\ at[w] \in Nat /\ end[w] \in Nat
        /\ at[w] < end[w] /\ end[w] <= idx /\ end[w] <= DataSize /\ idx \in Nat
        /\ at[w] \in Rows
    BY DEF ParallelInv, TypeOK, WorkerInv
  <1>2. /\ written'[at[w]] = written[at[w]] + 1
        /\ \A y \in Rows \ {at[w]} : written'[y] = written[y]
        /\ at'[w] = at[w] + 1
        /\ pc'[w] = IF at[w] + 1 < end[w] THEN "copy" ELSE "take"
        /\ \A v \in Workers \ {w} : at'[v] = at[v] /\ pc'[v] = pc[v]
        /\ UNCHANGED <<idx, end, returned>>
    BY <1>1 DEF TypeOK
  <1>3. TypeOK'
    BY <1>1 DEF TypeOK
  <1>4. at[w] \in Left(w) /\ written[at[w]] = 0
    BY <1>1 DEF Left, ParallelInv, NoRowShared
  <1>5. /\ Left(w)' = Left(w) \ {at[w]}
        /\ \A v \in Workers \ {w} : Left(v)' = Left(v)
    BY <1>1, <1>2 DEF Left
  <1>6. NoRowShared'
    <2>1. \A v \in Workers \ {w} : at[w] \notin Left(v)
      BY <1>4 DEF ParallelInv, NoRowShared
    <2>2. ASSUME NEW v \in Workers, NEW y \in Left(v)' PROVE written'[y] = 0
      <3>1. y \in Left(v) /\ y # at[w] /\ y \in Rows
        BY <1>5, <2>1 DEF Left
      <3> QED
        BY <1>2, <3>1 DEF ParallelInv, NoRowShared
    <2>3. \A u, v \in Workers : u # v => Left(u)' \cap Left(v)' = {}
      BY <1>5 DEF ParallelInv, NoRowShared
    <2> QED
      BY <2>2, <2>3 DEF NoRowShared
  <1>7. ASSUME NEW v \in Workers PROVE WorkerInv(v)'
    BY <1>1, <1>2 DEF ParallelInv, WorkerInv
  <1>8. ASSUME NEW y \in Rows PROVE RowInv(y)'
    <2>1. CASE y = at[w]
      BY <1>1, <1>2, <1>4, <2>1 DEF RowInv
    <2>2. CASE y # at[w]
      <3>1. \A v \in Workers : y \in Left(v) => y \in Left(v)'
        BY <1>5, <2>2
      <3> QED
        BY <1>2, <2>2, <3>1 DEF ParallelInv, RowInv
    <2> QED
      BY <2>1, <2>2
  <1>9. returned' => \A v \in Workers : pc'[v] = "done"
    BY <1>1, <1>2 DEF ParallelInv
  <1> QED
    BY <1>3, <1>6, <1>7, <1>8, <1>9 DEF ParallelInv

\* The counter deals each row to one goroutine, for any number of both.
THEOREM ParallelInvariant == Spec => []ParallelInv
  <1>1. ParallelInv /\ [Next]_vars => ParallelInv'
    <2> SUFFICES ASSUME ParallelInv, [Next]_vars PROVE ParallelInv'
      OBVIOUS
    <2>1. CASE Return
      BY <2>1 DEF Return, ParallelInv, TypeOK, NoRowShared, WorkerInv, RowInv, Left
    <2>2. CASE UNCHANGED vars
      BY <2>2 DEF vars, ParallelInv, TypeOK, NoRowShared, WorkerInv, RowInv, Left
    <2> QED
      BY <2>1, <2>2, TakeStep, FinishStep, CopyStep DEF Next, Worker
  <1> QED
    BY <1>1, ParallelInit, PTL DEF Spec

\* Every variable of the workers keeps its type.
THEOREM ParallelTypeCorrect == Spec => []TypeOK
  <1>1. ParallelInv => TypeOK
    BY DEF ParallelInv
  <1> QED
    BY <1>1, ParallelInvariant, PTL

\* No row is ever written by two goroutines.
THEOREM RowsNotShared == Spec => []NoRowShared
  <1>1. ParallelInv => NoRowShared
    BY DEF ParallelInv
  <1> QED
    BY <1>1, ParallelInvariant, PTL

\* When parallel returns, every row was written exactly once.
THEOREM ReturnsWithEveryRow == Spec => []ReturnsComplete
  <1>1. ParallelInv => ReturnsComplete
    <2> SUFFICES ASSUME ParallelInv, returned, NEW y \in Rows PROVE written[y] = 1
      BY DEF ReturnsComplete
    <2>1. PICK w \in Workers : pc[w] = "done"
      BY WorkersAssumption DEF ParallelInv
    <2>2. y < idx
      BY <2>1 DEF ParallelInv, WorkerInv, TypeOK
    <2>3. \A v \in Workers : Left(v) = {}
      BY DEF ParallelInv, Left
    <2> QED
      BY <2>2, <2>3 DEF ParallelInv, RowInv
  <1> QED
    BY <1>1, ParallelInvariant, PTL
=============================================================================
