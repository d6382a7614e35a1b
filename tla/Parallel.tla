------------------------------- MODULE Parallel -------------------------------
(* imaging.parallel, under every Rotate and FlipH of fixOrientation: goroutines *)
(* take parts of the rows 0..dataSize-1 off a shared atomic counter, call fn on *)
(* each, and the caller waits for all of them.  fn copies its rows one by one   *)
(* into the shared destination; a row of it is the number of times it was       *)
(* written.                                                                   *)
EXTENDS Integers, FiniteSets

CONSTANTS
    Workers,         \* the goroutines, GOMAXPROCS of them
    DataSize,        \* dataSize, the rows of the destination
    PartsPerWorker   \* 100 in the code

ASSUME DataSizeAssumption == DataSize \in Nat
ASSUME PartsAssumption == PartsPerWorker \in Nat \ {0}
ASSUME WorkersAssumption == IsFiniteSet(Workers) /\ Workers # {}

VARIABLES
    idx,      \* the counter
    pc,       \* "take" a part, "copy" its rows, or "done"
    at,       \* the next row of the part the goroutine copies
    end,      \* the end of that part
    written,  \* how often each row of the destination was written
    returned  \* has parallel returned to the transform?

vars == <<idx, pc, at, end, written, returned>>

Rows == 0..(DataSize - 1)

Least(a, b) == IF a < b THEN a ELSE b

\* dataSize/(numGoroutines*100), but at least 1; all of it for one goroutine.
PartSize ==
    IF Cardinality(Workers) = 1 THEN DataSize
    ELSE LET share == DataSize \div (Cardinality(Workers) * PartsPerWorker)
         IN  IF share < 1 THEN 1 ELSE share

Init ==
    /\ idx = 0
    /\ pc = [w \in Workers |-> "take"]
    /\ at = [w \in Workers |-> 0]
    /\ end = [w \in Workers |-> 0]
    /\ written = [y \in Rows |-> 0]
    /\ returned = FALSE

\* Wrong: the last part is not cut.
TakeUncut(w) ==
    /\ pc[w] = "take"
    /\ idx < DataSize
    /\ idx' = idx + PartSize
    /\ at' = [at EXCEPT ![w] = idx]
    /\ end' = [end EXCEPT ![w] = idx + PartSize]
    /\ pc' = [pc EXCEPT ![w] = "copy"]
    /\ UNCHANGED <<written, returned>>

\* Wrong: parts overlap by a row.
TakeOverlapping(w) ==
    /\ pc[w] = "take"
    /\ idx < DataSize
    /\ idx' = idx + PartSize
    /\ at' = [at EXCEPT ![w] = idx]
    /\ end' = [end EXCEPT ![w] = Least(idx + PartSize + 1, DataSize)]
    /\ pc' = [pc EXCEPT ![w] = "copy"]
    /\ UNCHANGED <<written, returned>>

\* Wrong: the part behind the sum, not before it.
TakeBehind(w) ==
    /\ pc[w] = "take"
    /\ idx + PartSize < DataSize
    /\ idx' = idx + PartSize
    /\ at' = [at EXCEPT ![w] = idx + PartSize]
    /\ end' = [end EXCEPT ![w] = Least(idx + PartSize + PartSize, DataSize)]
    /\ pc' = [pc EXCEPT ![w] = "copy"]
    /\ UNCHANGED <<written, returned>>

(* atomic.AddUint64: the part before the sum is this goroutine's, cut at the    *)
(* end of the data; there is none when it starts behind it.                   *)
Take(w) ==
    /\ pc[w] = "take"
    /\ idx < DataSize
    /\ idx' = idx + PartSize
    /\ at' = [at EXCEPT ![w] = idx]
    /\ end' = [end EXCEPT ![w] = Least(idx + PartSize, DataSize)]
    /\ pc' = [pc EXCEPT ![w] = "copy"]
    /\ UNCHANGED <<written, returned>>

Finish(w) ==
    /\ pc[w] = "take"
    /\ idx >= DataSize
    /\ idx' = idx + PartSize
    /\ pc' = [pc EXCEPT ![w] = "done"]
    /\ UNCHANGED <<at, end, written, returned>>

(* One turn of fn's loop over dstY: copy a row, and go on to the next, or back   *)
(* for the next part.                                                         *)
Copy(w) ==
    /\ pc[w] = "copy"
    /\ written' = [written EXCEPT ![at[w]] = @ + 1]
    /\ at' = [at EXCEPT ![w] = @ + 1]
    /\ pc' = [pc EXCEPT ![w] = IF at[w] + 1 < end[w] THEN "copy" ELSE "take"]
    /\ UNCHANGED <<idx, end, returned>>

\* Wrong: wg.Add(1) for all goroutines.
ReturnAfterFirst ==
    /\ ~returned
    /\ \E w \in Workers : pc[w] = "done"
    /\ returned' = TRUE
    /\ UNCHANGED <<idx, pc, at, end, written>>

\* Wrong: wg.Add counts one goroutine too many.
ReturnNever ==
    /\ ~returned
    /\ Cardinality({w \in Workers : pc[w] = "done"}) = Cardinality(Workers) + 1
    /\ returned' = TRUE
    /\ UNCHANGED <<idx, pc, at, end, written>>

(* wg.Wait *)
Return ==
    /\ ~returned
    /\ \A w \in Workers : pc[w] = "done"
    /\ returned' = TRUE
    /\ UNCHANGED <<idx, pc, at, end, written>>

Worker(w) == Take(w) \/ Finish(w) \/ Copy(w)

Next == Return \/ \E w \in Workers : Worker(w)

(* The scheduler runs every goroutine that can run. *)
Spec == Init /\ [][Next]_vars /\ WF_vars(Return) /\ \A w \in Workers : WF_vars(Worker(w))

-----------------------------------------------------------------------------
(* Properties.                                                                *)

\* The shape of the variables of parallel.go:13-54.
TypeOK ==
    /\ idx \in Nat
    /\ pc \in [Workers -> {"take", "copy", "done"}]
    /\ at \in [Workers -> 0..DataSize]
    /\ end \in [Workers -> 0..DataSize]
    /\ written \in [Rows -> Nat]
    /\ returned \in BOOLEAN

\* The rows a goroutine still has to copy.
Left(w) == IF pc[w] = "copy" THEN {y \in Rows : at[w] <= y /\ y < end[w]} ELSE {}

\* Two goroutines never work on the same row, and none on a row that is written:
\* the copies of transform.go need no lock.
NoRowShared ==
    /\ \A v, w \in Workers : v # w => Left(v) \cap Left(w) = {}
    /\ \A w \in Workers : \A y \in Left(w) : written[y] = 0

\* When parallel returns, every row has been written exactly once: no transform
\* returns an image with rows missing.
ReturnsComplete == returned => \A y \in Rows : written[y] = 1

\* parallel returns.
Returns == <>returned

-----------------------------------------------------------------------------
(* The inductive invariant behind NoRowShared and ReturnsComplete: every row    *)
(* below the counter is written or is left to a goroutine, every row above is  *)
(* neither.                                                                   *)

RowInv(y) ==
    /\ written[y] \in {0, 1}
    /\ y >= idx => written[y] = 0
    /\ y < idx /\ written[y] = 0 => \E w \in Workers : y \in Left(w)

WorkerInv(w) ==
    /\ pc[w] = "copy" => at[w] < end[w] /\ end[w] <= idx /\ end[w] <= DataSize
    /\ pc[w] = "done" => idx >= DataSize

ParallelInv ==
    /\ TypeOK
    /\ NoRowShared
    /\ \A w \in Workers : WorkerInv(w)
    /\ \A y \in Rows : RowInv(y)
    /\ returned => \A w \in Workers : pc[w] = "done"
=============================================================================
