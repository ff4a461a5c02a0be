-------------------------------- MODULE Pool --------------------------------
(***************************************************************************)
(* The heap of backends: Pool of engine/native/pool.go under container/    *)
(* heap, with the index every backend keeps of its own place, driven by    *)
(* the calls of engine/native/scheduler.go.  Each action is one such call  *)
(* sequence, as the scheduler goroutine runs it between two selects.       *)
(*                                                                         *)
(* A heap value h is the slice h.arr (h.arr[i + 1] is the Go element i)    *)
(* and the index field h.index[b] of every backend.                        *)
(***************************************************************************)
EXTENDS Integers, FiniteSets, FiniteSetsExt, Sequences

CONSTANTS
  Backend,   \* Backend objects
  Limit,     \* MaxForwardersPerBackend
  MaxTotal   \* bound: connections in flight at a time

ASSUME PoolAssumption ==
  IsFiniteSet(Backend) /\ Limit \in Nat \ {0} /\ MaxTotal \in Nat

VARIABLES
  leastweight,   \* Pool.leastweight, set by NewScheduler
  weight,        \* Backend.weight, set by NewBackend
  heap,          \* Pool.backends and the index fields
  ongoing,       \* Backend.ongoing
  pushed         \* the objects AddBackend was called for

fixed == <<leastweight, weight>>
vars == <<fixed, heap, ongoing, pushed>>

\* The weights that are read are the sequence numbers of -shuffle=false.
Weights ==
  IF leastweight
  THEN {w \in [Backend -> 1 .. Cardinality(Backend)] :
          \A b, c \in Backend : w[b] = w[c] => b = c}
  ELSE {[b \in Backend |-> 0]}

\* NewBackend leaves the index at zero.
Init ==
  /\ leastweight \in BOOLEAN
  /\ weight \in Weights
  /\ heap = [arr |-> <<>>, index |-> [b \in Backend |-> 0]]
  /\ ongoing = [b \in Backend |-> 0]
  /\ pushed = {}

-----------------------------------------------------------------------------
(* The heap.Interface methods; load is the ongoing fields. *)

At(h, i) == h.arr[i + 1]

Less_Weight(h, i, j, load) == weight[At(h, i)] < weight[At(h, j)]
Less(h, i, j, load) ==
  IF leastweight THEN weight[At(h, i)] < weight[At(h, j)]
                 ELSE load[At(h, i)] < load[At(h, j)]

Swap_NoIndex(h, i, j) ==
  [h EXCEPT !.arr = [@ EXCEPT ![i + 1] = At(h, j), ![j + 1] = At(h, i)],
            !.index = [@ EXCEPT ![At(h, j)] = i]]
Swap(h, i, j) ==
  LET arr == [h.arr EXCEPT ![i + 1] = At(h, j), ![j + 1] = At(h, i)] IN
  [arr |-> arr,
   index |-> [h.index EXCEPT ![arr[i + 1]] = i, ![arr[j + 1]] = j]]

PushLast(h, b) ==
  [arr |-> Append(h.arr, b), index |-> [h.index EXCEPT ![b] = Len(h.arr)]]

PopLast(h) ==
  [arr |-> SubSeq(h.arr, 1, Len(h.arr) - 1),
   index |-> [h.index EXCEPT ![At(h, Len(h.arr) - 1)] = -1]]

-----------------------------------------------------------------------------
(* container/heap. *)

\* A state of the loop of up or down: a heap of n elements and the place that the
\* loop has come to.
Heap(n) == [arr : [1 .. n -> Backend], index : [Backend -> Int]]
Sift(n) == [heap : Heap(n), at : 0 .. n - 1]

\* Go truncates towards zero.
Parent(j) == IF j = 0 THEN 0 ELSE (j - 1) \div 2

Up(h, j0, load) ==
  LET up[s \in Sift(Len(h.arr))] ==
        LET j == s.at
            i == Parent(j)
        IN IF i = j \/ ~ Less(s.heap, j, i, load)
           THEN s.heap
           ELSE up[[heap |-> Swap(s.heap, i, j), at |-> i]]
  IN up[[heap |-> h, at |-> j0]]

\* The smaller child of i among the first n elements, the left one if there is no
\* right one.
Child(h, i, n, load) ==
  LET left == 2 * i + 1
      right == left + 1
  IN IF right < n /\ ~ Less(h, left, right, load) THEN right ELSE left

Down(h, i0, n, load) ==
  LET down[s \in Sift(Len(h.arr))] ==
        LET i == s.at
            j == Child(s.heap, i, n, load)
        IN IF 2 * i + 1 >= n \/ ~ Less(s.heap, j, i, load)
           THEN s.heap
           ELSE down[[heap |-> Swap(s.heap, i, j), at |-> j]]
  IN down[[heap |-> h, at |-> i0]]

HeapPush(h, b, load) ==
  LET p == PushLast(h, b) IN Up(p, Len(h.arr), load)

\* heap.Pop, without its result: the backend that was first.
HeapPop(h, load) ==
  LET n == Len(h.arr) - 1 IN PopLast(Down(Swap(h, 0, n), 0, n, load))

HeapRemove_NoUp(h, i, load) ==
  LET n == Len(h.arr) - 1 IN
  PopLast(IF n = i THEN h ELSE Down(Swap(h, i, n), i, n, load))
HeapRemove(h, i, load) ==
  LET n == Len(h.arr) - 1 IN
  PopLast(IF n = i THEN h ELSE Up(Down(Swap(h, i, n), i, n, load), i, load))

-----------------------------------------------------------------------------
(* The scheduler's calls. *)

\* AddBackend for a new object, heap.Push for one that is brought back up.
Add_Again(b) ==
  /\ heap' = HeapPush(heap, b, ongoing)
  /\ pushed' = pushed \cup {b}
  /\ UNCHANGED <<fixed, ongoing>>
Add(b) ==
  /\ b \in pushed => heap.index[b] = -1
  /\ heap' = HeapPush(heap, b, ongoing)
  /\ pushed' = pushed \cup {b}
  /\ UNCHANGED <<fixed, ongoing>>

\* RemoveBackend, of a backend that was added and is in the heap or not.
Remove(b) ==
  /\ b \in pushed
  /\ heap' = IF heap.index[b] = -1 THEN heap
             ELSE HeapRemove(heap, heap.index[b], ongoing)
  /\ UNCHANGED <<fixed, ongoing, pushed>>

\* The bound on the connections in flight.
Room == MapThenSumSet(LAMBDA b : ongoing[b], Backend) < MaxTotal

\* dispatch with backends in the heap.
Dispatch ==
  /\ heap.arr # <<>> /\ Room
  /\ LET b == heap.arr[1]
         rest == HeapPop(heap, ongoing)
         load == IF ongoing[b] >= Limit THEN ongoing
                 ELSE [ongoing EXCEPT ![b] = @ + 1]
     IN heap' = HeapPush(rest, b, load) /\ ongoing' = load
  /\ UNCHANGED <<fixed, pushed>>

\* finish of a request of b: its connection failed, or it ended well.
Finish(b, failed) ==
  /\ ongoing[b] > 0
  /\ LET load == [ongoing EXCEPT ![b] = @ - 1]
         out == IF heap.index[b] = -1 THEN heap
                ELSE HeapRemove(heap, heap.index[b], ongoing)
     IN /\ ongoing' = load
        /\ heap' = IF failed \/ heap.index[b] = -1 THEN out
                   ELSE HeapPush(out, b, load)
  /\ UNCHANGED <<fixed, pushed>>

Next ==
  \/ Dispatch
  \/ \E b \in Backend : Add(b) \/ Remove(b)
  \/ \E b \in Backend, failed \in BOOLEAN : Finish(b, failed)

Spec == Init /\ [][Next]_vars

-----------------------------------------------------------------------------
(* Properties. *)

\* The types, and no object twice in the slice.
TypeOK ==
  /\ leastweight \in BOOLEAN /\ weight \in Weights
  /\ heap.arr \in Seq(Backend)
  /\ \A i, j \in DOMAIN heap.arr : heap.arr[i] = heap.arr[j] => i = j
  /\ heap.index \in [Backend -> -1 .. Len(heap.arr)]
  /\ ongoing \in [Backend -> 0 .. Limit]

\* The index of a backend that was ever added is its place in the slice, or -1
\* when it is not there: the index that finish, RemoveBackend and the bring-back
\* of Schedule act on is never that of another backend.
IndexExact ==
  \A b \in pushed :
    IF heap.index[b] = -1 THEN \A i \in DOMAIN heap.arr : heap.arr[i] # b
    ELSE heap.index[b] + 1 \in DOMAIN heap.arr /\ At(heap, heap.index[b]) = b

\* No element comes before its parent: changing ongoing outside the heap keeps
\* it a heap, although Less reads the field of the elements in place.
HeapOrder ==
  \A i \in 1 .. Len(heap.arr) - 1 : ~ Less(heap, i, (i - 1) \div 2, ongoing)

Abstract == INSTANCE PrioritySet WITH
  members <- {heap.arr[i] : i \in DOMAIN heap.arr}

\* The heap is a priority set: it neither loses nor gains a backend, and the
\* backend dispatch takes is a least one.
ImplementsPrioritySet == Abstract!Spec
=============================================================================
