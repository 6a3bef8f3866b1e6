------------------------------ MODULE MCPlanner ------------------------------
(***************************************************************************)
(* Planner for TLC, with the heap of JobPriorityQueue as the queue.        *)
(***************************************************************************)
EXTENDS Planner, TLC

CONSTANTS o1, o2, ossA, ossB

PQ == INSTANCE JobPriorityQueue

\* Heaps of up to 3, 4 items (a union of few sets, cheap to test membership of).
HeapsOf(n)      == [1 .. n -> WaitingItem]
ThreeItems      == HeapsOf(0) \cup HeapsOf(1) \cup HeapsOf(2) \cup HeapsOf(3)
FourItems       == ThreeItems \cup HeapsOf(4)
HeapEmpty       == <<>>
HeapPush(q, i)  == PQ!Push(q, i)
HeapPop(q)      == PQ!Pop(q)
HeapRemove(q, j) == PQ!Remove(q, j)
HeapPeek(q)     == PQ!Peek(q)
HeapBag(q)      == PQ!ItemBag(q)

\* One OST, or two OSTs behind different OSSs.
OneOst    == {o1}
TwoOsts   == {o1, o2}
OneOss    == {ossA}
TwoOsss   == {ossA, ossB}
OneIpOf   == o1 :> ossA
TwoIpOf   == o1 :> ossA @@ o2 :> ossB
AllLimits == [o \in Osts |-> UintMod - 1]

Short  == [osts |-> {o1}, mbs |-> 1, dur |-> 1]
Endless == [osts |-> {o1}, mbs |-> 1, dur |-> 0]
Wide   == [osts |-> {o1, o2}, mbs |-> 1, dur |-> 1]
NoOst  == [osts |-> {}, mbs |-> 1, dur |-> 1]

ShortRequests == {Short}
EndingRequests == {Short, Wide}
MixedRequests == {Short, Endless}
AllRequests   == {Wide, Endless, NoOst}

JobSymmetry == Permutations(JobIds)
=============================================================================
