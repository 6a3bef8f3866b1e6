------------------------------ MODULE JobQueue ------------------------------
(***************************************************************************)
(* JobPriorityQueue as a component: every sequence of Push, Pop and Remove *)
(* calls on one heap (src/common/JobPriorityQueue.cpp).                    *)
(***************************************************************************)
EXTENDS JobPriorityQueue

CONSTANT MaxSize        \* bound on the length of heap_

VARIABLES heap,         \* heap_
          reply         \* the last call and what it returned, Null if nothing

vars == <<heap, reply>>

Init == heap = <<>> /\ reply = Null

PushCall == \E item \in WaitingItem : /\ Len(heap) < MaxSize
                                      /\ heap' = Push(heap, item)
                                      /\ reply' = Null

PopCall == reply' = [call |-> "Pop", item |-> Peek(heap)] /\ heap' = Pop(heap)

RemoveCall == \E job \in JobIds :
                /\ heap' = Remove(heap, job)
                /\ reply' = [call |-> "Remove", job |-> job,
                             found |-> \E item \in Items(heap) : item.jobid = job]

Next == PushCall \/ PopCall \/ RemoveCall
Spec == Init /\ [][Next]_vars

-----------------------------------------------------------------------------
\* The heap keeps exactly the items that were pushed and not yet popped or
\* removed, whatever Up and Down rearrange, Pop returns one of them and Remove
\* takes one of the job it was called with: with the bag of its items for
\* waiting, every call is a step of the abstract queue.
Bag == INSTANCE WaitingQueue WITH waiting <- ItemBag(heap)
KeepsEveryItem == Bag!Spec
=============================================================================
