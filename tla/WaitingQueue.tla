---------------------------- MODULE WaitingQueue ----------------------------
(***************************************************************************)
(* What the heap of waiting items promises its user, the JobMonitor, with- *)
(* out the order: a bag of items to which Push adds one, from which Pop    *)
(* takes one and Remove takes one of the given job, and nothing else       *)
(* appears or disappears (src/common/JobPriorityQueue.h, the comments of   *)
(* the public methods).                                                    *)
(***************************************************************************)
EXTENDS JobTypes

VARIABLES waiting,      \* the bag of items
          reply         \* the last call and what it returned, Null if nothing

B == INSTANCE Bags
BE == INSTANCE BagsExt
vars == <<waiting, reply>>

Init == waiting = B!EmptyBag /\ reply = Null

Push(item) == waiting' = BE!BagAdd(waiting, item) /\ reply' = Null

Pop == \/ /\ waiting = B!EmptyBag
          /\ reply' = [call |-> "Pop", item |-> Null]
          /\ UNCHANGED waiting
       \/ \E item \in B!BagToSet(waiting) :
             /\ reply' = [call |-> "Pop", item |-> item]
             /\ waiting' = BE!BagRemove(waiting, item)

Remove(job) ==
  LET own == {item \in B!BagToSet(waiting) : item.jobid = job}
  IN  /\ waiting' \in IF own = {} THEN {waiting}
                      ELSE {BE!BagRemove(waiting, item) : item \in own}
      /\ reply' = [call |-> "Remove", job |-> job, found |-> own # {}]

Next == \/ \E item \in WaitingItem : Push(item)
        \/ Pop
        \/ \E job \in JobIds : Remove(job)

Spec == Init /\ [][Next]_vars
=============================================================================
