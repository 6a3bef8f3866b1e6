---------------------------- MODULE QueueContract ----------------------------
(***************************************************************************)
(* What the job monitor needs of its queue besides an order: as a bag of   *)
(* items it behaves as WaitingQueue says, and Pop takes what Peek shows.   *)
(* The queue is given by constant operators, so that the job monitor can   *)
(* be reasoned about without the heap.                                     *)
(***************************************************************************)
EXTENDS JobTypes

CONSTANTS Queue, EmptyQueue, QPush(_, _), QPop(_), QRemove(_, _), QPeek(_),
          QBag(_)     \* a queue -> the bag of the items in it

BE == INSTANCE BagsExt

QItems(q) == DOMAIN QBag(q)

Contract ==
  LET queues == Queue
      Without(q, items) == {BE!BagRemove(QBag(q), item) : item \in items}
  IN  /\ EmptyQueue \in queues /\ QItems(EmptyQueue) = {}
      /\ \A q \in queues :
           /\ QBag(q) \in [QItems(q) -> Nat \ {0}] /\ QItems(q) \subseteq WaitingItem
           /\ QPop(q) \in queues
           /\ IF QItems(q) = {} THEN QPeek(q) = Null /\ QBag(QPop(q)) = QBag(q)
              ELSE QPeek(q) \in QItems(q) /\ QBag(QPop(q)) \in Without(q, {QPeek(q)})
           /\ \A job \in JobIds :
                LET own == {item \in QItems(q) : item.jobid = job}
                IN  /\ QRemove(q, job) \in queues
                    /\ QBag(QRemove(q, job)) \in IF own = {} THEN {QBag(q)}
                                                 ELSE Without(q, own)
           /\ \A item \in WaitingItem :
                QPush(q, item) \in queues => QBag(QPush(q, item)) = BE!BagAdd(QBag(q), item)
=============================================================================
