-------------------------- MODULE JobPriorityQueue --------------------------
(***************************************************************************)
(* The binary heap of waiting items (src/common/JobPriorityQueue.cpp) as   *)
(* functions from heaps to heaps.  heap_[i] of the code is q[i + 1] here,  *)
(* so the children of position p are 2p and 2p + 1.                        *)
(***************************************************************************)
EXTENDS JobTypes
SE == INSTANCE SequencesExt

Swap(q, a, b) == [q EXCEPT ![a] = q[b], ![b] = q[a]]

\* A heap with a position in it.
Places == {at \in Seq(WaitingItem) \X Nat : at[2] \in DOMAIN at[1]}

\* Up moves the item at pos towards the root while its parent's time is smaller.
Up[at \in Places] ==
  LET q == at[1]  pos == at[2]  parent == pos \div 2
  IN  IF pos = 1 \/ q[parent].time_of_event >= q[pos].time_of_event
      THEN q
      ELSE Up[<<Swap(q, parent, pos), parent>>]

\* Down stops at a node with fewer than two children; otherwise it moves the
\* item at pos below its earlier child unless the item is earlier than that.
Child(q, pos) == IF q[2*pos].time_of_event < q[2*pos + 1].time_of_event
                 THEN 2*pos ELSE 2*pos + 1
Down[at \in Places] ==
  LET q == at[1]  pos == at[2]  child == Child(q, pos)
  IN  IF 2*pos + 1 > Len(q) \/ q[pos].time_of_event < q[child].time_of_event
      THEN q
      ELSE Down[<<Swap(q, pos, child), child>>]

Push(q, item) == Up[<<Append(q, item), Len(q) + 1>>]

\* The item at pos makes room: the last item takes its place.
FillWithLast(q, pos) == SE!Front([q EXCEPT ![pos] = q[Len(q)]])

\* heap_ after Pop; the item it returns is Peek(q).
Pop(q) == IF Len(q) <= 1 THEN <<>> ELSE Down[<<FillWithLast(q, 1), 1>>]

\* Plausible bug: the last item is popped without taking the removed one's place.
RemoveForgetsLast(q, job) ==
  IF \E i \in DOMAIN q : q[i].jobid = job THEN SE!Front(q) ELSE q

\* heap_ after Remove: the first item of the job goes, if it has one.
Remove(q, job) ==
  LET i == SE!SelectInSeq(q, LAMBDA item : item.jobid = job)
  IN  CASE i = 0              -> q
        [] i # 0 /\ i = Len(q) -> SE!Front(q)
        [] OTHER              -> Down[<<FillWithLast(q, i), i>>]

Peek(q) == IF q = <<>> THEN Null ELSE q[1]

\* The items a heap holds.
Items(q) == SE!ToSet(q)

\* The items a heap holds, each with the number of its copies.
ItemBag(q) == [item \in Items(q) |-> Cardinality({i \in DOMAIN q : q[i] = item})]
=============================================================================
