------------------------- MODULE ReservationService -------------------------
(***************************************************************************)
(* What the planner is for, seen from outside: a reservation that was      *)
(* granted is enforced after its start, on all its OSSs at once and with   *)
(* nothing else, stays enforced until its end has passed, is released once *)
(* and then forgotten, so that its id is free.  Planner shows under which  *)
(* circumstances the code keeps this.                                      *)
(***************************************************************************)
EXTENDS Naturals

CONSTANTS
  Ids,          \* the names reservations are given
  Nothing,      \* no reservation
  Terms,        \* what is reserved, with a start and an end
  RulesOf(_),   \* terms -> the rules that enforce them
  NoRules       \* the rules of a reservation that is not enforced

VARIABLES
  clock,
  phase,    \* id -> "free", "granted", "enforced" or "released"
  terms,    \* id -> the terms of its reservation, or Nothing
  rules     \* id -> the rules there are for it

vars == <<clock, phase, terms, rules>>

Init == /\ clock = 0
        /\ phase = [i \in Ids |-> "free"]
        /\ terms = [i \in Ids |-> Nothing]
        /\ rules = [i \in Ids |-> NoRules]

Moves(i, from, to) == phase[i] = from /\ phase' = [phase EXCEPT ![i] = to] /\ UNCHANGED clock

Grant(i) == /\ Moves(i, "free", "granted")
            /\ \E t \in Terms : t.start = clock /\ terms' = [terms EXCEPT ![i] = t]
            /\ UNCHANGED rules

Enforce(i) == /\ Moves(i, "granted", "enforced") /\ clock > terms[i].start
              /\ rules' = [rules EXCEPT ![i] = RulesOf(terms[i])]
              /\ UNCHANGED terms

Release(i) == /\ Moves(i, "enforced", "released") /\ clock > terms[i].end
              /\ rules' = [rules EXCEPT ![i] = NoRules]
              /\ UNCHANGED terms

Forget(i) == /\ Moves(i, "released", "free")
             /\ terms' = [terms EXCEPT ![i] = Nothing]
             /\ UNCHANGED rules

Passes == clock' = clock + 1 /\ UNCHANGED <<phase, terms, rules>>

Next == Passes \/ \E i \in Ids : Grant(i) \/ Enforce(i) \/ Release(i) \/ Forget(i)

Safety == Init /\ [][Next]_vars

\* What is due is done.
Liveness == \A i \in Ids : WF_vars(Enforce(i)) /\ WF_vars(Release(i)) /\ WF_vars(Forget(i))

Spec == Safety /\ Liveness
=============================================================================
