----------------------------- MODULE RemoteCall -----------------------------
(***************************************************************************)
(* What a call over the network promises its caller; RequestReply shows    *)
(* how it is kept.  A call that succeeded has been executed at least once, *)
(* each copy of it at most once, none before it was made, and that is all: *)
(* a call that failed may have been executed, and copies of any call may   *)
(* be executed after it returned.                                          *)
(***************************************************************************)
CONSTANTS Calls,    \* the calls that are made, each once
          Copies    \* how often the caller sends a request, at most

VARIABLES phase,    \* call -> "new", "waiting", "succeeded" or "failed"
          executed  \* call -> the copies of it that have been executed

vars == <<phase, executed>>

Init == /\ phase = [c \in Calls |-> "new"]
        /\ executed = [c \in Calls |-> {}]

Return(c, outcome) == phase' = [phase EXCEPT ![c] = outcome] /\ UNCHANGED executed

\* A call may be turned down before anything is sent.
Begin(c) == phase[c] = "new" /\ (Return(c, "waiting") \/ Return(c, "failed"))

Execute(c) == /\ phase[c] # "new"
              /\ \E n \in Copies \ executed[c] :
                    executed' = [executed EXCEPT ![c] = @ \cup {n}]
              /\ UNCHANGED phase

Succeed(c) == phase[c] = "waiting" /\ executed[c] # {} /\ Return(c, "succeeded")
Fail(c)    == phase[c] = "waiting" /\ Return(c, "failed")

Next == \E c \in Calls : Begin(c) \/ Execute(c) \/ Succeed(c) \/ Fail(c)

Spec == Init /\ [][Next]_vars
=============================================================================
