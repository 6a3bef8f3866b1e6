--------------------------- MODULE MCRequestReply ---------------------------
(***************************************************************************)
(* RequestReply for TLC: a reservation and a rule with the same name.      *)
(***************************************************************************)
EXTENDS RequestReply

CONSTANTS k1

Reserve(key, files, storage, dur) ==
  [op |-> "reserve", key |-> key, files |-> files, storage |-> storage, dur |-> dur]
ClientCommands == {Reserve(k1, 1, {}, 1), [op |-> "remove", key |-> k1], [op |-> "list"]}
RuleCommands   == [op : {"start", "stop"}, key : {k1}, address : {TRUE}]

\* Commands that fail at each of the checks before sending.
InvalidCommands == {Reserve(k1, 0, {}, 1), Reserve(k1, 1, {0}, 1), Reserve(k1, 1, {Unreadable}, 1),
                    Reserve(k1, 1, {}, 0), [op |-> "remove", key |-> NoKey],
                    [op |-> "start", key |-> k1, address |-> FALSE]}

\* The calls of a workload go to one server: the two share nothing.
MCWorkloads == [Calls -> ClientCommands] \cup [Calls -> RuleCommands]
                 \cup {[c \in Calls |-> cmd] : cmd \in InvalidCommands}
=============================================================================
