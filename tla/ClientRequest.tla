---------------------------- MODULE ClientRequest ----------------------------
(***************************************************************************)
(* From a command to the request that is sent for it: the client's command *)
(* line (src/client) and the rule setter's commands to an OSS              *)
(* (src/common/OssStubRuleSetter.cpp).  Nothing here has a state.  The     *)
(* throughput, which StorageReqParser leaves uninitialised when the file   *)
(* has none, plays no part in what follows and is left out.                *)
(***************************************************************************)
EXTENDS Integers

CONSTANTS
  Keys,       \* ids of reservations, names of rules
  NoKey,      \* the empty id, the default of -id
  Unreadable  \* a storage requirements file that is missing or no JSON

ASSUME KeysAssumption == NoKey \notin Keys

Planner == "planner"
Oss     == "oss"
Servers == {Planner, Oss}
Request == [server : Servers, op : {"reserve", "remove", "list", "start", "stop"},
            key : Keys \cup {NoKey}]

\* TryParseReqFile: the number of files to use, those of the storage
\* requirements file where one is given, whatever -filenames says.  A command
\* lists its storage files: none or one.
FilesToUse(cmd) == IF cmd.storage = {} THEN {cmd.files} ELSE cmd.storage \ {Unreadable}

\* IsInputValid looks at the files twice and at the id never.
IsInputValid(files, dur) == files > 0 /\ dur >= 0

\* ReserveRequestBuilder: a reservation without an end is not asked for.
Builds(dur) == dur > 0

\* The request a command leads to, none where it is given up before.
ReserveRequests(cmd) ==
  {[server |-> Planner, op |-> "reserve", key |-> cmd.key] :
     files \in {f \in FilesToUse(cmd) : IsInputValid(f, cmd.dur) /\ Builds(cmd.dur)}}
RemoveRequests(cmd) ==
  {[server |-> Planner, op |-> "remove", key |-> key] : key \in {cmd.key} \ {NoKey}}
ListRequests == {[server |-> Planner, op |-> "list", key |-> NoKey]}

\* RemotelyExecuteCmd: no address, no request.
RuleRequests(cmd) ==
  {[server |-> Oss, op |-> cmd.op, key |-> cmd.key] : known \in {TRUE} \cap {cmd.address}}

RequestsOf(cmd) == IF cmd.op = "reserve" THEN ReserveRequests(cmd)
                   ELSE IF cmd.op = "remove" THEN RemoveRequests(cmd)
                   ELSE IF cmd.op = "list" THEN ListRequests ELSE RuleRequests(cmd)
=============================================================================
