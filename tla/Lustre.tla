------------------------------- MODULE Lustre -------------------------------
(***************************************************************************)
(* What the planner sees of Lustre through lfs and lctl (src/common/-      *)
(* Lustre.cpp): the OSTs that exist by now, and what LocalLustre's calls   *)
(* return of them.  A call that runs a command has two ways to fail: popen *)
(* fails and the call says so, or the command fails and prints nothing,    *)
(* which exec() does not tell from a command with nothing to print.        *)
(***************************************************************************)
EXTENDS JobTypes

CONSTANTS
  UuidOf,       \* OST -> its uuid, as lfs lists it
  NoUuid,       \* the empty string for a uuid
  Homes,        \* OST -> the addresses of the OSSs that may serve it (failover)
  NoIp,         \* the empty string for an address
  LustreFaults  \* the ways in which commands may fail

ASSUME NumbersAssumption == Osts \subseteq Nat
ASSUME UuidAssumption ==
  /\ \A o \in Osts : UuidOf[o] # NoUuid
  /\ \A o, p \in Osts : UuidOf[o] = UuidOf[p] => o = p
ASSUME HomesAssumption == \A o \in Osts : Homes[o] # {} /\ Homes[o] \cap {NoIp, Null} = {}
ASSUME LustreFaultsAssumption == LustreFaults \subseteq {"exec", "silent"}

VARIABLE listed    \* the OSTs lfs knows: OSTs are added and never go

Uuids == {UuidOf[o] : o \in Osts}

\* Lustre grows.
AddOst == \E o \in Osts \ listed : listed' = listed \cup {o}

Popen(outputs) == {[ok |-> TRUE, out |-> out] : out \in outputs}
                    \cup IF "exec" \in LustreFaults THEN {[ok |-> FALSE, out |-> {}]} ELSE {}

\* GetOstList: the numbers of the OSTs, with the uuids they stand for.
GetOstList == Popen({listed} \cup IF "silent" \in LustreFaults THEN {{}} ELSE {})

\* lctl get_param osc.<uuid>*.ost_conn_uuid: with an empty uuid it asks for the
\* connections of all OSTs, and the pattern ".+" + "" + ".+ost_conn_uuid=..."
\* matches each of them.
Asked(uuid) == {o \in listed : uuid \in {NoUuid, UuidOf[o]}}

\* GetIPOfOst: the address in the first line that has one, if any.  lctl prints
\* the OSS that serves the OST at the moment.
GetIPOfOst(uuid, home) ==
  LET addresses == {home[o] : o \in Asked(uuid)}
      nothing   == IF addresses = {} \/ "silent" \in LustreFaults THEN {{}} ELSE {}
  IN  Popen({{ip} : ip \in addresses} \cup nothing)

\* ParseOstsFromGetStripe: the greedy ".+" before "([0-9]+)" leaves the group the
\* last digit of an OST's number.
ParseOstsFromGetStripe(stripe) == {o % 10 : o \in stripe}
=============================================================================
