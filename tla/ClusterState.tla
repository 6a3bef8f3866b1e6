---------------------------- MODULE ClusterState ----------------------------
(***************************************************************************)
(* The cluster state in main memory (src/common/ClusterState.cpp) and its  *)
(* update thread.  state_mut_ guards the map, but UpdateNode does not take *)
(* it, and the thread's loop reads the exit flag without it.               *)
(***************************************************************************)
EXTENDS Lustre

CONSTANTS
  Rates,          \* values of maxRpcSec
  DefaultRate     \* default_rpc_rate_

ASSUME RatesAssumption == DefaultRate \in Rates /\ Null \notin Rates

VARIABLES
  ost_state,   \* ost_state_map_: OST -> its maxRpcSec, Null for no entry
  started,     \* update_thread_started_
  active,      \* update_thread_is_active_
  exit_flag,   \* update_thread_exit_flag_
  pc,          \* where the owner's call of Init or TearDown is, and the updater
  got,         \* actor -> what lfs has listed for the Update in progress
  reading,     \* a getOstState in progress: no, clean, or torn by an insertion
  raced,       \* history: UpdateNode ran into somebody's write
  returned     \* history: a TearDown has returned, and Init was not called since

Actors == {"owner", "updater"}
clusterVars == <<ost_state, started, active, exit_flag, pc, got, reading, raced, returned>>

At(owner, updater) == [a \in Actors |-> IF a = "owner" THEN owner ELSE updater]

OwnerSteps   == {"idle", "list", "lock", "write", "asleep", "woken", "join"}
UpdaterSteps == {"none", "begin", "test", "list", "lock", "write", "exit", "ended"}

ClusterTypeOK ==
  /\ listed \subseteq Osts
  /\ ost_state \in [Osts -> Rates \cup {Null}]
  /\ started \in BOOLEAN /\ active \in BOOLEAN /\ exit_flag \in BOOLEAN
  /\ pc \in [Actors -> OwnerSteps \cup UpdaterSteps]
  /\ pc["owner"] \in OwnerSteps /\ pc["updater"] \in UpdaterSteps
  /\ got \in [Actors -> SUBSET Osts]
  /\ reading \in {"no", "clean", "torn"} /\ raced \in BOOLEAN /\ returned \in BOOLEAN

ClusterInit ==
  /\ listed \in SUBSET Osts
  /\ ost_state = [o \in Osts |-> Null]
  /\ started = FALSE /\ active = FALSE /\ exit_flag = FALSE
  /\ pc = At("idle", "none")
  /\ got = [a \in Actors |-> {}]
  /\ reading = "no" /\ raced = FALSE /\ returned = FALSE

Goes(a, where) == pc' = [pc EXCEPT ![a] = where]

\* Somebody holds state_mut_ for more than one step, to write or to read.
Writing == "write" \in {pc[a] : a \in Actors}
Locked  == Writing \/ reading # "no"

\* What notify_all does to an owner that waits in TearDown.
Notified(owner) == IF owner = "asleep" THEN "woken" ELSE owner

-----------------------------------------------------------------------------
\* Update, called by Init and by the updater: lfs is asked without the mutex, ...
Asks(a) ==
  /\ pc[a] = "list"
  /\ \E answer \in GetOstList :
       IF answer.ok
       THEN got' = [got EXCEPT ![a] = answer.out] /\ Goes(a, "lock")
       ELSE got' = got /\ Goes(a, IF a = "owner" THEN "idle" ELSE "test")
  /\ UNCHANGED <<listed, ost_state, started, active, exit_flag, raced, reading, returned>>

Locks(a) ==
  /\ pc[a] = "lock" /\ ~Locked
  /\ Goes(a, "write")
  /\ UNCHANGED <<listed, ost_state, started, active, exit_flag, got, raced, reading, returned>>

\* Plausible bug: the two numbers of an OSTWorkload are given in the wrong order.
SwappedRate == 0

\* maxRpcSec of the workload an update makes; currentRpcSec is 0.
UpdatedRate == DefaultRate

\* Plausible bug: the map is rebuilt from the list, as OstIdsConverter does.
WrittenAnew(osts) == [o \in Osts |-> IF o \in osts THEN UpdatedRate ELSE Null]

\* ... and each OST listed gets the default rate, whatever UpdateNode said.
Written(osts) == [o \in Osts |-> IF o \in osts THEN UpdatedRate ELSE ost_state[o]]

Writes(a) ==
  /\ pc[a] = "write"
  /\ ost_state' = Written(got[a])
  /\ got' = [got EXCEPT ![a] = {}]
  /\ IF a = "updater" THEN Goes(a, "test") /\ UNCHANGED started
     ELSE /\ pc' = At("idle", IF started THEN pc["updater"] ELSE "begin")
          /\ started' = TRUE
  /\ UNCHANGED <<listed, active, exit_flag, raced, reading, returned>>

\* The updater: updateRepeatedly.
Begins ==
  /\ pc["updater"] = "begin" /\ ~Locked
  /\ active' = ~exit_flag
  /\ pc' = IF exit_flag THEN At(pc["owner"], "ended") ELSE At(Notified(pc["owner"]), "test")
  /\ UNCHANGED <<listed, ost_state, started, exit_flag, got, raced, reading, returned>>

Tests ==
  /\ pc["updater"] = "test"
  /\ Goes("updater", IF exit_flag THEN "exit" ELSE "list")
  /\ UNCHANGED <<listed, ost_state, started, active, exit_flag, got, raced, reading, returned>>

\* Plausible bug: the thread ends without a word to the one who waits.
NotNotified(owner) == owner

NotifiedAtExit(owner) == Notified(owner)

Exits ==
  /\ pc["updater"] = "exit" /\ ~Locked
  /\ active' = FALSE
  /\ pc' = At(NotifiedAtExit(pc["owner"]), "ended")
  /\ UNCHANGED <<listed, ost_state, started, exit_flag, got, raced, reading, returned>>

-----------------------------------------------------------------------------
\* The owner of the object: Init, at any time, also again.
Init ==
  /\ pc["owner"] = "idle" /\ Goes("owner", "list") /\ returned' = FALSE
  /\ UNCHANGED <<listed, ost_state, started, active, exit_flag, got, raced, reading>>

\* TearDown asks the thread to exit, waits until it is not active and joins it.
TearDown ==
  /\ pc["owner"] = "idle" /\ ~Locked
  /\ exit_flag' = TRUE
  /\ Goes("owner", IF active THEN "asleep" ELSE "join")
  /\ UNCHANGED <<listed, ost_state, started, active, got, raced, reading, returned>>

Wakes ==
  /\ pc["owner"] = "woken" /\ ~Locked
  /\ Goes("owner", IF active THEN "asleep" ELSE "join")
  /\ UNCHANGED <<listed, ost_state, started, active, exit_flag, got, raced, reading, returned>>

\* Plausible bug: the thread is left to itself.
Detached == TRUE

Joined == pc["updater"] \in {"none", "ended"}

Returns ==
  /\ pc["owner"] = "join" /\ Joined
  /\ Goes("owner", "idle") /\ returned' = TRUE
  /\ UNCHANGED <<listed, ost_state, started, active, exit_flag, got, raced, reading>>

\* getOstState takes the mutex to look for an entry ...
LocksToRead == ~Locked /\ reading' = "clean"

\* ... and to copy it: an entry that is there may be missed while another one is
\* inserted, since the tree is rearranged under the search.
MayRead(o) == {ost_state[o]} \cup (IF reading = "torn" THEN {Null} ELSE {})
Reads(o, rate) == reading # "no" /\ rate \in MayRead(o) /\ reading' = "no"

\* UpdateNode takes no mutex; one thread at a time calls it.  In the middle of
\* somebody else's write the map may lose what either of them or anybody before
\* has put there; a new entry in the middle of a read tears the read.
UpdateNode(o, rate) ==
  /\ IF Writing
     THEN /\ ost_state' \in {m \in [Osts -> Rates \cup {Null}] :
                               \A p \in Osts : m[p] \in {Null, ost_state[p], rate}}
          /\ raced' = TRUE /\ UNCHANGED reading
     ELSE /\ ost_state' = [ost_state EXCEPT ![o] = rate] /\ UNCHANGED raced
          /\ reading' = IF reading # "no" /\ ost_state[o] = Null THEN "torn" ELSE reading
  /\ UNCHANGED <<listed, started, active, exit_flag, pc, got, returned>>

-----------------------------------------------------------------------------
Updater == Begins \/ Tests \/ Asks("updater") \/ Locks("updater") \/ Writes("updater") \/ Exits
Owner   == Asks("owner") \/ Locks("owner") \/ Writes("owner") \/ Wakes \/ Returns

ClusterNext == \/ Updater \/ Owner \/ Init \/ TearDown
               \/ \E o \in Osts, rate \in Rates : UpdateNode(o, rate)
               \/ AddOst /\ UNCHANGED clusterVars
=============================================================================
