---------------------------- MODULE RequestReply ----------------------------
(***************************************************************************)
(* Requests over ZeroMQ: a caller that times out and sends again on a new  *)
(* socket, a server that receives, executes and answers on one REP socket. *)
(* The code exists twice: Client.cpp and Server.cpp for the planner, Oss-  *)
(* StubRuleSetter.cpp and OSSRuleServer.cpp for the rules of an OSS.  The  *)
(* network delivers in any order, or never: what is lost stays in requests *)
(* or reply for good.  What a socket is sent after it was closed is gone.  *)
(***************************************************************************)
EXTENDS ClientRequest

CONSTANTS
  MaxCalls,   \* bound on the calls: by client processes and the rule manager
  Workloads,  \* call -> command: what the callers are asked to do
  Retries,    \* kRequestRetries
  Strangers,  \* the servers that also get messages that are no requests
  Null        \* no request, no reply

\* The calls are numbered in the order in which they are made.
Calls  == 1 .. MaxCalls
Copies == 1 .. Retries

ASSUME BoundsAssumption   == MaxCalls \in Nat /\ Retries \in Nat \ {0}
ASSUME NullAssumption     == Null \notin Request \cup (Calls \X Copies) \cup {"none", "ok", "error"}
ASSUME WorkloadsAssumption == \A w \in Workloads : \A c \in Calls : RequestsOf(w[c]) \subseteq Request

VARIABLES
  asked,      \* call -> the command it is made for
  call,       \* call -> its request
  phase,      \* call -> "new", "waiting", "succeeded" or "failed"
  left,       \* call -> retries_left, which tells its sockets apart
  requests,   \* the copies on their way: <<call, retries_left when sent>>
  reply,      \* call -> the answer on its way to the open socket
  at,         \* server -> where Serve is: "receive", "answer" or "down"
  in_turn,    \* server -> the REP socket may receive (else it must send first)
  to,         \* server -> the copy to answer, Null for none
  rc,         \* server -> what to answer
  held,       \* server -> the reservations, the rules it has
  executed,   \* history: call -> the copies of it that were executed
  silent,     \* history: the calls whose command failed unnoticed on the OSS
  alone,      \* history: the calls since which no other on the same key was executed
  skipped     \* history: the servers that skipped a message

callerVars == <<asked, call, phase, left, alone>>
serverVars == <<at, in_turn, to, rc, held, executed, silent, skipped>>
vars == <<callerVars, requests, reply, serverVars>>

Rc == {"none", "ok", "error"}

TypeOK ==
  /\ asked \in Workloads
  /\ call \in [Calls -> Request \cup {Null}]
  /\ phase \in [Calls -> {"new", "waiting", "succeeded", "failed"}]
  /\ \A c \in Calls : phase[c] = "waiting" => call[c] # Null
  /\ left \in [Calls -> Copies]
  /\ requests \subseteq Calls \X Copies
  /\ \A copy \in requests : call[copy[1]] # Null
  /\ reply \in [Calls -> Rc \cup {Null}]
  /\ at \in [Servers -> {"receive", "answer", "down"}] /\ in_turn \in [Servers -> BOOLEAN]
  /\ to \in [Servers -> (Calls \X Copies) \cup {Null}] /\ rc \in [Servers -> Rc]
  /\ held \in [Servers -> SUBSET (Keys \cup {NoKey})]
  /\ executed \in [Calls -> SUBSET Copies]
  /\ silent \subseteq Calls /\ alone \subseteq Calls /\ skipped \subseteq Servers

Init ==
  /\ asked \in Workloads
  /\ call = [c \in Calls |-> Null] /\ phase = [c \in Calls |-> "new"]
  /\ left = [c \in Calls |-> Retries] /\ alone = {}
  /\ requests = {} /\ reply = [c \in Calls |-> Null]
  /\ at = [s \in Servers |-> "receive"] /\ in_turn = [s \in Servers |-> TRUE]
  /\ to = [s \in Servers |-> Null] /\ rc = [s \in Servers |-> "none"]
  /\ held = [s \in Servers |-> {}] /\ executed = [c \in Calls |-> {}]
  /\ silent = {} /\ skipped = {}

-----------------------------------------------------------------------------
(* The caller.                                                             *)

Begin(c) ==
  /\ phase[c] = "new" /\ \A d \in 1 .. c - 1 : phase[d] # "new"
  /\ IF RequestsOf(asked[c]) = {}
     THEN phase' = [phase EXCEPT ![c] = "failed"] /\ UNCHANGED <<call, requests, alone>>
     ELSE /\ \E request \in RequestsOf(asked[c]) : call' = [call EXCEPT ![c] = request]
          /\ phase' = [phase EXCEPT ![c] = "waiting"]
          /\ requests' = requests \cup {<<c, left[c]>>}
          /\ alone' = alone \cup {c}
  /\ UNCHANGED <<asked, left, reply, serverVars>>

\* Plausible bug: retries_left is not counted down.
CountDownForgets(c) == UNCHANGED left

CountDown(c) == left' = [left EXCEPT ![c] = @ - 1]

\* Plausible bug: one more try than there are retries.
OneMoreRetry(c) == left[c] > 0

RetriesLeft(c) == left[c] > 1

\* The poll timed out: close the socket, open a new one and send again, ...
Resend(c) ==
  /\ phase[c] = "waiting" /\ RetriesLeft(c)
  /\ CountDown(c)
  /\ requests' = requests \cup {<<c, left'[c]>>}
  /\ reply' = [reply EXCEPT ![c] = Null]
  /\ UNCHANGED <<asked, call, phase, alone, serverVars>>

\* Plausible bug: the loop ends with the `return true' below it.
AbandonedPhase == "succeeded"

\* ... or give up.
AbandonPhase == "failed"
Abandon(c) ==
  /\ phase[c] = "waiting" /\ ~RetriesLeft(c)
  /\ phase' = [phase EXCEPT ![c] = AbandonPhase]
  /\ reply' = [reply EXCEPT ![c] = Null]
  /\ UNCHANGED <<asked, call, left, alone, requests, serverVars>>

\* Plausible bug: the rule setter does not look at the reply, as reserve and
\* remove do not.
AcceptsAll(op, answer) == op = "list" => answer = "ok"

\* Which answers make a call succeed: reserve and remove only log them, list
\* wants one with a reply and no error; a missing rc counts as 0 for a rule.
Accepts(op, answer) == /\ op = "list" => answer = "ok"
                       /\ op \in {"start", "stop"} => answer # "error"

GetReply(c) ==
  /\ phase[c] = "waiting" /\ reply[c] # Null
  /\ phase' = [phase EXCEPT ![c] = IF Accepts(call[c].op, reply[c]) THEN "succeeded" ELSE "failed"]
  /\ reply' = [reply EXCEPT ![c] = Null]
  /\ UNCHANGED <<asked, call, left, alone, requests, serverVars>>

-----------------------------------------------------------------------------
(* The server.                                                             *)

\* What executing a request may answer and leave behind.  A reservation is
\* refused if the id is in use or too little is left, and not answered with a
\* reply if the OSTs of its files are not found; a delete request always
\* succeeds.  A rule's command is not executed if popen fails; what it does
\* itself, lctl's failure included, does not show in the answer.
Outcome(answer, keys, unnoticed) == [answer |-> answer, held |-> keys, unnoticed |-> unnoticed]
ServeJobSubmission(key, keys) ==
  {Outcome("none", keys, FALSE), Outcome("error", keys, FALSE)}
    \cup {Outcome("ok", keys \cup {key}, FALSE) : k \in {key} \ keys}
ServeCommand(keys, done) ==
  {Outcome("ok", done, FALSE), Outcome("ok", keys, TRUE), Outcome("error", keys, FALSE)}
ProcessMessage(r, keys) ==
  IF r.op = "reserve" THEN ServeJobSubmission(r.key, keys)
  ELSE IF r.op = "remove" THEN {Outcome("ok", keys \ {r.key}, FALSE)}
  ELSE IF r.op = "list" THEN {Outcome("ok", keys, FALSE)}
  ELSE ServeCommand(keys, IF r.op = "start" THEN keys \cup {r.key} ELSE keys \ {r.key})

\* s_recv on the REP socket.
Receives(s) == at[s] = "receive" /\ in_turn[s] /\ in_turn' = [in_turn EXCEPT ![s] = FALSE]

SameKey(a, b) == a.server = b.server /\ a.key = b.key

Serve(c, n) ==
  LET s == call[c].server
  IN  /\ <<c, n>> \in requests
      /\ Receives(s)
      /\ requests' = requests \ {<<c, n>>}
      /\ \E o \in ProcessMessage(call[c], held[s]) :
           /\ held' = [held EXCEPT ![s] = o.held]
           /\ rc' = [rc EXCEPT ![s] = o.answer]
           /\ silent' = IF o.unnoticed THEN silent \cup {c} ELSE silent
      /\ at' = [at EXCEPT ![s] = "answer"] /\ to' = [to EXCEPT ![s] = <<c, n>>]
      /\ executed' = [executed EXCEPT ![c] = @ \cup {n}]
      /\ alone' = {d \in alone : d = c \/ ~SameKey(call[d], call[c])}
      /\ UNCHANGED <<asked, call, phase, left, reply, skipped>>

\* Plausible bug: a message that cannot be parsed is skipped without an answer.
SkipUnparsable(s) == in_turn' = [in_turn EXCEPT ![s] = FALSE]

\* A message that cannot be parsed comes from a stranger, who is answered at once.
ProcessUnparsableMsg(s) == UNCHANGED in_turn

ServeUnparsable(s) ==
  /\ s \in Strangers
  /\ at[s] = "receive" /\ in_turn[s]
  /\ ProcessUnparsableMsg(s)
  /\ UNCHANGED <<callerVars, requests, reply, at, to, rc, held, executed, silent, skipped>>

\* One of type REPLY is skipped; Serve goes on to receive.
SkipReply(s) ==
  /\ s \in Strangers /\ Receives(s)
  /\ skipped' = skipped \cup {s}
  /\ UNCHANGED <<callerVars, requests, reply, at, to, rc, held, executed, silent>>

\* The answer reaches the caller if the socket that asked is still open.
Answer(s) ==
  /\ at[s] = "answer"
  /\ at' = [at EXCEPT ![s] = "receive"] /\ in_turn' = [in_turn EXCEPT ![s] = TRUE]
  /\ reply' = [c \in Calls |-> IF to[s] = <<c, left[c]>> /\ phase[c] = "waiting"
                               THEN rc[s] ELSE reply[c]]
  /\ to' = [to EXCEPT ![s] = Null] /\ rc' = [rc EXCEPT ![s] = "none"]
  /\ UNCHANGED <<callerVars, requests, held, executed, silent, skipped>>

\* A REP socket that owes an answer must not receive: s_recv throws, nobody
\* catches it, the process ends.
ReceiveOutOfTurn(s) ==
  /\ at[s] = "receive" /\ ~in_turn[s]
  /\ at' = [at EXCEPT ![s] = "down"]
  /\ UNCHANGED <<callerVars, requests, reply, in_turn, to, rc, held, executed, silent, skipped>>

-----------------------------------------------------------------------------
CallerNext(c) == Resend(c) \/ Abandon(c) \/ GetReply(c)

Next == \/ \E c \in Calls : Begin(c) \/ CallerNext(c)
        \/ \E copy \in requests : Serve(copy[1], copy[2])
        \/ \E s \in Servers : \/ ServeUnparsable(s) \/ SkipReply(s)
                              \/ Answer(s) \/ ReceiveOutOfTurn(s)

\* A caller that polls is woken up by the reply or by the timeout.
Spec     == Init /\ [][Next]_vars
FairSpec == Spec /\ \A c \in Calls : WF_vars(CallerNext(c))

-----------------------------------------------------------------------------
\* The caller's view of all this: a call that succeeds was executed, no copy of
\* it more than once and at most kRequestRetries of them, though each timeout
\* sends it again (SendAndReceiveRequest) and answers come late.
Promise == INSTANCE RemoteCall
ImplementsRemoteCall == Promise!Spec

\* Being executed again does no harm by itself: unless a copy of another call on
\* the same reservation or rule was executed since the call was made, once it
\* has succeeded the reservation is gone (remove), the rule is there (start) or
\* gone (stop), and stays so, whatever was lost, repeated or late - and unless
\* lctl failed, which exec() does not notice (util.h:60).
CallsTakeEffect ==
  \A c \in alone \ silent : phase[c] = "succeeded" =>
     LET r == call[c]
     IN  /\ r.op \in {"remove", "stop"} => r.key \notin held[r.server]
         /\ r.op = "start" => r.key \in held[r.server]

\* The REP socket alternates between receiving and sending on every path through
\* Serve but one: whatever garbage arrives, a server that never skipped a message
\* (the branch for messages of type REPLY) is neither down nor about to be.
ServersStayInTurn ==
  \A s \in Servers \ skipped : at[s] # "down" /\ (at[s] = "receive" <=> in_turn[s])

\* Every call returns: with an answer, or when the retries are used up, even if
\* the server is down (SendAndReceiveRequest).
CallsReturn == \A c \in Calls : phase[c] = "waiting" ~> phase[c] # "waiting"
=============================================================================
