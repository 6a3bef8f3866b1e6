------------------------- MODULE RequestReplyProofs -------------------------
(***************************************************************************)
(* Proofs about RequestReply: types, the alternation of the REP socket,    *)
(* what a successful call has done, and that the whole implements the      *)
(* abstract RemoteCall.                                                    *)
(***************************************************************************)
EXTENDS RequestReply, TLAPS

\* A step of a call or a server; the form in which the proofs take Next apart.
LEMMA NextCases ==
  ASSUME Next
  PROVE  \/ \E c \in Calls : Begin(c) \/ Resend(c) \/ Abandon(c) \/ GetReply(c)
         \/ \E copy \in requests : Serve(copy[1], copy[2])
         \/ \E s \in Servers : ServeUnparsable(s) \/ SkipReply(s) \/ Answer(s) \/ ReceiveOutOfTurn(s)
BY DEF Next, CallerNext

\* Executing a request leaves a set of keys, and one of the three answers.
LEMMA OutcomeType ==
  ASSUME NEW r \in Request, NEW keys \in SUBSET (Keys \cup {NoKey}),
         NEW o \in ProcessMessage(r, keys)
  PROVE  o.held \in SUBSET (Keys \cup {NoKey}) /\ o.answer \in Rc
<1>1. r.key \in Keys \cup {NoKey}
  BY DEF Request
<1>2. CASE r.op = "reserve"
  BY <1>1, <1>2 DEF ProcessMessage, ServeJobSubmission, Outcome, Rc
<1>3. CASE r.op = "remove"
  BY <1>1, <1>3 DEF ProcessMessage, Outcome, Rc
<1>4. CASE r.op = "list"
  BY <1>1, <1>4 DEF ProcessMessage, Outcome, Rc
<1>5. CASE r.op = "start"
  BY <1>1, <1>5 DEF ProcessMessage, ServeCommand, Outcome, Rc
<1>6. CASE r.op \notin {"reserve", "remove", "list", "start"}
  BY <1>1, <1>6 DEF ProcessMessage, ServeCommand, Outcome, Rc
<1> QED
  BY <1>2, <1>3, <1>4, <1>5, <1>6

-----------------------------------------------------------------------------
(* Types.                                                                  *)

\* A call begins with the request its command leads to, or fails without one.
LEMMA BeginType ==
  ASSUME TypeOK, NEW c \in Calls, Begin(c)
  PROVE  TypeOK'
<1>1. RequestsOf(asked[c]) \subseteq Request
  BY WorkloadsAssumption DEF TypeOK
<1>2. CASE RequestsOf(asked[c]) = {}
  BY <1>2 DEF Begin, TypeOK, serverVars
<1>3. CASE RequestsOf(asked[c]) # {}
  <2>1. PICK request \in Request : call' = [call EXCEPT ![c] = request]
    BY <1>1, <1>3 DEF Begin
  <2>2. request # Null
    BY NullAssumption
  <2>3. /\ phase' = [phase EXCEPT ![c] = "waiting"]
        /\ requests' = requests \cup {<<c, left[c]>>}
        /\ alone' = alone \cup {c}
        /\ UNCHANGED <<asked, left, reply, serverVars>>
    BY <1>3 DEF Begin
  <2>4. /\ call' \in [Calls -> Request \cup {Null}]
        /\ phase' \in [Calls -> {"new", "waiting", "succeeded", "failed"}]
        /\ \A d \in Calls : phase'[d] = "waiting" => call'[d] # Null
    BY <2>1, <2>2, <2>3 DEF TypeOK
  <2>5. requests' \subseteq Calls \X Copies /\ \A copy \in requests' : call'[copy[1]] # Null
    BY <2>1, <2>2, <2>3 DEF TypeOK
  <2> QED
    BY <2>3, <2>4, <2>5 DEF TypeOK, serverVars
<1> QED
  BY <1>2, <1>3

\* The caller's other steps.
LEMMA CallerType ==
  ASSUME TypeOK, NEW c \in Calls, Resend(c) \/ Abandon(c) \/ GetReply(c)
  PROVE  TypeOK'
<1>1. CASE Resend(c)
  <2>1. left' = [left EXCEPT ![c] = @ - 1] /\ left[c] - 1 \in Copies
    BY <1>1, BoundsAssumption DEF Resend, CountDown, RetriesLeft, TypeOK, Copies
  <2>2. left' \in [Calls -> Copies] /\ left'[c] \in Copies
    BY <2>1 DEF TypeOK
  <2>3. requests' \subseteq Calls \X Copies /\ \A copy \in requests' : call'[copy[1]] # Null
    BY <1>1, <2>2 DEF Resend, TypeOK
  <2> QED
    BY <1>1, <2>2, <2>3 DEF Resend, TypeOK, serverVars
<1>2. CASE Abandon(c)
  BY <1>2 DEF Abandon, AbandonPhase, TypeOK, serverVars
<1>3. CASE GetReply(c)
  BY <1>3 DEF GetReply, TypeOK, serverVars
<1> QED
  BY <1>1, <1>2, <1>3

\* The server's steps.
LEMMA ServeType ==
  ASSUME TypeOK, NEW copy \in requests, Serve(copy[1], copy[2])
  PROVE  TypeOK'
<1>1. PICK c \in Calls, n \in Copies : copy = <<c, n>> /\ call[c] \in Request
  BY DEF TypeOK
<1> DEFINE s == call[c].server
<1>2. s \in Servers /\ held[s] \in SUBSET (Keys \cup {NoKey})
  BY <1>1 DEF Request, TypeOK
<1>3. Serve(c, n)
  BY <1>1
<1>4. PICK o \in ProcessMessage(call[c], held[s]) :
        /\ held' = [held EXCEPT ![s] = o.held]
        /\ rc' = [rc EXCEPT ![s] = o.answer]
        /\ silent' = IF o.unnoticed THEN silent \cup {c} ELSE silent
  BY <1>3 DEF Serve
<1>5. /\ held' \in [Servers -> SUBSET (Keys \cup {NoKey})]
      /\ rc' \in [Servers -> Rc] /\ silent' \subseteq Calls
  BY <1>1, <1>2, <1>4, OutcomeType DEF TypeOK
<1>6. /\ requests' = requests \ {<<c, n>>}
      /\ at' = [at EXCEPT ![s] = "answer"] /\ to' = [to EXCEPT ![s] = <<c, n>>]
      /\ in_turn' = [in_turn EXCEPT ![s] = FALSE]
      /\ executed' = [executed EXCEPT ![c] = @ \cup {n}]
      /\ alone' \subseteq alone
      /\ UNCHANGED <<asked, call, phase, left, reply, skipped>>
  BY <1>3 DEF Serve, Receives
<1>7. /\ to' \in [Servers -> (Calls \X Copies) \cup {Null}]
      /\ executed' \in [Calls -> SUBSET Copies]
  BY <1>1, <1>6 DEF TypeOK
<1> QED
  BY <1>5, <1>6, <1>7 DEF TypeOK

\* The server's steps that execute nothing.
LEMMA ServerType ==
  ASSUME TypeOK, NEW s \in Servers,
         ServeUnparsable(s) \/ SkipReply(s) \/ Answer(s) \/ ReceiveOutOfTurn(s)
  PROVE  TypeOK'
<1>1. CASE ServeUnparsable(s)
  BY <1>1 DEF ServeUnparsable, ProcessUnparsableMsg, TypeOK, callerVars
<1>2. CASE SkipReply(s)
  BY <1>2 DEF SkipReply, Receives, TypeOK, callerVars
<1>3. CASE Answer(s)
  <2>1. reply' \in [Calls -> Rc \cup {Null}]
    BY <1>3 DEF Answer, TypeOK
  <2> QED
    BY <1>3, <2>1 DEF Answer, TypeOK, callerVars, Rc
<1>4. CASE ReceiveOutOfTurn(s)
  BY <1>4 DEF ReceiveOutOfTurn, TypeOK, callerVars
<1> QED
  BY <1>1, <1>2, <1>3, <1>4

\* At the start nothing is on its way.
LEMMA InitType == Init => TypeOK
BY BoundsAssumption DEF Init, TypeOK, Copies, Rc

\* Every step of callers, servers and strangers keeps the types.
LEMMA NextType == TypeOK /\ [Next]_vars => TypeOK'
<1> SUFFICES ASSUME TypeOK, [Next]_vars PROVE TypeOK'
  OBVIOUS
<1>1. CASE Next
  BY <1>1, NextCases, BeginType, CallerType, ServeType, ServerType
<1>2. CASE UNCHANGED vars
  BY <1>2 DEF vars, callerVars, serverVars, TypeOK
<1> QED
  BY <1>1, <1>2

\* The variables have their types, and copies of a request travel only once it
\* has been made (SendAndReceiveRequest, Serve).
THEOREM RequestTypes == Spec => []TypeOK
<1> QED
  BY InitType, NextType, PTL DEF Spec

-----------------------------------------------------------------------------
(* Turns.                                                                  *)

\* A server that has skipped no message is never about to receive out of turn
\* (Serve, ProcessUnparsableMsg).
THEOREM TurnsHold == Spec => []ServersStayInTurn
<1>1. Init => ServersStayInTurn
  BY DEF Init, ServersStayInTurn
<1>2. TypeOK /\ ServersStayInTurn /\ [Next]_vars => ServersStayInTurn'
  <2> SUFFICES ASSUME TypeOK, ServersStayInTurn, [Next]_vars PROVE ServersStayInTurn'
    OBVIOUS
  <2>1. ASSUME NEW c \in Calls, Begin(c) \/ Resend(c) \/ Abandon(c) \/ GetReply(c)
        PROVE  ServersStayInTurn'
    BY <2>1 DEF Begin, Resend, Abandon, GetReply, serverVars, ServersStayInTurn
  <2>2. ASSUME NEW copy \in requests, Serve(copy[1], copy[2])
        PROVE  ServersStayInTurn'
    BY <2>2 DEF Serve, Receives, ServersStayInTurn, TypeOK
  <2>3. ASSUME NEW s \in Servers, ServeUnparsable(s) \/ SkipReply(s)
        PROVE  ServersStayInTurn'
    BY <2>3 DEF ServeUnparsable, ProcessUnparsableMsg, SkipReply, Receives, ServersStayInTurn, TypeOK
  <2>4. ASSUME NEW s \in Servers, Answer(s) \/ ReceiveOutOfTurn(s)
        PROVE  ServersStayInTurn'
    BY <2>4 DEF Answer, ReceiveOutOfTurn, ServersStayInTurn, TypeOK
  <2>5. CASE UNCHANGED vars
    BY <2>5 DEF vars, serverVars, ServersStayInTurn
  <2> QED
    BY <2>1, <2>2, <2>3, <2>4, <2>5, NextCases
<1> QED
  BY <1>1, <1>2, RequestTypes, PTL DEF Spec

-----------------------------------------------------------------------------
(* Copies and answers.                                                     *)

\* Each copy carries the number of retries that were left when it was sent, so
\* that no two are alike; what is answered has been executed.
CopyInv(c) ==
  /\ \A n \in Copies : <<c, n>> \in requests =>
        n \notin executed[c] /\ left[c] <= n /\ phase[c] # "new"
  /\ \A n \in executed[c] : left[c] <= n /\ phase[c] # "new"
AnswerInv(c) ==
  /\ reply[c] # Null => executed[c] # {}
  /\ \A s \in Servers : \A n \in Copies : to[s] = <<c, n>> => executed[c] # {}
  /\ phase[c] = "succeeded" => executed[c] # {}
DeliveryInv == \A c \in Calls : CopyInv(c) /\ AnswerInv(c)

\* No call has been made at the start.
LEMMA DeliveryInit == Init => DeliveryInv
BY NullAssumption DEF Init, DeliveryInv, CopyInv, AnswerInv

\* A caller sends a copy with a number it has not used yet and accepts only answers
\* to its open socket.
LEMMA CallerDelivery ==
  ASSUME TypeOK, DeliveryInv, NEW c \in Calls,
         Begin(c) \/ Resend(c) \/ Abandon(c) \/ GetReply(c)
  PROVE  DeliveryInv'
<1> SUFFICES ASSUME NEW d \in Calls PROVE CopyInv(d)' /\ AnswerInv(d)'
  BY DEF DeliveryInv
<1>0. CopyInv(d) /\ AnswerInv(d) /\ CopyInv(c) /\ AnswerInv(c)
  BY DEF DeliveryInv
<1>1. CASE Begin(c)
  BY <1>0, <1>1 DEF Begin, CopyInv, AnswerInv, TypeOK, serverVars, Copies
<1>2. CASE Resend(c)
  <2>1. left' = [left EXCEPT ![c] = @ - 1] /\ left[c] \in Nat /\ left[d] \in Nat
    BY <1>2, BoundsAssumption DEF Resend, CountDown, TypeOK, Copies
  <2>2. CopyInv(d)'
    BY <1>0, <1>2, <2>1, BoundsAssumption DEF Resend, CopyInv, TypeOK, serverVars, Copies
  <2>3. AnswerInv(d)'
    BY <1>0, <1>2 DEF Resend, AnswerInv, TypeOK, serverVars
  <2> QED
    BY <2>2, <2>3
<1>3. CASE Abandon(c)
  BY <1>0, <1>3 DEF Abandon, AbandonPhase, CopyInv, AnswerInv, TypeOK, serverVars
<1>4. CASE GetReply(c)
  BY <1>0, <1>4 DEF GetReply, CopyInv, AnswerInv, TypeOK, serverVars
<1> QED
  BY <1>1, <1>2, <1>3, <1>4

\* A server takes a copy off the network, so that it is not executed again.
LEMMA ServeDelivery ==
  ASSUME TypeOK, DeliveryInv, NEW copy \in requests, Serve(copy[1], copy[2])
  PROVE  DeliveryInv'
<1>0. PICK c \in Calls, n \in Copies : copy = <<c, n>>
  BY DEF TypeOK
<1>1. <<c, n>> \in requests /\ Serve(c, n)
  BY <1>0
<1> SUFFICES ASSUME NEW d \in Calls PROVE CopyInv(d)' /\ AnswerInv(d)'
  BY DEF DeliveryInv
<1>2. CopyInv(d) /\ AnswerInv(d) /\ CopyInv(c)
  BY DEF DeliveryInv
<1>3. /\ requests' = requests \ {<<c, n>>}
      /\ to' = [to EXCEPT ![call[c].server] = <<c, n>>]
      /\ executed' = [executed EXCEPT ![c] = @ \cup {n}]
      /\ UNCHANGED <<phase, left, reply>>
  BY <1>1 DEF Serve
<1>4. CopyInv(d)'
  BY <1>1, <1>2, <1>3 DEF CopyInv, TypeOK
<1>5. AnswerInv(d)'
  BY <1>1, <1>2, <1>3 DEF AnswerInv, TypeOK
<1> QED
  BY <1>4, <1>5

\* A server's other steps execute nothing; its answer is to what it executed last.
LEMMA ServerDelivery ==
  ASSUME TypeOK, DeliveryInv, NEW s \in Servers,
         ServeUnparsable(s) \/ SkipReply(s) \/ Answer(s) \/ ReceiveOutOfTurn(s)
  PROVE  DeliveryInv'
<1> SUFFICES ASSUME NEW d \in Calls PROVE CopyInv(d)' /\ AnswerInv(d)'
  BY DEF DeliveryInv
<1>0. CopyInv(d) /\ AnswerInv(d)
  BY DEF DeliveryInv
<1>1. CASE Answer(s)
  <2>1. /\ to' = [to EXCEPT ![s] = Null] /\ UNCHANGED <<callerVars, requests, executed>>
        /\ reply' = [c \in Calls |-> IF to[s] = <<c, left[c]>> /\ phase[c] = "waiting"
                                     THEN rc[s] ELSE reply[c]]
    BY <1>1 DEF Answer
  <2>2. left[d] \in Copies /\ \A n \in Copies : <<d, n>> # Null
    BY NullAssumption DEF TypeOK
  <2> QED
    BY <1>0, <2>1, <2>2 DEF CopyInv, AnswerInv, TypeOK, callerVars
<1>2. CASE ServeUnparsable(s) \/ SkipReply(s) \/ ReceiveOutOfTurn(s)
  BY <1>0, <1>2 DEF ServeUnparsable, SkipReply, ReceiveOutOfTurn, CopyInv, AnswerInv, callerVars
<1> QED
  BY <1>1, <1>2

\* Both hold in every behaviour.
LEMMA DeliveryHolds == Spec => []DeliveryInv
<1>1. TypeOK /\ DeliveryInv /\ [Next]_vars => DeliveryInv'
  <2>1. TypeOK /\ DeliveryInv /\ Next => DeliveryInv'
    BY NextCases, CallerDelivery, ServeDelivery, ServerDelivery
  <2>2. DeliveryInv /\ UNCHANGED vars => DeliveryInv'
    BY DEF vars, callerVars, serverVars, DeliveryInv, CopyInv, AnswerInv
  <2> QED
    BY <2>1, <2>2
<1> QED
  BY <1>1, DeliveryInit, RequestTypes, PTL DEF Spec

-----------------------------------------------------------------------------
(* The refinement.                                                         *)

\* Every step of a caller or a server is one of RemoteCall, or none of its
\* business: sending again is a stutter, executing a copy is Execute.
LEMMA CallerRefines ==
  ASSUME TypeOK, DeliveryInv, NEW c \in Calls,
         Begin(c) \/ Resend(c) \/ Abandon(c) \/ GetReply(c)
  PROVE  Promise!Next \/ UNCHANGED <<phase, executed>>
<1>1. CASE Begin(c)
  BY <1>1 DEF Begin, serverVars, Promise!Next, Promise!Begin, Promise!Return
<1>2. CASE Resend(c)
  BY <1>2 DEF Resend, serverVars
<1>3. CASE Abandon(c)
  BY <1>3 DEF Abandon, AbandonPhase, serverVars, Promise!Next, Promise!Fail, Promise!Return
<1>4. CASE GetReply(c)
  <2>1. executed[c] # {}
    BY <1>4 DEF GetReply, DeliveryInv, AnswerInv
  <2> QED
    BY <1>4, <2>1 DEF GetReply, serverVars, Promise!Next, Promise!Succeed, Promise!Fail, Promise!Return
<1> QED
  BY <1>1, <1>2, <1>3, <1>4

\* A copy that is executed was not executed before.
LEMMA ServeRefines ==
  ASSUME TypeOK, DeliveryInv, NEW copy \in requests, Serve(copy[1], copy[2])
  PROVE  Promise!Next
<1>0. PICK c \in Calls, n \in Copies : copy = <<c, n>>
  BY DEF TypeOK
<1>1. <<c, n>> \in requests /\ Serve(c, n)
  BY <1>0
<1>2. n \in Copies \ executed[c] /\ phase[c] # "new"
  BY <1>1 DEF DeliveryInv, CopyInv
<1>3. executed' = [executed EXCEPT ![c] = @ \cup {n}] /\ UNCHANGED phase
  BY <1>1 DEF Serve
<1> QED
  BY <1>2, <1>3 DEF Promise!Next, Promise!Execute

\* A server's other steps are none of the remote call's.
LEMMA ServerRefines ==
  ASSUME NEW s \in Servers,
         ServeUnparsable(s) \/ SkipReply(s) \/ Answer(s) \/ ReceiveOutOfTurn(s)
  PROVE  UNCHANGED <<phase, executed>>
BY DEF ServeUnparsable, SkipReply, Answer, ReceiveOutOfTurn, callerVars

\* Timeouts, resending, late, lost and reordered messages keep the promise of
\* RemoteCall: what succeeded was executed, each copy at most once
\* (SendAndReceiveRequest on one side, Serve on the other).
THEOREM CallsImplementPromise == Spec => ImplementsRemoteCall
<1>1. Init => Promise!Init
  BY DEF Init, Promise!Init
<1>2. TypeOK /\ DeliveryInv /\ [Next]_vars => [Promise!Next]_(Promise!vars)
  <2>1. TypeOK /\ DeliveryInv /\ Next => Promise!Next \/ UNCHANGED <<phase, executed>>
    BY NextCases, CallerRefines, ServeRefines, ServerRefines
  <2>2. UNCHANGED vars => UNCHANGED <<phase, executed>>
    BY DEF vars, callerVars, serverVars
  <2> QED
    BY <2>1, <2>2 DEF Promise!vars
<1> QED
  BY <1>1, <1>2, RequestTypes, DeliveryHolds, PTL DEF Spec, ImplementsRemoteCall, Promise!Spec

-----------------------------------------------------------------------------
(* Effects.                                                                *)

\* What the call is for is so on its server.
Effective(c) ==
  LET r == call[c]
  IN  /\ r.op \in {"remove", "stop"} => r.key \notin held[r.server]
      /\ r.op = "start" => r.key \in held[r.server]
\* A success, or an answer that will make it one, is on record.
Answered(c) ==
  \/ phase[c] = "succeeded"
  \/ reply[c] # Null /\ Accepts(call[c].op, reply[c])
  \/ \E s \in Servers : \E n \in Copies : to[s] = <<c, n>> /\ Accepts(call[c].op, rc[s])
EffectInv == \A c \in alone \ silent : Answered(c) => Effective(c)

\* A request that is answered with what its caller accepts did what it is for,
\* and one that is not changes nothing (ServeCommand, ServeJobRemove).
LEMMA OutcomeEffect ==
  ASSUME NEW r \in Request, NEW keys \in SUBSET (Keys \cup {NoKey}),
         NEW o \in ProcessMessage(r, keys), ~o.unnoticed
  PROVE  /\ \A key : key # r.key => (key \in o.held <=> key \in keys)
         /\ r.op = "start" => IF Accepts(r.op, o.answer) THEN r.key \in o.held ELSE o.held = keys
         /\ r.op \in {"remove", "stop"} =>
               IF Accepts(r.op, o.answer) THEN r.key \notin o.held ELSE o.held = keys
<1>1. CASE r.op = "reserve"
  BY <1>1 DEF ProcessMessage, ServeJobSubmission, Outcome
<1>2. CASE r.op = "remove"
  BY <1>2 DEF ProcessMessage, Outcome, Accepts
<1>3. CASE r.op = "list"
  BY <1>3 DEF ProcessMessage, Outcome
<1>4. CASE r.op = "start"
  BY <1>4 DEF ProcessMessage, ServeCommand, Outcome, Accepts
<1>5. CASE r.op = "stop"
  BY <1>5 DEF ProcessMessage, ServeCommand, Outcome, Accepts
<1> QED
  BY <1>1, <1>2, <1>3, <1>4, <1>5 DEF Request

\* Commands on other keys are none of a call's business, noticed or not.
LEMMA OutcomeElsewhere ==
  ASSUME NEW r \in Request, NEW keys \in SUBSET (Keys \cup {NoKey}),
         NEW o \in ProcessMessage(r, keys), NEW key, key # r.key
  PROVE  key \in o.held <=> key \in keys
<1>1. CASE r.op = "reserve"
  BY <1>1 DEF ProcessMessage, ServeJobSubmission, Outcome
<1>2. CASE r.op = "remove"
  BY <1>2 DEF ProcessMessage, Outcome
<1>3. CASE r.op = "list"
  BY <1>3 DEF ProcessMessage, Outcome
<1>4. CASE r.op = "start"
  BY <1>4 DEF ProcessMessage, ServeCommand, Outcome
<1>5. CASE r.op = "stop"
  BY <1>5 DEF ProcessMessage, ServeCommand, Outcome
<1> QED
  BY <1>1, <1>2, <1>3, <1>4, <1>5 DEF Request

\* A caller's steps leave what the servers hold, and make no success without an answer.
LEMMA CallerEffect ==
  ASSUME TypeOK, DeliveryInv, EffectInv, NEW c \in Calls,
         Begin(c) \/ Resend(c) \/ Abandon(c) \/ GetReply(c)
  PROVE  EffectInv'
<1> SUFFICES ASSUME NEW d \in alone' \ silent', Answered(d)' PROVE Effective(d)'
  BY DEF EffectInv
<1>1. CASE Begin(c)
  <2>1. d # c
    <3>1. executed[c] = {} /\ reply[c] = Null /\ \A s \in Servers, n \in Copies : to[s] # <<c, n>>
      BY <1>1 DEF Begin, DeliveryInv, CopyInv, AnswerInv
    <3>2. phase'[c] # "succeeded" /\ reply'[c] = Null /\ to' = to
      BY <1>1, <3>1 DEF Begin, TypeOK, serverVars
    <3> QED
      BY <3>1, <3>2 DEF Answered
  <2>2. d \in alone /\ d \in Calls /\ phase'[d] = phase[d] /\ call'[d] = call[d]
    BY <1>1, <2>1 DEF Begin, TypeOK
  <2>3. UNCHANGED <<reply, to, rc, held, silent>>
    BY <1>1 DEF Begin, serverVars
  <2> QED
    BY <2>2, <2>3 DEF EffectInv, Answered, Effective
<1>2. CASE Resend(c) \/ Abandon(c)
  BY <1>2 DEF Resend, Abandon, AbandonPhase, EffectInv, Answered, Effective, TypeOK, serverVars
<1>3. CASE GetReply(c)
  BY <1>3 DEF GetReply, EffectInv, Answered, Effective, TypeOK, serverVars
<1> QED
  BY <1>1, <1>2, <1>3

\* Executing a copy of a call has its effect; executing one of another call either
\* concerns another key or takes the first call out of alone.
LEMMA ServeEffect ==
  ASSUME TypeOK, EffectInv, NEW copy \in requests, Serve(copy[1], copy[2])
  PROVE  EffectInv'
<1>0. PICK c \in Calls, n \in Copies : copy = <<c, n>>
  BY DEF TypeOK
<1>1. <<c, n>> \in requests /\ Serve(c, n) /\ call[c] \in Request
  BY <1>0 DEF TypeOK
<1> DEFINE s == call[c].server
<1>2. s \in Servers /\ held[s] \in SUBSET (Keys \cup {NoKey})
  BY <1>1 DEF Request, TypeOK
<1>3. PICK o \in ProcessMessage(call[c], held[s]) :
        /\ held' = [held EXCEPT ![s] = o.held]
        /\ rc' = [rc EXCEPT ![s] = o.answer]
        /\ silent' = IF o.unnoticed THEN silent \cup {c} ELSE silent
  BY <1>1 DEF Serve
<1>4. /\ to' = [to EXCEPT ![s] = <<c, n>>]
      /\ alone' = {d \in alone : d = c \/ ~SameKey(call[d], call[c])}
      /\ UNCHANGED <<call, phase, reply>>
  BY <1>1 DEF Serve
<1> SUFFICES ASSUME NEW d \in alone' \ silent', Answered(d)' PROVE Effective(d)'
  BY DEF EffectInv
<1>5. d \in alone /\ d \in Calls /\ d \notin silent
  BY <1>3, <1>4 DEF TypeOK
<1>6. held'[s] = o.held /\ \A t \in Servers : t # s => held'[t] = held[t]
  BY <1>2, <1>3 DEF TypeOK
<1>7. CASE d # c
  <2>1. ~SameKey(call[d], call[c])
    BY <1>4, <1>7
  <2>2. Answered(d)
    BY <1>2, <1>3, <1>4, <1>7 DEF Answered, TypeOK
  <2>3. Effective(d)
    BY <1>5, <2>2 DEF EffectInv
  <2>4. CASE call[d].server # s
    BY <1>4, <1>6, <2>3, <2>4, <1>3 DEF Effective
  <2>5. CASE call[d].server = s
    <3>1. call[d].key # call[c].key
      BY <2>1, <2>5 DEF SameKey
    <3>2. call[d].key \in o.held <=> call[d].key \in held[s]
      BY <1>1, <1>2, <3>1, OutcomeElsewhere
    <3> QED
      BY <1>4, <1>6, <2>3, <2>5, <3>2 DEF Effective
  <2> QED
    BY <2>4, <2>5
<1>8. CASE d = c
  <2>1. ~o.unnoticed
    BY <1>3, <1>8
  <2>2. CASE Accepts(call[c].op, o.answer)
    BY <1>1, <1>2, <1>4, <1>6, <1>8, <2>1, <2>2, OutcomeEffect DEF Effective
  <2>3. CASE ~Accepts(call[c].op, o.answer)
    <3>1. Answered(c)
      BY <1>2, <1>3, <1>4, <1>8, <2>3 DEF Answered, TypeOK
    <3>2. Effective(c)
      BY <1>5, <1>8, <3>1 DEF EffectInv
    <3> QED
      BY <1>1, <1>2, <1>4, <1>6, <1>8, <2>1, <2>3, <3>2, OutcomeEffect DEF Effective
  <2> QED
    BY <2>2, <2>3
<1> QED
  BY <1>7, <1>8

\* A server that answers, skips or ends leaves what it holds.
LEMMA ServerEffect ==
  ASSUME TypeOK, EffectInv, NEW s \in Servers,
         ServeUnparsable(s) \/ SkipReply(s) \/ Answer(s) \/ ReceiveOutOfTurn(s)
  PROVE  EffectInv'
<1> SUFFICES ASSUME NEW d \in alone' \ silent', Answered(d)' PROVE Effective(d)'
  BY DEF EffectInv
<1>1. CASE Answer(s)
  <2>1. /\ to' = [to EXCEPT ![s] = Null] /\ rc' = [rc EXCEPT ![s] = "none"]
        /\ UNCHANGED <<call, phase, left, alone, held, silent>>
        /\ reply' = [c \in Calls |-> IF to[s] = <<c, left[c]>> /\ phase[c] = "waiting"
                                     THEN rc[s] ELSE reply[c]]
    BY <1>1 DEF Answer, callerVars
  <2>2. d \in Calls /\ left[d] \in Copies /\ \A n \in Copies : <<d, n>> # Null
    BY <2>1, NullAssumption DEF TypeOK
  <2>3. Answered(d)
    BY <2>1, <2>2 DEF Answered, TypeOK
  <2> QED
    BY <2>1, <2>3 DEF EffectInv, Effective
<1>2. CASE ServeUnparsable(s) \/ SkipReply(s) \/ ReceiveOutOfTurn(s)
  BY <1>2 DEF ServeUnparsable, SkipReply, ReceiveOutOfTurn, EffectInv, Answered, Effective, callerVars
<1> QED
  BY <1>1, <1>2

\* A remove, start or stop that succeeded took effect, though it may have been
\* executed several times and in between other calls (Serve, Accepts).
THEOREM EffectsHold == Spec => []CallsTakeEffect
<1>1. Init => EffectInv
  BY DEF Init, EffectInv
<1>2. TypeOK /\ DeliveryInv /\ EffectInv /\ [Next]_vars => EffectInv'
  <2>1. TypeOK /\ DeliveryInv /\ EffectInv /\ Next => EffectInv'
    BY NextCases, CallerEffect, ServeEffect, ServerEffect
  <2>2. EffectInv /\ UNCHANGED vars => EffectInv'
    BY DEF vars, callerVars, serverVars, EffectInv, Answered, Effective
  <2> QED
    BY <2>1, <2>2
<1>3. EffectInv => CallsTakeEffect
  BY DEF EffectInv, Answered, Effective, CallsTakeEffect
<1> QED
  BY <1>1, <1>2, <1>3, RequestTypes, DeliveryHolds, PTL DEF Spec
=============================================================================
