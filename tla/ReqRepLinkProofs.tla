-------------------------- MODULE ReqRepLinkProofs --------------------------
(***************************************************************************)
(* ReqRepLink for every set of calls and sockets and every set of faults:  *)
(* the recovery of the client leaves no socket wedged, in the Agent or out *)
(* of it, and the pair implements RemoteCall.                              *)
(*                                                                         *)
(* What has to be known of the pair is that whatever travels or is being   *)
(* served belongs to one cycle of one socket.  A late reply is harmless    *)
(* because its socket is stopped, and an identity is used again only when  *)
(* nothing refers to it.                                                   *)
(***************************************************************************)
EXTENDS ReqRepLink, TLAPS

\* A call is under way exactly between StartCall and Tell, on the live socket.
CallerInv ==
  /\ call = NoCall <=> phase \in {"idle", "down"}
  /\ phase \notin {"idle", "down"} => held = cell
  /\ phase = "receiving" => sock[cell] = "waiting"

\* What the round trip has come to when it is over, and on which sockets.
ResultInv ==
  /\ phase \in {"idle", "sending", "receiving", "down"} => result = "none"
  /\ phase = "finished" =>
       result \in {"ok", "error", "no_connected_peers", "closed", "efsm"}
  /\ phase = "reopening" => result \in {"timeout", "efsm"}
  /\ phase = "finished" /\ sock[cell] = "waiting" => result \in {"closed", "efsm"}
  /\ phase \in {"idle", "sending"} /\ sock[cell] = "waiting" => told = "closed"

\* The server holds a request exactly while it serves one.
ServingInv ==
  /\ request # NoRequest <=> serving \in {"handling", "answering"}
  /\ serving = "answering" => answer # "none" /\ done[request.call] = answer

\* What is on the wire and what is served are of different cycles.
Apart(m, n) == m.sock # n.sock /\ m.call # n.call

CyclesApart ==
  /\ \A m, n \in wire : m # n => Apart(m, n)
  /\ request # NoRequest => \A m \in wire : Apart(m, request)

\* Nothing refers to a socket before its request is sent, nor to the call.
FreshInv ==
  /\ \A s \in Sockets : sock[s] = "ready" => SocketFree(s)
  /\ phase = "sending" => CallFree(call)

\* What refers to the socket of a call that is receiving is of that call.
OwnCycle ==
  phase = "receiving" =>
    /\ \A m \in wire : m.sock = cell => m.call = call
    /\ request # NoRequest /\ request.sock = cell => request.call = call

\* A reply says what carrying out its call gave, and so does the result that
\* the client has taken from it.
AnswersTrue ==
  /\ \A m \in RepliesOn(wire) : done[m.call] = m.answer
  /\ phase = "finished" /\ result \in {"ok", "error"} =>
       done[call] = result /\ CallFree(call)

LinkInv ==
  /\ LinkTypeOK
  /\ NoneLeftInMidCycle
  /\ RefusedOnlyAfterClosed
  /\ CallerInv
  /\ ResultInv
  /\ ServingInv
  /\ CyclesApart
  /\ FreshInv
  /\ OwnCycle
  /\ AnswersTrue

----------------------------------------------------------------------------

\* The shape of what travels.
LEMMA MessageShape ==
  ASSUME LinkTypeOK, NEW m \in wire
  PROVE  /\ m.sock \in Sockets /\ m.call \in Calls
         /\ m.kind = "request" => m \in Requests
         /\ m.kind = "reply" => m \in Replies /\ m.answer \in {"ok", "error"}
         /\ m.kind \in {"request", "reply"}
  BY DEF LinkTypeOK, Requests, Replies

\* The same of what is served.
LEMMA RequestShape ==
  ASSUME LinkTypeOK, request # NoRequest
  PROVE  request.sock \in Sockets /\ request.call \in Calls
  BY DEF LinkTypeOK, ServerTypeOK, Requests

\* Initially nothing has been sent and one socket is open.
LEMMA InitLinkInv == LinkInit => LinkInv
<1> SUFFICES ASSUME LinkInit PROVE LinkInv
  OBVIOUS
<1>1. LinkTypeOK
  BY DEF LinkInit, ClientInit, ServerInit, LinkTypeOK, ClientTypeOK, ServerTypeOK,
         Phases, Results
<1>2. NoneLeftInMidCycle /\ RefusedOnlyAfterClosed
  BY DEF LinkInit, ClientInit, NoneLeftInMidCycle, RefusedOnlyAfterClosed
<1>3. CallerInv /\ ResultInv /\ ServingInv
  BY DEF LinkInit, ClientInit, ServerInit, CallerInv, ResultInv, ServingInv
<1>4. CyclesApart /\ FreshInv /\ OwnCycle /\ AnswersTrue
  BY DEF LinkInit, ClientInit, ServerInit, CyclesApart, FreshInv, SocketFree,
         OwnCycle, AnswersTrue, RepliesOn
<1> QED BY <1>1, <1>2, <1>3, <1>4 DEF LinkInv

\* StartCall keeps the invariant: the call is fresh.
LEMMA BeginKeepsLinkInv ==
  ASSUME LinkInv, NEW c \in Calls, BeginCall(c)
  PROVE  LinkInv'
<1> USE DEF LinkInv
<1>0. /\ phase = "idle" /\ phase' = "sending" /\ call' = c /\ held' = cell
      /\ got' = [got EXCEPT ![c] = "none"] /\ done' = [done EXCEPT ![c] = "none"]
      /\ UNCHANGED <<cell, sock, result, told, wire, serving, request, answer, stopping>>
      /\ CallFree(c)
  BY DEF BeginCall, StartCall
<1>1. LinkTypeOK'
  BY <1>0 DEF LinkTypeOK, ClientTypeOK, ServerTypeOK, Phases, Results
<1>2. NoneLeftInMidCycle' /\ RefusedOnlyAfterClosed'
  BY <1>0 DEF NoneLeftInMidCycle, RefusedOnlyAfterClosed
<1>3. CallerInv' /\ ResultInv'
  BY <1>0, WireAssumption DEF CallerInv, ResultInv
<1>4. ServingInv'
  BY <1>0, RequestShape DEF ServingInv, CallFree, LinkTypeOK, ServerTypeOK
<1>5. CyclesApart' /\ FreshInv' /\ OwnCycle'
  BY <1>0 DEF CyclesApart, Apart, FreshInv, SocketFree, CallFree, OwnCycle
<1>6. AnswersTrue'
  BY <1>0, MessageShape DEF AnswersTrue, RepliesOn, CallFree, LinkTypeOK, ServerTypeOK
<1> QED BY <1>1, <1>2, <1>3, <1>4, <1>5, <1>6

\* The send: on a socket nothing refers to, of a call nothing refers to.
LEMMA SendKeepsLinkInv ==
  ASSUME LinkInv, NEW delivered \in BOOLEAN, TaskSends(delivered), UNCHANGED serverVars
  PROVE  LinkInv'
<1> USE DEF LinkInv
<1> DEFINE m == Request(cell, call)
<1>0. /\ phase = "sending" /\ phase' = "receiving" /\ held = cell
      /\ cell \in Sockets /\ call \in Calls
      /\ sock[cell] = "ready" /\ sock' = [sock EXCEPT ![cell] = "waiting"]
      /\ wire' = wire \/ wire' = wire \cup {m}
      /\ UNCHANGED <<cell, call, held, result, got, told, serving, request, answer, stopping, done>>
      /\ SocketFree(cell) /\ CallFree(call)
  BY DEF TaskSends, serverVars, CallerInv, FreshInv, LinkTypeOK, ClientTypeOK
<1>1. m \in Requests /\ m.sock = cell /\ m.call = call /\ m.kind = "request"
  BY <1>0 DEF Request, Requests
<1> HIDE DEF m
<1>2. LinkTypeOK'
  BY <1>0, <1>1 DEF LinkTypeOK, ClientTypeOK, ServerTypeOK, Phases
<1>3. NoneLeftInMidCycle' /\ RefusedOnlyAfterClosed'
  BY <1>0 DEF NoneLeftInMidCycle, RefusedOnlyAfterClosed, LinkTypeOK, ClientTypeOK
<1>4. CallerInv' /\ ResultInv' /\ ServingInv'
  BY <1>0, WireAssumption
  DEF CallerInv, ResultInv, ServingInv, LinkTypeOK, ClientTypeOK
<1>5. CyclesApart'
  BY <1>0, <1>1 DEF CyclesApart, Apart, SocketFree, CallFree
<1>6. FreshInv'
  BY <1>0, <1>1 DEF FreshInv, SocketFree, LinkTypeOK, ClientTypeOK
<1>7. OwnCycle'
  BY <1>0, <1>1 DEF OwnCycle, SocketFree
<1>8. AnswersTrue'
  BY <1>0, <1>1 DEF AnswersTrue, RepliesOn
<1> QED BY <1>2, <1>3, <1>4, <1>5, <1>6, <1>7, <1>8

\* The client moves on and nothing else changes.
LEMMA MoveKeepsLinkInv ==
  ASSUME LinkInv, UNCHANGED serverVars,
         TaskFindsNoPeer \/ TaskFindsWedge \/ FindsWedge \/ Timeout
  PROVE  LinkInv'
<1> USE DEF LinkInv
<1>0. /\ phase \in {"sending", "receiving", "finished"}
      /\ phase' \in {"finished", "reopening"}
      /\ result' \in {"no_connected_peers", "efsm", "timeout"}
      /\ UNCHANGED <<cell, sock, call, held, got, told, wire, serving, request, answer,
                     stopping, done>>
  BY DEF TaskFindsNoPeer, TaskFindsWedge, FindsWedge, Timeout, Finish, Waiting, serverVars
<1>1. LinkTypeOK'
  BY <1>0 DEF LinkTypeOK, ClientTypeOK, ServerTypeOK, Phases, Results
<1>2. NoneLeftInMidCycle' /\ CallerInv' /\ ServingInv'
  BY <1>0 DEF NoneLeftInMidCycle, CallerInv, ServingInv
<1>3. RefusedOnlyAfterClosed' /\ ResultInv'
  BY DEF TaskFindsNoPeer, TaskFindsWedge, FindsWedge, Timeout, Finish, CallerInv, ResultInv,
         RefusedOnlyAfterClosed
<1>4. CyclesApart' /\ FreshInv' /\ OwnCycle' /\ AnswersTrue'
  BY <1>0 DEF CyclesApart, FreshInv, SocketFree, OwnCycle, AnswersTrue, RepliesOn
<1> QED BY <1>1, <1>2, <1>3, <1>4

\* The reply is received: it is of this very call, and the cycle is over.
LEMMA ReceiveReplyKeepsLinkInv ==
  ASSUME LinkInv, UNCHANGED serverVars, NEW m \in RepliesOn(wire), TaskReceives(m)
  PROVE  LinkInv'
<1> USE DEF LinkInv
<1>0. /\ phase = "receiving" /\ phase' = "finished" /\ held = cell
      /\ cell \in Sockets /\ call \in Calls
      /\ m \in wire /\ m.sock = cell /\ m.call = call /\ m.kind = "reply"
      /\ m.answer \in {"ok", "error"} /\ result' = m.answer
      /\ sock' = [sock EXCEPT ![cell] = "ready"]
      /\ wire' = wire \ {m}
      /\ UNCHANGED <<cell, call, held, got, told, serving, request, answer, stopping, done>>
  BY MessageShape
  DEF TaskReceives, Finish, RepliesTo, RepliesOn, serverVars, CallerInv, OwnCycle,
      LinkTypeOK, ClientTypeOK
<1>1. LinkTypeOK'
  BY <1>0 DEF LinkTypeOK, ClientTypeOK, ServerTypeOK, Phases, Results
<1>2. NoneLeftInMidCycle' /\ RefusedOnlyAfterClosed'
  BY <1>0 DEF NoneLeftInMidCycle, RefusedOnlyAfterClosed, LinkTypeOK, ClientTypeOK
<1>3. CallerInv' /\ ResultInv' /\ ServingInv'
  BY <1>0, WireAssumption
  DEF CallerInv, ResultInv, ServingInv, LinkTypeOK, ClientTypeOK
<1>4. CyclesApart' /\ OwnCycle'
  BY <1>0 DEF CyclesApart, OwnCycle
<1>5. SocketFree(cell)' /\ CallFree(call)'
  BY <1>0 DEF CyclesApart, Apart, SocketFree, CallFree
<1>6. FreshInv'
  BY <1>0, <1>5 DEF FreshInv, SocketFree, LinkTypeOK, ClientTypeOK
<1>7. AnswersTrue'
  BY <1>0, <1>5 DEF AnswersTrue, RepliesOn
<1> QED BY <1>1, <1>2, <1>3, <1>4, <1>6, <1>7

\* A recv that fails: replies are lost, the socket stays in mid cycle.
LEMMA ClosedKeepsLinkInv ==
  ASSUME LinkInv, UNCHANGED serverVars, TaskFindsClosed
  PROVE  LinkInv'
<1> USE DEF LinkInv
<1>0. /\ phase = "receiving" /\ phase' = "finished" /\ result' = "closed"
      /\ wire' \subseteq wire
      /\ UNCHANGED <<cell, sock, call, held, got, told, serving, request, answer, stopping, done>>
  BY DEF TaskFindsClosed, Finish, serverVars
<1>1. LinkTypeOK'
  BY <1>0 DEF LinkTypeOK, ClientTypeOK, ServerTypeOK, Phases, Results
<1>2. NoneLeftInMidCycle' /\ RefusedOnlyAfterClosed' /\ CallerInv' /\ ResultInv' /\ ServingInv'
  BY <1>0 DEF NoneLeftInMidCycle, RefusedOnlyAfterClosed, CallerInv, ResultInv, ServingInv
<1>3. CyclesApart' /\ FreshInv' /\ OwnCycle' /\ AnswersTrue'
  BY <1>0 DEF CyclesApart, FreshInv, SocketFree, OwnCycle, AnswersTrue, RepliesOn
<1> QED BY <1>1, <1>2, <1>3

\* The caller is told, or dies: only a recv that failed leaves a wedged socket.
LEMMA ReturnKeepsLinkInv ==
  ASSUME LinkInv, UNCHANGED serverVars, ReturnResult \/ TaskDiesWithCaller
  PROVE  LinkInv'
<1> USE DEF LinkInv
<1>0. /\ call \in Calls /\ call' = NoCall /\ result' = "none"
      /\ UNCHANGED <<cell, sock, held, wire, serving, request, answer, stopping, done>>
      /\ \/ /\ phase = "finished" /\ phase' = "idle" /\ result # "efsm"
            /\ got' = [got EXCEPT ![call] = result] /\ told' = result
         \/ /\ phase = "sending" /\ phase' = "down"
            /\ got' = [got EXCEPT ![call] = "killed"] /\ told' = "killed"
  BY DEF ReturnResult, TaskDiesWithCaller, Tell, serverVars, CallerInv, ResultInv,
         LinkTypeOK, ClientTypeOK
<1>1. LinkTypeOK'
  BY <1>0 DEF LinkTypeOK, ClientTypeOK, ServerTypeOK, Phases, Results
<1>2. NoneLeftInMidCycle' /\ RefusedOnlyAfterClosed' /\ CallerInv' /\ ServingInv'
  BY <1>0 DEF NoneLeftInMidCycle, RefusedOnlyAfterClosed, CallerInv, ServingInv
<1>3. ResultInv'
  BY <1>0 DEF ResultInv
<1>4. CyclesApart' /\ FreshInv' /\ OwnCycle' /\ AnswersTrue'
  BY <1>0 DEF CyclesApart, FreshInv, SocketFree, OwnCycle, AnswersTrue, RepliesOn
<1> QED BY <1>1, <1>2, <1>3, <1>4

\* What reopen/1 comes to, whether or not a fresh socket is opened and kept: the
\* old one is stopped or told to stop, what is ready is free.
LEMMA ReopenShape ==
  ASSUME LinkInv,
         ReopenFails \/ \E s \in Sockets : SocketFree(s) /\ (Reopen(s) \/ ReopenDrops(s))
  PROVE  /\ cell' \in Sockets
         /\ sock' \in [Sockets -> {"ready", "waiting", "stopping", "stopped"}]
         /\ \A s \in Sockets : sock'[s] # "waiting"
         /\ \A s \in Sockets : sock'[s] = "ready" => SocketFree(s)
<1> USE DEF LinkInv
<1>1. /\ cell \in Sockets
      /\ sock \in [Sockets -> {"ready", "waiting", "stopping", "stopped"}]
      /\ \A s \in Sockets \ {cell} : sock[s] # "waiting"
      /\ \A s \in Sockets : sock[s] = "ready" => SocketFree(s)
  BY DEF LinkTypeOK, ClientTypeOK, NoneLeftInMidCycle, FreshInv
<1>2. CASE ReopenFails
  <2>1. PICK old \in {"stopped", "stopping"} : sock' = [sock EXCEPT ![cell] = old]
    BY <1>2 DEF ReopenFails, StopOld, AfterStop
  <2> QED BY <1>1, <1>2, <2>1 DEF ReopenFails
<1>3. ASSUME NEW s \in Sockets, SocketFree(s), Reopen(s) \/ ReopenDrops(s)
      PROVE  /\ cell' \in Sockets
             /\ sock' \in [Sockets -> {"ready", "waiting", "stopping", "stopped"}]
             /\ \A t \in Sockets : sock'[t] # "waiting"
             /\ \A t \in Sockets : sock'[t] = "ready" => SocketFree(t)
  <2>1. PICK old \in {"stopped", "stopping"} :
          sock' = [[sock EXCEPT ![s] = "ready"] EXCEPT ![cell] = old]
    BY <1>3 DEF Reopen, ReopenDrops, StopOld, AfterStop
  <2>2. cell' \in {cell, s}
    BY <1>3 DEF Reopen, ReopenDrops
  <2>3. \A t \in Sockets :
          sock'[t] = IF t = cell THEN old ELSE IF t = s THEN "ready" ELSE sock[t]
    BY <1>1, <2>1
  <2> QED BY <1>1, <1>3, <2>1, <2>2, <2>3
<1> QED BY <1>2, <1>3

LEMMA ReopenKeepsLinkInv ==
  ASSUME LinkInv, UNCHANGED serverVars,
         ReopenFails \/ \E s \in Sockets : SocketFree(s) /\ (Reopen(s) \/ ReopenDrops(s))
  PROVE  LinkInv'
<1> USE DEF LinkInv
<1>0. /\ phase = "reopening" /\ phase' = "idle" /\ call' = NoCall /\ result' = "none"
      /\ call \in Calls /\ result \in Results /\ got' = [got EXCEPT ![call] = result]
      /\ told' = result /\ wire' \subseteq wire
      /\ UNCHANGED <<held, serving, request, answer, stopping, done>>
  BY DEF Reopen, ReopenFails, ReopenDrops, StopOld, Tell, serverVars, CallerInv,
         LinkTypeOK, ClientTypeOK
<1>2. /\ cell' \in Sockets
      /\ sock' \in [Sockets -> {"ready", "waiting", "stopping", "stopped"}]
      /\ \A s \in Sockets : sock'[s] # "waiting"
      /\ \A s \in Sockets : sock'[s] = "ready" => SocketFree(s)
  BY ReopenShape
<1>3. LinkTypeOK'
  BY <1>0, <1>2 DEF LinkTypeOK, ClientTypeOK, ServerTypeOK, Phases, Results
<1>4. NoneLeftInMidCycle' /\ RefusedOnlyAfterClosed'
  BY <1>0, <1>2 DEF NoneLeftInMidCycle, RefusedOnlyAfterClosed
<1>5. CallerInv' /\ ResultInv' /\ ServingInv'
  BY <1>0, <1>2 DEF CallerInv, ResultInv, ServingInv
<1>6. CyclesApart' /\ OwnCycle' /\ AnswersTrue'
  BY <1>0 DEF CyclesApart, OwnCycle, AnswersTrue, RepliesOn
<1>7. FreshInv'
  BY <1>0, <1>2 DEF FreshInv, SocketFree
<1> QED BY <1>3, <1>4, <1>5, <1>6, <1>7

\* The server takes a request off the wire, which changes nothing of whose it is.
LEMMA ReceiveRequestKeepsLinkInv ==
  ASSUME LinkInv, UNCHANGED clientVars, NEW m \in wire, Receive(m)
  PROVE  LinkInv'
<1> USE DEF LinkInv
<1>0. /\ serving = "polling" /\ serving' = "handling"
      /\ request = NoRequest /\ request' = m /\ wire' = wire \ {m}
      /\ m \in Requests /\ m # NoRequest
      /\ UNCHANGED <<cell, sock, phase, call, held, result, got, told, answer, stopping, done>>
  BY NoRequestAssumption, MessageShape DEF Receive, clientVars, ServingInv
<1>1. LinkTypeOK'
  BY <1>0 DEF LinkTypeOK, ClientTypeOK, ServerTypeOK
<1>2. NoneLeftInMidCycle' /\ RefusedOnlyAfterClosed' /\ CallerInv' /\ ResultInv' /\ ServingInv'
  BY <1>0 DEF NoneLeftInMidCycle, RefusedOnlyAfterClosed, CallerInv, ResultInv, ServingInv
<1>3. CyclesApart' /\ OwnCycle'
  BY <1>0 DEF CyclesApart, Apart, OwnCycle
<1>4. FreshInv' /\ AnswersTrue'
  BY <1>0 DEF FreshInv, SocketFree, CallFree, AnswersTrue, RepliesOn
<1> QED BY <1>1, <1>2, <1>3, <1>4

\* The request is carried out: nobody else's answer is touched.
LEMMA HandleKeepsLinkInv ==
  ASSUME LinkInv, UNCHANGED clientVars, NEW a \in {"ok", "error"}, Handle(a)
  PROVE  LinkInv'
<1> USE DEF LinkInv
<1>0. /\ serving = "handling" /\ serving' = "answering" /\ answer' = a
      /\ request # NoRequest /\ request.call \in Calls
      /\ done' = [done EXCEPT ![request.call] = a]
      /\ UNCHANGED <<cell, sock, phase, call, held, result, got, told, request, stopping, wire>>
  BY RequestShape DEF Handle, clientVars, ServingInv
<1>1. LinkTypeOK'
  BY <1>0 DEF LinkTypeOK, ClientTypeOK, ServerTypeOK
<1>2. NoneLeftInMidCycle' /\ RefusedOnlyAfterClosed' /\ CallerInv' /\ ResultInv'
  BY <1>0 DEF NoneLeftInMidCycle, RefusedOnlyAfterClosed, CallerInv, ResultInv
<1>3. ServingInv'
  BY <1>0 DEF ServingInv, LinkTypeOK, ServerTypeOK
<1>4. CyclesApart' /\ FreshInv' /\ OwnCycle'
  BY <1>0 DEF CyclesApart, FreshInv, SocketFree, CallFree, OwnCycle
<1>5. AnswersTrue'
  BY <1>0, MessageShape
  DEF AnswersTrue, RepliesOn, CyclesApart, Apart, CallFree, LinkTypeOK, ServerTypeOK
<1> QED BY <1>1, <1>2, <1>3, <1>4, <1>5

\* What is on the wire once the server holds no request any more: some of what
\* was there, and the reply to that request if it was ready.
LetsGo(w) ==
  /\ serving' \in {"down", "polling"} /\ request' = NoRequest /\ answer' = "none"
  /\ wire' \subseteq w
  /\ \/ w = wire
     \/ /\ serving = "answering"
        /\ w = wire \cup {Reply(request.sock, request.call, answer)}

\* The server answers, stops, fails to encode or dies.
LEMMA LetGoKeepsLinkInv ==
  ASSUME LinkInv, UNCHANGED <<clientVars, done>>, stopping' \in BOOLEAN,
         NEW w, LetsGo(w)
  PROVE  LinkInv'
<1> USE DEF LinkInv
<1> DEFINE r == Reply(request.sock, request.call, answer)
<1>0. /\ serving' \in {"down", "polling"} /\ request' = NoRequest /\ answer' = "none"
      /\ UNCHANGED <<cell, sock, phase, call, held, result, got, told, done>>
  BY DEF LetsGo, clientVars
<1>1. \A m \in wire' :
        \/ m \in wire
        \/ m = r /\ serving = "answering" /\ request # NoRequest
  BY DEF LetsGo, ServingInv
<1>2. serving = "answering" /\ request # NoRequest =>
        /\ r \in Replies /\ r.kind = "reply"
        /\ r.sock = request.sock /\ r.call = request.call /\ r.answer = answer
        /\ done[request.call] = answer
  BY RequestShape DEF Reply, Replies, ServingInv, LinkTypeOK, ServerTypeOK
<1> HIDE DEF r
<1>3. LinkTypeOK'
  <2>1. wire' \subseteq Requests \cup Replies
    BY <1>1, <1>2 DEF LinkTypeOK
  <2> QED BY <2>1, <1>0 DEF LinkTypeOK, ClientTypeOK, ServerTypeOK
<1>4. NoneLeftInMidCycle' /\ RefusedOnlyAfterClosed' /\ CallerInv' /\ ResultInv' /\ ServingInv'
  BY <1>0 DEF NoneLeftInMidCycle, RefusedOnlyAfterClosed, CallerInv, ResultInv, ServingInv
<1>5. CyclesApart'
  BY <1>0, <1>1, <1>2 DEF CyclesApart, Apart
<1>6. FreshInv'
  BY <1>0, <1>1, <1>2 DEF FreshInv, SocketFree, CallFree
<1>7. OwnCycle'
  BY <1>0, <1>1, <1>2 DEF OwnCycle
<1>8. AnswersTrue'
  BY <1>0, <1>1, <1>2 DEF AnswersTrue, RepliesOn, CallFree
<1> QED BY <1>3, <1>4, <1>5, <1>6, <1>7, <1>8

\* Every end of a request is of that kind.
LEMMA EndsLetGo ==
  ASSUME LinkInv,
         PollNoticesStop \/ EncodeRaises \/ Crash \/ BindAfterStop
           \/ (request # NoRequest /\ Answer(Connected(request.sock)))
  PROVE  /\ \E w : LetsGo(w)
         /\ stopping' \in BOOLEAN /\ done' = done
<1> USE DEF LinkInv
<1>1. CASE PollNoticesStop \/ EncodeRaises \/ Crash \/ BindAfterStop
  <2>1. GoesDown(wire) /\ done' = done
    BY <1>1 DEF PollNoticesStop, EncodeRaises, Crash, BindAfterStop
  <2>2. LetsGo(wire)
    BY <2>1 DEF GoesDown, LetsGo, RepliesOn
  <2> QED BY <2>1, <2>2 DEF GoesDown
<1>2. CASE request # NoRequest /\ Answer(Connected(request.sock))
  <2> DEFINE r == Reply(request.sock, request.call, answer)
             w == IF Connected(request.sock) THEN wire \cup {r} ELSE wire
  <2>1. /\ serving = "answering" /\ done' = done
        /\ request' = NoRequest /\ answer' = "none"
        /\ serving' \in {"down", "polling"} /\ stopping' \in BOOLEAN
        /\ wire' = w \/ wire' \in SUBSET RepliesOn(w)
    BY <1>2 DEF Answer, GoesDown, LinkTypeOK, ServerTypeOK
  <2>2. LetsGo(w)
    BY <2>1 DEF LetsGo, RepliesOn
  <2> QED BY <2>1, <2>2
<1> QED BY <1>1, <1>2

\* The server starts, or is asked to stop.
LEMMA LifeKeepsLinkInv ==
  ASSUME LinkInv, UNCHANGED clientVars, Bind \/ RequestStop
  PROVE  LinkInv'
<1> USE DEF LinkInv
<1>0. /\ UNCHANGED <<cell, sock, phase, call, held, result, got, told, request, answer,
                     done, wire>>
      /\ serving' = serving \/ (serving = "down" /\ serving' = "polling")
      /\ stopping' \in BOOLEAN
  BY DEF Bind, RequestStop, clientVars, LinkTypeOK, ServerTypeOK
<1>1. LinkTypeOK'
  BY <1>0 DEF LinkTypeOK, ClientTypeOK, ServerTypeOK
<1>2. NoneLeftInMidCycle' /\ RefusedOnlyAfterClosed' /\ CallerInv' /\ ResultInv' /\ ServingInv'
  BY <1>0 DEF NoneLeftInMidCycle, RefusedOnlyAfterClosed, CallerInv, ResultInv, ServingInv
<1>3. CyclesApart' /\ FreshInv' /\ OwnCycle' /\ AnswersTrue'
  BY <1>0 DEF CyclesApart, FreshInv, SocketFree, CallFree, OwnCycle, AnswersTrue, RepliesOn
<1> QED BY <1>1, <1>2, <1>3

----------------------------------------------------------------------------

LEMMA StepKeepsLinkInv == LinkInv /\ [LinkNext]_linkVars => LinkInv'
<1> SUFFICES ASSUME LinkInv, [LinkNext]_linkVars PROVE LinkInv'
  OBVIOUS
<1>1. ASSUME NEW c \in Calls, BeginCall(c) PROVE LinkInv'
  BY <1>1, BeginKeepsLinkInv
<1>2. CASE ClientStep
  <2> USE <1>2 DEF ClientStep
  <2>1. CASE TaskSends(TRUE)
    BY <2>1, SendKeepsLinkInv
  <2>2. CASE TaskSends(FALSE)
    BY <2>2, SendKeepsLinkInv
  <2>3. CASE TaskFindsNoPeer \/ TaskFindsWedge \/ FindsWedge
    BY <2>3, MoveKeepsLinkInv
  <2>4. CASE ReturnResult \/ TaskDiesWithCaller
    BY <2>4, ReturnKeepsLinkInv
  <2>5. ASSUME NEW m \in RepliesOn(wire), TaskReceives(m) PROVE LinkInv'
    BY <2>5, ReceiveReplyKeepsLinkInv
  <2>6. CASE ReopenFails
               \/ \E s \in Sockets : SocketFree(s) /\ (Reopen(s) \/ ReopenDrops(s))
    BY <2>6, ReopenKeepsLinkInv
  <2> QED BY <2>1, <2>2, <2>3, <2>4, <2>5, <2>6
<1>3. CASE ConnectionFails
  BY <1>3, ClosedKeepsLinkInv DEF ConnectionFails
<1>4. CASE TimerStep
  BY <1>4, MoveKeepsLinkInv DEF TimerStep
<1>5. ASSUME UNCHANGED clientVars,
             PollNoticesStop \/ EncodeRaises \/ Crash \/ BindAfterStop
               \/ (request # NoRequest /\ Answer(Connected(request.sock)))
      PROVE  LinkInv'
  BY <1>5, EndsLetGo, LetGoKeepsLinkInv
<1>6. CASE ServerStep
  <2>1. ASSUME NEW m \in wire, Receive(m) PROVE LinkInv'
    BY <1>6, <2>1, ReceiveRequestKeepsLinkInv DEF ServerStep
  <2>2. ASSUME NEW a \in {"ok", "error"}, Handle(a) PROVE LinkInv'
    BY <1>6, <2>2, HandleKeepsLinkInv DEF ServerStep
  <2> QED BY <1>5, <1>6, <2>1, <2>2 DEF ServerStep
<1>7. CASE ServerStarts
  BY <1>5, <1>7, LifeKeepsLinkInv DEF ServerStarts
<1>8. CASE ServerFails
  BY <1>5, <1>8, LifeKeepsLinkInv DEF ServerFails
<1>9. CASE UNCHANGED linkVars
  <2> USE <1>9 DEF linkVars, clientVars, serverVars, LinkInv
  <2>1. LinkTypeOK' /\ NoneLeftInMidCycle' /\ RefusedOnlyAfterClosed'
    BY DEF LinkTypeOK, ClientTypeOK, ServerTypeOK, NoneLeftInMidCycle, RefusedOnlyAfterClosed
  <2>2. CallerInv' /\ ResultInv' /\ ServingInv' /\ OwnCycle'
    BY DEF CallerInv, ResultInv, ServingInv, OwnCycle
  <2>3. CyclesApart' /\ FreshInv' /\ AnswersTrue'
    BY DEF CyclesApart, FreshInv, SocketFree, CallFree, AnswersTrue, RepliesOn
  <2> QED BY <2>1, <2>2, <2>3
<1> QED
  BY <1>1, <1>2, <1>3, <1>4, <1>6, <1>7, <1>8, <1>9 DEF LinkNext

\* Types, sockets and cycles of the link, whatever fails and whenever timers pass.
THEOREM LinkInvHolds == LinkSpec => []LinkInv
BY InitLinkInv, StepKeepsLinkInv, PTL DEF LinkSpec

\* The types of the link's variables.
THEOREM LinkTypeCorrect == LinkSpec => []LinkTypeOK
BY LinkInvHolds, PTL DEF LinkInv

\* Only the call right after one whose recv failed is refused with :efsm, hence
\* never two in a row, whatever reopen/1 comes to.
THEOREM RefusedOnlyAfterClosedHolds == LinkSpec => []RefusedOnlyAfterClosed
BY LinkInvHolds, PTL DEF LinkInv

\* No socket without a handle is in mid cycle, whatever reopen/1 comes to.
THEOREM NoneLeftInMidCycleHolds == LinkSpec => []NoneLeftInMidCycle
BY LinkInvHolds, PTL DEF LinkInv

----------------------------------------------------------------------------
(* The refinement.  Open and Told are what ReqRepLink puts for RemoteCall's *)
(* `open' and `got'.                                                       *)

Open == {c \in Calls : AtServer(c) \/ (phase = "sending" /\ call = c)}
Told ==
  [c \in Calls |-> IF got[c] \in {"none", "ok", "error"} THEN got[c] ELSE "failed"]

\* Steps that tell nobody anything and carry nothing out lose requests at most.
LEMMA QuietStep ==
  ASSUME UNCHANGED <<call, done, got>>, Open' \subseteq Open
  PROVE  Promise!CallNext
<1>1. Promise!Lose
  BY DEF Promise!Lose, Open, Told
<1> QED BY <1>1 DEF Promise!CallNext

\* A call that ends with anything but an answer was given up on.
LEMMA GiveUpStep ==
  ASSUME LinkInv, call \in Calls, call' = NoCall, UNCHANGED done,
         NEW failure \in Results \ {"none", "ok", "error"},
         got' = [got EXCEPT ![call] = failure],
         Open' = Open \/ Open' = Open \ {call}
  PROVE  Promise!CallNext
<1>1. Told' = [Told EXCEPT ![call] = "failed"]
  BY DEF Told, LinkInv, LinkTypeOK, ClientTypeOK
<1>2. PICK c \in Calls : c = call
  OBVIOUS
<1>3. Promise!GiveUp(c)
  BY <1>1, <1>2 DEF Promise!GiveUp, Open, Told
<1> QED BY <1>3 DEF Promise!CallNext

\* StartCall begins a call.
LEMMA BeginImplements ==
  ASSUME LinkInv, NEW c \in Calls, BeginCall(c)
  PROVE  Promise!CallNext
<1>0. /\ phase = "idle" /\ phase' = "sending" /\ call' = c /\ call = NoCall
      /\ got' = [got EXCEPT ![c] = "none"] /\ done' = [done EXCEPT ![c] = "none"]
      /\ UNCHANGED <<wire, serving, request>>
      /\ CallFree(c)
  BY DEF BeginCall, StartCall, LinkInv, CallerInv
<1>1. c \notin Open /\ Open' = Open \cup {c}
  BY <1>0 DEF Open, AtServer, CallFree, LinkInv, ServingInv
<1>2. Told' = [Told EXCEPT ![c] = "none"]
  BY <1>0 DEF Told, LinkInv, LinkTypeOK, ClientTypeOK
<1>3. Promise!Begin(c)
  BY <1>0, <1>1, <1>2 DEF Promise!Begin, Open, Told
<1> QED BY <1>3 DEF Promise!CallNext

\* Handle carries the call out, which was open and is not any more.
LEMMA HandleImplements ==
  ASSUME LinkInv, UNCHANGED clientVars, NEW a \in {"ok", "error"}, Handle(a)
  PROVE  Promise!CallNext
<1> DEFINE c == request.call
<1>0. /\ serving = "handling" /\ serving' = "answering" /\ request # NoRequest
      /\ c \in Calls /\ done' = [done EXCEPT ![c] = a]
      /\ UNCHANGED <<wire, phase, call, got, request>>
  BY RequestShape DEF Handle, clientVars, LinkInv, ServingInv
<1>1. c \in Open
  BY <1>0 DEF Open, AtServer
<1>2. Open' = Open \ {c}
  BY <1>0 DEF Open, AtServer, LinkInv, CyclesApart, Apart, FreshInv, CallFree
<1>3. Promise!CarryOut(c, a)
  BY <1>0, <1>1, <1>2 DEF Promise!CarryOut, Open, Told
<1> QED BY <1>0, <1>3 DEF Promise!CallNext, Promise!Answers

\* ReturnResult returns the answer of this very call, or gives up.
LEMMA ReturnImplements ==
  ASSUME LinkInv, UNCHANGED serverVars, ReturnResult
  PROVE  Promise!CallNext
<1>0. /\ phase = "finished" /\ phase' = "idle" /\ call \in Calls /\ call' = NoCall
      /\ got' = [got EXCEPT ![call] = result] /\ result \in Results
      /\ result \in {"ok", "error", "no_connected_peers", "closed"}
      /\ UNCHANGED <<wire, serving, request, done>>
  BY DEF ReturnResult, Tell, serverVars, LinkInv, CallerInv, ResultInv, LinkTypeOK,
         ClientTypeOK
<1>1. Open' = Open
  BY <1>0 DEF Open, AtServer
<1>2. CASE result \in {"ok", "error"}
  <2>1. done[call] = result
    BY <1>0, <1>2 DEF LinkInv, AnswersTrue
  <2>2. Told' = [Told EXCEPT ![call] = done[call]]
    BY <1>0, <1>2, <2>1 DEF Told, LinkInv, LinkTypeOK, ClientTypeOK
  <2>3. PICK c \in Calls : c = call
    BY <1>0
  <2>4. Promise!Return(c)
    BY <1>0, <1>1, <1>2, <2>1, <2>2, <2>3 DEF Promise!Return, Open, Told
  <2> QED BY <2>4 DEF Promise!CallNext
<1>3. CASE result \notin {"ok", "error"}
  BY <1>0, <1>1, <1>3, GiveUpStep
<1> QED BY <1>2, <1>3

\* The other steps of the client: requests are lost, or the call is given up on.
LEMMA ClientImplements ==
  ASSUME LinkInv, UNCHANGED serverVars,
         ClientStep \/ TaskFindsClosed \/ Timeout
  PROVE  Promise!CallNext
<1>1. CASE TaskSends(TRUE) \/ TaskSends(FALSE)
  <2>1. UNCHANGED <<call, done, got, serving, request>> /\ phase = "sending" /\ phase' = "receiving"
        /\ (wire' = wire \/ wire' = wire \cup {Request(held, call)})
    BY <1>1 DEF TaskSends, serverVars
  <2>2. Open' \subseteq Open
    BY <2>1 DEF Open, AtServer, Request
  <2> QED BY <2>1, <2>2, QuietStep
<1>2. CASE TaskFindsNoPeer \/ TaskFindsWedge \/ FindsWedge \/ TaskFindsClosed \/ Timeout
            \/ \E m \in RepliesOn(wire) : TaskReceives(m)
  <2>1. UNCHANGED <<call, done, got, serving, request>> /\ phase' # "sending" /\ wire' \subseteq wire
    BY <1>2 DEF TaskFindsNoPeer, TaskFindsWedge, FindsWedge, TaskFindsClosed, Timeout,
                TaskReceives, Finish, serverVars
  <2>2. Open' \subseteq Open
    BY <2>1 DEF Open, AtServer
  <2> QED BY <2>1, <2>2, QuietStep
<1>3. CASE TaskDiesWithCaller
  <2>1. /\ phase = "sending" /\ phase' = "down" /\ call \in Calls /\ call' = NoCall
        /\ got' = [got EXCEPT ![call] = "killed"]
        /\ UNCHANGED <<done, wire, serving, request>>
    BY <1>3 DEF TaskDiesWithCaller, serverVars, LinkInv, CallerInv, LinkTypeOK, ClientTypeOK
  <2>2. Open' = Open \ {call}
    BY <2>1 DEF Open, AtServer, LinkInv, FreshInv, CallFree, ServingInv
  <2> QED BY <2>1, <2>2, GiveUpStep DEF Results
<1>4. CASE ReturnResult
  BY <1>4, ReturnImplements
<1>5. CASE ReopenFails \/ \E s \in Sockets : Reopen(s) \/ ReopenDrops(s)
  <2>1. /\ phase = "reopening" /\ phase' = "idle" /\ call \in Calls /\ call' = NoCall
        /\ got' = [got EXCEPT ![call] = result] /\ result \in {"timeout", "efsm"}
        /\ wire' = wire \ RepliesTo(cell)
        /\ UNCHANGED <<done, serving, request>>
    BY <1>5 DEF Reopen, ReopenFails, ReopenDrops, StopOld, Tell, serverVars, LinkInv, CallerInv, ResultInv,
                LinkTypeOK, ClientTypeOK
  <2>2. Open' = Open
    BY <2>1 DEF Open, AtServer, RepliesTo, RepliesOn
  <2> QED BY <2>1, <2>2, GiveUpStep DEF Results
<1> QED BY <1>1, <1>2, <1>3, <1>4, <1>5 DEF ClientStep

\* The other steps of the server: requests are lost, at most.
LEMMA ServerImplements ==
  ASSUME LinkInv, UNCHANGED clientVars,
         \/ \E m \in wire : Receive(m)
         \/ PollNoticesStop \/ EncodeRaises \/ Crash \/ BindAfterStop \/ Bind \/ RequestStop
         \/ request # NoRequest /\ Answer(Connected(request.sock))
  PROVE  Promise!CallNext
<1>0. UNCHANGED <<phase, call, got>>
  BY DEF clientVars
<1>1. CASE \E m \in wire : Receive(m)
  <2>1. PICK m \in wire : Receive(m)
    BY <1>1
  <2>2. /\ m.kind = "request" /\ request' = m /\ wire' = wire \ {m} /\ done' = done
    BY <2>1 DEF Receive
  <2>3. Open' \subseteq Open
    BY <1>0, <2>2 DEF Open, AtServer
  <2> QED BY <1>0, <2>2, <2>3, QuietStep
<1>2. CASE Bind \/ RequestStop
  <2>1. /\ UNCHANGED <<request, done, wire>>
        /\ serving' = "handling" => serving = "handling"
    BY <1>2 DEF Bind, RequestStop
  <2>2. Open' \subseteq Open
    BY <1>0, <2>1 DEF Open, AtServer
  <2> QED BY <1>0, <2>1, <2>2, QuietStep
<1>3. CASE PollNoticesStop \/ EncodeRaises \/ Crash \/ BindAfterStop
            \/ (request # NoRequest /\ Answer(Connected(request.sock)))
  <2>1. done' = done /\ \E w : LetsGo(w)
    BY <1>3, EndsLetGo
  <2>2. \A m \in wire' : m.kind = "request" => m \in wire
    BY <2>1 DEF LetsGo, Reply
  <2>3. Open' \subseteq Open
    BY <1>0, <2>1, <2>2 DEF Open, AtServer, LetsGo
  <2> QED BY <1>0, <2>1, <2>3, QuietStep
<1> QED BY <1>1, <1>2, <1>3

\* A call is carried out at most once, and its caller is told the answer to that
\* very call or nothing of it, whatever is lost, late, stopped or restarted.
THEOREM ImplementsRemoteCallHolds == LinkSpec => ImplementsRemoteCall
<1>1. LinkInit => Promise!CallInit
  BY DEF LinkInit, ClientInit, ServerInit, Promise!CallInit, AtServer
<1>2. LinkInv /\ [LinkNext]_linkVars => [Promise!CallNext]_(Promise!callVars)
  <2> SUFFICES ASSUME LinkInv, LinkNext PROVE Promise!CallNext
    BY DEF linkVars, clientVars, serverVars, Promise!callVars, AtServer
  <2>1. ASSUME NEW c \in Calls, BeginCall(c) PROVE Promise!CallNext
    BY <2>1, BeginImplements
  <2>2. CASE ClientStep \/ ConnectionFails \/ TimerStep
    BY <2>2, ClientImplements DEF ClientStep, ConnectionFails, TimerStep
  <2>3. CASE ServerStep
    <3>1. ASSUME NEW a \in {"ok", "error"}, Handle(a) PROVE Promise!CallNext
      BY <2>3, <3>1, HandleImplements DEF ServerStep
    <3> QED BY <2>3, <3>1, ServerImplements DEF ServerStep
  <2>4. CASE ServerStarts \/ ServerFails
    BY <2>4, ServerImplements DEF ServerStarts, ServerFails
  <2> QED BY <2>1, <2>2, <2>3, <2>4 DEF LinkNext
<1> QED
  BY <1>1, <1>2, LinkInvHolds, PTL DEF LinkSpec, ImplementsRemoteCall, Promise!CallSpec

=============================================================================
