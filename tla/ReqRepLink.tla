------------------------------ MODULE ReqRepLink ------------------------------
(***************************************************************************)
(* A ReqClient and a RepServer joined by the wire: the path of the loop's  *)
(* infer_action to model_runtime_server, and of the sim env adapter's      *)
(* requests to sim_server.                                                 *)
(***************************************************************************)
EXTENDS ReqClient, RepServer

linkVars == <<wire, clientVars, serverVars>>

\* The request is waiting to be read or being carried out.
AtServer(c) ==
  \/ \E m \in wire : m.kind = "request" /\ m.call = c
  \/ serving = "handling" /\ request.call = c

\* Nothing on the wire or at the server refers to the call, or the socket.
CallFree(c) ==
  /\ \A m \in wire : m.call # c
  /\ request # NoRequest => request.call # c

SocketFree(s) ==
  /\ \A m \in wire : m.sock # s
  /\ request # NoRequest => request.sock # s

Connected(s) == sock[s] = "waiting"

LinkInit == wire = {} /\ ClientInit /\ ServerInit

BeginCall(c) ==
  /\ CallFree(c)
  /\ StartCall(c)
  /\ done' = [done EXCEPT ![c] = "none"]
  /\ UNCHANGED <<serving, request, answer, stopping>>

\* What the client's task meets depends on whether the server is there.
Unreachable == serving = "down" \/ "lost" \in Faults

ClientStep ==
  /\ \/ serving # "down" /\ TaskSends(TRUE)
     \/ Unreachable /\ TaskSends(FALSE)
     \/ Unreachable /\ TaskFindsNoPeer
     \/ TaskFindsWedge
     \/ TaskDiesWithCaller
     \/ \E m \in RepliesOn(wire) : TaskReceives(m)
     \/ ReturnResult
     \/ FindsWedge
     \/ \E s \in Sockets : SocketFree(s) /\ Reopen(s)
     \/ "open" \in Faults /\ (ReopenFails \/ \E s \in Sockets : SocketFree(s) /\ ReopenDrops(s))
  /\ UNCHANGED serverVars

\* A connection error ends a recv; nothing says that it ever comes.
ConnectionFails == "closed" \in Faults /\ TaskFindsClosed /\ UNCHANGED serverVars

TimerStep == Timeout /\ UNCHANGED serverVars

ServerStep ==
  /\ \/ \E m \in wire : Receive(m)
     \/ PollNoticesStop
     \/ \E a \in {"ok", "error"} : Handle(a)
     \/ request # NoRequest /\ Answer(Connected(request.sock))
  /\ UNCHANGED clientVars

ServerStarts == (Bind \/ BindAfterStop) /\ UNCHANGED clientVars

ServerFails ==
  /\ \/ "stop" \in Faults /\ RequestStop
     \/ "unencodable" \in Faults /\ EncodeRaises
     \/ "crash" \in Faults /\ Crash
  /\ UNCHANGED clientVars

LinkNext ==
  \/ \E c \in Calls : BeginCall(c)
  \/ ClientStep
  \/ ConnectionFails
  \/ TimerStep
  \/ ServerStep
  \/ ServerStarts
  \/ ServerFails

LinkSpec == LinkInit /\ [][LinkNext]_linkVars

(***************************************************************************)
(* The BEAM schedules the task and fires the timer of Task.yield; the      *)
(* server's loop runs; somebody restarts a server that is down and goes on *)
(* calling.                                                                *)
(***************************************************************************)
LinkFairness ==
  /\ WF_linkVars(\E c \in Calls : BeginCall(c))
  /\ WF_linkVars(ClientStep)
  /\ WF_linkVars(TimerStep)
  /\ WF_linkVars(ServerStep)
  /\ WF_linkVars(ServerStarts)

FairLinkSpec == LinkSpec /\ LinkFairness

----------------------------------------------------------------------------
(* Properties.                                                             *)

\* The types of the link's variables.
LinkTypeOK == wire \subseteq Requests \cup Replies /\ ClientTypeOK /\ ServerTypeOK

\* Only the call right after one whose recv failed with a connection error is
\* refused with :efsm.  So no timeout leaves a wedged socket behind, however it
\* races the late reply, and no two calls in a row are refused: reopen/1
\* replaces the socket, stops it or tells it to stop (zero_mq_client.ex:140-166).
RefusedOnlyAfterClosed == result = "efsm" => told = "closed"

\* A socket the Agent has no handle of is not left in mid cycle: it is stopped,
\* or told to stop, or fresh, which is what a failed connect leaves behind
\* alive, one each time (zero_mq_client.ex:133-137).
NoneLeftInMidCycle == \A s \in Sockets : s # cell => sock[s] # "waiting"

\* The pair implements the abstract remote call: a call is carried out at
\* most once, and what the caller is told is the answer to that very call,
\* never the late reply to one that was given up on.
Promise ==
  INSTANCE RemoteCall WITH
    pending <- call,
    open <- {c \in Calls : AtServer(c) \/ (phase = "sending" /\ call = c)},
    got <- [c \in Calls |->
             IF got[c] \in {"none", "ok", "error"} THEN got[c] ELSE "failed"]

ImplementsRemoteCall == Promise!CallSpec

\* A call always comes to an end, whatever the server does ("a hung Python
\* process would otherwise block the calling process forever"): it returns, or
\* takes its caller down after a reopening that failed.
CallReturns == (phase # "idle") ~> (phase \in {"idle", "down"})

\* The call that is waiting can still get its answer.
Hopeful ==
  \/ phase = "sending" /\ sock[held] \in {"ready", "waiting"}
  \/ AtServer(call)
  \/ serving = "answering" /\ request.call = call
  \/ RepliesTo(held) # {}

\* After the last fault, and once answers come before the timer, calls
\* succeed again, unless the caller is dead: no sequence of timeouts, wedged
\* sockets and restarts leaves the pair stuck for good.
Calm ==
  /\ Timeout => ~Hopeful
  /\ ~ServerFails
  /\ ~(TaskFindsNoPeer \/ TaskFindsClosed \/ Handle("error"))
  /\ ~(ReopenFails \/ \E s \in Sockets : ReopenDrops(s))
  /\ TaskSends(FALSE) => serving = "down"

Recovers ==
  <>[][Calm]_linkVars =>
    []<>(phase = "finished" /\ result = "ok") \/ <>[](phase = "down")

\* zero_mq_client.ex:96: "Never raises and never blocks past the client's
\* configured timeout."
NeverRaises == [][phase' # "down"]_linkVars

=============================================================================
