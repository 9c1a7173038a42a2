------------------------------ MODULE ReqClient ------------------------------
(***************************************************************************)
(* lib/control_loop/zero_mq_client.ex, and lib/sim_env_adapter/client.ex,  *)
(* which has the same body: one round trip over a REQ socket, run in a     *)
(* linked task that the caller kills when the timeout passes.  The handle  *)
(* of the live socket is kept in an Agent; a socket abandoned in mid cycle *)
(* is stopped and replaced.                                                *)
(*                                                                         *)
(* A chumak REQ socket (external) is a process: "ready" for a send,        *)
(* "waiting" for the reply to one, "stopped", or "stopping", which is told *)
(* to stop and has not read it.  The order stays in its mailbox, ahead of  *)
(* every later send.  A send while it is waiting is refused with :efsm.    *)
(* The clients have one caller at a time: the loop has one inference task  *)
(* in flight, the sim env adapter is a GenServer.                          *)
(***************************************************************************)
EXTENDS ReqRepWire

VARIABLES
  cell,    \* the socket handle in the Agent, t().conn
  sock,    \* socket -> its state
  phase,   \* where the caller is in infer_action/2 or request/2
  call,    \* the call it is making, or NoCall
  held,    \* the handle it read from the Agent
  result,  \* what the round trip came to
  got,     \* call -> what its caller was told
  told     \* history: what the caller was told last

clientVars == <<cell, sock, phase, call, held, result, got, told>>

Phases == {"idle", "sending", "receiving", "finished", "reopening", "down"}
Results ==
  {"none", "ok", "error", "timeout", "efsm", "no_connected_peers", "closed", "killed"}

ClientTypeOK ==
  /\ cell \in Sockets
  /\ sock \in [Sockets -> {"ready", "waiting", "stopping", "stopped"}]
  /\ phase \in Phases
  /\ call \in Calls \cup {NoCall}
  /\ held \in Sockets
  /\ result \in Results
  /\ got \in [Calls -> Results]
  /\ told \in Results

Waiting == phase \in {"sending", "receiving"}

\* What safe_stop/1 may leave a socket as: its exit after the second is caught.
AfterStop(state) ==
  IF state # "stopped" /\ "hung" \in Faults THEN {"stopped", "stopping"} ELSE {"stopped"}

Tell(answer) ==
  /\ got' = [got EXCEPT ![call] = answer]
  /\ told' = answer
  /\ phase' = "idle"
  /\ call' = NoCall
  /\ result' = "none"

Finish(r) ==
  /\ phase' = "finished"
  /\ result' = r

----------------------------------------------------------------------------
(* Seeded defects, used only to show which property each one breaks.       *)

\* Recovering from a timeout by taking the socket's state to be fresh again.
TimeoutReusingSocket ==
  /\ Waiting
  /\ sock' = [sock EXCEPT ![held] = "ready"]
  /\ Tell("timeout")
  /\ UNCHANGED <<cell, held, wire>>

\* Giving up without touching the socket.
TimeoutKeepingSocket ==
  /\ Waiting
  /\ Tell("timeout")
  /\ UNCHANGED <<cell, sock, held, wire>>

\* Opening a fresh socket without stopping the old one.
ReopenLeaking(fresh) ==
  /\ phase = "reopening"
  /\ fresh # cell
  /\ sock' = [sock EXCEPT ![fresh] = "ready"]
  /\ cell' = fresh
  /\ Tell(result)
  /\ UNCHANGED <<held, wire>>

\* No special case for :efsm.
FindsWedgeReturning ==
  /\ phase = "finished"
  /\ result = "efsm"
  /\ Tell("efsm")
  /\ UNCHANGED <<cell, sock, held, wire>>

\* No timeout at all: recv blocks for as long as it takes.
TimeoutNever == FALSE /\ UNCHANGED <<clientVars, wire>>

----------------------------------------------------------------------------

\* connect/3.
ClientInit ==
  /\ cell \in Sockets
  /\ sock = [s \in Sockets |-> IF s = cell THEN "ready" ELSE "stopped"]
  /\ phase = "idle"
  /\ call = NoCall
  /\ held = cell
  /\ result = "none"
  /\ got = [c \in Calls |-> "none"]
  /\ told = "none"

\* Encode the request, read the Agent, start the task.
StartCall(c) ==
  /\ phase = "idle"
  /\ phase' = "sending"
  /\ call' = c
  /\ held' = cell
  /\ got' = [got EXCEPT ![c] = "none"]
  /\ UNCHANGED <<cell, sock, result, told, wire>>

\* chumak:send/2 returns :ok; the request may die with the connection.
TaskSends(delivered) ==
  /\ phase = "sending"
  /\ sock[held] = "ready"
  /\ sock' = [sock EXCEPT ![held] = "waiting"]
  /\ wire' = IF delivered THEN wire \cup {Request(held, call)} ELSE wire
  /\ phase' = "receiving"
  /\ UNCHANGED <<cell, call, held, result, got, told>>

TaskFindsNoPeer ==
  /\ phase = "sending"
  /\ sock[held] = "ready"
  /\ Finish("no_connected_peers")
  /\ UNCHANGED <<cell, sock, call, held, got, told, wire>>

TaskFindsWedge ==
  /\ phase = "sending"
  /\ sock[held] = "waiting"
  /\ Finish("efsm")
  /\ UNCHANGED <<cell, sock, call, held, got, told, wire>>

\* The call to a stopped socket exits, the one to a stopping socket when that
\* stops; Task.async linked the task to its caller, which does not trap exits.
TaskDiesWithCaller ==
  /\ phase = "sending"
  /\ sock[held] \in {"stopped", "stopping"}
  /\ phase' = "down"
  /\ got' = [got EXCEPT ![call] = "killed"]
  /\ told' = "killed"
  /\ call' = NoCall
  /\ UNCHANGED <<cell, sock, held, result, wire>>

\* chumak:recv/1 returns the reply, decode_response/1 unpacks it.
TaskReceives(m) ==
  /\ phase = "receiving"
  /\ m \in RepliesTo(held)
  /\ wire' = wire \ {m}
  /\ sock' = [sock EXCEPT ![held] = "ready"]
  /\ Finish(m.answer)
  /\ UNCHANGED <<cell, call, held, got, told>>

\* recv/1 fails: the reply is lost with the connection, and the socket stays
\* parked in mid cycle.
TaskFindsClosed ==
  /\ phase = "receiving"
  /\ wire' = wire \ RepliesTo(held)
  /\ Finish("closed")
  /\ UNCHANGED <<cell, sock, call, held, got, told>>

\* Task.yield/2, or the Task.shutdown/2 after it, finds the task finished.
ReturnResult ==
  /\ phase = "finished"
  /\ result # "efsm"
  /\ Tell(result)
  /\ UNCHANGED <<cell, sock, held, wire>>

FindsWedge ==
  /\ phase = "finished"
  /\ result = "efsm"
  /\ phase' = "reopening"
  /\ UNCHANGED <<cell, sock, call, held, result, got, told, wire>>

\* timeout_ms pass first, and Task.shutdown/2 kills the unfinished task.
Timeout ==
  /\ Waiting
  /\ phase' = "reopening"
  /\ result' = "timeout"
  /\ UNCHANGED <<cell, sock, call, held, got, told, wire>>

\* reopen/1 in the Agent: stop the old socket, whatever that comes to.
StopOld(sockets) ==
  /\ phase = "reopening"
  /\ \E old \in AfterStop(sock[cell]) : sock' = [sockets EXCEPT ![cell] = old]
  /\ wire' = wire \ RepliesTo(cell)
  /\ Tell(result)
  /\ UNCHANGED held

\* Then put a fresh one, which nothing refers to yet, in its place.
Reopen(fresh) ==
  /\ fresh # cell
  /\ StopOld([sock EXCEPT ![fresh] = "ready"])
  /\ cell' = fresh

\* open_socket/2 fails on chumak:socket: the Agent keeps the old socket.
ReopenFails == StopOld(sock) /\ UNCHANGED cell

\* open_socket/2 fails on chumak:connect: the Agent keeps the old socket, and
\* nothing keeps or stops the fresh one.
ReopenDrops(fresh) ==
  /\ fresh # cell
  /\ StopOld([sock EXCEPT ![fresh] = "ready"])
  /\ UNCHANGED cell

=============================================================================
