----------------------------- MODULE ClusterLoop -----------------------------
(***************************************************************************)
(* ControlLoop with Demo.InferenceClient as its adapter: infer_action is a *)
(* GenServer.call from the sim node's task to the InferenceServer on the   *)
(* inference node.                                                         *)
(*                                                                         *)
(* A request whose caller is gone stays in the server's mailbox and is     *)
(* still carried out, before the requests behind it.  All such requests    *)
(* are one flag here, so that there may be any number of them.             *)
(***************************************************************************)
EXTENDS ControlLoop

CONSTANTS
  NoCall,     \* no call at all
  Abandoned,  \* a request whose caller gave up on it
  Outages     \* what may happen to the inference node, a subset of AllOutages

(***************************************************************************)
(* "dies": the server's process or node is lost, in mid request or not.    *)
(* "cut": the connection is lost while the server goes on.  "hangs": an    *)
(* inference never ends.  "load": the checkpoint cannot be loaded.         *)
(***************************************************************************)
AllOutages == {"dies", "cut", "hangs", "load"}

ASSUME OutagesAssumption == Outages \subseteq AllOutages
ASSUME TokenAssumption ==
  NoCall \notin Calls \cup Result /\ Abandoned \notin Calls \cup {NoCall}

VARIABLES
  bounded,  \* :infer_timeout is a number of ms, not :infinity
  server,   \* "absent", "loading" (the name is registered) or "ready"
  stale,    \* abandoned requests wait in the server's mailbox
  queued,   \* the call whose request waits behind them, or NoCall
  serving,  \* what the server infers: a call, Abandoned or NoCall
  hung,     \* that inference will not end
  replied,  \* the reply under way to its caller, or NoCall
  waiting,  \* the tasks that are inside GenServer.call
  down,     \* those of them whose monitor has fired
  done,     \* history: call -> what its inference gave
  got       \* history: call -> what its caller was told

requests == <<stale, queued, serving, replied, waiting, down>>
history == <<done, got>>
clusterVars == <<bounded, server, requests, hung, history>>
cvars == <<vars, clusterVars>>

----------------------------------------------------------------------------
(* Seeded defects: a client that calls again when its call exits, a server *)
(* that replies to its successes only.                                     *)

ClientExitsRetrying(c) ==
  /\ waiting' = waiting \ {c} /\ down' = down \ {c}
  /\ UNCHANGED <<vars, got>>

ServerRepliesOnlyOk(r) ==
  /\ serving = r.call
  /\ ~hung
  /\ r.kind # "malformed"
  /\ serving' = NoCall
  /\ replied' = IF r.kind = "ok" THEN r ELSE NoCall
  /\ done' = [done EXCEPT ![r.call] = r.kind]
  /\ UNCHANGED <<vars, bounded, server, stale, queued, hung, waiting, down, got>>

----------------------------------------------------------------------------

ClusterInit ==
  /\ Init
  /\ bounded \in BOOLEAN
  /\ server = "absent"
  /\ stale = FALSE /\ queued = NoCall /\ serving = NoCall /\ hung = FALSE
  /\ replied = NoCall /\ waiting = {} /\ down = {}
  /\ done = [c \in Calls |-> "none"]
  /\ got = [c \in Calls |-> "none"]

\* The callbacks of the loop.  A new task forgets what its identity was used
\* for before.
LoopStep ==
  /\ \/ TickSends \/ TickExhausted
     \/ HandleChunk \/ HandleError
  /\ done' = [c \in Calls |-> IF c \in tasks' \ tasks THEN "none" ELSE done[c]]
  /\ got' = [c \in Calls |-> IF c \in tasks' \ tasks THEN "none" ELSE got[c]]
  /\ UNCHANGED <<bounded, server, requests, hung>>

\* GenServer.call: monitor the name on the inference node and send.
ClientCalls(c) ==
  /\ c \in tasks \ waiting
  /\ server # "absent"
  /\ queued' = c
  /\ waiting' = waiting \cup {c}
  /\ UNCHANGED <<vars, bounded, server, stale, serving, hung, replied, down,
                 history>>

\* catch :exit, reason -> {:error, {:inference_node_unreachable, reason}}.
ClientExits(c) ==
  /\ waiting' = waiting \ {c} /\ down' = down \ {c}
  /\ \E r \in Result : r.kind = "error" /\ TaskReturns(c, r)
  /\ got' = [got EXCEPT ![c] = "failed"]

\* No such process, or no connection to its node.
ClientFindsNobody(c) ==
  /\ c \in tasks \ waiting
  /\ server = "absent" \/ "cut" \in Outages
  /\ ClientExits(c)
  /\ UNCHANGED <<bounded, server, stale, queued, serving, hung, replied, done>>

\* The monitor reports that the server is gone, with no reply before it.
ClientSeesDown(c) ==
  /\ c \in down
  /\ replied # NoCall => replied.call # c
  /\ ClientExits(c)
  /\ UNCHANGED <<bounded, server, stale, queued, serving, hung, replied, done>>

\* The caller goes; its request, or the reply, is nobody's from now on.
Abandon(c) ==
  /\ stale' = (stale \/ queued = c)
  /\ queued' = IF queued = c THEN NoCall ELSE queued
  /\ serving' = IF serving = c THEN Abandoned ELSE serving
  /\ replied' = IF replied # NoCall /\ replied.call = c THEN NoCall ELSE replied

ClientTimesOut(c) ==
  /\ bounded
  /\ c \in waiting
  /\ Abandon(c)
  /\ ClientExits(c)
  /\ UNCHANGED <<bounded, server, hung, done>>

ConnectionLost(c) ==
  /\ "cut" \in Outages
  /\ c \in waiting
  /\ Abandon(c)
  /\ ClientExits(c)
  /\ UNCHANGED <<bounded, server, hung, done>>

ClientReturns(c) ==
  /\ replied # NoCall /\ replied.call = c
  /\ TaskReturns(c, replied)
  /\ replied' = NoCall
  /\ waiting' = waiting \ {c} /\ down' = down \ {c}
  /\ got' = [got EXCEPT ![c] = replied.kind]
  /\ UNCHANGED <<bounded, server, stale, queued, serving, hung, done>>

----------------------------------------------------------------------------

ServerStarts ==
  /\ server = "absent"
  /\ server' = "loading"
  /\ UNCHANGED <<vars, bounded, requests, hung, history>>

\* init/1 has loaded the model.
ServerLoads ==
  /\ server = "loading"
  /\ server' = "ready"
  /\ UNCHANGED <<vars, bounded, requests, hung, history>>

\* The next message of the mailbox; whether it was the last abandoned one is
\* not remembered.
ServerTakes ==
  /\ server = "ready" /\ serving = NoCall
  /\ \/ stale /\ serving' = Abandoned /\ stale' \in BOOLEAN /\ UNCHANGED queued
     \/ /\ ~stale /\ queued # NoCall
        /\ serving' = queued /\ queued' = NoCall
        /\ UNCHANGED stale
  /\ UNCHANGED <<vars, bounded, server, hung, replied, waiting, down,
                 history>>

\* handle_call replies what the adapter gave, an error included.
ServerReplies(r) ==
  /\ serving = r.call
  /\ ~hung
  /\ r.kind # "malformed"
  /\ serving' = NoCall
  /\ replied' = r
  /\ done' = [done EXCEPT ![r.call] = r.kind]
  /\ UNCHANGED <<vars, bounded, server, stale, queued, hung, waiting, down, got>>

ServerRepliesToNobody ==
  /\ serving = Abandoned
  /\ ~hung
  /\ serving' = NoCall
  /\ UNCHANGED <<vars, bounded, server, stale, queued, hung, replied, waiting,
                 down, history>>

\* The mailbox goes with the process and its monitors fire; a reply may have
\* left before.
ServerGone ==
  /\ server' = "absent"
  /\ stale' = FALSE /\ queued' = NoCall /\ serving' = NoCall /\ hung' = FALSE
  /\ replied' \in {replied, NoCall}
  /\ down' = waiting
  /\ UNCHANGED <<vars, bounded, waiting, history>>

ServerDies == "dies" \in Outages /\ server # "absent" /\ ServerGone

\* init/1 answers {:stop, error}.
LoadFails == "load" \in Outages /\ server = "loading" /\ ServerGone

ServerHangs ==
  /\ "hangs" \in Outages
  /\ serving # NoCall /\ ~hung
  /\ hung' = TRUE
  /\ UNCHANGED <<vars, bounded, server, requests, history>>

----------------------------------------------------------------------------

ClientStep ==
  \E c \in Calls : ClientCalls(c) \/ ClientFindsNobody(c) \/ ClientSeesDown(c)
                     \/ ClientReturns(c)

TimerFires == \E c \in Calls : ClientTimesOut(c)

ServerStep ==
  \/ ServerLoads
  \/ ServerTakes
  \/ \E r \in Result : ServerReplies(r)
  \/ ServerRepliesToNobody

Outage ==
  \/ ServerDies \/ LoadFails \/ ServerHangs
  \/ \E c \in Calls : ConnectionLost(c)

ClusterNext ==
  \/ LoopStep \/ ClientStep \/ TimerFires
  \/ ServerStarts \/ ServerStep \/ Outage

\* An answer that brings actions, as in ControlLoop's fairness.
RepliesWithActions ==
  \E r \in Result : r.kind = "ok" /\ r.chunk # <<>> /\ ServerReplies(r)

\* The abandoned requests come to an end: a mailbox is finite.
TakesLastAbandoned == stale /\ ServerTakes /\ ~stale'

\* Each BEAM runs its processes and delivers its signals; an inference that
\* does not hang ends; somebody starts an absent server again.
ClusterFairness ==
  /\ WF_cvars(LoopStep /\ (TickSends \/ TickExhausted))
  /\ WF_cvars(LoopStep /\ HandleResult)
  /\ WF_cvars(ClientStep)
  /\ WF_cvars(TimerFires)
  /\ WF_cvars(ServerStep)
  /\ WF_cvars(ServerStarts)
  /\ SF_cvars(TakesLastAbandoned)
  /\ SF_cvars(RepliesWithActions)

ClusterSpec == ClusterInit /\ [][ClusterNext]_cvars /\ ClusterFairness

----------------------------------------------------------------------------
(* Properties.                                                             *)

\* An inference call always comes to an end, by a chunk or an error, whatever
\* happens to the inference node (inference_client.ex:72-75), unless the call
\* has no timeout and the inference hangs for good.
SettlesUnlessHung == (bounded \/ []<>~hung) => (inFlight ~> ~inFlight)

\* After the last outage, and once answers come before the timer, an empty
\* queue is filled again: no sequence of lost nodes, failed loads, hanging and
\* abandoned inferences leaves the loop without actions for good.
Calm ==
  /\ ~Outage
  /\ ~TimerFires
  /\ server # "absent" => ~\E c \in Calls : ClientFindsNobody(c)

ClusterRecovers ==
  (<>[][Calm]_cvars /\ <>[]~hung) => (queue = <<>> ~> queue # <<>>)

\* The distributed call implements the same remote call as the ZeroMQ link:
\* carried out at most once, and answered with its own answer.
Port ==
  INSTANCE RemoteCall WITH
    pending <- IF tasks = {} THEN NoCall ELSE CHOOSE c \in tasks : TRUE,
    open <- (tasks \ waiting) \cup ({queued, serving} \cap Calls)

ImplementsPort == Port!CallSpec

=============================================================================
