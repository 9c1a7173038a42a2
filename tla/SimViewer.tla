------------------------------ MODULE SimViewer ------------------------------
(***************************************************************************)
(* python -m sim_server --viewer: the main thread holds the MuJoCo window  *)
(* (sim_server/viewer.py), a daemon thread serves the socket               *)
(* (server.py), and both touch the environment's MjData under one RLock    *)
(* (env.py), until the window is closed or somebody presses Ctrl-C.        *)
(*                                                                         *)
(* A write to MjData is not atomic: the joint positions move first, the    *)
(* rest follows.  MuJoCo itself is external.                               *)
(***************************************************************************)
EXTENDS Naturals

CONSTANT MaxWrites  \* bound: resets and steps served

ASSUME ViewerAssumption == MaxWrites \in Nat

VARIABLES
  main,      \* where the main thread is
  serve,     \* where the serve thread is
  op,        \* the operation it is carrying out
  owner,     \* who holds data_lock
  stopping,  \* _stop_requested
  window,    \* the window is open
  data,      \* MjData: the number of the write each half comes from
  shown,     \* what the window shows
  late,      \* requests taken after stop()
  torn       \* history: the writes that an exception broke off

vars == <<main, serve, op, owner, stopping, window, data, shown, late, torn>>
mainVars == <<main, window, shown>>
serveVars == <<serve, op, data, late, torn>>

Mutates == {"reset", "step"}
Writing == {"writing", "written"}
Accessing == Writing \cup {"reading"}
Serving == Accessing \cup {"locking", "replying"}

TypeOK ==
  /\ main \in {"waiting", "checking", "locking", "syncing", "stopping", "joining",
               "closing", "exiting", "exited"}
  /\ serve \in {"new", "polling", "ended"} \cup Serving
  /\ op \in Mutates \cup {"render", "none"}
  /\ owner \in {"main", "serve", "nobody"}
  /\ stopping \in BOOLEAN /\ window \in BOOLEAN
  /\ data \in [pos : 0..MaxWrites, rest : 0..MaxWrites]
  /\ shown \in [pos : 0..MaxWrites, rest : 0..MaxWrites]
  /\ late \in Nat
  /\ torn \subseteq 0..MaxWrites

Init ==
  /\ main = "waiting"
  /\ serve = "new"
  /\ op = "none"
  /\ owner = "nobody"
  /\ stopping = FALSE
  /\ window = TRUE
  /\ data = [pos |-> 0, rest |-> 0]
  /\ shown = data
  /\ late = 0
  /\ torn = {}

----------------------------------------------------------------------------
(* Seeded defects, used only to show which property each one breaks.       *)

\* reset and step that take the lock only for the payload.
LockUnlocked ==
  /\ serve = "locking"
  /\ serve' = IF op \in Mutates THEN "writing" ELSE "reading"
  /\ UNCHANGED <<op, data, late, torn, owner, stopping, mainVars>>

\* A serve loop that checks the flag only after an idle poll.
ServeReplyUnchecked ==
  /\ serve = "replying"
  /\ serve' = "polling"
  /\ op' = "none"
  /\ UNCHANGED <<data, late, torn, owner, stopping, mainVars>>

\* A lock taken without a with block.
OpRaisesHolding ==
  /\ serve \in Accessing
  /\ serve' = "replying"
  /\ torn' = IF serve = "written" THEN torn \cup {data.pos} ELSE torn
  /\ UNCHANGED <<op, data, late, owner, stopping, mainVars>>

----------------------------------------------------------------------------
(* The serve thread: serve_forever.                                        *)

Bind ==
  /\ serve = "new"
  /\ serve' \in {"polling", "ended"}
  /\ UNCHANGED <<op, data, late, torn, owner, stopping, mainVars>>

\* A request that recv returns is carried out, though stop() came meanwhile.
Take(o) ==
  /\ serve = "polling"
  /\ o \in Mutates => data.pos < MaxWrites
  /\ serve' = "locking"
  /\ op' = o
  /\ late' = IF stopping THEN late + 1 ELSE late
  /\ UNCHANGED <<data, torn, owner, stopping, mainVars>>

Lock ==
  /\ serve = "locking"
  /\ owner = "nobody"
  /\ owner' = "serve"
  /\ serve' = IF op \in Mutates THEN "writing" ELSE "reading"
  /\ UNCHANGED <<op, data, late, torn, stopping, mainVars>>

Write ==
  /\ serve = "writing"
  /\ serve' = "written"
  /\ data' = [data EXCEPT !.pos = @ + 1]
  /\ UNCHANGED <<op, late, torn, owner, stopping, mainVars>>

WriteRest ==
  /\ serve = "written"
  /\ serve' = "reading"
  /\ data' = [data EXCEPT !.rest = data.pos]
  /\ UNCHANGED <<op, late, torn, owner, stopping, mainVars>>

\* The payload is read, and the with block left.
Read ==
  /\ serve = "reading"
  /\ serve' = "replying"
  /\ owner' = "nobody"
  /\ UNCHANGED <<op, data, late, torn, stopping, mainVars>>

\* The environment raises: the with block is left with MjData as it is, half
\* written or not, and an error reply follows.
OpRaises ==
  /\ serve \in Accessing
  /\ serve' = "replying"
  /\ owner' = "nobody"
  /\ torn' = IF serve = "written" THEN torn \cup {data.pos} ELSE torn
  /\ UNCHANGED <<op, data, late, stopping, mainVars>>

\* The reply, and the loop condition.
ServeReply ==
  /\ serve = "replying"
  /\ serve' = IF stopping THEN "ended" ELSE "polling"
  /\ op' = "none"
  /\ UNCHANGED <<data, late, torn, owner, stopping, mainVars>>

PollNoticesStop ==
  /\ serve = "polling"
  /\ stopping
  /\ serve' = "ended"
  /\ UNCHANGED <<op, data, late, torn, owner, stopping, mainVars>>

ServeNext ==
  \/ Bind
  \/ Lock \/ Write \/ WriteRest \/ Read \/ OpRaises
  \/ ServeReply
  \/ PollNoticesStop

----------------------------------------------------------------------------
(* The main thread: run_with_viewer under main().                          *)

Ready ==
  /\ main = "waiting"
  /\ serve \notin {"new", "ended"}
  /\ main' = "checking"
  /\ UNCHANGED <<window, shown, owner, stopping, serveVars>>

\* The bind failed: wait_until_ready raises, outside the try block.
NeverReady ==
  /\ main = "waiting"
  /\ serve = "ended"
  /\ main' = "closing"
  /\ UNCHANGED <<window, shown, owner, stopping, serveVars>>

CheckWindow ==
  /\ main = "checking"
  /\ main' = IF window THEN "locking" ELSE "stopping"
  /\ UNCHANGED <<window, shown, owner, stopping, serveVars>>

LockForSync ==
  /\ main = "locking"
  /\ owner = "nobody"
  /\ owner' = "main"
  /\ main' = "syncing"
  /\ UNCHANGED <<window, shown, stopping, serveVars>>

Sync ==
  /\ main = "syncing"
  /\ shown' = data
  /\ owner' = "nobody"
  /\ main' = "checking"
  /\ UNCHANGED <<window, stopping, serveVars>>

\* The finally clause.
StopServer ==
  /\ main = "stopping"
  /\ stopping' = TRUE
  /\ main' = "joining"
  /\ UNCHANGED <<window, shown, owner, serveVars>>

\* join(timeout=5.0): an idle serve thread notices the flag within its 200 ms.
Join ==
  /\ main = "joining"
  /\ serve \in Serving \cup {"ended"}
  /\ main' = "closing"
  /\ UNCHANGED <<window, shown, owner, stopping, serveVars>>

\* main()'s own finally clause: env.close(), without the lock.
CloseEnv ==
  /\ main = "closing"
  /\ main' = "exiting"
  /\ UNCHANGED <<window, shown, owner, stopping, serveVars>>

\* The interpreter ends, and the daemon thread with it.
Exit ==
  /\ main = "exiting"
  /\ main' = "exited"
  /\ serve' = "ended"
  /\ op' = "none"
  /\ owner' = "nobody"
  /\ UNCHANGED <<window, shown, stopping, data, late, torn>>

MainNext ==
  Ready \/ NeverReady \/ CheckWindow \/ Sync \/ StopServer \/ Join \/ CloseEnv \/ Exit

\* KeyboardInterrupt, or the viewer raises.  Before the try block only main()
\* sees it, which stops the server but does not join it.
Interrupt ==
  /\ main \in {"waiting", "checking", "locking", "syncing", "joining"}
  /\ IF main \in {"waiting", "joining"}
       THEN main' = "closing" /\ stopping' = TRUE
       ELSE main' = "stopping" /\ UNCHANGED stopping
  /\ owner' = IF owner = "main" THEN "nobody" ELSE owner
  /\ UNCHANGED <<window, shown, serveVars>>

UserClosesWindow ==
  /\ window
  /\ main \in {"checking", "locking", "syncing"}
  /\ window' = FALSE
  /\ UNCHANGED <<main, shown, owner, stopping, serveVars>>

----------------------------------------------------------------------------

Next ==
  \/ \E o \in Mutates \cup {"render"} : Take(o)
  \/ ServeNext
  \/ MainNext
  \/ LockForSync
  \/ Interrupt
  \/ UserClosesWindow

Spec == Init /\ [][Next]_vars

(***************************************************************************)
(* Both threads are scheduled and MuJoCo's calls return.  The RLock is not *)
(* a fair one: the main thread gets it because the serve thread drops it   *)
(* between any two requests, for as long as the network takes.             *)
(***************************************************************************)
FairSpec ==
  Spec /\ WF_vars(ServeNext) /\ WF_vars(MainNext) /\ SF_vars(LockForSync)

----------------------------------------------------------------------------
(* Properties.                                                             *)

\* No sync falls into a step (env.py:121-123): half of one is only ever in the
\* window when the environment raised in the middle and left it at that.
NoSyncInsideWrite == shown.pos # shown.rest => shown.pos \in torn

\* A request that comes after stop() is carried out at most once in all: the
\* serve loop leaves after it, and a shutdown is not kept waiting by a client.
StopTakesOneMore == late <= 1

\* Closing the window ends the process (viewer.py:20-23), although the main
\* thread waits for a lock the serve thread takes for every request.
ClosingEnds == ~window ~> main = "exited"

=============================================================================
