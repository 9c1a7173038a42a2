------------------------------ MODULE RepServer ------------------------------
(***************************************************************************)
(* sim_server/server.py and model_runtime_server/server.py: serve_forever, *)
(* one request at a time over a REP socket, exactly one reply for each,    *)
(* until stop() is noticed.  Both have the same loop; what a request does  *)
(* to the simulation is SimRig's subject.                                  *)
(***************************************************************************)
EXTENDS ReqRepWire

CONSTANT NoRequest  \* the server holds no request

ASSUME NoRequestAssumption == NoRequest \notin Requests

VARIABLES
  serving,   \* where serve_forever is
  request,   \* the request being served, or NoRequest
  answer,    \* the encoded reply to it, or "none"
  stopping,  \* _stop_requested
  done       \* call -> what carrying it out gave

serverVars == <<serving, request, answer, stopping, done>>

ServerTypeOK ==
  /\ serving \in {"down", "polling", "handling", "answering"}
  /\ request \in Requests \cup {NoRequest}
  /\ answer \in {"none", "ok", "error"}
  /\ stopping \in BOOLEAN
  /\ done \in [Calls -> {"none", "ok", "error"}]

ServerInit ==
  /\ serving = "down"
  /\ request = NoRequest
  /\ answer = "none"
  /\ stopping = FALSE
  /\ done = [c \in Calls |-> "none"]

\* The process is gone, or left serve_forever and closed its socket: requests
\* it had not read are lost, replies it had sent (LINGER 0) may be.
GoesDown(w) ==
  /\ serving' = "down"
  /\ request' = NoRequest
  /\ answer' = "none"
  /\ stopping' = FALSE
  /\ wire' \in SUBSET RepliesOn(w)

----------------------------------------------------------------------------
(* Seeded defects, used only to show which property each one breaks.       *)

\* A failure path that returns no bytes.
HandleUnanswered(a) ==
  /\ serving = "handling"
  /\ done' = [done EXCEPT ![request.call] = a]
  /\ serving' = "answering"
  /\ UNCHANGED <<request, answer, stopping, wire>>

----------------------------------------------------------------------------

\* serve_forever binds the socket; wait_until_ready returns from here on.
Bind ==
  /\ serving = "down"
  /\ ~stopping
  /\ serving' = "polling"
  /\ UNCHANGED <<request, answer, stopping, done, wire>>

\* serve_forever after a stop() that came before it: bound and left at once.
BindAfterStop ==
  /\ serving = "down"
  /\ stopping
  /\ GoesDown(wire)
  /\ UNCHANGED done

\* stop(), from another thread, at any time, also before serve_forever.
RequestStop ==
  /\ stopping' = TRUE
  /\ UNCHANGED <<serving, request, answer, done, wire>>

Receive(m) ==
  /\ serving = "polling"
  /\ m \in wire
  /\ m.kind = "request"
  /\ wire' = wire \ {m}
  /\ request' = m
  /\ serving' = "handling"
  /\ UNCHANGED <<answer, stopping, done>>

\* RCVTIMEO passes and the loop condition fails.
PollNoticesStop ==
  /\ serving = "polling"
  /\ stopping
  /\ GoesDown(wire)
  /\ UNCHANGED done

\* _handle_raw_request: the payload, or an error on every failure path.
Handle(a) ==
  /\ serving = "handling"
  /\ done' = [done EXCEPT ![request.call] = a]
  /\ answer' = a
  /\ serving' = "answering"
  /\ UNCHANGED <<request, stopping, wire>>

\* _encode_ok raises outside every try: the operation was carried out, the
\* loop is left, its finally clause closes the socket.
EncodeRaises ==
  /\ serving = "answering"
  /\ answer = "ok"
  /\ GoesDown(wire)
  /\ UNCHANGED done

Crash ==
  /\ serving # "down"
  /\ GoesDown(wire)
  /\ UNCHANGED done

\* The reply is encoded, socket.send(response), then the loop condition.  A
\* reply to a connection that is gone is dropped.
Answer(connected) ==
  /\ serving = "answering"
  /\ LET reply == Reply(request.sock, request.call, answer)
         sent  == IF connected THEN wire \cup {reply} ELSE wire
     IN IF stopping
          THEN GoesDown(sent)
          ELSE /\ wire' = sent
               /\ serving' = "polling"
               /\ request' = NoRequest
               /\ answer' = "none"
               /\ UNCHANGED stopping
  /\ UNCHANGED done

=============================================================================
