----------------------------- MODULE ReqRepWire -----------------------------
(***************************************************************************)
(* What travels between a REQ client and a REP server.  A connection is    *)
(* named by the client's socket: libzmq routes a reply by the connection   *)
(* its request came in on, so a reply is never delivered to another one.   *)
(* A REQ socket has at most one request out, so a set is enough: there is  *)
(* no order to keep within a connection and none across connections.       *)
(***************************************************************************)
CONSTANTS
  Calls,    \* identities of calls, used again once nothing refers to them
  NoCall,   \* no call at all
  Sockets,  \* identities of client sockets, used again likewise
  Faults    \* what may go wrong outside the two programs

(***************************************************************************)
(* "open": chumak refuses a fresh socket or its connect.  "hung": a socket *)
(* does not stop within the second it is given.  "lost": the connection is *)
(* down although the server is up.  "closed": recv fails with a connection *)
(* error.  "unencodable": the payload of a reply cannot be packed.         *)
(* "crash": the server process dies.  "stop": stop() is called.            *)
(***************************************************************************)
AllFaults == {"open", "hung", "lost", "closed", "unencodable", "crash", "stop"}

ASSUME WireAssumption == NoCall \notin Calls /\ Faults \subseteq AllFaults

VARIABLE wire  \* requests the server has not read, replies the client has not

Request(s, c) == [kind |-> "request", sock |-> s, call |-> c]
Reply(s, c, answer) == [kind |-> "reply", sock |-> s, call |-> c, answer |-> answer]

Requests == [kind : {"request"}, sock : Sockets, call : Calls]
Replies == [kind : {"reply"}, sock : Sockets, call : Calls, answer : {"ok", "error"}]

RepliesOn(w) == {m \in w : m.kind = "reply"}
RepliesTo(s) == {m \in RepliesOn(wire) : m.sock = s}

=============================================================================
