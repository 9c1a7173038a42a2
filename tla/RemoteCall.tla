----------------------------- MODULE RemoteCall -----------------------------
(***************************************************************************)
(* What a remote call promises its one caller at a time, with no sockets,  *)
(* no wire and no timers: the call is carried out at most once, possibly   *)
(* after the caller has given up on it; an answer that reaches the caller  *)
(* is the answer to that very call.                                        *)
(***************************************************************************)
CONSTANTS
  Calls,   \* identities of calls, used again once nothing refers to them
  NoCall   \* no call at all

Answers == {"ok", "error"}

VARIABLES
  pending,  \* the call whose caller is waiting, or NoCall
  open,     \* the calls that may still be carried out
  done,     \* call -> what carrying it out gave, or "none"
  got       \* call -> what its caller was told, or "none"

callVars == <<pending, open, done, got>>

CallInit ==
  /\ pending = NoCall
  /\ open = {}
  /\ done = [c \in Calls |-> "none"]
  /\ got = [c \in Calls |-> "none"]

Begin(c) ==
  /\ pending = NoCall
  /\ c \notin open
  /\ pending' = c
  /\ open' = open \cup {c}
  /\ done' = [done EXCEPT ![c] = "none"]
  /\ got' = [got EXCEPT ![c] = "none"]

CarryOut(c, answer) ==
  /\ c \in open
  /\ open' = open \ {c}
  /\ done' = [done EXCEPT ![c] = answer]
  /\ UNCHANGED <<pending, got>>

\* Requests get lost, singly or with the server that held them.
Lose ==
  /\ open' \in SUBSET open
  /\ UNCHANGED <<pending, done, got>>

Return(c) ==
  /\ pending = c
  /\ done[c] # "none"
  /\ got' = [got EXCEPT ![c] = done[c]]
  /\ pending' = NoCall
  /\ UNCHANGED <<open, done>>

\* The caller gives up, which need not stop the call from being carried out.
GiveUp(c) ==
  /\ pending = c
  /\ got' = [got EXCEPT ![c] = "failed"]
  /\ pending' = NoCall
  /\ open' \in {open, open \ {c}}
  /\ UNCHANGED done

CallNext ==
  \/ Lose
  \/ \E c \in Calls :
       \/ Begin(c)
       \/ \E answer \in Answers : CarryOut(c, answer)
       \/ Return(c)
       \/ GiveUp(c)

CallSpec == CallInit /\ [][CallNext]_callVars

=============================================================================
