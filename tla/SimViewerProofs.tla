--------------------------- MODULE SimViewerProofs ---------------------------
(***************************************************************************)
(* No sync of SimViewer's window falls into a step, for any number of      *)
(* writes.  Inductive because each thread is inside MjData only while it   *)
(* owns the lock, and outside only a write that was broken off is half.    *)
(* And a serve loop told to stop takes one more request at most.           *)
(***************************************************************************)
EXTENDS SimViewer, TLAPS

\* A thread owns the lock exactly while it is between the lock and its payload.
LockOwnership ==
  /\ owner = "serve" <=> serve \in Accessing
  /\ owner = "main" <=> main = "syncing"

\* Only a write under way leaves the two halves of MjData apart, or one that was
\* broken off, by an exception or by the end of the process.
HalvesTogether ==
  data.pos # data.rest => serve = "written" \/ main = "exited" \/ data.pos \in torn

\* The bound on writes is respected by the write that is about to be made.
WriteInBound ==
  /\ serve \in {"locking", "writing"} /\ op \in Mutates => data.pos < MaxWrites
  /\ serve \in Writing => op \in Mutates

\* A serve loop that took a request after stop() does not poll again.
LeavesAfterLate ==
  late # 0 => late = 1 /\ stopping /\ serve \notin {"new", "polling"}

IInv ==
  TypeOK /\ LockOwnership /\ HalvesTogether /\ WriteInBound /\ NoSyncInsideWrite
    /\ LeavesAfterLate

\* The invariant holds in the initial state.
LEMMA InitIInv == Init => IInv
<1> SUFFICES ASSUME Init PROVE IInv
  OBVIOUS
<1> USE DEF Init
<1>1. TypeOK
  <2>1. 0 \in 0..MaxWrites
    BY ViewerAssumption
  <2>2. /\ data \in [pos : 0..MaxWrites, rest : 0..MaxWrites]
        /\ shown \in [pos : 0..MaxWrites, rest : 0..MaxWrites]
    BY <2>1
  <2>3. late \in Nat
    OBVIOUS
  <2> QED
    BY <2>2, <2>3, Zenon DEF TypeOK, Serving, Accessing, Writing, Mutates
<1>2. LockOwnership
  BY DEF LockOwnership, Accessing, Writing
<1>3. HalvesTogether /\ WriteInBound /\ NoSyncInsideWrite /\ LeavesAfterLate
  BY DEF LeavesAfterLate, HalvesTogether, WriteInBound, NoSyncInsideWrite, Writing
<1> QED
  BY <1>1, <1>2, <1>3 DEF IInv

\* Every step keeps the invariant, as a step of the serve thread, a step of the
\* main thread, or the user closing the window.
LEMMA NextIInv == IInv /\ [Next]_vars => IInv'
<1> SUFFICES ASSUME IInv, [Next]_vars PROVE IInv'
  OBVIOUS
<1> USE ViewerAssumption
    DEF IInv, TypeOK, LockOwnership, HalvesTogether, WriteInBound,
        NoSyncInsideWrite, LeavesAfterLate, Accessing, Writing, Serving, Mutates,
        mainVars, serveVars
<1>1. CASE \E o \in Mutates \cup {"render"} : Take(o)
  BY <1>1 DEF Take
<1>2. CASE Bind
  BY <1>2 DEF Bind
<1>3. CASE Lock
  BY <1>3 DEF Lock
<1>4. CASE Write
  BY <1>4 DEF Write
<1>5. CASE WriteRest
  BY <1>5 DEF WriteRest
<1>6. CASE Read
  BY <1>6 DEF Read
<1>7. CASE OpRaises
  BY <1>7 DEF OpRaises
<1>8. CASE ServeReply
  BY <1>8 DEF ServeReply
<1>9. CASE PollNoticesStop
  BY <1>9 DEF PollNoticesStop
<1>10. CASE Ready \/ NeverReady \/ CheckWindow
  BY <1>10 DEF Ready, NeverReady, CheckWindow
<1>11. CASE LockForSync
  BY <1>11 DEF LockForSync
<1>12. CASE Sync
  BY <1>12 DEF Sync
<1>13. CASE StopServer \/ Join \/ CloseEnv
  BY <1>13 DEF StopServer, Join, CloseEnv
<1>14. CASE Exit
  BY <1>14 DEF Exit
<1>15. CASE Interrupt
  BY <1>15 DEF Interrupt
<1>16. CASE UserClosesWindow
  BY <1>16 DEF UserClosesWindow
<1>17. CASE UNCHANGED vars
  BY <1>17 DEF vars
<1> QED
  BY <1>1, <1>2, <1>3, <1>4, <1>5, <1>6, <1>7, <1>8, <1>9, <1>10, <1>11, <1>12,
     <1>13, <1>14, <1>15, <1>16, <1>17 DEF Next, ServeNext, MainNext

\* No sync falls into a step (env.py:121-123): what is half shown was left half
\* by an exception.
THEOREM NoSyncInsideWriteHolds == Spec => []NoSyncInsideWrite
<1>1. IInv => NoSyncInsideWrite
  BY DEF IInv
<1> QED
  BY InitIInv, NextIInv, <1>1, PTL DEF Spec

\* After stop() at most one more request is carried out: the serve loop reads the
\* flag after every reply (server.py, serve_forever).
THEOREM StopTakesOneMoreHolds == Spec => []StopTakesOneMore
<1>1. IInv => StopTakesOneMore
  BY DEF IInv, TypeOK, LeavesAfterLate, StopTakesOneMore
<1> QED
  BY InitIInv, NextIInv, <1>1, PTL DEF Spec

=============================================================================
