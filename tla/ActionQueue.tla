---------------------------- MODULE ActionQueue ----------------------------
(***************************************************************************)
(* lib/control_loop/action_queue.ex: the ordered sequence of actions that  *)
(* are still to be executed.  A plain value, not a process: the control    *)
(* loop owns every call site.                                              *)
(***************************************************************************)
EXTENDS Naturals, Sequences

\* Seeded defects, used only to show which property each one breaks.
EnqueueReplacing(q, chunk) == chunk
EnqueueAsElement(q, chunk) == Append(q, chunk)
RestUnpopped(q) == q

\* ActionQueue.new/0.
New == <<>>

\* ActionQueue.enqueue/2: the chunk goes after whatever is still queued.
Enqueue(q, chunk) == q \o chunk

\* ActionQueue.pop/1 on a non-empty queue returns {NextAction(q), Rest(q)}; on an
\* empty one it raises EmptyQueueError, so every use is guarded by Depth(q) > 0.
NextAction(q) == Head(q)
Rest(q) == Tail(q)

\* ActionQueue.depth/1.
Depth(q) == Len(q)

=============================================================================
