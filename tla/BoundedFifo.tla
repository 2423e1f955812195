----------------------------- MODULE BoundedFifo -----------------------------
(***************************************************************************)
(* What a ring of shared/ipc promises its users: a first-in first-out      *)
(* queue of at most Capacity items.  A push is accepted only while there   *)
(* is room, becomes visible to the consumer later, whole and at the end of *)
(* the queue, and a pop delivers the oldest item, whole and once.          *)
(* IpcRing is shown to implement this specification.                       *)
(***************************************************************************)
EXTENDS Naturals, Sequences

CONSTANTS
  Producers, (* The callers of ipc_ring_push.                         *)
  Items,     (* The items the queue carries.                          *)
  Capacity,  (* The largest number of items queued at any time.       *)
  Nothing    (* No item: nothing accepted, or nothing delivered yet.  *)

VARIABLES
  pending,   (* The item each producer has had accepted and not yet queued. *)
  queue,     (* The items queued, oldest first.                             *)
  out        (* The last item delivered to the consumer.                    *)

fifoVars == <<pending, queue, out>>

FifoInit ==
  /\ pending = [p \in Producers |-> Nothing]
  /\ queue = <<>>
  /\ out = Nothing

(* There is room, and the push of item is bound to succeed. *)
Accept(p, item) ==
  /\ pending[p] = Nothing
  /\ Len(queue) < Capacity
  /\ pending' = [pending EXCEPT ![p] = item]
  /\ UNCHANGED <<queue, out>>

(* The accepted item becomes the newest of the queue. *)
Commit(p) ==
  /\ pending[p] \in Items
  /\ queue' = Append(queue, pending[p])
  /\ pending' = [pending EXCEPT ![p] = Nothing]
  /\ UNCHANGED out

(* The oldest item leaves the queue. *)
Deliver ==
  /\ queue # <<>>
  /\ out' = Head(queue)
  /\ queue' = Tail(queue)
  /\ UNCHANGED pending

FifoNext ==
  \/ \E p \in Producers : Commit(p) \/ \E item \in Items : Accept(p, item)
  \/ Deliver

FifoSpec == FifoInit /\ [][FifoNext]_fifoVars
==============================================================================
