------------------------------- MODULE IpcRing -------------------------------
(***************************************************************************)
(* One ring of the shared-SRAM transport: shared/ipc/ipc_ringbuf.c, called *)
(* by its producers and by its one consumer, which run on different cores  *)
(* (or, for the producers, in different tasks of one core).                *)
(*                                                                         *)
(* Every access to a word the other side reads or writes is a step of its  *)
(* own: the load of the other side's index, the write of the slot's        *)
(* header, the copy of the payload, the release-store of one's own index.  *)
(* The acquire/release pairs on head and tail make these steps visible in  *)
(* program order, so the steps interleave.                                 *)
(*                                                                         *)
(* A message stands for its header (msg_id, seq, payload_len) and, when    *)
(* payload_len > 0, for its payload.  head and tail are unsigned words:    *)
(* they wrap at IndexModulus.                                              *)
(***************************************************************************)
EXTENDS Integers, FiniteSets

CONSTANTS
  Producers,     (* The callers of ipc_ring_push on this ring.               *)
  Msgs,          (* The messages they push.                                  *)
  Bare,          (* Those with payload_len = 0: no payload byte is copied.   *)
  Oversize,      (* Those with payload_len > IPC_MSG_PAYLOAD_MAX.            *)
  SlotCount,     (* slot_count: IPC_RING_SLOT_COUNT, IPC_LOG_RING_SLOT_COUNT *)
  IndexModulus,  (* 2^32: the number of values of a uint32_t.                *)
  NoMsg          (* The contents of the zeroed shared SRAM.                  *)

(* 32 and 16 both divide 2^32; were this not so, head % slot_count would   *)
(* jump when head wraps.                                                   *)
ASSUME RingSizeAssumption ==
  /\ SlotCount \in Nat \ {0}
  /\ IndexModulus \in Nat
  /\ SlotCount < IndexModulus
  /\ IndexModulus % SlotCount = 0

ASSUME MsgAssumption ==
  /\ Bare \subseteq Msgs
  /\ Oversize \subseteq Msgs
  /\ NoMsg \notin Msgs

VARIABLES
  head, tail,  (* ctrl->head and ctrl->tail.                                *)
  overflow,    (* ctrl->overflow.                                           *)
  slots,       (* The slot array: each slot's header and payload.           *)
  pushPc,      (* Where each producer is in ipc_ring_push.                  *)
  pushMsg,     (* The message it is pushing.                                *)
  pushHead,    (* Its local copy of head.                                   *)
  popPc,       (* Where the consumer is in ipc_ring_pop.                    *)
  popSlot,     (* What it has copied to header_out and payload_out.         *)
  delivered    (* What the last ipc_ring_pop that returned true handed out. *)

ctrl == <<head, tail, overflow>>
pushVars == <<pushPc, pushMsg, pushHead>>
popVars == <<popPc, popSlot, delivered>>
vars == <<head, tail, overflow, slots, pushPc, pushMsg, pushHead,
          popPc, popSlot, delivered>>

Indices == 0 .. IndexModulus - 1

(* Unsigned arithmetic on the indices, and the slot an index denotes. *)
Advance(index) == (index + 1) % IndexModulus
Distance(from, to) == (to - from) % IndexModulus
SlotOf(index) == index % SlotCount

Slot == [header : Msgs \cup {NoMsg}, payload : Msgs \cup {NoMsg}]
EmptySlot == [header |-> NoMsg, payload |-> NoMsg]

(* The message the consumer gets out of a slot: the payload counts only    *)
(* when the header announces one.                                          *)
Contents(slot) ==
  [header  |-> slot.header,
   payload |-> IF slot.header \in Bare THEN NoMsg ELSE slot.payload]

(* A message that arrived whole. *)
Whole(m) == [header |-> m, payload |-> IF m \in Bare THEN NoMsg ELSE m]

TypeOK ==
  /\ head \in Indices /\ tail \in Indices
  /\ overflow \in Indices
  /\ slots \in [0 .. SlotCount - 1 -> Slot]
  /\ pushPc \in [Producers -> {"idle", "header", "payload", "publish"}]
  /\ pushMsg \in [Producers -> Msgs \cup {NoMsg}]
  /\ pushHead \in [Producers -> Indices]
  /\ popPc \in {"idle", "header", "payload", "release"}
  /\ popSlot \in Slot
  /\ delivered \in Slot

(* ipc_shared_init zeroes the layout before either side uses it. *)
Init ==
  /\ head = 0 /\ tail = 0 /\ overflow = 0
  /\ slots = [i \in 0 .. SlotCount - 1 |-> EmptySlot]
  /\ pushPc = [p \in Producers |-> "idle"]
  /\ pushMsg = [p \in Producers |-> NoMsg]
  /\ pushHead = [p \in Producers |-> 0]
  /\ popPc = "idle"
  /\ popSlot = EmptySlot
  /\ delivered = EmptySlot

-----------------------------------------------------------------------------
(* ipc_ring_push *)

\* Mutant: a signed difference of the raw indices.
IsFullSigned == head - tail >= SlotCount

IsFull == Distance(tail, head) >= SlotCount

(* The push returns false: the payload is too long, or the ring was full   *)
(* when tail was loaded.                                                   *)
PushFails(p, m) ==
  /\ pushPc[p] = "idle"
  /\ m \in Oversize \/ IsFull
  /\ overflow' = (overflow + 1) % IndexModulus
  /\ UNCHANGED <<head, tail, slots, pushVars, popVars>>

(* The load of head and the acquire-load of tail, and the test for room. *)
PushBegins(p, m) ==
  /\ pushPc[p] = "idle"
  /\ m \notin Oversize
  /\ ~IsFull
  /\ pushPc' = [pushPc EXCEPT ![p] = "header"]
  /\ pushMsg' = [pushMsg EXCEPT ![p] = m]
  /\ pushHead' = [pushHead EXCEPT ![p] = head]
  /\ UNCHANGED <<ctrl, slots, popVars>>

WriteHeader(p) ==
  /\ pushPc[p] = "header"
  /\ slots' = [slots EXCEPT ![SlotOf(pushHead[p])].header = pushMsg[p]]
  /\ pushPc' = [pushPc EXCEPT ![p] =
                  IF pushMsg[p] \in Bare THEN "publish" ELSE "payload"]
  /\ UNCHANGED <<ctrl, pushMsg, pushHead, popVars>>

WritePayload(p) ==
  /\ pushPc[p] = "payload"
  /\ slots' = [slots EXCEPT ![SlotOf(pushHead[p])].payload = pushMsg[p]]
  /\ pushPc' = [pushPc EXCEPT ![p] = "publish"]
  /\ UNCHANGED <<ctrl, pushMsg, pushHead, popVars>>

(* The release-store of head; the push returns true. *)
Publish(p) ==
  /\ pushPc[p] = "publish"
  /\ head' = Advance(pushHead[p])
  /\ pushPc' = [pushPc EXCEPT ![p] = "idle"]
  /\ UNCHANGED <<tail, overflow, slots, pushMsg, pushHead, popVars>>

Push(p) ==
  \/ \E m \in Msgs : PushFails(p, m) \/ PushBegins(p, m)
  \/ WriteHeader(p) \/ WritePayload(p) \/ Publish(p)

-----------------------------------------------------------------------------
(* ipc_ring_pop.  On an empty ring it returns false and changes nothing.   *)

\* Mutant: the empty test is forgotten.
PopBeginsUnchecked ==
  /\ popPc = "idle"
  /\ popPc' = "header"
  /\ UNCHANGED <<ctrl, slots, pushVars, popSlot, delivered>>

(* The acquire-load of head found a message. *)
PopBegins ==
  /\ popPc = "idle"
  /\ head # tail
  /\ popPc' = "header"
  /\ UNCHANGED <<ctrl, slots, pushVars, popSlot, delivered>>

CopyHeader ==
  /\ popPc = "header"
  /\ popSlot' = [header |-> slots[SlotOf(tail)].header, payload |-> NoMsg]
  /\ popPc' = IF popSlot'.header \in Bare THEN "release" ELSE "payload"
  /\ UNCHANGED <<ctrl, slots, pushVars, delivered>>

CopyPayload ==
  /\ popPc = "payload"
  /\ popSlot' = [popSlot EXCEPT !.payload = slots[SlotOf(tail)].payload]
  /\ popPc' = "release"
  /\ UNCHANGED <<ctrl, slots, pushVars, delivered>>

(* The release-store of tail; the pop returns true. *)
Release ==
  /\ popPc = "release"
  /\ tail' = Advance(tail)
  /\ delivered' = popSlot
  /\ popPc' = "idle"
  /\ UNCHANGED <<head, overflow, slots, pushVars, popSlot>>

Pop == PopBegins \/ CopyHeader \/ CopyPayload \/ Release

-----------------------------------------------------------------------------
Next == (\E p \in Producers : Push(p)) \/ Pop

Spec == Init /\ [][Next]_vars

-----------------------------------------------------------------------------
(* The n-th oldest message in the ring, counting from 1. *)
Pending == Distance(tail, head)
QueuedIndex(n) == (tail + n - 1) % IndexModulus
QueuedSlot(n) == slots[SlotOf(QueuedIndex(n))]

(* A producer between its test for room and its release-store of head. *)
Pushing(p) == pushPc[p] # "idle"

(* Every message published and not yet released is still in its slot,      *)
(* header and payload together: no push, however far the indices have      *)
(* wrapped, writes into a slot the consumer has yet to read.               *)
QueuedWhole ==
  /\ Pending <= SlotCount
  /\ \A n \in 1 .. Pending : \E m \in Msgs \ Oversize :
       Contents(QueuedSlot(n)) = Whole(m)

(* No message reaches the consumer torn, with the header of one push and   *)
(* the payload of another.                                                 *)
DeliveredWhole ==
  delivered # EmptySlot => \E m \in Msgs \ Oversize : delivered = Whole(m)

(* The inductive invariant behind the two, with one producer: what the     *)
(* producer's and the consumer's local copies say of the slot they own.    *)
PushInv ==
  \A p \in Producers : Pushing(p) =>
    /\ pushHead[p] = head
    /\ pushMsg[p] \in Msgs \ Oversize
    /\ Pending < SlotCount
    /\ pushPc[p] = "payload" =>
         /\ pushMsg[p] \notin Bare
         /\ slots[SlotOf(head)].header = pushMsg[p]
    /\ pushPc[p] = "publish" =>
         Contents(slots[SlotOf(head)]) = Whole(pushMsg[p])

PopInv ==
  /\ popPc # "idle" => Pending >= 1
  /\ popPc = "payload" =>
       /\ popSlot = [header |-> slots[SlotOf(tail)].header, payload |-> NoMsg]
       /\ popSlot.header \notin Bare
  /\ popPc = "release" => popSlot = Contents(slots[SlotOf(tail)])

RingInv ==
  /\ TypeOK
  /\ QueuedWhole
  /\ DeliveredWhole
  /\ PushInv
  /\ PopInv

(* What the producer has under way and what is queued, for the consumer. *)
InPush == [p \in Producers |->
             IF Pushing(p) THEN Whole(pushMsg[p]) ELSE EmptySlot]
Queued == [n \in 1 .. Pending |-> Contents(QueuedSlot(n))]

(* The ring implements the bounded queue: what is queued is what lies      *)
(* between tail and head, a push takes effect at the store of head and a   *)
(* pop at the store of tail.                                               *)
Fifo == INSTANCE BoundedFifo WITH
  Items    <- {Whole(m) : m \in Msgs \ Oversize},
  Capacity <- SlotCount,
  Nothing  <- EmptySlot,
  pending  <- InPush,
  queue    <- Queued,
  out      <- delivered

ImplementsFifo == Fifo!FifoSpec
==============================================================================
