-------------------------------- MODULE Bridge --------------------------------
(***************************************************************************)
(* Core 1's bridge task (bridge_task of main_core1_bridge.c) between the   *)
(* shared-memory rings and the USB CDC port, with the two parties it waits *)
(* for: Core 0, which fills the DATA and LOG rings and drains the CMD      *)
(* ring, and the USB host.                                                 *)
(*                                                                         *)
(* The rings are the queues IpcRing is shown to implement.  Core 0's loop  *)
(* and the host live outside the repository; what is assumed of Core 0 is  *)
(* what the architecture notes say of the rings: DATA blocks its producer  *)
(* when full, LOG drops, and CMD is drained by the same loop that produces *)
(* DATA.                                                                   *)
(*                                                                         *)
(* A SERIAL_BYTES message carries PayloadBytes bytes of the stream, byte i *)
(* of message n being <<n, i>>; the other kinds are dispatched inside      *)
(* Core 1.                                                                 *)
(***************************************************************************)
EXTENDS Naturals, Sequences, SequencesExt

CONSTANTS
  DataSlots,     (* Slots of the DATA ring (32).                             *)
  LogSlots,      (* Slots of the LOG ring (16).                              *)
  CmdSlots,      (* Slots of the CMD ring (32).                              *)
  CdcTx,         (* Size of TinyUSB's CDC IN fifo, in bytes.                 *)
  PayloadBytes,  (* Bytes of a SERIAL_BYTES payload.                         *)
  Kinds,         (* The kinds of DATA messages Core 0 sends.                 *)
  MaxData,       (* Bound: DATA messages Core 0 sends.                       *)
  MaxHost        (* Bound: commands the host writes.                         *)

AllKinds == {"SERIAL_BYTES", "NODE_UPDATE", "TX_ACK", "RX_TEXT", "REBOOT_NOTIFY", "other"}

ASSUME BridgeAssumption ==
  /\ {DataSlots, CmdSlots, CdcTx, PayloadBytes} \subseteq Nat \ {0}
  /\ {LogSlots, MaxData, MaxHost} \subseteq Nat
  /\ Kinds \subseteq AllKinds

VARIABLES
  dataRing,  (* The messages in the DATA ring, by number.                   *)
  logRing,   (* How many lines are in the LOG ring.                         *)
  cmdRing,   (* The commands in the CMD ring.                               *)
  bell,      (* IPC_DOORBELL_NUM is pending at Core 1.                      *)
  notified,  (* NOTIFY_BIT_IPC of the bridge task.                          *)
  pc,        (* Where the bridge task is in its loop.                       *)
  didWork,   (* did_work                                                    *)
  rest,      (* The bytes of scratch still to be written to CDC.            *)
  held,      (* The bytes read from CDC that wait for a CMD slot.           *)
  mounted,   (* tud_mounted()                                               *)
  client,    (* Whether a program on the host has the port open and reads.  *)
  cdcIn,     (* The CDC IN fifo, towards the host.                          *)
  cdcOut,    (* The CDC OUT fifo, from the host.                            *)
  core0,     (* Core 0: "runs", "rings" the doorbell, or waits for a slot.  *)
  sent,      (* The DATA messages sent so far, their kinds in order.        *)
  handled,   (* How many of them the bridge task has dispatched or written. *)
  received,  (* The bytes the host has received.                            *)
  dropped,   (* Whether bytes were dropped because the host had gone.       *)
  typed,     (* How many commands the host has written.                     *)
  executed   (* The commands Core 0 has popped, in order.                   *)

ringVars == <<dataRing, logRing, cmdRing, bell>>
taskVars == <<notified, pc, didWork, rest, held>>
usbVars == <<mounted, client, cdcIn, cdcOut>>
core0Vars == <<core0, sent, executed>>
vars == <<dataRing, logRing, cmdRing, bell, notified, pc, didWork, rest, held,
          mounted, client, cdcIn, cdcOut, core0, sent, handled, received, dropped,
          typed, executed>>

(* The bytes of SERIAL_BYTES message n, none for any other message. *)
Bytes(n) ==
  IF sent[n] = "SERIAL_BYTES" THEN [i \in 1 .. PayloadBytes |-> <<n, i>>] ELSE <<>>

StreamOf(numbers) == FlattenSeq([i \in 1 .. Len(numbers) |-> Bytes(numbers[i])])

UpTo(n) == [i \in 1 .. n |-> i]

TypeOK ==
  /\ dataRing \in Seq(1 .. MaxData) /\ Len(dataRing) <= DataSlots
  /\ logRing \in 0 .. LogSlots
  /\ cmdRing \in Seq(Seq(1 .. MaxHost)) /\ Len(cmdRing) <= CmdSlots
  /\ {bell, notified, didWork, mounted, client, dropped} \subseteq BOOLEAN
  /\ pc \in {"top", "write", "out", "push", "wait", "reboot"}
  /\ Len(rest) <= PayloadBytes /\ Len(cdcIn) <= CdcTx
  /\ core0 \in {"runs", "rings", "blocked"}
  /\ sent \in Seq(Kinds) /\ Len(sent) <= MaxData
  /\ handled \in 0 .. MaxData
  /\ typed \in 0 .. MaxHost
  /\ \A s \in {held, cdcOut, executed} : s \in Seq(1 .. MaxHost)

Init ==
  /\ dataRing = <<>> /\ logRing = 0 /\ cmdRing = <<>> /\ bell = FALSE
  /\ notified = FALSE /\ pc = "top" /\ didWork = FALSE
  /\ rest = <<>> /\ held = <<>>
  /\ mounted = TRUE /\ client \in BOOLEAN /\ cdcIn = <<>> /\ cdcOut = <<>>
  /\ core0 = "runs" /\ sent = <<>> /\ executed = <<>>
  /\ handled = 0 /\ received = <<>> /\ dropped = FALSE /\ typed = 0

-----------------------------------------------------------------------------
(* bridge_task                                                             *)

(* The DATA ring is popped first.  Structured messages are handed to the   *)
(* node database, the TX status or the inbox and the loop starts over.     *)
Dispatch ==
  /\ pc = "top"
  /\ dataRing # <<>>
  /\ sent[Head(dataRing)] \in {"NODE_UPDATE", "TX_ACK", "RX_TEXT"}
  /\ dataRing' = Tail(dataRing)
  /\ handled' = Head(dataRing)
  /\ UNCHANGED <<logRing, cmdRing, bell, taskVars, usbVars, core0Vars, received,
                 dropped, typed>>

IgnoreOther ==
  /\ pc = "top"
  /\ dataRing # <<>>
  /\ sent[Head(dataRing)] = "other"
  /\ dataRing' = Tail(dataRing)
  /\ handled' = Head(dataRing)
  /\ didWork' = TRUE
  /\ pc' = "out"
  /\ UNCHANGED <<logRing, cmdRing, bell, notified, rest, held, usbVars, core0Vars,
                 received, dropped, typed>>

(* Core 0 is about to reset the chip: leave the bus, stop everything. *)
RebootNotified ==
  /\ pc = "top"
  /\ dataRing # <<>>
  /\ sent[Head(dataRing)] = "REBOOT_NOTIFY"
  /\ dataRing' = Tail(dataRing)
  /\ handled' = Head(dataRing)
  /\ pc' = "reboot"
  /\ mounted' = FALSE
  /\ UNCHANGED <<logRing, cmdRing, bell, notified, didWork, rest, held, client, cdcIn,
                 cdcOut, core0Vars, received, dropped, typed>>

TakeSerial ==
  /\ pc = "top"
  /\ dataRing # <<>>
  /\ sent[Head(dataRing)] = "SERIAL_BYTES"
  /\ dataRing' = Tail(dataRing)
  /\ rest' = Bytes(Head(dataRing))
  /\ pc' = "write"
  /\ UNCHANGED <<logRing, cmdRing, bell, notified, didWork, held, usbVars, core0Vars,
                 handled, received, dropped, typed>>

(* As many bytes as the fifo takes; when it is full the task yields and    *)
(* tries again.                                                            *)
WriteChunk ==
  /\ pc = "write"
  /\ mounted
  /\ rest # <<>>
  /\ Len(cdcIn) < CdcTx
  /\ LET n == IF Len(rest) < CdcTx - Len(cdcIn) THEN Len(rest) ELSE CdcTx - Len(cdcIn)
     IN  /\ cdcIn' = cdcIn \o SubSeq(rest, 1, n)
         /\ rest' = SubSeq(rest, n + 1, Len(rest))
  /\ UNCHANGED <<ringVars, notified, pc, didWork, held, mounted, client, cdcOut, core0Vars,
                 handled, received, dropped, typed>>

\* Mutants: a full fifo ends the payload, as it once did; an absent host does not.
WriteGivesUp ==
  /\ pc = "write"
  /\ rest = <<>> \/ ~mounted \/ Len(cdcIn) = CdcTx
  /\ dropped' = (dropped \/ (~mounted /\ rest # <<>>))
  /\ rest' = <<>>
  /\ handled' = handled + 1
  /\ didWork' = TRUE
  /\ pc' = "out"
  /\ UNCHANGED <<ringVars, notified, held, usbVars, core0Vars, received, typed>>

WriteNeverGivesUp ==
  /\ pc = "write"
  /\ rest = <<>>
  /\ handled' = handled + 1
  /\ didWork' = TRUE
  /\ pc' = "out"
  /\ UNCHANGED <<ringVars, notified, rest, held, usbVars, core0Vars, received, dropped,
                 typed>>

(* The payload is written, or the host is gone and the rest is dropped. *)
WriteEnds ==
  /\ pc = "write"
  /\ rest = <<>> \/ ~mounted
  /\ dropped' = (dropped \/ rest # <<>>)
  /\ rest' = <<>>
  /\ handled' = handled + 1
  /\ didWork' = TRUE
  /\ pc' = "out"
  /\ UNCHANGED <<ringVars, notified, held, usbVars, core0Vars, received, typed>>

(* With the DATA ring empty, one line of the LOG ring is dropped; that     *)
(* does not count as work.                                                 *)
DrainLog ==
  /\ pc = "top"
  /\ dataRing = <<>>
  /\ logRing' = IF logRing > 0 THEN logRing - 1 ELSE 0
  /\ didWork' = FALSE
  /\ pc' = "out"
  /\ UNCHANGED <<dataRing, cmdRing, bell, notified, rest, held, usbVars, core0Vars,
                 handled, received, dropped, typed>>

ReadCdc ==
  /\ pc = "out"
  /\ cdcOut # <<>>
  /\ held' = cdcOut
  /\ cdcOut' = <<>>
  /\ pc' = "push"
  /\ UNCHANGED <<ringVars, notified, didWork, rest, mounted, client, cdcIn, core0Vars,
                 handled, received, dropped, typed>>

NothingToRead ==
  /\ pc = "out"
  /\ cdcOut = <<>>
  /\ pc' = IF didWork THEN "top" ELSE "wait"
  /\ UNCHANGED <<ringVars, notified, didWork, rest, held, usbVars, core0Vars, handled,
                 received, dropped, typed>>

\* Mutant: the result of the push is ignored.
PushOrLose ==
  /\ pc = "push"
  /\ cmdRing' = IF Len(cmdRing) < CmdSlots THEN Append(cmdRing, held) ELSE cmdRing
  /\ held' = <<>>
  /\ pc' = "top"
  /\ UNCHANGED <<dataRing, logRing, bell, notified, didWork, rest, usbVars, core0Vars,
                 handled, received, dropped, typed>>

(* When the CMD ring is full the task sleeps a tick and tries again. *)
PushCommand ==
  /\ pc = "push"
  /\ Len(cmdRing) < CmdSlots
  /\ cmdRing' = Append(cmdRing, held)
  /\ held' = <<>>
  /\ pc' = "top"
  /\ UNCHANGED <<dataRing, logRing, bell, notified, didWork, rest, usbVars, core0Vars,
                 handled, received, dropped, typed>>

\* Mutant: the wait has no timeout.
WaitForDoorbell ==
  /\ pc = "wait"
  /\ notified
  /\ notified' = FALSE
  /\ pc' = "top"
  /\ UNCHANGED <<ringVars, didWork, rest, held, usbVars, core0Vars, handled, received,
                 dropped, typed>>

(* xTaskNotifyWait returns: the bit is set, or 10 ms are over. *)
WaitEnds ==
  /\ pc = "wait"
  /\ notified' = FALSE
  /\ pc' = "top"
  /\ UNCHANGED <<ringVars, didWork, rest, held, usbVars, core0Vars, handled, received,
                 dropped, typed>>

BridgeTask ==
  \/ Dispatch \/ IgnoreOther \/ RebootNotified \/ TakeSerial
  \/ WriteChunk \/ WriteEnds \/ DrainLog
  \/ ReadCdc \/ NothingToRead \/ PushCommand \/ WaitEnds

(* ipc_doorbell_isr *)
DoorbellIsr ==
  /\ bell
  /\ bell' = FALSE
  /\ notified' = TRUE
  /\ UNCHANGED <<dataRing, logRing, cmdRing, pc, didWork, rest, held, usbVars, core0Vars,
                 handled, received, dropped, typed>>

-----------------------------------------------------------------------------
(* Core 0 *)

(* A message is due; with the ring full Core 0 waits for a slot. *)
Core0Sends(kind) ==
  /\ core0 = "runs"
  /\ Len(sent) < MaxData
  /\ sent' = Append(sent, kind)
  /\ core0' = "blocked"
  /\ UNCHANGED <<ringVars, taskVars, usbVars, executed, handled, received, dropped, typed>>

Core0GetsSlot ==
  /\ core0 = "blocked"
  /\ Len(dataRing) < DataSlots
  /\ dataRing' = Append(dataRing, Len(sent))
  /\ core0' = "rings"
  /\ UNCHANGED <<logRing, cmdRing, bell, taskVars, usbVars, sent, executed, handled,
                 received, dropped, typed>>

Core0Rings ==
  /\ core0 = "rings"
  /\ bell' = TRUE
  /\ core0' = "runs"
  /\ UNCHANGED <<dataRing, logRing, cmdRing, taskVars, usbVars, sent, executed, handled,
                 received, dropped, typed>>

Core0Logs ==
  /\ core0 = "runs"
  /\ logRing < LogSlots
  /\ logRing' = logRing + 1
  /\ UNCHANGED <<dataRing, cmdRing, bell, taskVars, usbVars, core0Vars, handled, received,
                 dropped, typed>>

Core0Executes ==
  /\ core0 = "runs"
  /\ cmdRing # <<>>
  /\ executed' = executed \o Head(cmdRing)
  /\ cmdRing' = Tail(cmdRing)
  /\ UNCHANGED <<dataRing, logRing, bell, taskVars, usbVars, core0, sent, handled,
                 received, dropped, typed>>

Core0 == Core0GetsSlot \/ Core0Rings \/ Core0Executes

-----------------------------------------------------------------------------
(* The host and the USB device task *)

HostReads ==
  /\ mounted /\ client
  /\ cdcIn # <<>>
  /\ received' = Append(received, Head(cdcIn))
  /\ cdcIn' = Tail(cdcIn)
  /\ UNCHANGED <<ringVars, taskVars, mounted, client, cdcOut, core0Vars, handled, dropped,
                 typed>>

HostWrites ==
  /\ mounted /\ client
  /\ typed < MaxHost
  /\ typed' = typed + 1
  /\ cdcOut' = Append(cdcOut, typed + 1)
  /\ UNCHANGED <<ringVars, taskVars, mounted, client, cdcIn, core0Vars, handled, received,
                 dropped>>

(* A program opens the port, or closes it and leaves the device mounted:   *)
(* the task asks for tud_mounted(), not for tud_cdc_connected().           *)
ClientComesOrGoes ==
  /\ mounted
  /\ client' = ~client
  /\ UNCHANGED <<ringVars, taskVars, mounted, cdcIn, cdcOut, core0Vars, handled, received,
                 dropped, typed>>

(* The cable is pulled: what is in the IN fifo never reaches the host. *)
HostLeaves ==
  /\ mounted
  /\ mounted' = FALSE
  /\ dropped' = TRUE
  /\ cdcIn' = <<>>
  /\ UNCHANGED <<ringVars, taskVars, client, cdcOut, core0Vars, handled, received, typed>>

-----------------------------------------------------------------------------
Next ==
  \/ BridgeTask \/ DoorbellIsr
  \/ Core0 \/ Core0Logs \/ \E kind \in Kinds : Core0Sends(kind)
  \/ HostReads \/ HostWrites \/ ClientComesOrGoes \/ HostLeaves

(* The bridge task and the ISR run; Core 0's loop comes round; a client    *)
(* reads the port while it has it open.  Nobody must open it or send.      *)
Fairness ==
  /\ WF_vars(BridgeTask) /\ WF_vars(DoorbellIsr)
  /\ WF_vars(Core0GetsSlot) /\ WF_vars(Core0Rings) /\ WF_vars(Core0Executes)
  /\ WF_vars(HostReads)

Spec == Init /\ [][Next]_vars /\ Fairness

-----------------------------------------------------------------------------
Rebooted == pc = "reboot"

(* The DATA messages still on their way: the one Core 0 holds, those in    *)
(* the ring, the one the task is writing.                                  *)
InRing == IF core0 = "blocked" THEN Append(dataRing, Len(sent)) ELSE dataRing

(* As long as the host stays, every byte of the stream is in one place     *)
(* only and the places follow one another in the order of sending, so what *)
(* the host reads never loses its framing.  "If we drop ANY byte mid-frame *)
(* here, every subsequent frame on the wire desynchronises."               *)
StreamInOrder ==
  ~dropped => received \o cdcIn \o rest \o StreamOf(InRing) = StreamOf(UpTo(Len(sent)))

(* Every DATA message is dispatched once, in order, and none after the     *)
(* announcement of a reboot.                                               *)
DispatchedInOrder ==
  /\ (IF pc = "write" THEN <<handled + 1>> ELSE <<>>) \o InRing
       = [i \in 1 .. Len(sent) - handled |-> handled + i]
  /\ \A n \in 1 .. handled - 1 : sent[n] # "REBOOT_NOTIFY"

(* Every command the host writes reaches Core 0 once and in order. *)
CommandsInOrder ==
  executed \o FlattenSeq(cmdRing) \o held \o cdcOut = UpTo(typed)

(* main_core1_bridge.c: nothing the task handles from the DATA ring is lost, *)
(* repeated or overtaken, whoever else fills the fifo.                     *)
BridgeInv == TypeOK /\ StreamInOrder /\ DispatchedInOrder

(* Each side holds what the other one waits for: the task a command for    *)
(* the full CMD ring, Core 0 a message for the full DATA ring.             *)
CircularWait ==
  /\ pc = "push" /\ Len(cmdRing) = CmdSlots
  /\ core0 = "blocked" /\ Len(dataRing) = DataSlots

(* Nobody reads the port of a device that is mounted. *)
Unread == mounted /\ ~client

(* What the host writes reaches Core 0, "if the ring is full, we spin      *)
(* until Core 0 drains", unless the two wait for each other: no order of   *)
(* the other steps, no missed doorbell and no slow host keeps a command,   *)
(* though a port that is not read keeps it until it is read again.         *)
CommandsAreExecuted ==
  \A n \in 1 .. MaxHost :
    typed >= n ~> Len(executed) >= n \/ Rebooted \/ CircularWait \/ Unread

(* Whatever Core 0 sends is dispatched on some day, until the reboot: no   *)
(* backlog of log lines, full fifo or missed doorbell holds it up for      *)
(* ever, also after the port was left unread for a time or its device was  *)
(* unplugged, provided the two cores do not wait for each other.           *)
DataIsHandled ==
  \A n \in 1 .. MaxData :
    Len(sent) >= n ~> handled >= n \/ Rebooted \/ CircularWait \/ Unread

(* main_core1_bridge.c:48: "rely on a bounded FIFO-full retry to drop      *)
(* bursts when no client is actually reading": also on a mounted port that *)
(* nobody ever reads, what Core 0 sends is handled.  This does not hold:   *)
(* the retry has no bound, and the task never gets past the burst.         *)
UnreadBurstsAreDropped ==
  []~client => \A n \in 1 .. MaxData : Len(sent) >= n ~> handled >= n \/ Rebooted

(* "if the ring is full, we spin until Core 0 drains": it does drain; the  *)
(* rings never block each other for good.  This does not hold.             *)
NoCircularWait == ~CircularWait
==============================================================================
