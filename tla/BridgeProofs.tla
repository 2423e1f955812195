----------------------------- MODULE BridgeProofs -----------------------------
(***************************************************************************)
(* Proofs about Bridge, for every size of the rings and of the fifo, and   *)
(* any number of messages of any kinds.                                    *)
(***************************************************************************)
EXTENDS Bridge, SequenceFacts

(* The message the task is writing to CDC, and the one Core 0 waits with.  *)
Writing == IF pc = "write" THEN 1 ELSE 0
Waiting == IF core0 = "blocked" THEN 1 ELSE 0

(* Every message is in one place, and the ring holds those that follow.    *)
Places ==
  /\ sent \in Seq(Kinds) /\ dataRing \in Seq(Nat) /\ handled \in Nat
  /\ handled + Writing + Len(dataRing) + Waiting = Len(sent)
  /\ \A i \in 1 .. Len(dataRing) : dataRing[i] = handled + Writing + i

(* The announcement of a reboot is the last message that is handled.       *)
Announced ==
  /\ \A n \in 1 .. handled - 1 : sent[n] # "REBOOT_NOTIFY"
  /\ handled > 0 /\ sent[handled] = "REBOOT_NOTIFY" => pc = "reboot"
  /\ pc = "write" => sent[handled + 1] # "REBOOT_NOTIFY"

(* The order of the messages: where they are, and where a reboot ends      *)
(* them.                                                                   *)
OrderInv == Places /\ Announced

(* The head of the ring is the next message, and the others follow it.     *)
LEMMA HeadIsNext ==
  ASSUME OrderInv, pc = "top", dataRing # <<>>
  PROVE  /\ Head(dataRing) = handled + 1 /\ handled + 1 \in 1 .. Len(sent)
         /\ Tail(dataRing) \in Seq(Nat) /\ Len(Tail(dataRing)) = Len(dataRing) - 1
         /\ \A i \in 1 .. Len(dataRing) - 1 : Tail(dataRing)[i] = handled + 1 + i
  <1>1. dataRing \in Seq(Nat) /\ Len(dataRing) \in Nat \ {0} /\ Head(dataRing) = dataRing[1]
    BY EmptySeq, HeadTailProperties DEF OrderInv, Places
  <1>2. /\ Tail(dataRing) \in Seq(Nat) /\ Len(Tail(dataRing)) = Len(dataRing) - 1
        /\ \A i \in 1 .. Len(dataRing) - 1 : Tail(dataRing)[i] = dataRing[i + 1]
    BY <1>1, HeadTailProperties
  <1> HIDE DEF Writing
  <1>3. Writing = 0 /\ Waiting \in {0, 1} /\ Len(sent) \in Nat
    BY LenProperties DEF OrderInv, Places, Writing, Waiting
  <1>4. \A i \in 1 .. Len(dataRing) : dataRing[i] = handled + i
    BY <1>3 DEF OrderInv, Places
  <1> QED BY <1>1, <1>2, <1>3, <1>4 DEF OrderInv, Places

(* The next message is taken from the ring and handled at once.            *)
LEMMA TakenAndHandled ==
  ASSUME OrderInv, pc = "top", dataRing # <<>>,
         dataRing' = Tail(dataRing), handled' = Head(dataRing),
         pc' # "write", sent[Head(dataRing)] = "REBOOT_NOTIFY" => pc' = "reboot",
         UNCHANGED <<sent, core0>>
  PROVE  OrderInv'
  <1>1. handled' = handled + 1 /\ Writing = 0 /\ Writing' = 0 /\ Waiting' = Waiting
    BY HeadIsNext DEF Writing, Waiting
  <1>2. Places'
    <2>1. /\ Waiting \in {0, 1} /\ handled \in Nat /\ Len(dataRing) \in Nat
          /\ handled + 0 + Len(dataRing) + Waiting = Len(sent) /\ sent \in Seq(Kinds)
      BY <1>1, LenProperties DEF OrderInv, Places, Waiting
    <2>2. /\ dataRing' \in Seq(Nat) /\ Len(dataRing') = Len(dataRing) - 1
          /\ \A i \in 1 .. Len(dataRing) - 1 : dataRing'[i] = handled + 1 + i
      BY HeadIsNext
    <2>3. \A i \in 1 .. Len(dataRing') : dataRing'[i] = handled' + Writing' + i
      BY <1>1, <2>1, <2>2
    <2>4. handled' + Writing' + Len(dataRing') + Waiting' = Len(sent')
      BY <1>1, <2>1, <2>2
    <2> QED BY <1>1, <2>1, <2>2, <2>3, <2>4 DEF Places
  <1>3. handled = 0 \/ sent[handled] # "REBOOT_NOTIFY"
    BY DEF OrderInv, Announced, Places
  <1>4. Announced'
    <2>1. handled \in Nat /\ \A n \in 1 .. handled - 1 : sent[n] # "REBOOT_NOTIFY"
      BY DEF OrderInv, Announced, Places
    <2>2. \A n \in 1 .. handled' - 1 : sent'[n] # "REBOOT_NOTIFY"
      BY <1>1, <1>3, <2>1
    <2> QED BY <2>2 DEF Announced
  <1> QED BY <1>2, <1>4 DEF OrderInv

(* What the task does apart from the messages of the DATA ring.            *)
LEMMA NoMessageMoves ==
  ASSUME OrderInv, UNCHANGED <<dataRing, handled, sent, core0>>,
         pc' = pc \/ {pc, pc'} \subseteq {"top", "out", "push", "wait"}
  PROVE  OrderInv'
  <1>1. Writing' = Writing /\ Waiting' = Waiting
    BY DEF Writing, Waiting
  <1> QED BY <1>1 DEF OrderInv, Places, Announced

(* The task: it takes messages from the ring and handles them.             *)
LEMMA BridgeTaskPreserves == OrderInv /\ BridgeTask => OrderInv'
  <1> SUFFICES ASSUME OrderInv, BridgeTask PROVE OrderInv'
    OBVIOUS
  <1>1. CASE Dispatch
    BY <1>1, TakenAndHandled, HeadIsNext DEF Dispatch, taskVars, core0Vars
  <1>2. CASE IgnoreOther
    BY <1>2, TakenAndHandled DEF IgnoreOther, core0Vars
  <1>3. CASE RebootNotified
    BY <1>3, TakenAndHandled DEF RebootNotified, core0Vars
  <1>4. CASE TakeSerial
    <2>1. /\ pc = "top" /\ dataRing # <<>> /\ pc' = "write"
          /\ dataRing' = Tail(dataRing) /\ sent[handled + 1] = "SERIAL_BYTES"
          /\ UNCHANGED <<handled, sent, core0>>
      BY <1>4, HeadIsNext DEF TakeSerial, core0Vars
    <2>2. Writing = 0 /\ Writing' = 1 /\ Waiting' = Waiting
      BY <2>1 DEF Writing, Waiting
    <2>3. Places'
      BY <2>1, <2>2, HeadIsNext DEF OrderInv, Places
    <2> QED BY <2>1, <2>3 DEF OrderInv, Announced
  <1>5. CASE WriteEnds
    <2>1. pc = "write" /\ pc' = "out" /\ handled' = handled + 1
          /\ UNCHANGED <<dataRing, sent, core0>>
      BY <1>5 DEF WriteEnds, ringVars, core0Vars
    <2>2. Writing = 1 /\ Writing' = 0 /\ Waiting' = Waiting
      BY <2>1 DEF Writing, Waiting
    <2>3. Places'
      BY <2>1, <2>2 DEF OrderInv, Places
    <2>4. handled = 0 \/ sent[handled] # "REBOOT_NOTIFY"
      BY <2>1 DEF OrderInv, Announced, Places
    <2>5. Announced'
      BY <2>1, <2>4 DEF OrderInv, Announced, Places
    <2> QED BY <2>3, <2>5 DEF OrderInv
  <1>6. CASE WriteChunk \/ DrainLog \/ ReadCdc \/ NothingToRead \/ PushCommand \/ WaitEnds
    <2>1. UNCHANGED <<dataRing, handled, sent, core0>>
      BY <1>6 DEF WriteChunk, DrainLog, ReadCdc, NothingToRead, PushCommand, WaitEnds,
                  ringVars, core0Vars
    <2>2. pc' = pc \/ {pc, pc'} \subseteq {"top", "out", "push", "wait"}
      BY <1>6 DEF WriteChunk, DrainLog, ReadCdc, NothingToRead, PushCommand, WaitEnds
    <2> QED BY <2>1, <2>2, NoMessageMoves
  <1> QED BY <1>1, <1>2, <1>3, <1>4, <1>5, <1>6 DEF BridgeTask

(* Core 0 has a message to send, and puts it into the ring when it can.    *)
LEMMA Core0Preserves ==
  ASSUME OrderInv, Core0 \/ Core0Logs \/ \E kind \in Kinds : Core0Sends(kind)
  PROVE  OrderInv'
  <1>1. ASSUME NEW kind \in Kinds, Core0Sends(kind) PROVE OrderInv'
    <2>1. core0 = "runs" /\ core0' = "blocked" /\ sent' = Append(sent, kind)
          /\ UNCHANGED <<dataRing, handled, pc>>
      BY <1>1 DEF Core0Sends, ringVars, taskVars
    <2>2. Waiting = 0 /\ Waiting' = 1 /\ Writing' = Writing /\ Writing \in {0, 1}
      BY <2>1 DEF Writing, Waiting
    <2>3. /\ sent' \in Seq(Kinds) /\ Len(sent') = Len(sent) + 1
          /\ \A n \in 1 .. Len(sent) : sent'[n] = sent[n]
      BY <2>1, AppendProperties DEF OrderInv, Places
    <2>4. Places'
      <3>1. handled' + Writing' + Len(dataRing') + Waiting' = Len(sent')
        <4>1. /\ Len(dataRing) \in Nat /\ handled \in Nat
              /\ handled + Writing + Len(dataRing) + Waiting = Len(sent)
          BY DEF OrderInv, Places
        <4>2. Len(dataRing') = Len(dataRing) /\ handled' = handled
          BY <2>1
        <4> QED BY <2>2, <2>3, <4>1, <4>2
      <3>2. \A i \in 1 .. Len(dataRing') : dataRing'[i] = handled' + Writing' + i
        BY <2>1, <2>2 DEF OrderInv, Places
      <3> QED BY <2>1, <2>3, <3>1, <3>2 DEF OrderInv, Places
    <2>5. handled + Writing <= Len(sent) /\ Len(sent) \in Nat /\ handled \in Nat
      BY <2>2 DEF OrderInv, Places
    <2>6. pc = "write" => handled + 1 \in 1 .. Len(sent)
      BY <2>5 DEF Writing
    <2>7. Announced'
      BY <2>1, <2>2, <2>3, <2>5, <2>6 DEF OrderInv, Announced
    <2> QED BY <2>4, <2>7 DEF OrderInv
  <1>2. CASE Core0GetsSlot
    <2>1. core0 = "blocked" /\ core0' = "rings" /\ dataRing' = Append(dataRing, Len(sent))
          /\ UNCHANGED <<sent, handled, pc>>
      BY <1>2 DEF Core0GetsSlot, taskVars
    <2>2. Waiting = 1 /\ Waiting' = 0 /\ Writing' = Writing /\ Writing \in {0, 1}
      BY <2>1 DEF Writing, Waiting
    <2>3. Len(sent) = handled + Writing + Len(dataRing) + 1 /\ Len(sent) \in Nat
      BY <2>2 DEF OrderInv, Places
    <2>4. /\ dataRing' \in Seq(Nat) /\ Len(dataRing') = Len(dataRing) + 1
          /\ \A i \in 1 .. Len(dataRing) : dataRing'[i] = dataRing[i]
          /\ dataRing'[Len(dataRing) + 1] = Len(sent)
      BY <2>1, <2>3, AppendProperties DEF OrderInv, Places
    <2>5. Places'
      <3>1. Len(dataRing) \in Nat /\ handled \in Nat /\ sent \in Seq(Kinds)
            /\ \A i \in 1 .. Len(dataRing) : dataRing[i] = handled + Writing + i
        BY DEF OrderInv, Places
      <3>2. handled' + Writing' + Len(dataRing') + Waiting' = Len(sent')
        BY <2>1, <2>2, <2>3, <2>4, <3>1
      <3>3. ASSUME NEW i \in 1 .. Len(dataRing')
            PROVE  dataRing'[i] = handled' + Writing' + i
        <4>1. CASE i = Len(dataRing) + 1
          BY <2>1, <2>2, <2>3, <2>4, <3>1, <4>1
        <4>2. CASE i # Len(dataRing) + 1
          <5>1. i \in 1 .. Len(dataRing)
            BY <2>4, <3>1, <4>2
          <5> QED BY <2>1, <2>2, <2>4, <3>1, <5>1
        <4> QED BY <4>1, <4>2
      <3> QED BY <2>1, <2>4, <3>1, <3>2, <3>3 DEF Places
    <2> QED BY <2>1, <2>5 DEF OrderInv, Announced
  <1>3. CASE Core0Rings \/ Core0Executes \/ Core0Logs
    <2>1. UNCHANGED <<dataRing, handled, sent, pc>>
          /\ (core0' = "blocked" <=> core0 = "blocked")
      BY <1>3 DEF Core0Rings, Core0Executes, Core0Logs, taskVars, core0Vars
    <2>2. Writing' = Writing /\ Waiting' = Waiting
      BY <2>1 DEF Writing, Waiting
    <2> QED BY <2>1, <2>2 DEF OrderInv, Places, Announced
  <1> QED BY <1>1, <1>2, <1>3 DEF Core0

(* With every message in its place, the messages on their way are the      *)
(* numbers after handled.                                                  *)
LEMMA PlacesInOrder == OrderInv => DispatchedInOrder
  <1> SUFFICES ASSUME OrderInv PROVE DispatchedInOrder
    OBVIOUS
  <1> DEFINE w == IF pc = "write" THEN <<handled + 1>> ELSE <<>>
             d == InRing
  <1>1. /\ Writing \in {0, 1} /\ Waiting \in {0, 1}
        /\ Len(sent) \in Nat /\ Len(dataRing) \in Nat /\ handled \in Nat
    BY LenProperties DEF OrderInv, Places, Writing, Waiting
  <1>2. /\ w \in Seq(Nat) /\ Len(w) = Writing
        /\ \A i \in 1 .. Len(w) : w[i] = handled + i
    BY <1>1 DEF Writing
  <1>3. /\ d \in Seq(Nat) /\ Len(d) = Len(dataRing) + Waiting
        /\ \A i \in 1 .. Len(d) : d[i] = handled + Writing + i
    <2>1. CASE core0 = "blocked"
      <3>1. d = Append(dataRing, Len(sent)) /\ Waiting = 1
        BY <2>1 DEF InRing, Waiting
      <3>2. Len(sent) = handled + Writing + Len(dataRing) + 1
        BY <3>1 DEF OrderInv, Places
      <3>3. /\ d \in Seq(Nat) /\ Len(d) = Len(dataRing) + 1
            /\ \A i \in 1 .. Len(dataRing) : d[i] = dataRing[i]
            /\ d[Len(dataRing) + 1] = Len(sent)
        BY <1>1, <3>1, AppendProperties DEF OrderInv, Places
      <3> HIDE DEF d
      <3>4. ASSUME NEW i \in 1 .. Len(d) PROVE d[i] = handled + Writing + i
        <4>1. CASE i = Len(dataRing) + 1
          BY <1>1, <3>2, <3>3, <4>1
        <4>2. CASE i # Len(dataRing) + 1
          <5>1. i \in 1 .. Len(dataRing)
            BY <1>1, <3>3, <4>2
          <5> QED BY <3>3, <5>1 DEF OrderInv, Places
        <4> QED BY <4>1, <4>2
      <3> QED BY <3>1, <3>3, <3>4
    <2>2. CASE core0 # "blocked"
      BY <1>1, <2>2 DEF InRing, Waiting, OrderInv, Places
    <2> QED BY <2>1, <2>2
  <1> HIDE DEF w, d
  <1>4. /\ w \o d \in Seq(Nat) /\ Len(w \o d) = Len(w) + Len(d)
        /\ \A i \in 1 .. Len(w) + Len(d) :
             (w \o d)[i] = IF i <= Len(w) THEN w[i] ELSE d[i - Len(w)]
    BY <1>2, <1>3, ConcatProperties
  <1>5. Len(w) + Len(d) = Len(sent) - handled
    BY <1>1, <1>2, <1>3 DEF OrderInv, Places
  <1>6. ASSUME NEW i \in 1 .. Len(sent) - handled PROVE (w \o d)[i] = handled + i
    <2>1. i \in 1 .. Len(w) + Len(d) /\ Len(w) \in {0, 1} /\ Len(d) \in Nat
      BY <1>1, <1>2, <1>3, <1>5
    <2>2. CASE i <= Len(w)
      BY <1>2, <1>4, <2>1, <2>2
    <2>3. CASE ~(i <= Len(w))
      <3>1. i - Len(w) \in 1 .. Len(d) /\ (w \o d)[i] = d[i - Len(w)]
        BY <1>4, <2>1, <2>3
      <3>2. d[i - Len(w)] = handled + Writing + (i - Len(w))
        BY <1>3, <3>1
      <3> QED BY <1>1, <1>2, <2>1, <3>1, <3>2
    <2> QED BY <2>2, <2>3
  <1>7. w \o d = [i \in 1 .. Len(sent) - handled |-> handled + i]
    <2> DEFINE x == w \o d
    <2>1. x \in Seq(Nat) /\ Len(x) = Len(sent) - handled
          /\ \A i \in 1 .. Len(sent) - handled : x[i] = handled + i
      BY <1>4, <1>5, <1>6
    <2> HIDE DEF x
    <2>2. x \in [1 .. Len(sent) - handled -> Nat]
      BY <2>1, LenProperties
    <2>3. x = [i \in 1 .. Len(sent) - handled |-> x[i]]
      BY <2>2
    <2>4. x = [i \in 1 .. Len(sent) - handled |-> handled + i]
      BY <2>1, <2>3
    <2> QED BY <2>4 DEF x
  <1> QED BY <1>7 DEF OrderInv, Announced, DispatchedInOrder, w, d

(* Every step keeps the order of the messages.                             *)
LEMMA OrderInvStep == OrderInv /\ [Next]_vars => OrderInv'
  <1> SUFFICES ASSUME OrderInv, [Next]_vars PROVE OrderInv'
    OBVIOUS
  <1>1. CASE DoorbellIsr \/ HostReads \/ HostWrites \/ ClientComesOrGoes \/ HostLeaves
    <2>1. UNCHANGED <<dataRing, handled, sent, core0, pc>>
      BY <1>1 DEF DoorbellIsr, HostReads, HostWrites, ClientComesOrGoes, HostLeaves,
                      ringVars, taskVars, core0Vars
    <2> QED BY <2>1, NoMessageMoves
  <1>2. CASE UNCHANGED vars
    BY <1>2, NoMessageMoves DEF vars
  <1> QED BY <1>1, <1>2, BridgeTaskPreserves, Core0Preserves DEF Next

(* main_core1_bridge.c: whatever the sizes of rings and fifo and whatever  *)
(* the host does, bridge_task handles each message of the DATA ring once,  *)
(* in the order in which Core 0 sent them, and none after the announcement *)
(* of a reboot.                                                            *)
THEOREM MessagesInOrder == Spec => []DispatchedInOrder
  <1>1. Init => OrderInv
    BY DEF Init, OrderInv, Places, Announced, Writing, Waiting
  <1> QED BY <1>1, OrderInvStep, PlacesInOrder, PTL DEF Spec

-----------------------------------------------------------------------------
(* The commands, from the host's fifo to Core 0.                           *)
CommandsInv ==
  /\ {cdcOut, held, executed} \subseteq Seq(1 .. MaxHost)
  /\ cmdRing \in Seq(Seq(1 .. MaxHost)) /\ Len(cmdRing) <= CmdSlots
  /\ typed \in 0 .. MaxHost
  /\ pc # "push" => held = <<>>
  /\ CommandsInOrder

(* At boot no command is on its way.                                       *)
LEMMA CommandsInvInit == Init => CommandsInv
  <1> SUFFICES ASSUME Init PROVE CommandsInv
    OBVIOUS
  <1> DEFINE S == 1 .. MaxHost
  <1>1. <<>> \in Seq(S) /\ <<>> \in Seq(Seq(S)) /\ Len(<<>>) = 0 /\ <<>> \o <<>> = <<>>
    BY EmptySeq, ConcatEmptySeq
  <1>2. /\ held = <<>> /\ cdcOut = <<>> /\ executed = <<>> /\ cmdRing = <<>>
        /\ typed = 0 /\ pc # "push"
    BY DEF Init
  <1>3. UpTo(0) = <<>>
    <2>1. 1 .. 0 = {}
      OBVIOUS
    <2> QED BY <2>1 DEF UpTo
  <1>4. CommandsInOrder
    BY <1>1, <1>2, <1>3, FlattenEmpty DEF CommandsInOrder
  <1> QED BY <1>1, <1>2, <1>4, BridgeAssumption DEF CommandsInv

(* Every step keeps the commands in the order they were typed.             *)
LEMMA CommandsInvStep == CommandsInv /\ [Next]_vars => CommandsInv'
  <1> SUFFICES ASSUME CommandsInv, [Next]_vars PROVE CommandsInv'
    OBVIOUS
  <1> DEFINE S == 1 .. MaxHost
             F == FlattenSeq(cmdRing)
  <1>1. /\ cdcOut \in Seq(S) /\ held \in Seq(S) /\ executed \in Seq(S)
        /\ cmdRing \in Seq(Seq(S)) /\ F \in Seq(S) /\ <<>> \in Seq(S)
    BY FlattenType, EmptySeq DEF CommandsInv
  <1>2. executed \o F \o held \o cdcOut = UpTo(typed)
    BY DEF CommandsInv, CommandsInOrder
  <1> HIDE DEF F
  <1>3. CASE HostWrites
    <2>1. /\ typed < MaxHost /\ typed' = typed + 1 /\ cdcOut' = Append(cdcOut, typed + 1)
          /\ UNCHANGED <<executed, cmdRing, held, pc>>
      BY <1>3 DEF HostWrites, ringVars, taskVars, core0Vars
    <2>2. typed \in Nat /\ typed' \in 0 .. MaxHost /\ typed + 1 \in S
      BY SMTT(30), <2>1, BridgeAssumption DEF CommandsInv
    <2>3. cdcOut' \in Seq(S) /\ cdcOut' = cdcOut \o <<typed + 1>> /\ <<typed + 1>> \in Seq(S)
      BY <1>1, <2>1, <2>2, AppendProperties, AppendIsConcat
    <2> DEFINE e == executed \o F \o held
               x == <<typed + 1>>
    <2>4. e \in Seq(S)
      BY <1>1, ConcatProperties
    <2> HIDE DEF e, x
    <2>5. e \o (cdcOut \o x) = (e \o cdcOut) \o x
      BY SMTT(30), <1>1, <2>3, <2>4, ConcatAssociative DEF x
    <2>6. UpTo(typed + 1) = UpTo(typed) \o x
      <3>1. UpTo(typed) \in Seq(Nat) /\ typed + 1 \in Nat
        BY <2>2 DEF UpTo
      <3>2. UpTo(typed + 1) = Append(UpTo(typed), typed + 1)
        BY <2>2, CountAppend DEF UpTo
      <3> QED BY <3>1, <3>2, AppendIsConcat DEF x
    <2>7. CommandsInOrder'
      BY <1>2, <2>1, <2>3, <2>5, <2>6 DEF CommandsInOrder, e, x, F
    <2> QED BY <1>1, <2>1, <2>2, <2>3, <2>7 DEF CommandsInv
  <1>4. CASE ReadCdc
    <2>1. /\ held = <<>> /\ held' = cdcOut /\ cdcOut' = <<>> /\ pc' = "push"
          /\ UNCHANGED <<executed, cmdRing, typed>>
      BY <1>4 DEF ReadCdc, ringVars, core0Vars, CommandsInv
    <2>2. executed \o F \in Seq(S)
      BY <1>1, ConcatProperties
    <2> DEFINE e == executed \o F
    <2>3. e \in Seq(S) /\ e \o cdcOut \in Seq(S)
      BY <1>1, <2>2, ConcatProperties
    <2> HIDE DEF e
    <2>4. e \o <<>> = e /\ (e \o cdcOut) \o <<>> = e \o cdcOut
      BY <2>3, ConcatEmptySeq
    <2>5. CommandsInOrder'
      BY <1>2, <2>1, <2>4 DEF CommandsInOrder, e, F
    <2> QED BY <1>1, <2>1, <2>5 DEF CommandsInv
  <1>5. CASE PushCommand
    <2>1. /\ held' = <<>> /\ cmdRing' = Append(cmdRing, held) /\ Len(cmdRing) < CmdSlots
          /\ UNCHANGED <<executed, cdcOut, typed>>
      BY <1>5 DEF PushCommand, usbVars, core0Vars
    <2>2. FlattenSeq(cmdRing') = F \o held
      BY <1>1, <2>1, FlattenAppend DEF F
    <2>3. /\ cmdRing' \in Seq(Seq(S)) /\ Len(cmdRing') = Len(cmdRing) + 1
          /\ Len(cmdRing) \in Nat
      BY <1>1, <2>1, AppendProperties, LenProperties
    <2>4. F \o held \in Seq(S) /\ executed \o (F \o held) = (executed \o F) \o held
      BY SMTT(30), <1>1, ConcatProperties, ConcatAssociative
    <2> DEFINE e == executed \o (F \o held)
    <2>5. e \in Seq(S) /\ e = executed \o F \o held
      BY <1>1, <2>4, ConcatProperties
    <2>6. CommandsInOrder'
      <3>1. e = executed' \o FlattenSeq(cmdRing')
        BY <2>1, <2>2
      <3> HIDE DEF e
      <3>2. e \o <<>> = e
        BY <2>5, ConcatEmptySeq
      <3>3. e \o cdcOut = UpTo(typed)
        BY <1>2, <2>5
      <3> QED BY <2>1, <3>1, <3>2, <3>3 DEF CommandsInOrder
    <2>7. Len(cmdRing') <= CmdSlots
      BY <2>1, <2>3, BridgeAssumption
    <2> QED BY <1>1, <2>1, <2>3, <2>6, <2>7 DEF CommandsInv
  <1>6. CASE Core0Executes
    <2>1. /\ cmdRing # <<>> /\ executed' = executed \o Head(cmdRing)
          /\ cmdRing' = Tail(cmdRing) /\ UNCHANGED <<held, cdcOut, typed, pc>>
      BY <1>6 DEF Core0Executes, usbVars, taskVars
    <2> DEFINE h == Head(cmdRing)
               G == FlattenSeq(cmdRing')
    <2>2. /\ h \in Seq(S) /\ cmdRing' \in Seq(Seq(S)) /\ Len(cmdRing') = Len(cmdRing) - 1
          /\ Len(cmdRing) \in Nat
      BY <1>1, <2>1, HeadTailProperties, LenProperties
    <2>3. F = h \o G /\ G \in Seq(S)
      BY <1>1, <2>1, <2>2, FlattenHeadTail, FlattenType DEF F
    <2>4. executed' = executed \o h
      BY <2>1
    <2> HIDE DEF h, G
    <2>5. executed' \in Seq(S) /\ executed' \o G = executed \o F
      <3>0. executed \in Seq(S) /\ h \in Seq(S) /\ G \in Seq(S)
        BY <1>1, <2>2, <2>3
      <3>1. executed \o h \in Seq(S)
        BY <3>0, ConcatProperties
      <3>2. (executed \o h) \o G = executed \o (h \o G)
        BY SMTT(30), <3>0, ConcatAssociative
      <3> QED BY <2>3, <2>4, <3>1, <3>2
    <2>6. CommandsInOrder'
      BY <1>2, <2>1, <2>5 DEF CommandsInOrder, G
    <2>7. Len(cmdRing') <= CmdSlots
      BY SMTT(30), <2>2, BridgeAssumption DEF CommandsInv
    <2> QED BY <1>1, <2>1, <2>2, <2>5, <2>6, <2>7 DEF CommandsInv
  <1>7. CASE /\ UNCHANGED <<executed, cmdRing, held, cdcOut, typed>>
             /\ pc' = "push" => pc = "push"
             /\ pc = "push" => pc' = "push"
    BY <1>7 DEF CommandsInv, CommandsInOrder
  <1>8. CASE Dispatch \/ IgnoreOther \/ RebootNotified \/ TakeSerial
    BY <1>7, <1>8 DEF Dispatch, IgnoreOther, RebootNotified, TakeSerial, taskVars, usbVars,
                      core0Vars
  <1>9. CASE WriteChunk \/ WriteEnds \/ DrainLog \/ NothingToRead \/ WaitEnds
    BY <1>7, <1>9 DEF WriteChunk, WriteEnds, DrainLog, NothingToRead, WaitEnds, ringVars, usbVars,
                      core0Vars
  <1>10. CASE DoorbellIsr \/ Core0GetsSlot \/ Core0Rings \/ Core0Logs
              \/ \E kind \in Kinds : Core0Sends(kind)
    BY <1>7, <1>10 DEF DoorbellIsr, Core0GetsSlot, Core0Rings, Core0Logs, Core0Sends, ringVars,
                       taskVars, usbVars, core0Vars
  <1>11. CASE HostReads \/ ClientComesOrGoes \/ HostLeaves \/ UNCHANGED vars
    BY <1>7, <1>11 DEF HostReads, ClientComesOrGoes, HostLeaves, vars, ringVars, taskVars, core0Vars
  <1> QED BY <1>3, <1>4, <1>5, <1>6, <1>8, <1>9, <1>10, <1>11 DEF Next, BridgeTask, Core0

(* main_core1_bridge.c: what the host writes reaches Core 0's loop once    *)
(* and in order, whatever the sizes of the ring and the fifo.              *)
THEOREM CommandsArriveInOrder == Spec => []CommandsInOrder
  <1>1. CommandsInv => CommandsInOrder
    BY DEF CommandsInv
  <1> QED BY <1>1, CommandsInvInit, CommandsInvStep, PTL DEF Spec

-----------------------------------------------------------------------------
(* The bytes of the stream, for given kinds of messages.                   *)
Byte == Nat \X Nat

(* The bytes of message n: those of a SERIAL_BYTES message go to the host. *)
BytesFor(kinds, n) ==
  IF kinds[n] = "SERIAL_BYTES" THEN [i \in 1 .. PayloadBytes |-> <<n, i>>] ELSE <<>>

(* The bytes of each message.                                              *)
ChunksFor(kinds) == [n \in 1 .. Len(kinds) |-> BytesFor(kinds, n)]

(* The bytes of the messages in q, one after another.                      *)
StreamFor(kinds, q) == FlattenSeq([i \in 1 .. Len(q) |-> BytesFor(kinds, q[i])])

(* A message has at most a payload of bytes.                               *)
LEMMA BytesType ==
  ASSUME NEW kinds, NEW n \in Nat
  PROVE  BytesFor(kinds, n) \in Seq(Byte) /\ Len(BytesFor(kinds, n)) <= PayloadBytes
  <1> DEFINE b == [i \in 1 .. PayloadBytes |-> <<n, i>>]
  <1>1. PayloadBytes \in Nat
    BY BridgeAssumption
  <1>2. \A i \in 1 .. PayloadBytes : <<n, i>> \in Byte
    BY <1>1 DEF Byte
  <1> HIDE DEF Byte
  <1>3. b \in [1 .. PayloadBytes -> Byte]
    BY <1>2
  <1>4. b \in Seq(Byte)
    BY <1>1, <1>3, SeqDef
  <1>5. Len(b) = PayloadBytes
    BY <1>1, <1>3, <1>4, LenProperties
  <1> HIDE DEF b
  <1>6. <<>> \in Seq(Byte) /\ Len(<<>>) = 0
    BY EmptySeq
  <1> QED BY <1>1, <1>4, <1>5, <1>6 DEF BytesFor, b

(* The stream of q maps the numbers in q to the bytes of these messages.   *)
LEMMA StreamIsMapped ==
  ASSUME NEW kinds \in Seq(Kinds), NEW q \in Seq(1 .. Len(kinds))
  PROVE  /\ ChunksFor(kinds) \in [1 .. Len(kinds) -> Seq(Byte)]
         /\ StreamFor(kinds, q) = FlattenSeq(Mapped(ChunksFor(kinds), q))
  <1>1. Len(kinds) \in Nat
    BY LenProperties
  <1>2. ChunksFor(kinds) \in [1 .. Len(kinds) -> Seq(Byte)]
    BY <1>1, BytesType DEF ChunksFor
  <1>3. \A i \in 1 .. Len(q) : q[i] \in 1 .. Len(kinds)
    BY ElementOfSeq
  <1>4. \A i \in 1 .. Len(q) : ChunksFor(kinds)[q[i]] = BytesFor(kinds, q[i])
    BY <1>3 DEF ChunksFor
  <1>5. Mapped(ChunksFor(kinds), q) = [i \in 1 .. Len(q) |-> BytesFor(kinds, q[i])]
    BY <1>4 DEF Mapped
  <1> QED BY <1>2, <1>5 DEF StreamFor

(* The stream is a sequence of bytes.                                      *)
LEMMA StreamType ==
  ASSUME NEW kinds \in Seq(Kinds), NEW q \in Seq(1 .. Len(kinds))
  PROVE  StreamFor(kinds, q) \in Seq(Byte)
  <1> DEFINE S == 1 .. Len(kinds)
             T == Seq(Byte)
             c == ChunksFor(kinds)
  <1>1. q \in Seq(S) /\ StreamFor(kinds, q) = FlattenSeq(Mapped(c, q)) /\ \A x \in S : c[x] \in T
    BY StreamIsMapped
  <1> HIDE DEF c, S, T
  <1>2. Mapped(c, q) \in Seq(T)
    BY <1>1, MappedType
  <1> QED BY <1>1, <1>2, FlattenType DEF T

(* A message more at the end of q: its bytes follow.                       *)
LEMMA StreamAppend ==
  ASSUME NEW kinds \in Seq(Kinds), NEW q \in Seq(1 .. Len(kinds)), NEW n \in 1 .. Len(kinds)
  PROVE  StreamFor(kinds, Append(q, n)) = StreamFor(kinds, q) \o BytesFor(kinds, n)
  <1> DEFINE S == 1 .. Len(kinds)
             c == ChunksFor(kinds)
             r == Append(q, n)
  <1>1. r \in Seq(S)
    BY AppendProperties
  <1>2. /\ c \in [S -> Seq(Byte)] /\ StreamFor(kinds, q) = FlattenSeq(Mapped(c, q))
        /\ StreamFor(kinds, r) = FlattenSeq(Mapped(c, r))
    BY <1>1, StreamIsMapped
  <1>3. c[n] = BytesFor(kinds, n)
    BY DEF ChunksFor
  <1> DEFINE T == Seq(Byte)
  <1>4. n \in S /\ q \in Seq(S) /\ \A x \in S : c[x] \in T
    BY <1>2
  <1> HIDE DEF c, S, T
  <1>5. Mapped(c, q) \in Seq(T) /\ c[n] \in T /\ Mapped(c, r) = Append(Mapped(c, q), c[n])
    BY <1>4, MappedType, MappedAppend
  <1>6. FlattenSeq(Append(Mapped(c, q), c[n])) = FlattenSeq(Mapped(c, q)) \o c[n]
    BY <1>5, FlattenAppend DEF T
  <1> QED BY <1>2, <1>3, <1>5, <1>6

(* The bytes of the first message in q, and those of the others.           *)
LEMMA StreamHeadTail ==
  ASSUME NEW kinds \in Seq(Kinds), NEW q \in Seq(1 .. Len(kinds)), q # <<>>
  PROVE  StreamFor(kinds, q) = BytesFor(kinds, Head(q)) \o StreamFor(kinds, Tail(q))
  <1> DEFINE S == 1 .. Len(kinds)
             c == ChunksFor(kinds)
             h == Head(q)
             t == Tail(q)
  <1>1. h \in S /\ t \in Seq(S)
    BY HeadTailProperties
  <1>2. /\ c \in [S -> Seq(Byte)] /\ StreamFor(kinds, q) = FlattenSeq(Mapped(c, q))
        /\ StreamFor(kinds, t) = FlattenSeq(Mapped(c, t))
    BY <1>1, StreamIsMapped
  <1>3. c[h] = BytesFor(kinds, h)
    BY <1>1 DEF ChunksFor
  <1> DEFINE m == Mapped(c, q)
             T == Seq(Byte)
  <1>4. q \in Seq(S) /\ \A x \in S : c[x] \in T
    BY <1>2
  <1> HIDE DEF c, S, T
  <1>5. m \in Seq(T) /\ m # <<>> /\ Head(m) = c[h] /\ Tail(m) = Mapped(c, t)
    BY <1>4, MappedType, MappedHeadTail
  <1>6. FlattenSeq(m) = Head(m) \o FlattenSeq(Tail(m))
    BY <1>5, FlattenHeadTail DEF T
  <1> QED BY <1>2, <1>3, <1>5, <1>6

(* What has been sent is not changed by what follows.                      *)
LEMMA StreamKept ==
  ASSUME NEW kinds \in Seq(Kinds), NEW k \in Kinds, NEW q \in Seq(1 .. Len(kinds))
  PROVE  StreamFor(Append(kinds, k), q) = StreamFor(kinds, q)
  <1>1. \A n \in 1 .. Len(kinds) : Append(kinds, k)[n] = kinds[n]
    BY AppendProperties
  <1>2. \A i \in 1 .. Len(q) : q[i] \in 1 .. Len(kinds)
    BY ElementOfSeq
  <1>3. \A i \in 1 .. Len(q) : BytesFor(Append(kinds, k), q[i]) = BytesFor(kinds, q[i])
    BY <1>1, <1>2 DEF BytesFor
  <1>4. [i \in 1 .. Len(q) |-> BytesFor(Append(kinds, k), q[i])]
          = [i \in 1 .. Len(q) |-> BytesFor(kinds, q[i])]
    BY <1>3
  <1> QED BY <1>4 DEF StreamFor

(* The bytes of the stream, from Core 0 to the host.                       *)
StreamInv ==
  /\ {received, cdcIn, rest} \subseteq Seq(Byte)
  /\ Len(rest) <= PayloadBytes /\ Len(cdcIn) <= CdcTx
  /\ pc # "write" => rest = <<>>
  /\ StreamInOrder

(* The stream of Bridge, in terms of what has been sent.                   *)
LEMMA StreamIs ==
  /\ \A q : StreamOf(q) = StreamFor(sent, q)
  /\ StreamInOrder' = (~dropped' => received' \o cdcIn' \o rest' \o StreamFor(sent', InRing')
                                     = StreamFor(sent', UpTo(Len(sent'))))
  BY DEF StreamOf, StreamFor, Bytes, BytesFor, StreamInOrder

(* The numbers on their way are numbers of messages that have been sent.   *)
LEMMA RingNumbers ==
  ASSUME OrderInv
  PROVE  /\ sent \in Seq(Kinds) /\ Len(sent) \in Nat /\ handled + Writing \in 0 .. Len(sent)
         /\ dataRing \in Seq(1 .. Len(sent)) /\ InRing \in Seq(1 .. Len(sent))
         /\ UpTo(Len(sent)) \in Seq(1 .. Len(sent))
  <1>1. /\ Writing \in {0, 1} /\ Waiting \in {0, 1} /\ sent \in Seq(Kinds)
        /\ Len(sent) \in Nat /\ Len(dataRing) \in Nat /\ handled \in Nat
        /\ handled + Writing + Len(dataRing) + Waiting = Len(sent)
    BY LenProperties DEF OrderInv, Places, Writing, Waiting
  <1>2. \A i \in 1 .. Len(dataRing) : dataRing[i] \in 1 .. Len(sent)
    BY <1>1 DEF OrderInv, Places
  <1>3. dataRing = [i \in 1 .. Len(dataRing) |-> dataRing[i]]
    BY LenProperties DEF OrderInv, Places
  <1> DEFINE N == 1 .. Len(sent)
  <1> HIDE DEF N
  <1>4. dataRing \in [1 .. Len(dataRing) -> N]
    BY <1>2, <1>3 DEF N
  <1>5. dataRing \in Seq(N)
    BY <1>1, <1>4, SeqDef
  <1>6. InRing \in Seq(N)
    <2>1. CASE core0 = "blocked"
      <3>1. Len(sent) \in N
        BY <1>1, <2>1 DEF Waiting, N
      <3> QED BY <1>5, <2>1, <3>1, AppendProperties DEF InRing
    <2> QED BY <1>5, <2>1 DEF InRing
  <1>7. UpTo(Len(sent)) \in Seq(1 .. Len(sent))
    BY <1>1 DEF UpTo
  <1> QED BY <1>1, <1>5, <1>6, <1>7 DEF N

(* A message is taken out of the ring: its bytes are what is to be written. *)
LEMMA TakenBytes ==
  ASSUME OrderInv, StreamInv, pc = "top", dataRing # <<>>, dataRing' = Tail(dataRing),
         rest' = BytesFor(sent, Head(dataRing)), pc' # "write" => rest' = <<>>,
         UNCHANGED <<sent, core0, received, cdcIn, dropped>>
  PROVE  StreamInv'
  <1> DEFINE N == 1 .. Len(sent)
             h == Head(dataRing)
             b == BytesFor(sent, h)
             u == StreamFor(sent, InRing)
             v == StreamFor(sent, InRing')
             q == Append(dataRing, Len(sent))
  <1>1. /\ sent \in Seq(Kinds) /\ dataRing \in Seq(N) /\ InRing \in Seq(N) /\ h \in N
        /\ dataRing' \in Seq(N) /\ Len(sent) \in Nat
    BY RingNumbers, HeadTailProperties
  <1>2. InRing # <<>> /\ Head(InRing) = h /\ InRing' = Tail(InRing) /\ InRing' \in Seq(N)
    <2>1. CASE core0 = "blocked"
      <3>1. Len(sent) \in N
        BY <1>1
      <3>2. InRing = q /\ InRing' = Append(Tail(dataRing), Len(sent))
        BY <2>1 DEF InRing
      <3> HIDE DEF N, q
      <3>3. q # <<>> /\ Head(q) = h /\ Tail(q) = Append(Tail(dataRing), Len(sent))
        BY <1>1, <3>1, AppendProperties, HeadTailAppend DEF q
      <3>4. InRing' \in Seq(N)
        BY <1>1, <3>1, <3>2, AppendProperties
      <3> QED BY <3>2, <3>3, <3>4
    <2> QED BY <1>1, <2>1 DEF InRing
  <1>3. u = b \o v
    BY <1>1, <1>2, StreamHeadTail
  <1>4. h \in Nat
    BY <1>1
  <1> HIDE DEF N, h
  <1>5. b \in Seq(Byte) /\ Len(b) <= PayloadBytes /\ v \in Seq(Byte)
    <2>1. v \in Seq(Byte)
      BY <1>1, <1>2, StreamType DEF N
    <2> QED BY <1>4, <2>1, BytesType
  <1>6. /\ received \in Seq(Byte) /\ cdcIn \in Seq(Byte) /\ Len(cdcIn) <= CdcTx
        /\ rest = <<>> /\ rest' = b
    BY DEF StreamInv, h
  <1>7. StreamInOrder'
    <2>1. SUFFICES ASSUME ~dropped
                   PROVE  received \o cdcIn \o b \o v = StreamFor(sent, UpTo(Len(sent)))
      BY <1>6, StreamIs
    <2> DEFINE c == received \o cdcIn
    <2>2. c \in Seq(Byte)
      BY <1>6, ConcatProperties
    <2> HIDE DEF c, b, v, u
    <2>3. c \o b \o v = c \o u
      BY SMTT(30), <1>3, <1>5, <2>2, ConcatAssociative
    <2>4. c \o <<>> \o u = StreamFor(sent, UpTo(Len(sent)))
      BY <1>6, <2>1, StreamIs DEF StreamInv, StreamInOrder, c, u
    <2>5. c \o <<>> = c
      BY <2>2, ConcatEmptySeq
    <2> QED BY <2>3, <2>4, <2>5 DEF c
  <1> QED BY <1>5, <1>6, <1>7 DEF StreamInv

(* Steps that move no byte of the stream.                                  *)
LEMMA NoByteMoves ==
  ASSUME StreamInv, UNCHANGED <<received, cdcIn, rest, sent, InRing>>, dropped => dropped',
         pc = "write" => pc' = "write" \/ rest = <<>>
  PROVE  StreamInv'
  <1>1. StreamInOrder'
    BY StreamIs DEF StreamInv, StreamInOrder
  <1> QED BY <1>1 DEF StreamInv

(* A part of the payload moves on to the fifo.                             *)
LEMMA ChunkMoves ==
  ASSUME OrderInv, StreamInv, WriteChunk
  PROVE  StreamInv'
  <1> DEFINE l == Len(rest)
             f == CdcTx - Len(cdcIn)
             n == IF l < f THEN l ELSE f
             m == n + 1
             c == SubSeq(rest, 1, n)
             d == SubSeq(rest, m, l)
             v == StreamFor(sent, InRing)
  <1>1. /\ received \in Seq(Byte) /\ cdcIn \in Seq(Byte) /\ rest \in Seq(Byte)
        /\ l \in Nat \ {0} /\ Len(cdcIn) \in Nat /\ Len(cdcIn) < CdcTx
        /\ l <= PayloadBytes /\ CdcTx \in Nat /\ PayloadBytes \in Nat
    BY EmptySeq, LenProperties, BridgeAssumption DEF StreamInv, WriteChunk
  <1>2. /\ n \in Nat /\ n \in 1 .. l /\ n <= CdcTx - Len(cdcIn) /\ n \in 1 - 1 .. l
        /\ l \in n .. l /\ 1 \in 1 .. l + 1
    BY <1>1
  <1>3. /\ cdcIn' = cdcIn \o c /\ rest' = d
        /\ UNCHANGED <<received, dropped, sent, pc>> /\ pc = "write" /\ InRing' = InRing
    BY DEF WriteChunk, core0Vars, ringVars, InRing
  <1>4. c \o d = rest
    <2>1. c \o d = SubSeq(rest, 1, l)
      BY <1>1, <1>2, ConcatAdjacentSubSeq
    <2>2. SubSeq(rest, 1, l) = rest
      BY <1>1, SubSeqFull
    <2> QED BY <2>1, <2>2
  <1>5. c \in Seq(Byte) /\ Len(c) = n
    <2>1. \A i \in 1 .. n : rest[i] \in Byte
      BY <1>1, <1>2, ElementOfSeq
    <2>2. 1 \in Int /\ n \in Int /\ 1 <= n /\ n - 1 + 1 = n
      BY <1>2
    <2> HIDE DEF n
    <2> QED BY <2>1, <2>2, SubSeqProperties
  <1>6. d \in Seq(Byte) /\ Len(d) <= l
    <2>1. \A i \in m .. l : rest[i] \in Byte
      BY <1>1, <1>2, ElementOfSeq
    <2>2. m \in Int /\ l \in Int /\ l - m + 1 <= l /\ 0 <= l
      BY <1>1, <1>2
    <2> HIDE DEF m, l, n
    <2> QED BY <2>1, <2>2, SubSeqProperties
  <1>7. v \in Seq(Byte)
    BY RingNumbers, StreamType
  <1> HIDE DEF c, d, n, m, l, v
  <1>8. cdcIn' \in Seq(Byte) /\ Len(cdcIn') <= CdcTx
    BY <1>1, <1>2, <1>3, <1>5, ConcatProperties
  <1>9. rest' \in Seq(Byte) /\ Len(rest') <= PayloadBytes
    <2>1. Len(d) \in Nat
      BY <1>6, LenProperties
    <2> QED BY <1>1, <1>3, <1>6, <2>1
  <1>10. StreamInOrder'
    <2>1. SUFFICES ASSUME ~dropped
                   PROVE  received \o (cdcIn \o c) \o d \o v = StreamFor(sent, UpTo(Len(sent)))
      BY <1>3, StreamIs DEF v
    <2>2. received \o cdcIn \o rest \o v = StreamFor(sent, UpTo(Len(sent)))
      BY <2>1, StreamIs DEF StreamInv, StreamInOrder, v
    <2>3. received \o (cdcIn \o c) \o d = received \o cdcIn \o (c \o d)
      <3>1. /\ received \in Seq(Byte) /\ cdcIn \in Seq(Byte) /\ c \in Seq(Byte)
            /\ d \in Seq(Byte)
        BY <1>1, <1>5, <1>6
      <3> DEFINE p == received \o cdcIn
      <3>2. p \in Seq(Byte)
        BY <3>1, ConcatProperties
      <3>3. received \o (cdcIn \o c) = p \o c
        BY SMTT(30), <3>1, ConcatAssociative
      <3> HIDE DEF p
      <3>4. (p \o c) \o d = p \o (c \o d)
        BY SMTT(30), <3>1, <3>2, ConcatAssociative
      <3> QED BY <3>3, <3>4 DEF p
    <2> QED BY <1>4, <2>2, <2>3
  <1> QED BY <1>1, <1>3, <1>8, <1>9, <1>10 DEF StreamInv

(* The host reads a byte.                                                  *)
LEMMA ByteRead ==
  ASSUME OrderInv, StreamInv, HostReads
  PROVE  StreamInv'
  <1>1. /\ received \in Seq(Byte) /\ cdcIn \in Seq(Byte) /\ cdcIn # <<>>
        /\ received' = Append(received, Head(cdcIn)) /\ cdcIn' = Tail(cdcIn)
        /\ UNCHANGED <<rest, dropped, sent, pc>> /\ InRing' = InRing
    BY DEF StreamInv, HostReads, core0Vars, ringVars, taskVars, InRing
  <1>2. /\ received' \in Seq(Byte) /\ cdcIn' \in Seq(Byte) /\ Len(cdcIn') = Len(cdcIn) - 1
    BY <1>1, HeadTailProperties, AppendProperties
  <1>3. Len(cdcIn') <= CdcTx
    BY SMTT(30), <1>1, <1>2, LenProperties, BridgeAssumption DEF StreamInv
  <1>4. received' \o cdcIn' = received \o cdcIn
    BY <1>1, MoveHead
  <1>5. StreamInOrder'
    BY <1>1, <1>4, StreamIs DEF StreamInv, StreamInOrder
  <1> QED BY <1>1, <1>2, <1>3, <1>5 DEF StreamInv

(* Core 0 has one more message to send.                                    *)
LEMMA StreamGrows ==
  ASSUME OrderInv, StreamInv, NEW kind \in Kinds, Core0Sends(kind)
  PROVE  StreamInv'
  <1> DEFINE k == Len(sent)
             n == k + 1
             N == 1 .. Len(sent')
             b == BytesFor(sent', n)
             c == received \o cdcIn \o rest
             v == StreamFor(sent, dataRing)
             w == StreamFor(sent, UpTo(k))
  <1>1. /\ UNCHANGED <<received, cdcIn, rest, dropped, pc, dataRing>> /\ InRing = dataRing
        /\ sent' = Append(sent, kind) /\ InRing' = Append(dataRing, Len(sent'))
    BY DEF Core0Sends, ringVars, taskVars, usbVars, InRing
  <1>2. /\ sent \in Seq(Kinds) /\ k \in Nat /\ dataRing \in Seq(1 .. k)
        /\ UpTo(k) \in Seq(1 .. k)
    BY <1>1, RingNumbers
  <1>3. sent' \in Seq(Kinds) /\ Len(sent') = n /\ n \in Nat /\ n \in N
    BY <1>1, <1>2, AppendProperties
  <1>4. dataRing \in Seq(N) /\ UpTo(k) \in Seq(N)
    <2>1. 1 .. k \subseteq N
      BY <1>2, <1>3
    <2> HIDE DEF N
    <2> QED BY <1>2, <2>1, SeqMonotonic
  <1>5. UpTo(n) = Append(UpTo(k), n)
    BY <1>2, CountAppend DEF UpTo
  <1>6. StreamFor(sent', dataRing) = v /\ StreamFor(sent', UpTo(k)) = w
    BY <1>1, <1>2, StreamKept
  <1>7. /\ StreamFor(sent', InRing') = v \o b /\ StreamFor(sent', UpTo(n)) = w \o b
        /\ v \in Seq(Byte)
    <2> HIDE DEF n
    <2> QED BY ZenonT(60), <1>1, <1>2, <1>3, <1>4, <1>5, <1>6, StreamAppend, StreamType
  <1>8. /\ received \in Seq(Byte) /\ cdcIn \in Seq(Byte) /\ rest \in Seq(Byte)
    BY DEF StreamInv
  <1>9. c \in Seq(Byte)
    <2> DEFINE d == received \o cdcIn
    <2>1. d \in Seq(Byte)
      BY <1>8, ConcatProperties
    <2> HIDE DEF d
    <2>2. d \o rest \in Seq(Byte)
      BY <1>8, <2>1, ConcatProperties
    <2> QED BY <2>2 DEF d
  <1>10. b \in Seq(Byte)
    BY <1>3, BytesType
  <1> HIDE DEF b, c, v, w, n
  <1>11. StreamInOrder'
    <2>1. SUFFICES ASSUME ~dropped PROVE c \o (v \o b) = w \o b
      BY <1>1, <1>3, <1>7, StreamIs DEF c
    <2>2. c \o v = w
      BY <1>1, <2>1, StreamIs DEF StreamInv, StreamInOrder, c, v, w
    <2>3. (c \o v) \o b = c \o (v \o b)
      BY <1>7, <1>9, <1>10, ConcatAssociative
    <2> QED BY <2>2, <2>3
  <1> QED BY <1>1, <1>11 DEF StreamInv

(* Every step keeps the bytes of the stream in order.                      *)
LEMMA StreamInvStep == OrderInv /\ StreamInv /\ [Next]_vars => StreamInv'
  <1> SUFFICES ASSUME OrderInv, StreamInv, [Next]_vars PROVE StreamInv'
    OBVIOUS
  <1>1. CASE Dispatch \/ IgnoreOther \/ RebootNotified \/ TakeSerial
    <2>1. /\ pc = "top" /\ dataRing # <<>> /\ dataRing' = Tail(dataRing)
          /\ UNCHANGED <<sent, core0, received, cdcIn, dropped>>
      BY <1>1 DEF Dispatch, IgnoreOther, RebootNotified, TakeSerial, usbVars, core0Vars
    <2>2. rest = <<>>
      BY <2>1 DEF StreamInv
    <2>3. rest' = BytesFor(sent, Head(dataRing)) /\ (pc' # "write" => rest' = <<>>)
      BY <1>1, <2>2 DEF Dispatch, IgnoreOther, RebootNotified, TakeSerial, taskVars, Bytes,
                        BytesFor
    <2> QED BY <2>1, <2>3, TakenBytes
  <1>2. CASE WriteEnds
    <2>1. /\ UNCHANGED <<received, cdcIn, sent>> /\ InRing' = InRing /\ rest' = <<>>
          /\ dropped' = (dropped \/ rest # <<>>)
      BY <1>2 DEF WriteEnds, ringVars, usbVars, core0Vars, InRing
    <2>2. rest' \in Seq(Byte) /\ Len(rest') <= PayloadBytes
      BY <2>1, EmptySeq, BridgeAssumption
    <2>3. StreamInOrder'
      BY <2>1, StreamIs DEF StreamInv, StreamInOrder
    <2> QED BY <2>1, <2>2, <2>3 DEF StreamInv
  <1>3. CASE HostLeaves
    <2>1. UNCHANGED <<received, rest, pc>> /\ dropped' = TRUE /\ cdcIn' = <<>>
      BY <1>3 DEF HostLeaves, taskVars
    <2>2. cdcIn' \in Seq(Byte) /\ Len(cdcIn') <= CdcTx
      BY <2>1, EmptySeq, BridgeAssumption
    <2>3. StreamInOrder'
      BY <2>1 DEF StreamInOrder
    <2> QED BY <2>1, <2>2, <2>3 DEF StreamInv
  <1>4. CASE DrainLog \/ ReadCdc \/ NothingToRead \/ PushCommand \/ WaitEnds
    BY <1>4, NoByteMoves DEF DrainLog, ReadCdc, NothingToRead, PushCommand, WaitEnds, ringVars,
                             usbVars, core0Vars, InRing
  <1>5. CASE DoorbellIsr \/ Core0Rings \/ Core0Logs \/ Core0Executes
    BY <1>5, NoByteMoves DEF DoorbellIsr, Core0Rings, Core0Logs, Core0Executes, taskVars,
                             usbVars, core0Vars, InRing
  <1>6. CASE Core0GetsSlot
    BY <1>6, NoByteMoves DEF Core0GetsSlot, taskVars, usbVars, InRing
  <1>7. CASE HostWrites \/ ClientComesOrGoes \/ UNCHANGED vars
    BY <1>7, NoByteMoves DEF HostWrites, ClientComesOrGoes, vars, ringVars, taskVars,
                               core0Vars, InRing
  <1> QED BY <1>1, <1>2, <1>3, <1>4, <1>5, <1>6, <1>7, ChunkMoves, ByteRead, StreamGrows
          DEF Next, BridgeTask, Core0

-----------------------------------------------------------------------------
(* Where the task and Core 0 are, and how much there is of everything.     *)
Flags ==
  /\ bell \in BOOLEAN /\ notified \in BOOLEAN /\ didWork \in BOOLEAN
  /\ {mounted, client} \subseteq BOOLEAN /\ dropped \in BOOLEAN
  /\ pc \in {"top", "write", "out", "push", "wait", "reboot"}
  /\ core0 \in {"runs", "rings", "blocked"}

(* How full the rings are.                                                 *)
Sizes ==
  /\ Len(dataRing) <= DataSlots /\ logRing \in 0 .. LogSlots /\ Len(sent) <= MaxData

(* Every step keeps the flags and the places in the code.                  *)
LEMMA FlagsStep == Flags /\ [Next]_vars => Flags'
  <1> SUFFICES ASSUME Flags, [Next]_vars PROVE Flags'
    OBVIOUS
  <1>1. CASE Dispatch \/ IgnoreOther \/ RebootNotified \/ TakeSerial
    BY <1>1 DEF Flags, Dispatch, IgnoreOther, RebootNotified, TakeSerial, taskVars, usbVars,
                core0Vars
  <1>2. CASE WriteChunk \/ WriteEnds \/ DrainLog \/ ReadCdc
    BY <1>2 DEF Flags, WriteChunk, WriteEnds, DrainLog, ReadCdc, ringVars, usbVars, core0Vars
  <1>3. CASE NothingToRead \/ PushCommand \/ WaitEnds \/ DoorbellIsr
    BY <1>3 DEF Flags, NothingToRead, PushCommand, WaitEnds, DoorbellIsr, ringVars, usbVars,
                core0Vars
  <1>4. CASE Core0 \/ Core0Logs \/ \E kind \in Kinds : Core0Sends(kind)
    BY ZenonT(60), <1>4 DEF Flags, Core0, Core0GetsSlot, Core0Rings, Core0Executes, Core0Logs,
                Core0Sends, ringVars, taskVars, usbVars, core0Vars
  <1>5. CASE HostReads \/ HostWrites \/ ClientComesOrGoes \/ HostLeaves \/ UNCHANGED vars
    BY ZenonT(60), <1>5 DEF Flags, HostReads, HostWrites, ClientComesOrGoes, HostLeaves,
                              vars, ringVars, taskVars, core0Vars
  <1> QED BY <1>1, <1>2, <1>3, <1>4, <1>5 DEF Next, BridgeTask

(* Every step keeps the rings within their slots.                          *)
LEMMA SizesStep == OrderInv /\ Sizes /\ [Next]_vars => Sizes'
  <1> SUFFICES ASSUME OrderInv, Sizes, [Next]_vars PROVE Sizes'
    OBVIOUS
  <1>t. /\ dataRing \in Seq(Nat) /\ sent \in Seq(Kinds) /\ Len(dataRing) \in Nat
        /\ Len(sent) \in Nat /\ DataSlots \in Nat /\ LogSlots \in Nat /\ MaxData \in Nat
    BY LenProperties, BridgeAssumption DEF OrderInv, Places
  <1>1. CASE UNCHANGED <<dataRing, logRing, sent>>
    BY <1>1 DEF Sizes
  <1>2. CASE Dispatch \/ IgnoreOther \/ RebootNotified \/ TakeSerial
    <2>1. dataRing # <<>> /\ dataRing' = Tail(dataRing) /\ UNCHANGED <<logRing, sent>>
      BY <1>2 DEF Dispatch, IgnoreOther, RebootNotified, TakeSerial, core0Vars
    <2>2. Len(dataRing') = Len(dataRing) - 1
      BY <1>t, <2>1, HeadTailProperties
    <2> QED BY <1>t, <2>1, <2>2 DEF Sizes
  <1>3. CASE DrainLog
    BY <1>3, <1>t DEF DrainLog, Sizes, core0Vars
  <1>4. CASE Core0Logs
    BY <1>4, <1>t DEF Core0Logs, Sizes, core0Vars
  <1>5. CASE Core0GetsSlot
    <2>1. /\ Len(dataRing) < DataSlots /\ dataRing' = Append(dataRing, Len(sent))
          /\ UNCHANGED <<logRing, sent>>
      BY <1>5 DEF Core0GetsSlot
    <2>2. Len(dataRing') = Len(dataRing) + 1
      BY <1>t, <2>1, AppendProperties
    <2> QED BY <1>t, <2>1, <2>2 DEF Sizes
  <1>6. ASSUME NEW kind \in Kinds, Core0Sends(kind) PROVE Sizes'
    <2>1. /\ Len(sent) < MaxData /\ sent' = Append(sent, kind) /\ UNCHANGED <<dataRing, logRing>>
      BY <1>6 DEF Core0Sends, ringVars
    <2>2. Len(sent') = Len(sent) + 1
      BY <1>t, <2>1, AppendProperties
    <2> QED BY <1>t, <2>1, <2>2 DEF Sizes
  <1>7. CASE \/ WriteChunk \/ WriteEnds \/ ReadCdc \/ NothingToRead \/ PushCommand \/ WaitEnds
             \/ DoorbellIsr \/ Core0Rings \/ Core0Executes
             \/ HostReads \/ HostWrites \/ ClientComesOrGoes \/ HostLeaves \/ UNCHANGED vars
    BY <1>1, <1>7 DEF WriteChunk, WriteEnds, ReadCdc, NothingToRead, PushCommand, WaitEnds,
                      DoorbellIsr, Core0Rings, Core0Executes, HostReads, HostWrites,
                      ClientComesOrGoes, HostLeaves, vars, ringVars, core0Vars
  <1> QED BY <1>2, <1>3, <1>4, <1>5, <1>6, <1>7 DEF Next, BridgeTask, Core0

(* Everything the task and the two parties it waits for rely on.           *)
BridgeIInv == OrderInv /\ CommandsInv /\ StreamInv /\ Flags /\ Sizes

(* The parts imply the invariant that is checked.                          *)
LEMMA BridgeInvFollows == BridgeIInv => BridgeInv
  <1> SUFFICES ASSUME BridgeIInv PROVE BridgeInv
    OBVIOUS
  <1>1. DispatchedInOrder
    BY PlacesInOrder DEF BridgeIInv
  <1>2. StreamInOrder
    BY DEF BridgeIInv, StreamInv
  <1>3. TypeOK
    <2>1. dataRing \in Seq(1 .. MaxData) /\ handled \in 0 .. MaxData
      <3>1. /\ dataRing \in Seq(1 .. Len(sent)) /\ Len(sent) \in Nat /\ handled \in Nat
            /\ handled + Writing <= Len(sent) /\ Writing \in {0, 1}
            /\ Len(sent) <= MaxData /\ MaxData \in Nat
        BY RingNumbers, BridgeAssumption DEF BridgeIInv, OrderInv, Places, Sizes, Writing
      <3>2. 1 .. Len(sent) \subseteq 1 .. MaxData
        BY <3>1
      <3> QED BY <3>1, <3>2, SeqMonotonic
    <2>2. /\ Len(dataRing) <= DataSlots /\ logRing \in 0 .. LogSlots /\ Len(sent) <= MaxData
          /\ sent \in Seq(Kinds)
      BY DEF BridgeIInv, Sizes, OrderInv, Places
    <2>3. /\ {bell, notified, didWork, mounted, client, dropped} \subseteq BOOLEAN
          /\ pc \in {"top", "write", "out", "push", "wait", "reboot"}
          /\ core0 \in {"runs", "rings", "blocked"}
      BY DEF BridgeIInv, Flags
    <2>4. /\ cmdRing \in Seq(Seq(1 .. MaxHost)) /\ Len(cmdRing) <= CmdSlots
          /\ typed \in 0 .. MaxHost
          /\ \A s \in {held, cdcOut, executed} : s \in Seq(1 .. MaxHost)
      BY DEF BridgeIInv, CommandsInv
    <2>5. Len(rest) <= PayloadBytes /\ Len(cdcIn) <= CdcTx
      BY DEF BridgeIInv, StreamInv
    <2> QED BY <2>1, <2>2, <2>3, <2>4, <2>5 DEF TypeOK
  <1> QED BY <1>1, <1>2, <1>3 DEF BridgeInv

(* At boot nothing is on its way and nobody waits.                         *)
LEMMA BridgeIInvInit == Init => BridgeIInv
  <1> SUFFICES ASSUME Init PROVE BridgeIInv
    OBVIOUS
  <1>1. OrderInv
    BY DEF Init, OrderInv, Places, Announced, Writing, Waiting
  <1>2. StreamInv
    <2>1. <<>> \in Seq(Byte) /\ Len(<<>>) = 0 /\ <<>> \o <<>> = <<>>
      BY EmptySeq, ConcatEmptySeq
    <2>2. /\ received = <<>> /\ cdcIn = <<>> /\ rest = <<>> /\ sent = <<>> /\ InRing = <<>>
          /\ pc # "write"
      BY DEF Init, InRing
    <2>3. StreamFor(sent, <<>>) = <<>>
      BY <2>1, FlattenEmpty DEF StreamFor
    <2>4. UpTo(0) = <<>>
      <3>1. 1 .. 0 = {}
        OBVIOUS
      <3> QED BY <3>1 DEF UpTo
    <2>5. StreamInOrder
      BY <2>1, <2>2, <2>3, <2>4, StreamIs DEF StreamInOrder
    <2> QED BY <2>1, <2>2, <2>5, BridgeAssumption DEF StreamInv
  <1>3. Flags
    BY DEF Init, Flags
  <1>4. Sizes
    <2>1. Len(<<>>) = 0 /\ DataSlots \in Nat /\ LogSlots \in Nat /\ MaxData \in Nat
      BY EmptySeq, BridgeAssumption
    <2> QED BY <2>1 DEF Init, Sizes
  <1> QED BY <1>1, <1>2, <1>3, <1>4, CommandsInvInit DEF BridgeIInv

(* main_core1_bridge.c: whatever the sizes of rings and fifo and whatever  *)
(* the host does, the byte stream to the host keeps its framing as long as *)
(* the host stays, "if we drop ANY byte mid-frame here, every subsequent   *)
(* frame on the wire desynchronises", and no ring or fifo overflows.       *)
THEOREM NothingLostOrOvertaken == Spec => []BridgeInv
  <1>1. BridgeIInv /\ [Next]_vars => BridgeIInv'
    BY OrderInvStep, CommandsInvStep, StreamInvStep, FlagsStep, SizesStep DEF BridgeIInv
  <1> QED BY <1>1, BridgeIInvInit, BridgeInvFollows, PTL DEF Spec
===============================================================================
