----------------------------- MODULE ViewsProofs -----------------------------
(***************************************************************************)
(* Proofs about Messages and Nodes, for every capacity of the inbox and of *)
(* the table, any peers, and any number of messages, updates and keys.     *)
(***************************************************************************)
EXTENDS MCViews, SequenceFacts, FiniteSetTheorems

(* The cells that bridge_task writes, and those that lvgl_task writes. *)
CellsOK ==
  /\ slots \in [0 .. Capacity - 1 -> Entries]
  /\ writeIdx \in 0 .. Capacity - 1 /\ count \in 0 .. Capacity /\ latest \in 0 .. MaxRx
  /\ status \in [seq : 0 .. MaxKeys, result : Results, change : Nat]
  /\ bridge \in {"idle", "text", "seq", "index", "count", "result", "change"}
  /\ received \in 0 .. MaxRx /\ ack \in [seq : 0 .. MaxKeys, result : Results]
  /\ reported \in [0 .. MaxKeys - 1 -> Results \cup {"none"}]
  /\ latest <= received /\ (bridge \in {"text", "seq"} => latest < received)

(* What the variables of lvgl_task hold.                                   *)
ViewOK ==
  /\ pc \in {"keys", "copy", "push", "clear", "refresh", "peek", "take", "take2",
             "status", "result"}
  /\ after \in {"keys", "status"}
  /\ idx \in 0 .. Capacity - 1 /\ offset \in 0 .. Capacity - 1
  /\ entry \in Entries /\ displayed \in Entries
  /\ hidden \in BOOLEAN /\ sticky \in BOOLEAN
  /\ footer.kind \in Results \cup {"nav", "hint"}
  /\ outcome \in {"due", "shown", "covered"}
  /\ keys \in 0 .. MaxKeys
  /\ pendingTx \in [active : BOOLEAN, seq : Int] /\ sendSeq \in Nat

(* What keeps InboxInv: an empty inbox is browsed at its first place, and  *)
(* a message has been received before it has got its number.               *)
BrowseInv ==
  /\ CellsOK /\ ViewOK /\ committed \in 0 .. MaxText
  /\ offset = 0 \/ offset < count
  /\ sticky => offset = 0

(* It implies InboxInv. *)
LEMMA BrowseIsInside == BrowseInv => InboxInv
  <1> SUFFICES ASSUME BrowseInv PROVE InboxInv
    OBVIOUS
  <1>1. {hidden, sticky, pendingTx.active} \subseteq BOOLEAN
    BY DEF BrowseInv, ViewOK
  <1>2. OffsetInInbox
    BY MessagesAssumption DEF BrowseInv, CellsOK, ViewOK, OffsetInInbox
  <1> QED BY <1>1, <1>2 DEF BrowseInv, CellsOK, ViewOK, TypeOK, InboxInv

(* The browser computes places of the ring only. *)
LEMMA SlotAtIsSlot ==
  ASSUME writeIdx \in Nat, NEW n \in 0 .. Capacity - 1
  PROVE  SlotAt(n) \in 0 .. Capacity - 1
  BY MessagesAssumption DEF SlotAt

(* The write index goes round the ring. *)
LEMMA NextIndexIsSlot ==
  ASSUME writeIdx \in Nat
  PROVE  (writeIdx + 1) % Capacity \in 0 .. Capacity - 1
  BY MessagesAssumption

(* A store into one field of one slot. *)
LEMMA StoreInSlot ==
  ASSUME slots \in [0 .. Capacity - 1 -> Entries], NEW i \in 0 .. Capacity - 1,
         NEW v \in 0 .. MaxRx
  PROVE  /\ [slots EXCEPT ![i].from = v] \in [0 .. Capacity - 1 -> Entries]
         /\ [slots EXCEPT ![i].text = v] \in [0 .. Capacity - 1 -> Entries]
         /\ [slots EXCEPT ![i].seq = v] \in [0 .. Capacity - 1 -> Entries]
  BY DEF Entries

(* A copy of an entry with another text. *)
LEMMA OtherText ==
  ASSUME NEW e \in Entries, NEW v \in 0 .. MaxRx
  PROVE  [e EXCEPT !.text = v] \in Entries
  BY DEF Entries

(* What a step of one task leaves alone, one variable at a time. *)
LEMMA BridgeFrame ==
  ASSUME UNCHANGED lvglVars, UNCHANGED textVars
  PROVE  UNCHANGED <<pc, after, idx, entry, hidden, offset, sticky, displayed, footer,
                     outcome, pendingTx, keys, sendSeq, committed>>
  BY DEF lvglVars, textVars, copyVars, viewVars, txVars, sendVars

(* The same for a step of lvgl_task. *)
LEMMA LvglFrame ==
  ASSUME UNCHANGED othersOfLvgl
  PROVE  UNCHANGED <<slots, writeIdx, count, latest, status, bridge, received, ack,
                     committed, reported>>
  BY DEF othersOfLvgl, inboxVars, bridgeVars

(* Nothing has been received or shown at boot. *)
LEMMA InitBrowse == Init => BrowseInv
  <1> SUFFICES ASSUME Init PROVE BrowseInv
    OBVIOUS
  <1>1. NoEntry \in Entries
    BY MessagesAssumption DEF NoEntry, Entries
  <1>2. CellsOK
    BY <1>1, MessagesAssumption DEF Init, CellsOK, Results
  <1>3. ViewOK
    BY <1>1, MessagesAssumption DEF Init, ViewOK, Footer, NoTx
  <1> QED BY <1>2, <1>3, MessagesAssumption DEF Init, BrowseInv

(* A step that stores a report leaves the inbox alone. *)
LEMMA ReportKeepsCells ==
  ASSUME CellsOK, UNCHANGED <<slots, writeIdx, count, latest, received>>,
         status' \in [seq : 0 .. MaxKeys, result : Results, change : Nat],
         ack' \in [seq : 0 .. MaxKeys, result : Results],
         reported' \in [0 .. MaxKeys - 1 -> Results \cup {"none"}],
         bridge' \in {"idle", "result", "change"}
  PROVE  CellsOK' /\ count <= count'
  <1>1. count \in Nat
    BY MessagesAssumption DEF CellsOK
  <1>2. /\ bridge' \in {"idle", "text", "seq", "index", "count", "result", "change"}
        /\ bridge' \notin {"text", "seq"}
    OBVIOUS
  <1>3. CellsOK'
    BY <1>2, Zenon DEF CellsOK
  <1> QED BY <1>1, <1>3

(* bridge_task stores a message or a report. *)
LEMMA BridgePreserves == BrowseInv /\ BridgeTask => BrowseInv'
  <1> SUFFICES ASSUME BrowseInv, BridgeTask PROVE BrowseInv'
    OBVIOUS
  <1>0. UNCHANGED lvglVars /\ UNCHANGED textVars
    BY DEF BridgeTask, PublishContinues, PublishBegins, PublishText, PublishSeq,
           PublishIndex, PublishCount, AckBegins, AckResult, AckChange
  <1>f. UNCHANGED <<pc, after, idx, entry, hidden, offset, sticky, displayed, footer,
                    outcome, pendingTx, keys, sendSeq, committed>>
    BY <1>0, BridgeFrame
  <1>v. ViewOK'
    BY <1>f DEF BrowseInv, ViewOK
  <1>c. CellsOK
    BY DEF BrowseInv
  <1>n. count \in Nat /\ offset \in Nat /\ received \in 0 .. MaxRx
    BY MessagesAssumption DEF BrowseInv, CellsOK, ViewOK
  <1>w. ASSUME CellsOK', count <= count' PROVE BrowseInv'
    <2>1. count' \in Nat
      BY <1>w, MessagesAssumption DEF CellsOK
    <2>2. offset' = 0 \/ offset' < count'
      BY <1>f, <1>n, <1>w, <2>1 DEF BrowseInv
    <2> QED BY <1>f, <1>v, <1>w, <2>2 DEF BrowseInv
  <1> SUFFICES CellsOK' /\ count <= count'
    BY <1>w
  <1> USE <1>c, MessagesAssumption
  <1>1. CASE PublishBegins
    <2>1. received' \in 0 .. MaxRx
      BY <1>1, <1>n DEF PublishBegins
    <2>2. slots' \in [0 .. Capacity - 1 -> Entries]
      BY <1>1, <2>1, StoreInSlot DEF PublishBegins, CellsOK
    <2> QED BY SMTT(30), <1>1, <2>1, <2>2 DEF PublishBegins, CellsOK
  <1>2. CASE PublishText
    <2>1. slots' \in [0 .. Capacity - 1 -> Entries]
      BY <1>2, StoreInSlot DEF PublishText, CellsOK
    <2> QED BY SMTT(30), <1>2, <2>1 DEF PublishText, CellsOK
  <1>3. CASE PublishSeq
    <2>1. latest' \in 0 .. MaxRx /\ latest' <= received
      BY SMTT(30), <1>3 DEF PublishSeq, CellsOK
    <2>2. slots' \in [0 .. Capacity - 1 -> Entries]
      BY <1>3, <2>1, StoreInSlot DEF PublishSeq, CellsOK
    <2> QED BY SMTT(30), <1>3, <2>1, <2>2 DEF PublishSeq, CellsOK
  <1>4. CASE PublishIndex
    <2>1. writeIdx' \in 0 .. Capacity - 1
      BY <1>4, NextIndexIsSlot DEF PublishIndex, CellsOK
    <2> QED BY <1>4, <2>1 DEF PublishIndex, CellsOK
  <1>5. CASE PublishCount
    BY <1>5 DEF PublishCount, CellsOK
  <1>6. ASSUME NEW s \in 0 .. MaxKeys - 1, NEW r \in Results, AckBegins(s, r)
        PROVE  CellsOK' /\ count <= count'
    <2>1. ack' \in [seq : 0 .. MaxKeys, result : Results] /\ s \in 0 .. MaxKeys
      BY <1>6 DEF AckBegins
    <2>2. status' \in [seq : 0 .. MaxKeys, result : Results, change : Nat]
      BY <1>6, <2>1 DEF AckBegins, CellsOK
    <2>3. reported' \in [0 .. MaxKeys - 1 -> Results \cup {"none"}]
      BY <1>6 DEF AckBegins, CellsOK
    <2>4. UNCHANGED <<slots, writeIdx, count, latest, received>> /\ bridge' = "result"
      BY <1>6 DEF AckBegins, inboxVars
    <2> QED BY <2>1, <2>2, <2>3, <2>4, ReportKeepsCells
  <1>7. CASE AckResult
    <2>1. status' \in [seq : 0 .. MaxKeys, result : Results, change : Nat]
      BY <1>7 DEF AckResult, CellsOK
    <2>2. UNCHANGED <<slots, writeIdx, count, latest, received, ack, reported>>
          /\ bridge' = "change"
      BY <1>7 DEF AckResult, inboxVars
    <2> QED BY <2>1, <2>2, ReportKeepsCells DEF CellsOK
  <1>8. CASE AckChange
    <2>1. status' \in [seq : 0 .. MaxKeys, result : Results, change : Nat]
      <3>1. status \in [seq : 0 .. MaxKeys, result : Results, change : Nat]
        BY DEF CellsOK
      <3>2. status' = [status EXCEPT !.change = @ + 1]
        BY <1>8 DEF AckChange
      <3> QED BY <3>1, <3>2
    <2>2. UNCHANGED <<slots, writeIdx, count, latest, received, ack, reported>>
          /\ bridge' = "idle"
      BY <1>8 DEF AckChange, inboxVars
    <2> QED BY <2>1, <2>2, ReportKeepsCells DEF CellsOK
  <1> QED BY <1>1, <1>2, <1>3, <1>4, <1>5, <1>6, <1>7, <1>8
            DEF BridgeTask, PublishContinues

(* lvgl_task applies a key.  The offset moves inside the inbox only. *)
LEMMA KeyPreserves == BrowseInv /\ LvglKey => BrowseInv'
  <1> SUFFICES ASSUME BrowseInv, LvglKey PROVE BrowseInv'
    OBVIOUS
  <1>0. UNCHANGED othersOfLvgl
    BY DEF LvglKey, FuncPress, UpPress, DownPress, OkPress
  <1>f. UNCHANGED <<slots, writeIdx, count, latest, status, bridge, received, ack,
                    committed, reported>>
    BY <1>0, LvglFrame
  <1>c. CellsOK'
    BY <1>f DEF BrowseInv, CellsOK
  <1> SUFFICES ViewOK' /\ (offset' = 0 \/ offset' < count) /\ (sticky' => offset' = 0)
    BY <1>f, <1>c DEF BrowseInv
  <1>v. ViewOK /\ count \in 0 .. Capacity /\ (offset = 0 \/ offset < count)
        /\ (sticky => offset = 0) /\ slots \in [0 .. Capacity - 1 -> Entries]
    BY DEF BrowseInv, CellsOK
  <1> USE <1>v, MessagesAssumption
  <1>1. CASE FuncPress
    BY <1>1 DEF Pressed, ViewOK, FuncPress, copyVars, viewVars, txVars, sendVars
  <1>2. CASE UpPress
    <2>1. pendingTx' \in [active : BOOLEAN, seq : Int]
      BY <1>2 DEF ViewOK, UpPress
    <2>2. offset' \in 0 .. Capacity - 1 /\ offset' < count
      BY SMTT(30), <1>2 DEF ViewOK, UpPress, UpTo
    <2>3. sticky' = FALSE /\ keys' \in 0 .. MaxKeys
      BY SMTT(30), <1>2 DEF ViewOK, UpPress, Pressed
    <2>4. UNCHANGED <<idx, entry, hidden, displayed, footer, outcome, sendSeq>>
          /\ pc' = "take" /\ after' = "keys"
      BY <1>2 DEF UpPress, sendVars
    <2> QED BY <2>1, <2>2, <2>3, <2>4 DEF ViewOK
  <1>3. CASE DownPress
    <2>1. pendingTx' \in [active : BOOLEAN, seq : Int]
      BY <1>3 DEF ViewOK, DownPress
    <2>2. offset' \in 0 .. offset
      BY SMTT(30), <1>3 DEF ViewOK, DownPress
    <2>3. sticky' \in BOOLEAN /\ (sticky' => sticky \/ offset' = 0)
      BY <1>3, Zenon DEF DownPress
    <2>4. UNCHANGED <<idx, entry, hidden, displayed, footer, outcome, sendSeq>>
          /\ pc' = "take" /\ after' = "keys" /\ keys' \in 0 .. MaxKeys
      BY SMTT(30), <1>3 DEF DownPress, Pressed, sendVars, ViewOK
    <2>5. offset' \in 0 .. Capacity - 1 /\ (offset' = 0 \/ offset' < count)
          /\ (sticky' => offset' = 0)
      BY <2>2, <2>3 DEF ViewOK
    <2> QED BY <2>1, <2>3, <2>4, <2>5 DEF ViewOK
  <1>4. CASE OkPress
    BY <1>4 DEF Pressed, ViewOK, OkPress, Paint, Footer, copyVars, viewVars, txVars
  <1> QED BY <1>1, <1>2, <1>3, <1>4 DEF LvglKey

(* lvgl_task goes on with a reply, with a rendering or with the refresh. *)
LEMMA TickPreserves == BrowseInv /\ LvglTick => BrowseInv'
  <1> SUFFICES ASSUME BrowseInv, LvglTick PROVE BrowseInv'
    OBVIOUS
  <1>0. UNCHANGED othersOfLvgl
    BY DEF LvglTick, CopyText, PushSucceeds, PushFails, ClearText, TakeBegins, Render,
           RefreshHidden, Refresh, Peek, StatusBegins, StatusResult
  <1>f. UNCHANGED <<slots, writeIdx, count, latest, status, bridge, received, ack,
                    committed, reported>>
    BY <1>0, LvglFrame
  <1>s. offset \in 0 .. Capacity - 1 /\ writeIdx \in Nat
    BY MessagesAssumption DEF BrowseInv, CellsOK, ViewOK
  <1>i. SlotAt(offset) \in 0 .. Capacity - 1
    BY <1>s, SlotAtIsSlot
  <1>c. CellsOK'
    BY <1>f DEF BrowseInv, CellsOK
  <1> SUFFICES ViewOK' /\ (offset' = 0 \/ offset' < count) /\ (sticky' => offset' = 0)
    BY <1>f, <1>c DEF BrowseInv
  <1>v. ViewOK /\ count \in 0 .. Capacity /\ (offset = 0 \/ offset < count)
        /\ (sticky => offset = 0) /\ slots \in [0 .. Capacity - 1 -> Entries]
    BY DEF BrowseInv, CellsOK
  <1> USE <1>v, MessagesAssumption
  <1>1. CASE CopyText
    BY <1>1 DEF ViewOK, CopyText, Paint, Footer, copyVars, viewVars, txVars
  <1>2. CASE PushSucceeds
    BY <1>2 DEF ViewOK, PushSucceeds, copyVars, viewVars, txVars
  <1>3. CASE PushFails
    BY <1>3 DEF ViewOK, PushFails, Paint, Footer, copyVars, viewVars, txVars
  <1>4. CASE ClearText
    BY <1>4 DEF ViewOK, ClearText, Results, copyVars, viewVars, sendVars
  <1>5. CASE TakeBegins
    <2>1. [slots[SlotAt(offset)] EXCEPT !.text = 0] \in Entries
      BY <1>i, OtherText
    <2>2. NoEntry \in Entries
      BY DEF Entries, NoEntry
    <2>3. UNCHANGED <<after, hidden, offset, sticky, pendingTx, keys, sendSeq>>
      BY <1>5 DEF TakeBegins, txVars, sendVars
    <2>4. idx' \in 0 .. Capacity - 1 /\ entry' \in Entries /\ displayed' \in Entries
      BY <1>i, <1>5, <2>1, <2>2 DEF ViewOK, TakeBegins
    <2>5. /\ footer'.kind \in Results \cup {"nav", "hint"} /\ pc' \in {"take2", after}
          /\ outcome' \in {"due", "shown", "covered"}
      BY SMTT(30), <1>5 DEF ViewOK, TakeBegins, Paint, Footer
    <2> QED BY <2>3, <2>4, <2>5 DEF ViewOK
  <1>6. CASE Render
    <2>1. [entry EXCEPT !.text = slots[idx].text] \in Entries
      <3>1. slots[idx].text \in 0 .. MaxRx
        BY DEF ViewOK, Entries
      <3> QED BY <3>1, OtherText DEF ViewOK
    <2> QED BY <1>6, <2>1 DEF ViewOK, Render, Paint, Footer, copyVars, txVars, sendVars
  <1>7. CASE RefreshHidden
    BY <1>7 DEF ViewOK, RefreshHidden, copyVars, viewVars, sendVars
  <1>8. CASE Refresh
    BY <1>8 DEF ViewOK, Refresh, copyVars, txVars, sendVars
  <1>9. CASE Peek
    BY <1>9 DEF ViewOK, Peek, viewVars, txVars, sendVars
  <1>10. CASE StatusBegins
    BY <1>10 DEF ViewOK, StatusBegins, copyVars, viewVars, sendVars
  <1>11. CASE StatusResult
    <2>1. status.result \in Results
      BY DEF BrowseInv, CellsOK
    <2>2. footer'.kind \in Results \cup {"nav", "hint"}
      BY <1>11, <2>1 DEF ViewOK, StatusResult
    <2> QED BY <1>11, <2>2 DEF ViewOK, StatusResult, copyVars, viewVars, sendVars
  <1> QED BY <1>1, <1>2, <1>3, <1>4, <1>5, <1>6, <1>7, <1>8, <1>9, <1>10, <1>11
            DEF LvglTick

(* Every step keeps it. *)
LEMMA BrowseStep == BrowseInv /\ [Next]_vars => BrowseInv'
  <1>1. BrowseInv /\ ImeCommits => BrowseInv'
    <2> SUFFICES ASSUME BrowseInv, ImeCommits PROVE BrowseInv'
      OBVIOUS
    <2>1. UNCHANGED <<slots, writeIdx, count, latest, status, bridge, received, ack,
                      reported>>
      BY DEF ImeCommits, inboxVars, bridgeVars
    <2>2. UNCHANGED <<pc, after, idx, entry, hidden, offset, sticky, displayed, footer,
                      outcome, pendingTx, keys, sendSeq>>
      BY DEF ImeCommits, lvglVars, copyVars, viewVars, txVars, sendVars
    <2>3. CellsOK'
      BY <2>1 DEF BrowseInv, CellsOK
    <2>4. ViewOK'
      BY <2>2 DEF BrowseInv, ViewOK
    <2> QED BY <2>1, <2>2, <2>3, <2>4, MessagesAssumption DEF BrowseInv, ImeCommits
  <1>2. BrowseInv /\ UNCHANGED vars => BrowseInv'
    <2> SUFFICES ASSUME BrowseInv, UNCHANGED vars PROVE BrowseInv'
      OBVIOUS
    <2>1. UNCHANGED <<slots, writeIdx, count, latest, status, bridge, received, ack,
                      reported, committed>>
      BY DEF vars, inboxVars, bridgeVars, textVars
    <2>2. UNCHANGED <<pc, after, idx, entry, hidden, offset, sticky, displayed, footer,
                      outcome, pendingTx, keys, sendSeq>>
      BY DEF vars, copyVars, viewVars, txVars, sendVars
    <2>3. CellsOK'
      BY <2>1 DEF BrowseInv, CellsOK
    <2>4. ViewOK'
      BY <2>2 DEF BrowseInv, ViewOK
    <2> QED BY <2>1, <2>2, <2>3, <2>4 DEF BrowseInv
  <1> QED BY <1>1, <1>2, BridgePreserves, KeyPreserves, TickPreserves DEF Next

(* messages_view.c, messages_inbox.c: however bridge_task and lvgl_task    *)
(* interleave, the cells hold what they are for, the browse offset stays   *)
(* inside the inbox, and a view that sticks to the newest is at offset 0.  *)
THEOREM BrowserStaysInside == Spec => []InboxInv
  <1> QED BY BrowseStep, InitBrowse, BrowseIsInside, PTL DEF Spec

-----------------------------------------------------------------------------
(* What has been sent *)

(* The messages that have been sent.                                       *)
Sends == [seq : Nat, to : 0 .. MaxRx, shown : 0 .. MaxRx, text : Seq(Nat)]

(* The pieces of s in the order they were committed, each once.            *)
Rising(s) == \A i, j \in 1 .. Len(s) : i < j => s[i] < s[j]

(* Nothing in s was committed after piece n.                               *)
UpToPiece(s, n) == \A i \in 1 .. Len(s) : s[i] <= n

(* All of s was committed before all of t.                                 *)
Precedes(s, t) == \A i \in 1 .. Len(s), j \in 1 .. Len(t) : s[i] < t[j]

(* t begins with s.                                                        *)
Begins(s, t) == Len(s) <= Len(t) /\ \A i \in 1 .. Len(s) : s[i] = t[i]

(* The texts of the messages, and all of them in a row.                    *)
TextsOf(msgs) == [i \in DOMAIN msgs |-> msgs[i].text]
AllSent(msgs) == FlattenSeq(TextsOf(msgs))

(* Why nothing is sent twice: until the text is cleared, what has been     *)
(* sent comes before all that the IME's buffer holds, and what is about to *)
(* be pushed is how that buffer still begins.                              *)
SendInv ==
  /\ target \in 0 .. MaxRx /\ sent \in Seq(Sends)
  /\ text \in Seq(Nat) /\ buf \in Seq(Nat) /\ committed \in Nat
  /\ Rising(text) /\ UpToPiece(text, committed)
  /\ Rising(AllSent(sent)) /\ UpToPiece(AllSent(sent), committed)
  /\ pc # "clear" => Precedes(AllSent(sent), text)
  /\ pc = "push" => Begins(buf, text)

(* One text more has been sent. *)
LEMMA AllSentAppend ==
  ASSUME NEW m \in Seq(Sends), NEW r \in Sends
  PROVE  /\ AllSent(Append(m, r)) = AllSent(m) \o r.text
         /\ AllSent(m) \in Seq(Nat)
  <1> DEFINE x == r.text
             t == TextsOf(m)
             n == Len(m)
             k == n + 1
             v == Append(m, r)
             u == TextsOf(v)
             w == Append(t, x)
             S == Seq(Nat)
  <1>1. x \in S /\ n \in Nat /\ DOMAIN m = 1 .. n
    BY LenProperties DEF Sends
  <1>a. \A i \in 1 .. n : m[i] \in Sends
    BY ElementOfSeq
  <1>b. \A y \in Sends : y.text \in S
    BY DEF Sends
  <1>c. \A i \in 1 .. n : m[i].text \in S
    BY <1>a, <1>b
  <1> HIDE DEF S
  <1>2. t \in Seq(S) /\ Len(t) = n /\ \A i \in 1 .. n : t[i] = m[i].text
    BY <1>1, <1>c DEF TextsOf
  <1>3. /\ v \in Seq(Sends) /\ Len(v) = k /\ v[k] = r /\ DOMAIN v = 1 .. k
        /\ \A i \in 1 .. n : v[i] = m[i]
    BY <1>1, AppendProperties, LenProperties
  <1>4. \A i \in 1 .. k : i \in 1 .. n \/ i = k
    BY <1>1
  <1>5. k \in Nat
    BY <1>1
  <1> HIDE DEF x, t, v, k
  <1>6. /\ w \in Seq(S) /\ Len(w) = k /\ w[k] = x /\ \A i \in 1 .. n : w[i] = m[i].text
    BY <1>1, <1>2, AppendProperties DEF k
  <1>7. \A i \in 1 .. k : v[i].text = w[i]
    <2> TAKE i \in 1 .. k
    <2>1. CASE i = k
      BY <1>3, <1>6, <2>1 DEF x
    <2>2. CASE i \in 1 .. n
      BY <1>3, <1>6, <2>2
    <2> QED BY <1>4, <2>1, <2>2
  <1>8. u = [i \in 1 .. k |-> v[i].text]
    BY <1>3 DEF TextsOf
  <1> HIDE DEF w
  <1>9. w = [i \in 1 .. k |-> w[i]]
    BY <1>6
  <1>10. u = w
    BY <1>7, <1>8, <1>9
  <1>11. FlattenSeq(w) = FlattenSeq(t) \o x
    BY <1>1, <1>2, FlattenAppend DEF S, w
  <1>12. FlattenSeq(t) \in S
    BY <1>2, FlattenType DEF S
  <1> QED BY <1>10, <1>11, <1>12 DEF AllSent, t, u, v, x, S

(* A piece is committed. *)
LEMMA RisingAppend ==
  ASSUME NEW s \in Seq(Nat), NEW n \in Nat, Rising(s), UpToPiece(s, n)
  PROVE  /\ Append(s, n + 1) \in Seq(Nat) /\ Rising(Append(s, n + 1))
         /\ UpToPiece(Append(s, n + 1), n + 1) /\ UpToPiece(s, n + 1)
  <1> DEFINE k == Len(s) + 1
             x == n + 1
             t == Append(s, x)
  <1>1. Len(s) \in Nat /\ \A i \in 1 .. Len(s) : s[i] \in Nat
    BY LenProperties, ElementOfSeq
  <1>2. x \in Nat /\ n < x
    OBVIOUS
  <1> HIDE DEF x
  <1>3. t \in Seq(Nat) /\ Len(t) = k /\ t[k] = x /\ \A i \in 1 .. Len(s) : t[i] = s[i]
    BY <1>2, AppendProperties
  <1>4. k \in Nat /\ \A i \in 1 .. k : i = k \/ (i \in 1 .. Len(s) /\ i < k)
    BY <1>1
  <1> HIDE DEF t, k
  <1>5. \A i \in 1 .. Len(s) : s[i] <= n /\ s[i] < x /\ s[i] <= x
    BY <1>1, <1>2 DEF UpToPiece
  <1>6. UpToPiece(t, x)
    BY SMTT(30), <1>2, <1>3, <1>4, <1>5 DEF UpToPiece
  <1>7. ASSUME NEW i \in 1 .. k, NEW j \in 1 .. k, i < j PROVE t[i] < t[j]
    <2>1. i \in 1 .. Len(s) /\ t[i] = s[i]
      BY SMTT(30), <1>3, <1>4, <1>7
    <2>2. CASE j = k
      BY <1>3, <1>5, <2>1, <2>2
    <2>3. CASE j \in 1 .. Len(s)
      BY <1>3, <1>7, <2>1, <2>3 DEF Rising
    <2> QED BY <1>4, <2>2, <2>3
  <1>8. Rising(t)
    BY <1>3, <1>7 DEF Rising
  <1> QED BY <1>3, <1>5, <1>6, <1>8 DEF t, x, UpToPiece

(* What comes before and what comes after. *)
LEMMA RisingConcat ==
  ASSUME NEW s \in Seq(Nat), NEW t \in Seq(Nat), NEW n \in Nat,
         Rising(s), Rising(t), Precedes(s, t), UpToPiece(s, n), UpToPiece(t, n)
  PROVE  Rising(s \o t) /\ UpToPiece(s \o t, n)
  <1> DEFINE a == Len(s)
             b == Len(t)
             u == s \o t
             k == a + b
  <1>1. a \in Nat /\ b \in Nat
    BY LenProperties
  <1>2. /\ u \in Seq(Nat) /\ Len(u) = k
        /\ \A i \in 1 .. k : u[i] = IF i <= a THEN s[i] ELSE t[i - a]
    BY ConcatProperties
  <1>3. \A i \in 1 .. k : (i <= a => i \in 1 .. a) /\ (~(i <= a) => i - a \in 1 .. b)
    BY <1>1
  <1> HIDE DEF u
  <1>4. ASSUME NEW i \in 1 .. k, NEW j \in 1 .. k, i < j PROVE u[i] < u[j]
    <2>1. CASE j <= a
      <3>1. i \in 1 .. a /\ j \in 1 .. a /\ i <= a
        BY <1>1, <1>4, <2>1
      <3>2. u[i] = s[i] /\ u[j] = s[j]
        BY <1>2, <2>1, <3>1
      <3> QED BY <1>4, <3>1, <3>2 DEF Rising
    <2>2. CASE i <= a /\ ~(j <= a)
      <3> DEFINE q == j - a
      <3>1. i \in 1 .. a /\ q \in 1 .. b /\ u[i] = s[i] /\ u[j] = t[q]
        BY <1>2, <1>3, <2>2
      <3> HIDE DEF q
      <3> QED BY <3>1 DEF Precedes
    <2>3. CASE ~(i <= a)
      <3> DEFINE p == i - a
                 q == j - a
      <3>1. ~(j <= a) /\ p < q
        BY <1>1, <1>4, <2>3
      <3>2. p \in 1 .. b /\ q \in 1 .. b /\ u[i] = t[p] /\ u[j] = t[q]
        BY <1>2, <1>3, <2>3, <3>1
      <3> HIDE DEF p, q
      <3> QED BY <3>1, <3>2 DEF Rising
    <2> QED BY <2>1, <2>2, <2>3
  <1>5. ASSUME NEW i \in 1 .. k PROVE u[i] <= n
    <2>1. CASE i <= a
      BY <1>2, <1>3, <2>1 DEF UpToPiece
    <2>2. CASE ~(i <= a)
      <3> DEFINE q == i - a
      <3>1. q \in 1 .. b /\ u[i] = t[q]
        BY <1>2, <1>3, <2>2
      <3> HIDE DEF q
      <3> QED BY <3>1 DEF UpToPiece
    <2> QED BY <2>1, <2>2
  <1> QED BY <1>2, <1>4, <1>5 DEF Rising, UpToPiece, u

(* The beginning of a text is as good as the text. *)
LEMMA BeginsRising ==
  ASSUME NEW s \in Seq(Nat), NEW t \in Seq(Nat), NEW a, NEW n, Begins(s, t)
  PROVE  /\ Rising(t) => Rising(s)
         /\ UpToPiece(t, n) => UpToPiece(s, n)
         /\ Precedes(a, t) => Precedes(a, s)
  <1>1. Len(s) \in Nat /\ Len(t) \in Nat /\ Len(s) <= Len(t) /\ \A i \in 1 .. Len(s) : s[i] = t[i]
    BY LenProperties DEF Begins
  <1>2. \A i \in 1 .. Len(s) : i \in 1 .. Len(t)
    BY <1>1
  <1> QED BY <1>1, <1>2 DEF Rising, UpToPiece, Precedes

(* A step that neither commits, copies, pushes nor clears text. *)
LEMMA SendFrame ==
  ASSUME SendInv, UNCHANGED <<buf, sent, text, committed>>, target' \in 0 .. MaxRx,
         pc' = "push" => pc = "push", pc = "clear" => pc' = "clear"
  PROVE  SendInv'
  BY DEF SendInv

(* At boot nothing has been committed or sent.                             *)
LEMMA SendInit == Init => SendInv
  <1> SUFFICES ASSUME Init PROVE SendInv
    OBVIOUS
  <1>1. TextsOf(<<>>) = <<>>
    BY DEF TextsOf
  <1>2. AllSent(<<>>) = <<>>
    BY <1>1, FlattenEmpty DEF AllSent
  <1> QED BY <1>2, MessagesAssumption
             DEF Init, SendInv, Rising, UpToPiece, Precedes

(* ime_task commits a piece: it comes after all that has been sent. *)
LEMMA SendCommits ==
  ASSUME SendInv, ImeCommits
  PROVE  SendInv'
  <1> DEFINE a == AllSent(sent)
             x == committed + 1
             t == Append(text, x)
  <1>1. UNCHANGED <<target, buf, sent, pc>> /\ committed' = x /\ text' = t
    BY DEF ImeCommits, lvglVars, sendVars
  <1>2. /\ text \in Seq(Nat) /\ committed \in Nat /\ Rising(text) /\ UpToPiece(text, committed)
        /\ Rising(a) /\ UpToPiece(a, committed)
    BY DEF SendInv
  <1>3. t \in Seq(Nat) /\ Rising(t) /\ UpToPiece(t, x)
    BY <1>2, RisingAppend
  <1>4. a \in Seq(Nat)
    <2>1. sent \in Seq(Sends)
      BY DEF SendInv
    <2> DEFINE r == [seq |-> 0, to |-> 0, shown |-> 0, text |-> <<>>]
    <2>2. r \in Sends
      BY MessagesAssumption DEF Sends
    <2> HIDE DEF r
    <2> QED BY <2>1, <2>2, AllSentAppend
  <1> HIDE DEF a
  <1>5. UpToPiece(a, x)
    BY <1>2, <1>4, RisingAppend
  <1>6. /\ Len(text) \in Nat /\ Len(t) = Len(text) + 1 /\ t[Len(text) + 1] = x
        /\ (\A i \in 1 .. Len(text) : t[i] = text[i])
    BY <1>2, LenProperties, AppendProperties
  <1>7. Precedes(a, text) => Precedes(a, t)
    <2> SUFFICES ASSUME Precedes(a, text), NEW i \in 1 .. Len(a), NEW j \in 1 .. Len(t)
                 PROVE  a[i] < t[j]
      BY DEF Precedes
    <2>1. CASE j \in 1 .. Len(text)
      BY <1>6, <2>1 DEF Precedes
    <2>2. CASE j = Len(text) + 1
      <3>1. a[i] \in Nat /\ a[i] <= committed
        BY <1>2, <1>4, ElementOfSeq DEF UpToPiece
      <3> QED BY <1>2, <1>6, <2>2, <3>1
    <2> QED BY <1>6, <2>1, <2>2
  <1>8. Begins(buf, text) => Begins(buf, t)
    <2> SUFFICES ASSUME Begins(buf, text) PROVE Begins(buf, t)
      OBVIOUS
    <2>1. buf \in Seq(Nat) /\ Len(buf) \in Nat
      BY LenProperties DEF SendInv
    <2>2. Len(buf) <= Len(text) /\ \A i \in 1 .. Len(buf) : buf[i] = text[i] /\ i \in 1 .. Len(text)
      BY <1>6, <2>1 DEF Begins
    <2> QED BY <1>6, <2>1, <2>2 DEF Begins
  <1> HIDE DEF t
  <1>9. x \in Nat
    BY <1>2
  <1> HIDE DEF x
  <1>10. SendInv => /\ target \in 0 .. MaxRx /\ sent \in Seq(Sends) /\ buf \in Seq(Nat)
                    /\ (pc # "clear" => Precedes(a, text)) /\ (pc = "push" => Begins(buf, text))
    BY DEF SendInv, a
  <1> QED BY <1>1, <1>2, <1>3, <1>5, <1>7, <1>8, <1>9, <1>10 DEF SendInv, a

(* lvgl_task copies how the text begins, as far as a message reaches. *)
LEMMA SendCopies ==
  ASSUME SendInv, CopyText
  PROVE  SendInv'
  <1> DEFINE k == IF Len(text) < SendMax THEN Len(text) ELSE SendMax
             b == SubSeq(text, 1, k)
  <1>1. /\ UNCHANGED <<target, sent, text, committed>> /\ buf' = b
        /\ pc # "clear" /\ pc' \in {"keys", "push"}
    BY DEF CopyText, othersOfLvgl
  <1>2. text \in Seq(Nat) /\ Len(text) \in Nat
    BY LenProperties DEF SendInv
  <1>3. k \in Nat /\ k <= Len(text)
    BY <1>2, MessagesAssumption
  <1> HIDE DEF k
  <1>4. b = [i \in 1 .. k |-> text[i]] /\ \A i \in 1 .. k : i \in 1 .. Len(text)
    BY <1>2, <1>3
  <1>5. \A i \in 1 .. k : text[i] \in Nat
    BY <1>2, <1>4, ElementOfSeq
  <1>6. b \in Seq(Nat) /\ Len(b) = k /\ \A i \in 1 .. k : b[i] = text[i]
    BY <1>3, <1>4, <1>5
  <1>7. Begins(b, text)
    BY <1>3, <1>6 DEF Begins
  <1> HIDE DEF b
  <1> QED BY <1>1, <1>6, <1>7 DEF SendInv

(* The reply is on the CMD ring: one text more has been sent. *)
LEMMA SendPushes ==
  ASSUME SendInv, BrowseInv, PushSucceeds
  PROVE  SendInv'
  <1> DEFINE a == AllSent(sent)
             r == [seq |-> sendSeq, to |-> target, shown |-> displayed.from, text |-> buf]
  <1>1. /\ UNCHANGED <<target, buf, text, committed>> /\ sent' = Append(sent, r)
        /\ pc = "push" /\ pc' = "clear"
    BY DEF PushSucceeds, othersOfLvgl
  <1>2. /\ sent \in Seq(Sends) /\ target \in 0 .. MaxRx /\ buf \in Seq(Nat) /\ text \in Seq(Nat)
        /\ committed \in Nat /\ Rising(text) /\ UpToPiece(text, committed)
        /\ Rising(a) /\ UpToPiece(a, committed) /\ Precedes(a, text) /\ Begins(buf, text)
    BY <1>1 DEF SendInv
  <1>3. sendSeq \in Nat /\ displayed.from \in 0 .. MaxRx
    BY DEF BrowseInv, ViewOK, Entries
  <1>4. r \in Sends /\ r.text = buf
    BY <1>2, <1>3 DEF Sends
  <1> HIDE DEF r
  <1>5. AllSent(sent') = a \o buf /\ a \in Seq(Nat) /\ sent' \in Seq(Sends)
    BY <1>1, <1>2, <1>4, AllSentAppend, AppendProperties
  <1> HIDE DEF a
  <1>6. Rising(buf) /\ UpToPiece(buf, committed) /\ Precedes(a, buf)
    BY <1>2, BeginsRising
  <1>7. Rising(a \o buf) /\ UpToPiece(a \o buf, committed)
    BY <1>2, <1>5, <1>6, RisingConcat
  <1>8. Rising(AllSent(sent')) /\ UpToPiece(AllSent(sent'), committed')
    BY <1>1, <1>5, <1>7
  <1> QED BY <1>1, <1>2, <1>5, <1>8 DEF SendInv

(* The text is cleared, and nothing of it is left to be sent again. *)
LEMMA SendClears ==
  ASSUME SendInv, ClearText
  PROVE  SendInv'
  <1>1. UNCHANGED <<target, buf, sent, committed>> /\ text' = <<>> /\ pc' = "keys"
    BY DEF ClearText, othersOfLvgl, sendVars
  <1>2. Rising(<<>>) /\ UpToPiece(<<>>, committed) /\ Precedes(AllSent(sent), <<>>)
    BY DEF Rising, UpToPiece, Precedes
  <1> QED BY <1>1, <1>2 DEF SendInv

(* Every step keeps it. *)
LEMMA SendStep == SendInv /\ BrowseInv /\ [Next]_vars => SendInv'
  <1> SUFFICES ASSUME SendInv, BrowseInv, [Next]_vars PROVE SendInv'
    OBVIOUS
  <1>t. target \in 0 .. MaxRx
    BY DEF SendInv
  <1>1. CASE BridgeTask
    <2>1. UNCHANGED <<lvglVars, textVars>>
      BY <1>1 DEF BridgeTask, PublishContinues, PublishBegins, PublishText, PublishSeq,
                  PublishIndex, PublishCount, AckBegins, AckResult, AckChange
    <2>2. UNCHANGED <<target, buf, sent, text, committed, pc>>
      BY <2>1 DEF lvglVars, textVars, sendVars
    <2> QED BY <1>t, <2>2, SendFrame
  <1>2. CASE ImeCommits
    BY <1>2, SendCommits
  <1>3. CASE OkPress
    <2>1. UNCHANGED <<buf, sent, text, committed>> /\ pc = "keys" /\ pc' \in {"keys", "copy"}
      BY <1>3 DEF OkPress, Pressed, othersOfLvgl
    <2>2. target' \in 0 .. MaxRx
      <3>1. slots \in [0 .. Capacity - 1 -> Entries] /\ offset \in 0 .. Capacity - 1 /\ writeIdx \in Nat
        BY MessagesAssumption DEF BrowseInv, CellsOK, ViewOK
      <3>2. SlotAt(offset) \in 0 .. Capacity - 1
        BY <3>1, SlotAtIsSlot
      <3>3. slots[SlotAt(offset)].from \in 0 .. MaxRx
        BY <3>1, <3>2 DEF Entries
      <3> QED BY <1>3, <1>t, <3>3 DEF OkPress
    <2> QED BY <2>1, <2>2, SendFrame
  <1>4. CASE CopyText
    BY <1>4, SendCopies
  <1>5. CASE PushSucceeds
    BY <1>5, SendPushes
  <1>6. CASE ClearText
    BY <1>6, SendClears
  <1>7. CASE FuncPress \/ UpPress \/ DownPress
    <2>1. UNCHANGED <<target, buf, sent, text, committed>> /\ pc = "keys" /\ pc' \in {"keys", "take"}
      BY <1>7 DEF FuncPress, UpPress, DownPress, Pressed, othersOfLvgl, sendVars
    <2> QED BY <1>t, <2>1, SendFrame
  <1>8. CASE PushFails
    <2>1. UNCHANGED <<target, buf, sent, text, committed>> /\ pc = "push" /\ pc' = "keys"
      BY <1>8 DEF PushFails, othersOfLvgl
    <2> QED BY <1>t, <2>1, SendFrame
  <1>9. CASE \/ TakeBegins \/ Render \/ RefreshHidden \/ Refresh \/ Peek \/ StatusBegins
             \/ StatusResult
    <2>1. UNCHANGED <<target, buf, sent, text, committed>> /\ pc # "clear"
      BY <1>9 DEF TakeBegins, Render, RefreshHidden, Refresh, Peek, StatusBegins,
                  StatusResult, othersOfLvgl, sendVars
    <2>2. pc' # "push"
      <3>1. after \in {"keys", "status"}
        BY DEF BrowseInv, ViewOK
      <3> QED BY <1>9, <3>1 DEF TakeBegins, Render, RefreshHidden, Refresh, Peek,
                                StatusBegins, StatusResult
    <2> QED BY <1>t, <2>1, <2>2, SendFrame
  <1>10. CASE UNCHANGED vars
    <2>1. UNCHANGED <<target, buf, sent, text, committed, pc>>
      BY <1>10 DEF vars, sendVars, textVars
    <2> QED BY <1>t, <2>1, SendFrame
  <1> QED BY <1>1, <1>2, <1>3, <1>4, <1>5, <1>6, <1>7, <1>8, <1>9, <1>10
            DEF Next, LvglKey, LvglTick

(* It implies SentOnce. *)
LEMMA SendIsOnce == SendInv => SentOnce
  <1> SUFFICES ASSUME SendInv PROVE SentOnce
    OBVIOUS
  <1> DEFINE a == AllSent(sent)
             r == [seq |-> 0, to |-> 0, shown |-> 0, text |-> <<>>]
  <1>1. sent \in Seq(Sends) /\ Rising(a)
    BY DEF SendInv
  <1>2. r \in Sends
    BY MessagesAssumption DEF Sends
  <1> HIDE DEF r
  <1>3. a \in Seq(Nat)
    BY <1>1, <1>2, AllSentAppend
  <1> HIDE DEF a
  <1>4. DOMAIN a = 1 .. Len(a)
    BY <1>3, LenProperties
  <1>5. \A i, j \in DOMAIN a : i < j => a[i] < a[j]
    BY <1>1, <1>4 DEF Rising
  <1> QED BY <1>5 DEF SentOnce, a, AllSent, TextsOf

(* messages_view.c:124-165: although the text stays in the IME's buffer    *)
(* until after the push, while ime_task goes on committing, and a failed   *)
(* push is repeated, no piece of it is sent twice or out of order.         *)
THEOREM NothingSentTwice == Spec => []SentOnce
  <1>1. Init => SendInv /\ BrowseInv
    BY SendInit, InitBrowse
  <1>2. SendInv /\ BrowseInv /\ [Next]_vars => (SendInv /\ BrowseInv)'
    BY SendStep, BrowseStep
  <1>3. SendInv /\ BrowseInv => SentOnce
    BY SendIsOnce
  <1> QED BY <1>1, <1>2, <1>3, PTL DEF Spec

-----------------------------------------------------------------------------
(* The table of peers *)

(* An entry of s_table.                                                    *)
Row == [id : Peers \cup {0}, data : 0 .. MaxUpdates, touch : 0 .. MaxUpdates]

(* Update n is the last one of peer p in h.                                *)
Latest(h, p, n) ==
  n \in 1 .. Len(h) /\ h[n] = p /\ \A m \in 1 .. Len(h) : h[m] = p => m <= n

(* No peer has two entries.                                                *)
OneEach(t) == \A i, j \in N!Slots : t[i].id # 0 /\ t[i].id = t[j].id => i = j

(* An entry has the last update of its peer, but for the one being stored  *)
(* in slot k.                                                              *)
UpToDate(t, h, k) ==
  \A i \in N!Slots : t[i].id # 0 /\ i # k =>
    Latest(h, t[i].id, t[i].data) /\ t[i].touch = t[i].data

(* A peer that is not in the table has left it full of later ones.         *)
OthersLater(t, h, k) ==
  \A n \in 1 .. Len(h) :
    \/ \E i \in N!Slots : t[i].id = h[n]
    \/ \A i \in N!Slots : t[i].id # 0 /\ (i # k => t[i].data > n)

(* Each peer that has been heard has been heard last.                      *)
HaveLatest(h) == \A n \in 1 .. Len(h) : \E m \in 1 .. Len(h) : Latest(h, h[n], m)

(* What a table holds of the updates in h while slot k is being filled.    *)
TableOK(t, h, k) == OneEach(t) /\ UpToDate(t, h, k) /\ OthersLater(t, h, k) /\ HaveLatest(h)

(* The slot that nodes_db_upsert is filling, if any.                       *)
Filling == IF nodesBridge \in {"data", "touch"} THEN at ELSE Capacity

(* The update under way.                                                   *)
UnderWay ==
  /\ nodesBridge # "idle" => heard # <<>> /\ table[at].id = heard[Len(heard)]
  /\ nodesBridge = "touch" => table[at].data = Len(heard)
  /\ clock = IF nodesBridge \in {"data", "touch"} THEN Len(heard) - 1 ELSE Len(heard)
  /\ change = IF nodesBridge = "idle" THEN Len(heard) ELSE Len(heard) - 1

(* Why the table holds the peers heard most recently.                      *)
NodesInv ==
  /\ N!TypeOK /\ (nodesPc = "pass" => pass <= nodesOffset)
  /\ TableOK(table, heard, Filling) /\ UnderWay

(* What the constants are. *)
LEMMA NodeConstants ==
  /\ Capacity \in Nat \ {0} /\ Peers \subseteq Nat \ {0} /\ MaxUpdates \in Nat /\ MaxKeys \in Nat
  /\ N!Slots = 0 .. Capacity - 1 /\ N!Slots # {} /\ Capacity \notin N!Slots
  <1>1. /\ Capacity \in Nat \ {0} /\ Peers \subseteq Nat \ {0} /\ MaxUpdates \in Nat
        /\ MaxKeys \in Nat
    BY NodesConstants DEF N!NodesAssumption
  <1>2. N!Slots = 0 .. Capacity - 1
    BY DEF N!Slots
  <1>3. 0 \in 0 .. Capacity - 1 /\ Capacity \notin 0 .. Capacity - 1
    BY <1>1
  <1> QED BY <1>1, <1>2, <1>3

(* The library's operators are the same in the instance of Nodes.          *)
LEMMA SameOperators ==
  /\ \A S : N!Max(S) = Max(S) /\ N!Min(S) = Min(S) /\ N!Range(S) = Range(S)
  /\ \A S : N!Cardinality(S) = Cardinality(S)
  <1>1. \A S : N!Max(S) = Max(S) /\ N!Min(S) = Min(S) /\ N!Range(S) = Range(S)
    BY DEF N!Max, Max, N!Min, Min, N!Range, Range
  <1>2. \A S : N!Cardinality(S) = Cardinality(S)
    BY DEF N!Cardinality, Cardinality
  <1> QED BY <1>1, <1>2

(* A row of the table. *)
LEMMA RowFields ==
  ASSUME NEW r \in Row
  PROVE  /\ r.id \in Nat /\ r.id \in Peers \cup {0} /\ r.data \in 0 .. MaxUpdates
         /\ r.touch \in 0 .. MaxUpdates /\ r.data \in Nat /\ r.touch \in Nat
  <1>1. r.id \in Peers \cup {0} /\ r.data \in 0 .. MaxUpdates /\ r.touch \in 0 .. MaxUpdates
    BY DEF Row
  <1>2. \A p \in Peers \cup {0} : p \in Nat
    BY NodeConstants
  <1>3. r.data \in Nat /\ r.touch \in Nat
    BY <1>1, NodeConstants
  <1> HIDE DEF Row
  <1> QED BY <1>1, <1>2, <1>3

(* One field of one row is written. *)
LEMMA FieldWritten ==
  ASSUME NEW t \in [N!Slots -> Row], NEW k \in N!Slots
  PROVE  /\ \A v \in Peers \cup {0} : LET u == [t EXCEPT ![k].id = v] IN
              /\ u \in [N!Slots -> Row] /\ \A i \in N!Slots : i # k => u[i] = t[i]
              /\ u[k].id = v /\ u[k].data = t[k].data /\ u[k].touch = t[k].touch
         /\ \A v \in 0 .. MaxUpdates : LET u == [t EXCEPT ![k].data = v] IN
              /\ u \in [N!Slots -> Row] /\ \A i \in N!Slots : i # k => u[i] = t[i]
              /\ u[k].id = t[k].id /\ u[k].data = v /\ u[k].touch = t[k].touch
         /\ \A v \in 0 .. MaxUpdates : LET u == [t EXCEPT ![k].touch = v] IN
              /\ u \in [N!Slots -> Row] /\ \A i \in N!Slots : i # k => u[i] = t[i]
              /\ u[k].id = t[k].id /\ u[k].data = t[k].data /\ u[k].touch = v
  BY DEF Row

(* A peer is heard again, or for the first time. *)
LEMMA HeardOnce ==
  ASSUME NEW h \in Seq(Peers), NEW id \in Peers
  PROVE  LET g == Append(h, id) IN
         /\ g \in Seq(Peers) /\ Len(g) = Len(h) + 1 /\ Len(h) \in Nat /\ g[Len(g)] = id
         /\ \A n \in 1 .. Len(g) : n \in 1 .. Len(h) \/ n = Len(g)
         /\ \A n \in 1 .. Len(h) : n \in 1 .. Len(g) /\ g[n] = h[n] /\ h[n] \in Peers
         /\ Latest(g, id, Len(g))
         /\ \A p, n : p # id /\ Latest(h, p, n) => Latest(g, p, n)
         /\ HaveLatest(h) => HaveLatest(g)
  <1> DEFINE g == Append(h, id)
             l == Len(h)
             m == l + 1
  <1>1. /\ g \in Seq(Peers) /\ Len(g) = m /\ l \in Nat /\ g[m] = id
        /\ \A n \in 1 .. l : g[n] = h[n] /\ h[n] \in Peers
    BY AppendProperties, LenProperties, ElementOfSeq
  <1>2. /\ \A n \in 1 .. m : n \in 1 .. l \/ n = m
        /\ \A n \in 1 .. l : n \in 1 .. m
        /\ m \in 1 .. m /\ \A n \in 1 .. m : n <= m
    BY <1>1
  <1> HIDE DEF g, m, l
  <1>3. Latest(g, id, m)
    BY <1>1, <1>2 DEF Latest
  <1>4. ASSUME NEW p, NEW n, p # id, Latest(h, p, n) PROVE Latest(g, p, n)
    BY <1>1, <1>2, <1>4 DEF Latest, l
  <1>5. ASSUME HaveLatest(h) PROVE HaveLatest(g)
    <2> SUFFICES ASSUME NEW n \in 1 .. m PROVE \E q \in 1 .. m : Latest(g, g[n], q)
      BY <1>1 DEF HaveLatest
    <2>1. CASE g[n] = id
      BY <1>2, <1>3, <2>1
    <2>2. CASE g[n] # id
      <3>1. n \in 1 .. l /\ g[n] = h[n]
        BY <1>1, <1>2, <2>2
      <3>2. PICK q \in 1 .. l : Latest(h, h[n], q)
        BY <1>5, <3>1 DEF HaveLatest, l
      <3> QED BY <1>2, <1>4, <2>2, <3>1, <3>2
    <2> QED BY <2>1, <2>2
  <1> QED BY <1>1, <1>2, <1>3, <1>4, <1>5 DEF g, l, m

(* The slot for a peer: its own, a free one, or the one touched least      *)
(* recently.                                                               *)
IsSlotFor(t, id, k) ==
  /\ k \in N!Slots
  /\ \/ t[k].id = id
     \/ /\ \A i \in N!Slots : t[i].id # id
        /\ \/ t[k].id = 0
           \/ \A i \in N!Slots : t[i].id # 0 /\ t[k].touch <= t[i].touch

(* nodes_db_upsert begins: the slot gets the peer. *)
LEMMA SlotTaken ==
  ASSUME NEW t \in [N!Slots -> Row], NEW h \in Seq(Peers), NEW id \in Peers,
         TableOK(t, h, Capacity), NEW k, IsSlotFor(t, id, k)
  PROVE  TableOK([t EXCEPT ![k].id = id], Append(h, id), k)
  <1> DEFINE u == [t EXCEPT ![k].id = id]
             g == Append(h, id)
             l == Len(h)
  <1>0. k \in N!Slots /\ \A i \in N!Slots : i # Capacity
    BY NodeConstants DEF IsSlotFor
  <1>1. u \in [N!Slots -> Row] /\ u[k].id = id /\ \A i \in N!Slots : i # k => u[i] = t[i]
    BY <1>0, FieldWritten
  <1>2. /\ g \in Seq(Peers) /\ Len(g) = l + 1 /\ l \in Nat /\ g[Len(g)] = id
        /\ \A n \in 1 .. Len(g) : n \in 1 .. l \/ n = Len(g)
        /\ \A n \in 1 .. l : n \in 1 .. Len(g) /\ g[n] = h[n] /\ h[n] \in Peers
        /\ \A p, n : p # id /\ Latest(h, p, n) => Latest(g, p, n)
        /\ HaveLatest(g)
    BY HeardOnce DEF TableOK
  <1>3. id # 0 /\ 0 \notin Peers
    BY NodeConstants
  <1> HIDE DEF u, g, l
  <1>4. \A i \in N!Slots : i # k => t[i].id # id
    BY <1>0, <1>3 DEF TableOK, OneEach, IsSlotFor
  <1>5. OneEach(u)
    BY <1>1, <1>4 DEF OneEach, TableOK
  <1>6. UpToDate(u, g, k)
    <2> SUFFICES ASSUME NEW i \in N!Slots, u[i].id # 0, i # k
                 PROVE  Latest(g, u[i].id, u[i].data) /\ u[i].touch = u[i].data
      BY DEF UpToDate
    <2>1. u[i] = t[i] /\ t[i].id # id /\ i # Capacity
      BY <1>0, <1>1, <1>4
    <2>2. Latest(h, t[i].id, t[i].data) /\ t[i].touch = t[i].data
      BY <2>1 DEF TableOK, UpToDate
    <2> QED BY <1>2, <2>1, <2>2
  <1>7. OthersLater(u, g, k)
    <2> SUFFICES ASSUME NEW n \in 1 .. Len(g), \A i \in N!Slots : u[i].id # g[n]
                 PROVE  \A i \in N!Slots : u[i].id # 0 /\ (i # k => u[i].data > n)
      BY DEF OthersLater
    <2>1. n \in 1 .. l /\ g[n] = h[n] /\ h[n] # id /\ h[n] \in Peers
      BY <1>0, <1>1, <1>2
    <2>2. \A i \in N!Slots : i # k => t[i].id # h[n]
      BY <1>1, <2>1
    <2>3. CASE t[k].id # h[n]
      <3>1. \A i \in N!Slots : t[i].id # 0 /\ t[i].data > n
        BY <1>0, <2>1, <2>2, <2>3 DEF TableOK, OthersLater, l
      <3> QED BY <1>1, <1>3, <3>1
    <2>4. CASE t[k].id = h[n]
      <3>1. t[k].id # 0 /\ t[k].id # id
        BY <1>3, <2>1, <2>4
      <3>2. \A i \in N!Slots : t[i].id # 0 /\ t[k].touch <= t[i].touch
        BY <3>1 DEF IsSlotFor
      <3>3. \A i \in N!Slots : Latest(h, t[i].id, t[i].data) /\ t[i].touch = t[i].data
        BY <1>0, <3>2 DEF TableOK, UpToDate
      <3>4. n <= t[k].data
        BY <1>0, <2>1, <2>4, <3>3 DEF Latest, l
      <3>5. ASSUME NEW i \in N!Slots, i # k PROVE t[i].data > n
        <4>1. t[i].data # t[k].data
          BY <1>0, <2>2, <2>4, <3>3, <3>5 DEF Latest
        <4>2. t[i].data \in Nat /\ t[k].data \in Nat /\ t[k].data <= t[i].data
          BY <1>0, <3>2, <3>3, RowFields
        <4> QED BY <2>1, <3>4, <4>1, <4>2
      <3> QED BY <1>1, <1>3, <3>2, <3>5
    <2> QED BY <2>3, <2>4
  <1> QED BY <1>2, <1>5, <1>6, <1>7 DEF TableOK, u, g

(* The other fields are written before the touch. *)
LEMMA DataStored ==
  ASSUME NEW t \in [N!Slots -> Row], NEW h \in Seq(Peers), NEW k \in N!Slots,
         TableOK(t, h, k), NEW v \in 0 .. MaxUpdates
  PROVE  TableOK([t EXCEPT ![k].data = v], h, k)
  <1> DEFINE u == [t EXCEPT ![k].data = v]
  <1>1. u[k].id = t[k].id /\ \A i \in N!Slots : i # k => u[i] = t[i]
    BY FieldWritten
  <1>2. \A i \in N!Slots : u[i].id = t[i].id
    BY <1>1
  <1> HIDE DEF u
  <1>3. OneEach(u)
    BY <1>2 DEF TableOK, OneEach
  <1>4. UpToDate(u, h, k)
    BY <1>1 DEF TableOK, UpToDate
  <1>5. OthersLater(u, h, k)
    BY <1>1, <1>2 DEF TableOK, OthersLater
  <1> QED BY <1>3, <1>4, <1>5 DEF TableOK, u

(* The touch ends the update: the entry is the last one. *)
LEMMA TouchStored ==
  ASSUME NEW t \in [N!Slots -> Row], NEW h \in Seq(Peers), h # <<>>, NEW k \in N!Slots,
         TableOK(t, h, k), t[k].id = h[Len(h)], t[k].data = Len(h), Len(h) <= MaxUpdates
  PROVE  TableOK([t EXCEPT ![k].touch = Len(h)], h, Capacity)
  <1> DEFINE l == Len(h)
             u == [t EXCEPT ![k].touch = l]
  <1>1. l \in 1 .. MaxUpdates /\ l \in 1 .. l /\ l \in 0 .. MaxUpdates /\ h[l] \in Peers
    BY EmptySeq, LenProperties, ElementOfSeq, NodeConstants
  <1>2. /\ u[k].id = t[k].id /\ u[k].data = t[k].data /\ u[k].touch = l
        /\ \A i \in N!Slots : i # k => u[i] = t[i]
    BY <1>1, FieldWritten
  <1>3. \A i \in N!Slots : u[i].id = t[i].id /\ u[i].data = t[i].data
    BY <1>2
  <1>4. \A n \in 1 .. l : n <= l /\ (n # l => l > n)
    BY <1>1
  <1>5. Latest(h, t[k].id, l)
    BY <1>1, <1>4 DEF Latest, l
  <1> HIDE DEF u
  <1>6. OneEach(u)
    BY <1>3 DEF TableOK, OneEach
  <1>7. UpToDate(u, h, Capacity)
    BY <1>2, <1>5 DEF TableOK, UpToDate, l
  <1>8. OthersLater(u, h, Capacity)
    <2> SUFFICES ASSUME NEW n \in 1 .. l, \A i \in N!Slots : u[i].id # h[n]
                 PROVE  \A i \in N!Slots : u[i].id # 0 /\ u[i].data > n
      BY DEF OthersLater, l
    <2>1. n # l
      BY <1>2
    <2>2. \A i \in N!Slots : t[i].id # 0 /\ (i # k => t[i].data > n)
      BY <1>3 DEF TableOK, OthersLater, l
    <2>3. t[k].data > n
      BY <1>4, <2>1 DEF l
    <2> QED BY <1>3, <2>2, <2>3
  <1> QED BY <1>6, <1>7, <1>8 DEF TableOK, u, l

(* Among some slots, one is touched least and one most recently. *)
LEMMA SlotsOrdered ==
  ASSUME NEW t \in [N!Slots -> Row], NEW B \in SUBSET N!Slots, B # {}
  PROVE  /\ \E i \in B : \A j \in B : t[i].touch <= t[j].touch
         /\ \E i \in B : \A j \in B : t[i].touch >= t[j].touch
  <1>1. MaxUpdates \in Nat /\ \A i \in B : t[i].touch \in 0 .. MaxUpdates
    BY NodeConstants, RowFields
  <1> DEFINE L == {t[i].touch : i \in B}
             G == {MaxUpdates - t[i].touch : i \in B}
  <1>2. L \in SUBSET Nat /\ L # {} /\ G \in SUBSET Nat /\ G # {}
    BY <1>1
  <1>3. PICK l \in L : \A m \in L : l <= m
    BY <1>2, LeastNatural
  <1>4. PICK g \in G : \A m \in G : g <= m
    BY <1>2, LeastNatural
  <1>5. PICK i \in B : l = t[i].touch
    BY <1>3
  <1>6. PICK k \in B : g = MaxUpdates - t[k].touch
    BY <1>4
  <1>7. \A j \in B : MaxUpdates - t[k].touch <= MaxUpdates - t[j].touch
    BY <1>4, <1>6
  <1>8. \A j \in B : t[k].touch >= t[j].touch
    BY <1>1, <1>7
  <1> QED BY <1>3, <1>5, <1>8

(* nodes_db_upsert finds such a slot. *)
LEMMA SlotForIs ==
  ASSUME table \in [N!Slots -> Row], NEW id \in Peers
  PROVE  IsSlotFor(table, id, N!SlotFor(id))
  <1>1. CASE \E i \in N!Used : table[i].id = id
    <2>1. N!SlotFor(id) \in N!Used /\ table[N!SlotFor(id)].id = id
      BY <1>1 DEF N!SlotFor
    <2> QED BY <2>1 DEF IsSlotFor, N!Used
  <1>2. CASE ~ \E i \in N!Used : table[i].id = id
    <2> DEFINE k == N!SlotFor(id)
    <2>1. k = N!FreeOrOldest /\ \A i \in N!Slots : table[i].id # id
      BY <1>2, NodeConstants DEF N!SlotFor, N!Used
    <2> HIDE DEF k
    <2>2. CASE N!Used # N!Slots
      <3> DEFINE F == N!Slots \ N!Used
      <3>1. F # {} /\ F \in SUBSET Nat
        BY <2>2, NodeConstants DEF N!Used
      <3>2. \E n \in F : \A m \in F : n <= m
        BY <3>1, LeastNatural
      <3>3. Min(F) \in F
        BY <3>2 DEF Min
      <3>4. k \in F
        BY <2>1, <2>2, <3>3, SameOperators DEF N!FreeOrOldest
      <3> QED BY <2>1, <3>4 DEF IsSlotFor, N!Used, k
    <2>3. CASE N!Used = N!Slots
      <3>1. \E i \in N!Slots : \A j \in N!Slots : table[i].touch <= table[j].touch
        BY SlotsOrdered, NodeConstants
      <3>2. k \in N!Slots /\ \A j \in N!Slots : table[k].touch <= table[j].touch
        BY <2>1, <2>3, <3>1 DEF N!FreeOrOldest, N!Oldest
      <3>3. \A i \in N!Slots : table[i].id # 0
        BY <2>3 DEF N!Used
      <3> QED BY <2>1, <3>2, <3>3 DEF IsSlotFor, k
    <2> QED BY <2>2, <2>3
  <1> QED BY <1>1, <1>2

(* How many entries there are. *)
LEMMA CountIs ==
  /\ IsFiniteSet(N!Slots) /\ Cardinality(N!Slots) = Capacity
  /\ IsFiniteSet(N!Used) /\ N!Count \in 0 .. Capacity
  /\ N!Used = N!Slots => N!Count = Capacity
  <1>1. IsFiniteSet(N!Slots) /\ Cardinality(N!Slots) = Capacity /\ Capacity \in Nat
    <2>1. 0 \in Int /\ Capacity - 1 \in Int /\ ~(0 > Capacity - 1) /\ (Capacity - 1) - 0 + 1 = Capacity
      BY NodeConstants
    <2> QED BY <2>1, FS_Interval, NodeConstants
  <1>2. N!Used \in SUBSET N!Slots
    BY DEF N!Used
  <1>3. IsFiniteSet(N!Used) /\ Cardinality(N!Used) <= Cardinality(N!Slots)
    BY <1>1, <1>2, FS_Subset
  <1>4. Cardinality(N!Used) \in Nat
    BY <1>3, FS_CardinalityType
  <1>5. N!Count = Cardinality(N!Used)
    BY SameOperators DEF N!Count
  <1> QED BY <1>1, <1>3, <1>4, <1>5

(* The last update is the one with the greatest number. *)
LEMMA LatestIsLast ==
  ASSUME heard \in Seq(Peers), NEW p, NEW n, Latest(heard, p, n)
  PROVE  N!LastHeard(p) = n
  <1> DEFINE S == {m \in DOMAIN heard : heard[m] = p}
  <1>1. DOMAIN heard = 1 .. Len(heard) /\ Len(heard) \in Nat
    BY LenProperties
  <1>2. n \in S /\ (\A m \in S : n >= m) /\ S \subseteq Nat
    BY <1>1 DEF Latest
  <1>3. \A k \in S : (\A m \in S : k >= m) => k = n
    BY <1>2
  <1> HIDE DEF S
  <1>4. Max(S) = n
    BY <1>2, <1>3 DEF Max
  <1> QED BY <1>4, SameOperators DEF S, N!LastHeard

(* Between two updates the entries are those of the peers heard most       *)
(* recently.                                                               *)
LEMMA RecentAreKept ==
  ASSUME table \in [N!Slots -> Row], heard \in Seq(Peers), TableOK(table, heard, Capacity)
  PROVE  /\ {<<table[i].id, table[i].data>> : i \in N!Used}
              = {<<id, N!LastHeard(id)>> : id \in N!Recent}
         /\ N!Count = N!Cardinality(N!Recent)
  <1> DEFINE T == {table[i].id : i \in N!Used}
             H == Range(heard)
             later(id) == {p \in H : N!LastHeard(p) > N!LastHeard(id)}
             f == [i \in N!Used |-> table[i].id]
             l == Len(heard)
  <1>0. /\ l \in Nat /\ H = {heard[n] : n \in 1 .. l}
        /\ \A i \in N!Used : i \in N!Slots /\ table[i].id # 0 /\ i # Capacity
        /\ \A i \in N!Slots : table[i].id # 0 => i \in N!Used
        /\ \A n \in 1 .. l : heard[n] # 0
    <2>1. \A n \in 1 .. l : heard[n] \in Peers
      BY ElementOfSeq
    <2> QED BY <2>1, NodeConstants, LenProperties DEF Range, N!Used
  <1>1. f \in Surjection(N!Used, T) /\ f \in Injection(N!Used, T)
    <2>1. \A i, j \in N!Used : f[i] = f[j] => i = j
      BY <1>0 DEF TableOK, OneEach
    <2>2. f \in [N!Used -> T] /\ \A x \in T : \E i \in N!Used : f[i] = x
      OBVIOUS
    <2> HIDE DEF f
    <2> QED BY <2>1, <2>2 DEF Surjection, Injection, IsInjective
  <1>2. IsFiniteSet(T) /\ Cardinality(T) = N!Count
    BY <1>1, CountIs, FS_Surjection, SameOperators DEF N!Count
  <1>3. IsFiniteSet(H)
    <2> DEFINE g == [n \in 1 .. l |-> heard[n]]
    <2>1. g \in Surjection(1 .. l, H)
      BY <1>0 DEF Surjection
    <2>2. IsFiniteSet(1 .. l)
      BY <1>0, FS_Interval
    <2> QED BY <2>1, <2>2, FS_Surjection
  <1> HIDE DEF f
  <1>4. \A i \in N!Used : /\ Latest(heard, table[i].id, table[i].data)
                          /\ N!LastHeard(table[i].id) = table[i].data
                          /\ table[i].data \in Nat /\ table[i].id \in H
    <2> TAKE i \in N!Used
    <2>1. Latest(heard, table[i].id, table[i].data)
      BY <1>0 DEF TableOK, UpToDate
    <2>2. N!LastHeard(table[i].id) = table[i].data
      BY <2>1, LatestIsLast
    <2>3. table[i].id \in H /\ table[i].data \in Nat
      BY <1>0, <2>1 DEF Latest
    <2> QED BY <2>1, <2>2, <2>3
  <1>5. \A p \in H : \E n \in 1 .. l : Latest(heard, p, n) /\ N!LastHeard(p) = n
    <2> TAKE p \in H
    <2>1. PICK m \in 1 .. l : heard[m] = p
      BY <1>0
    <2>2. PICK n \in 1 .. l : Latest(heard, p, n)
      BY <2>1 DEF TableOK, HaveLatest
    <2> QED BY <2>2, LatestIsLast
  <1>6. \A n \in 1 .. l : heard[n] \notin T =>
          N!Used = N!Slots /\ \A i \in N!Slots : table[i].data > n
    <2> SUFFICES ASSUME NEW n \in 1 .. l, heard[n] \notin T
                 PROVE  N!Used = N!Slots /\ \A i \in N!Slots : table[i].data > n
      OBVIOUS
    <2>1. \A i \in N!Slots : table[i].id # heard[n]
      BY <1>0
    <2>2. \A i \in N!Slots : table[i].id # 0 /\ (i # Capacity => table[i].data > n)
      BY <2>1 DEF TableOK, OthersLater
    <2>3. N!Used = N!Slots
      BY <2>2 DEF N!Used
    <2> QED BY <1>0, <2>2, <2>3
  <1>7. ASSUME NEW id \in T PROVE id \in N!Recent
    <2>1. PICK i \in N!Used : table[i].id = id
      OBVIOUS
    <2>2. id \in H /\ N!LastHeard(id) = table[i].data /\ table[i].data \in Nat
      BY <1>4, <2>1
    <2> HIDE DEF T, H
    <2>3. later(id) \subseteq T \ {id}
      <3> SUFFICES ASSUME NEW p \in H, N!LastHeard(p) > table[i].data PROVE p \in T /\ p # id
        BY <2>2
      <3>1. PICK n \in 1 .. l : Latest(heard, p, n) /\ N!LastHeard(p) = n
        BY <1>5
      <3>2. p # id
        BY <1>0, <2>2, <3>1
      <3>3. heard[n] = p /\ i \in N!Slots
        BY <1>0, <3>1 DEF Latest
      <3>4. ~(table[i].data > n)
        BY <1>0, <2>2, <3>1
      <3> QED BY <1>6, <3>2, <3>3, <3>4
    <2>4. IsFiniteSet(T \ {id}) /\ Cardinality(T \ {id}) = Cardinality(T) - 1
      BY <1>2, FS_RemoveElement
    <2>5. IsFiniteSet(later(id)) /\ Cardinality(later(id)) <= Cardinality(T) - 1
      BY <2>3, <2>4, FS_Subset
    <2>6. Cardinality(later(id)) \in Nat
      BY <2>5, FS_CardinalityType
    <2>7. Cardinality(later(id)) < Capacity
      BY <1>2, <2>5, <2>6, CountIs, NodeConstants
    <2> QED BY <2>2, <2>7, SameOperators DEF N!Recent, H
  <1>8. ASSUME NEW id \in N!Recent PROVE id \in T
    <2>1. id \in H /\ Cardinality(later(id)) < Capacity
      BY SameOperators DEF N!Recent
    <2> SUFFICES ASSUME id \notin T PROVE FALSE
      OBVIOUS
    <2>2. PICK n \in 1 .. l : Latest(heard, id, n) /\ N!LastHeard(id) = n
      BY <1>5, <2>1
    <2>3. N!Used = N!Slots /\ \A i \in N!Slots : table[i].data > n
      BY <1>6, <2>2 DEF Latest
    <2>4. T \subseteq later(id)
      BY <1>4, <2>2, <2>3
    <2>5. IsFiniteSet(later(id))
      <3>1. later(id) \in SUBSET H
        OBVIOUS
      <3> HIDE DEF later
      <3> QED BY <1>3, <3>1, FS_Subset
    <2> HIDE DEF later, T
    <2>6. Cardinality(T) <= Cardinality(later(id))
      BY <2>4, <2>5, FS_Subset
    <2>7. Cardinality(T) = Capacity
      BY <1>2, <2>3, CountIs
    <2>8. Cardinality(later(id)) \in Nat
      BY <2>5, FS_CardinalityType
    <2> QED BY <2>1, <2>6, <2>7, <2>8, NodeConstants
  <1>9. N!Recent = T
    BY <1>7, <1>8
  <1> HIDE DEF H
  <1>10. {<<table[i].id, table[i].data>> : i \in N!Used} = {<<id, N!LastHeard(id)>> : id \in T}
    BY <1>4
  <1> QED BY <1>2, <1>9, <1>10, SameOperators

-----------------------------------------------------------------------------
(* The types of the variables of bridge_task.                              *)
LEMMA NodeTypes ==
  ASSUME NodesInv
  PROVE  /\ table \in [N!Slots -> Row] /\ clock \in 0 .. MaxUpdates /\ change \in 0 .. MaxUpdates
         /\ last \in 0 .. MaxUpdates /\ at \in N!Slots /\ heard \in Seq(Peers)
         /\ Len(heard) \in Nat /\ Len(heard) <= MaxUpdates
         /\ nodesBridge \in {"idle", "data", "touch", "change"}
         /\ Filling \in Nat
  <1>1. /\ table \in [N!Slots -> Row] /\ clock \in 0 .. MaxUpdates /\ change \in 0 .. MaxUpdates
        /\ last \in 0 .. MaxUpdates /\ at \in N!Slots /\ heard \in Seq(Peers)
        /\ Len(heard) <= MaxUpdates /\ nodesBridge \in {"idle", "data", "touch", "change"}
    BY DEF NodesInv, N!TypeOK, Row
  <1> QED BY <1>1, LenProperties, NodeConstants DEF Filling

(* What nodes_db_upsert does to the types.                                 *)
LEMMA UpsertTypes ==
  ASSUME NodesInv, UNCHANGED N!lvglVars, table' \in [N!Slots -> Row],
         {clock', change'} \subseteq 0 .. MaxUpdates,
         nodesBridge' \in {"idle", "data", "touch", "change"}, at' \in N!Slots,
         heard' \in Seq(Peers), Len(heard') <= MaxUpdates
  PROVE  N!TypeOK' /\ (nodesPc' = "pass" => pass' <= nodesOffset')
  <1>1. UNCHANGED <<nodesPc, pass, prevHigh, selected, nodesEntry, nodesOffset, nodesSticky, last,
                    nodesHidden, nodesDisplayed, nodesKeys, missed>>
    BY DEF N!lvglVars, N!takeVars, N!viewVars
  <1>2. N!TypeOK'
    BY <1>1 DEF NodesInv, N!TypeOK, Row
  <1> QED BY <1>1, <1>2 DEF NodesInv

(* An update of a peer is stored, step by step.                            *)
LEMMA UpsertStep ==
  ASSUME NodesInv, N!UpsertContinues \/ \E id \in Peers : N!UpsertBegins(id)
  PROVE  NodesInv'
  <1>t. /\ table \in [N!Slots -> Row] /\ clock \in 0 .. MaxUpdates /\ change \in 0 .. MaxUpdates
        /\ at \in N!Slots /\ heard \in Seq(Peers) /\ Len(heard) \in Nat
        /\ Len(heard) <= MaxUpdates /\ MaxUpdates \in Nat
        /\ TableOK(table, heard, Filling) /\ UnderWay
    BY NodeTypes, NodeConstants DEF NodesInv
  <1>1. ASSUME NEW id \in Peers, N!UpsertBegins(id) PROVE NodesInv'
    <2> DEFINE k == N!SlotFor(id)
    <2>1. /\ nodesBridge = "idle" /\ Len(heard) < MaxUpdates /\ heard' = Append(heard, id)
          /\ at' = k /\ table' = [table EXCEPT ![at'].id = id] /\ nodesBridge' = "data"
          /\ clock' = clock /\ change' = change /\ UNCHANGED N!lvglVars
      BY <1>1 DEF N!UpsertBegins
    <2>2. IsSlotFor(table, id, k) /\ k \in N!Slots
      BY <1>t, SlotForIs DEF IsSlotFor
    <2> HIDE DEF k
    <2>3. /\ heard' \in Seq(Peers) /\ Len(heard') = Len(heard) + 1 /\ heard'[Len(heard')] = id
      BY <1>t, <2>1, HeardOnce
    <2>4. table' \in [N!Slots -> Row] /\ table'[at'].id = id
      BY <1>t, <2>1, <2>2, FieldWritten
    <2>5. Filling = Capacity /\ Filling' = at'
      BY <2>1 DEF Filling
    <2>6. TableOK(table', heard', Filling')
      BY <1>t, <2>1, <2>2, <2>5, SlotTaken
    <2>7. Len(heard') <= MaxUpdates /\ heard' # <<>>
      BY <1>t, <2>1, <2>3, EmptySeq
    <2>8. UnderWay'
      <3>1. clock = Len(heard) /\ change = Len(heard)
        BY <1>t, <2>1 DEF UnderWay
      <3>2. clock' = Len(heard') - 1 /\ change' = Len(heard') - 1
        BY <1>t, <2>1, <2>3, <3>1
      <3> QED BY <2>1, <2>3, <2>4, <2>7, <3>2 DEF UnderWay
    <2>9. N!TypeOK' /\ (nodesPc' = "pass" => pass' <= nodesOffset')
      BY <1>t, <2>1, <2>2, <2>3, <2>4, <2>7, UpsertTypes
    <2> QED BY <2>6, <2>8, <2>9 DEF NodesInv
  <1>2. CASE N!UpsertData
    <2>1. /\ nodesBridge = "data" /\ nodesBridge' = "touch"
          /\ table' = [table EXCEPT ![at].data = Len(heard)]
          /\ UNCHANGED <<clock, change, at, heard>> /\ UNCHANGED N!lvglVars
      BY <1>2 DEF N!UpsertData
    <2>2. Len(heard) \in 0 .. MaxUpdates
      BY <1>t
    <2>3. table' \in [N!Slots -> Row] /\ table'[at].id = table[at].id /\ table'[at].data = Len(heard)
      BY <1>t, <2>1, <2>2, FieldWritten
    <2>4. Filling = at /\ Filling' = at
      BY <2>1 DEF Filling
    <2>5. TableOK(table', heard', Filling')
      BY <1>t, <2>1, <2>2, <2>4, DataStored
    <2>6. UnderWay'
      BY <1>t, <2>1, <2>3 DEF UnderWay
    <2>7. N!TypeOK' /\ (nodesPc' = "pass" => pass' <= nodesOffset')
      BY <1>t, <2>1, <2>3, UpsertTypes
    <2> QED BY <2>5, <2>6, <2>7 DEF NodesInv
  <1>3. CASE N!UpsertTouch
    <2>1. /\ nodesBridge = "touch" /\ nodesBridge' = "change" /\ clock' = clock + 1
          /\ table' = [table EXCEPT ![at].touch = clock']
          /\ UNCHANGED <<change, at, heard>> /\ UNCHANGED N!lvglVars
      BY <1>3 DEF N!UpsertTouch
    <2>2. /\ heard # <<>> /\ table[at].id = heard[Len(heard)] /\ table[at].data = Len(heard)
          /\ clock = Len(heard) - 1 /\ change = Len(heard) - 1
      BY <1>t, <2>1 DEF UnderWay
    <2>3. clock' = Len(heard) /\ clock' \in 0 .. MaxUpdates
      BY <1>t, <2>1, <2>2
    <2>4. table' \in [N!Slots -> Row] /\ table'[at].id = table[at].id
      BY <1>t, <2>1, <2>3, FieldWritten
    <2>5. Filling = at /\ Filling' = Capacity
      BY <2>1 DEF Filling
    <2>6. TableOK(table', heard', Filling')
      BY <1>t, <2>1, <2>2, <2>3, <2>5, TouchStored
    <2>7. UnderWay'
      BY <1>t, <2>1, <2>2, <2>3, <2>4 DEF UnderWay
    <2>8. N!TypeOK' /\ (nodesPc' = "pass" => pass' <= nodesOffset')
      BY <1>t, <2>1, <2>3, <2>4, UpsertTypes
    <2> QED BY <2>6, <2>7, <2>8 DEF NodesInv
  <1>4. CASE N!UpsertChange
    <2>1. /\ nodesBridge = "change" /\ nodesBridge' = "idle" /\ change' = change + 1
          /\ UNCHANGED <<table, clock, at, heard>> /\ UNCHANGED N!lvglVars
      BY <1>4 DEF N!UpsertChange
    <2>2. change = Len(heard) - 1 /\ clock = Len(heard)
      BY <1>t, <2>1 DEF UnderWay
    <2>3. change' = Len(heard) /\ change' \in 0 .. MaxUpdates
      BY <1>t, <2>1, <2>2
    <2>4. Filling = Capacity /\ Filling' = Capacity
      BY <2>1 DEF Filling
    <2>5. TableOK(table', heard', Filling')
      BY <1>t, <2>1, <2>4
    <2>6. UnderWay'
      BY <2>1, <2>2, <2>3 DEF UnderWay
    <2>7. N!TypeOK' /\ (nodesPc' = "pass" => pass' <= nodesOffset')
      BY <1>t, <2>1, <2>3, UpsertTypes
    <2> QED BY <2>5, <2>6, <2>7 DEF NodesInv
  <1> QED BY <1>1, <1>2, <1>3, <1>4 DEF N!UpsertContinues

(* lvgl_task changes nothing in the table.                                 *)
LEMMA BrowsingStep ==
  ASSUME NodesInv, N!FuncPress \/ N!UpPress \/ N!DownPress \/ N!LvglTick
  PROVE  NodesInv'
  <1> USE NodeConstants
  <1>1. UNCHANGED <<table, clock, change, nodesBridge, at, heard>>
    BY DEF N!FuncPress, N!UpPress, N!DownPress, N!LvglTick, N!TakePass, N!CopyId, N!Show,
           N!RefreshHidden, N!Refresh, N!tableVars, N!bridgeVars
  <1>2. TableOK(table', heard', Filling') /\ UnderWay'
    BY <1>1 DEF NodesInv, Filling, UnderWay
  <1>3. /\ nodesPc \in {"keys", "pass", "copy", "copy2"}
        /\ pass \in N!Slots /\ prevHigh \in 0 .. MaxUpdates + 1 /\ selected \in N!Slots
        /\ nodesEntry \in Peers \cup {0}
        /\ nodesHidden \in BOOLEAN /\ nodesSticky \in BOOLEAN /\ missed \in BOOLEAN
        /\ nodesOffset \in N!Slots
        /\ nodesDisplayed \in [id : Peers \cup {0}, data : 0 .. MaxUpdates, total : 0 .. Capacity]
        /\ nodesKeys \in 0 .. MaxKeys /\ (nodesPc = "pass" => pass <= nodesOffset)
    BY DEF NodesInv, N!TypeOK
  <1>4. /\ table \in [N!Slots -> Row] /\ last \in 0 .. MaxUpdates /\ change \in 0 .. MaxUpdates
        /\ N!Count \in 0 .. Capacity
    BY NodeTypes, CountIs
  <1> DEFINE Ok ==
        /\ last' \in 0 .. MaxUpdates /\ nodesPc' \in {"keys", "pass", "copy", "copy2"}
        /\ pass' \in N!Slots /\ prevHigh' \in 0 .. MaxUpdates + 1 /\ selected' \in N!Slots
        /\ nodesEntry' \in Peers \cup {0}
        /\ nodesHidden' \in BOOLEAN /\ nodesSticky' \in BOOLEAN /\ missed' \in BOOLEAN
        /\ nodesOffset' \in N!Slots
        /\ nodesDisplayed' \in [id : Peers \cup {0}, data : 0 .. MaxUpdates, total : 0 .. Capacity]
        /\ nodesKeys' \in 0 .. MaxKeys /\ (nodesPc' = "pass" => pass' <= nodesOffset')
  <1> SUFFICES Ok
    <2> SUFFICES ASSUME Ok PROVE NodesInv'
      OBVIOUS
    <2>1. N!TypeOK'
      BY <1>1 DEF NodesInv, N!TypeOK
    <2> QED BY <1>2, <2>1 DEF NodesInv
  <1>5. CASE N!FuncPress
    BY <1>3, <1>4, <1>5 DEF N!FuncPress, N!Pressed, N!takeVars
  <1>6. CASE N!UpPress \/ N!DownPress
    <2>1. /\ N!RenderBegins /\ nodesOffset' \in {nodesOffset, nodesOffset + 1, nodesOffset - 1}
          /\ nodesKeys' = nodesKeys + 1 /\ nodesKeys < MaxKeys /\ nodesSticky' \in BOOLEAN
          /\ UNCHANGED <<last, nodesHidden>>
      BY <1>3, <1>6 DEF N!UpPress, N!DownPress, N!Pressed, N!UpTo
    <2>2. nodesOffset' \in N!Slots
      BY <1>3, <1>4, <1>6 DEF N!UpPress, N!DownPress, N!UpTo
    <2>3. pass' \in N!Slots /\ pass' <= nodesOffset' /\ prevHigh' \in 0 .. MaxUpdates + 1
      BY <2>1, <2>2 DEF N!RenderBegins
    <2>4. nodesKeys' \in 0 .. MaxKeys
      BY <1>3, <2>1
    <2> QED BY <1>3, <1>4, <2>1, <2>2, <2>3, <2>4 DEF N!RenderBegins
  <1>7. CASE N!TakePass
    <2> DEFINE below == {i \in N!Used : table[i].touch < prevHigh}
               top == CHOOSE i \in below : \A j \in below : table[i].touch >= table[j].touch
    <2>1. CASE below = {}
      <3>1. nodesDisplayed' = N!NoNode /\ nodesPc' = "keys" /\ UNCHANGED <<pass, prevHigh, selected>>
        BY <1>7, <2>1 DEF N!TakePass
      <3>2. UNCHANGED <<nodesEntry, nodesKeys, missed, nodesOffset, nodesSticky, last, nodesHidden>>
        BY <1>7 DEF N!TakePass, N!viewVars
      <3>3. nodesDisplayed' \in [id : Peers \cup {0}, data : 0 .. MaxUpdates, total : 0 .. Capacity]
        BY <3>1 DEF N!NoNode
      <3> QED BY <1>3, <1>4, <3>1, <3>2, <3>3
    <2>2. CASE below # {}
      <3>1. below \in SUBSET N!Slots
        BY DEF N!Used
      <3>2. top \in below
        BY <1>4, <2>2, <3>1, SlotsOrdered
      <3>3. /\ selected' = top /\ prevHigh' = table[top].touch
            /\ IF pass = nodesOffset THEN nodesPc' = "copy" /\ pass' = pass
               ELSE pass' = pass + 1 /\ nodesPc' = nodesPc
            /\ nodesDisplayed' = nodesDisplayed /\ nodesPc = "pass"
        BY <1>7, <2>2 DEF N!TakePass
      <3>4. UNCHANGED <<nodesEntry, nodesKeys, missed, nodesOffset, nodesSticky, last, nodesHidden>>
        BY <1>7 DEF N!TakePass, N!viewVars
      <3> HIDE DEF top
      <3>5. selected' \in N!Slots /\ prevHigh' \in 0 .. MaxUpdates + 1
        <4>1. top \in N!Slots
          BY <3>1, <3>2
        <4>2. table[top].touch \in 0 .. MaxUpdates
          BY <1>4, <4>1, RowFields
        <4> QED BY <3>3, <4>1, <4>2
      <3>6. pass' \in N!Slots /\ (nodesPc' = "pass" => pass' <= nodesOffset') /\ nodesPc' \in {"copy", "pass"}
        BY <1>3, <3>3, <3>4
      <3> QED BY <1>3, <1>4, <3>3, <3>4, <3>5, <3>6
    <2> QED BY <2>1, <2>2
  <1>8. CASE N!CopyId
    <2>1. table[selected].id \in Peers \cup {0}
      BY <1>3, <1>4, RowFields
    <2> QED BY <1>3, <1>4, <1>8, <2>1 DEF N!CopyId, N!viewVars
  <1>9. CASE N!Show
    <2>1. table[selected].data \in 0 .. MaxUpdates
      BY <1>3, <1>4, RowFields
    <2>2. nodesDisplayed' = [id |-> nodesEntry, data |-> table[selected].data, total |-> N!Count]
      BY <1>9 DEF N!Show
    <2>3. nodesDisplayed' \in [id : Peers \cup {0}, data : 0 .. MaxUpdates, total : 0 .. Capacity]
      BY <1>3, <1>4, <2>1, <2>2
    <2> QED BY <1>3, <1>4, <1>9, <2>3 DEF N!Show, N!takeVars, N!viewVars
  <1>10. CASE N!RefreshHidden
    BY <1>3, <1>4, <1>10 DEF N!RefreshHidden, N!takeVars
  <1>11. CASE N!Refresh
    <2>1. CASE change = last
      BY <1>3, <1>4, <1>11, <2>1 DEF N!Refresh, N!lvglVars, N!takeVars, N!viewVars
    <2>2. CASE change # last
      <3>1. /\ N!RenderBegins /\ last' = change /\ nodesOffset' \in {0, nodesOffset}
            /\ UNCHANGED <<nodesSticky, nodesHidden, nodesKeys>>
        BY <1>11, <2>2 DEF N!Refresh
      <3>2. nodesOffset' \in N!Slots
        BY <1>3, <3>1
      <3>3. pass' \in N!Slots /\ pass' <= nodesOffset' /\ prevHigh' \in 0 .. MaxUpdates + 1
        BY <3>1, <3>2 DEF N!RenderBegins
      <3> QED BY <1>3, <1>4, <3>1, <3>2, <3>3 DEF N!RenderBegins
    <2> QED BY <2>1, <2>2
  <1> HIDE DEF Ok
  <1> QED BY <1>5, <1>6, <1>7, <1>8, <1>9, <1>10, <1>11 DEF N!LvglTick

(* At boot the table is empty.                                             *)
LEMMA NodesInit == N!Init => NodesInv
  <1> SUFFICES ASSUME N!Init PROVE NodesInv
    OBVIOUS
  <1> USE NodeConstants
  <1>1. /\ table = [i \in N!Slots |-> N!FreeSlot] /\ heard = <<>> /\ nodesBridge = "idle"
        /\ clock = 0 /\ change = 0
    BY DEF N!Init
  <1>2. Len(heard) = 0 /\ heard \in Seq(Peers) /\ \A i \in N!Slots : table[i].id = 0
    BY <1>1, EmptySeq DEF N!FreeSlot
  <1>3. TableOK(table, heard, Filling)
    BY <1>2 DEF TableOK, OneEach, UpToDate, OthersLater, HaveLatest
  <1>4. UnderWay
    BY <1>1, <1>2 DEF UnderWay
  <1>5. table \in [N!Slots -> Row]
    BY <1>1 DEF N!FreeSlot, Row
  <1>6. nodesDisplayed \in [id : Peers \cup {0}, data : 0 .. MaxUpdates, total : 0 .. Capacity]
    BY DEF N!Init, N!NoNode
  <1>7. N!TypeOK /\ nodesPc # "pass"
    BY <1>1, <1>2, <1>5, <1>6 DEF N!Init, N!TypeOK, Row
  <1> QED BY <1>3, <1>4, <1>7 DEF NodesInv

(* Every step keeps it; those of the other view do not touch it.           *)
LEMMA NodesInvStep ==
  NodesInv /\ [MessagesStep \/ NodesStep]_<<followed, vars, nodesVars>> => NodesInv'
  <1> SUFFICES ASSUME NodesInv, [MessagesStep \/ NodesStep]_<<followed, vars, nodesVars>>
               PROVE  NodesInv'
    OBVIOUS
  <1>1. CASE NodesStep
    BY <1>1, UpsertStep, BrowsingStep DEF NodesStep, N!Next
  <1>2. CASE UNCHANGED nodesVars
    <2>1. NodesInv' = NodesInv
      BY <1>2 DEF nodesVars, NodesInv, N!TypeOK, Filling, UnderWay
    <2> QED BY <2>1
  <1> QED BY <1>1, <1>2 DEF MessagesStep

(* Between two updates, the invariant implies that the table is right.     *)
LEMMA NodesInvFollows == NodesInv => NodesKept
  <1> SUFFICES ASSUME NodesInv PROVE NodesKept
    OBVIOUS
  <1>1. ASSUME nodesBridge = "idle" PROVE TableOK(table, heard, Capacity)
    BY <1>1 DEF NodesInv, Filling
  <1>2. N!KeepsRecent
    BY <1>1, NodeTypes, RecentAreKept DEF N!KeepsRecent
  <1> QED BY <1>2 DEF NodesInv, NodesKept

(* nodes_db.c: however bridge_task and lvgl_task interleave, between two   *)
(* updates the table holds the Capacity peers heard most recently, each    *)
(* once and with its last update; the browse offset stays inside it.       *)
THEOREM RecentPeersAreKept == ViewsSpec => []NodesKept
  <1>1. ViewsInit => NodesInv
    BY NodesInit DEF ViewsInit
  <1> QED BY <1>1, NodesInvStep, NodesInvFollows, PTL DEF ViewsSpec
=============================================================================
