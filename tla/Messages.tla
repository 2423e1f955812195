------------------------------ MODULE Messages ------------------------------
(***************************************************************************)
(* Text messages on Core 1: the inbox and the TX status that bridge_task   *)
(* fills, the messages view that lvgl_task shows and through which the     *)
(* user replies, and the text that ime_task commits.                       *)
(*                                                                         *)
(* bridge_task and lvgl_task have the same priority and are time-sliced:   *)
(* either may be suspended between any two accesses of the cells they      *)
(* share without a lock.  ime_task has the higher priority and shares its  *)
(* text under a mutex only, so a critical section is one step.             *)
(*                                                                         *)
(* A message stands for its sender and for its text: message n comes from  *)
(* sender n and carries text n, in two fields that are copied separately.  *)
(***************************************************************************)
EXTENDS Integers, SequencesExt

CONSTANTS
  Capacity,  (* MESSAGES_INBOX_CAPACITY (4).                               *)
  SendMax,   (* MESSAGES_SEND_TEXT_MAX (200), in committed pieces of text. *)
  MaxRx,     (* Bound: messages received.                                  *)
  MaxKeys,   (* Bound: keys the user presses in this view, so also the     *)
             (* attempts to send; below 256, where s_seq wraps.            *)
  MaxText    (* Bound: pieces of text ime_task commits.                    *)

ASSUME MessagesAssumption ==
  /\ Capacity \in Nat \ {0} /\ SendMax \in Nat \ {0}
  /\ {MaxRx, MaxKeys, MaxText} \subseteq Nat
  /\ MaxKeys <= 256

VARIABLES
  slots, writeIdx, count, latest,  (* s_ring, s_write_idx, s_count, s_latest_seq *)
  status,     (* s_status                                                  *)
  bridge,     (* Where bridge_task is in a publish.                        *)
  received,   (* How many messages it has taken from Core 0.               *)
  ack,        (* The TX_ACK it is publishing.                              *)
  pc,         (* Where lvgl_task is in view_router_tick.                   *)
  after,      (* Where it goes when the rendering is done.                 *)
  idx, entry, (* The slot it copies, and its copy.                         *)
  hidden,     (* LV_OBJ_FLAG_HIDDEN of the view's panel.                   *)
  offset, sticky,     (* s_offset, s_sticky_to_newest                      *)
  displayed,  (* s_displayed_seq and the labels of header and body.        *)
  footer,     (* The footer label.                                         *)
  pendingTx,  (* s_pending_tx_active and s_pending_tx_seq.                 *)
  lastChange, (* s_last_tx_change_seq                                      *)
  keys,       (* How many keys have been pressed.                          *)
  target, buf,        (* target, send_buf                                  *)
  sendSeq,    (* s_seq of messages_send_text.                              *)
  text,       (* g_text, the pieces not yet cleared.                       *)
  committed,  (* How many pieces ime_task has committed.                   *)
  sent,       (* The messages pushed on the CMD ring.                      *)
  reported,   (* What Core 0 has last reported of each send.               *)
  outcome     (* History: whether the footer shows how the pending send has *)
              (* ended since the view was opened: "due", "shown", "covered". *)

inboxVars == <<slots, writeIdx, count, latest>>
bridgeVars == <<bridge, received, ack>>
copyVars == <<after, idx, entry>>
viewVars == <<offset, sticky, displayed>>
txVars == <<pendingTx, lastChange, outcome>>
sendVars == <<target, buf, sendSeq, sent>>
textVars == <<text, committed>>
vars == <<inboxVars, status, bridgeVars, pc, copyVars, hidden, viewVars, footer,
          txVars, keys, sendVars, textVars, reported>>

NoEntry == [seq |-> 0, from |-> 0, text |-> 0]
Entries == [seq : 0 .. MaxRx, from : 0 .. MaxRx, text : 0 .. MaxRx]
Results == {"sending", "delivered", "failed"}
Final == {"delivered", "failed"}
Footer(kind) == [kind |-> kind, seq |-> 0]
NoTx == [active |-> FALSE, seq |-> 0]

(* The slot `offset` places older than the newest one. *)
SlotAt(n) == (writeIdx + 2 * Capacity - 1 - n) % Capacity

TypeOK ==
  /\ slots \in [0 .. Capacity - 1 -> Entries]
  /\ writeIdx \in 0 .. Capacity - 1 /\ count \in 0 .. Capacity /\ latest \in 0 .. MaxRx
  /\ status \in [seq : 0 .. MaxKeys, result : Results, change : Nat]
  /\ bridge \in {"idle", "text", "seq", "index", "count", "result", "change"}
  /\ received \in 0 .. MaxRx /\ ack \in [seq : 0 .. MaxKeys, result : Results]
  /\ pc \in {"keys", "copy", "push", "clear", "refresh", "peek", "take", "take2",
             "status", "result"}
  /\ idx \in 0 .. Capacity - 1 /\ {entry, displayed} \subseteq Entries
  /\ {hidden, sticky, pendingTx.active} \subseteq BOOLEAN
  /\ offset \in 0 .. Capacity - 1
  /\ footer.kind \in Results \cup {"nav", "hint"}
  /\ outcome \in {"due", "shown", "covered"}
  /\ keys \in 0 .. MaxKeys /\ committed \in 0 .. MaxText
  /\ reported \in [0 .. MaxKeys - 1 -> Results \cup {"none"}]

Init ==
  /\ slots = [i \in 0 .. Capacity - 1 |-> NoEntry]
  /\ writeIdx = 0 /\ count = 0 /\ latest = 0
  /\ status = [seq |-> 0, result |-> "sending", change |-> 0]
  /\ bridge = "idle" /\ received = 0 /\ ack = [seq |-> 0, result |-> "sending"]
  /\ pc = "keys" /\ after = "keys" /\ idx = 0 /\ entry = NoEntry
  /\ hidden = TRUE /\ offset = 0 /\ sticky = TRUE /\ displayed = NoEntry
  /\ footer = Footer("nav") /\ pendingTx = NoTx /\ lastChange = 0
  /\ keys = 0 /\ target = 0 /\ buf = <<>> /\ sendSeq = 0
  /\ text = <<>> /\ committed = 0 /\ sent = <<>> /\ outcome = "due"
  /\ reported = [s \in 0 .. MaxKeys - 1 |-> "none"]

-----------------------------------------------------------------------------
(* bridge_task: messages_inbox_publish                                     *)

lvglVars == <<pc, copyVars, hidden, viewVars, footer, txVars, keys, sendVars>>

PublishBegins ==
  /\ bridge = "idle"
  /\ received < MaxRx
  /\ received' = received + 1
  /\ slots' = [slots EXCEPT ![writeIdx].from = received']
  /\ bridge' = "text"
  /\ UNCHANGED <<writeIdx, count, latest, status, ack, lvglVars, textVars, reported>>

PublishText ==
  /\ bridge = "text"
  /\ slots' = [slots EXCEPT ![writeIdx].text = received]
  /\ bridge' = "seq"
  /\ UNCHANGED <<writeIdx, count, latest, status, received, ack, lvglVars, textVars,
                 reported>>

PublishSeq ==
  /\ bridge = "seq"
  /\ slots' = [slots EXCEPT ![writeIdx].seq = latest + 1]
  /\ latest' = latest + 1
  /\ bridge' = "index"
  /\ UNCHANGED <<writeIdx, count, status, received, ack, lvglVars, textVars, reported>>

PublishIndex ==
  /\ bridge = "index"
  /\ writeIdx' = (writeIdx + 1) % Capacity
  /\ bridge' = "count"
  /\ UNCHANGED <<slots, count, latest, status, received, ack, lvglVars, textVars, reported>>

PublishCount ==
  /\ bridge = "count"
  /\ count' = IF count < Capacity THEN count + 1 ELSE count
  /\ bridge' = "idle"
  /\ UNCHANGED <<slots, writeIdx, latest, status, received, ack, lvglVars, textVars,
                 reported>>

(* messages_tx_status_publish of a TX_ACK.  Core 0 reports "sending" once  *)
(* and the outcome once, in this order for each message; the reports of    *)
(* different messages come in any order.                                   *)
AckBegins(s, result) ==
  /\ bridge = "idle"
  /\ s \in {sent[i].seq : i \in DOMAIN sent}
  /\ reported[s] = IF result = "sending" THEN "none" ELSE "sending"
  /\ reported' = [reported EXCEPT ![s] = result]
  /\ ack' = [seq |-> s, result |-> result]
  /\ status' = [status EXCEPT !.seq = s]
  /\ bridge' = "result"
  /\ UNCHANGED <<inboxVars, received, lvglVars, textVars>>

AckResult ==
  /\ bridge = "result"
  /\ status' = [status EXCEPT !.result = ack.result]
  /\ bridge' = "change"
  /\ UNCHANGED <<inboxVars, received, ack, lvglVars, textVars, reported>>

AckChange ==
  /\ bridge = "change"
  /\ status' = [status EXCEPT !.change = @ + 1]
  /\ bridge' = "idle"
  /\ UNCHANGED <<inboxVars, received, ack, lvglVars, textVars, reported>>

PublishContinues ==
  \/ PublishText \/ PublishSeq \/ PublishIndex \/ PublishCount
  \/ AckResult \/ AckChange

BridgeTask ==
  \/ PublishBegins \/ PublishContinues
  \/ \E s \in 0 .. MaxKeys - 1, result \in Results : AckBegins(s, result)

-----------------------------------------------------------------------------
(* ime_task: a piece of text is committed. *)
ImeCommits ==
  /\ committed < MaxText
  /\ committed' = committed + 1
  /\ text' = Append(text, committed')
  /\ UNCHANGED <<inboxVars, status, bridgeVars, lvglVars, reported>>

-----------------------------------------------------------------------------
(* lvgl_task: the keys in the view queue.  FUNC goes round the views.      *)

othersOfLvgl == <<inboxVars, status, bridgeVars, committed, reported>>

Pressed ==
  /\ pc = "keys"
  /\ keys < MaxKeys
  /\ keys' = keys + 1

FuncPress ==
  /\ Pressed
  /\ hidden' = ~hidden
  /\ UNCHANGED <<othersOfLvgl, pc, copyVars, viewVars, footer, txVars, sendVars, text>>

\* Mutant: one step too far.
UpToCount(n) == IF offset < n THEN offset + 1 ELSE offset

(* One message back; offset count - 1 is the oldest. *)
UpTo(n) == IF offset + 1 < n THEN offset + 1 ELSE offset

UpPress ==
  /\ Pressed
  /\ ~hidden
  /\ count > 0
  /\ offset' = UpTo(count)
  /\ sticky' = FALSE
  /\ pendingTx' = [pendingTx EXCEPT !.active = FALSE]
  /\ pc' = "take"
  /\ after' = "keys"
  /\ UNCHANGED <<othersOfLvgl, idx, entry, hidden, displayed, footer, lastChange, outcome,
                 sendVars, text>>

DownPress ==
  /\ Pressed
  /\ ~hidden
  /\ count > 0
  /\ offset' = IF offset > 0 THEN offset - 1 ELSE offset
  /\ sticky' = (sticky \/ offset' = 0)
  /\ pendingTx' = [pendingTx EXCEPT !.active = FALSE]
  /\ pc' = "take"
  /\ after' = "keys"
  /\ UNCHANGED <<othersOfLvgl, idx, entry, hidden, displayed, footer, lastChange, outcome,
                 sendVars, text>>

(* The footer is painted with something else, over the outcome or not. *)
Paint(label) ==
  /\ footer' = label
  /\ outcome' = IF outcome = "shown" THEN "covered" ELSE outcome

(* OK: the message at the offset is looked up, whatever is displayed. *)
OkPress ==
  /\ Pressed
  /\ ~hidden
  /\ IF offset < count
     THEN /\ target' = slots[SlotAt(offset)].from
          /\ pc' = "copy"
          /\ UNCHANGED <<footer, outcome>>
     ELSE /\ Paint(Footer("hint"))
          /\ UNCHANGED <<pc, target>>
  /\ UNCHANGED <<othersOfLvgl, copyVars, hidden, viewVars, pendingTx, lastChange, buf,
                 sendSeq, sent, text>>

(* Under ime_view_lock. *)
CopyText ==
  /\ pc = "copy"
  /\ buf' = SubSeq(text, 1, IF Len(text) < SendMax THEN Len(text) ELSE SendMax)
  /\ IF buf' = <<>>
     THEN pc' = "keys" /\ Paint(Footer("hint"))
     ELSE pc' = "push" /\ UNCHANGED <<footer, outcome>>
  /\ UNCHANGED <<othersOfLvgl, copyVars, hidden, viewVars, pendingTx, lastChange, keys,
                 target, sendSeq, sent, text>>

(* messages_send_text; the CMD ring may be full.  The number is used up in *)
(* either case.                                                            *)
PushSucceeds ==
  /\ pc = "push"
  /\ sent' = Append(sent, [seq |-> sendSeq, to |-> target, shown |-> displayed.from,
                           text |-> buf])
  /\ sendSeq' = sendSeq + 1
  /\ pc' = "clear"
  /\ UNCHANGED <<othersOfLvgl, copyVars, hidden, viewVars, footer, txVars, keys, target,
                 buf, text>>

PushFails ==
  /\ pc = "push"
  /\ sendSeq' = sendSeq + 1
  /\ Paint(Footer("hint"))
  /\ pc' = "keys"
  /\ UNCHANGED <<othersOfLvgl, copyVars, hidden, viewVars, pendingTx, lastChange, keys,
                 target, buf, sent, text>>

\* Mutant: the text stays in the IME's buffer.
KeepText ==
  /\ pc = "clear"
  /\ pendingTx' = [active |-> TRUE, seq |-> sendSeq - 1]
  /\ footer' = [kind |-> "sending", seq |-> sendSeq - 1]
  /\ outcome' = "due"
  /\ pc' = "keys"
  /\ UNCHANGED <<othersOfLvgl, copyVars, hidden, viewVars, lastChange, keys, sendVars, text>>

(* ime_view_clear_text, and the send becomes the pending one. *)
ClearText ==
  /\ pc = "clear"
  /\ text' = <<>>
  /\ pendingTx' = [active |-> TRUE, seq |-> sendSeq - 1]
  /\ footer' = [kind |-> "sending", seq |-> sendSeq - 1]
  /\ outcome' = "due"
  /\ pc' = "keys"
  /\ UNCHANGED <<othersOfLvgl, copyVars, hidden, viewVars, lastChange, keys, sendVars>>

-----------------------------------------------------------------------------
(* lvgl_task: render_offset, the copy of the slot in two steps             *)

TakeBegins ==
  /\ pc = "take"
  /\ IF offset < count
     THEN /\ idx' = SlotAt(offset)
          /\ entry' = [slots[SlotAt(offset)] EXCEPT !.text = 0]
          /\ pc' = "take2"
          /\ UNCHANGED <<displayed, footer, outcome>>
     ELSE /\ displayed' = NoEntry
          /\ Paint(Footer("nav"))
          /\ pc' = after
          /\ UNCHANGED <<idx, entry>>
  /\ UNCHANGED <<othersOfLvgl, after, hidden, offset, sticky, pendingTx, lastChange, keys,
                 sendVars, text>>

\* Mutant: the newest number is remembered, not that of the entry displayed.
RenderAsLatest ==
  /\ pc = "take2"
  /\ displayed' = [entry EXCEPT !.text = slots[idx].text, !.seq = latest]
  /\ Paint(Footer("nav"))
  /\ pc' = after
  /\ UNCHANGED <<othersOfLvgl, copyVars, hidden, offset, sticky, pendingTx, lastChange,
                 keys, sendVars, text>>

Render ==
  /\ pc = "take2"
  /\ displayed' = [entry EXCEPT !.text = slots[idx].text]
  /\ Paint(Footer("nav"))
  /\ pc' = after
  /\ UNCHANGED <<othersOfLvgl, copyVars, hidden, offset, sticky, pendingTx, lastChange,
                 keys, sendVars, text>>

-----------------------------------------------------------------------------
(* lvgl_task: messages_view_refresh, once the view queue is empty          *)

\* Mutant: the change number is kept while the view is hidden.
RefreshNothing ==
  /\ pc = "keys"
  /\ hidden
  /\ outcome' = "due"
  /\ UNCHANGED <<othersOfLvgl, pc, copyVars, hidden, viewVars, footer, pendingTx,
                 lastChange, keys, sendVars, text>>

RefreshHidden ==
  /\ pc = "keys"
  /\ hidden
  /\ lastChange' = 0
  /\ outcome' = "due"
  /\ UNCHANGED <<othersOfLvgl, pc, copyVars, hidden, viewVars, footer, pendingTx, keys,
                 sendVars, text>>

Refresh ==
  /\ pc = "keys"
  /\ ~hidden
  /\ IF latest = 0
     THEN pc' = "status" /\ UNCHANGED offset    \* nothing has been displayed
     ELSE pc' = "peek" /\ offset' = IF sticky THEN 0 ELSE offset
  /\ UNCHANGED <<othersOfLvgl, copyVars, hidden, sticky, displayed, footer, txVars, keys,
                 sendVars, text>>

Peek ==
  /\ pc = "peek"
  /\ pc' = IF offset < count /\ slots[SlotAt(offset)].seq # displayed.seq
           THEN "take" ELSE "status"
  /\ after' = "status"
  /\ UNCHANGED <<othersOfLvgl, idx, entry, hidden, viewVars, footer, txVars, keys, sendVars,
                 text>>

(* maybe_render_tx_status_footer: change_seq is read before the body. *)
StatusBegins ==
  /\ pc = "status"
  /\ IF pendingTx.active /\ status.change # lastChange
     THEN lastChange' = status.change /\ pc' = "result"
     ELSE pc' = "keys" /\ UNCHANGED lastChange
  /\ UNCHANGED <<othersOfLvgl, copyVars, hidden, viewVars, footer, pendingTx, outcome,
                 keys, sendVars, text>>

StatusResult ==
  /\ pc = "result"
  /\ footer' = IF status.seq = pendingTx.seq
               THEN [kind |-> status.result, seq |-> pendingTx.seq] ELSE footer
  /\ outcome' = IF status.seq = pendingTx.seq /\ status.result \in Final
                THEN "shown" ELSE outcome
  /\ pc' = "keys"
  /\ UNCHANGED <<othersOfLvgl, copyVars, hidden, viewVars, pendingTx, lastChange, keys,
                 sendVars, text>>

LvglKey ==
  \/ FuncPress \/ UpPress \/ DownPress \/ OkPress

LvglTick ==
  \/ CopyText \/ PushSucceeds \/ PushFails \/ ClearText
  \/ TakeBegins \/ Render
  \/ RefreshHidden \/ Refresh \/ Peek \/ StatusBegins \/ StatusResult

-----------------------------------------------------------------------------
Next == BridgeTask \/ ImeCommits \/ LvglKey \/ LvglTick

(* Both tasks are scheduled; nobody must press a key or send anything. *)
Fairness == WF_vars(PublishContinues) /\ WF_vars(LvglTick)

Spec == Init /\ [][Next]_vars /\ Fairness

-----------------------------------------------------------------------------
(* The browse offset stays inside the inbox, whatever arrives between the  *)
(* reading of the count and the next look-up, and a view that sticks to    *)
(* the newest message is at offset 0.                                      *)
OffsetInInbox ==
  /\ count > 0 => offset < count
  /\ sticky => offset = 0

(* messages_inbox.c: the cells hold what they are for, and the browser      *)
(* stays among them.                                                        *)
InboxInv == TypeOK /\ OffsetInInbox

(* No piece of text is sent twice or out of order, although the text stays *)
(* in the IME's buffer until after the push and a failed push is repeated. *)
SentOnce ==
  LET all == FlattenSeq([i \in DOMAIN sent |-> sent[i].text])
  IN  \A i, j \in DOMAIN all : i < j => all[i] < all[j]

(* "OK on this view = reply to the sender of the currently-displayed       *)
(* message": of the message that is displayed, if one is.                  *)
ReplyToDisplayed ==
  \A i \in DOMAIN sent : sent[i].shown # 0 => sent[i].to = sent[i].shown

(* A torn or outdated message never stays on the screen: once arrivals and *)
(* keys have ceased, a visible view shows the entry at its offset, whole.  *)
(* "ring buffer eviction shifted what offset N points at".                 *)
SettlesOnCurrent ==
  <>[](hidden \/ count = 0 \/ displayed = slots[SlotAt(offset)])

(* Send s is the last one, and the user has not navigated since. *)
Awaited(s) == pendingTx.active /\ sent # <<>> /\ Last(sent).seq = s

(* "If a TX_ACK has arrived for our most recent send, repaint the footer   *)
(* with the new status", after a return to the view once more: whatever    *)
(* the order of stores, loads and views, the outcome is on the footer of a *)
(* visible view, unless the TX_ACK of another send has overwritten it in   *)
(* the one cell, or it was there and something else was painted over it.   *)
ResultIsShown ==
  \A s \in 0 .. MaxKeys - 1 : \A r \in Final :
    (Awaited(s) /\ reported[s] = r)
      ~> \/ hidden \/ ~Awaited(s) \/ status.seq # s
         \/ footer = [kind |-> r, seq |-> s] \/ outcome = "covered"

(* "delivered/failed both stay until the user navigates (UP/DOWN)": no     *)
(* refresh takes the outcome away.  This does not hold: an arrival paints  *)
(* over it, and the change number of the outcome is used up.               *)
OutcomeStays ==
  [][(pendingTx.active /\ outcome = "shown" /\ pc \in {"take", "take2"})
        => outcome' = "shown"]_vars
=============================================================================
