------------------------------- MODULE Nodes -------------------------------
(***************************************************************************)
(* The mesh peers on Core 1: the table that bridge_task fills from the     *)
(* NODE_UPDATE messages of Core 0, and the view through which lvgl_task    *)
(* shows one of them.                                                      *)
(*                                                                         *)
(* Both tasks have the same priority and no lock guards the table: either  *)
(* may be suspended between any two accesses.  One pass of the search for  *)
(* the entry of a rank is one step; the copy of the entry is two.          *)
(***************************************************************************)
EXTENDS Integers, SequencesExt

CONSTANTS
  Capacity,    (* NODES_DB_CAPACITY (8).                                    *)
  Peers,       (* The node numbers of the mesh, 0 not among them.           *)
  MaxUpdates,  (* Bound: updates received; far below 2^32, where the clock  *)
               (* of last_touch_seq wraps.                                  *)
  MaxKeys      (* Bound: keys the user presses in this view.                *)

(* What the code says of its constants; MCViews assumes it. *)
NodesAssumption ==
  /\ Capacity \in Nat \ {0}
  /\ Peers \subseteq Nat \ {0}
  /\ MaxUpdates \in Nat /\ MaxKeys \in Nat

VARIABLES
  table,      (* s_table: node_id (0: not in use), the other fields, and    *)
              (* last_touch_seq.                                            *)
  clock,      (* s_touch_clock                                              *)
  change,     (* s_change_seq                                               *)
  bridge, at, (* Where bridge_task is in nodes_db_upsert, and its slot.     *)
  heard,      (* The peers of the updates so far.  Update n carries data n. *)
  pc,         (* Where lvgl_task is in view_router_tick.                    *)
  pass, prevHigh, selected, entry,   (* The variables of nodes_db_take_at.  *)
  hidden,     (* LV_OBJ_FLAG_HIDDEN of the view's panel.                    *)
  offset, sticky,  (* s_offset, s_sticky_to_newest                          *)
  last,       (* s_last_change_seq                                          *)
  displayed,  (* The labels of header, body and footer.                     *)
  keys,       (* How many keys have been pressed.                           *)
  missed      (* A hidden view has taken note of a change, and nothing has  *)
              (* been rendered since.                                       *)

tableVars == <<table, clock, change>>
bridgeVars == <<bridge, at, heard>>
takeVars == <<pass, prevHigh, selected, entry>>
viewVars == <<offset, sticky, last, hidden>>
lvglVars == <<pc, takeVars, viewVars, displayed, keys, missed>>
vars == <<tableVars, bridgeVars, lvglVars>>

Slots == 0 .. Capacity - 1
FreeSlot == [id |-> 0, data |-> 0, touch |-> 0]
NoNode == [id |-> 0, data |-> 0, total |-> 0]

Used == {i \in Slots : table[i].id # 0}
Count == Cardinality(Used)

TypeOK ==
  /\ table \in [Slots -> [id : Peers \cup {0}, data : 0 .. MaxUpdates,
                          touch : 0 .. MaxUpdates]]
  /\ {clock, change, last} \subseteq 0 .. MaxUpdates
  /\ bridge \in {"idle", "data", "touch", "change"} /\ at \in Slots
  /\ heard \in Seq(Peers) /\ Len(heard) <= MaxUpdates
  /\ pc \in {"keys", "pass", "copy", "copy2"}
  /\ pass \in Slots /\ prevHigh \in 0 .. MaxUpdates + 1 /\ selected \in Slots
  /\ entry \in Peers \cup {0}
  /\ {hidden, sticky, missed} \subseteq BOOLEAN
  /\ offset \in Slots
  /\ displayed \in [id : Peers \cup {0}, data : 0 .. MaxUpdates, total : 0 .. Capacity]
  /\ keys \in 0 .. MaxKeys

Init ==
  /\ table = [i \in Slots |-> FreeSlot]
  /\ clock = 0 /\ change = 0
  /\ bridge = "idle" /\ at = 0 /\ heard = <<>>
  /\ pc = "keys" /\ pass = 0 /\ prevHigh = MaxUpdates + 1 /\ selected = 0 /\ entry = 0
  /\ hidden = TRUE /\ offset = 0 /\ sticky = TRUE /\ last = 0
  /\ displayed = NoNode /\ keys = 0 /\ missed = FALSE

-----------------------------------------------------------------------------
(* bridge_task: nodes_db_upsert                                            *)

Oldest == CHOOSE i \in Slots : \A j \in Slots : table[i].touch <= table[j].touch

\* Mutant: the entry touched last makes room.
FreeOrNewest ==
  IF Used # Slots
  THEN Min(Slots \ Used)
  ELSE CHOOSE i \in Slots : \A j \in Slots : table[i].touch >= table[j].touch

FreeOrOldest == IF Used # Slots THEN Min(Slots \ Used) ELSE Oldest

SlotFor(id) ==
  IF \E i \in Used : table[i].id = id
  THEN CHOOSE i \in Used : table[i].id = id
  ELSE FreeOrOldest

UpsertBegins(id) ==
  /\ bridge = "idle"
  /\ Len(heard) < MaxUpdates
  /\ heard' = Append(heard, id)
  /\ at' = SlotFor(id)
  /\ table' = [table EXCEPT ![at'].id = id]
  /\ bridge' = "data"
  /\ UNCHANGED <<clock, change, lvglVars>>

UpsertData ==
  /\ bridge = "data"
  /\ table' = [table EXCEPT ![at].data = Len(heard)]
  /\ bridge' = "touch"
  /\ UNCHANGED <<clock, change, at, heard, lvglVars>>

UpsertTouch ==
  /\ bridge = "touch"
  /\ clock' = clock + 1
  /\ table' = [table EXCEPT ![at].touch = clock']
  /\ bridge' = "change"
  /\ UNCHANGED <<change, at, heard, lvglVars>>

UpsertChange ==
  /\ bridge = "change"
  /\ change' = change + 1
  /\ bridge' = "idle"
  /\ UNCHANGED <<table, clock, at, heard, lvglVars>>

UpsertContinues == UpsertData \/ UpsertTouch \/ UpsertChange

-----------------------------------------------------------------------------
(* lvgl_task: the keys in the view queue.  FUNC goes round the views.      *)

Pressed ==
  /\ pc = "keys"
  /\ keys < MaxKeys
  /\ keys' = keys + 1

FuncPress ==
  /\ Pressed
  /\ hidden' = ~hidden
  /\ UNCHANGED <<tableVars, bridgeVars, pc, takeVars, offset, sticky, last, displayed,
                 missed>>

(* render_offset begins with nodes_db_take_at. *)
RenderBegins ==
  /\ pc' = "pass"
  /\ pass' = 0
  /\ prevHigh' = MaxUpdates + 1
  /\ missed' = FALSE
  /\ UNCHANGED <<selected, entry, displayed>>

(* One peer back; offset n - 1 is the one touched least recently. *)
UpTo(n) == IF offset + 1 < n THEN offset + 1 ELSE offset

UpPress ==
  /\ Pressed
  /\ ~hidden
  /\ Count > 0
  /\ offset' = UpTo(Count)
  /\ sticky' = FALSE
  /\ RenderBegins
  /\ UNCHANGED <<tableVars, bridgeVars, last, hidden>>

DownPress ==
  /\ Pressed
  /\ ~hidden
  /\ Count > 0
  /\ offset' = IF offset > 0 THEN offset - 1 ELSE offset
  /\ sticky' = (sticky \/ offset' = 0)
  /\ RenderBegins
  /\ UNCHANGED <<tableVars, bridgeVars, last, hidden>>

-----------------------------------------------------------------------------
(* lvgl_task: nodes_db_take_at and the labels                              *)

(* Only entries touched less recently than the one of the pass before. *)
TakePass ==
  /\ pc = "pass"
  /\ LET below == {i \in Used : table[i].touch < prevHigh}
         top   == CHOOSE i \in below : \A j \in below : table[i].touch >= table[j].touch
     IN  IF below = {}
         THEN /\ displayed' = NoNode
              /\ pc' = "keys"
              /\ UNCHANGED <<pass, prevHigh, selected>>
         ELSE /\ selected' = top
              /\ prevHigh' = table[top].touch
              /\ IF pass = offset
                 THEN pc' = "copy" /\ UNCHANGED pass
                 ELSE pass' = pass + 1 /\ UNCHANGED pc
              /\ UNCHANGED displayed
  /\ UNCHANGED <<tableVars, bridgeVars, entry, viewVars, keys, missed>>

CopyId ==
  /\ pc = "copy"
  /\ entry' = table[selected].id
  /\ pc' = "copy2"
  /\ UNCHANGED <<tableVars, bridgeVars, pass, prevHigh, selected, viewVars, displayed,
                 keys, missed>>

Show ==
  /\ pc = "copy2"
  /\ displayed' = [id |-> entry, data |-> table[selected].data, total |-> Count]
  /\ pc' = "keys"
  /\ UNCHANGED <<tableVars, bridgeVars, takeVars, viewVars, keys, missed>>

-----------------------------------------------------------------------------
(* lvgl_task: nodes_view_refresh, once the view queue is empty             *)

RefreshHidden ==
  /\ pc = "keys"
  /\ hidden
  /\ last' = change
  /\ missed' = (missed \/ change # last)
  /\ UNCHANGED <<tableVars, bridgeVars, pc, takeVars, offset, sticky, hidden, displayed,
                 keys>>

Refresh ==
  /\ pc = "keys"
  /\ ~hidden
  /\ IF change = last
     THEN UNCHANGED lvglVars
     ELSE /\ last' = change
          /\ offset' = IF sticky THEN 0 ELSE offset
          /\ RenderBegins
          /\ UNCHANGED <<sticky, hidden, keys>>
  /\ UNCHANGED <<tableVars, bridgeVars>>

LvglTick == TakePass \/ CopyId \/ Show \/ RefreshHidden \/ Refresh

-----------------------------------------------------------------------------
Next ==
  \/ \E id \in Peers : UpsertBegins(id)
  \/ UpsertContinues
  \/ FuncPress \/ UpPress \/ DownPress
  \/ LvglTick

(* Both tasks are scheduled; nobody must press a key or send anything. *)
Fairness == WF_vars(UpsertContinues) /\ WF_vars(LvglTick)

Spec == Init /\ [][Next]_vars /\ Fairness

-----------------------------------------------------------------------------
LastHeard(id) == Max({n \in DOMAIN heard : heard[n] = id})

(* The Capacity peers heard most recently, with their latest updates. *)
Recent ==
  {id \in Range(heard) :
     Cardinality({p \in Range(heard) : LastHeard(p) > LastHeard(id)}) < Capacity}

(* "An existing entry is updated in place; new entries take the            *)
(* least-recently-touched slot when the table is full": between two        *)
(* updates the table holds the peers heard most recently, once each.       *)
KeepsRecent ==
  bridge = "idle" =>
    /\ {<<table[i].id, table[i].data>> : i \in Used}
         = {<<id, LastHeard(id)>> : id \in Recent}
    /\ Count = Cardinality(Recent)

(* The entry at the offset, the one touched last at offset 0. *)
AtOffset ==
  LET i == CHOOSE i \in Used :
             Cardinality({j \in Used : table[j].touch > table[i].touch}) = offset
  IN  [id |-> table[i].id, data |-> table[i].data, total |-> Count]

Current == hidden \/ Count = 0 \/ displayed = AtOffset

(* "Worst case the user sees one out-of-date frame, the next tick paints   *)
(* the consistent value": a search overtaken by an update, or a torn copy, *)
(* does not stay on the screen of a view that has seen the change itself.  *)
SettlesOnCurrent == <>[](missed \/ Current)

(* "Track change_seq so a single render at activation paints the latest    *)
(* state".  This does not hold: a hidden view notes changes it never shows. *)
LatestAtActivation == <>[]Current
=============================================================================
