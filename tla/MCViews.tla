------------------------------- MODULE MCViews -------------------------------
(***************************************************************************)
(* The two views that browse what bridge_task stores, each with its store. *)
(* They share nothing but the FUNC key and the two tasks that run both, so *)
(* one of them is followed at a time and the other stays as it booted.     *)
(* The messages view is followed in three situations: the user browses     *)
(* while messages arrive; the user replies twice; the user replies and     *)
(* then leaves the view and comes back.                                    *)
(***************************************************************************)
EXTENDS Messages

CONSTANTS
  Peers, MaxUpdates   (* Those of Nodes. *)

VARIABLES
  followed,           (* One of the situations in Messages, or "nodes".     *)
  table, clock, change, at, heard, pass, prevHigh, selected, last, missed,
  (* The variables of Nodes whose names are those of Messages, too. *)
  nodesBridge, nodesPc, nodesEntry, nodesHidden, nodesOffset, nodesSticky,
  nodesDisplayed, nodesKeys

N == INSTANCE Nodes WITH
  bridge <- nodesBridge, pc <- nodesPc, entry <- nodesEntry, hidden <- nodesHidden,
  offset <- nodesOffset, sticky <- nodesSticky, displayed <- nodesDisplayed,
  keys <- nodesKeys

ASSUME NodesConstants == N!NodesAssumption

nodesVars ==
  <<table, clock, change, at, heard, pass, prevHigh, selected, last, missed, nodesBridge,
    nodesPc, nodesEntry, nodesHidden, nodesOffset, nodesSticky, nodesDisplayed, nodesKeys>>

(* How many keys are pressed, messages received and pieces of text         *)
(* committed in each situation.                                            *)
Bounds ==
  [browsing  |-> [keys |-> 3, received |-> 3, text |-> 1],
   replying  |-> [keys |-> 3, received |-> 1, text |-> 2],
   returning |-> [keys |-> 4, received |-> 2, text |-> 1]]

ViewsInit == followed \in DOMAIN Bounds \cup {"nodes"} /\ Init /\ N!Init

MessagesStep ==
  /\ followed # "nodes"
  /\ Next
  /\ LET bound == Bounds[followed]
     IN  keys' <= bound.keys /\ received' <= bound.received /\ committed' <= bound.text
  /\ UNCHANGED <<followed, nodesVars>>

NodesStep ==
  followed = "nodes" /\ N!Next /\ nodesKeys' <= 3 /\ UNCHANGED <<followed, vars>>

(* The fairness of the one that is followed, as in its module. *)
ViewsSpec ==
  /\ ViewsInit /\ [][MessagesStep \/ NodesStep]_<<followed, vars, nodesVars>>
  /\ WF_vars(followed # "nodes" /\ PublishContinues)
  /\ WF_vars(followed # "nodes" /\ LvglTick)
  /\ WF_nodesVars(followed = "nodes" /\ N!UpsertContinues)
  /\ WF_nodesVars(followed = "nodes" /\ N!LvglTick)

-----------------------------------------------------------------------------
(* nodes_db.c: KeepsRecent of Nodes. *)
NodesKept == N!TypeOK /\ N!KeepsRecent

(* messages_view.c, nodes_view.c: SettlesOnCurrent of both. *)
ViewsSettle == SettlesOnCurrent /\ N!SettlesOnCurrent
=============================================================================
