------------------------------- MODULE Keypad -------------------------------
(***************************************************************************)
(* Key events on Core 1: the scan task that debounces the matrix and tells *)
(* a tap from a long press, a task that injects keys for a host, and the   *)
(* two queues from which ime_task and lvgl_task take the events.           *)
(*                                                                         *)
(* The scan task and the inject task have the same priority and are        *)
(* time-sliced: one may push its event between any two steps of the        *)
(* other's push.  What the scan task keeps of a key is private to it, so a *)
(* pass over the matrix is one step and leaves the events to be pushed.    *)
(*                                                                         *)
(* The diagnostic counters and the log ring of key_event.c are left out.   *)
(***************************************************************************)
EXTENDS Integers, SequencesExt

CONSTANTS
  Matrix,      (* The keys, in the order in which they are scanned.         *)
  SlotKeys,    (* Those whose press is deferred (keycode_defers_press).     *)
  InjectKeys,  (* Bound: the keys that a host injects.                      *)
  Threshold,   (* KP_DEBOUNCE_THRESHOLD (4)                                 *)
  LongTicks,   (* KP_LONG_PRESS_TICKS (100)                                 *)
  QueueDepth,  (* KEY_EVENT_QUEUE_DEPTH (16)                                *)
  ViewDepth    (* KEY_EVENT_VIEW_QUEUE_DEPTH (16)                           *)

Keys == Range(Matrix)

ASSUME KeypadAssumption ==
  /\ Matrix \in Seq(Keys) /\ Matrix # <<>> /\ IsInjective(Matrix)
  /\ SlotKeys \subseteq Keys /\ InjectKeys \subseteq Keys
  /\ {Threshold, LongTicks, QueueDepth, ViewDepth} \subseteq Nat \ {0}

VARIABLES
  stable, pending, count,  (* The debouncing of each key.                   *)
  lp,          (* lp_state                                                  *)
  held,        (* now_tick - lp_press_tick while lp is "pending", as far as *)
               (* LongTicks.                                                *)
  readings,    (* The last Threshold readings of each key.                  *)
  todo,        (* What the scan task still has to push.                     *)
  pc,          (* Where the two producers are in a push.                    *)
  injected,    (* The event that the inject task pushes.                    *)
  hwPressed,   (* s_hw_pressed                                              *)
  queue,       (* s_queue                                                   *)
  viewed,      (* How many events are in s_view_queue.                      *)
  heard        (* What ime_task has seen of each key of the matrix: whether *)
               (* it is up, or down and how; "lost" once one of its events  *)
               (* has been dropped.                                         *)

matrixVars == <<stable, pending, count, lp, held, readings>>
vars == <<matrixVars, todo, pc, injected, hwPressed, queue, viewed, heard>>

Producers == {"scan", "inject"}
Event(k, pressed, long, source) ==
  [key |-> k, pressed |-> pressed, long |-> long, source |-> source]
Events == [key : Keys, pressed : BOOLEAN, long : BOOLEAN, source : {"hw", "inject"}]

TypeOK ==
  /\ stable \in [Keys -> BOOLEAN] /\ pending \in [Keys -> BOOLEAN]
  /\ count \in [Keys -> 0 .. Threshold - 1]
  /\ lp \in [Keys -> {"idle", "pending", "long"}] /\ held \in [Keys -> 0 .. LongTicks - 1]
  /\ readings \in [Keys -> Seq(BOOLEAN)]
  /\ todo \in Seq(Events) /\ injected \in Events
  /\ pc["scan"] \in {"idle", "mark", "send"}
  /\ pc["inject"] \in {"idle", "test", "send"}
  /\ hwPressed \in SUBSET Keys
  /\ queue \in Seq(Events) /\ Len(queue) <= QueueDepth
  /\ viewed \in 0 .. ViewDepth
  /\ heard \in [Keys -> {"up", "tap", "long", "lost"}]

Init ==
  /\ stable = [k \in Keys |-> FALSE] /\ pending = stable
  /\ count = [k \in Keys |-> 0]
  /\ lp = [k \in Keys |-> "idle"] /\ held = [k \in Keys |-> 0]
  /\ readings = [k \in Keys |-> [i \in 1 .. Threshold |-> FALSE]]
  /\ todo = <<>> /\ pc = [p \in Producers |-> "idle"]
  /\ injected = Event(Matrix[1], FALSE, FALSE, "inject")
  /\ hwPressed = {} /\ queue = <<>> /\ viewed = 0
  /\ heard = [k \in Keys |-> "up"]

-----------------------------------------------------------------------------
(* keypad_scan_task: one pass over the matrix, raw[k] being what is read   *)
(* of key k.                                                               *)

\* Mutant: a bounce does not start the count again.
CountAll(k, bit) == IF bit = stable[k] THEN count[k] ELSE count[k] + 1

CountOf(k, bit) ==
  IF bit = stable[k] THEN 0
  ELSE IF bit = pending[k] THEN count[k] + 1 ELSE 1

Commits(k, bit) == bit # stable[k] /\ CountOf(k, bit) >= Threshold

\* Mutant: the timer starts with every reading.
TimerRestarts(k, bit) == 0

(* The scans since the press has been committed. *)
TimerOf(k, bit) == IF Commits(k, bit) THEN 0 ELSE held[k] + 1

(* The deferred press after the row pass. *)
LpAfterRow(k, bit) ==
  IF Commits(k, bit) /\ k \in SlotKeys THEN IF bit THEN "pending" ELSE "idle" ELSE lp[k]

TurnsLong(k, bit) == LpAfterRow(k, bit) = "pending" /\ TimerOf(k, bit) >= LongTicks

\* Mutant: the release of a long press carries no flag.
RowEventsPlainRelease(k, bit) ==
  IF ~Commits(k, bit) THEN <<>>
  ELSE IF k \notin SlotKeys THEN <<Event(k, bit, FALSE, "hw")>>
  ELSE IF bit THEN <<>>
  ELSE IF lp[k] = "pending"
       THEN <<Event(k, TRUE, FALSE, "hw"), Event(k, FALSE, FALSE, "hw")>>
       ELSE <<Event(k, FALSE, FALSE, "hw")>>

RowEvents(k, bit) ==
  IF ~Commits(k, bit) THEN <<>>
  ELSE IF k \notin SlotKeys THEN <<Event(k, bit, FALSE, "hw")>>
  ELSE IF bit THEN <<>>
  ELSE IF lp[k] = "pending"
       THEN <<Event(k, TRUE, FALSE, "hw"), Event(k, FALSE, FALSE, "hw")>>
       ELSE <<Event(k, FALSE, lp[k] = "long", "hw")>>

LongEvents(k, bit) ==
  IF TurnsLong(k, bit) THEN <<Event(k, TRUE, TRUE, "hw")>> ELSE <<>>

(* First the rows, then the timers. *)
EventsOf(raw) ==
  FlattenSeq([i \in DOMAIN Matrix |-> RowEvents(Matrix[i], raw[Matrix[i]])])
    \o FlattenSeq([i \in DOMAIN Matrix |-> LongEvents(Matrix[i], raw[Matrix[i]])])

Scan ==
  /\ pc["scan"] = "idle"
  /\ \E raw \in [Keys -> BOOLEAN] :
       /\ stable' = [k \in Keys |-> IF Commits(k, raw[k]) THEN raw[k] ELSE stable[k]]
       /\ pending' = raw
       /\ count' = [k \in Keys |-> IF Commits(k, raw[k]) THEN 0 ELSE CountOf(k, raw[k])]
       /\ lp' = [k \in Keys |-> IF TurnsLong(k, raw[k]) THEN "long"
                                ELSE LpAfterRow(k, raw[k])]
       /\ held' = [k \in Keys |-> IF lp'[k] = "pending" THEN TimerOf(k, raw[k]) ELSE 0]
       /\ readings' = [k \in Keys |-> Append(Tail(readings[k]), raw[k])]
       /\ todo' = EventsOf(raw)
  /\ pc' = [pc EXCEPT !["scan"] = IF todo' = <<>> THEN "idle" ELSE "mark"]
  /\ UNCHANGED <<injected, hwPressed, queue, viewed, heard>>

-----------------------------------------------------------------------------
(* key_event_push_hw_flags, key_event_push_inject_flags and push_locked    *)

EventOf(p) == IF p = "scan" THEN Head(todo) ELSE injected

(* The push of p returns, and the scan task turns to its next event. *)
Returns(p) ==
  /\ todo' = IF p = "scan" THEN Tail(todo) ELSE todo
  /\ pc' = [pc EXCEPT ![p] = IF p = "scan" /\ todo' # <<>> THEN "mark" ELSE "idle"]

\* Mutant: only a press or release that has found room is marked.
MarkIfRoom ==
  /\ pc["scan"] = "mark"
  /\ hwPressed' = IF Len(queue) >= QueueDepth THEN hwPressed
                  ELSE IF Head(todo).pressed THEN hwPressed \cup {Head(todo).key}
                  ELSE hwPressed \ {Head(todo).key}
  /\ pc' = [pc EXCEPT !["scan"] = "send"]
  /\ UNCHANGED <<matrixVars, todo, injected, queue, viewed, heard>>

MarkHw ==
  /\ pc["scan"] = "mark"
  /\ hwPressed' = IF Head(todo).pressed THEN hwPressed \cup {Head(todo).key}
                                        ELSE hwPressed \ {Head(todo).key}
  /\ pc' = [pc EXCEPT !["scan"] = "send"]
  /\ UNCHANGED <<matrixVars, todo, injected, queue, viewed, heard>>

(* The inject task is given an event by the host; its flags are left out. *)
InjectBegins(k, pressed) ==
  /\ pc["inject"] = "idle"
  /\ injected' = Event(k, pressed, FALSE, "inject")
  /\ pc' = [pc EXCEPT !["inject"] = "test"]
  /\ UNCHANGED <<matrixVars, todo, hwPressed, queue, viewed, heard>>

(* ERR_BUSY for the press of a key that is pressed; releases pass. *)
InjectTest ==
  /\ pc["inject"] = "test"
  /\ pc' = [pc EXCEPT !["inject"] =
              IF injected.pressed /\ injected.key \in hwPressed THEN "idle" ELSE "send"]
  /\ UNCHANGED <<matrixVars, todo, injected, hwPressed, queue, viewed, heard>>

(* The copy for the view queue follows in a step of its own in the code;   *)
(* nobody can tell, since only its number matters here.  A full view queue *)
(* loses it silently.                                                      *)
Send(p) ==
  /\ pc[p] = "send"
  /\ IF Len(queue) < QueueDepth
     THEN /\ queue' = Append(queue, EventOf(p))
          /\ viewed' = IF viewed < ViewDepth THEN viewed + 1 ELSE viewed
          /\ UNCHANGED heard
     ELSE /\ heard' = IF p = "scan" THEN [heard EXCEPT ![Head(todo).key] = "lost"] ELSE heard
          /\ UNCHANGED <<queue, viewed>>
  /\ Returns(p)
  /\ UNCHANGED <<matrixVars, injected, hwPressed>>

-----------------------------------------------------------------------------
(* ime_task and lvgl_task: key_event_pop and key_event_view_pop            *)

ImePops ==
  /\ queue # <<>>
  /\ queue' = Tail(queue)
  /\ LET e == Head(queue)
     IN  heard' = IF e.source = "inject" \/ heard[e.key] = "lost" THEN heard
                  ELSE [heard EXCEPT ![e.key] = IF ~e.pressed THEN "up"
                                                ELSE IF e.long THEN "long" ELSE "tap"]
  /\ UNCHANGED <<matrixVars, todo, pc, injected, hwPressed, viewed>>

ViewPops ==
  /\ viewed > 0
  /\ viewed' = viewed - 1
  /\ UNCHANGED <<matrixVars, todo, pc, injected, hwPressed, queue, heard>>

-----------------------------------------------------------------------------
ScanTask == Scan \/ MarkHw \/ Send("scan")
InjectContinues == InjectTest \/ Send("inject")

Next ==
  \/ ScanTask
  \/ \E k \in InjectKeys, pressed \in BOOLEAN : InjectBegins(k, pressed)
  \/ InjectContinues
  \/ ImePops
  \/ ViewPops

(* The tasks are scheduled; no host must inject anything. *)
Fairness ==
  /\ WF_vars(ScanTask) /\ WF_vars(InjectContinues)
  /\ WF_vars(ImePops) /\ WF_vars(ViewPops)

Spec == Init /\ [][Next]_vars /\ Fairness

-----------------------------------------------------------------------------
(* "Number of consecutive scans where the raw reading has equalled         *)
(* pending": a key changes its state only on Threshold readings in a row   *)
(* that say so, however it bounced before.                                 *)
Debounced ==
  [][\A k \in Keys : stable'[k] # stable[k] =>
        \A i \in 1 .. Threshold : readings'[k][i] = stable'[k]]_vars

(* "Fire press(flags=0) on release, immediately followed by release";      *)
(* "subsequent release fires release as normal", "with the same flag bit": *)
(* unless one of them has been dropped, ime_task gets the events of a key  *)
(* as presses and releases in turn, each release with the flag of its      *)
(* press, whatever the inject task pushes in between.                      *)
HeardInPairs ==
  [][\A k \in Keys :
       (queue # <<>> /\ ImePops) =>
         LET e == Head(queue)
         IN  (e.key = k /\ e.source = "hw" /\ heard[k] # "lost") =>
               IF e.pressed THEN heard[k] = "up"
               ELSE heard[k] = IF e.long THEN "long" ELSE "tap"]_vars

(* The bitmap that decides on an injected press never gets stuck: between  *)
(* two passes it holds the keys whose press has been pushed and whose      *)
(* release has not, whether or not the queue had room for them.            *)
BusyWhilePressed ==
  pc["scan"] = "idle" =>
    hwPressed = {k \in Keys : IF k \in SlotKeys THEN lp[k] = "long" ELSE stable[k]}

(* key_event.c: the state of the two tasks that push keys is sound, and so *)
(* is the bitmap they share.                                               *)
KeypadInv == TypeOK /\ BusyWhilePressed

(* What ime_task makes of key k agrees with the key: a slot key that is    *)
(* held is a long press.                                                   *)
Agrees(k) ==
  heard[k] = IF ~stable[k] THEN "up" ELSE IF k \in SlotKeys THEN "long" ELSE "tap"

(* A key that at last stays as it is, pressed or released, is at last the  *)
(* same for ime_task, unless one of its events has been dropped.           *)
KeySettles ==
  \A k \in Keys :
    \/ []<>(heard[k] = "lost" \/ Agrees(k))
    \/ []<><<stable'[k] # stable[k]>>_vars
=============================================================================
