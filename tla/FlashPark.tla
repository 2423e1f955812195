------------------------------ MODULE FlashPark ------------------------------
(***************************************************************************)
(* The flash-write handshake between the two cores.  While a core erases   *)
(* or programs the flash, XIP is off and the other core must not fetch     *)
(* code from it: the writer asks the other core to park in RAM, waits for  *)
(* the answer for a bounded time, writes, and lets it go.                  *)
(*                                                                         *)
(* Core 1's writer is core1/src/ime/flash_safety_wrap.c and Core 1's park  *)
(* listener is the doorbell ISR of main_core1_bridge.c.  Core 0's pair is  *)
(* "the mirror image" of them (flash_safety_wrap.c) and lives outside the  *)
(* repository: the actions below take the core as a parameter.             *)
(*                                                                         *)
(* Each core has a thread, which writes, and a doorbell ISR, which parks;  *)
(* while the ISR runs the thread does not.                                 *)
(***************************************************************************)
EXTENDS Naturals

CONSTANTS
  C0, C1,    (* The two cores.                                              *)
  Writers,   (* The cores that write flash.                                 *)
  Timeouts   (* When a writer's bounded wait may run out: "never", "any"    *)
             (* (at any time), or "late": only while the other core has     *)
             (* nothing to run that would answer (5 ms is ages for an ISR). *)

Cores == {C0, C1}

ASSUME CoreAssumption ==
  /\ C0 # C1
  /\ Writers \subseteq Cores
  /\ Timeouts \in {"never", "late", "any"}

VARIABLES
  lock,      (* lock[w] is the lock word for writes by w: flash_lock for    *)
             (* C0, flash_lock_c0 for C1.                                   *)
  bell,      (* Whether the park doorbell of a core is pending.             *)
  ready,     (* c0_ready and c1_ready.                                      *)
  listening, (* Whether a core's doorbell interrupt is enabled.             *)
  pc,        (* Where a core's thread is in the wrapped flash operation.    *)
  asked,     (* Whether that operation asked the other core to park.        *)
  masked,    (* Whether a core's thread has its interrupts disabled.        *)
  isr,       (* Where a core's doorbell ISR is.                             *)
  event      (* A core's event register, which __wfe() waits for.           *)

lockVars == <<lock, bell, event>>
bootVars == <<ready, listening>>
threadVars == <<pc, asked, masked>>
parkVars == <<lock, bell, ready, listening, pc, asked, masked, isr, event>>

Other(c) == IF c = C0 THEN C1 ELSE C0

(* The ISR is in flash_park_handler, past its answer: code and data in RAM *)
Parked(c) == isr[c] \in {"wake", "poll", "sleep"}

ParkTypes ==
  /\ lock \in [Cores -> {"IDLE", "REQUEST", "PARKED"}]
  /\ pc \in [Cores -> {"idle", "request", "ring", "wait", "mask", "flash",
                        "unmask", "release", "signal"}]
  /\ isr \in [Cores -> {"none", "check", "answer", "wake", "poll", "sleep"}]
  /\ \A v \in {bell, ready, listening, asked, masked, event} :
       v \in [Cores -> BOOLEAN]

AllCores(x) == [c \in Cores |-> x]

(* Everything but the boot flags. *)
Quiet ==
  /\ lock = AllCores("IDLE")
  /\ bell = AllCores(FALSE) /\ event = AllCores(FALSE)
  /\ pc = AllCores("idle") /\ asked = AllCores(FALSE) /\ masked = AllCores(FALSE)
  /\ isr = AllCores("none")

(* The shared SRAM has just been zeroed, Core 1 has just been launched. *)
BootInit == Quiet /\ ready = AllCores(FALSE) /\ listening = AllCores(FALSE)

(* Both cores have long been up. *)
RunningInit == Quiet /\ ready = AllCores(TRUE) /\ listening = AllCores(TRUE)

-----------------------------------------------------------------------------
(* Boot *)

(* main() publishes c1_ready before it starts the scheduler ...            *)
Core1Ready ==
  /\ ~ready[C1]
  /\ ready' = [ready EXCEPT ![C1] = TRUE]
  /\ UNCHANGED <<lockVars, listening, threadVars, isr>>

(* ... and bridge_task, once scheduled, enables the doorbell interrupt.    *)
Core1Listens ==
  /\ ready[C1] /\ ~listening[C1]
  /\ isr[C1] = "none"
  /\ listening' = [listening EXCEPT ![C1] = TRUE]
  /\ UNCHANGED <<lockVars, ready, threadVars, isr>>

(* Core 0 sets c0_ready once its listener is fully up. *)
Core0Ready ==
  /\ ~ready[C0]
  /\ isr[C0] = "none" /\ pc[C0] = "idle"
  /\ ready' = [ready EXCEPT ![C0] = TRUE]
  /\ listening' = [listening EXCEPT ![C0] = TRUE]
  /\ UNCHANGED <<lockVars, threadVars, isr>>

-----------------------------------------------------------------------------
(* The writer: __wrap_flash_range_erase and __wrap_flash_range_program     *)

ThreadAt(w, label) == isr[w] = "none" /\ pc[w] = label

GoTo(w, label) == pc' = [pc EXCEPT ![w] = label]

(* The other core is asked to park only if it has published that it can. *)
Begin(w) ==
  /\ ThreadAt(w, "idle")
  /\ w = C1 => ready[C1]
  /\ asked' = [asked EXCEPT ![w] = ready[Other(w)]]
  /\ GoTo(w, IF ready[Other(w)] THEN "request" ELSE "mask")
  /\ UNCHANGED <<lockVars, bootVars, masked, isr>>

Request(w) ==
  /\ ThreadAt(w, "request")
  /\ lock' = [lock EXCEPT ![w] = "REQUEST"]
  /\ GoTo(w, "ring")
  /\ UNCHANGED <<bell, event, bootVars, asked, masked, isr>>

Ring(w) ==
  /\ ThreadAt(w, "ring")
  /\ bell' = [bell EXCEPT ![Other(w)] = TRUE]
  /\ GoTo(w, "wait")
  /\ UNCHANGED <<lock, event, bootVars, asked, masked, isr>>

\* Mutant: any word but IDLE is taken for the answer.
WaitSeesAnything(w) ==
  /\ ThreadAt(w, "wait")
  /\ lock[w] # "IDLE"
  /\ GoTo(w, "mask")
  /\ UNCHANGED <<lockVars, bootVars, asked, masked, isr>>

WaitSeesParked(w) ==
  /\ ThreadAt(w, "wait")
  /\ lock[w] = "PARKED"
  /\ GoTo(w, "mask")
  /\ UNCHANGED <<lockVars, bootVars, asked, masked, isr>>

(* The doorbell is pending and nothing holds the ISR back, or the ISR is   *)
(* on its way to the answer.                                               *)
CanAnswer(c) ==
  \/ isr[c] = "none" /\ bell[c] /\ listening[c] /\ ~masked[c]
  \/ isr[c] \in {"check", "answer"}

(* After MOKYA_PARK_WAIT_SPINS polls the writer goes ahead all the same. *)
WaitExpires(w) ==
  /\ ThreadAt(w, "wait")
  /\ \/ Timeouts = "any"
     \/ Timeouts = "late" /\ lock[w] # "PARKED" /\ ~CanAnswer(Other(w))
  /\ GoTo(w, "mask")
  /\ UNCHANGED <<lockVars, bootVars, asked, masked, isr>>

DisableInterrupts(w) ==
  /\ ThreadAt(w, "mask")
  /\ masked' = [masked EXCEPT ![w] = TRUE]
  /\ GoTo(w, "flash")
  /\ UNCHANGED <<lockVars, bootVars, asked, isr>>

(* __real_flash_range_erase or _program, and the XIP cache is on again. *)
FlashDone(w) ==
  /\ ThreadAt(w, "flash")
  /\ GoTo(w, "unmask")
  /\ UNCHANGED <<lockVars, bootVars, asked, masked, isr>>

RestoreInterrupts(w) ==
  /\ ThreadAt(w, "unmask")
  /\ masked' = [masked EXCEPT ![w] = FALSE]
  /\ GoTo(w, "release")
  /\ UNCHANGED <<lockVars, bootVars, asked, isr>>

ReleaseLock(w) ==
  /\ ThreadAt(w, "release")
  /\ lock' = [lock EXCEPT ![w] = "IDLE"]
  /\ GoTo(w, "signal")
  /\ UNCHANGED <<bell, event, bootVars, asked, masked, isr>>

\* Mutant: the __sev() is forgotten.
NoSignal(w) ==
  /\ ThreadAt(w, "signal")
  /\ GoTo(w, "idle")
  /\ UNCHANGED <<lockVars, bootVars, asked, masked, isr>>

(* __sev() sets the event register of both cores. *)
Signal(w) ==
  /\ ThreadAt(w, "signal")
  /\ event' = AllCores(TRUE)
  /\ GoTo(w, "idle")
  /\ UNCHANGED <<lock, bell, bootVars, asked, masked, isr>>

Write(w) ==
  \/ Request(w) \/ Ring(w) \/ WaitSeesParked(w) \/ WaitExpires(w)
  \/ DisableInterrupts(w) \/ FlashDone(w) \/ RestoreInterrupts(w)
  \/ ReleaseLock(w) \/ Signal(w)

-----------------------------------------------------------------------------
(* The parker: ipc_doorbell_isr and flash_park_handler                     *)

IsrGoesTo(c, label) == isr' = [isr EXCEPT ![c] = label]

(* The ISR is entered and clears the doorbell. *)
IsrEnters(c) ==
  /\ isr[c] = "none"
  /\ bell[c] /\ listening[c] /\ ~masked[c]
  /\ bell' = [bell EXCEPT ![c] = FALSE]
  /\ IsrGoesTo(c, "check")
  /\ UNCHANGED <<lock, event, bootVars, threadVars>>

\* Mutant: the ISR parks on every doorbell.
IsrParksUnchecked(c) ==
  /\ isr[c] = "check"
  /\ IsrGoesTo(c, "answer")
  /\ UNCHANGED <<lockVars, bootVars, threadVars>>

IsrChecks(c) ==
  /\ isr[c] = "check"
  /\ IsrGoesTo(c, IF lock[Other(c)] = "REQUEST" THEN "answer" ELSE "none")
  /\ UNCHANGED <<lockVars, bootVars, threadVars>>

IsrAnswers(c) ==
  /\ isr[c] = "answer"
  /\ lock' = [lock EXCEPT ![Other(c)] = "PARKED"]
  /\ IsrGoesTo(c, "wake")
  /\ UNCHANGED <<bell, event, bootVars, threadVars>>

IsrWakesWriter(c) ==
  /\ isr[c] = "wake"
  /\ event' = AllCores(TRUE)
  /\ IsrGoesTo(c, "poll")
  /\ UNCHANGED <<lock, bell, bootVars, threadVars>>

IsrPolls(c) ==
  /\ isr[c] = "poll"
  /\ IsrGoesTo(c, IF lock[Other(c)] = "IDLE" THEN "none" ELSE "sleep")
  /\ UNCHANGED <<lockVars, bootVars, threadVars>>

\* Mutant: a wake-up ends the park, the lock is not looked at again.
IsrLeavesOnEvent(c) ==
  /\ isr[c] = "sleep"
  /\ event[c]
  /\ event' = [event EXCEPT ![c] = FALSE]
  /\ IsrGoesTo(c, "none")
  /\ UNCHANGED <<lock, bell, bootVars, threadVars>>

IsrWaitsForEvent(c) ==
  /\ isr[c] = "sleep"
  /\ event[c]
  /\ event' = [event EXCEPT ![c] = FALSE]
  /\ IsrGoesTo(c, "poll")
  /\ UNCHANGED <<lock, bell, bootVars, threadVars>>

Park(c) ==
  \/ IsrEnters(c) \/ IsrChecks(c) \/ IsrAnswers(c)
  \/ IsrWakesWriter(c) \/ IsrPolls(c) \/ IsrWaitsForEvent(c)

-----------------------------------------------------------------------------
ParkNext ==
  \/ Core1Ready \/ Core1Listens \/ Core0Ready
  \/ \E w \in Writers : Begin(w) \/ Write(w)
  \/ \E c \in Cores : Park(c)

(* A core executes: an operation begun is carried on with, an ISR that is  *)
(* pending is entered and executed.  Nobody must begin an operation.       *)
Fairness == \A c \in Cores : WF_parkVars(Write(c)) /\ WF_parkVars(Park(c))

BootSpec == BootInit /\ [][ParkNext]_parkVars /\ Fairness

RunningSpec == RunningInit /\ [][ParkNext]_parkVars /\ Fairness

-----------------------------------------------------------------------------
(* No core that was asked to park runs code from the flash while the flash *)
(* is being erased or programmed.                                          *)
XipSafe ==
  \A w \in Cores : pc[w] = "flash" /\ asked[w] => Parked(Other(w))

(* PARKED is only ever the answer to a request still standing: the ISR's   *)
(* test and its store, which are not one atomic step, never straddle the   *)
(* writer's return of the word to IDLE.                                    *)
AnswersRequest ==
  [][\A w \in Cores :
       lock'[w] = "PARKED" /\ lock[w] # "PARKED" => lock[w] = "REQUEST"]_parkVars

(* A core that parks runs on once the writer is done: no __sev() is lost   *)
(* and no lock word is left away from IDLE.                                *)
EveryParkEnds ==
  \A c \in Cores : <>[](pc[Other(c)] = "idle") => []<>(isr[c] = "none")

(* A flash operation begun comes to its end, also one that follows another *)
(* so closely that the parker never saw the lock IDLE in between.          *)
EveryWriteEnds == \A w \in Writers : pc[w] # "idle" ~> pc[w] = "idle"

(* flash_safety_wrap.c: neither side of the handshake is left waiting.     *)
OperationsEnd == EveryParkEnds /\ EveryWriteEnds

(* The inductive invariant behind XipSafe, once both cores are up or, from *)
(* boot on, when Core 1 alone writes.  From the store of REQUEST to the    *)
(* store of IDLE the word is never IDLE, so a core that has parked stays;  *)
(* a request not yet answered has a doorbell pending or an ISR on its way, *)
(* so a wait that runs out while neither can run finds the other core      *)
(* still parked for the write before this one.                             *)
Committed(w) == asked[w] /\ pc[w] \in {"mask", "flash", "unmask", "release"}
HoldsLock(w) == pc[w] \in {"ring", "wait"} \/ Committed(w)

Listeners ==
  /\ ready[C0] => listening[C0]
  /\ C0 \in Writers => \A c \in Cores : ready[c] /\ listening[c] /\ (pc[c] # "idle" => asked[c])

ParkInv ==
  /\ ParkTypes
  /\ Listeners
  /\ \A c \in Cores :
       /\ pc[c] # "idle" => c \in Writers
       /\ pc[c] \in {"request", "ring", "wait"} => asked[c]
       /\ asked[c] => listening[Other(c)]
       /\ masked[c] <=> pc[c] \in {"flash", "unmask"}
       /\ lock[c] # "IDLE" <=> HoldsLock(c)
       /\ lock[c] = "PARKED" \/ Committed(c) => Parked(Other(c))
       /\ isr[Other(c)] = "answer" => lock[c] = "REQUEST"
       /\ pc[c] = "wait" /\ isr[Other(c)] = "none" => bell[Other(c)]
==============================================================================
