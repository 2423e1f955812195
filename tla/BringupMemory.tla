--------------------------- MODULE BringupMemory ---------------------------
(***************************************************************************)
(* The memory commands of the bring-up firmware: the serial flash and the  *)
(* PSRAM share one QMI, through which the program itself is fetched.  What *)
(* a command does to that interface is a sequence of steps: interrupts on  *)
(* and off, direct mode (no fetch is possible), the timing of the flash's  *)
(* window, the pads, the cache, the PSRAM's select pin and its own mode.   *)
(* The steps of a function that runs from RAM fetch nothing, except where  *)
(* it calls one that does not.  What is read and compared is left out, and *)
(* a sweep is one of its candidates.                                       *)
(***************************************************************************)
EXTENDS BringupSteps

(***************************************************************************)
(* irq: interrupts enabled.  direct: DIRECT_CSR.EN.  flash: M0's timing,   *)
(* as at boot or a candidate.  pads: the flash's pads, their own values or *)
(* candidates.  stale: the cache may hold lines read at a candidate        *)
(* timing.  pin: GPIO0 driven by the window ("xip", function 9) or by      *)
(* software.  quad: the PSRAM chip is in QPI mode, which the window uses.  *)
(* psram: M1's timing.                                                     *)
(***************************************************************************)
Mems == [irq : BOOLEAN, direct : BOOLEAN, flash : {"boot", "test"}, pads : {"own", "tried"},
         stale : BOOLEAN, pin : {"xip", "sio"}, quad : BOOLEAN, psram : {"boot", "test"}]

(***************************************************************************)
(* After start-up, with the PSRAM found or not.                            *)
(***************************************************************************)
MemInit == {m \in Mems : /\ m.irq /\ ~m.direct /\ ~m.stale
                         /\ m.flash = "boot" /\ m.psram = "boot" /\ m.pads = "own"
                         /\ m.pin = "xip" <=> m.quad}

(***************************************************************************)
(* A memory step sets one of these, or reads the flash through the cache.  *)
(***************************************************************************)
Mem(what, to) == [op |-> "mem", arg |-> [what |-> what, to |-> to]]
Cached        == Mem("cached", TRUE)
MemDo(m, arg) == IF arg.what = "cached" THEN [m EXCEPT !.stale = m.stale \/ m.flash = "test"]
                 ELSE [m EXCEPT ![arg.what] = arg.to]

(***************************************************************************)
(* Fetch calls a function that is in flash.  Selected leaves out the next  *)
(* n steps unless the window drives the PSRAM's pin; Access uses it.       *)
(***************************************************************************)
Fetch       == [op |-> "fetch", arg |-> 0]
Access      == [op |-> "access", arg |-> 0]
Selected(n) == [op |-> "selected", arg |-> n]
Guarded(steps) == <<Selected(Len(steps))>> \o steps

IrqOff(steps)   == <<Mem("irq", FALSE)>> \o steps \o <<Mem("irq", TRUE)>>
InDirect(steps) == <<Mem("direct", TRUE)>> \o steps \o <<Mem("direct", FALSE)>>
M0(t) == InDirect(<<Mem("flash", t)>>)

-----------------------------------------------------------------------------
(* PSRAM.                                                                  *)

(***************************************************************************)
(* The pin to software, the chip reset out of either mode and put in QPI   *)
(* mode, the window set up; a busy timeout on the way leaves the pin.      *)
(***************************************************************************)
psram_init ==
  <<Mem("pin", "sio")>>
  \o IrqOff(InDirect(<<Mem("quad", FALSE), Maybe(3),
                       Mem("quad", TRUE), Mem("psram", "boot"), Mem("pin", "xip")>>))

(***************************************************************************)
(* The probe leaves the pin with software.  It resets in SPI mode only,    *)
(* which a chip in QPI mode may or may not take.                           *)
(***************************************************************************)
psram_probe ==
  <<Mem("pin", "sio")>> \o IrqOff(InDirect(<<Maybe(1), Mem("quad", FALSE)>>))

(***************************************************************************)
(* Patterns written and read through the window, in one alias or another.  *)
(***************************************************************************)
psram_test       == Guarded(<<Access>>)
psram_full_test  == Guarded(<<Access>>)
psram_verify_full == Guarded(<<Access>>)
psram_wthru_test == Guarded(<<Access>>)
psram_jlink_prep == Guarded(<<Access>>)
psram_fps_bench  == Guarded(<<Access, Take("dma"), Access, Give("dma")>>)
psram_rd_diag    == Guarded(<<Take("dma"), Access, Give("dma")>>)
psram_dma_diag   == Guarded(<<Access, Take("dma"), Access, Give("dma")>>)
qmi_diag         == <<>>

(***************************************************************************)
(* The same at another timing, then back to the one found.  The sweep's    *)
(* last write goes straight to the register.                               *)
(***************************************************************************)
psram_set_timing(t) == IrqOff(InDirect(<<Mem("psram", t)>>))
psram_full_test_75 == psram_set_timing("test") \o psram_full_test \o psram_set_timing("boot")
psram_full_at      == psram_set_timing("test") \o psram_verify_full \o psram_set_timing("boot")
psram_speed_test   == Guarded(psram_set_timing("test") \o <<Access, Mem("psram", "boot")>>)
psram_diag_test ==
  Guarded(psram_set_timing("test") \o <<Access>> \o psram_set_timing("boot"))

-----------------------------------------------------------------------------
(* Flash.  The SDK's own flash commands are taken as one step.             *)

flash_test       == <<>>
flash_bench      == <<>>
flash_boost_pads == <<>>
flash_reset      == IrqOff(InDirect(<<>>))

(***************************************************************************)
(* The two sweeps: the candidate timing in, interrupts on, the window read *)
(* (by the second through the cache too, if the first word was right), the *)
(* timing back.                                                            *)
(***************************************************************************)
flash_speed_run == IrqOff(M0("test")) \o IrqOff(M0("boot"))
flash_sweep2    == IrqOff(M0("test")) \o <<Maybe(1), Cached>> \o IrqOff(M0("boot"))

(***************************************************************************)
(* Pads tried one set after the other at the candidate timing, interrupts  *)
(* off throughout.  Mutant: interrupts on from one set to the next.        *)
(***************************************************************************)
flash_pad_ablationOpen ==
  IrqOff(M0("test") \o <<Mem("pads", "tried")>>) \o IrqOff(<<Mem("pads", "own")>> \o M0("boot"))
flash_pad_ablation ==
  IrqOff(M0("test") \o <<Mem("pads", "tried"), Mem("pads", "own")>> \o M0("boot"))

(***************************************************************************)
(* The whole flash summed at both timings, past the cache: the clock is    *)
(* read by a function in flash.                                            *)
(***************************************************************************)
flash_deep_scan ==
  IrqOff(<<Fetch, Mem("pads", "tried")>> \o M0("test") \o <<Fetch>> \o M0("boot")
         \o <<Mem("pads", "own")>>)
flash_deep_ablation ==
  IrqOff(<<Mem("pads", "tried")>> \o M0("test") \o <<Fetch>> \o M0("boot")
         \o <<Mem("pads", "own")>>)

(***************************************************************************)
(* The same through the cache, which is emptied before anything in flash   *)
(* runs again; and in random order.                                        *)
(***************************************************************************)
flash_deep_scan_cached ==
  IrqOff(<<Cached, Mem("pads", "tried")>> \o M0("test") \o <<Cached>> \o M0("boot")
         \o <<Mem("pads", "own"), Mem("stale", FALSE)>>)
flash_deep_ablation_cached ==
  IrqOff(<<Cached, Mem("pads", "tried")>> \o M0("test") \o <<Cached>> \o M0("boot")
         \o <<Mem("stale", FALSE), Mem("pads", "own"), Mem("stale", FALSE)>>)
flash_rand_scan_cached == flash_deep_scan_cached

-----------------------------------------------------------------------------
(* The commands with a display, all ending with the BACK key.              *)

sram_test == <<>>

Shown(steps) == <<Draw>> \o steps \o <<Draw, Wait>>
cmd_memory_diag    == Shown(<<Draw>> \o psram_init \o <<Draw, Maybe(1), Access>>)
cmd_psram_full_tft == Shown(Guarded(<<Draw, Access, Draw>>))
cmd_psram_debug    == Shown(psram_init \o <<Draw, Maybe(1), Access>>)
cmd_psram_dma_test == Shown(Guarded(<<Draw, Access, Maybe(3), Draw, Access, Draw>>))

(***************************************************************************)
(* The PSRAM's sweep, which BACK ends, then the flash's; the PSRAM's       *)
(* timing is put back either way.                                          *)
(***************************************************************************)
Tuning == psram_set_timing("boot") \o <<Draw>> \o flash_speed_run \o <<Draw>>
cmd_psram_tuning ==
  Shown(Guarded(<<Draw>> \o psram_set_timing("test") \o <<Access, Maybe(Len(Tuning))>>
                \o Tuning \o psram_set_timing("boot")))
=============================================================================
