------------------------------ MODULE Bringup ------------------------------
(***************************************************************************)
(* The bring-up firmware's main loop (firmware/tools/bringup): one thread  *)
(* on core 0 that serves the serial console and the menu on the display.   *)
(* A byte on the console takes the loop away from the menu; two seconds of *)
(* silence give it back.  Commands are started from either side, run to    *)
(* their end on the loop's own thread, and share the board's pins and      *)
(* peripherals with the menu.                                              *)
(*                                                                         *)
(* What a command does is a sequence of steps (BringupSteps,               *)
(* BringupMemory).  The serial line is abstracted to the command it        *)
(* spells; the menu's cursor to the choice of an item of the page, since   *)
(* UP and DOWN reach every one of them.                                    *)
(***************************************************************************)
EXTENDS BringupSteps, BringupMemory

CONSTANTS MenuPages,      \* pages of the menu explored
          SerialCommands  \* commands explored on the console

VARIABLES ui,      \* menu_ctx_t.state
          page,    \* menu_ctx_t.page
          dirty,   \* menu_ctx_t.lcd_dirty
          via,     \* who started the command that runs: "menu", "serial" or ""
          todo,    \* its steps still to do
          held,    \* what is claimed
          tft,     \* m_pio_active
          lit,     \* the display's backlight is enabled
          rows,    \* the keypad's pins are set up, apart from
          back,    \* row 0 and the BACK key's column
          charge,  \* the charger: "off", "on", or "reset" to its own settings
          watched, \* its watchdog runs
          mem,     \* the memory interface (BringupMemory)
          asked,   \* history: charging was last asked for
          spoiled  \* history: a console command has run since the last menu item

pins == <<tft, lit, rows, back>>
vars == <<ui, page, dirty, via, todo, held, pins, charge, watched, mem, asked, spoiled>>

(***************************************************************************)
(* What each console command runs.                                         *)
(***************************************************************************)
Console == [baro |-> baro_read, mag |-> mag_read, imu |-> imu_read, gnss_info |-> gnss_info,
  gnss_probe |-> gnss_probe, gnss_rfdiag |-> gnss_rfdiag, gnss_rftft |-> gnss_rftft,
  dump_b |-> dump_bus_b, scan_a |-> scan_bus_a, scan_b |-> scan_bus_b, status |-> status,
  adc |-> adc, led |-> led, motor |-> motor_breathe, amp_test |-> amp_test,
  amp |-> amp_breathe, bee |-> amp_bee, mic |-> mic_test, mic_raw |-> mic_raw,
  mic_loop |-> mic_loopback, mic_rec |-> mic_rec, mic_dump |-> mic_dump, lora |-> lora_test,
  lora_rx |-> lora_rx, lora_tx |-> lora_tx, lora_dump |-> lora_dump, sram |-> sram_test,
  flash |-> flash_test, psram |-> psram_test, psram_full |-> psram_full_test,
  psram_full_75 |-> psram_full_test_75, psram_sweep |-> psram_speed_test,
  flash_sweep |-> flash_speed_run, flash_bench |-> flash_bench, flash_sweep2 |-> flash_sweep2,
  flash_reset |-> flash_reset, flash_boost_pads |-> flash_boost_pads,
  flash_pad_ablation |-> flash_pad_ablation, flash_deep_scan |-> flash_deep_scan,
  flash_deep_ablation |-> flash_deep_ablation,
  flash_deep_scan_cached |-> flash_deep_scan_cached,
  flash_deep_ablation_cached |-> flash_deep_ablation_cached,
  flash_rand_scan_cached |-> flash_rand_scan_cached, psram_jlink |-> psram_jlink_prep,
  psram_diag |-> psram_diag_test, psram_probe |-> psram_probe, qmi_diag |-> qmi_diag,
  psram_verify |-> psram_verify_full, psram_wthru |-> psram_wthru_test,
  psram_at |-> psram_full_at, mem_diag |-> cmd_memory_diag,
  psram_full_tft |-> cmd_psram_full_tft, psram_tuning |-> cmd_psram_tuning,
  psram_debug |-> cmd_psram_debug, psram_dma |-> cmd_psram_dma_test,
  psram_rd_diag |-> psram_rd_diag, psram_dma_diag |-> psram_dma_diag,
  psram_fps |-> psram_fps_bench, key |-> key_monitor, key_tft |-> key_tft_test,
  tft |-> tft_test, tft_fast |-> tft_fast_test, rotate |-> rotate,
  gnss_tft |-> gnss_tft_test, charge_on |-> charge_on, charge_scan |-> charge_scan,
  charge_off |-> charge_off, bq27441 |-> bq27441_read, core1 |-> core1_test]

(***************************************************************************)
(* The pages of the menu; some items wait for BACK after the command.      *)
(***************************************************************************)
Pages == [
  sensors  |-> {imu_read, baro_read, mag_read, gnss_info, gnss_tft_test, gnss_rftft,
                scan_bus_a \o <<Wait>>},
  power    |-> {scan_bus_b \o <<Wait>>, charger_diag, gauge_diag, charge_on, charge_off,
                charge_scan, led, motor_breathe},
  audio    |-> {amp_test, amp_breathe, amp_bee, mic_test, mic_raw, mic_loopback, mic_rec,
                mic_dump},
  memory   |-> {cmd_memory_diag, cmd_psram_full_tft, cmd_psram_dma_test, cmd_psram_tuning,
                cmd_psram_debug},
  lora     |-> {lora_test \o <<Wait>>, lora_rx, lora_tx \o <<Wait>>, lora_dump \o <<Wait>>},
  display  |-> {tft_test, tft_fast_test, rotate},
  keyboard |-> {key_monitor, key_tft_test},
  core1    |-> {core1_test}]

ASSUME CommandAssumption ==
  SerialCommands \subseteq DOMAIN Console /\ MenuPages \subseteq DOMAIN Pages

Init ==
  /\ ui = "MENU" /\ page = "root" /\ dirty = TRUE
  /\ via = "" /\ todo = <<>> /\ held = {}
  /\ tft = TRUE /\ lit = TRUE /\ rows = TRUE /\ back = TRUE
  /\ charge = "off" /\ watched = FALSE
  /\ mem \in MemInit
  /\ asked = FALSE /\ spoiled = FALSE

-----------------------------------------------------------------------------
(* The loop.                                                               *)

(***************************************************************************)
(* At the top of the loop: the last pass ended with the menu drawn.        *)
(***************************************************************************)
Idle == via = "" /\ ~dirty

menu_draw ==
  /\ via = "" /\ dirty
  /\ dirty' = FALSE
  /\ tft' = TRUE
  /\ lit' = (lit \/ ~tft)
  /\ UNCHANGED <<ui, page, via, todo, held, rows, back, charge, watched, mem, asked, spoiled>>

(***************************************************************************)
(* The first byte of a line, and the line's end: the console takes over    *)
(* and its command starts.                                                 *)
(***************************************************************************)
SerialByte ==
  /\ Idle /\ ui = "MENU"
  /\ ui' = "SERIAL"
  /\ UNCHANGED <<page, dirty, via, todo, held, pins, charge, watched, mem, asked, spoiled>>

Asked(steps) ==
  IF \E i \in DOMAIN steps : steps[i] = Charge("on") THEN TRUE
  ELSE IF \E i \in DOMAIN steps : steps[i] = Charge("off") THEN FALSE ELSE asked

handle_command(name) ==
  /\ Idle /\ ui = "SERIAL"
  /\ via' = "serial"
  /\ todo' = Console[name]
  /\ asked' = Asked(Console[name])
  /\ spoiled' = TRUE
  /\ UNCHANGED <<ui, page, dirty, held, pins, charge, watched, mem>>

(***************************************************************************)
(* Two seconds without a byte.                                             *)
(***************************************************************************)
SerialIdle ==
  /\ Idle /\ ui = "SERIAL"
  /\ ui' = "MENU" /\ dirty' = TRUE
  /\ UNCHANGED <<page, via, todo, held, pins, charge, watched, mem, asked, spoiled>>

(***************************************************************************)
(* OK opens a page of the root, or runs an item of a page between setting  *)
(* up and releasing the BACK key.  BACK and LEFT close a page.  With its   *)
(* pins released the keypad's columns float, and any key may be read.      *)
(***************************************************************************)
OpenPage(p) ==
  /\ Idle /\ ui = "MENU"
  /\ page = "root" /\ page' = p /\ dirty' = TRUE
  /\ UNCHANGED <<ui, via, todo, held, pins, charge, watched, mem, asked, spoiled>>

RunItemAsIs(steps) ==   \* mutant: the BACK key is not set up
  /\ Idle /\ ui = "MENU"
  /\ ui' = "TEST" /\ via' = "menu"
  /\ todo' = steps
  /\ asked' = Asked(steps)
  /\ UNCHANGED <<page, dirty, held, pins, charge, watched, mem, spoiled>>

RunItem(steps) ==
  /\ Idle /\ ui = "MENU"
  /\ ui' = "TEST" /\ via' = "menu"
  /\ todo' = <<Keys("back")>> \o steps
  /\ asked' = Asked(steps)
  /\ UNCHANGED <<page, dirty, held, pins, charge, watched, mem, spoiled>>

ClosePage ==
  /\ Idle /\ ui = "MENU" /\ page # "root"
  /\ page' = "root" /\ dirty' = TRUE
  /\ UNCHANGED <<ui, via, todo, held, pins, charge, watched, mem, asked, spoiled>>

-----------------------------------------------------------------------------
(* The steps of a command.                                                 *)

At(op) == via # "" /\ todo # <<>> /\ Head(todo).op = op
Arg == Head(todo).arg

(***************************************************************************)
(* The step is done; the rest of the state it does not name is left alone. *)
(***************************************************************************)
Done == todo' = Tail(todo) /\ UNCHANGED <<ui, page, dirty, via, asked, spoiled>>

Claim ==
  /\ At("take") /\ held' = held \cup {Arg}
  /\ Done /\ UNCHANGED <<pins, charge, watched, mem>>

Release ==
  /\ At("give") /\ held' = held \ {Arg}
  /\ Done /\ UNCHANGED <<pins, charge, watched, mem>>

Talk == (At("use") \/ At("fetch") \/ At("access")) /\ Done /\ UNCHANGED <<held, pins, charge, watched, mem>>

(***************************************************************************)
(* Drawing writes to the display's FIFO and waits for it to drain: with    *)
(* the display stopped it waits for ever.                                  *)
(***************************************************************************)
DrawStep ==
  /\ At("draw") /\ tft
  /\ Done /\ UNCHANGED <<held, pins, charge, watched, mem>>

(***************************************************************************)
(* BACK is pressed, or its floating column reads as if it were.            *)
(***************************************************************************)
BackRead == At("wait") /\ Done /\ UNCHANGED <<held, pins, charge, watched, mem>>
BackPressed == back /\ BackRead

Choose ==
  /\ At("maybe")
  /\ \E n \in {0, Arg} : todo' = SubSeq(todo, n + 2, Len(todo))
  /\ UNCHANGED <<ui, page, dirty, via, held, pins, charge, watched, mem, asked, spoiled>>

SelectedStep ==
  /\ At("selected")
  /\ todo' = SubSeq(todo, (IF mem.pin = "xip" THEN 0 ELSE Arg) + 2, Len(todo))
  /\ UNCHANGED <<ui, page, dirty, via, held, pins, charge, watched, mem, asked, spoiled>>

ReturnStep ==
  /\ At("return") /\ todo' = <<>>
  /\ UNCHANGED <<ui, page, dirty, via, held, pins, charge, watched, mem, asked, spoiled>>

(***************************************************************************)
(* The keypad's pins: all of them, or the BACK key's alone.                *)
(***************************************************************************)
KeyPins ==
  /\ At("keys")
  /\ back' = (Arg = "all" \/ Arg = "back")
  /\ rows' = (Arg = "all" \/ (rows /\ Arg # "none"))
  /\ Done /\ UNCHANGED <<held, tft, lit, charge, watched, mem>>

TftStep ==
  /\ At("tft")
  /\ tft' = (Arg # "stop")
  /\ lit' = (lit \/ (Arg = "reinit" /\ ~tft))
  /\ Done /\ UNCHANGED <<held, rows, back, charge, watched, mem>>

LightStep ==
  /\ At("light") /\ lit' = Arg
  /\ Done /\ UNCHANGED <<held, tft, rows, back, charge, watched, mem>>

bq25622_charge ==
  /\ At("charge")
  /\ charge' = Arg /\ watched' = (Arg = "on")
  /\ Done /\ UNCHANGED <<held, pins, mem>>

MemoryStep ==
  /\ At("mem") /\ mem' = MemDo(mem, Arg)
  /\ Done /\ UNCHANGED <<held, pins, charge, watched>>

(***************************************************************************)
(* The command has returned.  The menu sets up the keypad again and gives  *)
(* up the display, which the redraw starts again.                          *)
(***************************************************************************)
ReturnedDrawing ==   \* mutant: the display is not given up
  /\ via # "" /\ todo = <<>>
  /\ via' = ""
  /\ IF via = "menu"
       THEN /\ rows' = TRUE /\ back' = TRUE
            /\ ui' = "MENU" /\ dirty' = TRUE /\ spoiled' = FALSE
       ELSE UNCHANGED <<rows, back, ui, dirty, spoiled>>
  /\ UNCHANGED <<page, todo, held, tft, lit, charge, watched, mem, asked>>

Returned ==
  /\ via # "" /\ todo = <<>>
  /\ via' = ""
  /\ IF via = "menu"
       THEN /\ rows' = TRUE /\ back' = TRUE /\ tft' = FALSE
            /\ ui' = "MENU" /\ dirty' = TRUE /\ spoiled' = FALSE
       ELSE UNCHANGED <<rows, back, tft, ui, dirty, spoiled>>
  /\ UNCHANGED <<page, todo, held, lit, charge, watched, mem, asked>>

(***************************************************************************)
(* The charger's watchdog expires: it goes back to its own settings, which *)
(* enable charging.                                                        *)
(***************************************************************************)
WatchdogExpires ==
  /\ watched /\ watched' = FALSE /\ charge' = "reset"
  /\ UNCHANGED <<ui, page, dirty, via, todo, held, pins, mem, asked, spoiled>>

CommandStep ==
  \/ Claim \/ Release \/ Talk \/ DrawStep \/ Choose \/ SelectedStep \/ ReturnStep
  \/ KeyPins \/ TftStep \/ LightStep \/ bq25622_charge \/ MemoryStep \/ Returned

Next ==
  \/ menu_draw \/ SerialByte \/ SerialIdle \/ ClosePage
  \/ \E name \in SerialCommands : handle_command(name)
  \/ \E p \in MenuPages : OpenPage(p)
  \/ page # "root" /\ \E steps \in Pages[page] : RunItem(steps)
  \/ CommandStep \/ BackRead
  \/ WatchdogExpires

(***************************************************************************)
(* The loop runs, so does a command that can, and somebody who waits for a *)
(* test to end presses BACK.                                               *)
(***************************************************************************)
Fairness == WF_vars(CommandStep) /\ WF_vars(BackPressed) /\ WF_vars(menu_draw) /\ WF_vars(SerialIdle)

Spec == Init /\ [][Next]_vars /\ Fairness

-----------------------------------------------------------------------------
(* Properties.                                                             *)

TypeOK ==
  /\ ui \in {"MENU", "SERIAL", "TEST"} /\ page \in DOMAIN Pages \cup {"root"}
  /\ via \in {"", "menu", "serial"} /\ held \subseteq Claims
  /\ {dirty, tft, lit, rows, back, watched, asked, spoiled} \subseteq BOOLEAN
  /\ charge \in {"off", "on", "reset"} /\ mem \in Mems

(***************************************************************************)
(* A command claims only what is free, and the one I2C block for one bus   *)
(* at a time; it uses only what it holds.                                  *)
(***************************************************************************)
HoldsWhatItUses ==
  /\ At("take") => Arg \notin held
  /\ ~({"busA", "busB"} \subseteq held)
  /\ At("use") => Arg \in held
  /\ (At("light") \/ At("charge")) => "busB" \in held

(***************************************************************************)
(* However a command ends - at its end, at a BACK key, at a device that    *)
(* does not answer - it has released what it claimed and put the memory    *)
(* interface back: the next command, and the code itself, depend on it.    *)
(***************************************************************************)
NothingLeftOver ==
  via = "" => /\ held = {}
              /\ mem.irq /\ ~mem.direct
              /\ mem.flash = "boot" /\ mem.psram = "boot" /\ mem.pads = "own"

(***************************************************************************)
(* The charger charges only if that was the last thing asked of it, from   *)
(* the console or from the menu: repl_init disables charging, and the      *)
(* watchdog, whose expiry would enable it, runs only while it is enabled.  *)
(***************************************************************************)
ChargesIfAsked == via = "" => (charge # "off" => asked)

BringupInv == TypeOK /\ HoldsWhatItUses /\ NothingLeftOver /\ ChargesIfAsked

(***************************************************************************)
(* After any item of the menu - those that stop the display, turn its      *)
(* backlight off or release the keypad included - the menu is drawn, lit   *)
(* and can be operated, until a console command runs.                      *)
(***************************************************************************)
Usable     == tft /\ lit /\ rows /\ back
MenuUsable == (ui = "MENU" /\ Idle /\ ~spoiled) => Usable

(***************************************************************************)
(* Nothing is fetched from the flash, by an interrupt or by the command    *)
(* itself, in direct mode, at a candidate timing, or while the cache may   *)
(* hold a line read at one.  This does not hold: flash_sweep enables the   *)
(* interrupts while it reads at a candidate timing.                        *)
(***************************************************************************)
Fetches == mem.irq \/ ~(At("mem") \/ At("maybe"))
FetchesAreSafe == Fetches => ~mem.direct /\ mem.flash = "boot" /\ ~mem.stale

(***************************************************************************)
(* The pin's function, which the PSRAM commands test before they use the   *)
(* window, says the truth: the chip is in the mode the window uses.        *)
(***************************************************************************)
SelectedIsQuad == mem.pin = "xip" => mem.quad
MemoryIsSafe   == FetchesAreSafe /\ SelectedIsQuad

(***************************************************************************)
(* A test started from the menu ends: no step of it waits for a display    *)
(* that is stopped or for a key whose pins are released.                   *)
(***************************************************************************)
ItemEnds == (ui = "TEST") ~> (ui = "MENU")

(***************************************************************************)
(* "When serial is idle >2 s, the LCD menu becomes active."                *)
(* (i2c_custom_scan.c:617)  This does not hold: the key monitor releases   *)
(* the pins of the matrix when it ends.                                    *)
(***************************************************************************)
MenuActive == (ui = "MENU" /\ Idle) => Usable
=============================================================================
