---------------------------- MODULE BringupSteps ----------------------------
(***************************************************************************)
(* The commands of the bring-up firmware (firmware/tools/bringup), each as *)
(* the sequence of things it does to the board: what it claims and gives   *)
(* back, where it draws on the menu's display, what it writes to the LED   *)
(* driver and the charger, where it waits for the BACK key and where it    *)
(* may stop half-way.  A command runs alone on core 0, so that a step here *)
(* stands for all the code up to the next step.  What the commands print   *)
(* and measure is left out.                                                *)
(***************************************************************************)
EXTENDS Sequences, Naturals

(***************************************************************************)
(* What a command may claim: the one I2C block on bus A or on bus B, the   *)
(* audio state machine of PIO 0, the microphone and the test display's     *)
(* state machines of PIO 1, the SPI block of the radio, a DMA channel, the *)
(* motor's PWM, core 1, and a spin lock.                                   *)
(***************************************************************************)
Claims == {"busA", "busB", "amp", "mic", "panel", "radio", "dma", "motor", "core1", "lock"}

(***************************************************************************)
(* The kinds of step.  Maybe stands for a BACK key read on the way, or for *)
(* a device that answers or does not.                                      *)
(***************************************************************************)
Take(r)   == [op |-> "take", arg |-> r]       \* claim r
Give(r)   == [op |-> "give", arg |-> r]       \* release r
Use(r)    == [op |-> "use", arg |-> r]        \* talk through r, which must be held
Keys(k)   == [op |-> "keys", arg |-> k]       \* set up or release keypad pins
Tft(t)    == [op |-> "tft", arg |-> t]        \* start or stop the menu's display
Light(on) == [op |-> "light", arg |-> on]     \* write the LED driver's GP register
Charge(c) == [op |-> "charge", arg |-> c]     \* write CHARGER_CTRL1
Draw      == [op |-> "draw", arg |-> 0]       \* menu_str and the like
Wait      == [op |-> "wait", arg |-> 0]       \* while (!back_key_pressed())
Maybe(n)  == [op |-> "maybe", arg |-> n]      \* leave out the next n steps, or not
Return    == [op |-> "return", arg |-> 0]     \* leave out the rest

-----------------------------------------------------------------------------
(* Display.                                                                *)

(***************************************************************************)
(* The backlight's bank and enable, with the bus brought up for it.        *)
(***************************************************************************)
LitUp  == <<Take("busB"), Use("busB"), Light(TRUE), Give("busB")>>
LitOff == <<Take("busB"), Use("busB"), Light(FALSE), Give("busB")>>

(***************************************************************************)
(* The menu's display is started if it is not running.                     *)
(***************************************************************************)
menu_tft_reinit == <<Tft("reinit")>>

(***************************************************************************)
(* Fills in five colours.  A failed start of the panel's state machine     *)
(* would end the command; it needs another one left claimed.               *)
(***************************************************************************)
tft_test ==
  <<Tft("stop"), Take("panel")>> \o LitUp
  \o <<Give("panel")>> \o menu_tft_reinit \o <<Draw, Wait>>

(***************************************************************************)
(* Frame-rate tests A to K over DMA: BACK before the first result leaves   *)
(* without the summary, and with the menu's display stopped; BACK before   *)
(* the backlight test or later leaves out what follows.                    *)
(***************************************************************************)
FastCleanup == <<Give("dma"), Give("panel")>>
FastTests == <<Maybe(Len(LitUp))>> \o LitUp \o FastCleanup
             \o menu_tft_reinit \o <<Draw, Wait, Return>>
tft_fast_test ==
  <<Tft("stop"), Take("panel")>> \o LitUp
  \o <<Take("dma"), Maybe(Len(FastTests))>> \o FastTests \o FastCleanup

rotate == <<>>

(***************************************************************************)
(* Live GNSS display and RF display: the menu's display is stopped, its    *)
(* start-up sequence run again, and stopped again at the end with the      *)
(* backlight off and the BACK key's pins released.  Enter or BACK ends.    *)
(***************************************************************************)
LiveGnss ==
  <<Tft("stop"), Tft("start")>> \o LitUp \o <<Keys("back"), Draw>>
  \o <<Take("busA"), Use("busA"), Draw, Wait>>
  \o <<Keys("noback"), Give("busA")>> \o LitOff \o <<Tft("stop")>>
gnss_tft_test == LiveGnss
gnss_rftft == LiveGnss

-----------------------------------------------------------------------------
(* Sensors, on bus A.                                                      *)

(***************************************************************************)
(* A live reading: bus up, chip reset and configured, rows drawn until     *)
(* BACK, chip powered down, bus down.                                      *)
(***************************************************************************)
Live == <<Take("busA"), Use("busA"), Draw, Wait, Use("busA"), Give("busA")>>
baro_read == Live
mag_read  == Live
imu_read  == Live
gnss_info == <<Take("busA"), Draw, Use("busA"), Wait, Give("busA")>>
gnss_probe  == <<Take("busA"), Use("busA"), Give("busA")>>
gnss_rfdiag == <<Take("busA"), Use("busA"), Give("busA")>>
scan_bus_a  == <<Draw, Take("busA"), Use("busA"), Draw, Give("busA")>>

-----------------------------------------------------------------------------
(* Power, on bus B.                                                        *)

perform_scan == <<Take("busB"), Use("busB"), Give("busB")>>
dump_bus_b   == <<Take("busB"), Use("busB"), Give("busB")>>
scan_bus_b   == <<Draw, Take("busB"), Use("busB"), Draw, Give("busB")>>
status       == <<Take("busB"), Use("busB"), Give("busB")>>
adc          == <<Take("busB"), Use("busB"), Give("busB")>>
charger_diag == <<Take("busB"), Use("busB"), Draw, Wait, Give("busB")>>

(***************************************************************************)
(* Charging on: the voltage and current limits, the watchdog kicked, then  *)
(* charge enabled with the watchdog at its first setting.  Charging off:   *)
(* the same register with both bits clear.                                 *)
(***************************************************************************)
charge_on   == <<Take("busB"), Use("busB"), Charge("on"), Give("busB")>>
charge_off  == <<Take("busB"), Use("busB"), Charge("off"), Give("busB")>>
charge_scan == charge_on \o perform_scan

(***************************************************************************)
(* The gauge's answer decides: three attempts, each failing one followed   *)
(* by a release of the bus, nine clocks and a stop on its pins, and a new  *)
(* start; then the reading, which may pass through the gauge's             *)
(* configuration mode.                                                     *)
(***************************************************************************)
Recover == <<Give("busB"), Take("busB"), Use("busB")>>
bq27441_read ==
  <<Take("busB"), Use("busB"), Maybe(11)>> \o Recover \o <<Maybe(7)>> \o Recover
  \o <<Maybe(3)>> \o Recover \o <<Maybe(1), Use("busB"), Give("busB")>>

(***************************************************************************)
(* A gauge that does not answer: the message, the bus down, then BACK.     *)
(* Mutant: the bus stays up.                                               *)
(***************************************************************************)
gauge_diagKeepsBus ==
  <<Take("busB"), Use("busB"), Maybe(4), Draw, Wait, Give("busB"), Return, Draw, Wait>>
gauge_diag ==
  <<Take("busB"), Use("busB"), Maybe(4), Draw, Wait, Give("busB"), Return,
    Draw, Give("busB"), Wait>>

(***************************************************************************)
(* LED control: everything off, banks switched from the keypad (the        *)
(* display's own backlight is bank A), everything off again.  The keypad's *)
(* pins are set up by the command itself.                                  *)
(***************************************************************************)
led_control == <<Use("busB"), Light(FALSE), Draw, Keys("all"), Wait, Light(FALSE)>>
led == <<Take("busB")>> \o led_control \o <<Give("busB")>>

motor_breathe == <<Take("motor"), Give("motor")>>

-----------------------------------------------------------------------------
(* Audio.                                                                  *)

(***************************************************************************)
(* Tones and the melody: BACK is read between periods, breaths or bars.    *)
(***************************************************************************)
Sound == <<Take("amp"), Use("amp"), Maybe(1), Use("amp"), Give("amp")>>
amp_test    == Sound
amp_breathe == Sound
amp_bee     == Sound

(***************************************************************************)
(* The microphone: a density test, ten seconds of readings, a loop to the  *)
(* amplifier, a recording played afterwards, a recording sent to the host. *)
(***************************************************************************)
Record == <<Take("mic"), Use("mic"), Give("mic")>>
mic_test     == Record
mic_raw      == <<Take("mic"), Use("mic"), Maybe(1), Use("mic"), Give("mic")>>
mic_loopback == <<Take("amp"), Use("amp"), Take("mic"), Use("mic"), Maybe(1),
                  Use("mic"), Use("amp"), Give("mic"), Give("amp")>>
mic_rec      == Record \o <<Take("amp"), Use("amp"), Give("amp")>>
mic_dump     == Record

-----------------------------------------------------------------------------
(* LoRa.                                                                   *)

(***************************************************************************)
(* The radio's pins and SPI block, its reset line pulsed.                  *)
(***************************************************************************)
lora_test == <<Draw, Take("radio"), Use("radio"), Draw, Give("radio")>>

(***************************************************************************)
(* A radio that stays busy: the message, BACK, the pins released.          *)
(* Otherwise the receiver is configured and listens, for thirty seconds or *)
(* until BACK or "exit"; the sender and the register dump run to their     *)
(* end.                                                                    *)
(***************************************************************************)
OrBusy(work) == <<Draw, Take("radio"), Maybe(Len(work) + 2)>> \o work
                \o <<Give("radio"), Return, Draw, Wait, Give("radio")>>
lora_rx   == OrBusy(<<Use("radio"), Draw, Maybe(1), Wait, Draw>>)
lora_dump == OrBusy(<<Use("radio"), Draw, Use("radio")>>)
lora_tx   == OrBusy(<<Use("radio"), Draw, Use("radio"), Draw>>)

-----------------------------------------------------------------------------
(* Core 1 and keyboard.                                                    *)

(***************************************************************************)
(* Core 1 is started with a loop that answers on the FIFO; whatever of the *)
(* four tests fails, it is asked to stop, reset, and the lock unclaimed.   *)
(* It draws only if the menu's display is running.                         *)
(***************************************************************************)
core1_test ==
  <<Take("lock"), Take("core1"), Maybe(1), Use("core1"), Give("core1"), Give("lock"), Wait>>

(***************************************************************************)
(* Every key shown until BACK, Enter or the deadline; the first leaves the *)
(* keypad's pins released, the second leaves them set up.                  *)
(***************************************************************************)
key_monitor  == <<Keys("all"), Keys("none")>>
key_tft_test == <<Keys("all"), Draw>>
=============================================================================
