---------------------------- MODULE Peripherals ----------------------------
(***************************************************************************)
(* The tasks of Core 1 that share the one I2C peripheral: charger_task     *)
(* (bq25622.c), sensor_task (sensor_task.c and its three drivers) and the  *)
(* tasks that call the LED driver (lm27965.c) and the charger's runtime    *)
(* controls.  i2c_bus.c serialises them with a mutex and moves the         *)
(* peripheral between the POWER and the SENSOR pin pair.                   *)
(*                                                                         *)
(* A chip is a register file, and a driver call is a job: the list of      *)
(* register transfers it still has to make.  One step is one transfer, so  *)
(* a chip can change by itself, and a transfer can fail, between any two   *)
(* of them.                                                                *)
(***************************************************************************)
EXTENDS Naturals, Sequences, FiniteSets, Functions

CONSTANTS Calls,            \* the runtime calls other tasks make
          Duties,           \* the duty codes those calls ask for
          DutyMax,          \* LM27965_DUTY_AB_MAX, LM27965_DUTY_C_MAX
          FailDisconnect,   \* FAIL_DISCONNECT_COUNT
          LpsPeriod,        \* LPS22HH_PERIOD_TICKS
          Windows,          \* the watchdog windows those calls ask for
          MaxFaults,        \* bound: transfers that fail
          MaxUpsets,        \* bound: how many of the three upsets below happen
          ExpiresMidCall    \* whether the watchdog may run out within a call

ASSUME PeripheralsAssumption ==
    /\ Calls \subseteq {"set_charge_enabled", "set_watchdog", "set_hiz", "set_batfet",
                       "set_tft", "set_keypad", "set_red", "all_off"}
    /\ DutyMax \in Nat \ {0} /\ Duties \subseteq Nat
    /\ FailDisconnect \in Nat \ {0} /\ LpsPeriod \in Nat \ {0}
    /\ MaxFaults \in Nat /\ MaxUpsets \in Nat /\ ExpiresMidCall \in BOOLEAN
    /\ Windows \subseteq {"OFF", "50S", "100S", "200S"}

VARIABLES mutex,     \* s_bus_mutex: the task that holds it, or "none"
          active,    \* s_active: the pin pair wired to the peripheral
          chip,      \* the registers of every chip
          job,       \* what each task is doing
          charger,   \* bq25622_state_t and the stage of charger_task
          leds,      \* lm27965_state_t
          sensor,    \* the three sensors' online and i2c_fail_count
          sens,      \* sensor_task: the sensor it initialises, then its tick
          booted,    \* whether lvgl_task has called lm27965_init
          faults,    \* the transfers that may still fail
          upsets     \* what has happened: the charger's watchdog expired, a
                     \* sensor browned out, a runtime call wrote to the charger

vars == <<mutex, active, chip, job, charger, leds, sensor, sens, booted, faults, upsets>>

Tasks   == {"chg", "sens", "ui"}
Sensors == <<"lps22hh", "lis2mdl", "lsm6dsv16x">>
Pair(dev) == IF dev \in {"bq25622", "lm27965"} THEN "POWER" ELSE "SENSOR"

-----------------------------------------------------------------------------
(* The chips.                                                              *)

\* The production registers of the sensors, in the order hw_init writes them:
\* what a sensor measures with before what makes it measure.
Lps22hhRegs    == <<"CTRL_REG2", "CTRL_REG1">>
Lis2mdlRegs    == <<"CFG_REG_B", "CFG_REG_C", "CFG_REG_A">>
Lsm6dsv16xRegs == <<"CTRL3", "CTRL8", "CTRL6", "CTRL1", "CTRL2">>
ProductionRegs == [lps22hh |-> Lps22hhRegs, lis2mdl |-> Lis2mdlRegs, lsm6dsv16x |-> Lsm6dsv16xRegs]

\* A register holds its production value, "set", or its reset value, "por".
PowerOn(dev) == [r \in Range(ProductionRegs[dev]) |-> "por"]
Configured(dev) == chip[dev] = [r \in Range(ProductionRegs[dev]) |-> "set"]

\* The charger limits that hw_init sets before it kicks the watchdog.  ADC_CTRL,
\* which it writes last, is none: an expiry leaves it alone (bq25622.c:264).
Limits == {"VREG", "ICHG", "IINDPM"}
LimitsSet == \A r \in Limits : chip.bq25622[r] = "set"

ChipInit ==
    [lps22hh |-> PowerOn("lps22hh"), lis2mdl |-> PowerOn("lis2mdl"), lsm6dsv16x |-> PowerOn("lsm6dsv16x"),
     bq25622 |-> [VREG |-> "por", ICHG |-> "por", IINDPM |-> "por",
                  CTRL1 |-> [chg |-> TRUE, hiz |-> FALSE, wd |-> "50S"],
                  CTRL3 |-> "NORMAL", ADC_CTRL |-> "por", WD_STAT |-> FALSE],
     lm27965 |-> [GP |-> {}, BANKA |-> DutyMax, BANKB |-> DutyMax, BANKC |-> DutyMax]]

\* What a write does to a chip: a soft reset clears a sensor, and CTRL1 is
\* always written with WD_RST, which ends an expiry.
Written(dev, reg, val) ==
    CASE reg = "SW_RESET" -> [chip EXCEPT ![dev] = PowerOn(dev)]
      [] dev = "bq25622" /\ reg = "CTRL1" ->
             [chip EXCEPT !.bq25622.CTRL1 = val, !.bq25622.WD_STAT = FALSE]
      [] OTHER -> [chip EXCEPT ![dev][reg] = val]

-----------------------------------------------------------------------------
(* Jobs: the transfers of every driver call.                               *)

Read(reg)       == [do |-> "read", reg |-> reg]
Write(reg, val) == [do |-> "write", reg |-> reg, val |-> val]
Wait            == [do |-> "wait", reg |-> "SW_RESET"]

\* ctrl1_update: the fields given are forced, the others come from the read.
Ctrl1Update(fields) ==
    <<Read("CTRL1"), [do |-> "update", reg |-> "CTRL1", val |-> fields]>>

\* Mutant: the watchdog bits are written before the limits are.
HwInitKicksFirst(wd) ==
    <<Read("PART_INFO")>> \o Ctrl1Update([chg |-> TRUE, wd |-> wd])
    \o <<Write("VREG", "set"), Write("ICHG", "set"), Write("IINDPM", "set"), Write("ADC_CTRL", "set")>>

\* hw_init of the charger.
HwInit(wd) ==
    <<Read("PART_INFO"), Write("VREG", "set"), Write("ICHG", "set"), Write("IINDPM", "set")>>
    \o Ctrl1Update([chg |-> TRUE, wd |-> wd])
    \o <<Write("ADC_CTRL", "set")>>

\* Mutant: the watchdog is kicked before its expiry is looked at.
PollRestKicks(expired) ==
    (IF charger.wd_window # "OFF" THEN Ctrl1Update(<<>>)
     ELSE IF expired THEN HwInit(charger.wd_window) \o <<Read("RECOVERED")>>
     ELSE <<>>)
    \o <<Read("ADC_BLOCK")>>

\* poll_once after its first look at the status registers.  An expiry is counted
\* when hw_init's last transfer succeeds; then they are read again.
PollRest(expired) ==
    (IF expired THEN HwInit(charger.wd_window) \o <<Read("RECOVERED")>>
     ELSE IF charger.wd_window # "OFF" THEN Ctrl1Update(<<>>)
     ELSE <<>>)
    \o <<Read("ADC_BLOCK")>>

\* hw_init of a sensor: identity, soft reset, then the production registers.
SensorInit(dev) ==
    <<Read("WHO_AM_I"), Write("SW_RESET", "set"), Wait>>
    \o [i \in DOMAIN ProductionRegs[dev] |-> Write(ProductionRegs[dev][i], "set")]

\* The polls: one burst each, but the LIS2MDL's does not reach its temperature.
Lps22hhPoll    == <<Read("OUT")>>
Lis2mdlPoll    == <<Read("OUT"), Read("TEMP_OUT")>>
Lsm6dsv16xPoll == <<Read("OUT")>>
SensorPoll(dev) == [lps22hh |-> Lps22hhPoll, lis2mdl |-> Lis2mdlPoll, lsm6dsv16x |-> Lsm6dsv16xPoll][dev]

Clamp(d) == IF d > DutyMax THEN DutyMax ELSE d

\* lm27965_init: the duties before the enables.
LedInit(d) == <<Write("BANKA", Clamp(d)), Write("BANKB", 0), Write("BANKC", 0), Write("GP", {})>>

\* The controls: a bank's duty, then the enables.
LedSet(bank, d) == <<Write(bank, Clamp(d)), Write("GP", {})>>

Job(op, dev, todo, arg) ==
    [op |-> op, dev |-> dev, todo |-> todo, seen |-> <<>>, arg |-> arg, ok |-> TRUE]
Idle == Job("idle", "lm27965", <<>>, {})

\* The calls other tasks make: the charger's runtime controls ...
SetCharge   == {Job("charge", "bq25622", Ctrl1Update([chg |-> on]), {}) : on \in BOOLEAN}
SetWatchdog == {Job("watchdog", "bq25622", Ctrl1Update([wd |-> w]), w) : w \in Windows}
SetHiz      == {Job("hiz", "bq25622", Ctrl1Update([hiz |-> on]), {}) : on \in BOOLEAN}
SetBatfet   == {Job("batfet", "bq25622", <<Read("CTRL3"), Write("CTRL3", m)>>, {}) :
                   m \in {"NORMAL", "SHUTDOWN"}}

\* ... and the LED banks: the enables a call clears, and those it sets.
LedJob(bank, d, of, on) == Job("led", "lm27965", LedSet(bank, d), [of |-> of, on |-> on])
SetTft    == {LedJob("BANKA", d, {"ENA"}, IF Clamp(d) > 0 THEN {"ENA"} ELSE {}) : d \in Duties}
SetKeypad == {LedJob("BANKB", d, {"ENB", "EN3B"}, on) : d \in Duties, on \in SUBSET {"ENB", "EN3B"}}
SetRed    == {LedJob("BANKC", d, {"ENC"}, on) : d \in Duties, on \in SUBSET {"ENC"}}
AllOff    == {Job("all_off", "lm27965", <<Write("GP", {})>>, {})}

CallJobs == [set_charge_enabled |-> SetCharge, set_watchdog |-> SetWatchdog, set_hiz |-> SetHiz,
             set_batfet |-> SetBatfet, set_tft |-> SetTft, set_keypad |-> SetKeypad,
             set_red |-> SetRed, all_off |-> AllOff]

-----------------------------------------------------------------------------
Init ==
    /\ mutex = "none" /\ active = "POWER"
    /\ chip = ChipInit
    /\ job = [t \in Tasks |-> Idle] /\ booted = FALSE
    /\ charger = [stage |-> "init", online |-> FALSE, fails |-> 0, wd_window |-> "50S", expired_count |-> 0]
    /\ leds = [online |-> FALSE, GP |-> {}, BANKA |-> 0, BANKB |-> 0, BANKC |-> 0]
    /\ sensor = [s \in Range(Sensors) |-> [online |-> FALSE, fails |-> 0]]
    /\ sens = [stage |-> 1, tick |-> 0]
    /\ faults = MaxFaults /\ upsets = {}

-----------------------------------------------------------------------------
(* The bus.                                                                *)

\* i2c_bus_acquire: take the mutex, then switch_pinmux; the call's job starts.
Acquire(t, j) ==
    /\ job[t] = Idle /\ mutex = "none"
    /\ mutex' = t
    /\ active' = Pair(j.dev)
    /\ job' = [job EXCEPT ![t] = j]

Step(t) == Head(job[t].todo)

\* The merge of ctrl1_update.
Merged(fields, seen) ==
    [f \in DOMAIN seen |-> IF f \in DOMAIN fields THEN fields[f] ELSE seen[f]]

\* What a write sends: the LED enables are taken from the cache.
Value(t) ==
    CASE Step(t).do = "update" -> Merged(Step(t).val, job[t].seen)
      [] Step(t).reg = "GP" -> leds.GP
      [] OTHER -> Step(t).val

Writes(t) == Step(t).do \in {"write", "update"}

\* The LED driver changes its cache between the transfers.
LedCache(t) ==
    LET reg == Step(t).reg
        before == [leds EXCEPT ![reg] = Step(t).val]
        lastBank == job[t].op = "led" /\ Len(job[t].todo) = 2
    IN  IF job[t].dev # "lm27965" THEN leds
        ELSE CASE reg = "GP" -> [leds EXCEPT !.online = TRUE]
               [] reg # "GP" /\ lastBank ->
                      [before EXCEPT !.GP = (@ \ job[t].arg.of) \cup job[t].arg.on]
               [] reg = "BANKA" /\ job[t].op = "led_init" -> before
               [] reg = "BANKC" /\ job[t].op = "led_init" ->
                      [leds EXCEPT !.GP = IF leds.BANKA > 0 THEN {"ENA"} ELSE {}]
               [] OTHER -> leds

\* A transfer that succeeds, with what the driver does before the next one.
Transfer(t) ==
    /\ mutex = t /\ job[t].ok /\ job[t].todo # <<>>
    /\ chip' = IF Writes(t) THEN Written(job[t].dev, Step(t).reg, Value(t)) ELSE chip
    /\ job' = [job EXCEPT
                 ![t].seen = IF Step(t).reg = "CTRL1" /\ Step(t).do = "read" THEN chip.bq25622.CTRL1 ELSE <<>>,
                 ![t].todo = IF Step(t).reg = "STATUS" THEN PollRest(chip.bq25622.WD_STAT) ELSE Tail(@)]
    /\ leds' = IF Writes(t) THEN LedCache(t) ELSE leds
    /\ charger' = IF job[t].op = "chg_poll" /\ Step(t).reg = "ADC_CTRL"
                   THEN [charger EXCEPT !.expired_count = @ + 1] ELSE charger
    /\ UNCHANGED <<mutex, active, sensor, sens, booted, faults, upsets>>

\* Mutant: the LED driver stays online after a failed transfer.
FaultUnnoticed(t) ==
    /\ mutex = t /\ job[t].ok /\ job[t].todo # <<>> /\ faults > 0
    /\ faults' = faults - 1
    /\ job' = [job EXCEPT ![t].ok = FALSE]
    /\ UNCHANGED <<mutex, active, chip, leds, charger, sensor, sens, booted, upsets>>

\* Mutant: the drivers of the sensors do not look at the result of a write.
FaultIgnored(t) ==
    /\ mutex = t /\ job[t].ok /\ job[t].todo # <<>> /\ faults > 0
    /\ faults' = faults - 1
    /\ job' = IF t = "sens" /\ Writes(t) THEN [job EXCEPT ![t].todo = Tail(@)]
              ELSE [job EXCEPT ![t].ok = FALSE]
    /\ leds' = IF job[t].dev = "lm27965" THEN [leds EXCEPT !.online = FALSE] ELSE leds
    /\ UNCHANGED <<mutex, active, chip, charger, sensor, sens, booted, upsets>>

\* A transfer that fails ends the call; a write may have reached the chip.
\* The LPS22HH driver goes on when its reset never ends, unless it cannot read
\* CTRL_REG2; the LIS2MDL only waits.
Fault(t) ==
    /\ mutex = t /\ job[t].ok /\ job[t].todo # <<>> /\ faults > 0
    /\ faults' = faults - 1
    /\ chip' \in IF Writes(t) THEN {chip, Written(job[t].dev, Step(t).reg, Value(t))} ELSE {chip}
    /\ \/ /\ Step(t) = Wait /\ job[t].dev # "lsm6dsv16x"
          /\ job' = [job EXCEPT ![t].todo = Tail(@)]
       \/ /\ Step(t) # Wait \/ job[t].dev # "lis2mdl"
          /\ job' = [job EXCEPT ![t].ok = FALSE]
    /\ leds' = IF job[t].dev = "lm27965" THEN [leds EXCEPT !.online = FALSE] ELSE leds
    /\ UNCHANGED <<mutex, active, charger, sensor, sens, booted, upsets>>

\* What i2c_fail_count and online become (counted up to the threshold).
Counted(s, ok) ==
    LET n == IF s.fails < FailDisconnect THEN s.fails + 1 ELSE s.fails
    IN  IF ok THEN [s EXCEPT !.fails = 0, !.online = TRUE]
        ELSE [s EXCEPT !.fails = n, !.online = @ /\ n < FailDisconnect]

\* i2c_bus_release and the end of the call.
Release(t) ==
    /\ mutex = t /\ (job[t].todo = <<>> \/ ~job[t].ok)
    /\ mutex' = "none"
    /\ LET j == job[t] IN
       /\ job' = [job EXCEPT ![t] = IF j.op = "watchdog" /\ j.ok
                                      THEN Job("assign", j.dev, <<>>, j.arg) ELSE Idle]
       /\ charger' = CASE j.op = "chg_init" /\ j.ok -> [charger EXCEPT !.online = TRUE, !.stage = "poll"]
                       [] j.op = "chg_init" /\ ~j.ok ->
                              [charger EXCEPT !.fails = IF @ < FailDisconnect THEN @ + 1 ELSE @]
                       [] j.op = "chg_poll" -> Counted(charger, j.ok)
                       [] OTHER -> charger
       /\ sensor' = CASE j.op = "sens_init" ->
                           [sensor EXCEPT ![j.dev] = IF j.ok THEN [@ EXCEPT !.online = TRUE]
                                                     ELSE [Counted(@, FALSE) EXCEPT !.online = FALSE]]
                      [] j.op = "sens_poll" -> [sensor EXCEPT ![j.dev] = Counted(@, j.ok)]
                      [] OTHER -> sensor
       /\ sens' = CASE j.op = "sens_init" /\ j.ok -> [sens EXCEPT !.stage = @ + 1]
                    [] j.op = "sens_poll" ->
                           IF j.dev = "lsm6dsv16x"
                             THEN [stage |-> 4, tick |-> (sens.tick + 1) % LpsPeriod]
                             ELSE [sens EXCEPT !.stage = @ + 1]
                    [] OTHER -> sens
    /\ UNCHANGED <<active, chip, leds, booted, faults, upsets>>

\* bq25622_set_watchdog stores the window after it gave the bus back.
Assign(t) ==
    /\ job[t].op = "assign"
    /\ charger' = [charger EXCEPT !.wd_window = job[t].arg]
    /\ job' = [job EXCEPT ![t] = Idle]
    /\ UNCHANGED <<mutex, active, chip, leds, sensor, sens, booted, faults, upsets>>

-----------------------------------------------------------------------------
(* The tasks.                                                              *)

Upset(u) == u \notin upsets /\ Cardinality(upsets) < MaxUpsets /\ upsets' = upsets \cup {u}

\* charger_task: hw_init until it succeeds, then poll_once every second.
ChargerTask ==
    /\ Acquire("chg", IF charger.stage = "init"
                        THEN Job("chg_init", "bq25622", HwInit(charger.wd_window), {})
                        ELSE Job("chg_poll", "bq25622", <<Read("STATUS")>>, {}))
    /\ UNCHANGED <<chip, charger, leds, sensor, sens, booted, faults, upsets>>

\* sensor_task: each sensor's init until it succeeds, then the polls of a
\* tick in order; stages 4 to 6 are the three polls of one tick.
SensorTask ==
    /\ \/ /\ sens.stage <= 3
          /\ LET s == Sensors[sens.stage]
             IN  Acquire("sens", Job("sens_init", s, SensorInit(s), {}))
          /\ UNCHANGED sens
       \/ /\ sens.stage > 3
          /\ LET stage == IF sens.stage = 4 /\ sens.tick # 0 THEN 5 ELSE sens.stage
                 s == Sensors[stage - 3]
             IN  /\ Acquire("sens", Job("sens_poll", s, SensorPoll(s), {}))
                 /\ sens' = [sens EXCEPT !.stage = stage]
    /\ UNCHANGED <<chip, charger, leds, sensor, booted, faults, upsets>>

\* Another task makes a call: lm27965_init first, at boot, then the runtime
\* calls.  lm27965_all_off clears its cached enables when it has the bus.
Call ==
    /\ \/ /\ ~booted
          /\ booted' = TRUE
          /\ Acquire("ui", Job("led_init", "lm27965", LedInit(DutyMax), {}))
          /\ UNCHANGED <<leds, upsets>>
       \/ /\ booted
          /\ \E c \in Calls : \E j \in CallJobs[c] :
               /\ Acquire("ui", j)
               /\ leds' = IF c = "all_off" THEN [leds EXCEPT !.GP = {}] ELSE leds
               /\ IF j.dev = "bq25622" THEN Upset("control") ELSE UNCHANGED upsets
          /\ UNCHANGED booted
    /\ UNCHANGED <<chip, charger, sensor, sens, faults>>

-----------------------------------------------------------------------------
(* The chips act by themselves.                                            *)

\* The charger's watchdog runs out: charging on, half the current, no HIZ.
Expire ==
    /\ Upset("expiry") /\ chip.bq25622.CTRL1.wd # "OFF"
    /\ mutex = "none" \/ ExpiresMidCall
    /\ \E w \in {chip.bq25622.CTRL1.wd, "50S"} :
         chip' = [chip EXCEPT !.bq25622.WD_STAT = TRUE, !.bq25622.ICHG = "half",
                              !.bq25622.CTRL1 = [chg |-> TRUE, hiz |-> FALSE, wd |-> w]]
    /\ UNCHANGED <<mutex, active, job, charger, leds, sensor, sens, booted, faults>>

\* A sensor loses its supply for a moment.
BrownOut ==
    /\ Upset("brownout")
    /\ \E s \in Range(Sensors) : chip' = [chip EXCEPT ![s] = PowerOn(s)]
    /\ UNCHANGED <<mutex, active, job, charger, leds, sensor, sens, booted, faults>>

Work(t) == Transfer(t) \/ Release(t) \/ Assign(t)

Next ==
    \/ ChargerTask \/ SensorTask \/ Call
    \/ \E t \in Tasks : Work(t) \/ Fault(t)
    \/ Expire \/ BrownOut

Spec == Init /\ [][Next]_vars

\* Every task runs again and again, and a FreeRTOS mutex goes to the task
\* that has waited, so each task gets the bus if it keeps asking.
FairSpec ==
    /\ Spec
    /\ SF_vars(ChargerTask) /\ SF_vars(SensorTask)
    /\ \A t \in Tasks : WF_vars(Work(t))

-----------------------------------------------------------------------------
Enables == {"ENA", "ENB", "ENC", "EN3B"}
Health  == [online : BOOLEAN, fails : 0..FailDisconnect]

TypeOK ==
    /\ mutex \in Tasks \cup {"none"} /\ active \in {"POWER", "SENSOR"}
    /\ chip.bq25622.CTRL1 \in [chg : BOOLEAN, hiz : BOOLEAN, wd : Windows \cup {"50S"}]
    /\ chip.lm27965.GP \subseteq Enables
    /\ charger.wd_window \in Windows \cup {"50S"}
    /\ leds.GP \subseteq Enables /\ leds.online \in BOOLEAN
    /\ sensor \in [Range(Sensors) -> Health]
    /\ sens.stage \in 1..6 /\ sens.tick \in 0..(LpsPeriod - 1)

\* A transfer runs on the wires its chip hangs on (i2c_bus.c: the mutex
\* covers both the pin switch and the whole call).
RightWires ==
    \A t \in Tasks : mutex = t => active = Pair(job[t].dev)

\* lm27965_get_state promises what the chip contains: when the last LED call
\* succeeded and none is running, the cached enables are the chip's.
CacheIsChip ==
    leds.online /\ (job["ui"] = Idle \/ job["ui"].dev # "lm27965") => leds.GP = chip.lm27965.GP

PeripheralsInv == TypeOK /\ RightWires /\ CacheIsChip

\* A sensor shown online holds all its production settings, whatever
\* transfers failed while it was initialised (lps22hh.c, lis2mdl.c,
\* lsm6dsv16x.c), as long as its supply holds.
OnlineIsConfigured ==
    "brownout" \notin upsets => \A s \in Range(Sensors) : sensor[s].online => Configured(s)

\* bq25622.c: a charger_task that polls has every production limit in the
\* chip, or WD_STAT still tells it that one is lost - at every failed
\* transfer of hw_init - if no runtime call kicked the watchdog meanwhile.
SettingsSurviveExpiry ==
    charger.stage = "poll" /\ "control" \notin upsets
        => LimitsSet \/ chip.bq25622.WD_STAT

\* Once the faults end every driver is up: charger_task has recovered the
\* charger from every expiry, sensor_task has initialised every sensor.
DriversRecover ==
    /\ chip.bq25622.WD_STAT ~> (charger.stage = "poll" /\ LimitsSet) \/ "control" \in upsets
    /\ <>(\A s \in Range(Sensors) : sensor[s].online)

\* lm27965.h:66: the cache "is what the chip contains".  Of the duties this does
\* not hold: one that reached the chip with a failed write is not in the cache,
\* and a later call that succeeds shows the driver online with it.
DutiesAreChip ==
    leds.online /\ (job["ui"] = Idle \/ job["ui"].dev # "lm27965")
        => \A bank \in {"BANKA", "BANKB", "BANKC"} : leds[bank] = chip.lm27965[bank]

\* sensor_task.c: "a late-plug or brown-out recovery brings the driver online
\* without host intervention" - online and measuring.  This does not hold: a
\* brown-out between two polls leaves a sensor online with its reset settings.
OnlineMeasures == \A s \in Range(Sensors) : sensor[s].online => Configured(s)

\* bq25622.h: charger_task "re-applies all settings on WD_STAT=1 so the
\* production values survive a WD expiry event".  This does not hold: a call of the
\* user that kicks the watchdog clears the sign that the settings were lost.
ProductionValuesSurvive ==
    charger.stage = "poll" => LimitsSet \/ chip.bq25622.WD_STAT
=============================================================================
