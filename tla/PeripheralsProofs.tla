--------------------------- MODULE PeripheralsProofs ---------------------------
(***************************************************************************)
(* Proofs about Peripherals and Gnss: whatever transfers fail, whatever is *)
(* lost or late and whatever the other tasks call, for every choice of the *)
(* constants.                                                              *)
(***************************************************************************)
EXTENDS Peripherals, Gnss, SequenceFacts

(* The chips, the registers a sensor needs set, and what its               *)
(* initialisation may transfer.                                            *)
Devices == {"bq25622", "lm27965", "lps22hh", "lis2mdl", "lsm6dsv16x"}
Regs(dev) == Range(ProductionRegs[dev])
Reset == Write("SW_RESET", "set")
InitSteps(dev) == {Read("WHO_AM_I"), Reset, Wait} \cup {Write(r, "set") : r \in Regs(dev)}

(* Production register r of dev is set and no reset is to come, or it is   *)
(* still to be written, after any reset.                                   *)
WillBeSet(dev, todo, r) ==
    \/ chip[dev][r] = "set" /\ \A j \in 1 .. Len(todo) : todo[j] # Reset
    \/ \E i \in 1 .. Len(todo) :
         todo[i] = Write(r, "set") /\ \A j \in 1 .. Len(todo) : j > i => todo[j] # Reset

(* The jobs are records, and those of the other tasks are not about a      *)
(* sensor.                                                                 *)
JobsOK ==
    /\ DOMAIN job = Tasks
    /\ \A t \in Tasks : DOMAIN job[t] = {"op", "dev", "todo", "seen", "arg", "ok"}
    /\ \A t \in {"chg", "ui"} :
         job[t].dev \in {"bq25622", "lm27965"} /\ job[t].op \notin {"sens_init", "sens_poll"}
    /\ job["sens"].op \in {"idle", "sens_init", "sens_poll"}
    /\ mutex = "sens" => job["sens"].op # "idle"

(* The initialisation of a sensor is on its way.                           *)
InitOK ==
    job["sens"].op = "sens_init" =>
      /\ sens.stage \in 1 .. 3 /\ job["sens"].dev = Sensors[sens.stage]
      /\ job["sens"].todo \in Seq(InitSteps(job["sens"].dev))
      /\ job["sens"].ok /\ "brownout" \notin upsets =>
           \A r \in Regs(job["sens"].dev) : WillBeSet(job["sens"].dev, job["sens"].todo, r)

(* A poll writes nothing.                                                  *)
PollOK ==
    job["sens"].op = "sens_poll" =>
      /\ sens.stage \in 4 .. 6 /\ job["sens"].dev = Sensors[sens.stage - 3]
      /\ job["sens"].todo \in Seq({Read("OUT"), Read("TEMP_OUT")})

(* sensor_task has got past a sensor when it has set all its registers,    *)
(* and shows none online before.                                           *)
SensorInv ==
    /\ DOMAIN chip = Devices
    /\ \A s \in Range(Sensors) : chip[s] \in [Regs(s) -> {"por", "set"}]
    /\ DOMAIN sensor = Range(Sensors)
    /\ \A s \in Range(Sensors) : DOMAIN sensor[s] = {"online", "fails"}
    /\ DOMAIN sens = {"stage", "tick"} /\ sens.stage \in 1 .. 6
    /\ "brownout" \notin upsets =>
         \A n \in 1 .. 3 : n < sens.stage => Configured(Sensors[n])
    /\ \A n \in 1 .. 3 : sensor[Sensors[n]].online => n < sens.stage

(* All that the sensors rely on.                                           *)
IInv == JobsOK /\ InitOK /\ PollOK /\ SensorInv

(* The sensors in the order sensor_task initialises them.                  *)
LEMMA SensorsAre ==
  /\ Range(Sensors) = {"lps22hh", "lis2mdl", "lsm6dsv16x"}
  /\ Sensors[1] = "lps22hh" /\ Sensors[2] = "lis2mdl" /\ Sensors[3] = "lsm6dsv16x"
  BY DEF Range, Sensors

(* The production registers of each.                                       *)
LEMMA RegsAre ==
  /\ Regs("lps22hh") = {"CTRL_REG2", "CTRL_REG1"}
  /\ Regs("lis2mdl") = {"CFG_REG_B", "CFG_REG_C", "CFG_REG_A"}
  /\ Regs("lsm6dsv16x") = {"CTRL3", "CTRL8", "CTRL6", "CTRL1", "CTRL2"}
  BY DEF Regs, Range, ProductionRegs, Lps22hhRegs, Lis2mdlRegs, Lsm6dsv16xRegs

(* hw_init of a sensor: every production register is written, and the      *)
(* reset comes before.                                                     *)
LEMMA InitWritesAll ==
  ASSUME NEW s \in Range(Sensors), NEW r \in Regs(s)
  PROVE  /\ SensorInit(s) \in Seq(InitSteps(s))
         /\ \E i \in 1 .. Len(SensorInit(s)) :
              /\ SensorInit(s)[i] = Write(r, "set")
              /\ \A j \in 1 .. Len(SensorInit(s)) : j > i => SensorInit(s)[j] # Reset
  <1> DEFINE p == ProductionRegs[s]
             a == <<Read("WHO_AM_I"), Write("SW_RESET", "set"), Wait>>
             b == [i \in DOMAIN p |-> Write(p[i], "set")]
             c == a \o b
  <1>1. DOMAIN p = 1 .. 2 \/ DOMAIN p = 1 .. 3 \/ DOMAIN p = 1 .. 5
    BY SensorsAre DEF ProductionRegs, Lps22hhRegs, Lis2mdlRegs, Lsm6dsv16xRegs
  <1>2. PICK n \in Nat : DOMAIN p = 1 .. n
    BY <1>1
  <1>3. Regs(s) = {p[i] : i \in 1 .. n}
    BY <1>2 DEF Regs, Range
  <1> HIDE DEF p
  <1>4. a \in Seq(InitSteps(s)) /\ Len(a) = 3
    BY DEF InitSteps, Reset
  <1>5. b \in [1 .. n -> InitSteps(s)] /\ \A i \in 1 .. n : b[i] = Write(p[i], "set")
    BY <1>2, <1>3 DEF InitSteps
  <1> HIDE DEF a, b
  <1>6. b \in Seq(InitSteps(s)) /\ Len(b) = n
    <2>1. b \in Seq(InitSteps(s))
      BY <1>5, SeqDef
    <2> QED BY <1>5, <2>1, LenProperties
  <1>7. /\ c \in Seq(InitSteps(s)) /\ Len(c) = n + 3
        /\ \A i \in 1 .. n + 3 : c[i] = IF i <= 3 THEN a[i] ELSE b[i - 3]
    <2>1. /\ c \in Seq(InitSteps(s)) /\ Len(c) = Len(a) + Len(b)
          /\ \A i \in 1 .. Len(a) + Len(b) : c[i] = IF i <= Len(a) THEN a[i] ELSE b[i - Len(a)]
      BY <1>4, <1>6, ConcatProperties
    <2> HIDE DEF c
    <2> QED BY <1>4, <1>6, <2>1
  <1>8. SensorInit(s) = c
    BY DEF SensorInit, p, a, b, c
  <1>9. PICK k \in 1 .. n : p[k] = r
    BY <1>3
  <1>10. \A q \in Regs(s) : q # "SW_RESET"
    BY SensorsAre, RegsAre
  <1>11. \A i \in 1 .. n : b[i] # Reset
    BY <1>3, <1>5, <1>10 DEF Reset, Write
  <1> HIDE DEF c
  <1>12. c[k + 3] = Write(r, "set") /\ \A j \in 1 .. n + 3 : j > 3 => c[j] # Reset
    <2>1. \A j \in 1 .. n + 3 : j > 3 => j - 3 \in 1 .. n /\ c[j] = b[j - 3]
      BY <1>7
    <2>2. k + 3 \in 1 .. n + 3 /\ k + 3 > 3 /\ (k + 3) - 3 = k
      OBVIOUS
    <2> QED BY <1>5, <1>9, <1>11, <2>1, <2>2
  <1>13. k + 3 \in 1 .. n + 3 /\ \A j \in 1 .. n + 3 : j > k + 3 => c[j] # Reset
    BY <1>12
  <1> QED BY <1>7, <1>8, <1>12, <1>13

(* The steps of hw_init are told apart by what they do and where.          *)
LEMMA StepsDiffer ==
  ASSUME NEW q, NEW r, q # "SW_RESET"
  PROVE  /\ Write(q, "set").do = "write" /\ Write(q, "set").reg = q
         /\ Reset.do = "write" /\ Reset.reg = "SW_RESET"
         /\ Read(r).do = "read" /\ Wait.do = "wait"
         /\ Write(q, "set") # Reset /\ Write(q, "set") # Read(r) /\ Write(q, "set") # Wait
         /\ r # q => Write(r, "set") # Write(q, "set")
  <1>1. /\ Write(q, "set").do = "write" /\ Write(q, "set").reg = q
        /\ Write(r, "set").reg = r
        /\ Reset.do = "write" /\ Reset.reg = "SW_RESET"
        /\ Read(r).do = "read" /\ Wait.do = "wait"
    BY DEF Write, Reset, Read, Wait
  <1> QED BY <1>1

(* One transfer of hw_init: what is not yet set is still to be written.    *)
LEMMA OneTransferOn ==
  ASSUME NEW s \in Range(Sensors), NEW todo \in Seq(InitSteps(s)), todo # <<>>,
         DOMAIN chip = Devices, chip[s] \in [Regs(s) -> {"por", "set"}],
         \A r \in Regs(s) : WillBeSet(s, todo, r),
         chip' = IF Head(todo).do = "write" THEN Written(s, Head(todo).reg, "set") ELSE chip
  PROVE  \A r \in Regs(s) : WillBeSet(s, Tail(todo), r)'
  <1> DEFINE h == Head(todo)
             u == Tail(todo)
  <1>1. /\ h \in InitSteps(s) /\ h = todo[1] /\ u \in Seq(InitSteps(s))
        /\ Len(todo) \in Nat \ {0} /\ Len(u) = Len(todo) - 1
        /\ \A i \in 1 .. Len(u) : u[i] = todo[i + 1]
    BY HeadTailProperties
  <1> HIDE DEF h, u
  <1> SUFFICES ASSUME NEW r \in Regs(s) PROVE WillBeSet(s, u, r)'
    BY DEF u
  <1>2. s \in Devices /\ s # "bq25622" /\ \A q \in Regs(s) : q # "SW_RESET"
    BY SensorsAre, RegsAre DEF Devices
  <1>3. CASE h = Reset
    <2>1. PICK i \in 1 .. Len(todo) :
            todo[i] = Write(r, "set") /\ \A j \in 1 .. Len(todo) : j > i => todo[j] # Reset
      <3>1. 1 \in 1 .. Len(todo) /\ todo[1] = Reset
        BY <1>1, <1>3
      <3> QED BY <3>1 DEF WillBeSet
    <2>2. i # 1
      <3>1. Write(r, "set") # Reset
        BY <1>2, StepsDiffer
      <3> QED BY <1>1, <1>3, <2>1, <3>1
    <2>3. i - 1 \in 1 .. Len(u) /\ u[i - 1] = Write(r, "set")
      BY <1>1, <2>1, <2>2
    <2>4. \A j \in 1 .. Len(u) : j > i - 1 => u[j] # Reset
      BY <1>1, <2>1, <2>2
    <2> QED BY <2>3, <2>4 DEF WillBeSet
  <1>4. ASSUME NEW q \in Regs(s), h = Write(q, "set") PROVE WillBeSet(s, u, r)'
    <2>1. chip' = [chip EXCEPT ![s][q] = "set"]
      <3>1. Head(todo).do = "write" /\ Head(todo).reg = q
        BY <1>2, <1>4, StepsDiffer DEF h
      <3>2. Written(s, q, "set") = [chip EXCEPT ![s][q] = "set"]
        BY <1>2 DEF Written
      <3> QED BY <3>1, <3>2
    <2>2. chip'[s][r] = IF r = q THEN "set" ELSE chip[s][r]
      BY <1>2, <2>1
    <2>3. CASE \A j \in 1 .. Len(u) : u[j] # Reset
      <3>1. CASE r = q \/ chip[s][r] = "set"
        BY <2>2, <2>3, <3>1 DEF WillBeSet
      <3>2. CASE r # q /\ chip[s][r] # "set"
        <4>1. PICK i \in 1 .. Len(todo) : todo[i] = Write(r, "set")
          BY <3>2 DEF WillBeSet
        <4>2. i # 1
          <5>1. Write(r, "set") # Write(q, "set")
            BY <1>2, <3>2, StepsDiffer
          <5> QED BY <1>1, <1>4, <4>1, <5>1
        <4>3. i - 1 \in 1 .. Len(u) /\ u[i - 1] = Write(r, "set")
          BY <1>1, <4>1, <4>2
        <4> QED BY <2>3, <4>3 DEF WillBeSet
      <3> QED BY <3>1, <3>2
    <2>4. CASE \E j \in 1 .. Len(u) : u[j] = Reset
      <3>1. PICK k \in 1 .. Len(u) : u[k] = Reset
        BY <2>4
      <3>2. k + 1 \in 1 .. Len(todo) /\ todo[k + 1] = Reset
        BY <1>1, <3>1
      <3>3. PICK i \in 1 .. Len(todo) :
              todo[i] = Write(r, "set") /\ \A j \in 1 .. Len(todo) : j > i => todo[j] # Reset
        BY <3>2 DEF WillBeSet
      <3>4. i # 1
        BY <1>1, <3>2, <3>3
      <3>5. i - 1 \in 1 .. Len(u) /\ u[i - 1] = Write(r, "set")
        BY <1>1, <3>3, <3>4
      <3>6. \A j \in 1 .. Len(u) : j > i - 1 => u[j] # Reset
        BY <1>1, <3>3, <3>4
      <3> QED BY <3>5, <3>6 DEF WillBeSet
    <2> QED BY <2>3, <2>4
  <1>5. CASE h \in {Read("WHO_AM_I"), Wait}
    <2>1. chip' = chip
      <3>1. Read("WHO_AM_I").do = "read" /\ Wait.do = "wait"
        BY DEF Read, Wait
      <3>2. h.do # "write"
        BY <1>5, <3>1
      <3> QED BY <3>2 DEF h
    <2>2. CASE \E i \in 1 .. Len(todo) :
            todo[i] = Write(r, "set") /\ \A j \in 1 .. Len(todo) : j > i => todo[j] # Reset
      <3>1. PICK i \in 1 .. Len(todo) :
              todo[i] = Write(r, "set") /\ \A j \in 1 .. Len(todo) : j > i => todo[j] # Reset
        BY <2>2
      <3>2. i # 1
        BY <1>1, <1>2, <1>5, <3>1, StepsDiffer
      <3>3. i - 1 \in 1 .. Len(u) /\ u[i - 1] = Write(r, "set")
        BY <1>1, <3>1, <3>2
      <3>4. \A j \in 1 .. Len(u) : j > i - 1 => u[j] # Reset
        BY <1>1, <3>1, <3>2
      <3> QED BY <3>3, <3>4 DEF WillBeSet
    <2>3. CASE chip[s][r] = "set" /\ \A j \in 1 .. Len(todo) : todo[j] # Reset
      <3>1. \A j \in 1 .. Len(u) : u[j] # Reset
        BY <1>1, <2>3
      <3> QED BY <2>1, <2>3, <3>1 DEF WillBeSet
    <2> QED BY <2>2, <2>3 DEF WillBeSet
  <1> QED BY <1>1, <1>3, <1>4, <1>5 DEF InitSteps

-----------------------------------------------------------------------------
(* What a step leaves of the jobs and of the chips.                        *)
SameJob(t) ==
    /\ DOMAIN job' = Tasks /\ \A u \in Tasks \ {t} : job'[u] = job[u]
    /\ DOMAIN job'[t] = DOMAIN job[t]
    /\ job'[t].op = job[t].op /\ job'[t].dev = job[t].dev

(* A transfer only shortens a job; the first of a poll puts in the rest.   *)
LEMMA TransferKeepsJob ==
  ASSUME JobsOK, NEW t \in Tasks, Transfer(t)
  PROVE  /\ SameJob(t) /\ job'[t].ok = job[t].ok
         /\ job'[t].todo = IF Step(t).reg = "STATUS" THEN PollRest(chip.bq25622.WD_STAT)
                           ELSE Tail(job[t].todo)
  <1> DEFINE new == IF Step(t).reg = "CTRL1" /\ Step(t).do = "read" THEN chip.bq25622.CTRL1
                    ELSE <<>>
             rest == IF Step(t).reg = "STATUS" THEN PollRest(chip.bq25622.WD_STAT)
                     ELSE Tail(job[t].todo)
  <1>1. job' = [job EXCEPT ![t].seen = new, ![t].todo = rest]
    BY DEF Transfer
  <1> HIDE DEF new, rest
  <1>2. /\ SameJob(t) /\ job'[t].ok = job[t].ok /\ job'[t].todo = rest
    BY <1>1 DEF JobsOK, SameJob
  <1> QED BY <1>2 DEF rest

(* A failed transfer ends the job or is passed over.                       *)
LEMMA FaultKeepsJob ==
  ASSUME JobsOK, NEW t \in Tasks, Fault(t)
  PROVE  /\ SameJob(t)
         /\ \/ job'[t].ok = FALSE /\ job'[t].todo = job[t].todo
            \/ Step(t) = Wait /\ job'[t].ok = job[t].ok /\ job'[t].todo = Tail(job[t].todo)
  <1>1. CASE Step(t) = Wait /\ job' = [job EXCEPT ![t].todo = Tail(@)]
    BY <1>1 DEF JobsOK, SameJob
  <1>2. CASE job' = [job EXCEPT ![t].ok = FALSE]
    BY <1>2 DEF JobsOK, SameJob
  <1> QED BY <1>1, <1>2 DEF Fault

(* What leaves the shape of the jobs leaves JobsOK.                        *)
LEMMA SameJobIsOK ==
  ASSUME JobsOK, NEW t \in Tasks, SameJob(t), mutex' = mutex
  PROVE  JobsOK'
  <1>1. \A u \in Tasks : DOMAIN job'[u] = DOMAIN job[u] /\ job'[u].op = job[u].op
                          /\ job'[u].dev = job[u].dev
    BY DEF SameJob
  <1> QED BY <1>1 DEF JobsOK, SameJob, Tasks

(* A write on the other pin pair leaves the sensors alone.                 *)
LEMMA WrittenElsewhere ==
  ASSUME DOMAIN chip = Devices, NEW d \in {"bq25622", "lm27965"}, NEW reg, NEW val
  PROVE  /\ DOMAIN Written(d, reg, val) = Devices
         /\ \A s \in Range(Sensors) : Written(d, reg, val)[s] = chip[s]
  <1>1. \A s \in Range(Sensors) : s # d /\ s # "bq25622" /\ s \in Devices
    BY SensorsAre DEF Devices
  <1> QED BY <1>1 DEF Written

(* A step that touches neither the sensors nor sensor_task.                *)
LEMMA OthersKeepSensors ==
  ASSUME IInv, JobsOK', DOMAIN chip' = Devices, job'["sens"] = job["sens"],
         \A s \in Range(Sensors) : chip'[s] = chip[s],
         UNCHANGED <<sens, sensor>>, upsets \subseteq upsets'
  PROVE  IInv'
  <1>1. \A s \in Range(Sensors) : Configured(s)' <=> Configured(s)
    BY DEF Configured
  <1>2. Sensors[1] \in Range(Sensors) /\ Sensors[2] \in Range(Sensors)
        /\ Sensors[3] \in Range(Sensors)
    BY SensorsAre
  <1>3. SensorInv'
    BY <1>1, <1>2 DEF IInv, SensorInv
  <1>4. PollOK'
    BY DEF IInv, PollOK
  <1>5. InitOK'
    <2> SUFFICES ASSUME job["sens"].op = "sens_init" PROVE InitOK'
      BY DEF InitOK
    <2>1. sens.stage \in 1 .. 3 /\ job["sens"].dev \in Range(Sensors)
      BY <1>2 DEF IInv, InitOK
    <2>2. \A r : WillBeSet(job["sens"].dev, job["sens"].todo, r)
                 => WillBeSet(job["sens"].dev, job["sens"].todo, r)'
      BY <2>1 DEF WillBeSet
    <2> QED BY <2>2 DEF IInv, InitOK
  <1> QED BY <1>3, <1>4, <1>5 DEF IInv


-----------------------------------------------------------------------------
(* The tasks that call the charger and the LEDs, and their chips.          *)
LEMMA OthersPreserve ==
  ASSUME IInv, NEW t \in {"chg", "ui"}, Work(t) \/ Fault(t)
  PROVE  IInv'
  <1> USE DEF Tasks
  <1>0. JobsOK /\ DOMAIN chip = Devices /\ t \in Tasks /\ t # "sens"
        /\ job[t].dev \in {"bq25622", "lm27965"} /\ job[t].op \notin {"sens_init", "sens_poll"}
    BY DEF IInv, SensorInv, JobsOK
  <1>1. CASE Transfer(t)
    <2>1. SameJob(t)
      BY <1>0, <1>1, TransferKeepsJob
    <2>2. JobsOK' /\ job'["sens"] = job["sens"]
      BY <1>0, <1>1, <2>1, SameJobIsOK DEF Transfer, SameJob
    <2>3. chip' = chip \/ chip' = Written(job[t].dev, Step(t).reg, Value(t))
      BY <1>1 DEF Transfer
    <2>4. DOMAIN chip' = Devices /\ \A s \in Range(Sensors) : chip'[s] = chip[s]
      BY <1>0, <2>3, WrittenElsewhere
    <2> QED BY <1>1, <2>2, <2>4, OthersKeepSensors DEF Transfer
  <1>2. CASE Fault(t)
    <2>1. SameJob(t)
      BY <1>0, <1>2, FaultKeepsJob
    <2>2. JobsOK' /\ job'["sens"] = job["sens"]
      BY <1>0, <1>2, <2>1, SameJobIsOK DEF Fault, SameJob
    <2>3. chip' = chip \/ chip' = Written(job[t].dev, Step(t).reg, Value(t))
      BY <1>2 DEF Fault
    <2>4. DOMAIN chip' = Devices /\ \A s \in Range(Sensors) : chip'[s] = chip[s]
      BY <1>0, <2>3, WrittenElsewhere
    <2> QED BY <1>2, <2>2, <2>4, OthersKeepSensors DEF Fault
  <1>3. CASE Release(t)
    <2>1. job' = [job EXCEPT ![t] = IF job[t].op = "watchdog" /\ job[t].ok
                                    THEN Job("assign", job[t].dev, <<>>, job[t].arg) ELSE Idle]
          /\ mutex' = "none" /\ UNCHANGED chip
      BY <1>3 DEF Release
    <2>2. JobsOK' /\ job'["sens"] = job["sens"]
      BY <1>0, <2>1 DEF JobsOK, Job, Idle
    <2>3. UNCHANGED <<sens, sensor, upsets>>
      BY <1>0, <1>3 DEF Release
    <2> QED BY <1>0, <2>1, <2>2, <2>3, OthersKeepSensors
  <1>4. CASE Assign(t)
    <2>1. job' = [job EXCEPT ![t] = Idle] /\ UNCHANGED <<mutex, chip, sens, sensor, upsets>>
      BY <1>4 DEF Assign
    <2>2. JobsOK' /\ job'["sens"] = job["sens"]
      BY <1>0, <2>1 DEF JobsOK, Job, Idle
    <2> QED BY <1>0, <2>1, <2>2, OthersKeepSensors
  <1> QED BY <1>1, <1>2, <1>3, <1>4 DEF Work

(* The charger task, the calls of other tasks and the charger's watchdog   *)
(* do not touch a sensor.                                                  *)
LEMMA CallsPreserve ==
  ASSUME IInv, ChargerTask \/ Call \/ Expire
  PROVE  IInv'
  <1> USE DEF Tasks
  <1>0. JobsOK /\ DOMAIN chip = Devices
    BY DEF IInv, SensorInv
  <1>1. ASSUME NEW t \in {"chg", "ui"}, NEW j, Acquire(t, j),
               DOMAIN j = {"op", "dev", "todo", "seen", "arg", "ok"},
               j.dev \in {"bq25622", "lm27965"}, j.op \notin {"sens_init", "sens_poll"},
               UNCHANGED <<chip, sens, sensor>>, upsets \subseteq upsets'
        PROVE  IInv'
    <2>1. JobsOK' /\ job'["sens"] = job["sens"]
      BY <1>0, <1>1 DEF Acquire, JobsOK
    <2> QED BY <1>0, <1>1, <2>1, OthersKeepSensors
  <1>2. CASE ChargerTask
    <2> DEFINE j == IF charger.stage = "init"
                    THEN Job("chg_init", "bq25622", HwInit(charger.wd_window), {})
                    ELSE Job("chg_poll", "bq25622", <<Read("STATUS")>>, {})
    <2>1. Acquire("chg", j) /\ UNCHANGED <<chip, sens, sensor, upsets>>
      BY <1>2 DEF ChargerTask
    <2>2. DOMAIN j = {"op", "dev", "todo", "seen", "arg", "ok"} /\ j.dev = "bq25622"
          /\ j.op \notin {"sens_init", "sens_poll"}
      BY DEF Job
    <2> QED BY <1>1, <2>1, <2>2
  <1>3. CASE Call
    <2>1. UNCHANGED <<chip, sens, sensor>> /\ upsets \subseteq upsets'
      BY <1>3 DEF Call, Upset
    <2>2. CASE Acquire("ui", Job("led_init", "lm27965", LedInit(DutyMax), {}))
      <3> DEFINE j == Job("led_init", "lm27965", LedInit(DutyMax), {})
      <3>1. DOMAIN j = {"op", "dev", "todo", "seen", "arg", "ok"} /\ j.dev = "lm27965"
            /\ j.op = "led_init"
        BY DEF Job
      <3> QED BY <1>1, <2>1, <2>2, <3>1
    <2>3. ASSUME NEW c \in Calls, NEW j \in CallJobs[c], Acquire("ui", j) PROVE IInv'
      <3>1. j \in UNION {SetCharge, SetWatchdog, SetHiz, SetBatfet, SetTft, SetKeypad, SetRed,
                         AllOff}
        BY <2>3, PeripheralsAssumption DEF CallJobs
      <3>2. j \in SetCharge \cup SetWatchdog \cup SetHiz \cup SetBatfet
              => DOMAIN j = {"op", "dev", "todo", "seen", "arg", "ok"} /\ j.dev = "bq25622"
                 /\ j.op \in {"charge", "watchdog", "hiz", "batfet"}
        <4>1. ASSUME j \in SetCharge PROVE \E x, y : j = Job("charge", "bq25622", x, y)
          BY <4>1 DEF SetCharge
        <4>2. ASSUME j \in SetWatchdog PROVE \E x, y : j = Job("watchdog", "bq25622", x, y)
          BY <4>2 DEF SetWatchdog
        <4>3. ASSUME j \in SetHiz PROVE \E x, y : j = Job("hiz", "bq25622", x, y)
          BY <4>3 DEF SetHiz
        <4>4. ASSUME j \in SetBatfet PROVE \E x, y : j = Job("batfet", "bq25622", x, y)
          BY <4>4 DEF SetBatfet
        <4>5. \A what, x, y :
                LET k == Job(what, "bq25622", x, y)
                IN  DOMAIN k = {"op", "dev", "todo", "seen", "arg", "ok"}
                    /\ k.dev = "bq25622" /\ k.op = what
          BY DEF Job
        <4> QED BY <4>1, <4>2, <4>3, <4>4, <4>5
      <3>3. j \in SetTft \cup SetKeypad \cup SetRed \cup AllOff
              => DOMAIN j = {"op", "dev", "todo", "seen", "arg", "ok"} /\ j.dev = "lm27965"
                 /\ j.op \in {"led", "all_off"}
        BY DEF SetTft, SetKeypad, SetRed, AllOff, LedJob, Job
      <3> QED BY <1>1, <2>1, <2>3, <3>1, <3>2, <3>3
    <2> QED BY <1>3, <2>2, <2>3 DEF Call
  <1>4. CASE Expire
    <2>1. PICK w :
            chip' = [chip EXCEPT !.bq25622.WD_STAT = TRUE, !.bq25622.ICHG = "half",
                                 !.bq25622.CTRL1 = [chg |-> TRUE, hiz |-> FALSE, wd |-> w]]
      BY <1>4 DEF Expire
    <2>2. DOMAIN chip' = Devices /\ \A s \in Range(Sensors) : chip'[s] = chip[s]
      BY <1>0, <2>1, SensorsAre
    <2>3. JobsOK' /\ job'["sens"] = job["sens"] /\ UNCHANGED <<sens, sensor>>
          /\ upsets \subseteq upsets'
      BY <1>0, <1>4 DEF Expire, Upset, JobsOK
    <2> QED BY <2>2, <2>3, OthersKeepSensors
  <1> QED BY <1>2, <1>3, <1>4


-----------------------------------------------------------------------------
(* sensor_task: a transfer of hw_init writes to the sensor of this stage.  *)
LEMMA InitWrites ==
  ASSUME IInv, job["sens"].op = "sens_init", job["sens"].todo # <<>>,
         chip' \in IF Writes("sens")
                   THEN {chip, Written(job["sens"].dev, Step("sens").reg, Value("sens"))}
                   ELSE {chip},
         UNCHANGED <<sens, sensor, upsets>>
  PROVE  /\ SensorInv'
         /\ Writes("sens") <=> Step("sens").do = "write"
         /\ Writes("sens") => Value("sens") = "set"
         /\ Step("sens").reg # "STATUS"
  <1> DEFINE s == job["sens"].dev
  <1>1. /\ sens.stage \in 1 .. 3 /\ s = Sensors[sens.stage] /\ s \in Range(Sensors)
        /\ DOMAIN chip = Devices /\ s \in Devices /\ s # "bq25622"
        /\ job["sens"].todo \in Seq(InitSteps(s))
    BY SensorsAre DEF IInv, InitOK, SensorInv, Devices
  <1>2. Step("sens") \in InitSteps(s)
    BY <1>1, HeadTailProperties DEF Step
  <1> HIDE DEF s
  <1>3. \A q \in Regs(s) : q \notin {"SW_RESET", "GP", "STATUS"}
    BY <1>1, SensorsAre, RegsAre
  <1>4. CASE Step("sens") = Reset
    <2>1. /\ Step("sens").do = "write" /\ Step("sens").reg = "SW_RESET"
          /\ Step("sens").val = "set"
      BY <1>4 DEF Reset, Write
    <2>2. chip' = chip \/ chip' = [chip EXCEPT ![s] = PowerOn(s)]
      BY <2>1 DEF Writes, Written, s
    <2>3. Writes("sens") /\ Value("sens") = "set"
      BY <2>1 DEF Writes, Value
    <2>4. DOMAIN chip' = Devices /\ \A u \in Devices \ {s} : chip'[u] = chip[u]
      BY <1>1, <2>2
    <2>5. chip'[s] \in [Regs(s) -> {"por", "set"}]
      <3>1. chip[s] \in [Regs(s) -> {"por", "set"}]
        BY <1>1 DEF IInv, SensorInv
      <3>2. PowerOn(s) = [r \in Regs(s) |-> "por"]
        BY DEF PowerOn, Regs
      <3>3. chip'[s] = chip[s] \/ chip'[s] = [r \in Regs(s) |-> "por"]
        BY <1>1, <2>2, <3>2
      <3> QED BY <3>1, <3>3
    <2> QED BY <1>1, <2>1, <2>3, <2>4, <2>5, SensorsAre DEF IInv, SensorInv, Configured, Devices
  <1>5. ASSUME NEW q \in Regs(s), Step("sens") = Write(q, "set")
        PROVE  /\ SensorInv' /\ Step("sens").reg # "STATUS"
               /\ Writes("sens") /\ Step("sens").do = "write" /\ Value("sens") = "set"
    <2>1. /\ Step("sens").do = "write" /\ Step("sens").reg = q
          /\ Step("sens").val = "set"
      BY <1>5 DEF Write
    <2>2. Writes("sens") /\ Value("sens") = "set"
      BY <1>3, <2>1 DEF Writes, Value
    <2>3. chip' = chip \/ chip' = [chip EXCEPT ![s][q] = "set"]
      BY <1>1, <1>3, <2>1, <2>2 DEF Written, s
    <2>4. DOMAIN chip' = Devices /\ \A u \in Devices \ {s} : chip'[u] = chip[u]
      BY <1>1, <2>3
    <2>5. chip'[s] \in [Regs(s) -> {"por", "set"}]
      BY <1>1, <2>3 DEF IInv, SensorInv
    <2>6. Step("sens").reg # "STATUS"
      BY <1>3, <2>1
    <2>7. SensorInv'
      BY <1>1, <2>4, <2>5, SensorsAre DEF IInv, SensorInv, Configured, Devices
    <2> QED BY <2>1, <2>2, <2>6, <2>7
  <1>6. CASE Step("sens") \in {Read("WHO_AM_I"), Wait}
    <2>1. Step("sens").do \in {"read", "wait"} /\ Step("sens").reg # "STATUS"
      BY <1>6 DEF Read, Wait
    <2>2. ~Writes("sens") /\ chip' = chip
      BY <2>1 DEF Writes
    <2> QED BY <2>1, <2>2, SensorsAre DEF IInv, SensorInv, Configured
  <1> QED BY <1>2, <1>4, <1>5, <1>6 DEF InitSteps


(* A transfer of sensor_task: a register to be written is then set.        *)
LEMMA SensTransfer == IInv /\ Transfer("sens") => IInv'
  <1> SUFFICES ASSUME IInv, Transfer("sens") PROVE IInv'
    OBVIOUS
  <1> USE DEF Tasks
  <1>1. JobsOK /\ mutex = "sens" /\ job["sens"].todo # <<>> /\ job["sens"].ok
        /\ UNCHANGED <<mutex, sens, sensor, upsets>>
        /\ chip' = IF Writes("sens") THEN Written(job["sens"].dev, Step("sens").reg, Value("sens"))
                   ELSE chip
    BY DEF IInv, Transfer
  <1>2. /\ SameJob("sens") /\ job'["sens"].ok = job["sens"].ok
        /\ job'["sens"].todo = IF Step("sens").reg = "STATUS"
                               THEN PollRest(chip.bq25622.WD_STAT) ELSE Tail(job["sens"].todo)
    BY <1>1, TransferKeepsJob
  <1>3. JobsOK'
    BY <1>1, <1>2, SameJobIsOK
  <1>4. CASE job["sens"].op = "sens_init"
    <2>1. /\ SensorInv'
          /\ Writes("sens") <=> Step("sens").do = "write"
          /\ Writes("sens") => Value("sens") = "set"
          /\ Step("sens").reg # "STATUS"
      BY <1>1, <1>4, InitWrites
    <2> PICK s, todo : s = job["sens"].dev /\ todo = job["sens"].todo
      OBVIOUS
    <2>2. sens.stage \in 1 .. 3 /\ s = Sensors[sens.stage] /\ todo \in Seq(InitSteps(s))
          /\ s \in Range(Sensors)
      BY <1>4, SensorsAre DEF IInv, InitOK
    <2>3. job'["sens"].op = "sens_init" /\ job'["sens"].dev = s /\ job'["sens"].todo = Tail(todo)
      BY <1>2, <1>4, <2>1 DEF SameJob
    <2>4. chip' = IF Head(todo).do = "write" THEN Written(s, Head(todo).reg, "set") ELSE chip
      BY <1>1, <2>1 DEF Step
    <2>5. ASSUME "brownout" \notin upsets
          PROVE  \A r \in Regs(s) : WillBeSet(s, Tail(todo), r)'
      <3>1. DOMAIN chip = Devices /\ chip[s] \in [Regs(s) -> {"por", "set"}]
            /\ \A r \in Regs(s) : WillBeSet(s, todo, r)
        BY <1>1, <1>4, <2>2, <2>5 DEF IInv, SensorInv, InitOK
      <3> QED BY <1>1, <2>2, <2>4, <3>1, OneTransferOn
    <2>6. Tail(todo) \in Seq(InitSteps(s))
      BY <1>1, <2>2, HeadTailProperties
    <2>7. InitOK'
      <3>1. \A r : WillBeSet(s, Tail(todo), r)' <=> WillBeSet(job["sens"].dev, job["sens"].todo, r)'
        BY <2>3 DEF WillBeSet
      <3> QED BY <1>1, <2>2, <2>3, <2>5, <2>6, <3>1 DEF InitOK
    <2>8. PollOK'
      BY <2>3 DEF PollOK
    <2> QED BY <1>3, <2>1, <2>7, <2>8 DEF IInv
  <1>5. CASE job["sens"].op = "sens_poll"
    <2>1. job["sens"].todo \in Seq({Read("OUT"), Read("TEMP_OUT")})
      BY <1>5 DEF IInv, PollOK
    <2>2. Step("sens") \in {Read("OUT"), Read("TEMP_OUT")}
          /\ Tail(job["sens"].todo) \in Seq({Read("OUT"), Read("TEMP_OUT")})
      BY <1>1, <2>1, HeadTailProperties DEF Step
    <2>3. ~Writes("sens") /\ Step("sens").reg # "STATUS"
      BY <2>2 DEF Writes, Read
    <2>4. UNCHANGED chip /\ job'["sens"].op = "sens_poll" /\ job'["sens"].dev = job["sens"].dev
          /\ job'["sens"].todo = Tail(job["sens"].todo)
      BY <1>1, <1>2, <1>5, <2>3 DEF SameJob
    <2>5. SensorInv'
      BY <1>1, <2>4 DEF IInv, SensorInv, Configured
    <2>6. InitOK' /\ PollOK'
      BY <1>1, <1>5, <2>2, <2>4 DEF IInv, InitOK, PollOK
    <2> QED BY <1>3, <2>5, <2>6 DEF IInv
  <1> QED BY <1>1, <1>4, <1>5 DEF JobsOK

(* A failed transfer ends an initialisation before the sensor is online.   *)
LEMMA SensFault == IInv /\ Fault("sens") => IInv'
  <1> SUFFICES ASSUME IInv, Fault("sens") PROVE IInv'
    OBVIOUS
  <1> USE DEF Tasks
  <1>1. JobsOK /\ mutex = "sens" /\ job["sens"].todo # <<>> /\ job["sens"].ok
        /\ UNCHANGED <<mutex, sens, sensor, upsets>>
        /\ chip' \in IF Writes("sens")
                     THEN {chip, Written(job["sens"].dev, Step("sens").reg, Value("sens"))}
                     ELSE {chip}
    BY DEF IInv, Fault
  <1>2. /\ SameJob("sens")
        /\ \/ job'["sens"].ok = FALSE /\ job'["sens"].todo = job["sens"].todo
           \/ /\ Step("sens") = Wait /\ job'["sens"].ok = job["sens"].ok
              /\ job'["sens"].todo = Tail(job["sens"].todo)
    BY <1>1, FaultKeepsJob
  <1>3. JobsOK'
    BY <1>1, <1>2, SameJobIsOK
  <1>4. CASE job["sens"].op = "sens_init"
    <2>1. SensorInv'
      BY <1>1, <1>4, InitWrites
    <2> PICK s, todo : s = job["sens"].dev /\ todo = job["sens"].todo
      OBVIOUS
    <2>2. sens.stage \in 1 .. 3 /\ s = Sensors[sens.stage] /\ todo \in Seq(InitSteps(s))
          /\ s \in Range(Sensors)
      BY <1>4, SensorsAre DEF IInv, InitOK
    <2>3. job'["sens"].op = "sens_init" /\ job'["sens"].dev = s
      BY <1>2, <1>4 DEF SameJob
    <2>4. PollOK'
      BY <2>3 DEF PollOK
    <2>5. CASE job'["sens"].ok = FALSE /\ job'["sens"].todo = todo
      BY <1>1, <1>3, <2>1, <2>2, <2>3, <2>4, <2>5 DEF IInv, InitOK
    <2>6. CASE Step("sens") = Wait /\ job'["sens"].todo = Tail(todo)
      <3>1. Head(todo).do = "wait" /\ ~Writes("sens")
        BY <2>6 DEF Step, Wait, Writes
      <3>2. chip' = IF Head(todo).do = "write" THEN Written(s, Head(todo).reg, "set") ELSE chip
        BY <1>1, <3>1
      <3>3. ASSUME "brownout" \notin upsets
            PROVE  \A r \in Regs(s) : WillBeSet(s, Tail(todo), r)'
        <4>1. DOMAIN chip = Devices /\ chip[s] \in [Regs(s) -> {"por", "set"}]
              /\ \A r \in Regs(s) : WillBeSet(s, todo, r)
          BY <1>1, <1>4, <2>2, <3>3 DEF IInv, SensorInv, InitOK
        <4> QED BY <1>1, <2>2, <3>2, <4>1, OneTransferOn
      <3>4. Tail(todo) \in Seq(InitSteps(s))
        BY <1>1, <2>2, HeadTailProperties
      <3>5. InitOK'
        <4>1. \A r : WillBeSet(s, Tail(todo), r)'
                       <=> WillBeSet(job["sens"].dev, job["sens"].todo, r)'
          BY <2>3, <2>6 DEF WillBeSet
        <4> QED BY <1>1, <2>2, <2>3, <2>6, <3>3, <3>4, <4>1 DEF InitOK
      <3> QED BY <1>3, <2>1, <2>4, <3>5 DEF IInv
    <2> QED BY <1>2, <2>5, <2>6
  <1>5. CASE job["sens"].op = "sens_poll"
    <2>1. job["sens"].todo \in Seq({Read("OUT"), Read("TEMP_OUT")})
      BY <1>5 DEF IInv, PollOK
    <2>2. Step("sens") \in {Read("OUT"), Read("TEMP_OUT")}
      BY <1>1, <2>1, HeadTailProperties DEF Step
    <2>3. ~Writes("sens") /\ Step("sens") # Wait
      BY <2>2 DEF Writes, Read, Wait
    <2>4. UNCHANGED chip /\ job'["sens"].op = "sens_poll" /\ job'["sens"].dev = job["sens"].dev
          /\ job'["sens"].todo = job["sens"].todo
      BY <1>1, <1>2, <1>5, <2>3 DEF SameJob
    <2>5. SensorInv'
      BY <1>1, <2>4 DEF IInv, SensorInv, Configured
    <2>6. InitOK' /\ PollOK'
      BY <1>1, <1>5, <2>4 DEF IInv, InitOK, PollOK
    <2> QED BY <1>3, <2>5, <2>6 DEF IInv
  <1> QED BY <1>1, <1>4, <1>5 DEF JobsOK


(* The call ends: a sensor that has been initialised is shown online.      *)
LEMMA SensRelease == IInv /\ Release("sens") => IInv'
  <1> SUFFICES ASSUME IInv, Release("sens") PROVE IInv'
    OBVIOUS
  <1> USE DEF Tasks
  <1> PICK j : j = job["sens"]
    OBVIOUS
  <1>1. /\ mutex = "sens" /\ (j.todo = <<>> \/ ~j.ok) /\ mutex' = "none"
        /\ j.op \in {"sens_init", "sens_poll"}
        /\ UNCHANGED <<chip, upsets>>
        /\ job' = [job EXCEPT !["sens"] = Idle]
    BY DEF Release, IInv, JobsOK
  <1>2. JobsOK' /\ InitOK' /\ PollOK'
    BY <1>1 DEF IInv, JobsOK, InitOK, PollOK, Idle, Job
  <1>3. Sensors[1] \in Range(Sensors) /\ Sensors[2] \in Range(Sensors)
        /\ Sensors[3] \in Range(Sensors)
        /\ \A n, m \in 1 .. 3 : n # m => Sensors[n] # Sensors[m]
    BY SensorsAre
  <1>4. \A x : DOMAIN x = {"online", "fails"} =>
          /\ \A ok \in BOOLEAN : DOMAIN Counted(x, ok) = {"online", "fails"}
          /\ Counted(x, FALSE).online => x.online
    BY DEF Counted
  <1>5. CASE j.op = "sens_init" /\ j.ok
    <2>1. j.todo = <<>> /\ sens.stage \in 1 .. 3 /\ j.dev = Sensors[sens.stage]
      BY <1>1, <1>5 DEF IInv, InitOK
    <2>2. sens' = [sens EXCEPT !.stage = @ + 1]
          /\ sensor' = [sensor EXCEPT ![j.dev] = [@ EXCEPT !.online = TRUE]]
      BY <1>5 DEF Release
    <2>3. ASSUME "brownout" \notin upsets PROVE Configured(j.dev)
      <3>1. \A r \in Regs(j.dev) : WillBeSet(j.dev, <<>>, r)
        BY <1>5, <2>1, <2>3 DEF IInv, InitOK
      <3>2. \A r \in Regs(j.dev) : chip[j.dev][r] = "set"
        BY <3>1 DEF WillBeSet
      <3>3. chip[j.dev] \in [Regs(j.dev) -> {"por", "set"}]
        BY <1>3, <2>1 DEF IInv, SensorInv
      <3> QED BY <3>2, <3>3 DEF Configured, Regs
    <2>4. sens'.stage = sens.stage + 1 /\ DOMAIN sens' = {"stage", "tick"}
      BY <2>2 DEF IInv, SensorInv
    <2>5. DOMAIN sensor' = Range(Sensors)
          /\ \A s \in Range(Sensors) : DOMAIN sensor'[s] = {"online", "fails"}
      BY <2>2 DEF IInv, SensorInv
    <2>6. \A n \in 1 .. 3 : sensor'[Sensors[n]].online => n < sens'.stage
      BY <1>3, <2>1, <2>2, <2>4 DEF IInv, SensorInv
    <2>7. "brownout" \notin upsets => \A n \in 1 .. 3 : n < sens'.stage => Configured(Sensors[n])
      BY <2>1, <2>3, <2>4 DEF IInv, SensorInv
    <2> QED BY <1>1, <1>2, <2>1, <2>4, <2>5, <2>6, <2>7 DEF IInv, SensorInv, Configured
  <1>6. CASE j.op = "sens_init" /\ ~j.ok
    <2>1. sens' = sens
          /\ sensor' = [sensor EXCEPT ![j.dev] = [Counted(@, FALSE) EXCEPT !.online = FALSE]]
      BY <1>6 DEF Release
    <2>2. j.dev \in Range(Sensors)
      BY <1>3, <1>6 DEF IInv, InitOK
    <2> DEFINE x == Counted(sensor[j.dev], FALSE)
    <2>3. DOMAIN x = {"online", "fails"}
      BY <1>4, <2>2 DEF IInv, SensorInv
    <2>4. sensor' = [sensor EXCEPT ![j.dev] = [x EXCEPT !.online = FALSE]]
      BY <2>1
    <2> HIDE DEF x
    <2>5. DOMAIN sensor' = Range(Sensors)
          /\ \A s \in Range(Sensors) : sensor'[s] = IF s = j.dev THEN [x EXCEPT !.online = FALSE]
                                                    ELSE sensor[s]
      BY <2>2, <2>4 DEF IInv, SensorInv
    <2>6. \A s \in Range(Sensors) : /\ DOMAIN sensor'[s] = {"online", "fails"}
                                    /\ s = j.dev => ~sensor'[s].online
                                    /\ s # j.dev => sensor'[s] = sensor[s]
      BY <2>3, <2>5 DEF IInv, SensorInv
    <2>7. \A n \in 1 .. 3 : sensor'[Sensors[n]].online => n < sens.stage
      BY <1>3, <2>6 DEF IInv, SensorInv
    <2>8. SensorInv'
      BY <1>1, <2>1, <2>5, <2>6, <2>7 DEF IInv, SensorInv, Configured
    <2> QED BY <1>2, <2>8 DEF IInv
  <1>7. CASE j.op = "sens_poll"
    <2>1. sens.stage \in 4 .. 6 /\ j.dev = Sensors[sens.stage - 3] /\ j.dev \in Range(Sensors)
      BY <1>3, <1>7 DEF IInv, PollOK
    <2>2. sensor' = [sensor EXCEPT ![j.dev] = Counted(@, j.ok)]
          /\ sens' = IF j.dev = "lsm6dsv16x"
                     THEN [stage |-> 4, tick |-> (sens.tick + 1) % LpsPeriod]
                     ELSE [sens EXCEPT !.stage = @ + 1]
      BY <1>7 DEF Release
    <2>3. sens'.stage \in 4 .. 6 /\ DOMAIN sens' = {"stage", "tick"}
      BY <2>1, <2>2, SensorsAre DEF IInv, SensorInv
    <2>4. DOMAIN sensor' = Range(Sensors)
          /\ \A s \in Range(Sensors) : DOMAIN sensor'[s] = {"online", "fails"}
      BY <2>1, <2>2 DEF IInv, SensorInv, Counted
    <2> QED BY <1>1, <1>2, <2>1, <2>3, <2>4 DEF IInv, SensorInv, Configured
  <1> QED BY <1>1, <1>5, <1>6, <1>7

(* A call of sensor_task begins.                                           *)
LEMMA SensAcquire == IInv /\ SensorTask => IInv'
  <1> SUFFICES ASSUME IInv, SensorTask PROVE IInv'
    OBVIOUS
  <1> USE DEF Tasks
  <1>0. UNCHANGED <<chip, sensor, upsets>>
    BY DEF SensorTask
  <1>1. CASE /\ sens.stage <= 3 /\ UNCHANGED sens
             /\ LET s == Sensors[sens.stage]
                IN  Acquire("sens", Job("sens_init", s, SensorInit(s), {}))
    <2> PICK s : s = Sensors[sens.stage]
      OBVIOUS
    <2>1. job' = [job EXCEPT !["sens"] = Job("sens_init", s, SensorInit(s), {})]
          /\ mutex' = "sens"
      BY <1>1 DEF Acquire
    <2>2. job'["sens"].op = "sens_init" /\ job'["sens"].dev = s
          /\ job'["sens"].todo = SensorInit(s)
          /\ DOMAIN job'["sens"] = {"op", "dev", "todo", "seen", "arg", "ok"}
      BY <2>1 DEF IInv, JobsOK, Job
    <2>3. sens.stage \in 1 .. 3 /\ s \in Range(Sensors)
      BY <1>1, SensorsAre DEF IInv, SensorInv
    <2>4. JobsOK'
      BY <2>1, <2>2 DEF IInv, JobsOK
    <2>5. SensorInit(s) \in Seq(InitSteps(s))
          /\ \A r \in Regs(s) : WillBeSet(s, SensorInit(s), r)'
      <3>1. \E r : r \in Regs(s)
        BY <2>3, SensorsAre, RegsAre
      <3> QED BY <2>3, <3>1, InitWritesAll DEF WillBeSet
    <2>6. InitOK'
      BY <1>1, <2>2, <2>3, <2>5 DEF InitOK
    <2>7. PollOK'
      BY <2>2 DEF PollOK
    <2>8. SensorInv'
      BY <1>0, <1>1 DEF IInv, SensorInv, Configured
    <2> QED BY <2>4, <2>6, <2>7, <2>8 DEF IInv
  <1>2. ASSUME sens.stage > 3, NEW stage \in 4 .. 6, NEW s, s = Sensors[stage - 3],
               Acquire("sens", Job("sens_poll", s, SensorPoll(s), {})),
               sens' = [sens EXCEPT !.stage = stage]
        PROVE  IInv'
    <2>1. job' = [job EXCEPT !["sens"] = Job("sens_poll", s, SensorPoll(s), {})]
          /\ mutex' = "sens"
      BY <1>2 DEF Acquire
    <2>2. job'["sens"].op = "sens_poll" /\ job'["sens"].dev = s
          /\ job'["sens"].todo = SensorPoll(s)
          /\ DOMAIN job'["sens"] = {"op", "dev", "todo", "seen", "arg", "ok"}
      BY <2>1 DEF IInv, JobsOK, Job
    <2>3. JobsOK'
      BY <2>1, <2>2 DEF IInv, JobsOK
    <2>4. SensorPoll(s) \in Seq({Read("OUT"), Read("TEMP_OUT")})
      <3>1. s \in {"lps22hh", "lis2mdl", "lsm6dsv16x"}
        BY <1>2, SensorsAre
      <3>2. SensorPoll(s) \in {<<Read("OUT")>>, <<Read("OUT"), Read("TEMP_OUT")>>}
        BY <3>1 DEF SensorPoll, Lps22hhPoll, Lis2mdlPoll, Lsm6dsv16xPoll
      <3>3. ASSUME NEW a, NEW b PROVE <<a>> \in Seq({a, b}) /\ <<a, b>> \in Seq({a, b})
        OBVIOUS
      <3> QED BY <3>2, <3>3
    <2>5. sens'.stage = stage /\ DOMAIN sens' = {"stage", "tick"}
      BY <1>2 DEF IInv, SensorInv
    <2>6. InitOK' /\ PollOK'
      BY <1>2, <2>2, <2>4, <2>5 DEF InitOK, PollOK
    <2>7. SensorInv'
      BY <1>0, <1>2, <2>5 DEF IInv, SensorInv, Configured
    <2> QED BY <2>3, <2>6, <2>7 DEF IInv
  <1>3. CASE /\ sens.stage > 3
             /\ LET stage == IF sens.stage = 4 /\ sens.tick # 0 THEN 5 ELSE sens.stage
                    s == Sensors[stage - 3]
                IN  /\ Acquire("sens", Job("sens_poll", s, SensorPoll(s), {}))
                    /\ sens' = [sens EXCEPT !.stage = stage]
    <2> DEFINE stage == IF sens.stage = 4 /\ sens.tick # 0 THEN 5 ELSE sens.stage
    <2>1. stage \in 4 .. 6
      BY <1>3 DEF IInv, SensorInv
    <2> QED BY <1>2, <1>3, <2>1
  <1> QED BY <1>1, <1>3 DEF SensorTask

(* A brown-out only resets registers; no promise is made after it.         *)
LEMMA BrownOutPreserves == IInv /\ BrownOut => IInv'
  <1> SUFFICES ASSUME IInv, BrownOut PROVE IInv'
    OBVIOUS
  <1>1. UNCHANGED <<mutex, job, sens, sensor>> /\ "brownout" \in upsets'
    BY DEF BrownOut, Upset
  <1>2. PICK b \in Range(Sensors) : chip' = [chip EXCEPT ![b] = PowerOn(b)]
    BY DEF BrownOut
  <1>3. DOMAIN chip' = Devices
    BY <1>2 DEF IInv, SensorInv
  <1>4. ASSUME NEW s \in Range(Sensors) PROVE chip'[s] \in [Regs(s) -> {"por", "set"}]
    <2>1. PowerOn(s) \in [Regs(s) -> {"por", "set"}]
      BY DEF PowerOn, Regs
    <2>2. s \in Devices
      BY SensorsAre DEF Devices
    <2> QED BY <1>2, <2>1, <2>2 DEF IInv, SensorInv
  <1>5. SensorInv'
    BY <1>1, <1>3, <1>4 DEF IInv, SensorInv
  <1> QED BY <1>1, <1>5 DEF IInv, JobsOK, InitOK, PollOK

(* At power-on no sensor is online.                                        *)
LEMMA InitHolds == Init => IInv
  <1> SUFFICES ASSUME Init PROVE IInv
    OBVIOUS
  <1>1. JobsOK /\ InitOK /\ PollOK
    BY DEF Init, JobsOK, InitOK, PollOK, Idle, Job, Tasks
  <1>2. DOMAIN chip = Devices
    BY DEF Init, ChipInit, Devices
  <1>3. ASSUME NEW s \in Range(Sensors) PROVE chip[s] \in [Regs(s) -> {"por", "set"}]
    <2>1. chip[s] = PowerOn(s)
      BY SensorsAre DEF Init, ChipInit
    <2> QED BY <2>1 DEF PowerOn, Regs
  <1> QED BY <1>1, <1>2, <1>3, SensorsAre DEF Init, IInv, SensorInv

(* The invariant of sensor_task holds, whatever the other tasks do.        *)
LEMMA SensorsInvariant == Spec => []IInv
  <1>1. IInv /\ [Next]_vars => IInv'
    <2> SUFFICES ASSUME IInv, [Next]_vars PROVE IInv'
      OBVIOUS
    <2>1. CASE ChargerTask \/ Call \/ Expire
      BY <2>1, CallsPreserve
    <2>2. CASE SensorTask
      BY <2>2, SensAcquire
    <2>3. ASSUME NEW t \in Tasks, Work(t) \/ Fault(t) PROVE IInv'
      <3>1. CASE t \in {"chg", "ui"}
        BY <2>3, <3>1, OthersPreserve
      <3>2. CASE t = "sens"
        <4>1. ~Assign("sens")
          BY DEF IInv, JobsOK, Assign
        <4> QED BY <2>3, <3>2, <4>1, SensTransfer, SensFault, SensRelease DEF Work
      <3> QED BY <3>1, <3>2 DEF Tasks
    <2>4. CASE BrownOut
      BY <2>4, BrownOutPreserves
    <2>5. CASE UNCHANGED vars
      BY <2>5 DEF vars, IInv, JobsOK, InitOK, PollOK, SensorInv, WillBeSet, Configured
    <2> QED BY <2>1, <2>2, <2>3, <2>4, <2>5 DEF Next
  <1> QED BY <1>1, InitHolds, PTL DEF Spec

(* lps22hh.c, lis2mdl.c, lsm6dsv16x.c, sensor_task.c: whatever transfers   *)
(* fail, and however the other tasks use the bus, a sensor that is shown   *)
(* online holds all its production settings as long as its supply holds.   *)
THEOREM OnlineSensorsAreConfigured == Spec => []OnlineIsConfigured
  <1>1. IInv => OnlineIsConfigured
    BY SensorsAre DEF IInv, SensorInv, OnlineIsConfigured
  <1> QED BY <1>1, SensorsInvariant, PTL

(* The step of a task with the bus keeps its wires.                        *)
LEMMA WorkKeepsWires ==
  ASSUME JobsOK, RightWires, NEW t \in Tasks, Work(t) \/ Fault(t)
  PROVE  RightWires'
  <1>1. CASE Transfer(t) \/ Fault(t)
    <2>1. SameJob(t)
      BY <1>1, TransferKeepsJob, FaultKeepsJob
    <2>2. UNCHANGED <<mutex, active>>
      BY <1>1 DEF Transfer, Fault
    <2>3. \A u \in Tasks : job'[u].dev = job[u].dev
      BY <2>1 DEF SameJob
    <2> QED BY <2>2, <2>3 DEF RightWires, Pair
  <1>2. CASE Release(t)
    BY <1>2 DEF Release, RightWires, Tasks
  <1>3. CASE Assign(t)
    <2>1. t # "sens"
      BY <1>3 DEF JobsOK, Assign
    <2>2. UNCHANGED <<mutex, active>> /\ job' = [job EXCEPT ![t] = Idle]
      BY <1>3 DEF Assign
    <2>3. job[t].dev \in {"bq25622", "lm27965"} /\ Idle.dev = "lm27965"
      BY <2>1 DEF JobsOK, Tasks, Idle, Job
    <2>4. \A u \in Tasks : Pair(job'[u].dev) = Pair(job[u].dev)
      BY <2>2, <2>3 DEF JobsOK, Pair
    <2> QED BY <2>2, <2>4 DEF RightWires
  <1> QED BY <1>1, <1>2, <1>3 DEF Work

(* i2c_bus.c: whatever tasks ask for the bus and whatever transfers fail,  *)
(* every transfer runs on the pin pair of the chip it is for.              *)
THEOREM TransfersUseTheirWires == Spec => []RightWires
  <1>1. Init => RightWires
    BY DEF Init, RightWires, Tasks
  <1>2. IInv /\ IInv' /\ RightWires /\ [Next]_vars => RightWires'
    <2> SUFFICES ASSUME IInv, RightWires, [Next]_vars PROVE RightWires'
      OBVIOUS
    <2>0. JobsOK
      BY DEF IInv
    <2>1. ASSUME NEW t \in Tasks, NEW j, Acquire(t, j) PROVE RightWires'
      BY <2>0, <2>1 DEF Acquire, RightWires, JobsOK
    <2>2. CASE ChargerTask
      <3>1. \E j : Acquire("chg", j)
        BY <2>2 DEF ChargerTask
      <3> QED BY <2>1, <3>1 DEF Tasks
    <2>3. CASE SensorTask
      <3>1. \E j : Acquire("sens", j)
        BY <2>3 DEF SensorTask
      <3> QED BY <2>1, <3>1 DEF Tasks
    <2>4. CASE Call
      <3>1. \E j : Acquire("ui", j)
        BY <2>4 DEF Call
      <3> QED BY <2>1, <3>1 DEF Tasks
    <2>5. CASE \E t \in Tasks : Work(t) \/ Fault(t)
      BY <2>0, <2>5, WorkKeepsWires
    <2>6. CASE Expire \/ BrownOut \/ UNCHANGED vars
      <3>1. UNCHANGED <<mutex, active, job>>
        BY <2>6 DEF Expire, BrownOut, vars
      <3> QED BY <3>1 DEF RightWires, Pair
    <2> QED BY <2>2, <2>3, <2>4, <2>5, <2>6 DEF Next
  <1> QED BY <1>1, <1>2, SensorsInvariant, PTL DEF Spec
-----------------------------------------------------------------------------
(* The jobs of the charger and of the LEDs.                                *)
(* The values of the watchdog window and of CTRL1, and the registers of    *)
(* the two power chips.                                                    *)
Win == Windows \cup {"50S"}
Ctrl1 == [chg : BOOLEAN, hiz : BOOLEAN, wd : Win]
BqRegs == {"VREG", "ICHG", "IINDPM", "CTRL1", "CTRL3", "ADC_CTRL", "WD_STAT"}
Banks == {"BANKA", "BANKB", "BANKC"}

(* What ctrl1_update is asked to force: nothing, one field, or the two of  *)
(* hw_init.                                                                *)
Fields ==
    {<<>>} \cup {[chg |-> b] : b \in BOOLEAN} \cup {[hiz |-> b] : b \in BOOLEAN}
    \cup {[wd |-> w] : w \in Win} \cup {[chg |-> TRUE, wd |-> w] : w \in Win}

(* A transfer of ctrl1_update.                                             *)
Update(f) == [do |-> "update", reg |-> "CTRL1", val |-> f]

(* What the charger driver and the LED driver transfer.                    *)
ChgSteps ==
    {Read(r) : r \in {"PART_INFO", "CTRL1", "CTRL3", "STATUS", "RECOVERED", "ADC_BLOCK"}}
    \cup {Write(r, "set") : r \in Limits \cup {"ADC_CTRL"}}
    \cup {Write("CTRL3", m) : m \in {"NORMAL", "SHUTDOWN"}}
    \cup {Update(f) : f \in Fields}
LedSteps == {Write(b, d) : b \in Banks, d \in 0 .. DutyMax} \cup {Write("GP", {})}

(* CTRL1 is only written with what the transfer before has read.           *)
ChargerTodo(j) ==
    /\ j.todo \in Seq(ChgSteps)
    /\ \A i \in 1 .. Len(j.todo) : j.todo[i].do = "update" =>
         IF i = 1 THEN j.seen \in Ctrl1 ELSE j.todo[i - 1] = Read("CTRL1")

(* The enables are the last that a call of the LED driver writes.          *)
LedTodo(j) ==
    /\ j.todo \in Seq(LedSteps)
    /\ j.todo # <<>> => j.todo[Len(j.todo)] = Write("GP", {})
    /\ j.op = "led" => j.arg.of \subseteq Enables /\ j.arg.on \subseteq Enables

(* The call of a control of the charger, and one of the LED driver.        *)
ControlOK(j) ==
    /\ j.dev = "bq25622" /\ j.op \in {"charge", "watchdog", "hiz", "batfet"}
    /\ ChargerTodo(j) /\ (j.op = "watchdog" => j.arg \in Win)
LightOK(j) ==
    j.dev = "lm27965" /\ j.op \in {"led_init", "led", "all_off"} /\ LedTodo(j)

(* Who has a job has the bus, or has only a window to store.               *)
Holders ==
    /\ mutex \in Tasks \cup {"none"}
    /\ mutex # "chg" => job["chg"] = Idle
    /\ mutex # "ui" => \/ job["ui"] = Idle
                       \/ /\ job["ui"].op = "assign" /\ job["ui"].dev = "bq25622"
                          /\ job["ui"].arg \in Win
    /\ mutex = "chg" => /\ job["chg"].dev = "bq25622" /\ job["chg"].op \in {"chg_init", "chg_poll"}
                        /\ ChargerTodo(job["chg"])
    /\ mutex = "ui" => ControlOK(job["ui"]) \/ LightOK(job["ui"])

(* A call of the LED driver has failed, or is not over, or has left the    *)
(* chip with the cached enables.                                           *)
LightsOn ==
    mutex = "ui" /\ job["ui"].dev = "lm27965" =>
      IF job["ui"].ok THEN job["ui"].todo = <<>> => leds.GP = chip.lm27965.GP
      ELSE ~leds.online

(* The registers of the two power chips, and what the drivers note.        *)
Shapes ==
    /\ DOMAIN chip.bq25622 = BqRegs /\ chip.bq25622.CTRL1 \in Ctrl1
    /\ DOMAIN chip.lm27965 = Banks \cup {"GP"} /\ chip.lm27965.GP \subseteq Enables
    /\ DOMAIN charger = {"stage", "online", "fails", "wd_window", "expired_count"}
    /\ charger.wd_window \in Win
    /\ DOMAIN leds = Banks \cup {"GP", "online"} /\ leds.GP \subseteq Enables
    /\ leds.online \in BOOLEAN

(* The sensors and sensor_task.                                            *)
SensorTypes ==
    /\ active \in {"POWER", "SENSOR"}
    /\ sensor \in [Range(Sensors) -> Health]
    /\ sens \in [stage : 1 .. 6, tick : 0 .. (LpsPeriod - 1)]

(* All that the two power chips and their drivers rely on.                 *)
PartsInv == Holders /\ LightsOn /\ Shapes /\ SensorTypes /\ CacheIsChip

(* Every limit is in the charger or is written before transfer k.          *)
Pending(bq, todo, k) ==
    \A r \in Limits : bq[r] = "set" \/ \E i \in 1 .. (k - 1) : todo[i] = Write(r, "set")

(* The status register is not read.                                        *)
NoStatus(todo) == \A i \in 1 .. Len(todo) : todo[i].reg # "STATUS"

(* What charger_task still has to do: no write of CTRL1 comes before the   *)
(* limits, and hw_init ends with all of them.                              *)
LimitsToCome(bq, j) ==
    /\ \A k \in 1 .. Len(j.todo) : j.todo[k].do = "update" => Pending(bq, j.todo, k)
    /\ j.op = "chg_init" => Pending(bq, j.todo, Len(j.todo) + 1) /\ NoStatus(j.todo)

(* Unless a control has been called: once the charger is polled, its       *)
(* limits are set or its watchdog has expired.                             *)
SettingsInv ==
    /\ charger.stage \in {"init", "poll"}
    /\ job["chg"].op = "chg_poll" => charger.stage = "poll"
    /\ "control" \notin upsets =>
         /\ mutex = "ui" => job["ui"].dev = "lm27965"
         /\ charger.stage = "poll" => LimitsSet \/ chip.bq25622.WD_STAT
         /\ mutex = "chg" /\ job["chg"].ok => LimitsToCome(chip.bq25622, job["chg"])

(* ctrl1_update gives a value of the register.                             *)
LEMMA MergedIsCtrl1 ==
  ASSUME NEW s \in Ctrl1, NEW f \in Fields
  PROVE  Merged(f, s) \in Ctrl1
  <1> DEFINE m == Merged(f, s)
  <1>1. DOMAIN s = {"chg", "hiz", "wd"} /\ s.chg \in BOOLEAN /\ s.hiz \in BOOLEAN /\ s.wd \in Win
    BY DEF Ctrl1
  <1>2. /\ "chg" \in DOMAIN f => f.chg \in BOOLEAN
        /\ "hiz" \in DOMAIN f => f.hiz \in BOOLEAN
        /\ "wd" \in DOMAIN f => f.wd \in Win
    <2>1. CASE f = <<>>
      <3>1. DOMAIN f = {}
        BY <2>1
      <3> QED BY <3>1
    <2>2. CASE f \in {[chg |-> b] : b \in BOOLEAN}
      BY <2>2
    <2>3. CASE f \in {[hiz |-> b] : b \in BOOLEAN}
      BY <2>3
    <2>4. CASE f \in {[wd |-> w] : w \in Win}
      <3>1. PICK w \in Win : f = [wd |-> w]
        BY <2>4
      <3>2. DOMAIN f = {"wd"} /\ f.wd = w
        BY <3>1
      <3> QED BY <3>2
    <2>5. CASE f \in {[chg |-> TRUE, wd |-> w] : w \in Win}
      <3>1. PICK w \in Win : f = [chg |-> TRUE, wd |-> w]
        BY <2>5
      <3>2. DOMAIN f = {"chg", "wd"} /\ f.chg = TRUE /\ f.wd = w
        BY <3>1
      <3> QED BY <3>2
    <2> QED BY <2>1, <2>2, <2>3, <2>4, <2>5 DEF Fields
  <1>3. m = [x \in {"chg", "hiz", "wd"} |-> IF x \in DOMAIN f THEN f[x] ELSE s[x]]
    BY <1>1 DEF Merged
  <1> HIDE DEF m
  <1>4. m.chg \in BOOLEAN /\ m.hiz \in BOOLEAN /\ m.wd \in Win
    BY <1>1, <1>2, <1>3
  <1>5. m = [chg |-> m.chg, hiz |-> m.hiz, wd |-> m.wd]
    BY <1>3
  <1>6. m \in Ctrl1
    BY <1>4, <1>5 DEF Ctrl1
  <1> QED BY <1>6 DEF m

(* The transfers of the charger's calls, told apart.                       *)
LEMMA ChgStepIs ==
  ASSUME NEW x \in ChgSteps
  PROVE  \/ x.do = "read" /\ x = Read(x.reg)
         \/ x.do = "write" /\ x = Write(x.reg, "set") /\ x.val = "set"
            /\ x.reg \in Limits \cup {"ADC_CTRL"}
         \/ x.do = "write" /\ x.reg = "CTRL3"
         \/ x.do = "update" /\ x.reg = "CTRL1" /\ x.val \in Fields
  BY DEF ChgSteps, Read, Write, Update

(* And those of the LED driver.                                            *)
LEMMA LedStepIs ==
  ASSUME NEW x \in LedSteps
  PROVE  /\ x.do = "write" /\ x.reg \in Banks \cup {"GP"}
         /\ x.reg = "GP" => x = Write("GP", {})
         /\ x = Write("GP", {}) => x.reg = "GP"
  BY DEF LedSteps, Write, Banks

(* The transfer done, the rest of the job of the charger.                  *)
LEMMA ChargerTail ==
  ASSUME NEW j, NEW k, ChargerTodo(j), j.todo # <<>>, k.todo = Tail(j.todo),
         Head(j.todo) = Read("CTRL1") => k.seen \in Ctrl1
  PROVE  ChargerTodo(k)
  <1> DEFINE u == j.todo
             v == k.todo
  <1>1. /\ v \in Seq(ChgSteps) /\ Len(v) = Len(u) - 1 /\ Len(v) \in Nat /\ Head(u) = u[1]
        /\ \A i \in 1 .. Len(v) : v[i] = u[i + 1]
    BY HeadTailProperties DEF ChargerTodo
  <1>2. \A i \in 1 .. Len(u) : u[i].do = "update" =>
          IF i = 1 THEN j.seen \in Ctrl1 ELSE u[i - 1] = Read("CTRL1")
    BY DEF ChargerTodo
  <1>3. Head(u) = Read("CTRL1") => k.seen \in Ctrl1
    OBVIOUS
  <1> HIDE DEF u, v
  <1>4. ASSUME NEW i \in 1 .. Len(v), v[i].do = "update"
        PROVE  IF i = 1 THEN k.seen \in Ctrl1 ELSE v[i - 1] = Read("CTRL1")
    <2> DEFINE n == i + 1
    <2>1. n \in 1 .. Len(u) /\ u[n].do = "update" /\ n # 1 /\ n - 1 = i
      BY <1>1, <1>4
    <2>2. u[n - 1] = Read("CTRL1")
      BY <1>2, <2>1
    <2>3. u[i] = Read("CTRL1")
      BY <2>1, <2>2
    <2>4. CASE i = 1
      BY <1>1, <1>3, <2>3, <2>4
    <2>5. CASE i # 1
      <3>1. i - 1 \in 1 .. Len(v) /\ (i - 1) + 1 = i
        BY <1>1, <1>4, <2>5
      <3>2. v[i - 1] = u[i]
        BY <1>1, <3>1
      <3> QED BY <2>3, <2>5, <3>2
    <2> QED BY <2>4, <2>5
  <1> QED BY <1>1, <1>4 DEF ChargerTodo, v

(* And of the LED driver.                                                  *)
LEMMA LedTail ==
  ASSUME NEW j, NEW k, LedTodo(j), j.todo # <<>>, k.todo = Tail(j.todo),
         k.op = j.op, k.arg = j.arg
  PROVE  LedTodo(k) /\ (k.todo = <<>> => Head(j.todo) = Write("GP", {}))
  <1>1. /\ k.todo \in Seq(LedSteps) /\ Len(k.todo) = Len(j.todo) - 1 /\ Len(k.todo) \in Nat
        /\ Head(j.todo) = j.todo[1] /\ Len(j.todo) \in Nat
        /\ \A i \in 1 .. Len(k.todo) : k.todo[i] = j.todo[i + 1]
    BY HeadTailProperties DEF LedTodo
  <1>2. CASE k.todo = <<>>
    <2> DEFINE n == Len(j.todo)
    <2>1. 0 = n - 1 /\ n \in Nat
      BY <1>1, <1>2, EmptySeq
    <2> HIDE DEF n
    <2>2. n = 1
      BY <2>1
    <2> QED BY <1>1, <1>2, <2>2 DEF LedTodo, n
  <1>3. CASE k.todo # <<>>
    <2> DEFINE n == Len(k.todo)
    <2>1. n \in 1 .. n /\ n + 1 = Len(j.todo)
      BY <1>1, <1>3, EmptySeq
    <2>2. k.todo[n] = j.todo[Len(j.todo)]
      BY SMTT(30), <1>1, <2>1
    <2> QED BY <1>1, <1>3, <2>2 DEF LedTodo
  <1> QED BY <1>2, <1>3

-----------------------------------------------------------------------------
(* A write to the charger: a limit is set by its own write only, and only  *)
(* CTRL1 ends an expiry.                                                   *)
LEMMA ChargerWrite ==
  ASSUME DOMAIN chip = Devices, Shapes, NEW t \in Tasks, ChargerTodo(job[t]),
         job[t].todo # <<>>, Writes(t),
         NEW new, new = Written("bq25622", Step(t).reg, Value(t))
  PROVE  /\ DOMAIN new = Devices /\ new["lm27965"] = chip["lm27965"]
         /\ DOMAIN new.bq25622 = BqRegs /\ new.bq25622.CTRL1 \in Ctrl1
         /\ \A r \in Limits : new.bq25622[r] = IF Step(t) = Write(r, "set") THEN "set"
                                               ELSE chip.bq25622[r]
         /\ Step(t).do # "update" => new.bq25622.WD_STAT = chip.bq25622.WD_STAT
  <1> DEFINE x == Step(t)
             todo == job[t].todo
  <1>1. x \in ChgSteps /\ x = todo[1] /\ 1 \in 1 .. Len(todo)
    BY HeadTailProperties DEF ChargerTodo, Step
  <1>2. x.do \in {"write", "update"}
    BY DEF Writes
  <1>3. x.do = "update" => job[t].seen \in Ctrl1
    BY <1>1 DEF ChargerTodo
  <1>4. DOMAIN chip.bq25622 = BqRegs /\ chip.bq25622.CTRL1 \in Ctrl1
        /\ "bq25622" \in Devices /\ "lm27965" \in Devices
    BY DEF Shapes, Devices
  <1>5. \A r \in Limits : r \in BqRegs /\ r # "CTRL1" /\ r # "WD_STAT" /\ r # "ADC_CTRL" /\ r # "CTRL3"
    BY DEF Limits, BqRegs
  <1>6. CASE x.do = "update" /\ x.reg = "CTRL1" /\ x.val \in Fields
    <2> DEFINE v == Merged(x.val, job[t].seen)
    <2>1. v \in Ctrl1
      BY <1>3, <1>6, MergedIsCtrl1
    <2>2. Value(t) = v
      BY <1>6 DEF Value
    <2> HIDE DEF v
    <2>3. new = [chip EXCEPT !.bq25622.CTRL1 = v, !.bq25622.WD_STAT = FALSE]
      BY <1>6, <2>2 DEF Written
    <2>4. \A r : x # Write(r, "set")
      BY <1>6 DEF Write
    <2> HIDE DEF x
    <2>5. "CTRL1" \in BqRegs /\ "WD_STAT" \in BqRegs
      BY DEF BqRegs
    <2>6. DOMAIN new = Devices /\ new["lm27965"] = chip["lm27965"]
          /\ new.bq25622 = [chip.bq25622 EXCEPT !.CTRL1 = v, !.WD_STAT = FALSE]
      BY <1>4, <2>3
    <2>7. /\ DOMAIN new.bq25622 = BqRegs /\ new.bq25622.CTRL1 = v
          /\ \A r \in Limits : new.bq25622[r] = chip.bq25622[r]
      BY <1>4, <1>5, <2>5, <2>6
    <2> QED BY <1>6, <2>1, <2>4, <2>6, <2>7 DEF x
  <1>7. ASSUME x.do = "write", x.reg \in Limits \cup {"ADC_CTRL", "CTRL3"},
               x.reg \in Limits => x = Write(x.reg, "set") /\ x.val = "set"
        PROVE  /\ DOMAIN new = Devices /\ new["lm27965"] = chip["lm27965"]
               /\ DOMAIN new.bq25622 = BqRegs /\ new.bq25622.CTRL1 \in Ctrl1
               /\ \A r \in Limits : new.bq25622[r] = IF x = Write(r, "set") THEN "set"
                                                     ELSE chip.bq25622[r]
               /\ new.bq25622.WD_STAT = chip.bq25622.WD_STAT
    <2> DEFINE g == x.reg
    <2>1. g \in BqRegs /\ g \notin {"CTRL1", "WD_STAT", "SW_RESET", "GP"}
          /\ "CTRL1" \in BqRegs /\ "WD_STAT" \in BqRegs
      BY <1>7 DEF Limits, BqRegs
    <2>2. Value(t) = x.val
      BY <1>7, <2>1 DEF Value
    <2>3. new = [chip EXCEPT !["bq25622"][g] = x.val]
      BY <2>1, <2>2 DEF Written
    <2>4. \A r : x = Write(r, "set") => r = g
      BY DEF Write
    <2>5. g \in Limits => x = Write(g, "set") /\ x.val = "set"
      BY <1>7
    <2> HIDE DEF x, g
    <2>6. DOMAIN new = Devices /\ new["lm27965"] = chip["lm27965"]
          /\ new.bq25622 = [chip.bq25622 EXCEPT ![g] = x.val]
      BY <1>4, <2>3
    <2>7. /\ DOMAIN new.bq25622 = BqRegs /\ new.bq25622.CTRL1 = chip.bq25622.CTRL1
          /\ new.bq25622.WD_STAT = chip.bq25622.WD_STAT
          /\ \A r \in Limits : new.bq25622[r] = IF r = g THEN x.val ELSE chip.bq25622[r]
      BY <1>4, <1>5, <2>1, <2>6
    <2>8. \A r \in Limits : new.bq25622[r] = IF x = Write(r, "set") THEN "set"
                                             ELSE chip.bq25622[r]
      BY <2>4, <2>5, <2>7
    <2> QED BY <1>4, <2>6, <2>7, <2>8
  <1>8. CASE x.do = "write" /\ x = Write(x.reg, "set") /\ x.val = "set"
             /\ x.reg \in Limits \cup {"ADC_CTRL"}
    BY <1>7, <1>8
  <1>9. CASE x.do = "write" /\ x.reg = "CTRL3"
    BY <1>5, <1>7, <1>9
  <1> QED BY <1>1, <1>2, <1>6, <1>8, <1>9, ChgStepIs

(* A write to the LED chip.                                                *)
LEMMA LedWrite ==
  ASSUME DOMAIN chip = Devices, Shapes, NEW t \in Tasks, LedTodo(job[t]), job[t].todo # <<>>,
         NEW new, new = Written("lm27965", Step(t).reg, Value(t))
  PROVE  /\ Writes(t) /\ Step(t).reg \in Banks \cup {"GP"}
         /\ DOMAIN new = Devices /\ new["bq25622"] = chip["bq25622"]
         /\ DOMAIN new.lm27965 = Banks \cup {"GP"}
         /\ new.lm27965.GP = IF Step(t).reg = "GP" THEN leds.GP ELSE chip.lm27965.GP
  <1> DEFINE x == Step(t)
             g == x.reg
  <1>1. x \in LedSteps
    BY HeadTailProperties DEF LedTodo, Step
  <1>2. x.do = "write" /\ g \in Banks \cup {"GP"}
    BY <1>1, LedStepIs
  <1>3. g # "SW_RESET"
    BY <1>2 DEF Banks
  <1>4. new = [chip EXCEPT !["lm27965"][g] = Value(t)]
    BY <1>3 DEF Written
  <1>5. g = "GP" => Value(t) = leds.GP
    BY <1>2 DEF Value
  <1>6. DOMAIN chip.lm27965 = Banks \cup {"GP"} /\ "lm27965" \in Devices /\ "bq25622" \in Devices
    BY DEF Shapes, Devices
  <1> HIDE DEF x, g
  <1>7. DOMAIN new = Devices /\ new["bq25622"] = chip["bq25622"]
        /\ new.lm27965 = [chip.lm27965 EXCEPT ![g] = Value(t)]
    BY <1>4, <1>6
  <1>8. DOMAIN new.lm27965 = Banks \cup {"GP"}
        /\ new.lm27965.GP = IF g = "GP" THEN leds.GP ELSE chip.lm27965.GP
    BY <1>2, <1>5, <1>6, <1>7
  <1>9. Writes(t)
    BY <1>2 DEF Writes, x
  <1> QED BY <1>2, <1>7, <1>8, <1>9 DEF x, g

(* A write to a sensor reaches neither.                                    *)
LEMMA SensorWrite ==
  ASSUME DOMAIN chip = Devices, NEW s \in Range(Sensors), NEW reg, NEW val,
         NEW new, new = Written(s, reg, val)
  PROVE  new["bq25622"] = chip["bq25622"] /\ new["lm27965"] = chip["lm27965"]
  <1>1. s # "bq25622" /\ s # "lm27965" /\ s \in Devices
        /\ "lm27965" \in Devices /\ "bq25622" \in Devices
    BY SensorsAre DEF Devices
  <1> QED BY <1>1 DEF Written
-----------------------------------------------------------------------------
(* The jobs as they begin.                                                 *)

(* A list of transfers that reads CTRL1 before it writes it.               *)
Plain(todo) ==
    /\ todo \in Seq(ChgSteps)
    /\ \A i \in 1 .. Len(todo) : todo[i].do = "update" => i > 1 /\ todo[i - 1] = Read("CTRL1")

(* A list that begins as hw_init does.                                     *)
LimitsFirst(todo) ==
    /\ Len(todo) >= 4 /\ \A k \in 1 .. 4 : todo[k].do # "update"
    /\ todo[2] = Write("VREG", "set") /\ todo[3] = Write("ICHG", "set")
    /\ todo[4] = Write("IINDPM", "set")

(* Both hold of a list that is made longer.                                *)
LEMMA Joined ==
  ASSUME NEW a, NEW b, Plain(a), Plain(b)
  PROVE  /\ Plain(a \o b) /\ (LimitsFirst(a) => LimitsFirst(a \o b))
         /\ NoStatus(a) /\ NoStatus(b) => NoStatus(a \o b)
  <1> DEFINE c == a \o b
             m == Len(a)
             n == Len(b)
  <1>1. a \in Seq(ChgSteps) /\ b \in Seq(ChgSteps) /\ m \in Nat /\ n \in Nat
    BY LenProperties DEF Plain
  <1>2. /\ c \in Seq(ChgSteps) /\ Len(c) = m + n
        /\ \A i \in 1 .. (m + n) : c[i] = IF i <= m THEN a[i] ELSE b[i - m]
    BY <1>1, ConcatProperties
  <1>3. /\ \A i \in 1 .. m : a[i].do = "update" => i > 1 /\ a[i - 1] = Read("CTRL1")
        /\ \A i \in 1 .. n : b[i].do = "update" => i > 1 /\ b[i - 1] = Read("CTRL1")
    BY DEF Plain
  <1> HIDE DEF c, m, n
  <1>4. ASSUME NEW i \in 1 .. Len(c), c[i].do = "update"
        PROVE  i > 1 /\ c[i - 1] = Read("CTRL1")
    <2>1. i \in 1 .. (m + n) /\ m + n \in Nat
      BY <1>1, <1>2
    <2>2. CASE i <= m
      <3>1. i \in 1 .. m /\ a[i].do = "update"
        BY <1>1, <1>2, <1>4, <2>1, <2>2
      <3>2. i > 1 /\ a[i - 1] = Read("CTRL1")
        BY <1>3, <3>1
      <3>3. i - 1 \in 1 .. (m + n) /\ i - 1 <= m
        BY <1>1, <2>1, <2>2, <3>2
      <3>4. c[i - 1] = a[i - 1]
        BY <1>2, <3>3
      <3> QED BY <3>2, <3>4
    <2>3. CASE ~(i <= m)
      <3> DEFINE j == i - m
      <3>1. j \in 1 .. n /\ b[j].do = "update"
        BY <1>1, <1>2, <1>4, <2>1, <2>3
      <3>2. j > 1 /\ b[j - 1] = Read("CTRL1")
        BY <1>3, <3>1
      <3>3. i - 1 \in 1 .. (m + n) /\ ~(i - 1 <= m) /\ (i - 1) - m = j - 1
        BY <1>1, <2>1, <2>3, <3>2
      <3>4. c[i - 1] = b[j - 1]
        BY <1>2, <3>3
      <3> QED BY <1>1, <2>1, <2>3, <3>2, <3>4
    <2> QED BY <2>2, <2>3
  <1>5. ASSUME LimitsFirst(a) PROVE LimitsFirst(c)
    <2>1. m >= 4
      BY <1>5 DEF LimitsFirst, m
    <2>2. \A i \in 1 .. 4 : c[i] = a[i]
      BY <1>1, <1>2, <2>1
    <2>3. Len(c) >= 4
      BY <1>1, <1>2, <2>1
    <2>4. c[2] = a[2] /\ c[3] = a[3] /\ c[4] = a[4]
      BY <2>2
    <2> QED BY <1>5, <2>2, <2>3, <2>4 DEF LimitsFirst
  <1>6. Plain(c)
    BY <1>2, <1>4 DEF Plain
  <1>7. ASSUME NoStatus(a), NoStatus(b) PROVE NoStatus(c)
    <2>1. \A i \in 1 .. m : a[i].reg # "STATUS"
      BY <1>7 DEF NoStatus, m
    <2>2. \A i \in 1 .. n : b[i].reg # "STATUS"
      BY <1>7 DEF NoStatus, n
    <2>3. ASSUME NEW i \in 1 .. (m + n) PROVE c[i].reg # "STATUS"
      <3>1. CASE i <= m
        BY <1>1, <1>2, <2>1, <3>1
      <3>2. CASE ~(i <= m)
        <4>1. i - m \in 1 .. n
          BY <1>1, <3>2
        <4> QED BY <1>2, <2>2, <3>2, <4>1
      <3> QED BY <3>1, <3>2
    <2> QED BY <1>2, <2>3 DEF NoStatus
  <1> QED BY <1>5, <1>6, <1>7 DEF c

(* A read before an update, as ctrl1_update does it.                       *)
LEMMA UpdatePlain ==
  ASSUME NEW f \in Fields
  PROVE  Plain(Ctrl1Update(f))
  <1> DEFINE a == Read("CTRL1")
             b == Update(f)
  <1>1. Ctrl1Update(f) = <<a, b>>
    BY DEF Ctrl1Update, Update
  <1>2. a \in ChgSteps /\ b \in ChgSteps /\ a.do = "read"
    BY DEF ChgSteps, Read
  <1> HIDE DEF a, b
  <1>3. <<a, b>> \in Seq(ChgSteps) /\ Len(<<a, b>>) = 2 /\ <<a, b>>[1] = a /\ <<a, b>>[2] = b
    BY <1>2
  <1>4. \A i \in 1 .. 2 : <<a, b>>[i].do = "update" => i > 1 /\ <<a, b>>[i - 1] = a
    BY <1>2, <1>3
  <1>5. \A i \in 1 .. Len(<<a, b>>) : <<a, b>>[i].do = "update" =>
          i > 1 /\ <<a, b>>[i - 1] = Read("CTRL1")
    BY <1>3, <1>4 DEF a
  <1> QED BY <1>1, <1>3, <1>5 DEF Plain

(* A transfer that is not an update.                                       *)
LEMMA OnePlain ==
  ASSUME NEW x \in ChgSteps, x.do # "update"
  PROVE  Plain(<<x>>)
  BY DEF Plain

(* hw_init of the charger writes every limit before CTRL1.                 *)
LEMMA HwInitPlain ==
  ASSUME NEW wd \in Win
  PROVE  Plain(HwInit(wd)) /\ LimitsFirst(HwInit(wd)) /\ NoStatus(HwInit(wd))
  <1> DEFINE f == [chg |-> TRUE, wd |-> wd]
             p == Read("PART_INFO")
             q == Write("VREG", "set")
             r == Write("ICHG", "set")
             s == Write("IINDPM", "set")
             z == Write("ADC_CTRL", "set")
             a == <<p, q, r, s>>
             b == Ctrl1Update(f)
             c == <<z>>
  <1>1. f \in Fields
    BY DEF Fields
  <1>2. /\ p \in ChgSteps /\ q \in ChgSteps /\ r \in ChgSteps /\ s \in ChgSteps /\ z \in ChgSteps
        /\ p.do # "update" /\ q.do # "update" /\ r.do # "update" /\ s.do # "update"
        /\ z.do # "update"
    BY DEF ChgSteps, Read, Write, Limits
  <1>3. HwInit(wd) = (a \o b) \o c
    BY DEF HwInit
  <1>4. Plain(b)
    BY <1>1, UpdatePlain
  <1>5. LimitsFirst(a)
    <2> HIDE DEF p, q, r, s
    <2>1. Len(a) = 4 /\ a[1] = p /\ a[2] = q /\ a[3] = r /\ a[4] = s
      OBVIOUS
    <2>2. \A k \in 1 .. 4 : a[k].do # "update"
      BY <1>2, <2>1
    <2> QED BY <2>1, <2>2 DEF LimitsFirst, q, r, s
  <1>6. Plain(a)
    <2>1. a \in Seq(ChgSteps) /\ Len(a) = 4
      BY <1>2
    <2> QED BY <1>5, <2>1 DEF Plain, LimitsFirst
  <1>7. Plain(c)
    BY <1>2, OnePlain
  <1>10. NoStatus(a) /\ NoStatus(b) /\ NoStatus(c)
    <2>1. /\ p.reg # "STATUS" /\ q.reg # "STATUS" /\ r.reg # "STATUS" /\ s.reg # "STATUS"
          /\ z.reg # "STATUS"
      BY DEF Read, Write
    <2>2. NoStatus(b)
      BY DEF NoStatus, Ctrl1Update, Read
    <2> HIDE DEF p, q, r, s, z, b
    <2>3. NoStatus(a) /\ NoStatus(c)
      BY <2>1 DEF NoStatus
    <2> QED BY <2>2, <2>3
  <1> HIDE DEF a, b, c
  <1>8. Plain(a \o b) /\ LimitsFirst(a \o b) /\ NoStatus(a \o b)
    BY <1>4, <1>5, <1>6, <1>10, Joined
  <1>9. Plain((a \o b) \o c) /\ LimitsFirst((a \o b) \o c) /\ NoStatus((a \o b) \o c)
    BY <1>7, <1>8, <1>10, Joined
  <1> QED BY <1>3, <1>9

(* poll_once after its look at the status: with an expiry it is hw_init,   *)
(* without one there is at most the kick.                                  *)
LEMMA PollRestPlain ==
  ASSUME charger.wd_window \in Win, NEW e
  PROVE  Plain(PollRest(e)) /\ (e => LimitsFirst(PollRest(e)))
  <1> DEFINE h == HwInit(charger.wd_window)
             x == <<Read("RECOVERED")>>
             y == <<Read("ADC_BLOCK")>>
             k == Ctrl1Update(<<>>)
  <1>1. Plain(x) /\ Plain(y)
    <2>1. Read("RECOVERED") \in ChgSteps /\ Read("ADC_BLOCK") \in ChgSteps
          /\ Read("RECOVERED").do # "update" /\ Read("ADC_BLOCK").do # "update"
      BY DEF ChgSteps, Read
    <2> QED BY <2>1, OnePlain
  <1>2. Plain(h) /\ LimitsFirst(h)
    BY HwInitPlain
  <1>3. Plain(k)
    BY UpdatePlain DEF Fields
  <1>4. Plain(<<>>)
    BY DEF Plain
  <1>5. PollRest(e) = IF e THEN (h \o x) \o y
                      ELSE IF charger.wd_window # "OFF" THEN k \o y ELSE <<>> \o y
    BY DEF PollRest
  <1> HIDE DEF h, x, y, k
  <1>6. Plain(h \o x) /\ LimitsFirst(h \o x)
    BY <1>1, <1>2, Joined
  <1>7. Plain((h \o x) \o y) /\ LimitsFirst((h \o x) \o y)
    BY <1>1, <1>6, Joined
  <1>8. Plain(k \o y) /\ Plain(<<>> \o y)
    BY <1>1, <1>3, <1>4, Joined
  <1>9. CASE e
    BY <1>5, <1>7, <1>9
  <1>10. CASE ~e
    BY <1>5, <1>8, <1>10
  <1> QED BY <1>9, <1>10

(* What begins as a plain list is a job of the charger.                    *)
LEMMA ControlStarts ==
  ASSUME NEW what \in {"charge", "watchdog", "hiz", "batfet"}, NEW todo, NEW arg,
         Plain(todo), todo # <<>>, what = "watchdog" => arg \in Win
  PROVE  LET j == Job(what, "bq25622", todo, arg)
         IN  ControlOK(j) /\ j.ok = TRUE /\ j.todo # <<>> /\ j.op # "idle"
  <1> DEFINE j == Job(what, "bq25622", todo, arg)
  <1>1. j.op = what /\ j.dev = "bq25622" /\ j.todo = todo /\ j.arg = arg /\ j.ok = TRUE
    BY DEF Job
  <1> HIDE DEF j
  <1>2. ChargerTodo(j)
    <2>1. j.todo \in Seq(ChgSteps)
      BY <1>1 DEF Plain
    <2>2. \A i \in 1 .. Len(j.todo) : j.todo[i].do = "update" =>
            i > 1 /\ j.todo[i - 1] = Read("CTRL1")
      BY <1>1 DEF Plain
    <2>3. Len(j.todo) \in Nat
      BY <2>1, LenProperties
    <2> QED BY <2>1, <2>2, <2>3 DEF ChargerTodo
  <1>3. ControlOK(j)
    BY <1>1, <1>2 DEF ControlOK
  <1> QED BY <1>1, <1>3 DEF j

(* The same for the LED driver.                                            *)
LEMMA LightStarts ==
  ASSUME NEW what \in {"led_init", "led", "all_off"}, NEW todo \in Seq(LedSteps), NEW arg,
         todo # <<>>, todo[Len(todo)] = Write("GP", {}),
         what = "led" => arg.of \subseteq Enables /\ arg.on \subseteq Enables
  PROVE  LET j == Job(what, "lm27965", todo, arg)
         IN  LightOK(j) /\ j.ok = TRUE /\ j.todo # <<>> /\ j.op # "idle"
  <1> DEFINE j == Job(what, "lm27965", todo, arg)
  <1>1. j.op = what /\ j.dev = "lm27965" /\ j.todo = todo /\ j.arg = arg /\ j.ok = TRUE
    BY DEF Job
  <1> HIDE DEF j
  <1>2. LightOK(j)
    BY <1>1 DEF LightOK, LedTodo
  <1> QED BY <1>1, <1>2 DEF j

(* A duty is in range once clamped.                                        *)
LEMMA ClampFits ==
  ASSUME NEW d \in Nat
  PROVE  Clamp(d) \in 0 .. DutyMax
  BY PeripheralsAssumption DEF Clamp

(* A call of a bank.                                                       *)
LEMMA BankStarts ==
  ASSUME NEW bank \in Banks, NEW d \in Nat, NEW of \in SUBSET Enables, NEW on \in SUBSET Enables
  PROVE  LET j == LedJob(bank, d, of, on)
         IN  LightOK(j) /\ j.ok = TRUE /\ j.todo # <<>> /\ j.op # "idle"
  <1> DEFINE a == Write(bank, Clamp(d))
             b == Write("GP", {})
             todo == <<a, b>>
             arg == [of |-> of, on |-> on]
  <1>1. a \in LedSteps /\ b \in LedSteps
    BY ClampFits DEF LedSteps
  <1>2. LedSet(bank, d) = todo
    BY DEF LedSet
  <1> HIDE DEF a
  <1>3. todo \in Seq(LedSteps) /\ todo # <<>> /\ Len(todo) = 2 /\ todo[2] = Write("GP", {})
    <2> HIDE DEF b
    <2>1. todo \in Seq(LedSteps) /\ todo # <<>> /\ Len(todo) = 2 /\ todo[2] = b
      BY <1>1
    <2> QED BY <2>1 DEF b
  <1>4. arg.of = of /\ arg.on = on
    OBVIOUS
  <1> HIDE DEF todo, arg
  <1>5. LET j == Job("led", "lm27965", todo, arg)
        IN  LightOK(j) /\ j.ok = TRUE /\ j.todo # <<>> /\ j.op # "idle"
    BY <1>3, <1>4, LightStarts
  <1>6. LedJob(bank, d, of, on) = Job("led", "lm27965", todo, arg)
    BY <1>2 DEF LedJob, arg
  <1> QED BY <1>5, <1>6

(* lm27965_init.                                                           *)
LEMMA LedInitStarts ==
  LET j == Job("led_init", "lm27965", LedInit(DutyMax), {})
  IN  LightOK(j) /\ j.ok = TRUE /\ j.todo # <<>> /\ j.op # "idle"
  <1> DEFINE a == Write("BANKA", Clamp(DutyMax))
             b == Write("BANKB", 0)
             c == Write("BANKC", 0)
             g == Write("GP", {})
             todo == <<a, b, c, g>>
  <1>1. a \in LedSteps /\ b \in LedSteps /\ c \in LedSteps /\ g \in LedSteps
    <2>1. Clamp(DutyMax) \in 0 .. DutyMax /\ 0 \in 0 .. DutyMax
      BY ClampFits, PeripheralsAssumption
    <2> QED BY <2>1 DEF LedSteps, Banks
  <1>2. LedInit(DutyMax) = todo
    BY DEF LedInit
  <1>3. todo \in Seq(LedSteps) /\ todo # <<>> /\ Len(todo) = 4 /\ todo[4] = Write("GP", {})
    <2> HIDE DEF a, b, c, g
    <2>1. todo \in Seq(LedSteps) /\ todo # <<>> /\ Len(todo) = 4 /\ todo[4] = g
      BY <1>1
    <2> QED BY <2>1 DEF g
  <1> HIDE DEF todo
  <1> QED BY <1>2, <1>3, LightStarts

(* Every runtime call begins with the job of its driver.                   *)
LEMMA CallsStart ==
  ASSUME NEW c \in Calls, NEW j \in CallJobs[c]
  PROVE  (ControlOK(j) \/ LightOK(j)) /\ j.ok = TRUE /\ j.todo # <<>> /\ j.op # "idle"
  <1>1. j \in UNION {SetCharge, SetWatchdog, SetHiz, SetBatfet, SetTft, SetKeypad, SetRed, AllOff}
    BY PeripheralsAssumption DEF CallJobs
  <1>2. ASSUME NEW f \in Fields, NEW what \in {"charge", "watchdog", "hiz", "batfet"}, NEW arg,
               what = "watchdog" => arg \in Win, j = Job(what, "bq25622", Ctrl1Update(f), arg)
        PROVE  ControlOK(j) /\ j.ok = TRUE /\ j.todo # <<>> /\ j.op # "idle"
    <2>1. Ctrl1Update(f) # <<>>
      BY DEF Ctrl1Update
    <2> QED BY <1>2, <2>1, UpdatePlain, ControlStarts
  <1>3. CASE j \in SetCharge
    <2>1. PICK b \in BOOLEAN : j = Job("charge", "bq25622", Ctrl1Update([chg |-> b]), {})
      BY <1>3 DEF SetCharge
    <2>2. [chg |-> b] \in Fields
      BY DEF Fields
    <2> QED BY <1>2, <2>1, <2>2
  <1>4. CASE j \in SetWatchdog
    <2>1. PICK w \in Windows : j = Job("watchdog", "bq25622", Ctrl1Update([wd |-> w]), w)
      BY <1>4 DEF SetWatchdog
    <2>2. [wd |-> w] \in Fields /\ w \in Win
      BY DEF Fields, Win
    <2> QED BY <1>2, <2>1, <2>2
  <1>5. CASE j \in SetHiz
    <2>1. PICK b \in BOOLEAN : j = Job("hiz", "bq25622", Ctrl1Update([hiz |-> b]), {})
      BY <1>5 DEF SetHiz
    <2>2. [hiz |-> b] \in Fields
      BY DEF Fields
    <2> QED BY <1>2, <2>1, <2>2
  <1>6. CASE j \in SetBatfet
    <2>1. PICK m \in {"NORMAL", "SHUTDOWN"} :
            j = Job("batfet", "bq25622", <<Read("CTRL3"), Write("CTRL3", m)>>, {})
      BY <1>6 DEF SetBatfet
    <2> DEFINE a == Read("CTRL3")
               b == Write("CTRL3", m)
    <2>2. a \in ChgSteps /\ b \in ChgSteps /\ a.do # "update" /\ b.do # "update"
      BY DEF ChgSteps, Read, Write
    <2> HIDE DEF a, b
    <2>3. Plain(<<a, b>>) /\ <<a, b>> # <<>>
      BY <2>2 DEF Plain
    <2> QED BY <2>1, <2>3, ControlStarts DEF a, b
  <1>7. CASE j \in SetTft \cup SetKeypad \cup SetRed
    <2>1. Duties \subseteq Nat
      BY PeripheralsAssumption
    <2>2. CASE j \in SetTft
      <3>1. PICK d \in Duties :
              j = LedJob("BANKA", d, {"ENA"}, IF Clamp(d) > 0 THEN {"ENA"} ELSE {})
        BY <2>2 DEF SetTft
      <3>2. "BANKA" \in Banks /\ {"ENA"} \in SUBSET Enables
            /\ (IF Clamp(d) > 0 THEN {"ENA"} ELSE {}) \in SUBSET Enables
        BY DEF Banks, Enables
      <3> QED BY <2>1, <3>1, <3>2, BankStarts
    <2>3. CASE j \in SetKeypad
      <3>1. PICK d \in Duties, on \in SUBSET {"ENB", "EN3B"} :
              j = LedJob("BANKB", d, {"ENB", "EN3B"}, on)
        BY <2>3 DEF SetKeypad
      <3>2. "BANKB" \in Banks /\ {"ENB", "EN3B"} \in SUBSET Enables /\ on \in SUBSET Enables
        BY DEF Banks, Enables
      <3> QED BY <2>1, <3>1, <3>2, BankStarts
    <2>4. CASE j \in SetRed
      <3>1. PICK d \in Duties, on \in SUBSET {"ENC"} : j = LedJob("BANKC", d, {"ENC"}, on)
        BY <2>4 DEF SetRed
      <3>2. "BANKC" \in Banks /\ {"ENC"} \in SUBSET Enables /\ on \in SUBSET Enables
        BY DEF Banks, Enables
      <3> QED BY <2>1, <3>1, <3>2, BankStarts
    <2> QED BY <1>7, <2>2, <2>3, <2>4
  <1>8. CASE j \in AllOff
    <2> DEFINE g == Write("GP", {})
    <2>1. j = Job("all_off", "lm27965", <<g>>, {})
      BY <1>8 DEF AllOff
    <2>2. g \in LedSteps
      BY DEF LedSteps
    <2> HIDE DEF g
    <2>3. <<g>> \in Seq(LedSteps) /\ <<g>> # <<>> /\ Len(<<g>>) = 1 /\ <<g>>[1] = g
      BY <2>2
    <2> QED BY <2>1, <2>3, LightStarts DEF g
  <1> QED BY <1>1, <1>3, <1>4, <1>5, <1>6, <1>7, <1>8
-----------------------------------------------------------------------------
(* What a transfer leaves of a job, besides its list.                      *)
LEMMA TransferSees ==
  ASSUME JobsOK, NEW t \in Tasks, Transfer(t)
  PROVE  /\ job'[t].arg = job[t].arg
         /\ job'[t].seen = IF Step(t).reg = "CTRL1" /\ Step(t).do = "read" THEN chip.bq25622.CTRL1
                           ELSE <<>>
  <1> DEFINE new == IF Step(t).reg = "CTRL1" /\ Step(t).do = "read" THEN chip.bq25622.CTRL1
                    ELSE <<>>
             rest == IF Step(t).reg = "STATUS" THEN PollRest(chip.bq25622.WD_STAT)
                     ELSE Tail(job[t].todo)
  <1>1. job' = [job EXCEPT ![t].seen = new, ![t].todo = rest]
    BY DEF Transfer
  <1> HIDE DEF new, rest
  <1>2. job'[t].arg = job[t].arg /\ job'[t].seen = new
    BY <1>1 DEF JobsOK
  <1> QED BY <1>2 DEF new

(* And a failed one.                                                       *)
LEMMA FaultSees ==
  ASSUME JobsOK, NEW t \in Tasks, Fault(t)
  PROVE  job'[t].arg = job[t].arg /\ job'[t].seen = job[t].seen
  <1>1. CASE job' = [job EXCEPT ![t].todo = Tail(@)]
    BY <1>1 DEF JobsOK
  <1>2. CASE job' = [job EXCEPT ![t].ok = FALSE]
    BY <1>2 DEF JobsOK
  <1> QED BY <1>1, <1>2 DEF Fault

(* A step of a call of the charger.                                        *)
LEMMA ChargerMoves ==
  ASSUME IInv, PartsInv, NEW t \in {"chg", "ui"}, mutex = t, job[t].dev = "bq25622",
         job[t].todo # <<>>, SameJob(t), job'[t].arg = job[t].arg, ChargerTodo(job'[t]),
         \/ chip' = chip
         \/ Writes(t) /\ chip' = Written(job[t].dev, Step(t).reg, Value(t)),
         leds' = leds, charger' = charger \/ charger' = [charger EXCEPT !.expired_count = @ + 1],
         UNCHANGED <<mutex, active, sensor, sens>>
  PROVE  PartsInv'
  <1>1. DOMAIN chip = Devices /\ JobsOK /\ Shapes /\ Holders /\ t \in Tasks
    BY DEF IInv, SensorInv, PartsInv, Tasks
  <1>2. ChargerTodo(job[t]) /\ (t = "ui" => ControlOK(job["ui"]))
    BY <1>1 DEF Holders, ControlOK, LightOK
  <1>3. /\ chip'["lm27965"] = chip["lm27965"]
        /\ DOMAIN chip'["bq25622"] = BqRegs /\ chip'["bq25622"].CTRL1 \in Ctrl1
    <2>1. CASE chip' = chip
      BY <1>1, <2>1 DEF Shapes
    <2>2. CASE Writes(t) /\ chip' = Written(job[t].dev, Step(t).reg, Value(t))
      <3>1. chip' = Written("bq25622", Step(t).reg, Value(t))
        BY <2>2
      <3> QED BY <1>1, <1>2, <2>2, <3>1, ChargerWrite
    <2> QED BY <2>1, <2>2
  <1>4. Shapes'
    <2>1. DOMAIN charger' = DOMAIN charger /\ charger'.wd_window = charger.wd_window
      BY <1>1 DEF Shapes
    <2> QED BY <1>1, <1>3, <2>1 DEF Shapes
  <1>5. SensorTypes'
    BY DEF PartsInv, SensorTypes
  <1>6. /\ \A u \in Tasks \ {t} : job'[u] = job[u]
        /\ job'[t].op = job[t].op /\ job'[t].dev = "bq25622"
    BY DEF SameJob
  <1>7. CASE t = "chg"
    <2>1. job'["ui"] = job["ui"] /\ mutex' = "chg"
      BY <1>6, <1>7 DEF Tasks
    <2>2. Holders'
      BY <1>1, <1>6, <1>7, <2>1 DEF Holders
    <2>3. LightsOn' /\ CacheIsChip'
      BY <1>3, <1>7, <2>1 DEF PartsInv, LightsOn, CacheIsChip
    <2> QED BY <1>4, <1>5, <2>2, <2>3 DEF PartsInv
  <1>8. CASE t = "ui"
    <2>1. job'["chg"] = job["chg"] /\ mutex' = "ui"
      BY <1>6, <1>8 DEF Tasks
    <2>2. ControlOK(job'["ui"])
      BY <1>2, <1>6, <1>8 DEF ControlOK
    <2>3. Holders'
      BY <1>1, <1>8, <2>1, <2>2 DEF Holders
    <2>4. LightsOn' /\ CacheIsChip'
      BY <1>3, <1>6, <1>8 DEF PartsInv, LightsOn, CacheIsChip
    <2> QED BY <1>4, <1>5, <2>3, <2>4 DEF PartsInv
  <1> QED BY <1>7, <1>8

(* A transfer of a call of the charger.                                    *)
LEMMA ChargerTransfer ==
  ASSUME IInv, PartsInv, NEW t \in {"chg", "ui"}, job[t].dev = "bq25622", Transfer(t)
  PROVE  PartsInv' /\ ChargerTodo(job[t])
  <1>1. JobsOK /\ t \in Tasks /\ Holders /\ Shapes
    BY DEF IInv, Tasks, PartsInv
  <1>2. mutex = t /\ job[t].todo # <<>> /\ UNCHANGED <<mutex, active, sensor, sens>>
    BY DEF Transfer
  <1>3. ChargerTodo(job[t])
    BY <1>1, <1>2 DEF Holders, ControlOK, LightOK
  <1>4. SameJob(t) /\ job'[t].todo = IF Step(t).reg = "STATUS" THEN PollRest(chip.bq25622.WD_STAT)
                                     ELSE Tail(job[t].todo)
    BY <1>1, TransferKeepsJob
  <1>5. job'[t].arg = job[t].arg
        /\ job'[t].seen = IF Step(t).reg = "CTRL1" /\ Step(t).do = "read" THEN chip.bq25622.CTRL1
                          ELSE <<>>
    BY <1>1, TransferSees
  <1>6. ChargerTodo(job'[t])
    <2>1. CASE Step(t).reg = "STATUS"
      <3>1. Plain(job'[t].todo)
        BY <1>1, <1>4, <2>1, PollRestPlain DEF Shapes
      <3>2. Len(job'[t].todo) \in Nat
        BY <3>1, LenProperties DEF Plain
      <3> QED BY <3>1, <3>2 DEF Plain, ChargerTodo
    <2>2. CASE Step(t).reg # "STATUS"
      <3>1. Head(job[t].todo) = Read("CTRL1") => job'[t].seen \in Ctrl1
        BY <1>1, <1>5 DEF Step, Read, Shapes
      <3> QED BY <1>2, <1>3, <1>4, <2>2, <3>1, ChargerTail
    <2> QED BY <2>1, <2>2
  <1>7. leds' = leds
    BY DEF Transfer, LedCache
  <1>8. charger' = charger \/ charger' = [charger EXCEPT !.expired_count = @ + 1]
    BY DEF Transfer
  <1>9. chip' = chip \/ (Writes(t) /\ chip' = Written(job[t].dev, Step(t).reg, Value(t)))
    BY DEF Transfer
  <1> QED BY <1>2, <1>3, <1>4, <1>5, <1>6, <1>7, <1>8, <1>9, ChargerMoves

(* A failed one ends the call.                                             *)
LEMMA ChargerFault ==
  ASSUME IInv, PartsInv, NEW t \in {"chg", "ui"}, job[t].dev = "bq25622", Fault(t)
  PROVE  PartsInv' /\ ChargerTodo(job[t]) /\ job'[t].ok = FALSE
  <1>1. JobsOK /\ t \in Tasks /\ Holders
    BY DEF IInv, Tasks, PartsInv
  <1>2. mutex = t /\ job[t].todo # <<>> /\ UNCHANGED <<mutex, active, sensor, sens, charger>>
    BY DEF Fault
  <1>3. ChargerTodo(job[t])
    BY <1>1, <1>2 DEF Holders, ControlOK, LightOK
  <1>4. Step(t) # Wait
    <2>1. Step(t) \in ChgSteps
      BY <1>2, <1>3, HeadTailProperties DEF ChargerTodo, Step
    <2> QED BY <2>1, ChgStepIs DEF Wait
  <1>5. SameJob(t) /\ job'[t].ok = FALSE /\ job'[t].todo = job[t].todo
    BY <1>1, <1>4, FaultKeepsJob
  <1>6. job'[t].arg = job[t].arg /\ job'[t].seen = job[t].seen
    BY <1>1, FaultSees
  <1>7. ChargerTodo(job'[t])
    BY <1>3, <1>5, <1>6 DEF ChargerTodo
  <1>8. leds' = leds
    BY DEF Fault
  <1>9. chip' = chip \/ (Writes(t) /\ chip' = Written(job[t].dev, Step(t).reg, Value(t)))
    BY DEF Fault
  <1> QED BY <1>2, <1>3, <1>5, <1>6, <1>7, <1>8, <1>9, ChargerMoves

(* What the LED driver notes between its transfers.                        *)
LEMMA LedCacheKeeps ==
  ASSUME Shapes, NEW t \in Tasks, job[t].dev = "lm27965", LedTodo(job[t]), job[t].todo # <<>>,
         NEW new, new = LedCache(t)
  PROVE  /\ DOMAIN new = Banks \cup {"GP", "online"} /\ new.GP \subseteq Enables
         /\ new.online \in BOOLEAN /\ (Step(t).reg = "GP" => new.GP = leds.GP)
  <1> DEFINE g == Step(t).reg
  <1>1. g \in Banks \cup {"GP"}
    BY HeadTailProperties, LedStepIs DEF LedTodo, Step
  <1>2. DOMAIN leds = Banks \cup {"GP", "online"} /\ leds.GP \subseteq Enables
        /\ leds.online \in BOOLEAN /\ "GP" \notin Banks /\ "online" \notin Banks
    BY DEF Shapes, Banks
  <1>3. CASE g = "GP"
    <2>1. new = [leds EXCEPT !.online = TRUE]
      BY <1>3 DEF LedCache
    <2> QED BY <1>2, <2>1
  <1>4. CASE g # "GP"
    <2> DEFINE before == [leds EXCEPT ![g] = Step(t).val]
    <2>1. /\ DOMAIN before = Banks \cup {"GP", "online"} /\ before.GP = leds.GP
          /\ before.online = leds.online
      BY <1>1, <1>2, <1>4
    <2>2. CASE job[t].op = "led" /\ Len(job[t].todo) = 2
      <3> DEFINE new2 == (before.GP \ job[t].arg.of) \cup job[t].arg.on
      <3>1. new = [before EXCEPT !.GP = new2]
        BY <1>4, <2>2 DEF LedCache
      <3>2. new2 \subseteq Enables
        BY <1>2, <2>1, <2>2 DEF LedTodo
      <3> HIDE DEF before, new2
      <3> QED BY <1>2, <1>4, <2>1, <3>1, <3>2
    <2>3. CASE ~(job[t].op = "led" /\ Len(job[t].todo) = 2)
      <3>1. \/ new = before \/ new = leds
            \/ new = [leds EXCEPT !.GP = {"ENA"}] \/ new = [leds EXCEPT !.GP = {}]
        BY <1>4, <2>3 DEF LedCache
      <3>2. {"ENA"} \subseteq Enables
        BY DEF Enables
      <3> HIDE DEF before
      <3> QED BY <1>2, <1>4, <2>1, <3>1, <3>2
    <2> QED BY <2>2, <2>3
  <1> QED BY <1>3, <1>4

(* A transfer of the LED driver, failed or not.                            *)
LEMMA LedMoves ==
  ASSUME IInv, PartsInv, job["ui"].dev = "lm27965", Transfer("ui") \/ Fault("ui")
  PROVE  PartsInv'
  <1>1. JobsOK /\ "ui" \in Tasks /\ Holders /\ Shapes /\ DOMAIN chip = Devices
    BY DEF IInv, Tasks, PartsInv, SensorInv
  <1>2. mutex = "ui" /\ job["ui"].todo # <<>> /\ UNCHANGED <<mutex, active, sensor, sens>>
    BY DEF Transfer, Fault
  <1>3. LightOK(job["ui"]) /\ LedTodo(job["ui"])
    BY <1>1, <1>2 DEF Holders, ControlOK, LightOK
  <1>4. Step("ui") \in LedSteps
    BY <1>2, <1>3, HeadTailProperties DEF LedTodo, Step
  <1>5. Step("ui").reg \in Banks \cup {"GP"} /\ Step("ui").do = "write"
    BY <1>4, LedStepIs
  <1>6. Step("ui").reg \notin {"STATUS", "ADC_CTRL"} /\ Step("ui") # Wait /\ Writes("ui")
    BY <1>5 DEF Banks, Wait, Writes
  <1>7. SameJob("ui") /\ job'["ui"].arg = job["ui"].arg
    BY <1>1, TransferKeepsJob, FaultKeepsJob, TransferSees, FaultSees
  <1>8. job'["ui"].op = job["ui"].op /\ job'["ui"].dev = "lm27965" /\ job'["chg"] = job["chg"]
    BY <1>7 DEF SameJob, Tasks
  <1> DEFINE new == Written("lm27965", Step("ui").reg, Value("ui"))
  <1>9. /\ new["bq25622"] = chip["bq25622"] /\ DOMAIN new["lm27965"] = Banks \cup {"GP"}
        /\ new["lm27965"].GP = IF Step("ui").reg = "GP" THEN leds.GP ELSE chip["lm27965"].GP
    BY <1>1, <1>2, <1>3, LedWrite
  <1>10. chip' = new \/ (Fault("ui") /\ chip' = chip)
    BY <1>6 DEF Transfer, Fault
  <1> HIDE DEF new
  <1>11. /\ chip'["bq25622"] = chip["bq25622"] /\ DOMAIN chip'["lm27965"] = Banks \cup {"GP"}
         /\ chip'["lm27965"].GP \subseteq Enables
    BY <1>1, <1>9, <1>10 DEF Shapes
  <1>12. charger' = charger
    BY <1>6 DEF Transfer, Fault
  <1>13. /\ DOMAIN leds' = Banks \cup {"GP", "online"} /\ leds'.GP \subseteq Enables
         /\ leds'.online \in BOOLEAN
         /\ Transfer("ui") /\ Step("ui").reg = "GP" => leds'.GP = leds.GP
         /\ Fault("ui") => leds'.online = FALSE
    <2>1. CASE Transfer("ui")
      <3>1. leds' = LedCache("ui")
        BY <1>6, <2>1 DEF Transfer
      <3>2. ~Fault("ui") \/ leds'.online = FALSE
        <4>1. ASSUME Fault("ui") PROVE leds'.online = FALSE
          <5>1. leds' = [leds EXCEPT !.online = FALSE]
            BY <4>1 DEF Fault
          <5> QED BY <1>1, <5>1 DEF Shapes
        <4> QED BY <4>1
      <3> QED BY <1>1, <1>2, <1>3, <2>1, <3>1, <3>2, LedCacheKeeps
    <2>2. CASE Fault("ui") /\ ~Transfer("ui")
      <3>1. leds' = [leds EXCEPT !.online = FALSE]
        BY <2>2 DEF Fault
      <3> QED BY <1>1, <2>2, <3>1 DEF Shapes, Banks
    <2> QED BY <2>1, <2>2
  <1>14. Shapes'
    BY <1>1, <1>11, <1>12, <1>13 DEF Shapes
  <1>15. SensorTypes'
    BY <1>2 DEF PartsInv, SensorTypes
  <1>16. CASE Transfer("ui")
    <2>1. job'["ui"].ok = job["ui"].ok /\ job'["ui"].todo = Tail(job["ui"].todo) /\ job["ui"].ok
      BY <1>1, <1>6, <1>16, TransferKeepsJob DEF Transfer
    <2>2. LedTodo(job'["ui"]) /\ (job'["ui"].todo = <<>> => Head(job["ui"].todo) = Write("GP", {}))
      BY <1>2, <1>3, <1>7, <1>8, <2>1, LedTail
    <2>3. LightOK(job'["ui"])
      BY <1>3, <1>8, <2>2 DEF LightOK
    <2>4. Holders'
      BY <1>1, <1>2, <1>8, <2>3 DEF Holders
    <2>5. chip' = new
      BY <1>6, <1>16 DEF Transfer, new
    <2>6. job'["ui"].todo = <<>> => leds'.GP = chip'["lm27965"].GP
      <3>1. job'["ui"].todo = <<>> => Step("ui").reg = "GP"
        BY <2>2 DEF Step, Write
      <3> QED BY <1>9, <1>13, <1>16, <2>5, <3>1
    <2>7. LightsOn'
      BY <2>1, <2>6 DEF LightsOn
    <2>8. job'["ui"] # Idle
      BY <1>3, <1>8 DEF LightOK, Idle, Job
    <2>9. CacheIsChip'
      BY <1>8, <2>8 DEF CacheIsChip
    <2> QED BY <1>14, <1>15, <2>4, <2>7, <2>9 DEF PartsInv
  <1>17. CASE Fault("ui")
    <2>1. job'["ui"].ok = FALSE /\ job'["ui"].todo = job["ui"].todo
      BY <1>1, <1>6, <1>17, FaultKeepsJob
    <2>2. LightOK(job'["ui"])
      BY <1>3, <1>7, <1>8, <2>1 DEF LightOK, LedTodo
    <2>3. Holders'
      BY <1>1, <1>2, <1>8, <2>2 DEF Holders
    <2>4. LightsOn'
      BY <1>13, <1>17, <2>1 DEF LightsOn
    <2>5. job'["ui"] # Idle
      BY <1>3, <1>8 DEF LightOK, Idle, Job
    <2>6. CacheIsChip'
      BY <1>8, <2>5 DEF CacheIsChip
    <2> QED BY <1>14, <1>15, <2>3, <2>4, <2>6 DEF PartsInv
  <1> QED BY <1>16, <1>17

(* A transfer of sensor_task reaches neither of the power chips.           *)
LEMMA SensorMoves ==
  ASSUME IInv, PartsInv, Transfer("sens") \/ Fault("sens")
  PROVE  PartsInv'
  <1>1. JobsOK /\ "sens" \in Tasks /\ Holders /\ Shapes /\ DOMAIN chip = Devices
    BY DEF IInv, Tasks, PartsInv, SensorInv
  <1>2. mutex = "sens" /\ UNCHANGED <<mutex, active, sensor, sens>>
    BY DEF Transfer, Fault
  <1>3. job["sens"].dev \in Range(Sensors)
    <2>1. job["sens"].op \in {"sens_init", "sens_poll"}
      BY <1>1, <1>2 DEF JobsOK
    <2> QED BY <2>1, SensorsAre DEF IInv, InitOK, PollOK
  <1>4. job["sens"].dev # "lm27965"
    BY <1>3, SensorsAre
  <1>5. leds' = leds
    BY <1>4 DEF Transfer, Fault, LedCache
  <1>6. chip'["bq25622"] = chip["bq25622"] /\ chip'["lm27965"] = chip["lm27965"]
    <2>1. chip' = chip \/ chip' = Written(job["sens"].dev, Step("sens").reg, Value("sens"))
      BY DEF Transfer, Fault
    <2> QED BY <1>1, <1>3, <2>1, SensorWrite
  <1>7. charger' = charger \/ charger' = [charger EXCEPT !.expired_count = @ + 1]
    BY DEF Transfer, Fault
  <1>8. DOMAIN charger' = DOMAIN charger /\ charger'.wd_window = charger.wd_window
    BY <1>1, <1>7 DEF Shapes
  <1>9. job'["chg"] = job["chg"] /\ job'["ui"] = job["ui"]
    BY <1>1, TransferKeepsJob, FaultKeepsJob DEF SameJob, Tasks
  <1>10. Shapes' /\ Holders' /\ SensorTypes'
    BY <1>1, <1>2, <1>5, <1>6, <1>8, <1>9 DEF PartsInv, Shapes, Holders, SensorTypes
  <1>11. LightsOn' /\ CacheIsChip'
    BY <1>2, <1>5, <1>6, <1>9 DEF PartsInv, LightsOn, CacheIsChip
  <1> QED BY <1>10, <1>11 DEF PartsInv

(* A count of failures stays below its threshold.                          *)
LEMMA CountedIsHealth ==
  ASSUME NEW h \in Health, NEW ok
  PROVE  Counted(h, ok) \in Health /\ [Counted(h, ok) EXCEPT !.online = FALSE] \in Health
  <1> DEFINE n == IF h.fails < FailDisconnect THEN h.fails + 1 ELSE h.fails
  <1>1. h = [online |-> h.online, fails |-> h.fails] /\ h.online \in BOOLEAN
        /\ h.fails \in 0 .. FailDisconnect /\ FailDisconnect \in Nat \ {0}
    BY PeripheralsAssumption DEF Health
  <1>2. n \in 0 .. FailDisconnect /\ 0 \in 0 .. FailDisconnect
    BY <1>1
  <1> HIDE DEF n
  <1>3. CASE ok
    <2>1. Counted(h, ok) = [h EXCEPT !.fails = 0, !.online = TRUE]
      BY <1>3 DEF Counted
    <2> QED BY <1>1, <1>2, <2>1 DEF Health
  <1>4. CASE ~ok
    <2> DEFINE b == h.online /\ n < FailDisconnect
    <2>1. Counted(h, ok) = [h EXCEPT !.fails = n, !.online = b]
      BY <1>4 DEF Counted, n
    <2>2. b \in BOOLEAN
      OBVIOUS
    <2> HIDE DEF b
    <2> QED BY <1>1, <1>2, <2>1, <2>2 DEF Health
  <1> QED BY <1>3, <1>4

(* The end of a call.                                                      *)
LEMMA ReleaseKeeps ==
  ASSUME IInv, PartsInv, NEW t \in Tasks, Release(t)
  PROVE  PartsInv'
  <1> PICK j : j = job[t]
    OBVIOUS
  <1>1. JobsOK /\ Holders /\ Shapes /\ SensorTypes /\ SensorInv
    BY DEF IInv, PartsInv
  <1>2. mutex = t /\ (j.todo = <<>> \/ ~j.ok) /\ mutex' = "none" /\ UNCHANGED <<active, chip, leds>>
    BY DEF Release
  <1>3. job' = [job EXCEPT ![t] = IF j.op = "watchdog" /\ j.ok
                                  THEN Job("assign", j.dev, <<>>, j.arg) ELSE Idle]
    BY DEF Release
  <1>4. \A u \in Tasks \ {t} : job'[u] = job[u]
    BY <1>1, <1>3 DEF JobsOK
  <1>5. job'[t] = IF j.op = "watchdog" /\ j.ok THEN Job("assign", j.dev, <<>>, j.arg) ELSE Idle
    BY <1>1, <1>3 DEF JobsOK
  <1>6. "chg" \in Tasks /\ "ui" \in Tasks /\ "none" \notin Tasks
    BY DEF Tasks
  <1>7. t = "ui" => ControlOK(j) \/ LightOK(j)
    BY <1>1, <1>2 DEF Holders
  <1>8. t = "ui" /\ j.op = "watchdog" => j.dev = "bq25622" /\ j.arg \in Win
    BY <1>7 DEF ControlOK, LightOK
  <1>9. /\ job'["chg"] = Idle
        /\ \/ job'["ui"] = Idle
           \/ job'["ui"].op = "assign" /\ job'["ui"].dev = "bq25622" /\ job'["ui"].arg \in Win
    <2>1. t = "chg" => j.op # "watchdog"
      BY <1>1, <1>2 DEF Holders
    <2>2. job'["chg"] = Idle
      BY <1>1, <1>2, <1>4, <1>5, <1>6, <2>1 DEF Holders
    <2>3. CASE t = "ui"
      BY <1>5, <1>8, <2>2, <2>3 DEF Job
    <2>4. CASE t # "ui"
      BY <1>1, <1>2, <1>4, <1>6, <2>2, <2>4 DEF Holders
    <2> QED BY <2>3, <2>4
  <1>10. Holders'
    BY <1>2, <1>9 DEF Holders
  <1>11. LightsOn'
    BY <1>2 DEF LightsOn
  <1>12. Shapes'
    <2>1. \/ charger' = charger
          \/ charger' = [charger EXCEPT !.online = TRUE, !.stage = "poll"]
          \/ charger' = [charger EXCEPT !.fails = IF @ < FailDisconnect THEN @ + 1 ELSE @]
          \/ charger' = Counted(charger, j.ok)
      BY DEF Release
    <2>2. DOMAIN charger' = DOMAIN charger /\ charger'.wd_window = charger.wd_window
      BY <1>1, <2>1 DEF Shapes, Counted
    <2> QED BY <1>1, <1>2, <2>2 DEF Shapes
  <1>13. SensorTypes'
    <2>1. sensor' \in [Range(Sensors) -> Health]
      <3>1. CASE j.op \in {"sens_init", "sens_poll"}
        <4>1. t = "sens"
          BY <1>1, <3>1 DEF JobsOK, Tasks
        <4>2. j.dev \in Range(Sensors)
          BY <3>1, <4>1, SensorsAre DEF IInv, InitOK, PollOK
        <4> DEFINE h == sensor[j.dev]
        <4>3. h \in Health
          BY <1>1, <4>2 DEF SensorTypes
        <4>4. Counted(h, j.ok) \in Health /\ [Counted(h, FALSE) EXCEPT !.online = FALSE] \in Health
          BY <4>3, CountedIsHealth
        <4>5. [h EXCEPT !.online = TRUE] \in Health
          BY <4>3 DEF Health
        <4>6. \/ sensor' = [sensor EXCEPT ![j.dev] = Counted(h, j.ok)]
              \/ sensor' = [sensor EXCEPT ![j.dev] = [Counted(h, FALSE) EXCEPT !.online = FALSE]]
              \/ sensor' = [sensor EXCEPT ![j.dev] = [h EXCEPT !.online = TRUE]]
          BY <3>1 DEF Release
        <4> HIDE DEF h
        <4> QED BY <1>1, <4>4, <4>5, <4>6 DEF SensorTypes
      <3>2. CASE j.op \notin {"sens_init", "sens_poll"}
        <4>1. sensor' = sensor
          BY <3>2 DEF Release
        <4> QED BY <1>1, <4>1 DEF SensorTypes
      <3> QED BY <3>1, <3>2
    <2>2. sens' \in [stage : 1 .. 6, tick : 0 .. (LpsPeriod - 1)]
      <3>0. sens \in [stage : 1 .. 6, tick : 0 .. (LpsPeriod - 1)] /\ LpsPeriod \in Nat \ {0}
        BY <1>1, PeripheralsAssumption DEF SensorTypes
      <3>1. CASE j.op = "sens_init"
        <4>1. t = "sens"
          BY <1>1, <3>1 DEF JobsOK, Tasks
        <4>2. sens.stage \in 1 .. 3
          BY <3>1, <4>1 DEF IInv, InitOK
        <4>3. sens' = sens \/ sens' = [sens EXCEPT !.stage = @ + 1]
          BY <3>1 DEF Release
        <4> QED BY <3>0, <4>2, <4>3
      <3>2. CASE j.op = "sens_poll"
        <4>1. t = "sens"
          BY <1>1, <3>2 DEF JobsOK, Tasks
        <4>2. sens.stage \in 4 .. 6 /\ j.dev = Sensors[sens.stage - 3]
          BY <3>2, <4>1 DEF IInv, PollOK
        <4>3. sens' = IF j.dev = "lsm6dsv16x"
                      THEN [stage |-> 4, tick |-> (sens.tick + 1) % LpsPeriod]
                      ELSE [sens EXCEPT !.stage = @ + 1]
          BY <3>2 DEF Release
        <4>4. j.dev # "lsm6dsv16x" => sens.stage + 1 \in 1 .. 6
          BY <4>2, SensorsAre
        <4>5. (sens.tick + 1) % LpsPeriod \in 0 .. (LpsPeriod - 1)
          BY <3>0
        <4>6. CASE j.dev = "lsm6dsv16x"
          BY <3>0, <4>3, <4>5, <4>6
        <4>7. CASE j.dev # "lsm6dsv16x"
          BY <3>0, <4>3, <4>4, <4>7
        <4> QED BY <4>6, <4>7
      <3>3. CASE j.op \notin {"sens_init", "sens_poll"}
        <4>1. sens' = sens
          BY <3>3 DEF Release
        <4> QED BY <3>0, <4>1
      <3> QED BY <3>1, <3>2, <3>3
    <2> QED BY <1>1, <1>2, <2>1, <2>2 DEF SensorTypes
  <1>14. CacheIsChip'
    <2>1. CASE t # "ui"
      <3>1. job'["ui"] = job["ui"]
        BY <1>4, <1>6, <2>1
      <3> QED BY <1>2, <3>1 DEF PartsInv, CacheIsChip
    <2>2. CASE t = "ui" /\ LightOK(j)
      <3>1. j.dev = "lm27965"
        BY <2>2 DEF LightOK
      <3>2. leds.online => leds.GP = chip.lm27965.GP
        BY <1>2, <2>2, <3>1 DEF PartsInv, LightsOn
      <3> QED BY <1>2, <3>2 DEF CacheIsChip
    <2>3. CASE t = "ui" /\ ControlOK(j)
      <3>1. job["ui"].dev # "lm27965"
        BY <2>3 DEF ControlOK
      <3>2. leds.online => leds.GP = chip.lm27965.GP
        BY <3>1 DEF PartsInv, CacheIsChip
      <3> QED BY <1>2, <3>2 DEF CacheIsChip
    <2> QED BY <1>7, <2>1, <2>2, <2>3
  <1> QED BY <1>10, <1>11, <1>12, <1>13, <1>14 DEF PartsInv

(* The window is stored.                                                   *)
LEMMA AssignKeeps ==
  ASSUME IInv, PartsInv, NEW t \in Tasks, Assign(t)
  PROVE  PartsInv' /\ t = "ui" /\ mutex # "ui"
  <1>1. JobsOK /\ Holders /\ Shapes /\ SensorTypes
    BY DEF IInv, PartsInv
  <1>2. job[t].op = "assign" /\ UNCHANGED <<mutex, active, chip, leds, sensor, sens>>
        /\ charger' = [charger EXCEPT !.wd_window = job[t].arg] /\ job' = [job EXCEPT ![t] = Idle]
    BY DEF Assign
  <1>3. t # "sens"
    BY <1>1, <1>2 DEF JobsOK
  <1>4. Idle.op # "assign"
    BY DEF Idle, Job
  <1>5. t # "chg"
    BY <1>1, <1>2, <1>4 DEF Holders
  <1>6. t = "ui"
    BY <1>3, <1>5 DEF Tasks
  <1>7. mutex # "ui" /\ job["ui"].dev = "bq25622" /\ job["ui"].arg \in Win
    BY <1>1, <1>2, <1>4, <1>6 DEF Holders, ControlOK, LightOK
  <1>8. job'["chg"] = job["chg"] /\ job'["ui"] = Idle
    BY <1>1, <1>2, <1>6 DEF JobsOK, Tasks
  <1>9. Holders' /\ LightsOn'
    BY <1>1, <1>2, <1>7, <1>8 DEF Holders, LightsOn
  <1>10. Shapes' /\ SensorTypes'
    BY <1>1, <1>2, <1>6, <1>7 DEF Shapes, SensorTypes
  <1>11. CacheIsChip'
    BY <1>2, <1>7, <1>8 DEF PartsInv, CacheIsChip
  <1> QED BY <1>6, <1>7, <1>9, <1>10, <1>11 DEF PartsInv

(* A call begins.                                                          *)
LEMMA AcquireKeeps ==
  ASSUME IInv, PartsInv, ChargerTask \/ SensorTask \/ Call
  PROVE  PartsInv'
  <1>1. JobsOK /\ Holders /\ Shapes /\ SensorTypes /\ SensorInv
    BY DEF IInv, PartsInv
  <1>2. \A d : Pair(d) \in {"POWER", "SENSOR"}
    BY DEF Pair
  <1>3. CASE ChargerTask
    <2> PICK j : j = IF charger.stage = "init"
                     THEN Job("chg_init", "bq25622", HwInit(charger.wd_window), {})
                     ELSE Job("chg_poll", "bq25622", <<Read("STATUS")>>, {})
      OBVIOUS
    <2>1. Acquire("chg", j) /\ UNCHANGED <<chip, charger, leds, sensor, sens>>
      BY <1>3 DEF ChargerTask
    <2>2. j.dev = "bq25622" /\ j.op \in {"chg_init", "chg_poll"} /\ Plain(j.todo)
      <3>1. CASE charger.stage = "init"
        <4>1. j = Job("chg_init", "bq25622", HwInit(charger.wd_window), {})
          BY <3>1
        <4> QED BY <1>1, <4>1, HwInitPlain DEF Job, Shapes
      <3>2. CASE charger.stage # "init"
        <4>1. j = Job("chg_poll", "bq25622", <<Read("STATUS")>>, {})
          BY <3>2
        <4>2. Read("STATUS") \in ChgSteps /\ Read("STATUS").do # "update"
          BY DEF ChgSteps, Read
        <4>3. Plain(<<Read("STATUS")>>)
          BY <4>2, OnePlain
        <4> QED BY <4>1, <4>3 DEF Job
      <3> QED BY <3>1, <3>2
    <2>3. ChargerTodo(j)
      <3>1. Len(j.todo) \in Nat
        BY <2>2, LenProperties DEF Plain
      <3> QED BY <2>2, <3>1 DEF Plain, ChargerTodo
    <2>4. mutex = "none" /\ mutex' = "chg" /\ active' = Pair(j.dev) /\ job' = [job EXCEPT !["chg"] = j]
      BY <2>1 DEF Acquire
    <2>5. job'["chg"] = j /\ job'["ui"] = job["ui"]
      BY <1>1, <2>4 DEF JobsOK, Tasks
    <2>6. Holders' /\ LightsOn'
      BY <1>1, <2>2, <2>3, <2>4, <2>5 DEF Holders, LightsOn, Tasks
    <2>7. Shapes' /\ SensorTypes'
      BY <1>1, <1>2, <2>1, <2>4 DEF Shapes, SensorTypes
    <2>8. CacheIsChip'
      BY <2>1, <2>5 DEF PartsInv, CacheIsChip
    <2> QED BY <2>6, <2>7, <2>8 DEF PartsInv
  <1>4. CASE SensorTask
    <2>1. PICK j : Acquire("sens", j)
      BY <1>4 DEF SensorTask
    <2>2. UNCHANGED <<chip, charger, leds, sensor>>
      BY <1>4 DEF SensorTask
    <2>3. sens' \in [stage : 1 .. 6, tick : 0 .. (LpsPeriod - 1)]
      <3>1. \/ sens' = sens
            \/ \E stage \in {5, sens.stage} : sens' = [sens EXCEPT !.stage = stage]
        BY <1>4 DEF SensorTask
      <3> QED BY <1>1, <3>1 DEF SensorTypes
    <2>4. mutex' = "sens" /\ active' = Pair(j.dev) /\ job' = [job EXCEPT !["sens"] = j]
          /\ mutex = "none"
      BY <2>1 DEF Acquire
    <2>5. job'["chg"] = job["chg"] /\ job'["ui"] = job["ui"]
      BY <1>1, <2>4 DEF JobsOK, Tasks
    <2>6. Holders' /\ LightsOn'
      BY <1>1, <2>4, <2>5 DEF Holders, LightsOn, Tasks
    <2>7. Shapes' /\ SensorTypes'
      BY <1>1, <1>2, <2>2, <2>3, <2>4 DEF Shapes, SensorTypes
    <2>8. CacheIsChip'
      BY <2>2, <2>5 DEF PartsInv, CacheIsChip
    <2> QED BY <2>6, <2>7, <2>8 DEF PartsInv
  <1>5. CASE Call
    <2>1. PICK j : /\ Acquire("ui", j)
                   /\ ControlOK(j) \/ LightOK(j)
                   /\ j.ok = TRUE /\ j.todo # <<>> /\ j.op # "idle"
                   /\ leds' = leds \/ (leds' = [leds EXCEPT !.GP = {}] /\ LightOK(j))
      <3>1. CASE /\ Acquire("ui", Job("led_init", "lm27965", LedInit(DutyMax), {}))
                 /\ UNCHANGED leds
        BY <3>1, LedInitStarts
      <3>2. ASSUME NEW c \in Calls, NEW j \in CallJobs[c], Acquire("ui", j),
                   leds' = IF c = "all_off" THEN [leds EXCEPT !.GP = {}] ELSE leds
            PROVE  /\ ControlOK(j) \/ LightOK(j)
                   /\ j.ok = TRUE /\ j.todo # <<>> /\ j.op # "idle"
                   /\ leds' = leds \/ (leds' = [leds EXCEPT !.GP = {}] /\ LightOK(j))
        <4>1. (ControlOK(j) \/ LightOK(j)) /\ j.ok = TRUE /\ j.todo # <<>> /\ j.op # "idle"
          BY <3>2, CallsStart
        <4>2. c = "all_off" => j.op = "all_off"
          BY <3>2 DEF CallJobs, AllOff, Job
        <4>3. c = "all_off" => LightOK(j)
          BY <4>1, <4>2 DEF ControlOK
        <4> QED BY <3>2, <4>1, <4>3
      <3> QED BY <1>5, <3>1, <3>2 DEF Call
    <2>2. mutex' = "ui" /\ active' = Pair(j.dev) /\ job' = [job EXCEPT !["ui"] = j] /\ mutex = "none"
          /\ job["ui"] = Idle
      BY <2>1 DEF Acquire
    <2>3. UNCHANGED <<chip, charger, sensor, sens>>
      BY <1>5 DEF Call
    <2>4. job'["chg"] = job["chg"] /\ job'["ui"] = j
      BY <1>1, <2>2 DEF JobsOK, Tasks
    <2>5. Holders' /\ LightsOn'
      BY <1>1, <2>1, <2>2, <2>4 DEF Holders, LightsOn, Tasks
    <2>6. Shapes' /\ SensorTypes'
      <3>1. DOMAIN leds' = DOMAIN leds /\ leds'.GP \subseteq Enables /\ leds'.online \in BOOLEAN
        BY <1>1, <2>1 DEF Shapes
      <3> QED BY <1>1, <1>2, <2>2, <2>3, <3>1 DEF Shapes, SensorTypes
    <2>7. j # Idle
      BY <2>1 DEF Idle, Job
    <2>8. CacheIsChip'
      <3>1. CASE LightOK(j)
        BY <2>4, <2>7, <3>1 DEF LightOK, CacheIsChip
      <3>2. CASE ~LightOK(j)
        <4>1. leds' = leds
          BY <2>1, <3>2
        <4> QED BY <2>2, <2>3, <4>1 DEF PartsInv, CacheIsChip
      <3> QED BY <3>1, <3>2
    <2> QED BY <2>5, <2>6, <2>8 DEF PartsInv
  <1> QED BY <1>3, <1>4, <1>5

(* A chip changes by itself.                                               *)
LEMMA ChipsKeep ==
  ASSUME IInv, PartsInv, Expire \/ BrownOut
  PROVE  PartsInv'
  <1>1. Holders /\ Shapes /\ SensorTypes /\ DOMAIN chip = Devices
    BY DEF IInv, PartsInv, SensorInv
  <1>2. UNCHANGED <<mutex, active, job, charger, leds, sensor, sens>>
    BY DEF Expire, BrownOut
  <1>3. /\ chip'["lm27965"] = chip["lm27965"]
        /\ DOMAIN chip'["bq25622"] = BqRegs /\ chip'["bq25622"].CTRL1 \in Ctrl1
    <2>1. CASE Expire
      <3>1. PICK w \in {chip.bq25622.CTRL1.wd, "50S"} :
              chip' = [chip EXCEPT !.bq25622.WD_STAT = TRUE, !.bq25622.ICHG = "half",
                                   !.bq25622.CTRL1 = [chg |-> TRUE, hiz |-> FALSE, wd |-> w]]
        BY <2>1 DEF Expire
      <3>2. w \in Win
        BY <1>1 DEF Shapes, Ctrl1, Win
      <3> DEFINE v == [chg |-> TRUE, hiz |-> FALSE, wd |-> w]
      <3>3. v \in Ctrl1
        BY <3>2 DEF Ctrl1
      <3>4. chip' = [chip EXCEPT !.bq25622.WD_STAT = TRUE, !.bq25622.ICHG = "half",
                                 !.bq25622.CTRL1 = v]
        BY <3>1
      <3> HIDE DEF v
      <3>5. "bq25622" \in Devices /\ "lm27965" \in Devices /\ "CTRL1" \in BqRegs
        BY DEF Devices, BqRegs
      <3>6. chip'["lm27965"] = chip["lm27965"] /\ chip'["bq25622"]
              = [chip["bq25622"] EXCEPT !.WD_STAT = TRUE, !.ICHG = "half", !.CTRL1 = v]
        BY <1>1, <3>4, <3>5
      <3>7. DOMAIN chip["bq25622"] = BqRegs
        BY <1>1 DEF Shapes
      <3> QED BY <3>3, <3>5, <3>6, <3>7
    <2>2. CASE BrownOut
      <3>1. PICK s \in Range(Sensors) : chip' = [chip EXCEPT ![s] = PowerOn(s)]
        BY <2>2 DEF BrownOut
      <3>2. s # "bq25622" /\ s # "lm27965" /\ "bq25622" \in Devices /\ "lm27965" \in Devices
        BY SensorsAre DEF Devices
      <3> QED BY <1>1, <3>1, <3>2 DEF Shapes
    <2> QED BY <2>1, <2>2
  <1>4. Holders' /\ Shapes' /\ SensorTypes'
    BY <1>1, <1>2, <1>3 DEF Holders, Shapes, SensorTypes
  <1>5. LightsOn' /\ CacheIsChip'
    BY <1>2, <1>3 DEF PartsInv, LightsOn, CacheIsChip
  <1> QED BY <1>4, <1>5 DEF PartsInv

(* At power-on.                                                            *)
LEMMA PartsInit == Init => PartsInv
  <1> SUFFICES ASSUME Init PROVE PartsInv
    OBVIOUS
  <1>1. Holders /\ LightsOn
    BY DEF Init, Holders, LightsOn, Tasks
  <1>2. /\ DOMAIN chip.bq25622 = BqRegs /\ DOMAIN chip.lm27965 = Banks \cup {"GP"}
        /\ chip.lm27965.GP = {}
    BY DEF Init, ChipInit, BqRegs, Banks
  <1>3. chip.bq25622.CTRL1 \in Ctrl1
    <2>1. chip.bq25622.CTRL1 = [chg |-> TRUE, hiz |-> FALSE, wd |-> "50S"]
      BY DEF Init, ChipInit
    <2> QED BY <2>1 DEF Ctrl1, Win
  <1>4. Shapes
    BY <1>2, <1>3 DEF Init, Shapes, Win, Banks
  <1>5. SensorTypes
    <2>1. [online |-> FALSE, fails |-> 0] \in Health
      BY PeripheralsAssumption DEF Health
    <2> QED BY <2>1, PeripheralsAssumption DEF Init, SensorTypes
  <1>6. CacheIsChip
    BY <1>2 DEF Init, CacheIsChip
  <1> QED BY <1>1, <1>4, <1>5, <1>6 DEF PartsInv

(* The invariant of the power chips holds, whatever the other tasks do.    *)
LEMMA PartsInvariant == Spec => []PartsInv
  <1>1. IInv /\ PartsInv /\ [Next]_vars => PartsInv'
    <2> SUFFICES ASSUME IInv, PartsInv, [Next]_vars PROVE PartsInv'
      OBVIOUS
    <2>1. CASE ChargerTask \/ SensorTask \/ Call
      BY <2>1, AcquireKeeps
    <2>2. ASSUME NEW t \in Tasks, Transfer(t) \/ Fault(t) PROVE PartsInv'
      <3>1. CASE t = "sens"
        BY <2>2, <3>1, SensorMoves
      <3>2. CASE t \in {"chg", "ui"} /\ job[t].dev = "bq25622"
        BY <2>2, <3>2, ChargerTransfer, ChargerFault
      <3>3. CASE t \in {"chg", "ui"} /\ job[t].dev # "bq25622"
        <4>1. mutex = t
          BY <2>2 DEF Transfer, Fault
        <4>2. t = "ui" /\ job["ui"].dev = "lm27965"
          BY <3>3, <4>1 DEF PartsInv, Holders, ControlOK, LightOK
        <4> QED BY <2>2, <4>2, LedMoves
      <3> QED BY <3>1, <3>2, <3>3 DEF Tasks
    <2>3. ASSUME NEW t \in Tasks, Release(t) \/ Assign(t) PROVE PartsInv'
      BY <2>3, ReleaseKeeps, AssignKeeps
    <2>4. CASE Expire \/ BrownOut
      BY <2>4, ChipsKeep
    <2>5. CASE UNCHANGED vars
      BY <2>5 DEF vars, PartsInv, Holders, LightsOn, Shapes, SensorTypes, CacheIsChip
    <2> QED BY <2>1, <2>2, <2>3, <2>4, <2>5 DEF Next, Work
  <1> QED BY <1>1, PartsInit, SensorsInvariant, PTL DEF Spec

(* i2c_bus.c, lm27965.c, bq25622.c: whatever transfers fail and whichever  *)
(* tasks call, every transfer runs on the wires of its chip, and when no   *)
(* LED call is running and the last one succeeded, the enables that        *)
(* lm27965_get_state shows are those in the chip.                          *)
THEOREM CacheIsTheChip == Spec => []PeripheralsInv
  <1>1. PartsInv /\ RightWires => PeripheralsInv
    BY DEF PartsInv, Holders, Shapes, SensorTypes, Ctrl1, Win, PeripheralsInv, TypeOK
  <1> QED BY <1>1, PartsInvariant, TransfersUseTheirWires, PTL

-----------------------------------------------------------------------------
(* The limits of the charger.                                              *)

(* A list that begins as hw_init does writes every limit before CTRL1, and *)
(* by its end.                                                             *)
LEMMA LimitsArePending ==
  ASSUME NEW bq, NEW todo, LimitsFirst(todo), Plain(todo)
  PROVE  /\ \A k \in 1 .. Len(todo) : todo[k].do = "update" => Pending(bq, todo, k)
         /\ Pending(bq, todo, Len(todo) + 1)
  <1>1. Len(todo) \in Nat /\ Len(todo) >= 4
    BY LenProperties DEF Plain, LimitsFirst
  <1>2. ASSUME NEW k \in Nat, k > 4 PROVE Pending(bq, todo, k)
    <2>1. 2 \in 1 .. (k - 1) /\ 3 \in 1 .. (k - 1) /\ 4 \in 1 .. (k - 1)
      BY <1>2
    <2>2. todo[2] = Write("VREG", "set") /\ todo[3] = Write("ICHG", "set")
          /\ todo[4] = Write("IINDPM", "set")
      BY DEF LimitsFirst
    <2> QED BY <2>1, <2>2 DEF Pending, Limits
  <1>3. \A k \in 1 .. Len(todo) : todo[k].do = "update" => k > 4
    BY <1>1 DEF LimitsFirst
  <1> QED BY <1>1, <1>2, <1>3

(* One transfer on, what is not yet set is still to be written.            *)
LEMMA PendingOn ==
  ASSUME NEW bq, NEW new, NEW todo \in Seq(ChgSteps), todo # <<>>, NEW k \in Nat, k >= 2,
         k <= Len(todo) + 1, Pending(bq, todo, k),
         \A r \in Limits : bq[r] = "set" \/ Head(todo) = Write(r, "set") => new[r] = "set"
  PROVE  Pending(new, Tail(todo), k - 1)
  <1> DEFINE u == Tail(todo)
  <1>1. /\ Len(u) = Len(todo) - 1 /\ Len(todo) \in Nat /\ Head(todo) = todo[1]
        /\ \A i \in 1 .. Len(u) : u[i] = todo[i + 1]
    BY HeadTailProperties
  <1> HIDE DEF u
  <1>2. ASSUME NEW r \in Limits, new[r] # "set"
        PROVE  \E i \in 1 .. ((k - 1) - 1) : u[i] = Write(r, "set")
    <2>1. bq[r] # "set" /\ Head(todo) # Write(r, "set")
      BY <1>2
    <2>2. PICK i \in 1 .. (k - 1) : todo[i] = Write(r, "set")
      BY <2>1 DEF Pending
    <2>3. i # 1
      BY <1>1, <2>1, <2>2
    <2> DEFINE n == i - 1
    <2>4. n \in 1 .. ((k - 1) - 1) /\ n \in 1 .. Len(u) /\ n + 1 = i
      BY <1>1, <2>2, <2>3
    <2>5. u[n] = todo[n + 1]
      BY <1>1, <2>4
    <2>6. u[n] = Write(r, "set")
      BY <2>2, <2>4, <2>5
    <2> QED BY <2>4, <2>6
  <1>3. Pending(new, u, k - 1)
    BY <1>2 DEF Pending
  <1> QED BY <1>3 DEF u

(* So the rest of a job writes what the job did.                           *)
LEMMA LimitsStillToCome ==
  ASSUME NEW bq, NEW new, NEW j, NEW k, LimitsToCome(bq, j), j.todo \in Seq(ChgSteps),
         j.todo # <<>>, k.todo = Tail(j.todo), k.op = j.op,
         \A r \in Limits : bq[r] = "set" \/ Head(j.todo) = Write(r, "set") => new[r] = "set"
  PROVE  LimitsToCome(new, k)
  <1> DEFINE todo == j.todo
             u == Tail(todo)
  <1>1. /\ Len(u) = Len(todo) - 1 /\ Len(todo) \in Nat /\ Len(todo) >= 1
        /\ \A i \in 1 .. Len(u) : u[i] = todo[i + 1]
    BY HeadTailProperties, EmptySeq
  <1>2. ASSUME NEW n \in Nat, n >= 2, n <= Len(todo) + 1, Pending(bq, todo, n)
        PROVE  Pending(new, u, n - 1)
    BY <1>2, PendingOn
  <1>3. k.todo = u
    OBVIOUS
  <1> HIDE DEF todo, u
  <1>4. ASSUME NEW i \in 1 .. Len(u), u[i].do = "update" PROVE Pending(new, u, i)
    <2> DEFINE n == i + 1
    <2>1. n \in 1 .. Len(todo) /\ n \in Nat /\ n >= 2 /\ n <= Len(todo) + 1 /\ n - 1 = i
      BY <1>1, <1>4
    <2>2. todo[n].do = "update"
      BY <1>1, <1>4
    <2> HIDE DEF n
    <2>3. Pending(bq, todo, n)
      BY <2>1, <2>2 DEF LimitsToCome, todo
    <2>4. Pending(new, u, n - 1)
      BY <1>2, <2>1, <2>3
    <2> QED BY <2>1, <2>4
  <1>5. ASSUME j.op = "chg_init" PROVE Pending(new, u, Len(u) + 1) /\ NoStatus(u)
    <2> DEFINE n == Len(todo) + 1
    <2>1. n \in Nat /\ n >= 2 /\ n <= Len(todo) + 1 /\ n - 1 = Len(u) + 1
      BY <1>1
    <2>2. Pending(bq, todo, n) /\ NoStatus(todo)
      BY <1>5 DEF LimitsToCome, todo
    <2> HIDE DEF n
    <2>3. Pending(new, u, n - 1)
      BY <1>2, <2>1, <2>2
    <2>4. ASSUME NEW i \in 1 .. Len(u) PROVE u[i].reg # "STATUS"
      <3> DEFINE m == i + 1
      <3>1. m \in 1 .. Len(todo) /\ u[i] = todo[m]
        BY <1>1, <2>4
      <3> HIDE DEF m
      <3> QED BY <2>2, <3>1 DEF NoStatus
    <2> QED BY <2>1, <2>3, <2>4 DEF NoStatus
  <1> QED BY <1>3, <1>4, <1>5 DEF LimitsToCome

(* A step that touches neither the charger nor its task.                   *)
LEMMA SettingsStay ==
  ASSUME SettingsInv, chip'["bq25622"] = chip["bq25622"], charger'.stage = charger.stage,
         mutex' = "chg" => mutex = "chg", job'["chg"] = job["chg"], upsets \subseteq upsets',
         "control" \notin upsets' /\ mutex' = "ui" => job'["ui"].dev = "lm27965"
  PROVE  SettingsInv'
  <1>1. LimitsSet' <=> LimitsSet
    BY DEF LimitsSet
  <1> QED BY <1>1 DEF SettingsInv

(* Once a runtime call has kicked the watchdog, nothing is promised.       *)
LEMMA SettingsWaived ==
  ASSUME SettingsInv, charger'.stage = charger.stage, "control" \in upsets',
         job'["chg"].op = job["chg"].op
  PROVE  SettingsInv'
  BY DEF SettingsInv

(* A transfer of charger_task, failed or not: CTRL1 is written only when   *)
(* the limits are in the chip.                                             *)
LEMMA ChargerKeepsLimits ==
  ASSUME IInv, PartsInv, SettingsInv, "control" \notin upsets,
         Transfer("chg") \/ Fault("chg")
  PROVE  /\ \A r \in Limits : chip["bq25622"][r] = "set" => chip'["bq25622"][r] = "set"
         /\ Transfer("chg") => \A r \in Limits : Step("chg") = Write(r, "set")
                                                   => chip'["bq25622"][r] = "set"
         /\ charger.stage = "poll" => LimitsSet' \/ chip'["bq25622"].WD_STAT
  <1>1. DOMAIN chip = Devices /\ Shapes /\ Holders /\ "chg" \in Tasks
    BY DEF IInv, SensorInv, PartsInv, Tasks
  <1>2. mutex = "chg" /\ job["chg"].ok /\ job["chg"].todo # <<>>
    BY DEF Transfer, Fault
  <1>3. ChargerTodo(job["chg"]) /\ job["chg"].dev = "bq25622"
    BY <1>1, <1>2 DEF Holders
  <1> DEFINE new == Written("bq25622", Step("chg").reg, Value("chg"))
             todo == job["chg"].todo
  <1>4. Writes("chg") =>
          /\ \A r \in Limits : new["bq25622"][r] = IF Step("chg") = Write(r, "set") THEN "set"
                                                   ELSE chip["bq25622"][r]
          /\ Step("chg").do # "update" => new["bq25622"].WD_STAT = chip["bq25622"].WD_STAT
    BY <1>1, <1>2, <1>3, ChargerWrite
  <1>5. /\ chip' = chip \/ (Writes("chg") /\ chip' = new)
        /\ Transfer("chg") /\ Writes("chg") => chip' = new
    BY <1>3 DEF Transfer, Fault
  <1>6. \A r : Step("chg") = Write(r, "set") => Writes("chg")
    BY DEF Writes, Write
  <1> HIDE DEF new
  <1>7. \A r \in Limits : chip["bq25622"][r] = "set" => chip'["bq25622"][r] = "set"
    BY <1>4, <1>5
  <1>8. Transfer("chg") => \A r \in Limits : Step("chg") = Write(r, "set")
                                               => chip'["bq25622"][r] = "set"
    BY <1>4, <1>5, <1>6
  <1>9. LimitsSet => LimitsSet'
    BY <1>7 DEF LimitsSet
  <1>10. ASSUME Step("chg").do = "update" PROVE LimitsSet
    <2>1. LimitsToCome(chip.bq25622, job["chg"])
      BY <1>2 DEF SettingsInv
    <2>2. 1 \in 1 .. Len(todo) /\ Step("chg") = todo[1]
      BY <1>2, <1>3, HeadTailProperties, EmptySeq DEF ChargerTodo, Step
    <2>3. Pending(chip.bq25622, todo, 1)
      BY <1>10, <2>1, <2>2 DEF LimitsToCome
    <2>4. \A r \in Limits : chip.bq25622[r] = "set"
      BY <2>3 DEF Pending
    <2> QED BY <2>4 DEF LimitsSet
  <1>11. charger.stage = "poll" => LimitsSet' \/ chip'["bq25622"].WD_STAT
    <2>1. charger.stage = "poll" => LimitsSet \/ chip["bq25622"].WD_STAT
      BY DEF SettingsInv
    <2>2. CASE Step("chg").do = "update"
      BY <1>9, <1>10, <2>2
    <2>3. CASE Step("chg").do # "update"
      BY <1>4, <1>5, <1>9, <2>1, <2>3
    <2> QED BY <2>2, <2>3
  <1> QED BY <1>7, <1>8, <1>11

(* A transfer of charger_task.                                             *)
LEMMA SettingsTransfer ==
  ASSUME IInv, PartsInv, SettingsInv, Transfer("chg")
  PROVE  SettingsInv'
  <1>1. JobsOK /\ Shapes /\ Holders /\ "chg" \in Tasks
    BY DEF IInv, PartsInv, Tasks
  <1>2. mutex = "chg" /\ job["chg"].ok /\ job["chg"].todo # <<>> /\ UNCHANGED <<mutex, upsets>>
    BY DEF Transfer
  <1>3. charger'.stage = charger.stage
    <2>1. charger' = charger \/ charger' = [charger EXCEPT !.expired_count = @ + 1]
      BY DEF Transfer
    <2> QED BY <1>1, <2>1 DEF Shapes
  <1>4. /\ job'["chg"].op = job["chg"].op /\ job'["chg"].ok = job["chg"].ok
        /\ job'["chg"].todo = IF Step("chg").reg = "STATUS" THEN PollRest(chip.bq25622.WD_STAT)
                              ELSE Tail(job["chg"].todo)
    BY <1>1, TransferKeepsJob DEF SameJob
  <1>5. CASE "control" \in upsets
    BY <1>2, <1>3, <1>4, <1>5, SettingsWaived
  <1>6. CASE "control" \notin upsets
    <2>1. /\ \A r \in Limits : chip["bq25622"][r] = "set" => chip'["bq25622"][r] = "set"
          /\ \A r \in Limits : Step("chg") = Write(r, "set") => chip'["bq25622"][r] = "set"
          /\ charger.stage = "poll" => LimitsSet' \/ chip'["bq25622"].WD_STAT
      BY <1>6, ChargerKeepsLimits
    <2>2. LimitsToCome(chip["bq25622"], job["chg"]) /\ job["chg"].todo \in Seq(ChgSteps)
          /\ job["chg"].op \in {"chg_init", "chg_poll"}
      BY <1>1, <1>2, <1>6 DEF SettingsInv, Holders, ChargerTodo
    <2>3. LimitsToCome(chip'["bq25622"], job'["chg"])
      <3>1. CASE Step("chg").reg # "STATUS"
        <4>1. \A r \in Limits : chip["bq25622"][r] = "set" \/ Head(job["chg"].todo) = Write(r, "set")
                                  => chip'["bq25622"][r] = "set"
          BY <2>1 DEF Step
        <4> QED BY <1>2, <1>4, <2>2, <3>1, <4>1, LimitsStillToCome
      <3>2. CASE Step("chg").reg = "STATUS"
        <4>1. job["chg"].op = "chg_poll"
          <5>1. 1 \in 1 .. Len(job["chg"].todo) /\ Step("chg") = job["chg"].todo[1]
            BY <1>2, <2>2, HeadTailProperties, EmptySeq DEF Step
          <5> QED BY <2>2, <3>2, <5>1 DEF LimitsToCome, NoStatus
        <4>2. charger.stage = "poll"
          BY <4>1 DEF SettingsInv
        <4> DEFINE todo == PollRest(chip.bq25622.WD_STAT)
        <4>3. Plain(todo) /\ (chip.bq25622.WD_STAT => LimitsFirst(todo))
          BY <1>1, PollRestPlain DEF Shapes
        <4>4. job'["chg"].todo = todo
          BY <1>4, <3>2
        <4> HIDE DEF todo
        <4>5. \A k \in 1 .. Len(todo) : todo[k].do = "update" => Pending(chip'["bq25622"], todo, k)
          <5>1. CASE chip.bq25622.WD_STAT
            BY <4>3, <5>1, LimitsArePending
          <5>2. CASE ~chip.bq25622.WD_STAT
            <6>1. LimitsSet
              BY <1>6, <4>2, <5>2 DEF SettingsInv
            <6>2. \A r \in Limits : chip'["bq25622"][r] = "set"
              BY <2>1, <6>1 DEF LimitsSet
            <6> QED BY <6>2 DEF Pending
          <5> QED BY <5>1, <5>2
        <4> QED BY <1>4, <4>1, <4>4, <4>5 DEF LimitsToCome
      <3> QED BY <3>1, <3>2
    <2>4. charger'.stage \in {"init", "poll"} /\ (job'["chg"].op = "chg_poll" => charger'.stage = "poll")
      BY <1>3, <1>4 DEF SettingsInv
    <2> QED BY <1>2, <1>3, <2>1, <2>3, <2>4 DEF SettingsInv
  <1> QED BY <1>5, <1>6

(* A failed one.                                                           *)
LEMMA SettingsFault ==
  ASSUME IInv, PartsInv, SettingsInv, Fault("chg")
  PROVE  SettingsInv'
  <1>1. JobsOK /\ Holders /\ "chg" \in Tasks
    BY DEF IInv, PartsInv, Tasks
  <1>2. mutex = "chg" /\ UNCHANGED <<mutex, upsets, charger>>
    BY DEF Fault
  <1>3. job["chg"].dev = "bq25622"
    BY <1>1, <1>2 DEF Holders
  <1>4. job'["chg"].ok = FALSE /\ job'["chg"].op = job["chg"].op
    BY <1>1, <1>3, ChargerFault, FaultKeepsJob DEF SameJob
  <1>5. CASE "control" \in upsets
    BY <1>2, <1>4, <1>5, SettingsWaived
  <1>6. CASE "control" \notin upsets
    <2>1. charger.stage = "poll" => LimitsSet' \/ chip'["bq25622"].WD_STAT
      BY <1>6, ChargerKeepsLimits
    <2> QED BY <1>2, <1>4, <2>1 DEF SettingsInv
  <1> QED BY <1>5, <1>6

(* A transfer of the other tasks.                                          *)
LEMMA SettingsOthers ==
  ASSUME IInv, PartsInv, SettingsInv, NEW t \in {"sens", "ui"}, Transfer(t) \/ Fault(t)
  PROVE  SettingsInv'
  <1>1. JobsOK /\ Shapes /\ Holders /\ t \in Tasks /\ DOMAIN chip = Devices
    BY DEF IInv, PartsInv, Tasks, SensorInv
  <1>2. mutex = t /\ job[t].todo # <<>> /\ UNCHANGED <<mutex, upsets>>
    BY DEF Transfer, Fault
  <1>3. charger'.stage = charger.stage
    <2>1. charger' = charger \/ charger' = [charger EXCEPT !.expired_count = @ + 1]
      BY DEF Transfer, Fault
    <2> QED BY <1>1, <2>1 DEF Shapes
  <1>4. job'["chg"] = job["chg"] /\ job'[t].dev = job[t].dev
    BY <1>1, TransferKeepsJob, FaultKeepsJob DEF SameJob, Tasks
  <1>5. CASE "control" \in upsets
    BY <1>2, <1>3, <1>4, <1>5, SettingsWaived
  <1>6. CASE "control" \notin upsets
    <2>0. chip' = chip \/ (Writes(t) /\ chip' = Written(job[t].dev, Step(t).reg, Value(t)))
      BY DEF Transfer, Fault
    <2>1. chip'["bq25622"] = chip["bq25622"]
      <3>1. CASE t = "sens"
        <4>1. job["sens"].op \in {"sens_init", "sens_poll"}
          BY <1>1, <1>2, <3>1 DEF JobsOK
        <4>2. job["sens"].dev \in Range(Sensors)
          BY <4>1, SensorsAre DEF IInv, InitOK, PollOK
        <4> QED BY <1>1, <2>0, <3>1, <4>2, SensorWrite
      <3>2. CASE t = "ui"
        <4>1. job["ui"].dev = "lm27965"
          BY <1>2, <1>6, <3>2 DEF SettingsInv
        <4>2. LedTodo(job["ui"])
          BY <1>1, <1>2, <3>2, <4>1 DEF Holders, ControlOK, LightOK
        <4> QED BY <1>1, <1>2, <2>0, <3>2, <4>1, <4>2, LedWrite
      <3> QED BY <3>1, <3>2
    <2>2. mutex' = "ui" => job'["ui"].dev = "lm27965"
      BY <1>2, <1>4, <1>6 DEF SettingsInv
    <2> QED BY <1>2, <1>3, <1>4, <2>1, <2>2, SettingsStay
  <1> QED BY <1>5, <1>6

(* The end of a call: charger_task begins to poll with every limit set.    *)
LEMMA SettingsRelease ==
  ASSUME IInv, PartsInv, SettingsInv, NEW t \in Tasks, Release(t)
  PROVE  SettingsInv'
  <1>1. JobsOK /\ Shapes /\ Holders
    BY DEF IInv, PartsInv
  <1>2. /\ mutex = t /\ mutex' = "none" /\ UNCHANGED <<chip, upsets>>
        /\ job[t].todo = <<>> \/ ~job[t].ok
    BY DEF Release
  <1>3. job' = [job EXCEPT ![t] = IF job[t].op = "watchdog" /\ job[t].ok
                                  THEN Job("assign", job[t].dev, <<>>, job[t].arg) ELSE Idle]
    BY DEF Release
  <1>4. CASE t # "chg"
    <2>1. job'["chg"] = job["chg"]
      BY <1>1, <1>3, <1>4 DEF JobsOK, Tasks
    <2>2. job[t].op \notin {"chg_init", "chg_poll"}
      BY <1>1, <1>2, <1>4 DEF Holders, ControlOK, LightOK, JobsOK, Tasks
    <2>3. charger' = charger
      BY <2>2 DEF Release
    <2> QED BY <1>2, <2>1, <2>3, SettingsStay
  <1>5. CASE t = "chg"
    <2>1. job["chg"].op \in {"chg_init", "chg_poll"}
      BY <1>1, <1>2, <1>5 DEF Holders
    <2>2. job'["chg"] = Idle
      BY <1>1, <1>3, <1>5, <2>1 DEF JobsOK
    <2>3. Idle.op = "idle"
      BY DEF Idle, Job
    <2>4. CASE job["chg"].op = "chg_init" /\ job["chg"].ok
      <3>1. charger'.stage = "poll"
        <4>1. charger' = [charger EXCEPT !.online = TRUE, !.stage = "poll"]
          BY <1>5, <2>4 DEF Release
        <4> QED BY <1>1, <4>1 DEF Shapes
      <3>2. ASSUME "control" \notin upsets PROVE LimitsSet
        <4>1. Pending(chip.bq25622, job["chg"].todo, Len(job["chg"].todo) + 1)
          BY <1>2, <1>5, <2>4, <3>2 DEF SettingsInv, LimitsToCome
        <4>2. job["chg"].todo = <<>> /\ Len(<<>>) = 0
          BY <1>2, <1>5, <2>4
        <4>3. Pending(chip.bq25622, <<>>, 1)
          BY <4>1, <4>2
        <4>4. \A r \in Limits : chip.bq25622[r] = "set"
          BY <4>3 DEF Pending
        <4> QED BY <4>4 DEF LimitsSet
      <3> QED BY <1>2, <2>2, <2>3, <3>1, <3>2 DEF SettingsInv, LimitsSet
    <2>5. CASE ~(job["chg"].op = "chg_init" /\ job["chg"].ok)
      <3>1. charger'.stage = charger.stage
        <4>1. \/ charger' = [charger EXCEPT !.fails = IF @ < FailDisconnect THEN @ + 1 ELSE @]
              \/ charger' = Counted(charger, job["chg"].ok)
          BY <1>5, <2>1, <2>5 DEF Release
        <4> QED BY <1>1, <4>1 DEF Shapes, Counted
      <3> QED BY <1>2, <2>2, <2>3, <3>1 DEF SettingsInv, LimitsSet
    <2> QED BY <2>4, <2>5
  <1> QED BY <1>4, <1>5

(* charger_task begins a call.                                             *)
LEMMA SettingsStart ==
  ASSUME IInv, PartsInv, SettingsInv, ChargerTask
  PROVE  SettingsInv'
  <1>1. JobsOK /\ Shapes
    BY DEF IInv, PartsInv
  <1>2. UNCHANGED <<chip, charger, upsets>>
    BY DEF ChargerTask
  <1>3. LimitsSet' <=> LimitsSet
    BY <1>2 DEF LimitsSet
  <1>4. CASE charger.stage = "init"
    <2> DEFINE todo == HwInit(charger.wd_window)
               j == Job("chg_init", "bq25622", todo, {})
    <2>1. mutex' = "chg" /\ job' = [job EXCEPT !["chg"] = j]
      BY <1>4 DEF ChargerTask, Acquire
    <2>2. Plain(todo) /\ LimitsFirst(todo) /\ NoStatus(todo)
      BY <1>1, HwInitPlain DEF Shapes
    <2> HIDE DEF todo
    <2>3. j.op = "chg_init" /\ j.todo = todo
      BY DEF Job
    <2> HIDE DEF j
    <2>4. LimitsToCome(chip.bq25622, j)
      BY <2>2, <2>3, LimitsArePending DEF LimitsToCome
    <2>5. job'["chg"] = j
      BY <1>1, <2>1 DEF JobsOK, Tasks
    <2> QED BY <1>2, <1>3, <1>4, <2>1, <2>3, <2>4, <2>5 DEF SettingsInv
  <1>5. CASE charger.stage # "init"
    <2> DEFINE j == Job("chg_poll", "bq25622", <<Read("STATUS")>>, {})
    <2>1. mutex' = "chg" /\ job' = [job EXCEPT !["chg"] = j]
      BY <1>5 DEF ChargerTask, Acquire
    <2>2. j.op = "chg_poll" /\ j.todo = <<Read("STATUS")>>
      BY DEF Job
    <2> HIDE DEF j
    <2>3. LimitsToCome(chip.bq25622, j)
      BY <2>2 DEF LimitsToCome, Read
    <2>4. job'["chg"] = j
      BY <1>1, <2>1 DEF JobsOK, Tasks
    <2>5. charger.stage = "poll"
      BY <1>5 DEF SettingsInv
    <2> QED BY <1>2, <1>3, <2>1, <2>3, <2>4, <2>5 DEF SettingsInv
  <1> QED BY <1>4, <1>5

(* The other tasks begin a call; one to the charger is noted.              *)
LEMMA SettingsCall ==
  ASSUME IInv, PartsInv, SettingsInv, SensorTask \/ Call
  PROVE  SettingsInv'
  <1>1. JobsOK
    BY DEF IInv
  <1>2. UNCHANGED <<chip, charger>> /\ upsets \subseteq upsets'
    BY DEF SensorTask, Call, Upset
  <1>3. CASE SensorTask
    <2>1. PICK j : Acquire("sens", j)
      BY <1>3 DEF SensorTask
    <2>2. mutex' = "sens" /\ job'["chg"] = job["chg"]
      BY <1>1, <2>1 DEF Acquire, JobsOK, Tasks
    <2> QED BY <1>2, <2>2, SettingsStay
  <1>4. CASE Call
    <2>1. PICK j : /\ Acquire("ui", j) /\ (ControlOK(j) \/ LightOK(j))
                   /\ j.dev = "bq25622" => "control" \in upsets'
      <3>1. CASE Acquire("ui", Job("led_init", "lm27965", LedInit(DutyMax), {}))
        <4>1. Job("led_init", "lm27965", LedInit(DutyMax), {}).dev = "lm27965"
          BY DEF Job
        <4> QED BY <3>1, <4>1, LedInitStarts
      <3>2. ASSUME NEW c \in Calls, NEW j \in CallJobs[c], Acquire("ui", j),
                   IF j.dev = "bq25622" THEN Upset("control") ELSE UNCHANGED upsets
            PROVE  /\ ControlOK(j) \/ LightOK(j)
                   /\ j.dev = "bq25622" => "control" \in upsets'
        BY <3>2, CallsStart DEF Upset
      <3> QED BY <1>4, <3>1, <3>2 DEF Call
    <2>2. mutex' = "ui" /\ job'["chg"] = job["chg"] /\ job'["ui"] = j
      BY <1>1, <2>1 DEF Acquire, JobsOK, Tasks
    <2>3. j.dev \in {"bq25622", "lm27965"}
      BY <2>1 DEF ControlOK, LightOK
    <2> QED BY <1>2, <2>1, <2>2, <2>3, SettingsStay
  <1> QED BY <1>3, <1>4

(* A chip changes by itself: an expiry shows.                              *)
LEMMA SettingsChips ==
  ASSUME IInv, PartsInv, SettingsInv, ~ExpiresMidCall, Expire \/ BrownOut
  PROVE  SettingsInv'
  <1>1. Shapes /\ DOMAIN chip = Devices
    BY DEF IInv, PartsInv, SensorInv
  <1>2. UNCHANGED <<mutex, job, charger>> /\ upsets \subseteq upsets'
    BY DEF Expire, BrownOut, Upset
  <1>3. CASE Expire
    <2>1. mutex = "none"
      BY <1>3 DEF Expire
    <2>2. PICK w :
            chip' = [chip EXCEPT !.bq25622.WD_STAT = TRUE, !.bq25622.ICHG = "half",
                                 !.bq25622.CTRL1 = [chg |-> TRUE, hiz |-> FALSE, wd |-> w]]
      BY <1>3 DEF Expire
    <2>3. "bq25622" \in Devices /\ "WD_STAT" \in BqRegs /\ DOMAIN chip["bq25622"] = BqRegs
      BY <1>1 DEF Devices, BqRegs, Shapes
    <2> DEFINE v == [chg |-> TRUE, hiz |-> FALSE, wd |-> w]
    <2>4. chip'["bq25622"] = [chip["bq25622"] EXCEPT !.WD_STAT = TRUE, !.ICHG = "half", !.CTRL1 = v]
      BY <1>1, <2>2, <2>3
    <2> HIDE DEF v
    <2>5. chip'["bq25622"].WD_STAT = TRUE
      BY <2>3, <2>4
    <2> QED BY <1>2, <2>1, <2>5 DEF SettingsInv
  <1>4. CASE BrownOut
    <2>1. PICK s \in Range(Sensors) : chip' = [chip EXCEPT ![s] = PowerOn(s)]
      BY <1>4 DEF BrownOut
    <2>2. s # "bq25622" /\ "bq25622" \in Devices
      BY SensorsAre DEF Devices
    <2>3. chip'["bq25622"] = chip["bq25622"]
      BY <1>1, <2>1, <2>2
    <2>4. "control" \notin upsets' /\ mutex' = "ui" => job'["ui"].dev = "lm27965"
      BY <1>2 DEF SettingsInv
    <2> QED BY <1>2, <2>3, <2>4, SettingsStay
  <1> QED BY <1>3, <1>4

(* bq25622.c: at whichever transfer of hw_init a fault strikes, a          *)
(* charger_task that polls has every production limit in the chip, or      *)
(* WD_STAT still shows that one is lost - as long as no runtime call       *)
(* writes CTRL1, and if an expiry falls between two calls: one between the *)
(* write of a limit and the kick is cleared unseen.                        *)
THEOREM LimitsAreKept ==
  ASSUME ~ExpiresMidCall
  PROVE  Spec => []SettingsSurviveExpiry
  <1>1. Init => SettingsInv
    BY DEF Init, SettingsInv, Idle, Job, Tasks
  <1>2. IInv /\ PartsInv /\ SettingsInv /\ [Next]_vars => SettingsInv'
    <2> SUFFICES ASSUME IInv, PartsInv, SettingsInv, [Next]_vars PROVE SettingsInv'
      OBVIOUS
    <2>1. CASE ChargerTask
      BY <2>1, SettingsStart
    <2>2. CASE SensorTask \/ Call
      BY <2>2, SettingsCall
    <2>3. ASSUME NEW t \in Tasks, Transfer(t) \/ Fault(t) PROVE SettingsInv'
      BY <2>3, SettingsTransfer, SettingsFault, SettingsOthers DEF Tasks
    <2>4. ASSUME NEW t \in Tasks, Release(t) PROVE SettingsInv'
      BY <2>4, SettingsRelease
    <2>5. ASSUME NEW t \in Tasks, Assign(t) PROVE SettingsInv'
      <3>1. t = "ui" /\ mutex # "ui"
        BY <2>5, AssignKeeps
      <3>2. UNCHANGED <<mutex, chip, upsets>> /\ job'["chg"] = job["chg"]
            /\ charger'.stage = charger.stage
        BY <2>5, <3>1 DEF Assign, IInv, JobsOK, PartsInv, Shapes, Tasks
      <3> QED BY <3>1, <3>2, SettingsStay
    <2>6. CASE Expire \/ BrownOut
      BY <2>6, SettingsChips
    <2>7. CASE UNCHANGED vars
      BY <2>7 DEF vars, SettingsInv, LimitsSet
    <2> QED BY <2>1, <2>2, <2>3, <2>4, <2>5, <2>6, <2>7 DEF Next, Work
  <1>3. SettingsInv => SettingsSurviveExpiry
    BY DEF SettingsInv, SettingsSurviveExpiry
  <1> QED BY <1>1, <1>2, <1>3, SensorsInvariant, PartsInvariant, PTL DEF Spec

-----------------------------------------------------------------------------
(***************************************************************************)
(* The GNSS receiver: the answers that the driver of Core 1 gives, and the *)
(* double buffer of the build without a receiver.                          *)
(***************************************************************************)

(* What may be said: the sentences of a cycle and the answers.             *)
Answers ==
  [type : {"PSTM"}, what : {"SETPAROK", "SETPARERROR", "SAVEPAROK"}]
  \cup [type : {"PSTM"}, what : {"SETPAR"}, val : Rates, mode : BOOLEAN]
Said == Telemetry \cup Answers
PieceSet == [c : {"$", "body", "\n"}, of : Said, part : 0 .. 2]
Commands ==
  [what : {"SUSPEND", "RESTART", "SAVEPAR", "SRR", "GETPAR"}]
  \cup [what : {"SETPAR"}, val : Rates, mode : BOOLEAN]

RxFields == {"out", "next", "cycle", "cmds", "run", "ram", "nvm", "rate"}
DrvFields == {"line", "gsv", "view", "published", "rf", "due", "count", "sats", "updated",
              "quality", "valid", "pos", "resp", "getpar", "online", "fails", "fix_rate"}

RxTyped(r) ==
  /\ DOMAIN r = RxFields
  /\ r.out \in Seq(PieceSet) /\ r.cmds \in Seq(Commands)
  /\ r.next \in 1 .. Len(Program) /\ r.cycle \in Nat
  /\ r.ram \in Rates /\ r.nvm \in Rates

DrvTyped(d) == DOMAIN d = DrvFields /\ d.line \in Seq(PieceSet)

Typed ==
  /\ scenario \in Scenarios
  /\ RxTyped(rx) /\ DrvTyped(drv)
  /\ DOMAIN op = {"call", "pc", "arg", "result", "n"} /\ op.pc \in Pcs
  /\ op.pc \in {"restart", "setpar"} => op.arg \in Rates

(* The piece whose arrival lets the driver accept the answer it is of.     *)
Carrier(p) == p.part = 2 /\ p.of.type = "PSTM"

Kept(o, v) == o.call = "set_fix_rate" => v = o.arg

(* The answers that the call o may be given; the last one of them.         *)
Expected(r, o, s) ==
  /\ r.cmds = <<>>
  /\ \/ o.pc = "await_setpar" /\ s.what \in {"SETPAR", "SETPARERROR"}
     \/ o.pc = "await_setpar" /\ s.what = "SETPAROK" /\ Kept(o, r.ram)
     \/ o.pc = "await_save" /\ s.what = "SAVEPAROK" /\ Kept(o, r.nvm)
     \/ o.pc = "await_getpar" /\ s.what = "SETPAR" /\ ~s.mode /\ s.val = r.ram
Final(o, s) == s.what # "SETPAR" \/ o.pc = "await_getpar"

Heard(o, d) ==
  \/ o.pc \in {"await_setpar", "await_save"} /\ d.resp # "NONE"
  \/ o.pc = "await_getpar" /\ d.getpar # "none"

Told(r, o, d) ==
  /\ r.cmds = <<>>
  /\ \/ o.pc = "await_setpar" /\ d.resp = "SETPARERROR"
     \/ o.pc = "await_setpar" /\ d.resp = "SETPAROK" /\ Kept(o, r.ram)
     \/ o.pc = "await_save" /\ d.resp = "SAVEPAROK" /\ Kept(o, r.nvm)
     \/ o.pc = "await_getpar" /\ d.getpar = r.ram

NoneAfter(q, i) == \A j \in i + 1 .. Len(q) : ~Carrier(q[j])
NoneIn(line) == \A k \in DOMAIN line : ~Carrier(line[k])

(* What is in the driver's line and in the pieces of q after the ith.      *)
Coming(r, o, line, q, i) ==
  /\ \A k \in DOMAIN line : Carrier(line[k]) =>
       /\ Expected(r, o, line[k].of)
       /\ Final(o, line[k].of) => NoneAfter(q, i)
  /\ \A j \in i + 1 .. Len(q) : Carrier(q[j]) =>
       /\ Expected(r, o, q[j].of)
       /\ Final(o, q[j].of) => NoneAfter(q, j)

Hopes(r, o, d, q, i) ==
  /\ Coming(r, o, d.line, q, i)
  /\ Heard(o, d) => NoneIn(d.line) /\ NoneAfter(q, i) /\ Told(r, o, d)

Mute == {"SUSPEND", "RESTART", "SRR"}

Asked(o, c) ==
  \/ o.pc = "await_setpar" /\ c.what = "SETPAR" /\ c.val = o.arg /\ c.mode = (o.call = "rf_debug")
  \/ o.pc = "await_getpar" /\ c.what = "GETPAR"

Queue(r, o) ==
  /\ o.pc \notin {"save", "await_save", "srr"} =>
       \A i \in DOMAIN r.cmds : r.cmds[i].what \in Mute \/ (i = Len(r.cmds) /\ Asked(o, r.cmds[i]))
  /\ o.pc \in {"save", "srr"} => r.cmds = <<>>
  /\ o.pc = "await_save" => r.cmds = <<>> \/ r.cmds = <<[what |-> "SAVEPAR"]>>
  /\ o.pc \in {"save", "await_save"} => Kept(o, r.ram)
  /\ o.pc = "srr" => Kept(o, r.nvm)

Results(r, o) ==
  /\ o.pc # "idle" => o.result = "none"
  /\ o.pc = "suspend" => o.arg = "OFF"
  /\ o.call = "set_fix_rate" /\ o.result = "ok" /\ o.arg # "OFF" => r.nvm = o.arg
  /\ o.call = "get_fix_rate" /\ o.result \in Rates => r.ram = o.result /\ r.cmds = <<>>

CallInv == Hopes(rx, op, drv, rx.out, 0) /\ Queue(rx, op) /\ Results(rx, op)

Marked == DOMAIN bad = {"lost", "faults", "refused", "late"} /\ bad.late \in BOOLEAN

AnswerInv == Marked /\ (bad.late \/ (Typed /\ CallInv))

-----------------------------------------------------------------------------
(* A sentence of telemetry leaves the line and the two answers alone.      *)
LEMMA ParsersKeep ==
  ASSUME NEW d, NEW s, DrvTyped(d)
  PROVE  \A e \in {ParseGga(d, s), ParseRmc(d, s), ParseGsv(d, s), ParsePstmRf(d, s)} :
           DrvTyped(e) /\ e.line = d.line /\ e.resp = d.resp /\ e.getpar = d.getpar
  <1> USE DEF DrvTyped, DrvFields
  <1>1. \A e \in {ParseGga(d, s), ParseRmc(d, s)} :
           DrvTyped(e) /\ e.line = d.line /\ e.resp = d.resp /\ e.getpar = d.getpar
    BY DEF ParseGga, ParseRmc
  <1>2. /\ DrvTyped(ParsePstmRf(d, s)) /\ ParsePstmRf(d, s).line = d.line
        /\ ParsePstmRf(d, s).resp = d.resp /\ ParsePstmRf(d, s).getpar = d.getpar
    BY DEF ParsePstmRf
  <1>3. /\ DrvTyped(ParseGsv(d, s)) /\ ParseGsv(d, s).line = d.line
        /\ ParseGsv(d, s).resp = d.resp /\ ParseGsv(d, s).getpar = d.getpar
    BY DEF ParseGsv
  <1> QED BY <1>1, <1>2, <1>3

(* Nothing else of the state changes with the line.                        *)
WithLine(d, l) == [d EXCEPT !.line = l]

LEMMA NewLine ==
  ASSUME NEW d, DrvTyped(d), NEW l \in Seq(PieceSet)
  PROVE  /\ DrvTyped(WithLine(d, l)) /\ WithLine(d, l).line = l
         /\ WithLine(d, l).resp = d.resp /\ WithLine(d, l).getpar = d.getpar
  BY DEF DrvTyped, DrvFields, WithLine

(* One piece more is read: what is heard is an answer to this call.        *)
LEMMA ReadOne ==
  ASSUME NEW r, NEW o, NEW d, NEW q \in Seq(PieceSet), NEW i \in 0 .. Len(q) - 1,
         DrvTyped(d), Hopes(r, o, d, q, i)
  PROVE  /\ DrvTyped(AccumulateByte(d, q[i + 1]))
         /\ Hopes(r, o, AccumulateByte(d, q[i + 1]), q, i + 1)
  <1> DEFINE p == q[i + 1]
             e == AccumulateByte(d, p)
  <1>0. Len(q) \in Nat /\ i + 1 \in 1 .. Len(q) /\ p \in PieceSet
    BY LenProperties, ElementOfSeq
  <1>1. p.c \in {"$", "body", "\n"} /\ p.of \in Said
    BY <1>0 DEF PieceSet
  <1>2. /\ \A j \in i + 2 .. Len(q) : j \in i + 1 .. Len(q)
        /\ NoneAfter(q, i) => ~Carrier(p) /\ NoneAfter(q, i + 1)
        /\ Carrier(p) => Expected(r, o, p.of) /\ (Final(o, p.of) => NoneAfter(q, i + 1))
    BY <1>0 DEF NoneAfter, Hopes, Coming
  <1> HIDE DEF p
  <1>3. CASE p.c = "$"
    <2>1. /\ DrvTyped(e) /\ e.line = <<p>> /\ e.resp = d.resp /\ e.getpar = d.getpar
      <3>1. <<p>> \in Seq(PieceSet) /\ e = WithLine(d, <<p>>)
        BY <1>0, <1>3 DEF AccumulateByte, WithLine
      <3> HIDE DEF e
      <3> QED BY <3>1, NewLine, Zenon
    <2> HIDE DEF e
    <2>2. Coming(r, o, e.line, q, i + 1)
      BY <1>0, <1>2, <2>1 DEF Hopes, Coming
    <2> QED BY <1>0, <1>2, <2>1, <2>2 DEF Hopes, Heard, Told, NoneIn, e, p
  <1>4. CASE p.c = "body"
    <2>1. /\ DrvTyped(e) /\ e.resp = d.resp /\ e.getpar = d.getpar
          /\ \A k \in DOMAIN e.line : e.line[k] = p \/ (k \in DOMAIN d.line /\ e.line[k] = d.line[k])
      <3>1. DrvTyped(d) /\ Append(d.line, p) \in Seq(PieceSet) /\ <<>> \in Seq(PieceSet)
        BY <1>0 DEF DrvTyped
      <3>2. \A k \in DOMAIN Append(d.line, p) :
               Append(d.line, p)[k] = p \/ (k \in DOMAIN d.line /\ Append(d.line, p)[k] = d.line[k])
        BY <1>0 DEF DrvTyped
      <3>3. \/ e = WithLine(d, Append(d.line, p)) \/ e = WithLine(d, <<>>)
            \/ e = WithLine(d, d.line)
        BY <1>4 DEF AccumulateByte, WithLine
      <3> HIDE DEF e
      <3>4. d.line \in Seq(PieceSet)
        BY DEF DrvTyped
      <3>5. /\ DrvTyped(e) /\ e.resp = d.resp /\ e.getpar = d.getpar
            /\ e.line = Append(d.line, p) \/ e.line = <<>> \/ e.line = d.line
        <4>1. ASSUME NEW l \in Seq(PieceSet), e = WithLine(d, l)
              PROVE  DrvTyped(e) /\ e.resp = d.resp /\ e.getpar = d.getpar /\ e.line = l
          BY <4>1, NewLine, Zenon
        <4> QED BY <3>1, <3>3, <3>4, <4>1, Zenon
      <3> QED BY SMTT(30), <3>2, <3>5
    <2>2. \A k \in DOMAIN e.line : Carrier(e.line[k]) =>
             Expected(r, o, e.line[k].of) /\ (Final(o, e.line[k].of) => NoneAfter(q, i + 1))
      BY <1>2, <2>1 DEF Hopes, Coming
    <2>3. Coming(r, o, e.line, q, i + 1)
      BY <1>0, <1>2, <2>2 DEF Hopes, Coming
    <2>4. Heard(o, d) => NoneIn(e.line)
      BY <1>2, <2>1 DEF Hopes, NoneIn
    <2> HIDE DEF e
    <2> QED BY <1>2, <2>1, <2>3, <2>4 DEF Hopes, Heard, Told, e, p
  <1>5. CASE p.c = "\n"
    <2> DEFINE f == DispatchLine(d)
    <2>1. e = WithLine(f, <<>>)
      BY <1>5 DEF AccumulateByte, WithLine
    <2>2. \/ DrvTyped(f) /\ f.resp = d.resp /\ f.getpar = d.getpar
          \/ /\ DrvTyped(f)
             /\ NoneAfter(q, i) /\ Told(r, o, f)
          \/ /\ DrvTyped(f) /\ f.resp = d.resp
             /\ o.pc # "await_getpar"
      <3> DEFINE s == d.line[2].of
      <3>1. CASE ~Verified(d.line)
        BY <3>1 DEF DispatchLine
      <3>2. CASE Verified(d.line)
        <4>1. /\ 3 \in DOMAIN d.line /\ d.line[3].of = s /\ d.line[3].part = 2 /\ s \in Said
          <5>1. d.line[3] \in PieceSet /\ 3 \in DOMAIN d.line
            BY <3>2 DEF Verified, DrvTyped
          <5> QED BY <3>2, <5>1 DEF Verified, PieceSet
        <4>2. CASE s.type # "PSTM"
          <5>1. f \in {ParseGga(d, s), ParseRmc(d, s), ParseGsv(d, s), ParsePstmRf(d, s)}
            BY <3>2, <4>1, <4>2 DEF DispatchLine, Said, Telemetry, Answers
          <5> HIDE DEF f
          <5> QED BY <5>1, ParsersKeep
        <4>3. CASE s.type = "PSTM"
          <5>1. Expected(r, o, s) /\ (Final(o, s) => NoneAfter(q, i))
            BY <4>1, <4>3 DEF Hopes, Coming, Carrier
          <5>2. f = DispatchPstm(d, s)
            BY <3>2, <4>3 DEF DispatchLine
          <5>3. CASE s.what # "SETPAR"
            <6>1. f = [d EXCEPT !.resp = s.what]
              BY <5>2, <5>3 DEF DispatchPstm
            <6> HIDE DEF f, s
            <6>2. DrvTyped(f) /\ f.resp = s.what
              BY <6>1 DEF DrvTyped, DrvFields
            <6> QED BY <5>1, <5>3, <6>2 DEF Expected, Final, Told
          <5>4. CASE s.what = "SETPAR" /\ ~s.mode
            <6>1. f = [d EXCEPT !.getpar = s.val]
              BY <5>2, <5>4 DEF DispatchPstm
            <6> HIDE DEF f, s
            <6>2. DrvTyped(f) /\ f.getpar = s.val /\ f.resp = d.resp
              BY <6>1 DEF DrvTyped, DrvFields
            <6> QED BY <5>1, <5>4, <6>2 DEF Expected, Final, Told
          <5>5. CASE s.what = "SETPAR" /\ s.mode
            <6>1. f = d
              BY <5>2, <5>5 DEF DispatchPstm
            <6> QED BY <6>1
          <5>6. s.what # "SETPAR" \/ s.mode \/ ~s.mode
            OBVIOUS
          <5> QED BY <5>3, <5>4, <5>5, <5>6
        <4> QED BY <4>2, <4>3
      <3> QED BY <3>1, <3>2
    <2> HIDE DEF f
    <2>3. DrvTyped(e) /\ e.line = <<>> /\ e.resp = f.resp /\ e.getpar = f.getpar
      <3>1. DrvTyped(f) /\ <<>> \in Seq(PieceSet)
        BY <2>2
      <3> HIDE DEF e
      <3> QED BY <2>1, <3>1, NewLine, Zenon
    <2> HIDE DEF e
    <2>4. Coming(r, o, e.line, q, i + 1)
      BY <1>0, <1>2, <2>3 DEF Hopes, Coming
    <2>5. Heard(o, e) => NoneAfter(q, i) /\ Told(r, o, e)
      BY <2>2, <2>3 DEF Hopes, Heard, Told
    <2> QED BY <1>2, <2>3, <2>4, <2>5 DEF Hopes, NoneIn, e, p
  <1> QED BY <1>1, <1>3, <1>4, <1>5 DEF p

-----------------------------------------------------------------------------
(* The function behind Accumulate.                                         *)
IsReading(f, d, n) ==
  f = [i \in 0 .. n |-> IF i = 0 THEN d ELSE AccumulateByte(f[i - 1], rx.out[i])]
Reading(d, n) == CHOOSE f : IsReading(f, d, n)

Follows(f, d, n) == f[0] = d /\ \A i \in 1 .. n : f[i] = AccumulateByte(f[i - 1], rx.out[i])

(* It is there for every length, step after step.                          *)
LEMMA ReadingExists ==
  ASSUME NEW d, NEW n \in Nat
  PROVE  Accumulate(d, n) = Reading(d, n)[n] /\ Follows(Reading(d, n), d, n)
  <1> DEFINE Is(f, m) == f = [i \in 0 .. m |-> f[i]] /\ Follows(f, d, m)
             T == {m \in Nat : \E f : Is(f, m)}
  <1>1. 0 \in T
    <2> DEFINE f == [i \in 0 .. 0 |-> d]
    <2>1. Is(f, 0)
      BY DEF Follows
    <2> QED BY <2>1
  <1>2. ASSUME NEW m \in Nat, m \in T PROVE m + 1 \in T
    <2>1. PICK g : Is(g, m)
      BY <1>2
    <2> DEFINE last == AccumulateByte(g[m], rx.out[m + 1])
               f == [i \in 0 .. m + 1 |-> IF i = m + 1 THEN last ELSE g[i]]
    <2>2. /\ f = [i \in 0 .. m + 1 |-> f[i]] /\ f[m + 1] = last
          /\ \A i \in 0 .. m : f[i] = g[i]
      <3> HIDE DEF last
      <3> QED OBVIOUS
    <2> HIDE DEF f
    <2>3. f[0] = d
      <3>1. Follows(g, d, m) /\ 0 \in 0 .. m
        BY <2>1
      <3> QED BY <2>2, <3>1 DEF Follows
    <2>4. ASSUME NEW i \in 1 .. m + 1 PROVE f[i] = AccumulateByte(f[i - 1], rx.out[i])
      <3>1. CASE i = m + 1
        <4>1. i - 1 = m /\ m \in 0 .. m
          BY <3>1
        <4> QED BY <2>2, <3>1, <4>1
      <3>2. CASE i # m + 1
        <4>1. i \in 1 .. m /\ i \in 0 .. m /\ i - 1 \in 0 .. m
          BY <3>2
        <4> QED BY <2>1, <2>2, <4>1 DEF Follows
      <3> QED BY <3>1, <3>2
    <2>5. Is(f, m + 1)
      BY <2>2, <2>3, <2>4 DEF Follows
    <2> QED BY <2>5
  <1> HIDE DEF T
  <1>3. n \in T
    BY <1>1, <1>2, SetInduction
  <1>4. PICK f : Is(f, n)
    BY <1>3 DEF T
  <1>5. IsReading(f, d, n)
    <2>1. f = [i \in 0 .. n |-> f[i]] /\ Follows(f, d, n)
      BY <1>4
    <2>2. \A i \in 0 .. n : f[i] = IF i = 0 THEN d ELSE AccumulateByte(f[i - 1], rx.out[i])
      <3> SUFFICES ASSUME NEW i \in 0 .. n
                   PROVE  f[i] = IF i = 0 THEN d ELSE AccumulateByte(f[i - 1], rx.out[i])
        OBVIOUS
      <3>1. i = 0 \/ i \in 1 .. n
        OBVIOUS
      <3> QED BY <2>1, <3>1, Zenon DEF Follows
    <2> QED BY <2>1, <2>2 DEF IsReading
  <1>6. IsReading(Reading(d, n), d, n)
    BY <1>5 DEF Reading
  <1>7. Follows(Reading(d, n), d, n)
    BY <1>6 DEF IsReading, Follows
  <1> QED BY <1>7 DEF Accumulate, Reading, IsReading

(* The end of a poll is not heard.                                         *)
LEMMA PollEnds ==
  ASSUME NEW r, NEW o, NEW d, NEW q, NEW i, DrvTyped(d), Hopes(r, o, d, q, i)
  PROVE  DrvTyped(Succeeds(d)) /\ Hopes(r, o, Succeeds(d), q, i)
  <1> DEFINE e == Succeeds(d)
  <1>1. DrvTyped(e) /\ e.line = d.line /\ e.resp = d.resp /\ e.getpar = d.getpar
    BY DEF Succeeds, DrvTyped, DrvFields
  <1> HIDE DEF e
  <1>2. Hopes(r, o, e, q, i)
    BY <1>1 DEF Hopes, Heard, Told
  <1> QED BY <1>1, <1>2 DEF e

(* Whatever part of what waits a poll reads.                               *)
LEMMA PollReads ==
  ASSUME Typed, NEW o, Hopes(rx, o, drv, rx.out, 0), NEW n \in 0 .. Len(rx.out)
  PROVE  DrvTyped(Polled(n)) /\ Hopes(rx, o, Polled(n), rx.out, n)
  <1> DEFINE q == rx.out
             f == Reading(drv, n)
             T == {i \in Nat : i <= n => DrvTyped(f[i]) /\ Hopes(rx, o, f[i], q, i)}
  <1>0. q \in Seq(PieceSet) /\ Len(q) \in Nat /\ n \in Nat /\ n <= Len(q)
    BY DEF Typed, RxTyped
  <1>1. DrvTyped(drv)
    BY DEF Typed
  <1>2. Accumulate(drv, n) = f[n] /\ Follows(f, drv, n)
    BY <1>0, ReadingExists
  <1> HIDE DEF f
  <1>3. Polled(n) = f[n] \/ Polled(n) = Succeeds(f[n])
    BY <1>2 DEF Polled
  <1>4. 0 \in T
    BY <1>1, <1>2 DEF Follows
  <1>5. ASSUME NEW i \in Nat, i \in T PROVE i + 1 \in T
    <2> SUFFICES ASSUME i + 1 <= n
                 PROVE  DrvTyped(f[i + 1]) /\ Hopes(rx, o, f[i + 1], q, i + 1)
      OBVIOUS
    <2>1. DrvTyped(f[i]) /\ Hopes(rx, o, f[i], q, i)
      BY <1>0, <1>5
    <2>2. i \in 0 .. Len(q) - 1 /\ i + 1 \in 1 .. n /\ (i + 1) - 1 = i
      BY <1>0
    <2>3. f[i + 1] = AccumulateByte(f[i], q[i + 1])
      <3> DEFINE j == i + 1
      <3>1. j \in 1 .. n /\ j - 1 = i
        BY <2>2
      <3> HIDE DEF j
      <3>2. f[j] = AccumulateByte(f[i], q[j])
        BY <1>2, <3>1 DEF Follows
      <3> QED BY <3>2 DEF j
    <2> HIDE DEF q
    <2> QED BY <1>0, <2>1, <2>2, <2>3, ReadOne
  <1> HIDE DEF T
  <1>6. n \in T
    BY <1>0, <1>4, <1>5, SetInduction
  <1>7. DrvTyped(f[n]) /\ Hopes(rx, o, f[n], q, n)
    BY <1>0, <1>6 DEF T
  <1> QED BY <1>3, <1>7, PollEnds

-----------------------------------------------------------------------------
(* The stream.                                                             *)

(* What the receiver says at a time: four pieces.                          *)
LEMMA PiecesOf ==
  ASSUME NEW s \in Said
  PROVE  /\ Pieces(s) \in Seq(PieceSet) /\ Len(Pieces(s)) = 4
         /\ \A i \in 1 .. 4 : Pieces(s)[i].of = s /\ (Carrier(Pieces(s)[i]) => i = 3)
         /\ s.type # "PSTM" => NoneIn(Pieces(s))
  <1>1. \A c \in {"$", "body", "\n"}, k \in 0 .. 2 :
           Piece(c, s, k) \in PieceSet /\ Piece(c, s, k).of = s /\ Piece(c, s, k).part = k
    BY DEF Piece, PieceSet
  <1> QED BY <1>1 DEF Pieces, Carrier, NoneIn

(* Whatever is emitted, or lost of it, is telemetry.                       *)
LEMMA EmitAppends ==
  ASSUME Typed, Emit
  PROVE  \E z \in Seq(PieceSet) :
           /\ NoneIn(z)
           /\ RxTyped(rx') /\ rx'.out = rx.out \o z /\ rx'.cmds = rx.cmds
           /\ rx'.ram = rx.ram /\ rx'.nvm = rx.nvm
  <1> DEFINE s == Sentence
  <1>1. s \in Said /\ s.type # "PSTM"
    <2>1. Program \in Seq(Telemetry)
      BY GnssAssumption DEF Typed, Program
    <2>2. Program[rx.next] \in Telemetry
      BY <2>1, ElementOfSeq DEF Typed, RxTyped
    <2>3. s \in Telemetry
      BY <2>2 DEF Sentence, Telemetry, Typed, RxTyped
    <2> QED BY <2>3 DEF Said, Telemetry
  <1> HIDE DEF s
  <1>2. Pieces(s) \in Seq(PieceSet) /\ NoneIn(Pieces(s)) /\ Len(Pieces(s)) = 4
    BY <1>1, PiecesOf
  <1>3. ASSUME NEW k \in 1 .. 4
        PROVE  RemoveAt(Pieces(s), k) \in Seq(PieceSet) /\ NoneIn(RemoveAt(Pieces(s), k))
    <2> DEFINE p == Pieces(s)
               a == SubSeq(p, 1, k - 1)
               b == SubSeq(p, k + 1, Len(p))
    <2> HIDE DEF p
    <2>1. p \in Seq(PieceSet) /\ NoneIn(p) /\ Len(p) = 4
      BY <1>2 DEF p
    <2>2. a \in Seq(PieceSet) /\ b \in Seq(PieceSet) /\ NoneIn(a) /\ NoneIn(b)
      <3>1. ASSUME NEW u \in Int, NEW v \in Int, u >= 1, v <= 4
            PROVE  SubSeq(p, u, v) \in Seq(PieceSet) /\ NoneIn(SubSeq(p, u, v))
        <4> DEFINE w == SubSeq(p, u, v)
        <4>1. /\ w \in Seq(PieceSet)
              /\ Len(w) = IF u <= v THEN v - u + 1 ELSE 0
              /\ \A i \in 1 .. v - u + 1 : w[i] = p[u + i - 1]
          <5>1. ASSUME NEW i \in u .. v PROVE p[i] \in PieceSet
            <6>1. i \in 1 .. Len(p)
              BY <2>1, <3>1
            <6> QED BY <2>1, <6>1, ElementOfSeq
          <5> QED BY <5>1, SubSeqProperties
        <4> HIDE DEF w
        <4>2. ASSUME NEW i \in DOMAIN w PROVE ~Carrier(w[i])
          <5>1. i \in 1 .. v - u + 1
            BY <3>1, <4>1
          <5>2. u + i - 1 \in DOMAIN p
            BY SMTT(30), <2>1, <3>1, <5>1
          <5> QED BY <2>1, <4>1, <5>1, <5>2 DEF NoneIn
        <4> QED BY <4>1, <4>2 DEF NoneIn, w
      <3> QED BY <2>1, <3>1
    <2> HIDE DEF a, b
    <2>3. a \o b \in Seq(PieceSet) /\ NoneIn(a \o b)
      BY <2>2 DEF NoneIn
    <2> QED BY <2>3 DEF RemoveAt, p, a, b
  <1>4. RxTyped(Advance) /\ Advance.out = rx.out /\ Advance.cmds = rx.cmds
        /\ Advance.ram = rx.ram /\ Advance.nvm = rx.nvm
    <2>1. Len(Program) \in Nat \ {0}
      BY GnssAssumption DEF Typed, Program
    <2>2. (rx.next % Len(Program)) + 1 \in 1 .. Len(Program)
      BY <2>1 DEF Typed, RxTyped
    <2> QED BY <2>2 DEF Advance, Typed, RxTyped, RxFields
  <1>5. PICK z \in Seq(PieceSet) : NoneIn(z) /\ rx' = [Advance EXCEPT !.out = Advance.out \o z]
    <2>1. CASE rx' = [Advance EXCEPT !.out = @ \o Pieces(s)]
      BY <1>2, <2>1
    <2>2. ASSUME NEW k \in 0 .. 4,
                 rx' = [Advance EXCEPT !.out = IF k = 0 THEN @ ELSE @ \o RemoveAt(Pieces(s), k)]
          PROVE  \E z \in Seq(PieceSet) : NoneIn(z) /\ rx' = [Advance EXCEPT !.out = Advance.out \o z]
      <3>1. CASE k = 0
        <4>1. Advance.out \o <<>> = Advance.out /\ <<>> \in Seq(PieceSet) /\ NoneIn(<<>>)
          BY <1>4 DEF RxTyped, NoneIn
        <4> QED BY <2>2, <3>1, <4>1
      <3>2. CASE k # 0
        <4> DEFINE z == RemoveAt(Pieces(s), k)
        <4>1. z \in Seq(PieceSet) /\ NoneIn(z)
          BY <1>3, <3>2
        <4>2. rx' = [Advance EXCEPT !.out = Advance.out \o z]
          BY <2>2, <3>2
        <4> HIDE DEF z
        <4> QED BY <4>1, <4>2
      <3> QED BY <3>1, <3>2
    <2> QED BY <2>1, <2>2 DEF Emit, s
  <1>6. rx.out \o z \in Seq(PieceSet)
    BY DEF Typed, RxTyped
  <1> HIDE DEF Advance
  <1> QED BY <1>4, <1>5, <1>6 DEF RxTyped, RxFields

(* More that carries nothing.                                              *)
LEMMA MoreTelemetry ==
  ASSUME NEW r, NEW r2, NEW o, NEW d, NEW q \in Seq(PieceSet), NEW z \in Seq(PieceSet),
         Hopes(r, o, d, q, 0), NoneIn(z),
         r2.cmds = r.cmds, r2.ram = r.ram, r2.nvm = r.nvm
  PROVE  Hopes(r2, o, d, q \o z, 0)
  <1>1. Len(q \o z) = Len(q) + Len(z) /\ Len(q) \in Nat /\ Len(z) \in Nat
    OBVIOUS
  <1>2. \A j \in 1 .. Len(q \o z) :
           \/ j \in 1 .. Len(q) /\ (q \o z)[j] = q[j]
           \/ j \notin 1 .. Len(q) /\ ~Carrier((q \o z)[j])
    BY DEF NoneIn
  <1>3. \A i \in 0 .. Len(q) : NoneAfter(q, i) => NoneAfter(q \o z, i)
    BY <1>1, <1>2 DEF NoneAfter
  <1>4. Coming(r, o, d.line, q \o z, 0)
    <2>1. \A k \in DOMAIN d.line : Carrier(d.line[k]) =>
             Expected(r, o, d.line[k].of) /\ (Final(o, d.line[k].of) => NoneAfter(q \o z, 0))
      BY <1>1, <1>3 DEF Hopes, Coming
    <2>2. ASSUME NEW j \in 1 .. Len(q \o z), Carrier((q \o z)[j])
          PROVE  /\ Expected(r, o, (q \o z)[j].of)
                 /\ Final(o, (q \o z)[j].of) => NoneAfter(q \o z, j)
      <3>1. j \in 1 .. Len(q) /\ (q \o z)[j] = q[j] /\ j \in 0 .. Len(q)
        BY <1>1, <1>2, <2>2
      <3> QED BY <1>3, <2>2, <3>1 DEF Hopes, Coming
    <2> QED BY <2>1, <2>2 DEF Coming
  <1>5. Coming(r2, o, d.line, q \o z, 0)
    BY <1>4 DEF Coming, Expected
  <1> QED BY <1>1, <1>3, <1>5 DEF Hopes, Told

(* While a command waits nothing is expected and nothing has been heard.   *)
LEMMA Unanswered ==
  ASSUME NEW r, NEW o, NEW d, NEW q, Hopes(r, o, d, q, 0), r.cmds # <<>>
  PROVE  NoneIn(d.line) /\ NoneAfter(q, 0) /\ ~Heard(o, d)
  BY DEF Hopes, Coming, Expected, Told, NoneIn, NoneAfter

(* With nothing to come any state of a call will do.                       *)
LEMMA NothingComes ==
  ASSUME NEW r, NEW o, NEW d, NEW q, NEW i, NoneIn(d.line), NoneAfter(q, i), ~Heard(o, d)
  PROVE  Hopes(r, o, d, q, i)
  BY DEF Hopes, Coming, NoneIn, NoneAfter

-----------------------------------------------------------------------------
(* The types.                                                              *)
LEMMA TypedInit == GnssInit => Typed
  <1> SUFFICES ASSUME GnssInit PROVE Typed
    OBVIOUS
  <1>1. scenario \in Scenarios /\ Program \in Seq(Telemetry) /\ Program # <<>>
    BY GnssAssumption DEF GnssInit, Program
  <1>2. 1 \in 1 .. Len(Program)
    BY <1>1
  <1>3. RxTyped(rx)
    <2>1. PICK v \in Rates : rx = [out |-> <<>>, next |-> 1, cycle |-> 1, cmds |-> <<>>,
                                    run |-> TRUE, ram |-> v, nvm |-> v, rate |-> v]
      BY <1>1, GnssAssumption DEF GnssInit
    <2>2. <<>> \in Seq(PieceSet) /\ <<>> \in Seq(Commands)
      OBVIOUS
    <2> QED BY <1>2, <2>1, <2>2 DEF RxTyped, RxFields
  <1>4. DrvTyped(drv)
    BY DEF GnssInit, DrvTyped, DrvFields
  <1> QED BY <1>1, <1>3, <1>4 DEF GnssInit, Typed, NoOp, Pcs

(* A poll takes the first pieces that wait.                                *)
LEMMA DrainTyped ==
  ASSUME Typed, NEW n \in 0 .. Len(rx.out)
  PROVE  /\ RxTyped(Drain(n)) /\ Drain(n).cmds = rx.cmds
         /\ Drain(n).ram = rx.ram /\ Drain(n).nvm = rx.nvm
         /\ Len(Drain(n).out) = Len(rx.out) - n
         /\ \A j \in 1 .. Len(rx.out) - n : Drain(n).out[j] = rx.out[n + j]
  <1> DEFINE q == rx.out
             rest == SubSeq(q, n + 1, Len(q))
  <1>1. q \in Seq(PieceSet) /\ Len(q) \in Nat
    BY DEF Typed, RxTyped
  <1>2. \A i \in n + 1 .. Len(q) : q[i] \in PieceSet
    BY <1>1, ElementOfSeq
  <1> HIDE DEF q
  <1>3. /\ rest \in Seq(PieceSet)
        /\ Len(rest) = IF n + 1 <= Len(q) THEN Len(q) - (n + 1) + 1 ELSE 0
        /\ \A j \in 1 .. Len(q) - (n + 1) + 1 : rest[j] = q[n + 1 + j - 1]
    BY <1>1, <1>2, SubSeqProperties, n \in Int DEF q
  <1> HIDE DEF rest
  <1>4. Len(rest) = Len(q) - n /\ \A j \in 1 .. Len(q) - n : rest[j] = q[n + j]
    BY <1>1, <1>3 DEF q
  <1>5. Drain(n) = [rx EXCEPT !.out = rest]
    BY DEF Drain, rest, q
  <1>6. /\ RxTyped(Drain(n)) /\ Drain(n).cmds = rx.cmds /\ Drain(n).out = rest
        /\ Drain(n).ram = rx.ram /\ Drain(n).nvm = rx.nvm
    BY <1>3, <1>5 DEF Typed, RxTyped, RxFields
  <1> QED BY <1>4, <1>6 DEF q

(* What a poll leaves waits to be read.                                    *)
LEMMA DrainKeeps ==
  ASSUME Typed, NEW n \in 0 .. Len(rx.out), NEW o, NEW d, Hopes(rx, o, d, rx.out, n)
  PROVE  Hopes(Drain(n), o, d, Drain(n).out, 0)
  <1> DEFINE q == rx.out
             z == Drain(n).out
  <1>1. /\ Drain(n).cmds = rx.cmds /\ Drain(n).ram = rx.ram /\ Drain(n).nvm = rx.nvm
        /\ Len(q) \in Nat
        /\ Len(z) = Len(q) - n /\ \A j \in 1 .. Len(q) - n : z[j] = q[n + j]
    <2>1. rx.out \in Seq(PieceSet)
      BY DEF Typed, RxTyped
    <2>2. Len(rx.out) \in Nat
      BY <2>1, LenProperties
    <2> QED BY <2>2, DrainTyped
  <1> HIDE DEF z, q
  <1>2. ASSUME NEW i \in 0 .. Len(z), NoneAfter(q, n + i) PROVE NoneAfter(z, i)
    <2> SUFFICES ASSUME NEW j \in i + 1 .. Len(z) PROVE ~Carrier(z[j])
      BY DEF NoneAfter
    <2>1. n + j \in (n + i) + 1 .. Len(q) /\ z[j] = q[n + j]
      BY <1>1
    <2> QED BY <1>2, <2>1 DEF NoneAfter
  <1>3. NoneAfter(q, n) => NoneAfter(z, 0)
    <2>1. 0 \in 0 .. Len(z) /\ n + 0 = n
      BY <1>1
    <2> QED BY <1>2, <2>1
  <1>4. Hopes(rx, o, d, q, n)
    BY DEF q
  <1>5. \A k \in DOMAIN d.line : Carrier(d.line[k]) =>
           Expected(rx, o, d.line[k].of) /\ (Final(o, d.line[k].of) => NoneAfter(z, 0))
    BY <1>3, <1>4 DEF Hopes, Coming
  <1>6. ASSUME NEW j \in 1 .. Len(z), Carrier(z[j])
        PROVE  Expected(rx, o, z[j].of) /\ (Final(o, z[j].of) => NoneAfter(z, j))
    <2>1. n + j \in n + 1 .. Len(q) /\ z[j] = q[n + j] /\ j \in 0 .. Len(z)
      BY <1>1
    <2>2. Expected(rx, o, q[n + j].of) /\ (Final(o, q[n + j].of) => NoneAfter(q, n + j))
      BY <1>4, <1>6, <2>1 DEF Hopes, Coming
    <2> QED BY <1>2, <2>1, <2>2
  <1>7. Coming(rx, o, d.line, z, 0)
    BY <1>5, <1>6 DEF Coming
  <1>8. Coming(Drain(n), o, d.line, z, 0)
    BY <1>1, <1>7 DEF Coming, Expected
  <1>9. Heard(o, d) => NoneIn(d.line) /\ NoneAfter(z, 0) /\ Told(Drain(n), o, d)
    BY <1>1, <1>3, <1>4 DEF Hopes, Told
  <1> QED BY <1>8, <1>9 DEF Hopes, z

-----------------------------------------------------------------------------
(* An answer is the only one.                                              *)
LEMMA AnswerComes ==
  ASSUME NEW r, NEW o, NEW d, NEW q \in Seq(PieceSet), NEW w \in Seq(PieceSet),
         NoneIn(d.line), NoneAfter(q, 0), ~Heard(o, d),
         \A j \in 1 .. Len(w) : Carrier(w[j]) =>
            Expected(r, o, w[j].of) /\ (Final(o, w[j].of) => NoneAfter(w, j))
  PROVE  Hopes(r, o, d, q \o w, 0)
  <1> DEFINE z == q \o w
             n == Len(q)
  <1>1. /\ n \in Nat /\ Len(w) \in Nat /\ Len(z) = n + Len(w)
        /\ \A j \in 1 .. n : z[j] = q[j]
        /\ \A j \in 1 .. Len(w) : z[n + j] = w[j]
    OBVIOUS
  <1> HIDE DEF z
  <1>2. ASSUME NEW j \in 1 .. Len(z), Carrier(z[j])
        PROVE  j - n \in 1 .. Len(w) /\ z[j] = w[j - n]
    <2>1. j \notin 1 .. n
      BY <1>1, <1>2 DEF NoneAfter
    <2> HIDE DEF n
    <2>2. j - n \in 1 .. Len(w) /\ n + (j - n) = j
      BY <1>1, <2>1
    <2> QED BY <1>1, <2>2
  <1> HIDE DEF n
  <1>3. ASSUME NEW j \in 1 .. Len(z), Carrier(z[j])
        PROVE  Expected(r, o, z[j].of) /\ (Final(o, z[j].of) => NoneAfter(z, j))
    <2>1. j - n \in 1 .. Len(w) /\ z[j] = w[j - n]
      BY <1>2, <1>3
    <2>2. Expected(r, o, z[j].of) /\ (Final(o, z[j].of) => NoneAfter(w, j - n))
      BY <1>3, <2>1
    <2>3. ASSUME NoneAfter(w, j - n), NEW k \in j + 1 .. Len(z), Carrier(z[k]) PROVE FALSE
      <3>1. k \in 1 .. Len(z)
        BY <1>1
      <3>2. k - n \in 1 .. Len(w) /\ z[k] = w[k - n]
        BY <1>2, <2>3, <3>1
      <3>3. k - n \in (j - n) + 1 .. Len(w)
        BY <1>1, <3>2
      <3> QED BY <2>3, <3>2, <3>3 DEF NoneAfter
    <2> QED BY <2>2, <2>3 DEF NoneAfter
  <1> QED BY <1>3 DEF Hopes, Coming, NoneIn, z

(* An answer is accepted with one piece, the last that counts.             *)
LEMMA OnePiece ==
  ASSUME NEW s \in Said
  PROVE  /\ Pieces(s) \in Seq(PieceSet)
         /\ \A j \in 1 .. Len(Pieces(s)) : Carrier(Pieces(s)[j]) =>
               Pieces(s)[j].of = s /\ NoneAfter(Pieces(s), j)
  BY PiecesOf DEF NoneAfter

(* An echo and the answer behind it.                                       *)
LEMMA TwoPieces ==
  ASSUME NEW s \in Said, NEW t \in Said
  PROVE  LET w == Pieces(s) \o Pieces(t)
         IN  /\ w \in Seq(PieceSet)
             /\ \A j \in 1 .. Len(w) : Carrier(w[j]) =>
                   w[j].of = s \/ (w[j].of = t /\ NoneAfter(w, j))
  <1> DEFINE a == Pieces(s)
             b == Pieces(t)
             w == a \o b
  <1>1. /\ a \in Seq(PieceSet) /\ b \in Seq(PieceSet) /\ Len(a) = 4 /\ Len(b) = 4
        /\ \A i \in 1 .. 4 : a[i].of = s /\ b[i].of = t /\ (Carrier(b[i]) => i = 3)
    BY PiecesOf
  <1> HIDE DEF a, b
  <1>2. /\ w \in Seq(PieceSet) /\ Len(w) = 8
        /\ \A i \in 1 .. 4 : w[i] = a[i] /\ w[4 + i] = b[i]
    <2>0. a \in Seq(PieceSet) /\ b \in Seq(PieceSet) /\ Len(a) = 4 /\ Len(b) = 4
      BY <1>1
    <2>1. w \in Seq(PieceSet) /\ Len(w) = 8
      <3>1. w \in Seq(PieceSet) /\ Len(w) = Len(a) + Len(b)
        BY <2>0, ConcatProperties, Zenon
      <3> HIDE DEF w
      <3> QED BY <2>0, <3>1
    <2>2. \A i \in 1 .. 8 : w[i] = IF i <= 4 THEN a[i] ELSE b[i - 4]
      BY <2>0, <2>1, ConcatProperties
    <2> HIDE DEF w
    <2>3. ASSUME NEW i \in 1 .. 4 PROVE w[i] = a[i] /\ w[4 + i] = b[i]
      <3> DEFINE j == 4 + i
      <3>1. i \in 1 .. 8 /\ j \in 1 .. 8 /\ i <= 4 /\ ~(j <= 4) /\ j - 4 = i
        OBVIOUS
      <3> HIDE DEF j
      <3>2. w[i] = a[i] /\ w[j] = b[i]
        BY <2>2, <3>1
      <3> QED BY <3>2 DEF j
    <2> QED BY <2>1, <2>3
  <1> HIDE DEF w
  <1>3. ASSUME NEW j \in 5 .. 8, Carrier(w[j]) PROVE j = 7 /\ w[j].of = t
    <2>1. j - 4 \in 1 .. 4 /\ 4 + (j - 4) = j
      OBVIOUS
    <2>2. w[j] = b[j - 4]
      BY <1>2, <2>1
    <2> QED BY <1>1, <1>3, <2>1, <2>2
  <1>4. ASSUME NEW j \in 1 .. 8, Carrier(w[j])
        PROVE  w[j].of = s \/ (w[j].of = t /\ NoneAfter(w, j))
    <2>1. CASE j \in 1 .. 4
      BY <1>1, <1>2, <2>1
    <2>2. CASE j \in 5 .. 8
      BY <1>2, <1>3, <1>4, <2>2 DEF NoneAfter
    <2> QED BY <2>1, <2>2
  <1> QED BY <1>2, <1>4 DEF w, a, b

-----------------------------------------------------------------------------
(* The receiver.                                                           *)

LEMMA EmitKeeps ==
  ASSUME Typed, CallInv, Emit
  PROVE  Typed' /\ CallInv'
  <1>0. rx.out \in Seq(PieceSet)
    BY DEF Typed, RxTyped
  <1>1. PICK z \in Seq(PieceSet) :
           /\ NoneIn(z)
           /\ RxTyped(rx') /\ rx'.out = rx.out \o z /\ rx'.cmds = rx.cmds
           /\ rx'.ram = rx.ram /\ rx'.nvm = rx.nvm
    BY <1>0, EmitAppends
  <1>2. scenario' = scenario /\ drv' = drv /\ op' = op
    BY DEF Emit
  <1>4. Typed'
    <2>1. RxTyped(rx)'
      BY <1>1, <1>2 DEF RxTyped, Program
    <2> QED BY <1>2, <2>1 DEF Typed, DrvTyped
  <1>5. CallInv'
    <2>2. Hopes(rx', op, drv, rx.out \o z, 0)
      BY <1>0, <1>1, MoreTelemetry DEF CallInv
    <2>3. Queue(rx', op) /\ Results(rx', op)
      BY <1>1 DEF CallInv, Queue, Results
    <2> QED BY <1>1, <1>2, <2>2, <2>3 DEF CallInv
  <1> QED BY <1>4, <1>5

(* The receiver says nothing but sentences and answers.                    *)
LEMMA SaidByTheReceiver ==
  /\ \A w \in {"SETPAROK", "SETPARERROR", "SAVEPAROK"} :
        /\ Reply(w) \in Said
        /\ Reply(w).type = "PSTM" /\ Reply(w).what = w
  /\ \A v \in Rates, m \in BOOLEAN :
        /\ ValueReply(v, m) \in Said
        /\ ValueReply(v, m).type = "PSTM" /\ ValueReply(v, m).what = "SETPAR"
        /\ ValueReply(v, m).val = v /\ ValueReply(v, m).mode = m
  BY DEF Reply, ValueReply, Said, Answers

(* What the receiver has in hand when it obeys.                            *)
LEMMA InHand ==
  ASSUME NEW r, NEW o, Queue(r, o), r.cmds \in Seq(Commands), r.cmds # <<>>
  PROVE  /\ Head(r.cmds) \in Commands /\ Tail(r.cmds) \in Seq(Commands)
         /\ o.pc \notin {"save", "srr"}
         /\ o.pc = "await_save" => Head(r.cmds).what = "SAVEPAR" /\ Tail(r.cmds) = <<>>
         /\ o.pc # "await_save" =>
              /\ Head(r.cmds).what \in Mute \/ (Tail(r.cmds) = <<>> /\ Asked(o, Head(r.cmds)))
              /\ \A i \in DOMAIN Tail(r.cmds) :
                    \/ Tail(r.cmds)[i].what \in Mute
                    \/ i = Len(Tail(r.cmds)) /\ Asked(o, Tail(r.cmds)[i])
  <1> DEFINE q == r.cmds
             rest == Tail(q)
  <1>1. /\ q \in Seq(Commands) /\ Len(q) \in Nat \ {0} /\ Head(q) = q[1] /\ 1 \in DOMAIN q
        /\ rest \in Seq(Commands) /\ Len(rest) = Len(q) - 1
        /\ \A i \in 1 .. Len(rest) : i + 1 \in 1 .. Len(q) /\ rest[i] = q[i + 1]
    OBVIOUS
  <1>2. Len(q) = 1 => rest = <<>>
    BY <1>1
  <1>3. q[1] \in Commands
    BY <1>1, ElementOfSeq
  <1> HIDE DEF rest
  <1>4. o.pc \notin {"save", "srr"}
    BY DEF Queue
  <1>5. ASSUME o.pc = "await_save" PROVE q[1].what = "SAVEPAR" /\ rest = <<>>
    <2>1. q = <<[what |-> "SAVEPAR"]>>
      BY <1>5 DEF Queue
    <2> QED BY <1>2, <2>1
  <1>6. ASSUME o.pc # "await_save"
        PROVE  /\ q[1].what \in Mute \/ (rest = <<>> /\ Asked(o, q[1]))
               /\ \A i \in DOMAIN rest :
                     rest[i].what \in Mute \/ (i = Len(rest) /\ Asked(o, rest[i]))
    <2>1. \A i \in 1 .. Len(q) : q[i].what \in Mute \/ (i = Len(q) /\ Asked(o, q[i]))
      BY <1>1, <1>4, <1>6 DEF Queue
    <2>2. q[1].what \in Mute \/ (rest = <<>> /\ Asked(o, q[1]))
      BY <1>1, <1>2, <2>1
    <2>3. ASSUME NEW i \in DOMAIN rest
          PROVE  rest[i].what \in Mute \/ (i = Len(rest) /\ Asked(o, rest[i]))
      <3> DEFINE j == i + 1
      <3>1. i \in 1 .. Len(rest) /\ i \in Nat
        BY <1>1
      <3>2. j \in 1 .. Len(q) /\ rest[i] = q[j]
        BY <1>1, <3>1, Zenon
      <3>3. Len(rest) = Len(q) - 1 /\ Len(q) \in Nat
        BY <1>1
      <3>4. j = Len(q) => i = Len(rest)
        BY <3>1, <3>3
      <3> HIDE DEF j
      <3> QED BY <2>1, <3>2, <3>4
    <2> QED BY <2>2, <2>3
  <1> QED BY <1>1, <1>3, <1>4, <1>5, <1>6 DEF rest

(* What a command does to the receiver.                                    *)
Obeyed(r, c, rest) ==
  \/ /\ c.what = "SETPAR" /\ r.cmds = rest
     /\ r.ram = (IF c.mode THEN rx.ram ELSE c.val) /\ r.nvm = rx.nvm
     /\ r.out = rx.out \o (Pieces(ValueReply(c.val, c.mode)) \o Pieces(Reply("SETPAROK")))
  \/ /\ c.what = "SETPAR" /\ r.cmds = rest /\ r.ram = rx.ram /\ r.nvm = rx.nvm
     /\ r.out = rx.out \o (Pieces(ValueReply(c.val, c.mode)) \o Pieces(Reply("SETPARERROR")))
  \/ /\ c.what = "SAVEPAR" /\ r.cmds = rest /\ r.ram = rx.ram /\ r.nvm = rx.ram
     /\ r.out = rx.out \o Pieces(Reply("SAVEPAROK"))
  \/ /\ c.what = "GETPAR" /\ r.cmds = rest /\ r.ram = rx.ram /\ r.nvm = rx.nvm
     /\ r.out = rx.out \o Pieces(ValueReply(rx.ram, FALSE))
  \/ /\ c.what \in {"SUSPEND", "RESTART"} /\ r.cmds = rest /\ r.ram = rx.ram /\ r.nvm = rx.nvm
     /\ r.out = rx.out
  \/ /\ c.what = "SRR" /\ r.cmds = <<>> /\ r.ram = rx.nvm /\ r.nvm = rx.nvm
     /\ \E n \in 0 .. Len(rx.out) : r.out = SubSeq(rx.out, 1, n)

(* It does so and no more.                                                 *)
LEMMA ObeyDoes ==
  ASSUME Typed, Obey
  PROVE  RxTyped(rx') /\ Obeyed(rx', Head(rx.cmds), Tail(rx.cmds))
  <1> DEFINE c == Head(rx.cmds)
             rest == Tail(rx.cmds)
             q == rx.out
             e == Pieces(ValueReply(c.val, c.mode))
             a == Pieces(Reply("SETPAROK"))
             b == Pieces(Reply("SETPARERROR"))
             k == Pieces(Reply("SAVEPAROK"))
             v == Pieces(ValueReply(rx.ram, FALSE))
  <1>1. /\ q \in Seq(PieceSet) /\ c \in Commands /\ rest \in Seq(Commands)
        /\ rx.ram \in Rates /\ rx.nvm \in Rates /\ rx.cycle \in Nat /\ 1 \in 1 .. Len(Program)
        /\ DOMAIN rx = RxFields
    <2>1. rx.cmds \in Seq(Commands) /\ rx.cmds # <<>>
      BY Zenon DEF Typed, RxTyped, Obey
    <2>2. Head(rx.cmds) \in Commands /\ Tail(rx.cmds) \in Seq(Commands)
      BY <2>1
    <2>3. 1 \in 1 .. Len(Program)
      <3>1. rx.next \in 1 .. Len(Program)
        BY DEF Typed, RxTyped
      <3> QED BY <3>1
    <2> QED BY <2>2, <2>3 DEF Typed, RxTyped
  <1>2. /\ a \in Seq(PieceSet) /\ b \in Seq(PieceSet) /\ k \in Seq(PieceSet)
        /\ v \in Seq(PieceSet)
    BY <1>1, SaidByTheReceiver, OnePiece
  <1>3. c.what = "SETPAR" => c.val \in Rates /\ c.mode \in BOOLEAN
    BY <1>1 DEF Commands
  <1>4. c.what = "SETPAR" => e \in Seq(PieceSet)
    BY <1>3, SaidByTheReceiver, OnePiece
  <1> HIDE DEF c, rest, q, e, a, b, k, v
  <1>5. \A x, y \in Seq(PieceSet) : (q \o x) \o y = q \o (x \o y)
    BY SMTT(30), <1>1, ConcatAssociative
  <1>6. \A x \in Seq(PieceSet) : q \o x \in Seq(PieceSet)
    BY <1>1
  <1>7. \A x, y \in Seq(PieceSet) : q \o (x \o y) \in Seq(PieceSet)
    BY <1>1
  <1>8. CASE c.what = "SETPAR" /\ \E m \in Rates, x \in {a, b} :
               /\ rx' = [[[rx EXCEPT !.cmds = rest] EXCEPT !.ram = m, !.out = @ \o e]
                            EXCEPT !.out = @ \o x]
               /\ \/ x = a /\ m = IF c.mode THEN rx.ram ELSE c.val
                  \/ x = b /\ m = rx.ram
    <2>1. PICK m \in Rates, x \in {a, b} :
               /\ rx' = [[[rx EXCEPT !.cmds = rest] EXCEPT !.ram = m, !.out = @ \o e]
                            EXCEPT !.out = @ \o x]
               /\ \/ x = a /\ m = IF c.mode THEN rx.ram ELSE c.val
                  \/ x = b /\ m = rx.ram
      BY <1>8
    <2> DEFINE z == (q \o e) \o x
    <2>2. z = q \o (e \o x) /\ z \in Seq(PieceSet)
      <3>1. e \in Seq(PieceSet) /\ x \in Seq(PieceSet)
        BY <1>2, <1>4, <1>8
      <3> QED BY <1>5, <1>7, <3>1
    <2>3. /\ DOMAIN rx' = RxFields /\ rx'.out = z /\ rx'.cmds = rest
          /\ rx'.next = rx.next /\ rx'.cycle = rx.cycle /\ rx'.ram = m /\ rx'.nvm = rx.nvm
      BY <1>1, <2>1 DEF RxFields, q
    <2> HIDE DEF z
    <2>4. RxTyped(rx')
      BY <1>1, <2>2, <2>3 DEF Typed, RxTyped
    <2>5. Obeyed(rx', c, rest)
      BY <1>8, <2>1, <2>2, <2>3 DEF Obeyed, q, e, a, b
    <2> QED BY <2>4, <2>5 DEF c, rest
  <1>9. CASE c.what = "SAVEPAR" /\ rx' = [[[rx EXCEPT !.cmds = rest] EXCEPT !.nvm = rx.ram]
                                             EXCEPT !.out = @ \o k]
    <2>1. /\ DOMAIN rx' = RxFields /\ rx'.out = q \o k /\ rx'.cmds = rest
          /\ rx'.next = rx.next /\ rx'.cycle = rx.cycle /\ rx'.ram = rx.ram /\ rx'.nvm = rx.ram
      BY <1>1, <1>9 DEF RxFields, q
    <2>2. RxTyped(rx')
      BY SMTT(30), <1>1, <1>2, <1>6, <2>1 DEF Typed, RxTyped
    <2> QED BY <1>9, <2>1, <2>2 DEF Obeyed, c, rest, q, k
  <1>10. CASE c.what = "GETPAR" /\ rx' = [[rx EXCEPT !.cmds = rest] EXCEPT !.out = @ \o v]
    <2>1. /\ DOMAIN rx' = RxFields /\ rx'.out = q \o v /\ rx'.cmds = rest
          /\ rx'.next = rx.next /\ rx'.cycle = rx.cycle /\ rx'.ram = rx.ram /\ rx'.nvm = rx.nvm
      BY <1>1, <1>10 DEF RxFields, q
    <2>2. RxTyped(rx')
      BY SMTT(30), <1>1, <1>2, <1>6, <2>1 DEF Typed, RxTyped
    <2> QED BY <1>10, <2>1, <2>2 DEF Obeyed, c, rest, q, v
  <1>11. CASE c.what \in {"SUSPEND", "RESTART"}
              /\ rx' = [[rx EXCEPT !.cmds = rest] EXCEPT !.run = c.what = "RESTART"]
    <2>1. /\ DOMAIN rx' = RxFields /\ rx'.out = q /\ rx'.cmds = rest
          /\ rx'.next = rx.next /\ rx'.cycle = rx.cycle /\ rx'.ram = rx.ram /\ rx'.nvm = rx.nvm
      BY <1>1, <1>11 DEF RxFields, q
    <2>2. RxTyped(rx')
      BY SMTT(30), <1>1, <2>1 DEF Typed, RxTyped
    <2> QED BY <1>11, <2>1, <2>2 DEF Obeyed, c, rest, q
  <1>12. CASE c.what = "SRR" /\ \E n \in 0 .. Len(q) :
                rx' = [rx EXCEPT !.cmds = <<>>, !.out = SubSeq(@, 1, n), !.run = TRUE,
                                 !.ram = rx.nvm, !.rate = rx.nvm, !.next = 1, !.cycle = @ + 1]
    <2>1. PICK n \in 0 .. Len(q) :
                rx' = [rx EXCEPT !.cmds = <<>>, !.out = SubSeq(@, 1, n), !.run = TRUE,
                                 !.ram = rx.nvm, !.rate = rx.nvm, !.next = 1, !.cycle = @ + 1]
      BY <1>12
    <2> DEFINE z == SubSeq(q, 1, n)
    <2>2. z \in Seq(PieceSet)
      BY <1>1
    <2>3. /\ DOMAIN rx' = RxFields /\ rx'.out = z /\ rx'.cmds = <<>>
          /\ rx'.next = 1 /\ rx'.cycle = rx.cycle + 1 /\ rx'.ram = rx.nvm /\ rx'.nvm = rx.nvm
      BY <1>1, <2>1 DEF RxFields, q
    <2> HIDE DEF z
    <2>4. RxTyped(rx')
      <3>1. rx.cycle \in Nat /\ rx.nvm \in Rates
        BY Zenon DEF Typed, RxTyped
      <3>2. rx.cycle + 1 \in Nat
        BY <3>1
      <3>3. 1 \in 1 .. Len(Program) /\ <<>> \in Seq(Commands)
        BY <1>1, EmptySeq, Zenon
      <3> QED BY <2>2, <2>3, <3>1, <3>2, <3>3 DEF RxTyped
    <2> QED BY <1>12, <2>3, <2>4 DEF Obeyed, c, rest, q, z
  <1>13. \/ /\ c.what = "SETPAR"
            /\ \E m \in Rates, x \in {a, b} :
               /\ rx' = [[[rx EXCEPT !.cmds = rest] EXCEPT !.ram = m, !.out = @ \o e]
                            EXCEPT !.out = @ \o x]
               /\ \/ x = a /\ m = IF c.mode THEN rx.ram ELSE c.val
                  \/ x = b /\ m = rx.ram
         \/ /\ c.what = "SAVEPAR"
            /\ rx' = [[[rx EXCEPT !.cmds = rest] EXCEPT !.nvm = rx.ram] EXCEPT !.out = @ \o k]
         \/ c.what = "GETPAR" /\ rx' = [[rx EXCEPT !.cmds = rest] EXCEPT !.out = @ \o v]
         \/ /\ c.what \in {"SUSPEND", "RESTART"}
            /\ rx' = [[rx EXCEPT !.cmds = rest] EXCEPT !.run = c.what = "RESTART"]
         \/ /\ c.what = "SRR"
            /\ \E n \in 0 .. Len(q) :
                rx' = [rx EXCEPT !.cmds = <<>>, !.out = SubSeq(@, 1, n), !.run = TRUE,
                                 !.ram = rx.nvm, !.rate = rx.nvm, !.next = 1, !.cycle = @ + 1]
    <2> DEFINE done == [rx EXCEPT !.cmds = rest]
    <2>1. CASE c.what = "SETPAR" /\ rx' = [[done EXCEPT !.ram = IF c.mode THEN rx.ram ELSE c.val, !.out = @ \o e]
                                           EXCEPT !.out = @ \o a]
      BY <1>1, <1>3, <2>1
    <2>2. CASE c.what = "SETPAR" /\ rx' = [[done EXCEPT !.out = @ \o e] EXCEPT !.out = @ \o b]
      <3>1. [done EXCEPT !.ram = rx.ram, !.out = @ \o e] = [done EXCEPT !.out = @ \o e]
        BY <1>1 DEF RxFields
      <3> QED BY <1>1, <2>2, <3>1
    <2>3. \/ c.what = "SETPAR" /\ rx' = [[done EXCEPT !.ram = IF c.mode THEN rx.ram ELSE c.val, !.out = @ \o e]
                                           EXCEPT !.out = @ \o a]
          \/ c.what = "SETPAR" /\ rx' = [[done EXCEPT !.out = @ \o e] EXCEPT !.out = @ \o b]
          \/ c.what = "SAVEPAR" /\ rx' = [[done EXCEPT !.nvm = rx.ram] EXCEPT !.out = @ \o k]
          \/ c.what = "GETPAR" /\ rx' = [done EXCEPT !.out = @ \o v]
          \/ c.what \in {"SUSPEND", "RESTART"} /\ rx' = [done EXCEPT !.run = c.what = "RESTART"]
          \/ /\ c.what = "SRR"
            /\ \E n \in 0 .. Len(q) :
                rx' = [rx EXCEPT !.cmds = <<>>, !.out = SubSeq(@, 1, n), !.run = TRUE,
                                 !.ram = rx.nvm, !.rate = rx.nvm, !.next = 1, !.cycle = @ + 1]
      BY ZenonT(60) DEF Obey, c, rest, q, e, a, b, k, v
    <2> QED BY <2>1, <2>2, <2>3, Zenon
  <1> QED BY <1>8, <1>9, <1>10, <1>11, <1>12, <1>13, Zenon

(* What a command makes the receiver say is what the call expects.         *)
LEMMA ObeyedKeeps ==
  ASSUME Typed, CallInv, rx.cmds # <<>>, NEW r, r.out \in Seq(PieceSet),
         Obeyed(r, Head(rx.cmds), Tail(rx.cmds))
  PROVE  Hopes(r, op, drv, r.out, 0) /\ Queue(r, op) /\ Results(r, op)
  <1> DEFINE c == Head(rx.cmds)
             rest == Tail(rx.cmds)
             q == rx.out
  <1>0. q \in Seq(PieceSet) /\ rx.cmds \in Seq(Commands) /\ rx.ram \in Rates
    BY DEF Typed, RxTyped
  <1>1. Hopes(rx, op, drv, q, 0) /\ Queue(rx, op) /\ Results(rx, op)
    BY DEF CallInv
  <1>2. NoneIn(drv.line) /\ NoneAfter(q, 0) /\ ~Heard(op, drv)
    BY <1>1, Unanswered
  <1>3. /\ c \in Commands
        /\ op.pc \notin {"save", "srr"}
        /\ op.pc = "await_save" => c.what = "SAVEPAR" /\ rest = <<>>
        /\ op.pc # "await_save" =>
              /\ c.what \in Mute \/ (rest = <<>> /\ Asked(op, c))
              /\ \A i \in DOMAIN rest :
                    rest[i].what \in Mute \/ (i = Len(rest) /\ Asked(op, rest[i]))
    BY <1>0, <1>1, InHand
  <1>4. c.what = "SETPAR" => c.val \in Rates /\ c.mode \in BOOLEAN
    BY <1>3 DEF Commands
  <1>5. /\ op.call = "get_fix_rate" => op.result \notin Rates
        /\ op.pc # "idle" => op.result = "none"
        /\ op.call = "set_fix_rate" /\ op.result = "ok" /\ op.arg # "OFF" => rx.nvm = op.arg
        /\ op.pc = "suspend" => op.arg = "OFF"
    BY <1>1 DEF Results
  <1>6. "none" \notin Rates
    BY GnssAssumption
  <1> HIDE DEF c, rest, q
  <1>7. ASSUME NEW w \in Seq(PieceSet), r.out = q \o w, r.cmds = <<>>,
               op.pc \in {"await_setpar", "await_save", "await_getpar"},
               op.pc = "await_save" => Kept(op, r.ram),
               \A j \in 1 .. Len(w) : Carrier(w[j]) =>
                  Expected(r, op, w[j].of) /\ (Final(op, w[j].of) => NoneAfter(w, j))
        PROVE  Hopes(r, op, drv, r.out, 0) /\ Queue(r, op) /\ Results(r, op)
    <2>1. Hopes(r, op, drv, r.out, 0)
      BY <1>0, <1>2, <1>7, AnswerComes
    <2>2. Queue(r, op)
      BY <1>7 DEF Queue
    <2>3. Results(r, op)
      BY <1>5, <1>6, <1>7 DEF Results
    <2> QED BY <2>1, <2>2, <2>3
  <1>8. ASSUME c.what = "SETPAR", r.cmds = rest, NEW u \in {"SETPAROK", "SETPARERROR"},
               r.out = q \o (Pieces(ValueReply(c.val, c.mode)) \o Pieces(Reply(u))),
               u = "SETPAROK" => r.ram = IF c.mode THEN rx.ram ELSE c.val
        PROVE  Hopes(r, op, drv, r.out, 0) /\ Queue(r, op) /\ Results(r, op)
    <2> DEFINE s == ValueReply(c.val, c.mode)
               t == Reply(u)
               w == Pieces(s) \o Pieces(t)
    <2>1. /\ s \in Said /\ s.what = "SETPAR" /\ t \in Said /\ t.what = u
      BY <1>4, <1>8, SaidByTheReceiver
    <2> HIDE DEF s, t
    <2>2. /\ w \in Seq(PieceSet)
          /\ \A j \in 1 .. Len(w) : Carrier(w[j]) =>
                w[j].of = s \/ (w[j].of = t /\ NoneAfter(w, j))
      BY <2>1, TwoPieces
    <2> HIDE DEF w
    <2>3. op.pc = "await_setpar" /\ rest = <<>> /\ c.val = op.arg /\ c.mode = (op.call = "rf_debug")
      BY <1>3, <1>8 DEF Asked, Mute
    <2>4. Expected(r, op, s) /\ ~Final(op, s)
      BY <1>8, <2>1, <2>3 DEF Expected, Final
    <2>5. u = "SETPAROK" => Kept(op, r.ram)
      BY <1>8, <2>3 DEF Kept
    <2>6. Expected(r, op, t)
      BY <1>8, <2>1, <2>3, <2>5 DEF Expected
    <2>7. \A j \in 1 .. Len(w) : Carrier(w[j]) =>
             Expected(r, op, w[j].of) /\ (Final(op, w[j].of) => NoneAfter(w, j))
      BY <2>2, <2>4, <2>6
    <2>8. r.out = q \o w
      BY <1>8 DEF w, s, t
    <2> QED BY <1>7, <1>8, <2>2, <2>3, <2>7, <2>8
  <1>9. ASSUME NEW s \in Said, r.out = q \o Pieces(s), r.cmds = <<>>, Expected(r, op, s),
               op.pc \in {"await_save", "await_getpar"},
               op.pc = "await_save" => Kept(op, r.ram)
        PROVE  Hopes(r, op, drv, r.out, 0) /\ Queue(r, op) /\ Results(r, op)
    <2> DEFINE w == Pieces(s)
    <2>1. /\ w \in Seq(PieceSet)
          /\ \A j \in 1 .. Len(w) : Carrier(w[j]) => w[j].of = s /\ NoneAfter(w, j)
      BY OnePiece
    <2>2. r.out = q \o w
      BY <1>9
    <2> HIDE DEF w
    <2> QED BY <1>7, <1>9, <2>1, <2>2
  <1>10. CASE c.what = "SAVEPAR" /\ r.cmds = rest /\ r.ram = rx.ram /\ r.nvm = rx.ram
              /\ r.out = rx.out \o Pieces(Reply("SAVEPAROK"))
    <2> DEFINE s == Reply("SAVEPAROK")
    <2>1. s \in Said /\ s.what = "SAVEPAROK"
      BY SaidByTheReceiver
    <2> HIDE DEF s
    <2>2. op.pc = "await_save" /\ rest = <<>>
      BY <1>3, <1>10 DEF Asked, Mute
    <2>3. Kept(op, rx.ram)
      BY <1>1, <2>2 DEF Queue
    <2>4. Expected(r, op, s)
      BY <1>10, <2>1, <2>2, <2>3 DEF Expected
    <2>5. r.out = q \o Pieces(s)
      BY <1>10 DEF q, s
    <2> QED BY <1>9, <1>10, <2>1, <2>2, <2>3, <2>4, <2>5
  <1>11. CASE c.what = "GETPAR" /\ r.cmds = rest /\ r.ram = rx.ram
              /\ r.out = rx.out \o Pieces(ValueReply(rx.ram, FALSE))
    <2> DEFINE s == ValueReply(rx.ram, FALSE)
    <2>1. s \in Said /\ s.what = "SETPAR" /\ s.val = rx.ram /\ s.mode = FALSE
      BY <1>0, SaidByTheReceiver
    <2> HIDE DEF s
    <2>2. op.pc = "await_getpar" /\ rest = <<>>
      BY <1>3, <1>11 DEF Asked, Mute
    <2>3. Expected(r, op, s)
      BY <1>11, <2>1, <2>2 DEF Expected
    <2>4. r.out = q \o Pieces(s)
      BY <1>11 DEF q, s
    <2> QED BY <1>9, <1>11, <2>1, <2>2, <2>3, <2>4
  <1>12. CASE c.what \in {"SUSPEND", "RESTART"} /\ r.cmds = rest /\ r.ram = rx.ram
              /\ r.nvm = rx.nvm /\ r.out = q
    <2>1. Hopes(r, op, drv, r.out, 0)
      BY <1>2, <1>12, NothingComes
    <2>2. op.pc # "await_save"
      BY <1>3, <1>12
    <2>3. Queue(r, op)
      BY <1>3, <1>12, <2>2 DEF Queue
    <2>4. Results(r, op)
      BY <1>5, <1>12 DEF Results
    <2> QED BY <2>1, <2>3, <2>4
  <1>13. CASE c.what = "SRR" /\ r.cmds = <<>> /\ r.nvm = rx.nvm
              /\ \E n \in 0 .. Len(q) : r.out = SubSeq(q, 1, n)
    <2>1. NoneAfter(r.out, 0)
      <3>1. PICK n \in 0 .. Len(q) : r.out = SubSeq(q, 1, n)
        BY <1>13
      <3>2. /\ Len(q) \in Nat
            /\ Len(SubSeq(q, 1, n)) = n /\ \A j \in 1 .. n : SubSeq(q, 1, n)[j] = q[j]
        BY <1>0
      <3> QED BY <1>2, <3>1, <3>2 DEF NoneAfter
    <2>2. Hopes(r, op, drv, r.out, 0)
      BY <1>2, <2>1, NothingComes
    <2>3. op.pc # "await_save"
      BY <1>3, <1>13
    <2>4. Queue(r, op)
      BY <1>3, <1>13, <2>3 DEF Queue
    <2>5. Results(r, op)
      BY <1>5, <1>13 DEF Results
    <2> QED BY <2>2, <2>4, <2>5
  <1> QED BY <1>8, <1>10, <1>11, <1>12, <1>13, Zenon DEF Obeyed, c, rest, q

(* Obeying a command keeps the promise.                                    *)
LEMMA ObeyKeeps ==
  ASSUME Typed, CallInv, Obey
  PROVE  Typed' /\ CallInv'
  <1>0. rx.cmds # <<>>
    BY Zenon DEF Obey
  <1>1. RxTyped(rx') /\ Obeyed(rx', Head(rx.cmds), Tail(rx.cmds))
    BY <1>0, ObeyDoes
  <1>2. scenario' = scenario /\ drv' = drv /\ op' = op
    BY Zenon DEF Obey
  <1>4. Typed'
    <2>1. RxTyped(rx)'
      BY <1>1, <1>2 DEF RxTyped, Program
    <2> QED BY <1>2, <2>1 DEF Typed, DrvTyped
  <1>5. CallInv'
    <2>2. rx'.out \in Seq(PieceSet)
      BY <1>1 DEF RxTyped
    <2>3. Hopes(rx', op, drv, rx'.out, 0) /\ Queue(rx', op) /\ Results(rx', op)
      BY <1>0, <1>1, <2>2, ObeyedKeeps
    <2> QED BY <1>2, <2>3 DEF CallInv
  <1> QED BY <1>4, <1>5

-----------------------------------------------------------------------------
(* The driver.                                                             *)

(* Between two questions nothing is expected.                              *)
LEMMA Unasked ==
  ASSUME NEW r, NEW o, NEW d, NEW q, Hopes(r, o, d, q, 0),
         o.pc \notin {"await_setpar", "await_save", "await_getpar"}
  PROVE  NoneIn(d.line) /\ NoneAfter(q, 0) /\ ~Heard(o, d)
  BY DEF Hopes, Coming, Expected, Heard, NoneIn, NoneAfter

(* A poll, whatever call it is part of.                                    *)
LEMMA PolledKeeps ==
  ASSUME Typed, CallInv, NEW n \in 0 .. Len(rx.out)
  PROVE  /\ DrvTyped(Polled(n)) /\ RxTyped(Drain(n))
         /\ Drain(n).cmds = rx.cmds /\ Drain(n).ram = rx.ram /\ Drain(n).nvm = rx.nvm
         /\ Hopes(Drain(n), op, Polled(n), Drain(n).out, 0)
         /\ Queue(Drain(n), op) /\ Results(Drain(n), op)
  <1>1. DrvTyped(Polled(n)) /\ Hopes(rx, op, Polled(n), rx.out, n)
    BY PollReads DEF CallInv
  <1>2. Hopes(Drain(n), op, Polled(n), Drain(n).out, 0)
    BY <1>1, DrainKeeps
  <1>3. /\ RxTyped(Drain(n))
        /\ Drain(n).cmds = rx.cmds /\ Drain(n).ram = rx.ram /\ Drain(n).nvm = rx.nvm
    BY DrainTyped
  <1>4. Queue(Drain(n), op) /\ Results(Drain(n), op)
    BY <1>3 DEF CallInv, Queue, Results
  <1> QED BY <1>1, <1>2, <1>3, <1>4

(* gps_task's own poll, with no call on its way.                           *)
LEMMA PollKeeps ==
  ASSUME Typed, CallInv, Poll
  PROVE  Typed' /\ CallInv'
  <1>1. PICK n \in 0 .. Len(rx.out) : drv' = Polled(n) /\ rx' = Drain(n)
    BY DEF Poll
  <1>2. scenario' = scenario /\ op' = op
    BY DEF Poll
  <1>3. /\ DrvTyped(drv') /\ RxTyped(rx')
        /\ Hopes(rx', op, drv', rx'.out, 0) /\ Queue(rx', op) /\ Results(rx', op)
    BY <1>1, PolledKeeps
  <1>4. Typed'
    BY <1>2, <1>3 DEF Typed, RxTyped, Program, DrvTyped
  <1> QED BY <1>2, <1>3, <1>4 DEF CallInv

(* A list is stored beside the line and the answers.                       *)
LEMMA StoreKeeps ==
  ASSUME Typed, CallInv, StoreRf
  PROVE  Typed' /\ CallInv'
  <1>1. scenario' = scenario /\ rx' = rx /\ op' = op
    BY DEF StoreRf
  <1>2. DrvTyped(drv') /\ drv'.line = drv.line /\ drv'.resp = drv.resp /\ drv'.getpar = drv.getpar
    BY DEF StoreRf, Succeeds, Typed, DrvTyped, DrvFields
  <1>3. Typed'
    BY <1>1, <1>2 DEF Typed, RxTyped, Program, DrvTyped
  <1>4. Hopes(rx', op', drv', rx'.out, 0)
    BY <1>1, <1>2 DEF CallInv, Hopes, Heard, Told
  <1> QED BY <1>1, <1>3, <1>4 DEF CallInv

OpTyped(o) ==
  /\ DOMAIN o = {"call", "pc", "arg", "result", "n"} /\ o.pc \in Pcs
  /\ o.pc \in {"restart", "setpar"} => o.arg \in Rates

(* The poll of a call: what it takes for its answer is its answer.         *)
LEMMA PollAwaitingKeeps ==
  ASSUME Typed, CallInv, PollAwaiting
  PROVE  Typed' /\ CallInv'
  <1>1. PICK n \in 0 .. Len(rx.out) :
           /\ drv' = Polled(n) /\ rx' = Drain(n)
           /\ op' = CASE op.pc = "await_setpar" /\ drv'.resp = Good.setpar -> [op EXCEPT !.pc = "save"]
                      [] op.pc = "await_setpar" /\ drv'.resp = Bad.setpar -> Return("failed")
                      [] op.pc = "await_save" /\ drv'.resp = Good.save -> [op EXCEPT !.pc = "srr"]
                      [] op.pc = "await_save" /\ drv'.resp = Bad.save -> Return("failed")
                      [] op.pc = "await_getpar" /\ drv'.getpar # "none" -> Return(drv'.getpar)
                      [] OTHER -> op
    BY DEF PollAwaiting
  <1>2. scenario' = scenario /\ op.pc \in {"await_setpar", "await_save", "await_getpar"}
    BY DEF PollAwaiting, Awaiting
  <1>3. /\ DrvTyped(drv') /\ RxTyped(rx')
        /\ Hopes(rx', op, drv', rx'.out, 0) /\ Queue(rx', op) /\ Results(rx', op)
    BY <1>1, PolledKeeps
  <1>4. RxTyped(rx)' /\ DrvTyped(drv)' /\ rx'.ram \in Rates
    BY <1>2, <1>3 DEF RxTyped, Program, DrvTyped
  <1>5. DOMAIN op = {"call", "pc", "arg", "result", "n"} /\ op.result = "none"
    BY <1>2, <1>3 DEF Typed, Results
  <1>6. Rates \cap {"OFF", "none", "ok", "failed"} = {}
    BY GnssAssumption
  <1>7. CASE op' = op
    BY <1>2, <1>3, <1>4, <1>7 DEF Typed, CallInv
  <1>8. ASSUME Heard(op, drv'), OpTyped(op'), op'.pc \in {"save", "srr", "idle"},
               op'.pc = "save" => Kept(op', rx'.ram), op'.pc = "srr" => Kept(op', rx'.nvm),
               Results(rx', op')
        PROVE  Typed' /\ CallInv'
    <2>1. NoneIn(drv'.line) /\ NoneAfter(rx'.out, 0) /\ Told(rx', op, drv')
      BY <1>3, <1>8 DEF Hopes
    <2>2. ~Heard(op', drv')
      BY <1>8 DEF Heard
    <2>3. Hopes(rx', op', drv', rx'.out, 0)
      BY <2>1, <2>2, NothingComes
    <2>4. Queue(rx', op')
      BY <1>8, <2>1 DEF Queue, Told
    <2> QED BY <1>2, <1>4, <1>8, <2>3, <2>4 DEF Typed, CallInv, OpTyped
  <1>9. CASE op.pc = "await_setpar" /\ drv'.resp = "SETPAROK" /\ op' = [op EXCEPT !.pc = "save"]
    <2>1. Heard(op, drv')
      BY <1>9 DEF Heard
    <2>2. Kept(op, rx'.ram)
      BY <1>3, <1>9, <2>1 DEF Hopes, Told
    <2>3. op'.pc = "save" /\ op'.call = op.call /\ op'.arg = op.arg /\ op'.result = "none"
      BY <1>5, <1>9
    <2>4. OpTyped(op')
      BY <1>5, <1>9, <2>3 DEF OpTyped, Pcs
    <2> QED BY <1>6, <1>8, <2>1, <2>2, <2>3, <2>4 DEF Kept, Results
  <1>10. CASE op.pc = "await_save" /\ drv'.resp = "SAVEPAROK" /\ op' = [op EXCEPT !.pc = "srr"]
    <2>1. Heard(op, drv')
      BY <1>10 DEF Heard
    <2>2. Kept(op, rx'.nvm)
      BY <1>3, <1>10, <2>1 DEF Hopes, Told
    <2>3. op'.pc = "srr" /\ op'.call = op.call /\ op'.arg = op.arg /\ op'.result = "none"
      BY <1>5, <1>10
    <2>4. OpTyped(op')
      BY <1>5, <1>10, <2>3 DEF OpTyped, Pcs
    <2> QED BY <1>6, <1>8, <2>1, <2>2, <2>3, <2>4 DEF Kept, Results
  <1>11. CASE /\ op.pc \in {"await_setpar", "await_save"} /\ drv'.resp # "NONE"
              /\ op' = Return("failed")
    <2>1. Heard(op, drv')
      BY <1>11 DEF Heard
    <2>3. op'.pc = "idle" /\ op'.result = "failed"
      BY <1>5, <1>11 DEF Return
    <2>4. OpTyped(op')
      BY <1>5, <1>11, <2>3 DEF OpTyped, Pcs, Return
    <2> QED BY <1>6, <1>8, <2>1, <2>3, <2>4 DEF Results
  <1>12. CASE op.pc = "await_getpar" /\ drv'.getpar # "none" /\ op' = Return(drv'.getpar)
    <2>1. Heard(op, drv')
      BY <1>12 DEF Heard
    <2>2. drv'.getpar = rx'.ram /\ rx'.cmds = <<>>
      BY <1>3, <1>12, <2>1 DEF Hopes, Told
    <2>3. op'.pc = "idle" /\ op'.result = rx'.ram
      BY <1>5, <1>12, <2>2 DEF Return
    <2>4. OpTyped(op')
      BY <1>5, <1>12, <2>3 DEF OpTyped, Pcs, Return
    <2>5. op'.result # "ok"
      BY <1>4, <1>6, <2>3
    <2>6. Results(rx', op')
      BY <2>2, <2>3, <2>5 DEF Results
    <2> QED BY <1>8, <2>1, <2>3, <2>4, <2>6
  <1> QED BY <1>1, <1>2, <1>7, <1>9, <1>10, <1>11, <1>12 DEF Good, Bad

(* A failed transfer of a poll is only counted.                            *)
LEMMA PollFailsKeeps ==
  ASSUME Typed, CallInv, PollFails
  PROVE  Typed' /\ CallInv'
  <1>1. scenario' = scenario /\ rx' = rx /\ op' = op
    BY DEF PollFails
  <1>2. PICK m, b : drv' = [drv EXCEPT !.fails = m, !.online = b]
    BY DEF PollFails
  <1>3. /\ DrvTyped(drv') /\ drv'.line = drv.line
        /\ drv'.resp = drv.resp /\ drv'.getpar = drv.getpar
    BY <1>2 DEF Typed, DrvTyped, DrvFields
  <1>4. Typed'
    BY <1>1, <1>3 DEF Typed, RxTyped, Program, DrvTyped
  <1>5. Hopes(rx, op, drv', rx.out, 0)
    BY <1>3 DEF CallInv, Hopes, Heard, Told
  <1> QED BY <1>1, <1>4, <1>5 DEF CallInv

(* A call begins when nothing is expected.                                 *)
LEMMA CallKeeps ==
  ASSUME Typed, CallInv, GnssCall
  PROVE  Typed' /\ CallInv'
  <1>1. scenario' = scenario /\ rx' = rx /\ drv' = drv /\ op.pc = "idle"
    BY DEF GnssCall
  <1>2. /\ DOMAIN op' = {"call", "pc", "arg", "result", "n"} /\ op'.result = "none"
        /\ op'.pc \in {"suspend", "restart", "getpar", "setpar"}
        /\ op'.pc = "suspend" => op'.arg = "OFF"
        /\ op'.pc \in {"restart", "setpar"} => op'.arg \in Rates
    <2>1. PICK c \in scenario.calls, r \in Rates \cup {"OFF"} :
             /\ r = "OFF" => c = "set_fix_rate"
             /\ op' = [call |-> c, arg |-> r, result |-> "none", n |-> op.n + 1,
                       pc |-> CASE c = "set_fix_rate" /\ r = "OFF" -> "suspend"
                                [] c = "set_fix_rate" /\ r # "OFF" /\ drv.fix_rate = "OFF" -> "restart"
                                [] c = "get_fix_rate" -> "getpar"
                                [] OTHER -> "setpar"]
      BY DEF GnssCall
    <2> DEFINE p == CASE c = "set_fix_rate" /\ r = "OFF" -> "suspend"
                      [] c = "set_fix_rate" /\ r # "OFF" /\ drv.fix_rate = "OFF" -> "restart"
                      [] c = "get_fix_rate" -> "getpar"
                      [] OTHER -> "setpar"
    <2>2. "OFF" \notin Rates
      BY GnssAssumption
    <2>3. \/ c = "set_fix_rate" /\ r = "OFF" /\ p = "suspend"
          \/ c = "set_fix_rate" /\ r # "OFF" /\ p = "restart"
          \/ r # "OFF" /\ p = "getpar"
          \/ r # "OFF" /\ p = "setpar"
      <3>1. CASE r = "OFF"
        <4>1. c = "set_fix_rate"
          BY <2>1, <3>1
        <4>2. p = "suspend"
          BY <3>1, <4>1
        <4> HIDE DEF p
        <4> QED BY <3>1, <4>1, <4>2
      <3>2. CASE c = "set_fix_rate" /\ r # "OFF" /\ drv.fix_rate = "OFF"
        <4>1. p = "restart"
          BY <3>2
        <4> HIDE DEF p
        <4> QED BY <3>2, <4>1
      <3>3. CASE r # "OFF" /\ c = "get_fix_rate"
        <4>1. p = "getpar"
          BY <3>3
        <4> HIDE DEF p
        <4> QED BY <3>3, <4>1
      <3>4. CASE r # "OFF" /\ ~(c = "set_fix_rate" /\ drv.fix_rate = "OFF") /\ c # "get_fix_rate"
        <4>1. p = "setpar"
          BY <3>4
        <4> HIDE DEF p
        <4> QED BY <3>4, <4>1
      <3> QED BY <3>1, <3>2, <3>3, <3>4
    <2>4. op' = [call |-> c, arg |-> r, result |-> "none", n |-> op.n + 1, pc |-> p]
      BY <2>1
    <2> HIDE DEF p
    <2>5. /\ DOMAIN op' = {"call", "pc", "arg", "result", "n"} /\ op'.result = "none"
          /\ op'.pc = p /\ op'.arg = r
      BY <2>4
    <2> QED BY <2>2, <2>3, <2>5
  <1>3. NoneIn(drv.line) /\ NoneAfter(rx.out, 0)
    BY <1>1, Unasked DEF CallInv
  <1>4. Hopes(rx, op', drv, rx.out, 0)
    BY <1>2, <1>3, NothingComes DEF Heard
  <1>5. Queue(rx, op')
    BY <1>1, <1>2 DEF CallInv, Queue, Asked
  <1>6. Results(rx, op')
    BY <1>2, GnssAssumption DEF Results
  <1>7. Typed'
    BY <1>1, <1>2 DEF Typed, RxTyped, Program, DrvTyped, Pcs
  <1> QED BY <1>1, <1>4, <1>5, <1>6, <1>7 DEF CallInv

(* What the step of a call leaves: nothing awaited has been heard of.      *)
LEMMA SendMoves ==
  ASSUME Typed, Send
  PROVE  /\ scenario' = scenario /\ op.pc \in DOMAIN Command
         /\ DrvTyped(drv)' /\ drv'.line = drv.line /\ ~Heard(op', drv')
         /\ OpTyped(op') /\ op'.call = op.call /\ op'.arg = op.arg
         /\ \/ op.pc = "suspend" /\ op'.pc = "idle" /\ op'.result = "ok"
            \/ op.pc = "restart" /\ op'.pc = "setpar" /\ op'.result = op.result
            \/ op.pc = "setpar" /\ op'.pc = "await_setpar" /\ op'.result = op.result
            \/ op.pc = "save" /\ op'.pc = "await_save" /\ op'.result = op.result
            \/ op.pc = "srr" /\ op'.pc = "idle" /\ op'.result = "ok"
            \/ op.pc = "getpar" /\ op'.pc = "await_getpar" /\ op'.result = op.result
            \/ op'.pc = "idle" /\ op'.result = "failed" /\ rx' = rx
         /\ rx' = [rx EXCEPT !.cmds = Append(@, Command[op.pc])] \/ (rx' = rx /\ op'.pc \in {"setpar", "idle"})
  <1>1. /\ scenario' = scenario /\ op.pc \in {"suspend", "restart", "setpar", "save", "srr", "getpar"}
        /\ op.pc \in DOMAIN Command
        /\ \/ op' = After(drv)[1] /\ drv' = After(drv)[2]
           \/ op' = Return("failed") /\ drv' = drv /\ rx' = rx
        /\ \/ rx' = [rx EXCEPT !.cmds = Append(@, Command[op.pc])]
           \/ rx' = rx /\ op.pc \in BestEffort
           \/ rx' = rx /\ op' = Return("failed")
    BY DEF Send, Command
  <1>2. /\ DOMAIN op = {"call", "pc", "arg", "result", "n"}
        /\ op.pc \in {"restart", "setpar"} => op.arg \in Rates
        /\ DrvTyped(drv)
    BY DEF Typed
  <1>3. CASE op' = Return("failed") /\ drv' = drv /\ rx' = rx
    <2>1. /\ DOMAIN op' = {"call", "pc", "arg", "result", "n"} /\ op'.pc = "idle"
          /\ op'.result = "failed" /\ op'.call = op.call /\ op'.arg = op.arg
      BY <1>2, <1>3 DEF Return
    <2> QED BY <1>1, <1>2, <1>3, <2>1 DEF OpTyped, Pcs, Heard, DrvTyped
  <1>4. ASSUME NEW p \in Pcs, NEW w, op' = [op EXCEPT !.pc = p, !.result = w]
        PROVE  /\ DOMAIN op' = {"call", "pc", "arg", "result", "n"} /\ op'.pc = p
               /\ op'.result = w /\ op'.call = op.call /\ op'.arg = op.arg
    BY <1>2, <1>4
  <1>5. ASSUME NEW p \in Pcs, op' = [op EXCEPT !.pc = p]
        PROVE  /\ DOMAIN op' = {"call", "pc", "arg", "result", "n"} /\ op'.pc = p
               /\ op'.result = op.result /\ op'.call = op.call /\ op'.arg = op.arg
    BY <1>2, <1>5
  <1>6. ASSUME NEW v, drv' = [drv EXCEPT !.fix_rate = v] \/ drv' = drv
        PROVE  DrvTyped(drv') /\ drv'.line = drv.line
    BY <1>2, <1>6 DEF DrvTyped, DrvFields
  <1>7. CASE op.pc \in {"suspend", "srr"} /\ op' = After(drv)[1] /\ drv' = After(drv)[2]
    <2>1. op' = [op EXCEPT !.pc = "idle", !.result = "ok"]
      BY <1>7 DEF After, Return
    <2>2. \E v : drv' = [drv EXCEPT !.fix_rate = v] \/ drv' = drv
      BY <1>7 DEF After
    <2>3. /\ DOMAIN op' = {"call", "pc", "arg", "result", "n"} /\ op'.pc = "idle"
          /\ op'.result = "ok" /\ op'.call = op.call /\ op'.arg = op.arg
      BY <1>4, <2>1 DEF Pcs
    <2>4. DrvTyped(drv') /\ drv'.line = drv.line
      BY <1>6, <2>2
    <2> QED BY <1>1, <1>7, <2>3, <2>4 DEF OpTyped, Pcs, Heard, DrvTyped
  <1>8. CASE op.pc = "restart" /\ op' = After(drv)[1] /\ drv' = After(drv)[2]
    <2>1. op' = [op EXCEPT !.pc = "setpar"] /\ drv' = drv
      BY <1>8 DEF After
    <2>2. /\ DOMAIN op' = {"call", "pc", "arg", "result", "n"} /\ op'.pc = "setpar"
          /\ op'.result = op.result /\ op'.call = op.call /\ op'.arg = op.arg
      BY <1>5, <2>1 DEF Pcs
    <2> QED BY <1>1, <1>2, <1>8, <2>1, <2>2 DEF OpTyped, Pcs, Heard, DrvTyped
  <1>9. CASE op.pc \in {"setpar", "save"} /\ op' = After(drv)[1] /\ drv' = After(drv)[2]
    <2> DEFINE p == IF op.pc = "setpar" THEN "await_setpar" ELSE "await_save"
    <2>1. op' = [op EXCEPT !.pc = p] /\ drv' = [drv EXCEPT !.resp = "NONE"] /\ p \in Pcs
      BY <1>9 DEF After, Pcs
    <2>2. /\ DOMAIN op' = {"call", "pc", "arg", "result", "n"} /\ op'.pc = p
          /\ op'.result = op.result /\ op'.call = op.call /\ op'.arg = op.arg
      BY <1>5, <2>1
    <2>3. DrvTyped(drv') /\ drv'.line = drv.line /\ drv'.resp = "NONE"
      BY <1>2, <2>1 DEF DrvTyped, DrvFields
    <2> QED BY <1>1, <1>9, <2>2, <2>3 DEF OpTyped, Pcs, Heard, DrvTyped, BestEffort, Return
  <1>10. CASE op.pc = "getpar" /\ op' = After(drv)[1] /\ drv' = After(drv)[2]
    <2>1. op' = [op EXCEPT !.pc = "await_getpar"] /\ drv' = [drv EXCEPT !.getpar = "none"]
      BY <1>10 DEF After, ForgetValue
    <2>2. /\ DOMAIN op' = {"call", "pc", "arg", "result", "n"} /\ op'.pc = "await_getpar"
          /\ op'.result = op.result /\ op'.call = op.call /\ op'.arg = op.arg
      BY <1>5, <2>1 DEF Pcs
    <2>3. DrvTyped(drv') /\ drv'.line = drv.line /\ drv'.getpar = "none"
      BY <1>2, <2>1 DEF DrvTyped, DrvFields
    <2> QED BY <1>1, <1>10, <2>2, <2>3 DEF OpTyped, Pcs, Heard, DrvTyped, BestEffort, Return
  <1> QED BY <1>1, <1>3, <1>7, <1>8, <1>9, <1>10

(* What a step of a call sends.                                            *)
LEMMA Sends ==
  ASSUME Typed, op.pc \in DOMAIN Command
  PROVE  LET c == Command[op.pc]
         IN  /\ op.pc \in {"suspend", "restart", "setpar", "save", "srr", "getpar"}
             /\ c \in Commands
             /\ op.pc = "suspend" => c.what = "SUSPEND"
             /\ op.pc = "restart" => c.what = "RESTART"
             /\ op.pc = "setpar" =>
                  c.what = "SETPAR" /\ c.val = op.arg /\ c.mode = (op.call = "rf_debug")
             /\ op.pc = "save" => c = [what |-> "SAVEPAR"]
             /\ op.pc = "srr" => c.what = "SRR"
             /\ op.pc = "getpar" => c.what = "GETPAR"
  <1>1. op.pc \in {"suspend", "restart", "setpar", "save", "srr", "getpar"}
    BY DEF Command
  <1>2. op.pc = "setpar" => op.arg \in Rates
    BY DEF Typed
  <1>3. (op.call = "rf_debug") \in BOOLEAN
    OBVIOUS
  <1>4. CASE op.pc = "setpar"
    <2> DEFINE c == [what |-> "SETPAR", val |-> op.arg, mode |-> op.call = "rf_debug"]
    <2>1. Command[op.pc] = c
      BY <1>4 DEF Command
    <2>2. c \in Commands
      BY <1>2, <1>3, <1>4 DEF Commands
    <2>3. c.what = "SETPAR" /\ c.val = op.arg /\ c.mode = (op.call = "rf_debug")
      OBVIOUS
    <2> HIDE DEF c
    <2> QED BY <1>4, <2>1, <2>2, <2>3
  <1>5. ASSUME NEW p \in {"suspend", "restart", "save", "srr", "getpar"}, op.pc = p,
               NEW w \in {"SUSPEND", "RESTART", "SAVEPAR", "SRR", "GETPAR"},
               Command[op.pc] = [what |-> w]
        PROVE  Command[op.pc] \in Commands /\ Command[op.pc].what = w
    BY <1>5 DEF Commands
  <1>6. /\ op.pc = "suspend" => Command[op.pc] = [what |-> "SUSPEND"]
        /\ op.pc = "restart" => Command[op.pc] = [what |-> "RESTART"]
        /\ op.pc = "save" => Command[op.pc] = [what |-> "SAVEPAR"]
        /\ op.pc = "srr" => Command[op.pc] = [what |-> "SRR"]
        /\ op.pc = "getpar" => Command[op.pc] = [what |-> "GETPAR"]
    BY DEF Command
  <1> QED BY <1>1, <1>4, <1>5, <1>6

(* A command is sent when nothing is expected, and is the only one to answer.*)
LEMMA SendKeeps ==
  ASSUME Typed, CallInv, Send
  PROVE  Typed' /\ CallInv'
  <1> DEFINE c == Command[op.pc]
  <1>1. /\ scenario' = scenario /\ op.pc \in DOMAIN Command
        /\ DrvTyped(drv)' /\ drv'.line = drv.line /\ ~Heard(op', drv')
        /\ OpTyped(op') /\ op'.call = op.call /\ op'.arg = op.arg
    BY SendMoves
  <1>2. /\ \/ op.pc = "suspend" /\ op'.pc = "idle" /\ op'.result = "ok"
           \/ op.pc = "restart" /\ op'.pc = "setpar" /\ op'.result = op.result
           \/ op.pc = "setpar" /\ op'.pc = "await_setpar" /\ op'.result = op.result
           \/ op.pc = "save" /\ op'.pc = "await_save" /\ op'.result = op.result
           \/ op.pc = "srr" /\ op'.pc = "idle" /\ op'.result = "ok"
           \/ op.pc = "getpar" /\ op'.pc = "await_getpar" /\ op'.result = op.result
           \/ op'.pc = "idle" /\ op'.result = "failed" /\ rx' = rx
        /\ rx' = [rx EXCEPT !.cmds = Append(@, c)] \/ (rx' = rx /\ op'.pc \in {"setpar", "idle"})
    BY SendMoves
  <1>3. /\ op.pc \in {"suspend", "restart", "setpar", "save", "srr", "getpar"}
        /\ c \in Commands
        /\ op.pc = "suspend" => c.what = "SUSPEND"
        /\ op.pc = "restart" => c.what = "RESTART"
        /\ op.pc = "setpar" =>
             c.what = "SETPAR" /\ c.val = op.arg /\ c.mode = (op.call = "rf_debug")
        /\ op.pc = "save" => c = [what |-> "SAVEPAR"]
        /\ op.pc = "srr" => c.what = "SRR"
        /\ op.pc = "getpar" => c.what = "GETPAR"
    BY <1>1, Sends
  <1> HIDE DEF c
  <1>4. rx.cmds \in Seq(Commands) /\ Append(rx.cmds, c) \in Seq(Commands)
    BY <1>3 DEF Typed, RxTyped
  <1>5. /\ RxTyped(rx') /\ rx'.out = rx.out /\ rx'.ram = rx.ram /\ rx'.nvm = rx.nvm
        /\ rx'.cmds = Append(rx.cmds, c) \/ (rx'.cmds = rx.cmds /\ op'.pc \in {"setpar", "idle"})
    BY <1>2, <1>4 DEF Typed, RxTyped, RxFields
  <1>6. Typed'
    BY <1>1, <1>5 DEF Typed, RxTyped, Program, OpTyped
  <1>7. Hopes(rx', op', drv', rx'.out, 0)
    <2>1. NoneIn(drv.line) /\ NoneAfter(rx.out, 0)
      BY <1>3, Unasked DEF CallInv
    <2> QED BY <1>1, <1>5, <2>1, NothingComes
  <1>8. /\ op.pc \in {"save", "srr"} => rx.cmds = <<>>
        /\ op.pc \notin {"save", "srr"} => \A i \in DOMAIN rx.cmds : rx.cmds[i].what \in Mute
        /\ op.pc = "save" => Kept(op, rx.ram)
        /\ op.pc = "srr" => Kept(op, rx.nvm)
        /\ op.result = "none"
        /\ op.pc = "suspend" => op.arg = "OFF"
    BY <1>3 DEF CallInv, Queue, Results, Asked
  <1>9. Queue(rx', op')
    <2>1. CASE op.pc = "save" /\ op'.pc = "await_save"
      <3>1. rx'.cmds = <<[what |-> "SAVEPAR"]>>
        BY <1>3, <1>5, <1>8, <2>1
      <3> QED BY <1>1, <1>5, <1>8, <2>1, <3>1 DEF Queue, Kept
    <2>2. CASE op'.pc \in {"idle", "setpar", "await_setpar", "await_getpar"}
      <3>1. \A i \in DOMAIN rx.cmds : rx.cmds[i].what \in Mute
        BY <1>8
      <3>2. CASE rx'.cmds = rx.cmds
        BY <2>2, <3>1, <3>2 DEF Queue
      <3>3. CASE rx'.cmds = Append(rx.cmds, c) /\ (c.what \in Mute \/ Asked(op', c))
        <4>1. /\ Len(rx'.cmds) = Len(rx.cmds) + 1 /\ Len(rx.cmds) \in Nat
              /\ rx'.cmds[Len(rx.cmds) + 1] = c
              /\ \A i \in 1 .. Len(rx.cmds) : rx'.cmds[i] = rx.cmds[i] /\ i \in DOMAIN rx.cmds
              /\ DOMAIN rx'.cmds = 1 .. Len(rx.cmds) + 1
          BY <1>4, <3>3
        <4>2. \A i \in DOMAIN rx'.cmds :
                 rx'.cmds[i].what \in Mute \/ (i = Len(rx'.cmds) /\ Asked(op', rx'.cmds[i]))
          <5>1. \A i \in DOMAIN rx'.cmds : i \in 1 .. Len(rx.cmds) \/ i = Len(rx.cmds) + 1
            BY <4>1
          <5> QED BY <3>1, <3>3, <4>1, <5>1
        <4> QED BY <2>2, <4>2 DEF Queue
      <3>4. c.what \in Mute \/ Asked(op', c) \/ rx'.cmds = rx.cmds
        <4>1. CASE op'.pc = "idle" /\ op'.result = "failed" /\ rx' = rx
          BY <4>1
        <4>2. CASE op.pc \in {"suspend", "restart", "srr"}
          BY <1>3, <4>2 DEF Mute
        <4>3. CASE op.pc = "setpar" /\ op'.pc = "await_setpar"
          BY <1>1, <1>3, <4>3 DEF Asked
        <4>4. CASE op.pc = "getpar" /\ op'.pc = "await_getpar"
          BY <1>1, <1>3, <4>4 DEF Asked
        <4> QED BY <1>2, <2>2, <4>1, <4>2, <4>3, <4>4
      <3> QED BY <1>5, <3>2, <3>3, <3>4
    <2> QED BY <1>2, <2>1, <2>2
  <1>10. Results(rx', op')
    <2>1. Rates \cap {"OFF", "none", "ok", "failed"} = {}
      BY GnssAssumption
    <2>2. /\ op'.result \in {"none", "ok", "failed"}
          /\ op'.pc # "idle" => op'.result = "none" /\ op'.pc # "suspend"
          /\ op'.result = "ok" => op.pc = "suspend" \/ op.pc = "srr"
      BY <1>2, <1>8
    <2>3. op'.result \notin Rates
      BY <2>1, <2>2
    <2>4. op'.call = "set_fix_rate" /\ op'.result = "ok" /\ op'.arg # "OFF" => rx'.nvm = op'.arg
      BY <1>1, <1>5, <1>8, <2>2 DEF Kept
    <2> QED BY <2>2, <2>3, <2>4 DEF Results
  <1> QED BY <1>6, <1>7, <1>9, <1>10 DEF CallInv

-----------------------------------------------------------------------------
(* The invariant holds in the beginning,                                   *)
LEMMA InitAnswers == GnssInit => AnswerInv
  <1> SUFFICES ASSUME GnssInit PROVE AnswerInv
    OBVIOUS
  <1>1. Typed
    BY TypedInit
  <1>2. /\ rx.out = <<>> /\ rx.cmds = <<>> /\ drv.line = <<>> /\ op = NoOp
    BY DEF GnssInit
  <1>3. Hopes(rx, op, drv, rx.out, 0)
    BY <1>2 DEF Hopes, Coming, Heard, NoOp
  <1>4. Queue(rx, op) /\ Results(rx, op)
    BY <1>2, GnssAssumption DEF Queue, Results, NoOp
  <1>5. Marked
    BY DEF GnssInit, Marked
  <1> QED BY <1>1, <1>3, <1>4, <1>5 DEF AnswerInv, CallInv

(* What has been given up stays so.                                        *)
LEMMA MarksStay ==
  ASSUME Marked, [GnssNext]_gnssVars
  PROVE  Marked' /\ (bad.late => bad'.late) /\ (GiveUp => bad'.late)
  <1>1. ASSUME bad' = bad PROVE Marked' /\ bad'.late = bad.late
    BY <1>1 DEF Marked
  <1>2. ASSUME NEW n, \/ bad' = [bad EXCEPT !.lost = n]
                      \/ bad' = [bad EXCEPT !.faults = n]
                      \/ bad' = [bad EXCEPT !.refused = n]
        PROVE  Marked' /\ bad'.late = bad.late
    BY <1>2 DEF Marked
  <1>3. CASE GiveUp
    <2>1. bad' = [bad EXCEPT !.late = TRUE]
      BY <1>3 DEF GiveUp
    <2> QED BY <2>1 DEF Marked
  <1>4. CASE ~GiveUp
    <2>1. \/ bad' = bad
          \/ bad' = [bad EXCEPT !.lost = bad.lost + 1]
          \/ bad' = [bad EXCEPT !.faults = bad.faults + 1]
          \/ bad' = [bad EXCEPT !.refused = bad.refused + 1]
      <3>1. ASSUME Emit \/ Obey
            PROVE  \/ bad' = bad \/ bad' = [bad EXCEPT !.lost = bad.lost + 1]
                   \/ bad' = [bad EXCEPT !.refused = bad.refused + 1]
        BY <3>1, Zenon DEF Emit, Obey
      <3>2. ASSUME \/ Poll \/ StoreRf \/ PollAwaiting \/ GnssCall \/ LvglTask
                   \/ Dummy \/ ReadSlot \/ UNCHANGED gnssVars
            PROVE  bad' = bad
        BY <3>2 DEF Poll, StoreRf, PollAwaiting, GnssCall, LvglTask, Refresh, CopySat, Render,
                    Dummy, ReadSlot, gnssVars
      <3>3. ASSUME PollFails \/ Send
            PROVE  bad' = bad \/ bad' = [bad EXCEPT !.faults = bad.faults + 1]
        BY <3>3 DEF PollFails, Send
      <3> QED BY SMTT(30), <1>4, <3>1, <3>2, <3>3 DEF GnssNext, GpsTask
    <2> QED BY <1>1, <1>2, <1>4, <2>1
  <1> QED BY <1>3, <1>4

(* and every step keeps it.                                                *)
LEMMA StepAnswers == AnswerInv /\ [GnssNext]_gnssVars => AnswerInv'
  <1> SUFFICES ASSUME AnswerInv, [GnssNext]_gnssVars PROVE AnswerInv'
    OBVIOUS
  <1>1. Marked' /\ (bad.late => bad'.late) /\ (GiveUp => bad'.late)
    BY MarksStay DEF AnswerInv
  <1>2. CASE bad'.late
    BY <1>1, <1>2 DEF AnswerInv
  <1>3. CASE ~bad'.late
    <2>1. Typed /\ CallInv /\ ~GiveUp
      BY <1>1, <1>3 DEF AnswerInv
    <2>2. CASE LvglTask \/ Dummy \/ ReadSlot \/ UNCHANGED gnssVars
      <3>1. scenario' = scenario /\ rx' = rx /\ drv' = drv /\ op' = op
        BY <2>2 DEF LvglTask, Refresh, CopySat, Render, Dummy, ReadSlot, gnssVars
      <3> QED BY <1>1, <2>1, <3>1 DEF AnswerInv, Typed, CallInv, RxTyped, Program, DrvTyped
    <2>3. (Typed' /\ CallInv') \/ LvglTask \/ Dummy \/ ReadSlot \/ UNCHANGED gnssVars
      BY <2>1, EmitKeeps, ObeyKeeps, PollKeeps, StoreKeeps, PollAwaitingKeeps, PollFailsKeeps,
         CallKeeps, SendKeeps DEF GnssNext, GpsTask
    <2> QED BY <1>1, <2>2, <2>3 DEF AnswerInv
  <1> QED BY <1>2, <1>3

(* The driver tells gps_task the truth about the receiver.                 *)
THEOREM AnswersBelongToCommands == GnssSpec => []AnswersAreTrue
  <1>1. AnswerInv => AnswersAreTrue
    BY DEF AnswerInv, CallInv, Results, AnswersAreTrue, RateAsReported, ValueAsReported
  <1> QED BY <1>1, InitAnswers, StepAnswers, PTL DEF GnssSpec

-----------------------------------------------------------------------------
(* The injector and its reader.                                            *)

GpsFields == {"write_idx", "buf", "half", "n", "slot", "got", "since"}

(* The published slot is whole, the other one as far as it is written, and *)
(* what Core 0 has read is of the published slot until the next one is.    *)
BufferInv ==
    /\ DOMAIN gps = GpsFields
    /\ gps.buf \in [1 .. 2 -> [1 .. 2 -> Nat]]
    /\ gps.write_idx \in 0 .. 1 /\ gps.half \in 0 .. 2 /\ gps.since \in Nat /\ gps.n \in Nat
    /\ gps.slot \in 0 .. 2 /\ gps.got \in Seq(Nat) /\ Len(gps.got) <= 2
    /\ gps.got # <<>> => gps.slot # 0
    /\ gps.buf[2 - gps.write_idx][1] = gps.buf[2 - gps.write_idx][2]
    /\ \A i \in 1 .. 2 : i <= gps.half => gps.buf[gps.write_idx + 1][i] = gps.n + 1
    /\ gps.since = 0 /\ gps.got # <<>> =>
         /\ gps.slot = 2 - gps.write_idx
         /\ \A i \in 1 .. 2 : i <= Len(gps.got) => gps.got[i] = gps.buf[gps.slot][i]

(* gps_dummy_task writes a half of its slot, or hands the slot over.       *)
LEMMA DummyBuffers == BufferInv /\ Dummy => BufferInv'
  <1> SUFFICES ASSUME BufferInv, Dummy PROVE BufferInv'
    OBVIOUS
  <1> DEFINE w == gps.write_idx
             h == gps.half
  <1>1. CASE h < 2
    <2> DEFINE b == [gps.buf EXCEPT ![w + 1][h + 1] = gps.n + 1]
    <2>1. w + 1 \in 1 .. 2 /\ h + 1 \in 1 .. 2 /\ gps.n + 1 \in Nat
      BY <1>1 DEF BufferInv
    <2>2. gps' = [gps EXCEPT !.buf = b, !.half = h + 1]
      BY <1>1 DEF Dummy
    <2>3. /\ b \in [1 .. 2 -> [1 .. 2 -> Nat]] /\ b[w + 1][h + 1] = gps.n + 1
          /\ \A i, j \in 1 .. 2 : <<i, j>> # <<w + 1, h + 1>> => b[i][j] = gps.buf[i][j]
      BY <2>1 DEF BufferInv
    <2> HIDE DEF b
    <2>4. /\ DOMAIN gps' = GpsFields /\ gps'.buf = b /\ gps'.half = h + 1
          /\ gps'.write_idx = w /\ gps'.n = gps.n /\ gps'.slot = gps.slot
          /\ gps'.got = gps.got /\ gps'.since = gps.since
      BY <2>2 DEF BufferInv, GpsFields
    <2>5. 2 - w \in 1 .. 2 /\ 2 - w # w + 1
      BY DEF BufferInv
    <2>6. b[2 - w][1] = gps.buf[2 - w][1] /\ b[2 - w][2] = gps.buf[2 - w][2]
      BY <2>1, <2>3, <2>5
    <2>7. \A i \in 1 .. 2 : i <= h + 1 => b[w + 1][i] = gps.n + 1
      BY SMTT(30), <1>1, <2>1, <2>3 DEF BufferInv
    <2>8. ASSUME gps.since = 0, gps.got # <<>>, NEW i \in 1 .. 2, i <= Len(gps.got)
          PROVE  gps.slot = 2 - w /\ gps.got[i] = b[gps.slot][i]
      <3>1. gps.slot = 2 - w /\ gps.got[i] = gps.buf[gps.slot][i]
        BY <2>8 DEF BufferInv
      <3>2. i = 1 \/ i = 2
        OBVIOUS
      <3>3. b[2 - w][i] = gps.buf[2 - w][i]
        BY <2>6, <3>2
      <3> HIDE DEF w
      <3> QED BY <3>1, <3>3
    <2> QED BY <1>1, <2>3, <2>4, <2>6, <2>7, <2>8 DEF BufferInv
  <1>2. CASE ~(h < 2)
    <2>1. gps' = [gps EXCEPT !.write_idx = 1 - @, !.half = 0, !.n = @ + 1, !.since = @ + 1]
      BY <1>2 DEF Dummy
    <2>2. /\ DOMAIN gps' = GpsFields /\ gps'.buf = gps.buf /\ gps'.half = 0
          /\ gps'.write_idx = 1 - w /\ gps'.n = gps.n + 1 /\ gps'.slot = gps.slot
          /\ gps'.got = gps.got /\ gps'.since = gps.since + 1
      BY <2>1 DEF BufferInv, GpsFields
    <2>3. h = 2 /\ 2 - (1 - w) = w + 1
      BY <1>2 DEF BufferInv
    <2>4. gps.buf[w + 1][1] = gps.n + 1 /\ gps.buf[w + 1][2] = gps.n + 1
      BY <2>3 DEF BufferInv
    <2> QED BY SMTT(30), <2>2, <2>3, <2>4 DEF BufferInv
  <1> QED BY <1>1, <1>2

(* Core 0 latches the published slot, or reads on in the one it has.       *)
LEMMA ReadBuffers == BufferInv /\ ReadSlot => BufferInv'
  <1> SUFFICES ASSUME BufferInv, ReadSlot PROVE BufferInv'
    OBVIOUS
  <1> DEFINE s == 2 - gps.write_idx
  <1>0. s \in 1 .. 2
    BY DEF BufferInv
  <1>1. CASE Len(gps.got) \in {0, 2}
    <2>1. gps' = [gps EXCEPT !.slot = s, !.since = 0, !.got = <<gps.buf[s][1]>>]
      BY <1>1 DEF ReadSlot
    <2>2. gps.buf[s][1] \in Nat
      BY <1>0 DEF BufferInv
    <2>3. /\ DOMAIN gps' = GpsFields /\ gps'.buf = gps.buf /\ gps'.half = gps.half
          /\ gps'.write_idx = gps.write_idx /\ gps'.n = gps.n /\ gps'.slot = s
          /\ gps'.got = <<gps.buf[s][1]>> /\ gps'.since = 0
      BY <2>1 DEF BufferInv, GpsFields
    <2> QED BY <1>0, <2>2, <2>3 DEF BufferInv
  <1>2. CASE Len(gps.got) \notin {0, 2}
    <2> DEFINE v == gps.buf[gps.slot][2]
    <2>1. gps' = [gps EXCEPT !.got = Append(@, v)]
      BY <1>2 DEF ReadSlot
    <2>2. Len(gps.got) = 1 /\ gps.slot \in 1 .. 2 /\ v \in Nat
      <3>1. Len(gps.got) = 1 /\ gps.got # <<>>
        <4> DEFINE n == Len(gps.got)
        <4>1. gps.got \in Seq(Nat) /\ n <= 2
          BY DEF BufferInv
        <4>2. n \in Nat
          BY <4>1, LenProperties
        <4>3. n # 0 /\ n # 2
          BY <1>2
        <4>4. gps.got = <<>> => n = 0
          BY EmptySeq, Zenon
        <4> HIDE DEF n
        <4>5. n = 1
          BY <4>1, <4>2, <4>3
        <4> QED BY <4>4, <4>5 DEF n
      <3>2. gps.slot \in 1 .. 2
        BY <3>1 DEF BufferInv
      <3> QED BY <3>1, <3>2 DEF BufferInv
    <2>3. /\ Append(gps.got, v) \in Seq(Nat) /\ Len(Append(gps.got, v)) = 2
          /\ Append(gps.got, v)[1] = gps.got[1] /\ Append(gps.got, v)[2] = v
      BY SMTT(30), <2>2 DEF BufferInv
    <2>4. /\ DOMAIN gps' = GpsFields /\ gps'.buf = gps.buf /\ gps'.half = gps.half
          /\ gps'.write_idx = gps.write_idx /\ gps'.n = gps.n /\ gps'.slot = gps.slot
          /\ gps'.got = Append(gps.got, v) /\ gps'.since = gps.since
      BY <2>1 DEF BufferInv, GpsFields
    <2> HIDE DEF v
    <2>5. gps.got # <<>>
      <3>1. gps.got = <<>> => Len(gps.got) = 0
        BY EmptySeq, Zenon
      <3> QED BY <2>2, <3>1
    <2>6. \A i \in 1 .. 2 : Append(gps.got, v)[i] = IF i = 1 THEN gps.got[1] ELSE v
      BY <2>3
    <2> HIDE DEF s
    <2> QED BY <2>2, <2>3, <2>4, <2>5, <2>6 DEF BufferInv, v
  <1> QED BY <1>1, <1>2

(* Core 0 reads whole sentences without a lock.                            *)
THEOREM SlotsAreReadWhole == GnssSpec => []ReadsWhole
  <1>1. GnssInit => BufferInv
    <2> SUFFICES ASSUME GnssInit PROVE BufferInv
      OBVIOUS
    <2> DEFINE b == <<<<0, 0>>, <<0, 0>>>>
    <2>1. gps = [write_idx |-> 0, buf |-> b, half |-> 0, n |-> 0,
                 slot |-> 0, got |-> <<>>, since |-> 0]
      BY DEF GnssInit
    <2>2. b \in [1 .. 2 -> [1 .. 2 -> Nat]] /\ b[2][1] = b[2][2]
      OBVIOUS
    <2> HIDE DEF b
    <2> QED BY <2>1, <2>2 DEF BufferInv, GpsFields
  <1>2. BufferInv /\ [GnssNext]_gnssVars => BufferInv'
    <2> SUFFICES ASSUME BufferInv, [GnssNext]_gnssVars PROVE BufferInv'
      OBVIOUS
    <2>1. CASE Dummy \/ ReadSlot
      BY <2>1, DummyBuffers, ReadBuffers
    <2>2. CASE ~(Dummy \/ ReadSlot)
      <3>1. gps' = gps
        BY <2>2, Zenon DEF GnssNext, gnssVars, GpsTask, LvglTask, Emit, Obey, Poll, StoreRf,
                    PollAwaiting, GiveUp, PollFails, GnssCall, Send, Refresh, CopySat, Render
      <3> QED BY <3>1, Zenon DEF BufferInv
    <2> QED BY <2>1, <2>2
  <1>3. BufferInv => ReadsWhole
    <2> SUFFICES ASSUME BufferInv, Len(gps.got) = 2, gps.since = 0 PROVE gps.got[1] = gps.got[2]
      BY DEF ReadsWhole
    <2> QED BY SMTT(30) DEF BufferInv
  <1> QED BY <1>1, <1>2, <1>3, PTL DEF GnssSpec
===============================================================================
