-------------------------------- MODULE Gnss --------------------------------
(***************************************************************************)
(* The GNSS driver of Core 1: teseo_liv3fl.c under gps_task (gps_task.c),  *)
(* the RF view that shows its state (rf_debug_view.c), and the             *)
(* fixed-position injector that replaces both in a build of its own        *)
(* (gps_dummy.c), whose double buffer Core 0 reads.                        *)
(*                                                                         *)
(* The receiver talks in sentences and answers commands in between.  A     *)
(* sentence reaches the driver in pieces - its "$", the first and the rest *)
(* of its body, its end of line - because a read of the bus may end        *)
(* anywhere in it, and because the receiver may drop any of them.          *)
(***************************************************************************)
EXTENDS Naturals, Sequences, FiniteSets, SequencesExt

CONSTANTS Scenarios,        \* what the receiver repeats and what is asked of it
          Rates,            \* gnss_rate_t, without GNSS_RATE_OFF
          Slots,            \* talkers s_gsv has room for (4)
          SatsMax, ViewMax, \* satellites of an accumulator (16), of a view or RF list (32)
          LineMax,          \* pieces s_line has room for
          Rows,             \* SAT_ROWS
          OfflineAfter,     \* FAIL_DISCONNECT_COUNT
          QueueMax          \* bound: pieces that may wait when one more sentence comes

\* The sentences of a cycle that the driver reads.
Telemetry ==
    [type : {"GSV"}, talker : STRING, idx : Nat, total : Nat, cycle : Nat]
    \cup [type : {"RF"}, idx : Nat, total : Nat, cn0 : Nat, cycle : Nat]
    \cup [type : {"GGA"}, quality : Nat, cycle : Nat]
    \cup [type : {"RMC"}, valid : BOOLEAN, cycle : Nat]

ASSUME GnssAssumption ==
    /\ Slots \in Nat \ {0} /\ SatsMax \in Nat \ {0} /\ ViewMax \in Nat \ {0}
    /\ LineMax \in Nat \ {0} /\ OfflineAfter \in Nat \ {0}
    /\ QueueMax \in Nat
    /\ "1HZ" \in Rates /\ Rates \cap {"OFF", "none", "ok", "failed"} = {}
    /\ \A s \in Scenarios : s.program \in Seq(Telemetry) /\ s.program # <<>> /\ s.rate \in Rates

VARIABLES scenario,  \* the scenario, fixed from the start
          rx,        \* the receiver
          drv,       \* the static state of teseo_liv3fl.c
          op,        \* the public call gps_task is in
          screen,    \* what rf_debug_view shows
          gps,       \* IpcGpsBuf, its writer and its reader
          bad        \* what went wrong so far: sentences lost, transfers failed,
                     \* commands refused, answers given up

gnssVars == <<scenario, rx, drv, op, screen, gps, bad>>

\* The bounds of a scenario: how often the receiver repeats itself, sentences
\* lost or cut, transfers that fail, calls, and commands that are refused.
Bound == scenario.max

-----------------------------------------------------------------------------
(* Sentences and their pieces.                                             *)

Piece(c, s, part) == [c |-> c, of |-> s, part |-> part]
Pieces(s) == <<Piece("$", s, 0), Piece("body", s, 1), Piece("body", s, 2), Piece("\n", s, 0)>>

Reply(what)      == [type |-> "PSTM", what |-> what]
ValueReply(r, m) == [type |-> "PSTM", what |-> "SETPAR", val |-> r, mode |-> m]

\* The sentences of a cycle, as a scenario lists them.
GSV(talker, idx, total) ==
    [type |-> "GSV", talker |-> talker, idx |-> idx, total |-> total, cycle |-> 0]
RF(idx, total, cn0) == [type |-> "RF", idx |-> idx, total |-> total, cn0 |-> cn0, cycle |-> 0]
GGA(quality)        == [type |-> "GGA", quality |-> quality, cycle |-> 0]
RMC(valid)          == [type |-> "RMC", valid |-> valid, cycle |-> 0]

-----------------------------------------------------------------------------
(* The parsers: what a verified sentence does to the driver's state d.     *)

\* parse_gga: the position is only taken with a fix.
ParseGga(d, s) ==
    [d EXCEPT !.quality = s.quality, !.pos = IF s.quality > 0 THEN "known" ELSE @]

ParseRmc(d, s) == [d EXCEPT !.valid = s.valid]

\* gsv_accum_for: the talker's slot, or the first free one, or 0.
GsvAccumFor(d, talker) ==
    LET own  == {i \in 1..Slots : d.gsv[i].talker = talker}
        free == {i \in 1..Slots : d.gsv[i].talker = "none"}
        First(S) == CHOOSE i \in S : \A j \in S : i <= j
    IN  IF own # {} THEN First(own) ELSE IF free # {} THEN First(free) ELSE 0

\* The satellites a list may still take.
Take(have, more, max) ==
    SubSeq(have \o more, 1, IF Len(have \o more) > max THEN max ELSE Len(have \o more))

\* Mutant: the order of the sentences is not looked at.
JoinAnyOrder(acc, s, max) ==
    [acc EXCEPT !.sats = Take(IF s.idx = 1 THEN <<>> ELSE @, <<s>>, max), !.next = s.idx + 1]

\* The cycle of parse_gsv and of parse_pstm_rf: sentence 1 starts it, a
\* sentence out of order drops it.
Join(acc, s, max) ==
    LET begun == IF s.idx = 1 THEN [acc EXCEPT !.next = 1, !.sats = <<>>] ELSE acc
    IN  IF s.idx # begun.next THEN [begun EXCEPT !.next = 0]
        ELSE [begun EXCEPT !.sats = Take(@, <<s>>, max), !.next = s.idx + 1]

\* The last sentence of a cycle that was in order publishes it.
Publishes(acc, s, max) == Join(acc, s, max).next # 0 /\ s.idx = s.total

\* publish_sat_view pools what all slots hold at this moment.
PublishSatView(gsv) ==
    Take(<<>>, FoldLeft(LAMBDA all, acc : all \o acc.sats, <<>>, gsv), ViewMax)

ParseGsv(d, s) ==
    LET i == GsvAccumFor(d, s.talker)
        acc == [d.gsv[i] EXCEPT !.talker = s.talker]
        gsv == [d.gsv EXCEPT ![i] = Join(acc, s, SatsMax)]
    IN  IF i = 0 THEN d
        ELSE IF Publishes(acc, s, SatsMax)
               THEN [d EXCEPT !.view = PublishSatView(gsv), !.published = s.talker,
                              !.gsv = [gsv EXCEPT ![i].next = 0]]
               ELSE [d EXCEPT !.gsv = gsv]

\* A finished list is due to be stored in the state that the RF view reads.
ParsePstmRf(d, s) ==
    LET rf == Join(d.rf, s, ViewMax)
    IN  IF Publishes(d.rf, s, ViewMax)
          THEN [d EXCEPT !.due = [sats |-> rf.sats, at |-> 1], !.rf = [rf EXCEPT !.next = 0]]
          ELSE [d EXCEPT !.rf = rf]

\* dispatch_pstm: an answer is noted; a SETPAR without a mode is taken for
\* the value GETPAR asked for, though it may be the echo of our own SETPAR.
DispatchPstm(d, s) ==
    CASE s.what # "SETPAR" -> [d EXCEPT !.resp = s.what]
      [] s.what = "SETPAR" /\ ~s.mode -> [d EXCEPT !.getpar = s.val]
      [] OTHER -> d

\* nmea_verify: the checksum holds for a whole sentence only.
Verified(line) ==
    /\ Len(line) = 3 /\ line[2].of = line[3].of
    /\ line[2].part = 1 /\ line[3].part = 2

DispatchLine(d) ==
    LET s == d.line[2].of
    IN  IF ~Verified(d.line) THEN d
        ELSE CASE s.type = "PSTM" -> DispatchPstm(d, s)
               [] s.type = "GSV" -> ParseGsv(d, s)
               [] s.type = "RF" -> ParsePstmRf(d, s)
               [] s.type = "GGA" -> ParseGga(d, s)
               [] s.type = "RMC" -> ParseRmc(d, s)

\* accumulate_byte: a line starts anywhere at a "$", and one that outgrows
\* the buffer is discarded.
AccumulateByte(d, p) ==
    CASE p.c = "$" -> [d EXCEPT !.line = <<p>>]
      [] p.c = "\n" -> [DispatchLine(d) EXCEPT !.line = <<>>]
      [] p.c = "body" ->
             [d EXCEPT !.line = IF Len(@) > 0 /\ Len(@) < LineMax THEN Append(@, p)
                                ELSE IF Len(@) >= LineMax THEN <<>> ELSE @]

-----------------------------------------------------------------------------
NoDue   == [sats |-> <<>>, at |-> 0]
NoSat   == RF(0, 0, 0)
NoAccum == [talker |-> "none", next |-> 0, sats |-> <<>>]
NoOp    == [call |-> "none", pc |-> "idle", arg |-> "none", result |-> "none", n |-> 0]

\* teseo_init has sent its best-effort RESTART; the receiver comes with the
\* rate of an earlier session in its memory.
GnssInit ==
    /\ scenario \in Scenarios
    /\ rx = [out |-> <<>>, next |-> 1, cycle |-> 1, cmds |-> <<>>, run |-> TRUE,
             ram |-> scenario.rate, nvm |-> scenario.rate, rate |-> scenario.rate]
    /\ drv = [line |-> <<>>, gsv |-> [i \in 1..Slots |-> NoAccum], view |-> <<>>,
              published |-> "none", rf |-> NoAccum, due |-> NoDue,
              count |-> 0, sats |-> [i \in 1..ViewMax |-> NoSat], updated |-> FALSE,
              quality |-> 0, valid |-> FALSE, pos |-> "none", resp |-> "NONE",
              getpar |-> "none", online |-> FALSE, fails |-> 0, fix_rate |-> "1HZ"]
    /\ op = NoOp
    /\ screen = [pc |-> "idle", n |-> 0, copy |-> <<>>, rows |-> <<>>, footer |-> "enable",
                 pos |-> "none"]
    /\ gps = [write_idx |-> 0, buf |-> <<<<0, 0>>, <<0, 0>>>>, half |-> 0, n |-> 0,
              slot |-> 0, got |-> <<>>, since |-> 0]
    /\ bad = [lost |-> 0, faults |-> 0, refused |-> 0, late |-> FALSE]

-----------------------------------------------------------------------------
(* The receiver.                                                           *)

Program == scenario.program
Room    == Len(rx.out) <= QueueMax

\* The next sentence of the cycle, marked with the cycle it belongs to.
Sentence == [Program[rx.next] EXCEPT !.cycle = rx.cycle]

Advance == [rx EXCEPT !.next = (rx.next % Len(Program)) + 1,
                      !.cycle = IF rx.next = Len(Program) THEN @ + 1 ELSE @]

\* It emits a sentence, or loses all or one piece of it.
Emit ==
    /\ ~scenario.dummy /\ rx.run /\ Room /\ rx.cycle <= Bound.cycles
    /\ \/ rx' = [Advance EXCEPT !.out = @ \o Pieces(Sentence)] /\ UNCHANGED bad
       \/ /\ bad.lost < Bound.lost
          /\ bad' = [bad EXCEPT !.lost = @ + 1]
          /\ \E lost \in 0..4 :
               rx' = [Advance EXCEPT !.out = IF lost = 0 THEN @
                                             ELSE @ \o RemoveAt(Pieces(Sentence), lost)]
    /\ UNCHANGED <<scenario, drv, op, screen, gps>>

\* It obeys a command, and answers it or refuses it.
Obey ==
    /\ rx.cmds # <<>> /\ Room
    /\ LET c == Head(rx.cmds)
           done == [rx EXCEPT !.cmds = Tail(@)]
           Says(r, s) == [r EXCEPT !.out = @ \o Pieces(s)]
           echo == Pieces(ValueReply(c.val, c.mode))
       IN  \/ /\ c.what = "SETPAR"
              /\ rx' = Says([done EXCEPT !.ram = IF c.mode THEN @ ELSE c.val, !.out = @ \o echo],
                            Reply("SETPAROK"))
              /\ UNCHANGED bad
           \/ /\ c.what = "SETPAR" /\ bad.refused < Bound.refusals
              /\ rx' = Says([done EXCEPT !.out = @ \o echo], Reply("SETPARERROR"))
              /\ bad' = [bad EXCEPT !.refused = @ + 1]
           \/ /\ c.what = "SAVEPAR"
              /\ rx' = Says([done EXCEPT !.nvm = rx.ram], Reply("SAVEPAROK"))
              /\ UNCHANGED bad
           \/ /\ c.what = "GETPAR"
              /\ rx' = Says(done, ValueReply(rx.ram, FALSE))
              /\ UNCHANGED bad
           \/ /\ c.what \in {"SUSPEND", "RESTART"}
              /\ rx' = [done EXCEPT !.run = c.what = "RESTART"]
              /\ UNCHANGED bad
           \/ /\ c.what = "SRR"       \* reboots: what was queued either way is gone
              /\ \E n \in 0..Len(rx.out) :
                   rx' = [rx EXCEPT !.cmds = <<>>, !.out = SubSeq(@, 1, n), !.run = TRUE,
                                    !.ram = rx.nvm, !.rate = rx.nvm, !.next = 1, !.cycle = @ + 1]
              /\ UNCHANGED bad
    /\ UNCHANGED <<scenario, drv, op, screen, gps>>

-----------------------------------------------------------------------------
(* The driver.                                                             *)

\* What d becomes after the first n pieces that wait.
Accumulate(d, n) ==
    LET after[i \in 0..n] == IF i = 0 THEN d ELSE AccumulateByte(after[i - 1], rx.out[i])
    IN  after[n]

\* A list is being stored; gps_task does nothing else meanwhile.
Storing == drv.due.at # 0

\* A poll has ended well.
Succeeds(d) == [d EXCEPT !.fails = 0, !.online = TRUE]

\* teseo_poll: a read of any length, the fill bytes left out.  It ends where
\* a list is due to be stored: what lies behind is left to the next read.
Polled(n) == LET d == Accumulate(drv, n) IN IF d.due.at = 0 THEN Succeeds(d) ELSE d
Drain(n) == [rx EXCEPT !.out = SubSeq(@, n + 1, Len(@))]

Reads(n) == n > 0 => Accumulate(drv, n - 1).due.at = 0

\* gps_task's own poll.
Poll ==
    /\ ~scenario.dummy /\ op.pc = "idle" /\ ~Storing
    /\ \E n \in 0..Len(rx.out) : Reads(n) /\ drv' = Polled(n) /\ rx' = Drain(n)
    /\ UNCHANGED <<scenario, op, screen, gps, bad>>

\* The end of parse_pstm_rf: the new count, the satellites one by one over the
\* old ones, the number of updates; then the poll is over.
StoreRf ==
    /\ Storing
    /\ LET at == drv.due.at
           stored == [drv EXCEPT !.due.at = @ + 1]
       IN  drv' = CASE at = 1 -> [stored EXCEPT !.count = Len(drv.due.sats)]
                    [] at \in 2..Len(drv.due.sats) + 1 ->
                           [stored EXCEPT !.sats[at - 1] = drv.due.sats[at - 1]]
                    [] OTHER -> Succeeds([stored EXCEPT !.updated = TRUE, !.due = NoDue])
    /\ UNCHANGED <<scenario, rx, op, screen, gps, bad>>

\* The answer the step waits for, and the one that ends the call.
Good == [setpar |-> "SETPAROK", save |-> "SAVEPAROK"]
Bad  == [setpar |-> "SETPARERROR", save |-> "SAVEPARERROR"]
Awaiting == op.pc \in {"await_setpar", "await_save", "await_getpar"}

Return(result) == [op EXCEPT !.pc = "idle", !.result = result]

\* send_await and teseo_get_fix_rate_from_device: poll, then look.
PollAwaiting ==
    /\ Awaiting /\ ~Storing
    /\ \E n \in 0..Len(rx.out) :
         LET d == Polled(n) IN
         /\ Reads(n) /\ drv' = d /\ rx' = Drain(n)
         /\ op' = CASE op.pc = "await_setpar" /\ d.resp = Good.setpar -> [op EXCEPT !.pc = "save"]
                    [] op.pc = "await_setpar" /\ d.resp = Bad.setpar -> Return("failed")
                    [] op.pc = "await_save" /\ d.resp = Good.save -> [op EXCEPT !.pc = "srr"]
                    [] op.pc = "await_save" /\ d.resp = Bad.save -> Return("failed")
                    [] op.pc = "await_getpar" /\ d.getpar # "none" -> Return(d.getpar)
                    [] OTHER -> op
    /\ UNCHANGED <<scenario, screen, gps, bad>>

\* The time is up.
GiveUp ==
    /\ Awaiting /\ ~Storing
    /\ op' = Return("failed") /\ bad' = [bad EXCEPT !.late = TRUE]
    /\ UNCHANGED <<scenario, rx, drv, screen, gps>>

\* A transfer fails: a poll counts it, a send ends its call.
PollFails ==
    /\ ~scenario.dummy /\ (op.pc = "idle" \/ Awaiting) /\ ~Storing
    /\ bad.faults < Bound.faults
    /\ bad' = [bad EXCEPT !.faults = @ + 1]
    /\ LET n == IF drv.fails < OfflineAfter THEN drv.fails + 1 ELSE drv.fails
       IN  drv' = [drv EXCEPT !.fails = n, !.online = @ /\ n < OfflineAfter]
    /\ UNCHANGED <<scenario, rx, op, screen, gps>>

\* The steps of a call that send: the command, and where the call goes next.
Command ==
    [suspend |-> [what |-> "SUSPEND"], restart |-> [what |-> "RESTART"],
     setpar  |-> [what |-> "SETPAR", val |-> op.arg, mode |-> op.call = "rf_debug"],
     save    |-> [what |-> "SAVEPAR"], srr |-> [what |-> "SRR"], getpar |-> [what |-> "GETPAR"]]

\* Mutant: the value of an earlier call is not forgotten.
KeepValue(d) == d

\* s_last_getpar_valid is cleared before GETPAR is sent.
ForgetValue(d) == [d EXCEPT !.getpar = "none"]

\* What sending it leads to; a command without an answer ends with the call.
After(d) ==
    CASE op.pc = "suspend" -> <<Return("ok"), [d EXCEPT !.fix_rate = "OFF"]>>
      [] op.pc = "restart" -> <<[op EXCEPT !.pc = "setpar"], d>>
      [] op.pc = "setpar"  -> <<[op EXCEPT !.pc = "await_setpar"], [d EXCEPT !.resp = "NONE"]>>
      [] op.pc = "save"    -> <<[op EXCEPT !.pc = "await_save"], [d EXCEPT !.resp = "NONE"]>>
      [] op.pc = "srr"     -> <<Return("ok"), IF op.call = "set_fix_rate"
                                                THEN [d EXCEPT !.fix_rate = op.arg] ELSE d>>
      [] op.pc = "getpar"  -> <<[op EXCEPT !.pc = "await_getpar"], ForgetValue(d)>>

\* The steps whose failure the code ignores.
BestEffort == {"restart", "srr"}

Send ==
    /\ op.pc \in DOMAIN Command /\ ~Storing
    /\ \/ /\ rx' = [rx EXCEPT !.cmds = Append(@, Command[op.pc])]
          /\ op' = After(drv)[1] /\ drv' = After(drv)[2] /\ UNCHANGED bad
       \/ /\ bad.faults < Bound.faults /\ bad' = [bad EXCEPT !.faults = @ + 1]
          /\ IF op.pc \in BestEffort
               THEN op' = After(drv)[1] /\ drv' = After(drv)[2]
               ELSE op' = Return("failed") /\ UNCHANGED drv
          /\ UNCHANGED rx
    /\ UNCHANGED <<scenario, screen, gps>>

\* teseo_set_fix_rate, teseo_get_fix_rate_from_device and
\* teseo_enable_rf_debug_messages, called between two polls.
GnssCall ==
    /\ op.pc = "idle" /\ ~Storing /\ op.n < Bound.calls
    /\ \E c \in scenario.calls, r \in Rates \cup {"OFF"} :
         /\ r = "OFF" => c = "set_fix_rate"
         /\ op' = [call |-> c, arg |-> r, result |-> "none", n |-> op.n + 1,
                   pc |-> CASE c = "set_fix_rate" /\ r = "OFF" -> "suspend"
                            [] c = "set_fix_rate" /\ r # "OFF" /\ drv.fix_rate = "OFF" -> "restart"
                            [] c = "get_fix_rate" -> "getpar"
                            [] OTHER -> "setpar"]
    /\ UNCHANGED <<scenario, rx, drv, screen, gps, bad>>

-----------------------------------------------------------------------------
(* rf_debug_view: the satellites by falling signal, by insertion.          *)

\* One round of render_sats' sort: past every stronger or equal one.
Insert(rows, s) ==
    LET n == Cardinality({i \in DOMAIN rows : rows[i].cn0 >= s.cn0}) IN InsertAt(rows, n + 1, s)

RenderSats(sats) == LET sorted == FoldLeft(Insert, <<>>, sats)
                    IN  SubSeq(sorted, 1, IF Len(sorted) > Rows THEN Rows ELSE Len(sorted))

\* The hint to switch the sentences on, or that the receiver is offline.
Footer == IF ~drv.updated THEN "enable" ELSE IF ~drv.online THEN "offline" ELSE ""

\* render_pos: the last known position, while RMC calls the fix valid.
RenderPos == IF drv.valid THEN drv.pos ELSE "none"

\* Mutant: as many satellites as before are taken to be the same list.
RefreshOnNewCount ==
    /\ scenario.viewed /\ screen.pc = "idle" /\ drv.count # screen.n
    /\ screen' = [screen EXCEPT !.pos = RenderPos, !.n = drv.count, !.copy = <<>>, !.pc = "copy"]
    /\ UNCHANGED <<scenario, rx, drv, op, gps, bad>>

\* rf_debug_view_refresh, on lvgl_task, which gps_task may interrupt anywhere; it
\* only reads the driver's state, and not every scenario follows it.  It takes the
\* position and how many satellites there are;
Refresh ==
    /\ scenario.viewed /\ screen.pc = "idle"
    /\ screen' = [screen EXCEPT !.pos = RenderPos, !.n = drv.count, !.copy = <<>>, !.pc = "copy"]
    /\ UNCHANGED <<scenario, rx, drv, op, gps, bad>>

\* copies them one by one;
CopySat ==
    /\ screen.pc = "copy" /\ Len(screen.copy) < screen.n
    /\ screen' = [screen EXCEPT !.copy = Append(@, drv.sats[Len(@) + 1])]
    /\ UNCHANGED <<scenario, rx, drv, op, gps, bad>>

\* sorts its copy, fills the rows and writes the footer.
Render ==
    /\ screen.pc = "copy" /\ Len(screen.copy) = screen.n
    /\ screen' = [screen EXCEPT !.rows = RenderSats(screen.copy), !.footer = Footer, !.pc = "idle"]
    /\ UNCHANGED <<scenario, rx, drv, op, gps, bad>>

-----------------------------------------------------------------------------
(* The injector and the reader on Core 0.                                  *)

\* gps_dummy_task: GGA and RMC in turn, copied into the slot it owns (half
\* by half, for Core 0 runs beside it), then the index is flipped.
Dummy ==
    /\ scenario.dummy /\ gps.n < Bound.cycles
    /\ gps' = IF gps.half < 2
                THEN [gps EXCEPT !.buf[gps.write_idx + 1][gps.half + 1] = gps.n + 1, !.half = @ + 1]
                ELSE [gps EXCEPT !.write_idx = 1 - @, !.half = 0, !.n = @ + 1, !.since = @ + 1]
    /\ UNCHANGED <<scenario, rx, drv, op, screen, bad>>

\* Core 0 latches the slot that was published last, then reads it.
ReadSlot ==
    /\ scenario.dummy
    /\ gps' = IF Len(gps.got) \in {0, 2}
                THEN [gps EXCEPT !.slot = 2 - gps.write_idx, !.since = 0,
                                 !.got = <<gps.buf[2 - gps.write_idx][1]>>]
                ELSE [gps EXCEPT !.got = Append(@, gps.buf[gps.slot][2])]
    /\ UNCHANGED <<scenario, rx, drv, op, screen, bad>>

-----------------------------------------------------------------------------
GpsTask  == Poll \/ StoreRf \/ PollAwaiting \/ Send
LvglTask == Refresh \/ CopySat \/ Render

GnssNext ==
    \/ Emit \/ Obey
    \/ GpsTask \/ GiveUp \/ PollFails \/ GnssCall
    \/ LvglTask
    \/ Dummy \/ ReadSlot

GnssSpec == GnssInit /\ [][GnssNext]_gnssVars

\* gps_task runs every 100 ms, whatever call it is in, and no call waits for
\* ever; lvgl_task runs at every tick.
GnssFairSpec ==
    GnssSpec /\ WF_gnssVars(GpsTask) /\ WF_gnssVars(GiveUp) /\ WF_gnssVars(LvglTask)

-----------------------------------------------------------------------------
Pcs == {"idle", "suspend", "restart", "setpar", "await_setpar", "save", "await_save", "srr",
        "getpar", "await_getpar"}

GnssTypes ==
    /\ op.pc \in Pcs /\ op.n \in 0..Bound.calls
    /\ rx.ram \in Rates /\ rx.nvm \in Rates /\ rx.rate \in Rates
    /\ Len(drv.line) <= LineMax
    /\ Len(drv.view) <= ViewMax /\ Len(drv.rf.sats) <= ViewMax
    /\ drv.count \in 0..ViewMax /\ drv.due.at \in 0..ViewMax + 2
    /\ screen.pc \in {"idle", "copy"} /\ screen.n \in 0..ViewMax
    /\ screen.pc = "copy" => Len(screen.copy) <= screen.n
    /\ \A i \in 1..Slots : Len(drv.gsv[i].sats) <= SatsMax
    /\ drv.fix_rate \in Rates \cup {"OFF"} /\ drv.fails \in 0..OfflineAfter
    /\ gps.write_idx \in 0..1 /\ gps.half \in 0..2

\* The RF list as it stands in the state that the view reads.
RfList == SubSeq(drv.sats, 1, drv.count)

\* teseo_liv3fl.c:248: what a talker's complete cycle publishes comes from one
\* cycle of the receiver, and so does the RF list whenever gps_task has stored
\* it, as long as no two sentences were lost; and whatever is lost, no
\* satellite is twice in a view or a list.
OneCycle(sats) == \A i, j \in DOMAIN sats : sats[i].cycle = sats[j].cycle
Of(sats, talker) == SelectSeq(sats, LAMBDA s : s.talker = talker)

CyclesUnmixed ==
    /\ bad.lost < 2 => OneCycle(Of(drv.view, drv.published)) /\ (Storing \/ OneCycle(RfList))
    /\ \A i, j \in DOMAIN drv.view :
           i # j => <<drv.view[i].talker, drv.view[i].idx>> # <<drv.view[j].talker, drv.view[j].idx>>
    /\ Storing \/ \A i, j \in DOMAIN RfList : i # j => RfList[i].idx # RfList[j].idx

\* teseo_set_fix_rate has told the truth: the receiver keeps the new rate, if
\* no answer has been given up.  (One that comes late is taken for the answer
\* to the same command of the next call: with a refusal, or with a third call,
\* that deceives send_await.)
RateAsReported ==
    op.call = "set_fix_rate" /\ op.result = "ok" /\ op.arg # "OFF"
        => rx.nvm = op.arg \/ bad.late

\* teseo_get_fix_rate_from_device returns what the receiver has, though the
\* echo of a SETPAR looks like an answer - if none is late.
ValueAsReported ==
    op.call = "get_fix_rate" /\ op.result \in Rates => rx.ram = op.result \/ bad.late

AnswersAreTrue == RateAsReported /\ ValueAsReported

\* The rows of the RF view are the strongest of the satellites it has copied,
\* in order, whatever mixture of two lists it came upon.
StrongestShown ==
    screen.pc = "idle" =>
      /\ \A i \in 2..Len(screen.rows) : screen.rows[i - 1].cn0 >= screen.rows[i].cn0
      /\ \A s \in ToSet(screen.copy) \ ToSet(screen.rows) :
             \A i \in DOMAIN screen.rows : screen.rows[i].cn0 >= s.cn0
      /\ Len(screen.rows) = Rows \/ Len(screen.rows) = Len(screen.copy)

\* gps_dummy.c: a sentence Core 0 has read before the next one was published
\* is whole, whatever the injector wrote meanwhile.
ReadsWhole == Len(gps.got) = 2 /\ gps.since = 0 => gps.got[1] = gps.got[2]

GnssInv == GnssTypes /\ CyclesUnmixed /\ StrongestShown /\ ReadsWhole

\* A list copied while gps_task stores the next one mixes the two on the screen.
\* It does not stay: once transfers stop failing and the receiver falls silent,
\* the receiver is online and the screen shows the position and the list that
\* were published last.
ViewSettles ==
    /\ ~scenario.dummy => <>[]drv.online
    /\ scenario.viewed => <>[](/\ screen.rows = RenderSats(RfList)
                                /\ screen.pos = RenderPos /\ screen.footer = Footer)

\* teseo_liv3fl.c:349: the satellites are "published into rf_sats[] on the final
\* sentence of the group", so what is shown is of one group.  This does not hold:
\* nothing keeps gps_task from storing the next list while this one is copied.
ListsShownWhole == screen.pc = "idle" /\ bad.lost = 0 => OneCycle(screen.copy)

\* teseo_liv3fl.c:592: "Steps 2/3 are required to effect the change" - so when
\* the call succeeds and the receiver has obeyed, it runs at the new rate.  This
\* does not hold: the answer to the restart command is not looked at.
RateTakesEffect ==
    op.call = "set_fix_rate" /\ op.result = "ok" /\ op.arg # "OFF" /\ rx.cmds = <<>>
        => rx.rate = op.arg
=============================================================================
