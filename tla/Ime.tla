--------------------------------- MODULE Ime ---------------------------------
(***************************************************************************)
(* The input method while a user types: the state machine of ImeLogic      *)
(* (mie/src/ime_logic.cpp, ime_smart.cpp, ime_direct.cpp, ime_commit.cpp), *)
(* the text that ime_task builds from its commits (ime_task.cpp) and the   *)
(* view of lvgl_task that reads both and moves the selection (ime_view.c). *)
(*                                                                         *)
(* A character is a number: a Chinese one or a symbol has three bytes in   *)
(* the text, the first is the number and the others are Cont.              *)
(***************************************************************************)
EXTENDS ImeSearch

CONSTANTS
  Engines,          (* The dictionaries (see ImeSearch) under their names.    *)
  Settings,         (* Of [engine, keys, slots, capacity, most, view]: the name
                       of the dictionaries and kTextCapacity; and bounds of the
                       model: the keys that the user presses, the input keys
                       [slot, long], how often, and whether a view is shown.  *)
  MaxKeySeq,        (* kMaxKeySeq (64)                                       *)
  PageSize,         (* kPageSize (5)                                         *)
  MultiTapTimeout,  (* kMultiTapTimeoutMs, in units of time                  *)
  LongPress,        (* kLongPressMs, in units of time                        *)
  LruCap            (* LruCache::kCap (128)                                  *)

ASSUME ImeAssumption ==
  {MaxKeySeq, PageSize, MultiTapTimeout, LongPress, LruCap} \subseteq Nat \ {0}

VARIABLES
  setting,   (* The one of Settings.                                         *)
  ime,       (* g_ime, g_text and g_cursor, under g_snapshot_mutex.          *)
  dirty,     (* g_ime_dirty_counter is not what the view saw (s_last_counter) *)
  shown,     (* What the view drew: s_cand_total and s_selected.             *)
  moves,     (* The UP and DOWN that ime_view_apply has not handled; a bound of
                the model is that there is one at most.                      *)
  presses    (* How often a key has been pressed or released, for the bound.  *)

vars == <<setting, ime, dirty, shown, moves, presses>>

Lru == INSTANCE LruCache WITH
  Cap <- LruCap, Packed <- 4, ReuseBonus <- 0, MaxUses <- 1, MaxStamp <- 0, PageSize <- 1

-----------------------------------------------------------------------------
(* Characters *)

Space == 1
Newline == 2
TabChar == 3
EnComma == 4
EnStops == 5 .. 7      \* . ? !
ZhComma == 60
ZhStops == 61 .. 63    \* the same, full-width
LowerCase == 300 .. 399
Capital(c) == c + 100
Cont == 0

Wide(c) == c \in 10 .. 99

Encoded(word) ==
  FlattenSeq([n \in 1 .. Len(word) |-> IF Wide(word[n]) THEN <<word[n], Cont, Cont>> ELSE <<word[n]>>])

PickerCells == 16
PickerCols == 4

PickerCell(i) ==
  CASE i = 8 -> ZhComma [] i = 9 -> 61 [] i = 13 -> 62 [] i = 14 -> 63 [] OTHER -> 70 + i

\* The label of a key in multi-tap.
MultitapLabel(mode, key, idx) ==
  IF key = Sym2 THEN (IF mode = "SmartZh" THEN 61 ELSE 5) + idx
  ELSE 1000 + 10 * key + idx

NextMode == [SmartZh |-> "SmartEn", SmartEn |-> "Direct", Direct |-> "SmartZh"]

NoKey == -1
NoTap == [key |-> NoKey, idx |-> 0, age |-> 0]
NoCycle == [at |-> -1, slot |-> -1, idx |-> 0, age |-> 0]
Closed == [open |-> FALSE, sel |-> 0]

Start ==
  [mode |-> "SmartZh", keys |-> <<>>, cands |-> <<>>, sel |-> 0, disp |-> <<>>,
   tap |-> NoTap, cycle |-> NoCycle, picker |-> Closed,
   sym |-> [down |-> FALSE, long |-> FALSE, age |-> 0],
   caps |-> TRUE, spaced |-> TRUE, lru |-> <<>>, text |-> <<>>, cursor |-> 0]

HasCandidates(s) == s.cands # <<>>
Tapping(s) == s.tap.key # NoKey

-----------------------------------------------------------------------------
(* The text buffer (ime_task.cpp).  Offsets count from 0, sequences from 1. *)

PrevBoundary(text, pos) == Max({0} \union {p \in 0 .. pos - 1 : text[p + 1] # Cont})

NextBoundary(text, pos) ==
  Min({Len(text)} \union {p \in pos + 1 .. Len(text) - 1 : text[p + 1] # Cont})

\* make_room_for: of a full buffer the latter half stays.  The byte after it, which
\* a cursor at the end looks at, is an old one.
MakeRoom(s, need) ==
  LET keep == setting.capacity \div 2
      drop == Len(s.text) - keep
      text == SubSeq(s.text, drop + 1, Len(s.text))
      byte(p) == IF p < keep THEN text[p + 1] ELSE s.text[keep + 1]
      moved == Max({0, s.cursor - drop})
  IN IF Len(s.text) + need <= setting.capacity \/ drop <= 0 THEN s
     ELSE [s EXCEPT !.text = text,
                    !.cursor = Max({0} \union {p \in 1 .. moved : byte(p) # Cont})]

InsertBytes(s, bytes) ==
  LET n == Min({Len(bytes), setting.capacity - Len(s.text)})
  IN [s EXCEPT !.text = SubSeq(@, 1, s.cursor) \o SubSeq(bytes, 1, n)
                          \o SubSeq(@, s.cursor + 1, Len(@)),
               !.cursor = @ + n]

InsertAtCursor(s, word) == InsertBytes(MakeRoom(s, Len(Encoded(word))), Encoded(word))

\* The last character but the spaces ends a sentence; a space does if it is the first.
EndsSentence(bytes) ==
  LET e == Max({1} \union {n \in 1 .. Len(bytes) : bytes[n] # Space})
  IN \/ bytes[e] \in EnStops
     \/ e > 2 /\ bytes[e] = Cont /\ bytes[e - 2] \in ZhStops

\* set_text_context with the two characters before the cursor (extract_ctx).
SetTextContext(s) ==
  LET from == PrevBoundary(s.text, PrevBoundary(s.text, s.cursor))
      before == SubSeq(s.text, from + 1, s.cursor)
  IN IF before = <<>> THEN [s EXCEPT !.spaced = TRUE, !.caps = TRUE]
     ELSE [s EXCEPT !.spaced = (Last(before) = Space), !.caps = EndsSentence(before)]

\* Mutant: the context is not told of the deletion.
DeleteSilently(s) ==
  LET prev == PrevBoundary(s.text, s.cursor)
  IN [s EXCEPT !.text = SubSeq(@, 1, prev) \o SubSeq(@, s.cursor + 1, Len(@)), !.cursor = prev]

DeleteBefore(s) ==
  LET prev == PrevBoundary(s.text, s.cursor)
  IN SetTextContext([s EXCEPT !.text = SubSeq(@, 1, prev) \o SubSeq(@, s.cursor + 1, Len(@)),
                              !.cursor = prev])

CursorMove(s, dir) ==
  SetTextContext([s EXCEPT !.cursor = CASE dir = "left" -> PrevBoundary(s.text, @)
                                        [] dir = "right" -> NextBoundary(s.text, @)
                                        [] OTHER -> @])

-----------------------------------------------------------------------------
(* Commits (ime_commit.cpp) *)

DidCommit(s, word) ==
  [s EXCEPT !.spaced = (Last(word) = Space),
            !.caps = IF word = <<Space>> THEN @ ELSE EndsSentence(Encoded(word))]

EmitCommit(s, word) == IF word = <<>> THEN s ELSE InsertAtCursor(DidCommit(s, word), word)

\* prepend_lru_candidates' hits.
AsCandidates(hits) == [n \in 1 .. Len(hits) |-> [word |-> hits[n].text, prefix |-> Len(hits[n].keys)]]

Personal(s) == AsCandidates(Lru!Lookup(s.lru, BytesOf(s.keys), HintsOf(s.keys)))

\* The keys that can be typed under a setting.
TypedKeys(st) ==
  {[byte |-> FirstTone, hint |-> AnyHint]} \union
  UNION {[byte : {SlotByte(k.slot)}, hint : IF k.long THEN 0 .. 2 ELSE {AnyHint}] : k \in st.slots}

Queries == UNION {{st.engine} \X {"SmartZh", "SmartEn"} \X BoundedSeq(TypedKeys(st), MaxKeySeq) : st \in Settings}

\* DictSearch for all that can be typed, as a table.
Lists == (<<>> :> <<>>) @@ [q \in Queries |-> DictSearch(Engines[q[1]], q[2], q[3]).cands]

Found(s) ==
  IF s.keys = <<>> THEN <<>>
  ELSE PrependLru(Lists[<<setting.engine, s.mode, s.keys>>],
                  IF s.mode = "SmartZh" THEN Personal(s) ELSE <<>>)

SearchAgain(s) ==
  [s EXCEPT !.cands = Found(s),
            !.sel = 0,
            !.disp = RebuildDisplay(s.mode, s.keys)]

\* Mutant: all keys are spent, whatever the candidate stands for.
RemainderNone(keys, n) == <<>>

\* The keys after the first n, without the tones left over from these.
Remainder(keys, n) ==
  LET rest == SubSeq(keys, n + 1, Len(keys))
      tones == Max({m \in 0 .. Len(rest) :
                      \A k \in 1 .. m : rest[k].byte \in {FirstTone, ToneKeyByte}})
  IN SubSeq(rest, tones + 1, Len(rest))

CommitPartial(s, word, prefix) ==
  LET spent == SubSeq(s.keys, 1, prefix)
      taught == IF s.mode # "SmartZh" THEN s
                ELSE [s EXCEPT !.lru = Lru!Upsert(@, [keys |-> BytesOf(spent), hints |-> HintsOf(spent),
                                                      text |-> word, bytes |-> Len(Encoded(word))], 0)]
  IN SearchAgain([EmitCommit(taught, word) EXCEPT !.keys = Remainder(s.keys, prefix),
                                                  !.cycle = NoCycle])

CommitSelectedCandidate(s) ==
  LET c == s.cands[s.sel + 1]
      en == s.mode = "SmartEn"
      word == IF en /\ s.caps /\ c.word[1] \in LowerCase THEN [c.word EXCEPT ![1] = Capital(@)] ELSE c.word
  IN IF HasCandidates(s)
     THEN CommitPartial(IF en /\ ~s.spaced THEN EmitCommit(s, <<Space>>) ELSE s, word, c.prefix)
     ELSE s

Discard(s) == [s EXCEPT !.keys = <<>>, !.cands = <<>>, !.sel = 0, !.disp = <<>>]

-----------------------------------------------------------------------------
(* Multi-tap (ime_direct.cpp) *)

AfterSymbol(s) == IF s.tap.key = Sym2 /\ s.mode = "SmartEn" THEN <<Space>> ELSE <<>>

\* What is displayed is committed.
MultitapCommit(s) ==
  IF Tapping(s)
  THEN EmitCommit([EmitCommit(s, s.disp) EXCEPT !.tap = NoTap, !.disp = <<>>], AfterSymbol(s))
  ELSE s

MultitapPress(s, key) ==
  LET again == s.tap.key = key
      before == IF again THEN s ELSE MultitapCommit(s)
      idx == IF again THEN (s.tap.idx + 1) % LabelCount(key) ELSE 0
  IN [before EXCEPT !.tap = [key |-> key, idx |-> idx, age |-> 0],
                    !.disp = <<MultitapLabel(s.mode, key, idx)>>]

-----------------------------------------------------------------------------
(* One operator for each key that process_key tells apart *)

ClosePicker(s) == [s EXCEPT !.picker = Closed]

\* A key of the other ones closes the picker.
UnlessPicking(s, Handler(_)) == IF s.picker.open THEN ClosePicker(s) ELSE Handler(s)

CycleMode(s) ==
  LET settled == IF Tapping(s) THEN MultitapCommit(s) ELSE CommitSelectedCandidate(s)
  IN [Discard(settled) EXCEPT !.cycle = NoCycle, !.mode = NextMode[s.mode]]

\* Mutant: the cycle goes on at a byte that is no more.
HandleDelKeepsCycle(s) ==
  IF Tapping(s) THEN [s EXCEPT !.tap = NoTap, !.disp = <<>>]
  ELSE IF s.keys = <<>> THEN DeleteBefore(s)
  ELSE SearchAgain([s EXCEPT !.keys = Front(s.keys)])

HandleDel(s) ==
  LET keys == Front(s.keys)
  IN IF Tapping(s) THEN [s EXCEPT !.tap = NoTap, !.disp = <<>>]
     ELSE IF s.keys = <<>> THEN DeleteBefore(s)
     ELSE SearchAgain([s EXCEPT !.keys = keys,
                                !.cycle = IF @.at >= Len(keys) THEN NoCycle ELSE @])

PickerStep(sel, dir) ==
  (sel + CASE dir = "left" -> PickerCells - 1 [] dir = "right" -> 1
           [] dir = "up" -> PickerCells - PickerCols [] dir = "down" -> PickerCols) % PickerCells

HandleDpad(s, dir) ==
  LET n == Len(s.cands)
  IN IF s.picker.open THEN [s EXCEPT !.picker.sel = PickerStep(@, dir)]
     ELSE IF ~HasCandidates(s) THEN CursorMove(s, dir)
     ELSE CASE dir = "left" -> [s EXCEPT !.sel = (@ - 1 + n) % n]
            [] dir = "right" -> [s EXCEPT !.sel = (@ + 1) % n]
            [] OTHER -> s

HandleOk(s) ==
  CASE s.picker.open -> EmitCommit(ClosePicker(s), <<PickerCell(s.picker.sel)>>)
    [] ~s.picker.open /\ HasCandidates(s) -> CommitSelectedCandidate(s)
    [] ~s.picker.open /\ ~HasCandidates(s) /\ Tapping(s) -> MultitapCommit(s)
    [] OTHER -> EmitCommit(s, <<Newline>>)

HandleSym2(s) == MultitapPress(s, Sym2)

\* SYM1 is down: a key repeated by the queue is ignored.
Sym1Pressed(s) == IF s.sym.down THEN s ELSE [s EXCEPT !.sym = [down |-> TRUE, long |-> FALSE, age |-> 0]]

Sym1Released(s) ==
  LET up == [s EXCEPT !.sym = [down |-> FALSE, long |-> FALSE, age |-> 0]]
  IN CASE ~s.sym.down -> s
       [] s.sym.down /\ s.sym.long -> up
       [] s.sym.down /\ ~s.sym.long /\ s.picker.open -> ClosePicker(up)
       [] OTHER -> EmitCommit(MultitapCommit(up),
                              CASE s.mode = "SmartZh" -> <<ZhComma>>
                                [] s.mode = "SmartEn" -> <<EnComma, Space>>
                                [] OTHER -> <<EnComma>>)

SpaceSettled(s) ==
  CASE s.mode = "Direct" \/ s.keys = <<>> -> EmitCommit(s, <<Space>>)
    [] s.mode = "SmartZh" /\ s.keys # <<>> ->
         IF Last(s.keys).byte = FirstTone \/ Len(s.keys) = MaxKeySeq THEN s
         ELSE SearchAgain([s EXCEPT !.keys = Append(@, [byte |-> FirstTone, hint |-> AnyHint])])
    [] OTHER -> EmitCommit(IF HasCandidates(s) THEN CommitSelectedCandidate(s) ELSE Discard(s), <<Space>>)

\* A pending character is committed first, here and below.
HandleSpace(s) == SpaceSettled(MultitapCommit(s))

TabSettled(s) ==
  LET next == (s.sel \div PageSize + 1) * PageSize
  IN IF s.mode = "Direct" THEN EmitCommit(s, <<TabChar>>)
     ELSE IF HasCandidates(s) THEN [s EXCEPT !.sel = IF next >= Len(s.cands) THEN 0 ELSE next]
     ELSE s

HandleTab(s) == TabSettled(MultitapCommit(s))

\* A short tap means any phoneme of the key.
ShortTap(s, slot) ==
  [s EXCEPT !.keys = Append(@, [byte |-> SlotByte(slot), hint |-> AnyHint]), !.cycle = NoCycle]

Cycling(s, key) ==
  key.long /\ s.cycle.at >= 0 /\ s.cycle.slot = key.slot /\ s.cycle.age < MultiTapTimeout

LongTap(s, key) ==
  LET next == (s.cycle.idx + 1) % PhonemeCount(key.slot)
  IN IF Cycling(s, key)
     THEN [s EXCEPT !.cycle.idx = next, !.cycle.age = 0, !.keys[s.cycle.at + 1].hint = next]
     ELSE [s EXCEPT !.keys = Append(@, [byte |-> SlotByte(key.slot), hint |-> 0]),
                    !.cycle = [at |-> Len(s.keys), slot |-> key.slot, idx |-> 0, age |-> 0]]

SlotSettled(s, key) ==
  IF s.mode = "Direct" THEN IF LabelCount(key.slot) = 0 THEN s ELSE MultitapPress(s, key.slot)
  ELSE IF s.mode = "SmartEn" /\ key.slot \in DigitSlots
    THEN MultitapPress(IF HasCandidates(s) THEN CommitSelectedCandidate(s)
                       ELSE IF s.keys # <<>> THEN Discard(s) ELSE s, key.slot)
  ELSE IF Len(s.keys) = MaxKeySeq /\ ~(s.mode = "SmartZh" /\ Cycling(s, key)) THEN s
  ELSE SearchAgain(IF s.mode = "SmartZh" /\ key.long
                   THEN LongTap(s, key) ELSE ShortTap(s, key.slot))

HandleSlot(s, key) == SlotSettled(IF s.tap.key = key.slot THEN s ELSE MultitapCommit(s), key)

-----------------------------------------------------------------------------
(* Time *)

\* Ages are not told apart beyond the limits.
Elapse(s, dt) ==
  LET older(age, limit) == Min({age + dt, limit})
  IN [s EXCEPT !.tap.age = IF Tapping(s) THEN older(@, MultiTapTimeout) ELSE 0,
               !.cycle.age = IF s.cycle.at >= 0 THEN older(@, MultiTapTimeout) ELSE 0,
               !.sym.age = IF s.sym.down /\ ~s.sym.long THEN older(@, LongPress) ELSE 0]

TapTimer(s) == IF Tapping(s) /\ s.tap.age >= MultiTapTimeout THEN MultitapCommit(s) ELSE s

SymTimer(s) ==
  IF s.sym.down /\ ~s.sym.long /\ s.sym.age >= LongPress
  THEN [s EXCEPT !.sym.long = TRUE, !.sym.age = 0, !.picker = [open |-> TRUE, sel |-> 0]] ELSE s

CycleTimer(s) ==
  IF s.cycle.at >= 0 /\ s.cycle.age >= MultiTapTimeout THEN [s EXCEPT !.cycle = NoCycle] ELSE s

Tick(s) == CycleTimer(SymTimer(TapTimer(s)))

-----------------------------------------------------------------------------
(* ime_task: a key, or none for 20 ms, and then the timers *)

Init ==
  /\ setting \in Settings
  /\ ime = Start
  /\ dirty = FALSE
  /\ shown = [total |-> 0, sel |-> 0]
  /\ moves = "none"
  /\ presses = 0

\* The key may have waited in the queue.
Press(Handler(_)) ==
  /\ presses < setting.most
  /\ presses' = presses + 1
  /\ \E dt \in 0 .. 1 : ime' = Tick(Handler(Elapse(ime, dt)))
  /\ dirty' = setting.view
  /\ UNCHANGED <<setting, shown>>

Press1(key, Handler(_)) ==
  /\ key \in setting.keys
  /\ Press(Handler)
  /\ UNCHANGED moves

PressSlot ==
  /\ \E key \in setting.slots : Press(LAMBDA s : UnlessPicking(s, LAMBDA t : HandleSlot(t, key)))
  /\ UNCHANGED moves

PressSpace == Press1("space", LAMBDA s : UnlessPicking(s, HandleSpace))
PressTab == Press1("tab", LAMBDA s : UnlessPicking(s, HandleTab))
PressMode == Press1("mode", LAMBDA s : UnlessPicking(s, CycleMode))
PressDel == Press1("del", LAMBDA s : UnlessPicking(s, HandleDel))
PressOk == Press1("ok", HandleOk)
PressSym2 == Press1("sym2", LAMBDA s : UnlessPicking(s, HandleSym2))
PressSym1 == Press1("sym1", Sym1Pressed)
ReleaseSym1 == Press1("sym1", Sym1Released)
\* BACK, which is not for the input method, and the release of another key.
PressOther == Press1("other", LAMBDA s : s)

PressSideways ==
  \E dir \in {"left", "right"} : Press1(dir, LAMBDA s : HandleDpad(s, dir))

\* The view gets these as well.
PressUpDown ==
  \E dir \in {"up", "down"} :
    /\ dir \in setting.keys
    /\ moves = "none"
    /\ Press(LAMBDA s : HandleDpad(s, dir))
    /\ moves' = dir

\* No key: what the timers change is not announced.
Wait ==
  /\ ime' = Tick(Elapse(ime, 1))
  /\ UNCHANGED <<setting, dirty, shown, moves, presses>>

-----------------------------------------------------------------------------
(* lvgl_task *)

\* ime_view_refresh
Refresh ==
  /\ dirty
  /\ dirty' = FALSE
  /\ shown' = IF ime.picker.open THEN [total |-> PickerCells, sel |-> ime.picker.sel]
              ELSE [total |-> Len(ime.cands), sel |-> ime.sel]
  /\ UNCHANGED <<setting, ime, moves, presses>>

SetSelected(s, idx) ==
  IF HasCandidates(s) THEN [s EXCEPT !.sel = Max({0, Min({idx, Len(s.cands) - 1})})] ELSE s

\* ime_view_apply: the cell above or below, or the next one, of what was drawn last.
ViewUpDown ==
  /\ moves # "none"
  /\ moves' = "none"
  /\ \/ /\ ime.picker.open \/ shown.total = 0
        /\ UNCHANGED <<ime, dirty>>
     \/ /\ ~ime.picker.open
        /\ \E target \in 0 .. shown.total - 1 : ime' = SetSelected(ime, target)
        /\ dirty' = TRUE
  /\ UNCHANGED <<setting, shown, presses>>

\* ime_view_clear_text, which the messages view calls when it has sent the text.
ClearText ==
  /\ setting.view
  /\ ime' = [ime EXCEPT !.text = <<>>, !.cursor = 0]
  /\ dirty' = TRUE
  /\ UNCHANGED <<setting, shown, moves, presses>>

Next ==
  \/ PressSlot \/ PressSpace \/ PressTab \/ PressMode \/ PressDel \/ PressOk
  \/ PressSym1 \/ ReleaseSym1 \/ PressSym2 \/ PressSideways \/ PressUpDown \/ PressOther
  \/ Wait \/ Refresh \/ ViewUpDown \/ ClearText

Spec == Init /\ [][Next]_vars

-----------------------------------------------------------------------------
(* Properties *)

TypeOK ==
  /\ setting \in Settings /\ dirty \in BOOLEAN
  /\ moves \in {"none", "up", "down"}
  /\ ime.mode \in DOMAIN NextMode
  /\ Len(ime.keys) <= MaxKeySeq
  /\ \A n \in 1 .. Len(ime.keys) : ime.keys[n].byte \in Bytes /\ ime.keys[n].hint \in {0, 1, 2, AnyHint}
  /\ ime.picker.sel \in 0 .. PickerCells - 1
  /\ Len(ime.lru) <= LruCap
  /\ Len(ime.text) <= setting.capacity /\ ime.cursor \in 0 .. Len(ime.text)

\* ime_search.cpp, ime_commit.cpp: the candidates are those that the keys, the mode and
\* the personal cache of now give, whichever key came last, and one of them is selected.
ListIsCurrent ==
  /\ ime.cands = Found(ime)
  /\ ime.sel \in 0 .. Max({0, Len(ime.cands) - 1})

\* ime_smart.cpp: the key that a long press will change is one of the present
\* keys, the one that the last long press has set.
CycleIsValid ==
  ime.cycle.at >= 0 =>
    /\ ime.mode = "SmartZh"
    /\ ime.cycle.at < Len(ime.keys)
    /\ ime.keys[ime.cycle.at + 1] = [byte |-> SlotByte(ime.cycle.slot), hint |-> ime.cycle.idx]

\* ime_logic.cpp:192-225: after a turn no timer has run out: a pending character is in the
\* text, SYM1 held opens the picker and a key can be changed no more, whatever else
\* happens at the same time.
TimersOnTime ==
  /\ Tapping(ime) => ime.tap.age < MultiTapTimeout
  /\ ime.cycle.at >= 0 => ime.cycle.age < MultiTapTimeout
  /\ ime.sym.down /\ ~ime.sym.long => ime.sym.age < LongPress

\* The state of the input method is sound between two turns of ime_task, whatever
\* the order of keys, timers and the view's calls of set_selected was.
ImeInv ==
  /\ TypeOK
  /\ ListIsCurrent
  /\ CycleIsValid
  /\ TimersOnTime
  /\ ime.mode = "Direct" => ime.keys = <<>>
  /\ ime.keys # <<>> => ime.keys[1].byte # FirstTone

SpacedAtCursor == ime.spaced <=> ime.cursor = 0 \/ ime.text[ime.cursor] = Space

\* ime_task.cpp:160-182: en_last_ended_with_space_, which decides whether a space goes
\* before the next English word, is what the text before the cursor says, after commits,
\* deletions, moves of the cursor and cuts of the text, unless another view has cleared it.
SpacingFollowsText == setting.view \/ SpacedAtCursor

\* The word, or the same with a capital, is in the text.
Written(text, word) ==
  \E w \in {Encoded(word), Encoded([word EXCEPT ![1] = IF @ \in LowerCase THEN Capital(@) ELSE @])} :
    \E k \in Len(w) .. Len(text) : SubSeq(text, k - Len(w) + 1, k) = w

\* ime_commit.cpp:49-107: typed keys go only where the user sends them: DEL takes the
\* last one; a committed candidate, whose word is then in the text, takes those it stands
\* for and the tones after these; keys that mean nothing are dropped.  MODE also takes
\* the rest of the keys, and all of them when a symbol is pending.
NoKeyLost ==
  [][LET old == BytesOf(ime.keys)
         new == BytesOf(ime'.keys)
         spent == Len(old) - Len(new)
         Spends(c) == /\ Written(ime'.text, c.word)
                      /\ \/ ime'.mode # ime.mode
                         \/ /\ IsSuffix(new, old) /\ spent >= c.prefix
                            /\ \A k \in c.prefix + 1 .. spent : old[k] \in {FirstTone, ToneKeyByte}
     IN \/ IsPrefix(old, new)
        \/ new = Front(old) /\ ~Tapping(ime)
        \/ HasCandidates(ime) /\ Spends(ime.cands[ime.sel + 1])
        \/ new = <<>> /\ ~HasCandidates(ime)
        \/ new = <<>> /\ Tapping(ime) /\ ime'.mode # ime.mode]_vars

\* ime_direct.cpp:126 "The current display_ contents are the label being committed."
\* This does not hold: with a pending SYM2 over Chinese keys OK commits a candidate.
LabelIsDisplayed ==
  Tapping(ime) => ime.disp = <<MultitapLabel(ime.mode, ime.tap.key, ime.tap.idx)>>

\* ime_task.cpp:93-95 "Compact the front half of the buffer so `need` more bytes fit.
\* Preserves cursor/text_len invariants.": who types at the end of the text goes on there.
\* This does not hold: the cursor stays where the compacted text no longer ends.
EndStaysEnd ==
  [][ime.cursor = Len(ime.text) /\ ime'.text # ime.text =>
       PressSideways \/ ime'.cursor = Len(ime'.text)]_vars
=============================================================================
