-------------------------------- MODULE MCMie --------------------------------
(***************************************************************************)
(* The input method for TLC, in two ways that share the searchers only:    *)
(* "look up", where keys are typed over four word lists and what is found  *)
(* is compared with the word list (Lookup), and "write", where a user      *)
(* presses all sorts of keys over three small dictionaries (Ime).          *)
(***************************************************************************)
EXTENDS Ime

bai1 == << <<0, 0>>, <<4, 0>> >>
bai2 == << <<0, 0>>, <<4, 0>>, <<2, 1>> >>
dan4 == << <<0, 1>>, <<4, 1>>, <<1, 1>> >>
yan3 == << <<8, 0>>, <<4, 1>>, <<1, 0>> >>
zhi1 == << <<2, 0>> >>

Entry(word, freq, reading) == [word |-> word, freq |-> freq, reading |-> reading]

-----------------------------------------------------------------------------
(* The word lists of Lookup.  In the first a character has two readings    *)
(* and a word stands twice; the second has more words than fit in the      *)
(* list, one whose frequency is over the limit and one that is misread;    *)
(* the third has the long words, the fourth is English.                    *)

TwoReadings ==
  <<Entry(<<1>>, 5, <<bai1>>), Entry(<<1>>, 9, <<bai2>>), Entry(<<2>>, 7, <<dan4>>),
    Entry(<<1, 2>>, 4, <<bai1, dan4>>), Entry(<<1, 2>>, 6, <<bai2, dan4>>),
    Entry(<<2, 3>>, 8, <<dan4, yan3>>), Entry(<<1, 2, 3>>, 3, <<bai1, dan4, yan3>>)>>

MoreThanFit ==
  <<Entry(<<1, 1>>, 2, <<bai1, bai1>>), Entry(<<1, 2>>, 3, <<bai1, zhi1>>),
    Entry(<<2, 1>>, 1, <<zhi1, bai1>>), Entry(<<3, 3>>, 30, <<dan4, dan4>>),
    Entry(<<3, 2>>, 2, <<dan4, zhi1>>), Entry(<<2, 2>>, 0, <<zhi1>>), Entry(<<2>>, 4, <<zhi1>>)>>

LongWords ==
  <<Entry(<<4, 4, 4, 4>>, 2, <<zhi1, zhi1, zhi1, zhi1>>),
    Entry(<<4, 4, 4, 4, 1>>, 3, <<zhi1, zhi1, zhi1, zhi1, bai1>>),
    Entry(<<3, 4>>, 5, <<yan3, zhi1>>), Entry(<<5>>, 1, <<bai2>>)>>

\* Letters stand for characters: three words of the same keys, one too long.
EnglishList ==
  <<Entry(<<11>>, 9, <<bai1>>), Entry(<<12>>, 3, <<bai1>>), Entry(<<11, 12>>, 0, <<zhi1, zhi1>>),
    Entry(<<13>>, 1, <<bai1>>), Entry(<<11, 11, 11, 11, 11, 11>>, 8, <<zhi1, zhi1>>),
    Entry(<<14>>, 2, <<zhi1>>), Entry(<<15>>, 2, <<zhi1>>)>>

Typing(es, english, bs, hs, most) ==
  [entries |-> es, english |-> english, bytes |-> bs, hints |-> hs, most |-> most]

MCWordLists ==
  {Typing(TwoReadings, FALSE, {33, 34, 35, 37}, {1, AnyHint}, 3),
   Typing(TwoReadings, FALSE, {33, 34, 35, 37}, {AnyHint}, 4),
   Typing(MoreThanFit, FALSE, {32, 33, 35, 37}, {AnyHint}, 4),
   Typing(LongWords, FALSE, {33, 35}, {AnyHint}, 6),
   Typing(EnglishList, TRUE, {33, 35, 37}, {AnyHint}, 3)}

-----------------------------------------------------------------------------
(* The dictionaries of Ime and the keys of five ways to use them together: *)
(* Chinese with long presses, symbols over Chinese keys, English with      *)
(* digits and punctuation, the picker, and the keys of the view.           *)

Chinese ==
  <<Entry(<<10>>, 9, <<bai1>>), Entry(<<11>>, 7, <<dan4>>), Entry(<<12>>, 3, <<dan4>>)>>

\* The letters of keys 5 and 6.
English ==
  <<Entry(<<300>>, 9, << << <<5, 0>> >> >>), Entry(<<301>>, 5, << << <<5, 1>>, <<6, 0>> >> >>)>>

EngineOf(words, v4) ==
  [zh |-> BuildMied(LoadChinese(words)), en |-> BuildMied(LoadEnglish(English)),
   mie4 |-> BuildMiedV4(words), v4 |-> v4]

MCEngines ==
  [chars   |-> EngineOf(Chinese, TRUE),
   phrases |-> EngineOf(Append(Chinese, Entry(<<10, 11>>, 4, <<bai1, dan4>>)), TRUE),
   old     |-> EngineOf(Chinese, FALSE)]

Short(slot) == [slot |-> slot, long |-> FALSE]
Long(slot) == [slot |-> slot, long |-> TRUE]

Setting(engine, keys, slots, capacity, most) ==
  [engine |-> engine, keys |-> keys, slots |-> slots, capacity |-> capacity, most |-> most, view |-> FALSE]

MCSettings ==
  {Setting("phrases", {"space", "ok", "del"}, {Short(0), Short(1), Long(4)}, 12, 8),
   Setting("old", {"sym2", "ok", "mode", "tab"}, {Short(0)}, 14, 7),
   Setting("chars", {"mode", "space", "sym1", "del"}, {Short(0), Short(5)}, 14, 7),
   Setting("chars", {"sym1", "sym2", "ok", "left", "right", "del"}, {}, 8, 8),
   [Setting("chars", {"up", "down", "right", "ok", "sym1", "other"}, {Short(0)}, 8, 6) EXCEPT !.view = TRUE]}

-----------------------------------------------------------------------------
CONSTANT
  WordLists                              (* That of Lookup. *)

VARIABLES
  use,                                   (* "look up" or "write"             *)
  wordList, miedIndex, mie4Dict, pressed (* The variables of Lookup.         *)

L == INSTANCE Lookup

lookupVars == <<wordList, miedIndex, mie4Dict, pressed>>

MieInit ==
  /\ Init
  /\ \/ use = "look up" /\ setting.view /\ L!Init
     \/ /\ use = "write"
        /\ wordList = <<>> /\ miedIndex = <<>> /\ mie4Dict = <<>> /\ pressed = <<>>

LookUp == use = "look up" /\ L!Next /\ UNCHANGED <<use, vars>>

Write == use = "write" /\ Next /\ UNCHANGED <<use, lookupVars>>

MieSpec == MieInit /\ [][LookUp \/ Write]_<<use, vars, lookupVars>>

-----------------------------------------------------------------------------
(* composition_searcher.cpp, ime_keys.cpp: CompositionFindsAll and         *)
(* SplitsAtSyllables of Lookup.                                            *)
CompositionFinds ==
  use = "look up" => L!TypeOK /\ L!CompositionFindsAll /\ L!SplitsAtSyllables

(* trie_searcher.cpp: TrieFindsAll of Lookup. *)
TrieFinds == use = "look up" => L!TrieFindsAll

(* ime_search.cpp: ListIsSound of Lookup. *)
SearchIsSound == use = "look up" => L!ListIsSound
=============================================================================
