------------------------------ MODULE ImeSearch ------------------------------
(***************************************************************************)
(* From the keys typed so far to the list of candidates and the line that  *)
(* shows the keys (mie/src/ime_search.cpp).                                *)
(*                                                                         *)
(* A key is [byte, hint].  An engine is the attached dictionaries:         *)
(* [zh |-> a MIED index, en |-> a MIED index, mie4 |-> a MIE4 dictionary,  *)
(* v4 |-> whether it is loaded]; an empty index is one not loaded.         *)
(* A candidate is [word, prefix]: prefix keys are spent when it is chosen. *)
(***************************************************************************)
EXTENDS Searchers

CONSTANT MaxCandidates   (* kMaxCandidates (100) *)

BytesOf(keys) == [n \in 1 .. Len(keys) |-> keys[n].byte]
HintsOf(keys) == [n \in 1 .. Len(keys) |-> keys[n].hint]

HasWord(cands, word) == \E n \in 1 .. Len(cands) : cands[n].word = word

\* The candidates of more that are new are appended to cands, up to the limit.
Merge(cands, more, prefix) ==
  FoldLeft(LAMBDA out, c : IF HasWord(out, c.word) \/ Len(out) = MaxCandidates THEN out
                           ELSE Append(out, [word |-> c.word, prefix |-> prefix]),
           cands, more)

NoResult == [cands |-> <<>>, matched |-> 0]

-----------------------------------------------------------------------------
(* run_search_v2_legacy *)

\* The places of the keys that are not the mark of the first tone.
Stripped(bytes) ==
  SelectSeq([n \in 1 .. Len(bytes) |-> n], LAMBDA n : bytes[n] # FirstTone)

\* SPACE right after a tone key: the user has changed his mind, the tone key does not count.
SkippedLength(bytes, kept) ==
  IF /\ Last(bytes) = FirstTone /\ Len(kept) >= 2
     /\ bytes[Last(kept)] \in {ToneKeyByte, SecondToneByte}
     /\ Last(kept) = Len(bytes) - 1
  THEN Len(kept) ELSE 0

\* By tone tier, then by frequency; with an intent the other tones go, unless all would.
ToneSorted(found, intent) ==
  LET tier(n) == ToneTier([tone |-> found[n].tone, single |-> Len(found[n].word) = 1], intent)
      keep == {n \in 1 .. Len(found) : tier(n) < 2}
      order == Sorted(IF intent # 0 /\ keep # {} THEN keep ELSE 1 .. Len(found),
                 LAMBDA m, n : \/ tier(m) < tier(n)
                               \/ tier(m) = tier(n) /\ (\/ found[m].freq > found[n].freq
                                                        \/ found[m].freq = found[n].freq /\ m < n))
  IN [k \in 1 .. Len(order) |-> found[order[k]]]

SearchV2(index, bytes) ==
  LET kept == Stripped(bytes)
      query(n) == [k \in 1 .. n |-> bytes[kept[k]]]
      found(n) == IF n = SkippedLength(bytes, kept) THEN <<>>
                  ELSE TrieSearch(index, query(n), MaxCandidates)
      step(res, n) ==
        LET hits == found(n)
        IN IF hits = <<>> \/ Len(res.cands) = MaxCandidates THEN res
           ELSE [cands   |-> Merge(res.cands, ToneSorted(hits, ToneIntent(bytes, kept[n])), kept[n]),
                 matched |-> IF res.matched = 0 THEN kept[n] ELSE res.matched]
  IN FoldLeft(step, NoResult, [n \in 1 .. Len(kept) |-> Len(kept) + 1 - n])

-----------------------------------------------------------------------------
(* run_search_v4 *)

\* The lengths of word that are looked up, in this order.
Buckets(positions) ==
  SelectSeq(<<positions, positions + 1, positions - 1, positions + 2, positions - 2>>,
            LAMBDA t : t \in 1 .. 4)

WithPrefix(found, prefix) == [n \in 1 .. Len(found) |-> [word |-> found[n].word, prefix |-> prefix]]

\* The characters that the first key may mean, then the long words.
CharsAndPhrases(chars, phrases, all) ==
  [cands   |-> WithPrefix(chars, 1) \o WithPrefix(phrases, all),
   matched |-> IF chars # <<>> THEN 1 ELSE IF phrases # <<>> THEN all ELSE 0]

SearchLong(dict, bytes, hints, chars) ==
  CharsAndPhrases(chars,
    IF Len(chars) = MaxCandidates THEN <<>>
    ELSE CompositionSearch(dict, bytes, hints, -1, MaxCandidates - Len(chars)),
    Len(bytes))

SearchBuckets(dict, bytes, hints, positions) ==
  CASE positions <= 0 -> NoResult
    [] positions \in 1 .. 4 ->
         [cands   |-> FoldLeft(LAMBDA out, t :
                        Merge(out, CompositionSearch(dict, bytes, hints, t, MaxCandidates), Len(bytes)),
                        <<>>, Buckets(positions)),
          matched |-> Len(bytes)]
    [] OTHER ->
         SearchLong(dict, bytes, hints,
           CompositionSearch(dict, SubSeq(bytes, 1, 1), SubSeq(hints, 1, 1), 1, MaxCandidates))

SearchV4(dict, bytes, hints) ==
  LET counted == CountSyllables(dict, bytes)
  IN SearchBuckets(dict, bytes, hints, IF counted > 0 THEN counted ELSE CountPositions(bytes))

-----------------------------------------------------------------------------
(* prepend_lru_candidates and run_search *)

\* Mutant: a word of the dictionary that is also a personal one stays in the list.
PrependAll(cands, own) == SubSeq(own \o cands, 1, Min({MaxCandidates, Len(own \o cands)}))

\* own: the personal suggestions [word, prefix].
PrependLru(cands, own) ==
  LET other == SelectSeq(cands, LAMBDA c : ~HasWord(own, c.word))
      list == own \o other
  IN SubSeq(list, 1, Min({MaxCandidates, Len(list)}))

\* What the dictionaries have for the keys.
DictSearch(engine, mode, keys) ==
  LET bytes == BytesOf(keys)
  IN CASE keys = <<>> -> NoResult
       [] keys # <<>> /\ mode = "SmartZh" /\ engine.v4 -> SearchV4(engine.mie4, bytes, HintsOf(keys))
       [] OTHER -> SearchV2(IF mode = "SmartZh" THEN engine.zh ELSE engine.en, bytes)

RunSearch(engine, mode, keys, own) ==
  LET found == DictSearch(engine, mode, keys)
  IN IF keys # <<>> /\ mode = "SmartZh" THEN [found EXCEPT !.cands = PrependLru(@, own)] ELSE found

-----------------------------------------------------------------------------
(* rebuild_display_smart: one item for each key, as a number.  A key with a *)
(* hint shows the phoneme meant, another one all its phonemes (Chinese) or  *)
(* its first letter.  The part of the line for the matched keys, which only *)
(* its colour tells, is left out.                                           *)

FirstToneMark == 900

RebuildDisplay(mode, keys) ==
  LET shown(k) ==
        CASE k.byte = FirstTone -> FirstToneMark
          [] k.byte # FirstTone /\ mode = "SmartZh" /\ k.hint <= 2 ->
               600 + 10 * (k.byte - 33) + Min({k.hint, PhonemeCount(k.byte - 33) - 1})
          [] OTHER -> 500 + k.byte
  IN [n \in 1 .. Len(keys) |-> shown(keys[n])]
=============================================================================
