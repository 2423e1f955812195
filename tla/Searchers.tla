------------------------------ MODULE Searchers ------------------------------
(***************************************************************************)
(* The two searchers of the input method: TrieSearcher, which looks a key  *)
(* sequence up in a MIED index (mie/src/trie_searcher.cpp), and            *)
(* CompositionSearcher, which composes the key sequences of a word from    *)
(* the readings of its characters (mie/src/composition_searcher.cpp).      *)
(*                                                                         *)
(* A candidate is [word, freq, tone].  AnyHint leaves the phoneme of a key *)
(* open.  std::sort leaves the order of equal frequencies open; here the   *)
(* one collected first stays first.                                        *)
(***************************************************************************)
EXTENDS Dictionary

AnyHint == 255

-----------------------------------------------------------------------------
(* TrieSearcher *)

\* The first index whose key is not below the query, by bisection.
LowerBound(index, query) ==
  LET search[lo \in 1 .. Len(index) + 1, hi \in 1 .. Len(index) + 1] ==
        IF lo >= hi THEN lo
        ELSE LET mid == lo + (hi - lo) \div 2
             IN IF KeyLess(index[mid].key, query) THEN search[mid + 1, hi] ELSE search[lo, mid]
  IN search[1, Len(index) + 1]

\* Mutant: a word that is already among the results enters again.
InsertAgain(out, c, max) ==
  LET p == Cardinality({i \in 1 .. Len(out) : out[i].freq >= c.freq})
      with == SubSeq(out, 1, p) \o <<c>> \o SubSeq(out, p + 1, Len(out))
  IN IF Len(out) < max THEN with ELSE IF c.freq > Last(out).freq THEN Front(with) ELSE out

\* One word of a value record enters the results, which are sorted and never longer than max.
InsertByFreq(out, c, max) ==
  LET p == Cardinality({i \in 1 .. Len(out) : out[i].freq >= c.freq})
      with == SubSeq(out, 1, p) \o <<c>> \o SubSeq(out, p + 1, Len(out))
  IN IF \E i \in 1 .. Len(out) : out[i].word = c.word THEN out
     ELSE IF Len(out) < max THEN with
     ELSE IF c.freq > Last(out).freq THEN Front(with) ELSE out

TrieSearch(index, query, max) ==
  LET lo == LowerBound(index, query)
      run == {i \in lo .. Len(index) : \A j \in lo .. i : IsPrefix(query, index[j].key)}
      found == FlattenSeq([k \in 1 .. Cardinality(run) |-> index[lo + k - 1].words])
  IN IF query = <<>> THEN <<>>
     ELSE FoldLeft(LAMBDA out, c : InsertByFreq(out, c, max), <<>>, found)

-----------------------------------------------------------------------------
(* CompositionSearcher *)

\* Keys at + 1 .. at + n spell the first n keys of a reading, phonemes included.
Agrees(r, keys, hints, at, n) ==
  \A k \in 1 .. n : r.keys[k] = keys[at + k] /\ hints[at + k] \in {AnyHint, r.pos[k]}

\* Mutant: the abbreviations to one and two keys are not tried.
WholeTries(r) == {Len(r.keys), Len(r.keys) - 1} \intersect 1 .. Len(r.keys)

\* How much of a reading the user may type: all, all but the tone, two keys or one.
Tries(r) == {Len(r.keys), Len(r.keys) - 1, 2, 1} \intersect 1 .. Len(r.keys)

\* SPACE after a whole reading of the first tone belongs to it.
ToneMarkLength(r, n, keys, at) ==
  IF n = Len(r.keys) /\ r.tone = 1 /\ at + n < Len(keys) /\ keys[at + n + 1] = FirstTone
  THEN 1 ELSE 0

WordReading(dict, w, i) == dict.chars[w.chars[i]][w.idx[i]]

CompositionMatches(dict, w, keys, hints) ==
  LET matches[i \in 1 .. Len(w.chars) + 1, at \in 0 .. Len(keys)] ==
        \/ at = Len(keys)
        \/ /\ i <= Len(w.chars)
           /\ LET r == WordReading(dict, w, i)
                  left == Len(keys) - at
              IN \E n \in Tries(r) :
                   IF n > left
                   THEN Agrees(r, keys, hints, at, left)
                   ELSE /\ Agrees(r, keys, hints, at, n)
                        /\ matches[i + 1, at + n + ToneMarkLength(r, n, keys, at)]
  IN matches[1, 0]

\* A match enters the pool: appended, or in the place of the least frequent one.
EmitTopK(pool, c, max) ==
  LET least == Min({i \in 1 .. Len(pool) : \A j \in 1 .. Len(pool) : pool[i].freq <= pool[j].freq})
  IN IF Len(pool) < max THEN Append(pool, c)
     ELSE IF c.freq > pool[least].freq THEN [pool EXCEPT ![least] = c]
     ELSE pool

\* The reading of a character that the keys begin, the first that fits; 0 is none.
FittingReading(dict, char, keys, hints, firstToneOnly) ==
  LET readings == dict.chars[char]
      fits == {k \in 1 .. Len(readings) :
                 /\ firstToneOnly => readings[k].tone = 1
                 /\ Len(readings[k].keys) >= Len(keys)
                 /\ Agrees(readings[k], keys, hints, 0, Len(keys))}
  IN IF fits = {} THEN 0 ELSE Min(fits)

SearchChars(dict, keys, hints, max) ==
  LET firstToneOnly == Last(keys) = FirstTone
      typed == IF firstToneOnly THEN Front(keys) ELSE keys
      chars == dict.keyToChar[keys[1]]
      idx(c) == FittingReading(dict, c, typed, hints, firstToneOnly)
      hits == SelectSeq(chars, LAMBDA c : idx(c) # 0)
      found == [n \in 1 .. Len(hits) |->
                  LET r == dict.chars[hits[n]][idx(hits[n])]
                  IN [word |-> <<hits[n]>>, freq |-> r.freq, tone |-> r.tone]]
  IN IF typed = <<>> THEN <<>>
     ELSE ByFreq(FoldLeft(LAMBDA pool, c : EmitTopK(pool, c, max), <<>>, found))

\* target: the number of characters, -1 for five and more, 0 for any.
InTarget(word, target) ==
  CASE target = -1 -> Len(word) >= 5
    [] target \in 1 .. 7 -> Len(word) = target
    [] OTHER -> TRUE

SearchWords(dict, keys, hints, target, max) ==
  LET ids == FlattenSeq([n \in 1 .. Len(dict.keyToChar[keys[1]]) |->
                           dict.firstChar[dict.keyToChar[keys[1]][n]]])
      hits == SelectSeq(ids, LAMBDA id : /\ InTarget(dict.words[id].chars, target)
                                         /\ CompositionMatches(dict, dict.words[id], keys, hints))
      found == [n \in 1 .. Len(hits) |->
                  LET w == dict.words[hits[n]]
                  IN [word |-> w.chars, freq |-> w.freq,
                      tone |-> WordReading(dict, w, Len(w.chars)).tone]]
  IN ByFreq(FoldLeft(LAMBDA pool, c : EmitTopK(pool, c, max), <<>>, found))

CompositionSearch(dict, keys, hints, target, max) ==
  IF keys = <<>> THEN <<>>
  ELSE IF target = 1 THEN SearchChars(dict, keys, hints, max)
  ELSE SearchWords(dict, keys, hints, target, max)

\* The syllables the keys spell: at each byte the longest known beginning of a
\* syllable is taken, and a byte that begins none is passed over.
CountSyllables(dict, keys) ==
  LET count[at \in 0 .. Len(keys)] ==
        LET takes == {n \in 1 .. Min({4, Len(keys) - at}) : SubSeq(keys, at + 1, at + n) \in dict.prefixes}
        IN CASE at = Len(keys) -> 0
             [] at < Len(keys) /\ takes = {} -> count[at + 1]
             [] OTHER -> 1 + count[at + Max(takes)]
  IN count[0]
=============================================================================
