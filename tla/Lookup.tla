-------------------------------- MODULE Lookup --------------------------------
(***************************************************************************)
(* The way of a word from a word list to the list of candidates: the       *)
(* dictionary compiler builds both dictionaries from one of WordLists, the *)
(* keys are typed one by one, and at each key what the searchers find is   *)
(* compared with what the word list says.                                  *)
(***************************************************************************)
EXTENDS ImeSearch

CONSTANTS
  WordLists    (* Of [entries, english, bytes, hints, most]: a word list, the
                  keys typed with it, the hints on them, and, a bound of
                  the model, how many are typed at most.                    *)

VARIABLES
  wordList,    (* The word list ...                                         *)
  miedIndex,   (* ... and the two dictionaries built from it.               *)
  mie4Dict,
  pressed      (* The keys typed so far.                                    *)

vars == <<wordList, miedIndex, mie4Dict, pressed>>

Loaded(l) == IF l.english THEN LoadEnglish(l.entries) ELSE LoadChinese(l.entries)

Init ==
  /\ wordList \in WordLists
  /\ miedIndex = BuildMied(Loaded(wordList))
  /\ mie4Dict = BuildMiedV4(wordList.entries)
  /\ pressed = <<>>

Type(b, h) ==
  /\ Len(pressed) < wordList.most
  /\ pressed' = Append(pressed, [byte |-> b, hint |-> h])
  /\ UNCHANGED <<wordList, miedIndex, mie4Dict>>

Next == \E b \in wordList.bytes, h \in wordList.hints : Type(b, h)

Spec == Init /\ [][Next]_vars

-----------------------------------------------------------------------------
(* What the word list says.  These definitions are independent of the      *)
(* dictionaries.                                                           *)

entries == Frequent(wordList.entries)
bytes == BytesOf(pressed)
hints == HintsOf(pressed)

\* The abbreviations of a syllable that the input method promises to know: its
\* first key, its first two, all but the last (the tone) and the whole, which
\* SPACE may follow when the tone is the first.
Spellings(syllable) ==
  LET keys == KeySeq(syllable)
      pos == Positions(syllable)
      cut(n) == [k \in 1 .. n |-> [byte |-> keys[k], pos |-> pos[k]]]
  IN {cut(n) : n \in {1, 2, Len(keys) - 1, Len(keys)} \intersect 1 .. Len(keys)}
       \union (IF SyllableTone(syllable) # 1 THEN {}
               ELSE {Append(cut(Len(keys)), [byte |-> FirstTone, pos |-> 0])})

Spelled(spelling, n) ==
  /\ spelling[n].byte = bytes[n]
  /\ spelling[n].byte # FirstTone => hints[n] \in {AnyHint, spelling[n].pos}

\* The keys typed are the beginning of a spelling of the reading.
MayMean(reading) ==
  LET choices == {c \in [1 .. Len(reading) -> UNION {Spellings(reading[i]) : i \in 1 .. Len(reading)}] :
                    \A i \in 1 .. Len(reading) : c[i] \in Spellings(reading[i])}
  IN \E c \in choices :
       LET s == FlattenSeq([i \in 1 .. Len(reading) |-> c[i]])
       IN Len(pressed) <= Len(s) /\ \A n \in 1 .. Len(pressed) : Spelled(s, n)

\* The words of n >= 2 characters that the keys may mean, at their best entry.
Meant(n) == {entries[m].word : m \in {k \in BestEntries(entries) :
                /\ Len(entries[k].word) = n /\ MayMean(entries[k].reading)}}

FreqOf(word) == Capped(Max({entries[m].freq : m \in {k \in 1 .. Len(entries) : entries[k].word = word}}))

WordsOf(cands) == {cands[n].word : n \in 1 .. Len(cands)}

NoneTwice(cands) == \A m, n \in 1 .. Len(cands) : cands[m].word = cands[n].word => m = n

TypeOK ==
  /\ wordList \in WordLists
  /\ pressed \in Seq([byte : wordList.bytes, hint : wordList.hints]) /\ Len(pressed) <= wordList.most
  /\ \A w \in 1 .. Len(mie4Dict.words) : \A i \in 1 .. Len(mie4Dict.words[w].chars) :
       mie4Dict.words[w].idx[i] \in 1 .. Len(mie4Dict.chars[mie4Dict.words[w].chars[i]])

\* composition_searcher.cpp: the words of a length that are found by composing
\* the readings of their characters are those whose reading, as the word list
\* has it, may be spelled by the keys: the parts of the two algorithms (the
\* order by frequency and the cut at the limit included) fit together.
MostFrequentOf(found, meant) ==
  /\ NoneTwice(found)
  /\ WordsOf(found) \subseteq meant
  /\ \A k \in 2 .. Len(found) : found[k].freq <= found[k - 1].freq
  /\ \A k \in 1 .. Len(found) : found[k].freq = FreqOf(found[k].word)
  /\ \A w \in meant \ WordsOf(found) :
       Len(found) = MaxCandidates /\ FreqOf(w) <= Last(found).freq

CompositionFindsAll ==
  pressed # <<>> =>
    \A n \in 2 .. 4 :
      MostFrequentOf(CompositionSearch(mie4Dict, bytes, hints, n, MaxCandidates), Meant(n))

\* Entry m is not stored at key k: too long, or beaten by enough others.
NotStored(loaded, m, k) ==
  \/ Len(loaded[m].word) > MaxWordChars
  \/ /\ MaxPerKey > 0
     /\ Cardinality({j \in 1 .. Len(loaded) :
                       /\ k \in loaded[j].keys
                       /\ \/ loaded[j].freq > loaded[m].freq
                          \/ loaded[j].freq = loaded[m].freq /\ j < m}) >= MaxPerKey

\* trie_searcher.cpp and build_mied: a lookup finds the words one of whose keys
\* begins with the query, each once; one that is left out has been pruned at all
\* of these keys or is no more frequent than the last one.
AllBelow(found, loaded) ==
  LET below(m) == {k \in loaded[m].keys : IsPrefix(bytes, k)}
      known == {m \in 1 .. Len(loaded) : \E k \in below(m) : ~NotStored(loaded, m, k)}
  IN /\ NoneTwice(found)
     /\ \A n \in 2 .. Len(found) : found[n].freq <= found[n - 1].freq
     /\ WordsOf(found) \subseteq {loaded[m].word : m \in known}
     /\ \A m \in known : loaded[m].word \notin WordsOf(found) =>
          Len(found) = MaxCandidates /\ Capped(loaded[m].freq) <= Last(found).freq

TrieFindsAll ==
  pressed # <<>> => AllBelow(TrieSearch(miedIndex, bytes, MaxCandidates), Loaded(wordList))

\* ime_keys.cpp: the part of the keys that first_n_positions_bytes gives for n
\* syllables holds exactly n of them, and what is left begins a syllable:
\* counting it anew finds all the others.
SplitsAtSyllables ==
  \A n \in 1 .. wordList.most :
    LET cut == FirstNPositionsBytes(bytes, n)
        count == CountPositions(bytes)
    IN /\ CountPositions(SubSeq(bytes, 1, cut)) = Min({n, count})
       /\ CountPositions(SubSeq(bytes, 1, cut)) + CountPositions(SubSeq(bytes, cut + 1, Len(bytes))) = count

\* ime_search.cpp: whichever way the list of candidates came about, it holds each
\* word once, never more than fit, each spends at least one and at most all keys.
\* What a personal suggestion says comes first.
SoundList(res, mode, own) ==
  /\ NoneTwice(res.cands) /\ Len(res.cands) <= MaxCandidates
  /\ \A n \in 1 .. Len(res.cands) : res.cands[n].prefix \in 1 .. Len(pressed)
  /\ res.matched \in 0 .. Len(pressed)
  /\ mode = "SmartZh" /\ own # <<>> => res.cands[1] = own[1]

ListIsSound ==
  \A mode \in {"SmartZh", "SmartEn"}, v4 \in BOOLEAN :
    \E own \in {IF pressed = <<>> THEN <<>> ELSE <<[word |-> entries[1].word, prefix |-> 1]>>} :
      SoundList(RunSearch([zh |-> miedIndex, en |-> miedIndex, mie4 |-> mie4Dict, v4 |-> v4],
                          mode, pressed, own), mode, own)
=============================================================================
