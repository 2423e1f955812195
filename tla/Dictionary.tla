----------------------------- MODULE Dictionary -----------------------------
(***************************************************************************)
(* The dictionary compiler (mie/tools/gen_dict.py).  From the entries of a *)
(* word list it builds two dictionaries: MIED, an index from key sequences *)
(* to words (the Chinese one holds every abbreviation of a word, the       *)
(* English one its whole spelling), and MIE4, a table of characters with   *)
(* their readings, a table of words as sequences of characters and the     *)
(* indexes into them.  Offsets and the byte layout are left out: a section *)
(* of the file is a sequence or a function.                                *)
(*                                                                         *)
(* An entry is [word, freq, reading]: a word is a sequence of characters,  *)
(* a reading a sequence of syllables, a syllable a sequence of phonemes.   *)
(* A phoneme is <<slot, position>>: a key and its place on that key.       *)
(***************************************************************************)
EXTENDS ImeKeys

CONSTANTS
  MaxFreq,       (* 0xFFFF: the frequencies of the files are 16 bits wide.  *)
  MinFreq,       (* min_freq: rarer entries are dropped.                    *)
  MaxAbbrSyls,   (* max_abbr_syls (4): longer words are not abbreviated;
                    0 is no limit.                                          *)
  MaxPerKey,     (* max_per_key: the words kept for a key; 0 is no limit.   *)
  MaxWords,      (* en_max_words: the English words that are read.          *)
  MaxWordChars,  (* 10: a word of 31 bytes and more is not stored.          *)
  MaxGroup       (* MAX_GROUP (8): the words of so many characters or more
                    share a group.                                          *)

Capped(freq) == Min({freq, MaxFreq})

-----------------------------------------------------------------------------
(* Readings *)

KeySeq(syllable) == [i \in 1 .. Len(syllable) |-> SlotByte(syllable[i][1])]
Positions(syllable) == [i \in 1 .. Len(syllable) |-> syllable[i][2]]

ToneMark == (<<2, 1>> :> 2) @@ (<<1, 0>> :> 3) @@ (<<1, 1>> :> 4) @@ (<<3, 0>> :> 5)

SyllableTone(syllable) ==
  LET marks == SelectSeq(syllable, LAMBDA ph : ph \in DOMAIN ToneMark)
  IN IF marks = <<>> THEN 1 ELSE ToneMark[marks[1]]

SyllableReading(syllable) ==
  [keys |-> KeySeq(syllable), pos |-> Positions(syllable), tone |-> SyllableTone(syllable)]

-----------------------------------------------------------------------------
(* MIED: an index sorted by key of [key, words] *)

KeyLess(a, b) ==
  \/ IsStrictPrefix(a, b)
  \/ \E n \in 1 .. Min({Len(a), Len(b)}) :
       a[n] < b[n] /\ SubSeq(a, 1, n - 1) = SubSeq(b, 1, n - 1)

\* The key sequences of a reading in which every syllable may be cut short.
AbbreviatedKeySeqs(reading) ==
  LET cuts == [1 .. Len(reading) -> 1 .. Max({Len(reading[i]) : i \in 1 .. Len(reading)})]
      fits == {c \in cuts : \A i \in 1 .. Len(reading) : c[i] <= Len(reading[i])}
  IN {FlattenSeq([i \in 1 .. Len(reading) |-> KeySeq(SubSeq(reading[i], 1, c[i]))]) : c \in fits}

WholeKeySeq(reading) == FlattenSeq([i \in 1 .. Len(reading) |-> KeySeq(reading[i])])

KeysOf(entry) ==
  {WholeKeySeq(entry.reading)}
    \union (IF MaxAbbrSyls = 0 \/ Len(entry.reading) <= MaxAbbrSyls
            THEN AbbreviatedKeySeqs(entry.reading) ELSE {})

Frequent(entries) == SelectSeq(entries, LAMBDA e : e.freq >= MinFreq)

LoadChinese(entries) ==
  LET read == Frequent(entries)
  IN [n \in 1 .. Len(read) |->
        [keys |-> KeysOf(read[n]), word |-> read[n].word, freq |-> read[n].freq,
         tone |-> SyllableTone(Last(read[n].reading))]]

\* An English word is read letter by letter, and has no tone.
LoadEnglish(entries) ==
  LET read == Frequent([n \in 1 .. Len(entries) |-> [entries[n] EXCEPT !.freq = Max({@, 1})]])
  IN [n \in 1 .. Min({Len(read), MaxWords}) |->
        [keys |-> {WholeKeySeq(read[n].reading)}, word |-> read[n].word,
         freq |-> read[n].freq, tone |-> 0]]

\* In the order of Python's stable sort by -freq.
ByFreq(seq) ==
  LET order == Sorted(1 .. Len(seq), LAMBDA i, j : seq[i].freq > seq[j].freq
                                                   \/ (seq[i].freq = seq[j].freq /\ i < j))
  IN [n \in 1 .. Len(seq) |-> seq[order[n]]]

Pruned(words) == IF MaxPerKey > 0 /\ Len(words) > MaxPerKey THEN SubSeq(ByFreq(words), 1, MaxPerKey) ELSE words

\* The words of a key are sorted before those that are too long are passed over.
ValueRecord(words) ==
  LET valid == SelectSeq(ByFreq(words), LAMBDA w : Len(w.word) <= MaxWordChars)
  IN [n \in 1 .. Len(valid) |-> [valid[n] EXCEPT !.freq = Capped(@)]]

BuildMied(loaded) ==
  LET keys == UNION {loaded[i].keys : i \in 1 .. Len(loaded)}
      at(k) == LET of == SelectSeq(loaded, LAMBDA e : k \in e.keys)
               IN [n \in 1 .. Len(of) |-> [word |-> of[n].word, freq |-> of[n].freq, tone |-> of[n].tone]]
      order == Sorted(keys, KeyLess)
  IN [n \in 1 .. Len(order) |-> [key |-> order[n], words |-> ValueRecord(Pruned(at(order[n])))]]

-----------------------------------------------------------------------------
(* MIE4 *)

WellRead(entry) == Len(entry.word) = Len(entry.reading)

\* The sightings of a character, in the order of the word list.
Sightings(entries, char) ==
  FlattenSeq([n \in 1 .. Len(entries) |->
     LET e == entries[n] IN
     IF ~WellRead(e) THEN <<>>
     ELSE SelectSeq([i \in 1 .. Len(e.word) |->
             [char |-> e.word[i], reading |-> SyllableReading(e.reading[i]), freq |-> Max({e.freq, 1})]],
             LAMBDA s : s.char = char)])

\* Its readings, the most frequent first; a reading has the highest frequency seen.
BuildReadings(entries, char) ==
  LET seen == Sightings(entries, char)
      first == SelectSeq([n \in 1 .. Len(seen) |-> [n |-> n] @@ seen[n]],
                 LAMBDA s : \A m \in 1 .. s.n - 1 : seen[m].reading # s.reading)
      best == [k \in 1 .. Len(first) |->
                 [freq |-> Capped(Max({seen[m].freq : m \in {j \in 1 .. Len(seen) :
                                         seen[j].reading = first[k].reading}}))] @@ first[k].reading]
  IN ByFreq(best)

Characters(entries) ==
  UNION {ToSet(entries[n].word) : n \in {m \in 1 .. Len(entries) : WellRead(entries[m])}}

BuildCharTable(entries) == [c \in Characters(entries) |-> BuildReadings(entries, c)]

ReadingIdx(readings, syllable) ==
  LET r == SyllableReading(syllable)
      is(k) == readings[k].keys = r.keys /\ readings[k].pos = r.pos /\ readings[k].tone = r.tone
  IN Min({k \in 1 .. Len(readings) : is(k)} \union {Len(readings) + 1})

\* The entry of a word of several characters that counts: the first of the most frequent.
BestEntries(entries) ==
  {n \in 1 .. Len(entries) :
     /\ Len(entries[n].word) >= 2 /\ WellRead(entries[n])
     /\ \A m \in 1 .. Len(entries) :
          m # n /\ entries[m].word = entries[n].word /\ WellRead(entries[m])
            => entries[m].freq < entries[n].freq \/ (entries[m].freq = entries[n].freq /\ n < m)}

Group(word) == Min({Len(word), MaxGroup})

\* The words, in the order of the identifiers: group by group, the most frequent
\* first, and of equally frequent ones the one that the list has first.
BuildWordTable(entries, charTable) ==
  LET seenAt(word) == Min({m \in 1 .. Len(entries) : entries[m].word = word /\ WellRead(entries[m])})
      order == Sorted(BestEntries(entries), LAMBDA m, n :
                 LET a == entries[m] b == entries[n] IN
                 \/ Group(a.word) < Group(b.word)
                 \/ Group(a.word) = Group(b.word)
                    /\ (a.freq > b.freq \/ (a.freq = b.freq /\ seenAt(a.word) < seenAt(b.word))))
  IN [w \in 1 .. Len(order) |->
        LET e == entries[order[w]] IN
        [chars |-> e.word, freq |-> Capped(e.freq),
         idx |-> [i \in 1 .. Len(e.word) |-> ReadingIdx(charTable[e.word[i]], e.reading[i])]]]

\* The identifiers of the words that begin with a character, the most frequent first.
FirstCharIdx(words, char) ==
  LET ids == {w \in 1 .. Len(words) : words[w].chars[1] = char}
  IN Sorted(ids, LAMBDA v, w : words[v].freq > words[w].freq
                                     \/ (words[v].freq = words[w].freq /\ v < w))

\* The characters that have a reading that begins with a key.
KeyToCharIdx(charTable, byte) ==
  Sorted({c \in DOMAIN charTable : \E k \in 1 .. Len(charTable[c]) :
                  charTable[c][k].keys[1] = byte}, LAMBDA a, b : a < b)

\* Every beginning of a syllable, up to four keys.
SyllablePrefixSet(entries) ==
  UNION {{SubSeq(KeySeq(syl), 1, n) : n \in 1 .. Min({Len(syl), 4})} :
           syl \in UNION {ToSet(entries[m].reading) : m \in 1 .. Len(entries)}}

BuildMiedV4(raw) ==
  LET entries == Frequent(raw)
      charTable == BuildCharTable(entries)
      words == BuildWordTable(entries, charTable)
  IN [chars |-> charTable, words |-> words,
      firstChar |-> [c \in DOMAIN charTable |-> FirstCharIdx(words, c)],
      keyToChar |-> [b \in Bytes |-> KeyToCharIdx(charTable, b)],
      prefixes |-> SyllablePrefixSet(entries)]
=============================================================================
