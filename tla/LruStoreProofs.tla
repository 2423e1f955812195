---------------------------- MODULE LruStoreProofs ----------------------------
(***************************************************************************)
(* What the personal cache of the input method keeps, for every size of    *)
(* the cache and of a page, every dictionary and every period of saving.   *)
(***************************************************************************)
EXTENDS LruStore, SequenceFacts, FiniteSetTheorems

\* What the fields of an entry hold: a word, its reading, its hints and the
\* time of its last use.
Texts == {w.text : w \in Words} \cup {TornText}
Readings == {w.keys : w \in Words}
Hints == {PosPacked(w.hints) : w \in Words}
Stamps == 0 .. MaxNow \cup {MaxStamp}

\* An entry of the cache.
Entry == [keys : Readings, pos : Hints, text : Texts, bytes : 1 .. 24,
          stamp : Stamps, uses : 1 .. MaxUses]

\* Two entries for the same word.
SameWord(e, f) == e.keys = f.keys /\ e.pos = f.pos /\ e.text = f.text /\ e.bytes = f.bytes

\* No word has two entries, but damaged ones may look alike.
Unique(s) == \A i, j \in 1 .. Len(s) : SameWord(s[i], s[j]) => i = j \/ s[i].text = TornText

\* A cache within its capacity, without duplicates.
Sound(s) == s \in Seq(Entry) /\ Len(s) <= Cap /\ Unique(s)

\* No entry has been used since entry i.
Freshest(s, i) == \A j \in 1 .. Len(s) : s[j].stamp <= s[i].stamp

\* Loop: what the throttle counts, between the tripwires.
Throttled ==
  /\ pending \in 0 .. N + 1
  /\ pc = "loop" => pending <= N - 1
  /\ unsaved \in Nat /\ fails \in Nat /\ boots \in Nat /\ boots + fails <= MaxMishaps
  /\ unsaved <= fails * (N + 1) + pending

\* The time, the input mode and the flags of the loop.
Clocks ==
  /\ now \in 0 .. MaxNow /\ idle \in 0 .. IdleTime
  /\ mode \in 0 .. 2 /\ lastMode \in 0 .. 2
  /\ dirty \in BOOLEAN

\* Where the task is in a save, and how many pages it has programmed.
Slot ==
  /\ pc \in {"loop", "save", "program"}
  /\ programmed \in 0 .. Pages
  /\ pc = "program" => programmed < Pages

\* In the first boot the stamps are those of one clock.
FirstBoot ==
  /\ latest \in Words \cup {NoWord}
  /\ boots = 0 =>
       /\ \A j \in 1 .. Len(cache) : cache[j].stamp <= now
       /\ latest # NoWord => \E i \in ExactAt(cache, latest) : Freshest(cache, i)

\* All that the cache and its image rely on.
LruIInv == Throttled /\ Clocks /\ Slot /\ Sound(cache) /\ Sound(image) /\ FirstBoot

-----------------------------------------------------------------------------
(* The operators of the cache *)

\* The smaller one of two numbers.
LEMMA MinOfTwo ==
  ASSUME NEW a \in Int, NEW b \in Int
  PROVE  Min({a, b}) = IF a <= b THEN a ELSE b
  <1> DEFINE m == IF a <= b THEN a ELSE b
  <1>1. m \in {a, b} /\ \A y \in {a, b} : m =< y
    OBVIOUS
  <1>2. \A x \in {a, b} : (\A y \in {a, b} : x =< y) => x = m
    OBVIOUS
  <1> HIDE DEF m
  <1>3. Min({a, b}) \in {a, b} /\ \A y \in {a, b} : Min({a, b}) =< y
    BY <1>1 DEF Min
  <1> QED BY <1>2, <1>3 DEF m

\* The smallest one of some numbers is one of them.
LEMMA MinOfSome ==
  ASSUME NEW T \in SUBSET Nat, T # {}
  PROVE  Min(T) \in T
  <1>1. \E x \in T : \A y \in T : x =< y
    BY LeastNatural
  <1> QED BY <1>1 DEF Min

\* Facts about the constants in the form in which the proofs use them.
LEMMA Constants ==
  /\ Cap \in Nat \ {0} /\ Packed \in Nat \ {0} /\ MaxUses \in Nat \ {0}
  /\ PageSize \in Nat \ {0} /\ ReuseBonus \in Nat /\ MaxStamp \in Nat
  /\ N \in Nat \ {0} /\ IdleTime \in Nat \ {0} /\ MaxNow \in Nat /\ MaxMishaps \in Nat
  /\ Stamps \subseteq Nat
  BY LruCacheAssumption, LruStoreAssumption DEF Stamps

\* A new entry is an entry for its word.
LEMMA NewEntryIs ==
  ASSUME NEW w \in Words, NEW t \in 0 .. MaxNow
  PROVE  /\ NewEntry(w, t) \in Entry
         /\ NewEntry(w, t).keys = w.keys /\ NewEntry(w, t).pos = PosPacked(w.hints)
         /\ NewEntry(w, t).text = w.text /\ NewEntry(w, t).bytes = w.bytes
         /\ NewEntry(w, t).stamp = t
  <1>1. w.bytes \in 1 .. 24
    BY LruStoreAssumption
  <1>2. w.keys \in Readings /\ PosPacked(w.hints) \in Hints /\ w.text \in Texts
    BY DEF Readings, Hints, Texts
  <1>3. t \in Stamps /\ 1 \in 1 .. MaxUses
    BY Constants DEF Stamps
  <1> DEFINE p == PosPacked(w.hints)
  <1> HIDE DEF p
  <1>4. p \in Hints
    BY <1>2 DEF p
  <1>5. NewEntry(w, t) = [keys |-> w.keys, pos |-> p, text |-> w.text,
                          bytes |-> w.bytes, stamp |-> t, uses |-> 1]
    BY DEF NewEntry, p
  <1> QED BY <1>1, <1>2, <1>3, <1>4, <1>5 DEF Entry, p

\* A word that is used again keeps its entry, but for the time and the count.
LEMMA UsedIs ==
  ASSUME NEW e \in Entry, NEW t \in 0 .. MaxNow
  PROVE  Used(e, t) \in Entry /\ SameWord(Used(e, t), e) /\ Used(e, t).stamp = t
  <1> DEFINE u == Min({e.uses + 1, MaxUses})
  <1>1. e.uses \in 1 .. MaxUses
    BY DEF Entry
  <1>2. u \in 1 .. MaxUses
    BY <1>1, Constants, MinOfTwo
  <1>3. Used(e, t) = [e EXCEPT !.stamp = t, !.uses = u]
    BY DEF Used
  <1>4. t \in Stamps
    BY DEF Stamps
  <1> HIDE DEF u
  <1> QED BY <1>2, <1>3, <1>4 DEF Entry, SameWord

\* d is c with the entry e at place k: a new one, or one after the last.
Stored(c, d, k, e) ==
  /\ d \in Seq(Entry) /\ Len(d) <= Cap
  /\ Len(c) <= Len(d) /\ k \in 1 .. Len(d) /\ d[k] = e
  /\ \A j \in 1 .. Len(d) : j # k => j \in 1 .. Len(c) /\ d[j] = c[j]

\* An entry takes the place of another one.
LEMMA StoredInside ==
  ASSUME NEW c \in Seq(Entry), Len(c) <= Cap, NEW k \in 1 .. Len(c), NEW e \in Entry
  PROVE  Stored(c, [c EXCEPT ![k] = e], k, e)
  BY DEF Stored

\* An entry comes after the last one.
LEMMA StoredBehind ==
  ASSUME NEW c \in Seq(Entry), Len(c) < Cap, NEW e \in Entry
  PROVE  Stored(c, Append(c, e), Len(c) + 1, e)
  <1> DEFINE d == Append(c, e)
             k == Len(c) + 1
  <1>1. /\ d \in Seq(Entry) /\ Len(d) = k /\ d[k] = e /\ Len(c) \in Nat
        /\ \A j \in 1 .. Len(c) : d[j] = c[j]
    BY AppendProperties, LenProperties
  <1>2. k <= Cap /\ Len(c) <= k /\ k \in 1 .. k
    BY <1>1, Constants
  <1>3. \A j \in 1 .. k : j # k => j \in 1 .. Len(c)
    BY <1>1
  <1> HIDE DEF d, k
  <1>4. Stored(c, d, k, e)
    BY <1>1, <1>2, <1>3 DEF Stored
  <1> QED BY <1>4 DEF d, k

\* The time and the count of an entry are numbers.
LEMMA EntryNumbers ==
  ASSUME NEW e \in Entry
  PROVE  e.stamp \in Nat /\ e.uses \in Nat /\ e.bytes \in 1 .. 24
  <1>1. e.stamp \in Stamps /\ e.uses \in 1 .. MaxUses /\ e.bytes \in 1 .. 24
    BY DEF Entry
  <1>2. e.stamp \in Nat
    BY <1>1, Constants
  <1>3. e.uses \in Nat
    BY <1>1, Constants
  <1> QED BY <1>1, <1>2, <1>3

\* The scores are numbers.
LEMMA ScoreType ==
  ASSUME NEW e \in Entry
  PROVE  Score(e) \in Nat
  <1>1. e.stamp \in Nat /\ e.uses \in Nat
    BY EntryNumbers
  <1>2. ReuseBonus * e.uses \in Nat
    BY <1>1, Constants
  <1> QED BY <1>1, <1>2 DEF Score

\* Another entry used both less recently and less often has a lower score.
LEMMA LowerScore ==
  ASSUME NEW e \in Entry, NEW f \in Entry, Score(e) <= Score(f)
  PROVE  ~(f.stamp < e.stamp /\ f.uses < e.uses)
  <1>1. e.stamp \in Nat /\ e.uses \in Nat /\ f.stamp \in Nat /\ f.uses \in Nat
    BY EntryNumbers
  <1> DEFINE a == e.uses
             b == f.uses
             x == ReuseBonus * a
             y == ReuseBonus * b
  <1>2. ASSUME b < a PROVE y <= x
    <2>1. a - b \in Nat /\ ReuseBonus * (a - b) \in Nat
      BY <1>1, <1>2, Constants
    <2>2. x = y + ReuseBonus * (a - b)
      BY <1>1, <2>1, Constants
    <2> QED BY <1>1, <2>1, <2>2, Constants
  <1>3. x \in Nat /\ y \in Nat
    BY <1>1, Constants
  <1> HIDE DEF x, y
  <1>4. Score(e) = e.stamp + x /\ Score(f) = f.stamp + y
    BY DEF Score, x, y
  <1> QED BY <1>1, <1>2, <1>3, <1>4

\* A full cache has a weakest entry, and that one goes.
LEMMA VictimIs ==
  ASSUME NEW c \in Seq(Entry), Len(c) # 0
  PROVE  /\ EvictVictim(c) \in 1 .. Len(c)
         /\ \A j \in 1 .. Len(c) : Score(c[EvictVictim(c)]) <= Score(c[j])
  <1> DEFINE I == 1 .. Len(c)
             T == {Score(c[i]) : i \in I}
             V == {i \in I : \A j \in I : Score(c[i]) <= Score(c[j])}
  <1>1. Len(c) \in Nat /\ I # {} /\ \A i \in I : c[i] \in Entry
    BY LenProperties, ElementOfSeq
  <1>2. \A i \in I : Score(c[i]) \in Nat
    BY <1>1, ScoreType
  <1> HIDE DEF I
  <1>3. T \in SUBSET Nat /\ T # {}
    BY <1>1, <1>2
  <1>4. PICK n \in T : \A m \in T : n <= m
    BY <1>3, LeastNatural
  <1>5. V # {}
    BY <1>4
  <1>6. V \in SUBSET Nat
    BY <1>1 DEF I
  <1> HIDE DEF V
  <1>7. Min(V) \in V
    BY <1>5, <1>6, MinOfSome
  <1>8. EvictVictim(c) = Min(V)
    BY DEF EvictVictim, V, I
  <1> QED BY <1>7, <1>8 DEF V, I

\* upsert leaves every entry alone but one, which it gives the word and the time; a word is
\* only forgotten when the cache is full, and then it is the weakest one.
LEMMA UpsertStores ==
  ASSUME NEW c, Sound(c), NEW w \in Words, NEW t \in 0 .. MaxNow
  PROVE  \E k \in Nat \ {0}, e \in Entry :
           /\ Stored(c, Upsert(c, w, t), k, e)
           /\ e.stamp = t /\ e.keys = w.keys /\ e.pos = PosPacked(w.hints)
           /\ e.text = w.text /\ e.bytes = w.bytes
           /\ \/ k \in 1 .. Len(c) /\ SameWord(e, c[k])
              \/ ExactAt(c, w) = {} /\ k \notin 1 .. Len(c)
              \/ /\ ExactAt(c, w) = {} /\ k \in 1 .. Len(c)
                 /\ \A j \in 1 .. Len(c) : Score(c[k]) <= Score(c[j])
  <1>1. c \in Seq(Entry) /\ Len(c) <= Cap /\ Len(c) \in Nat /\ \A i \in 1 .. Len(c) : c[i] \in Entry
    BY LenProperties, ElementOfSeq DEF Sound
  <1>2. CASE ExactAt(c, w) # {}
    <2> DEFINE k == Min(ExactAt(c, w))
               e == Used(c[k], t)
    <2>1. ExactAt(c, w) \in SUBSET Nat
      BY <1>1 DEF ExactAt
    <2>2. k \in ExactAt(c, w)
      BY <1>2, <2>1, MinOfSome
    <2> HIDE DEF k
    <2>3. k \in 1 .. Len(c) /\ k \in Nat \ {0} /\ c[k].keys = w.keys
          /\ c[k].pos = PosPacked(w.hints) /\ c[k].text = w.text /\ c[k].bytes = w.bytes
      BY <1>1, <2>2 DEF ExactAt
    <2>4. e \in Entry /\ SameWord(e, c[k]) /\ e.stamp = t
      BY <1>1, <2>3, UsedIs
    <2>5. Upsert(c, w, t) = [c EXCEPT ![k] = e]
      BY <1>2 DEF Upsert, k
    <2> HIDE DEF e
    <2>6. Stored(c, Upsert(c, w, t), k, e)
      BY <1>1, <2>3, <2>4, <2>5, StoredInside
    <2>7. e.keys = w.keys /\ e.pos = PosPacked(w.hints) /\ e.text = w.text /\ e.bytes = w.bytes
      BY <2>3, <2>4 DEF SameWord
    <2> QED BY <2>3, <2>4, <2>6, <2>7
  <1>3. CASE ExactAt(c, w) = {} /\ Len(c) < Cap
    <2> DEFINE k == Len(c) + 1
               e == NewEntry(w, t)
    <2>1. /\ e \in Entry /\ e.keys = w.keys /\ e.pos = PosPacked(w.hints)
          /\ e.text = w.text /\ e.bytes = w.bytes /\ e.stamp = t
      BY NewEntryIs
    <2>2. Upsert(c, w, t) = Append(c, e)
      BY <1>3 DEF Upsert
    <2> HIDE DEF e
    <2>3. k \in Nat \ {0} /\ k \notin 1 .. Len(c)
      BY <1>1
    <2>4. Stored(c, Upsert(c, w, t), k, e)
      BY <1>1, <1>3, <2>1, <2>2, StoredBehind
    <2> HIDE DEF k
    <2> QED BY <1>3, <2>1, <2>3, <2>4
  <1>4. CASE ExactAt(c, w) = {} /\ ~(Len(c) < Cap)
    <2> DEFINE k == EvictVictim(c)
               e == NewEntry(w, t)
    <2>1. /\ e \in Entry /\ e.keys = w.keys /\ e.pos = PosPacked(w.hints)
          /\ e.text = w.text /\ e.bytes = w.bytes /\ e.stamp = t
      BY NewEntryIs
    <2>2. Upsert(c, w, t) = [c EXCEPT ![k] = e]
      BY <1>4 DEF Upsert
    <2>3. Len(c) # 0
      BY <1>1, <1>4, Constants
    <2>4. k \in 1 .. Len(c) /\ \A j \in 1 .. Len(c) : Score(c[k]) <= Score(c[j])
      BY <1>1, <2>3, VictimIs
    <2> HIDE DEF e, k
    <2>5. k \in Nat \ {0}
      BY <1>1, <2>4
    <2>6. Stored(c, Upsert(c, w, t), k, e)
      BY <1>1, <2>1, <2>2, <2>4, StoredInside
    <2> QED BY <1>4, <2>1, <2>4, <2>5, <2>6
  <1> QED BY <1>2, <1>3, <1>4

\* After upsert no word has two entries, and the word has one with the time.
LEMMA UpsertSound ==
  ASSUME NEW c, Sound(c), NEW w \in Words, NEW t \in 0 .. MaxNow
  PROVE  /\ Sound(Upsert(c, w, t))
         /\ (\A j \in 1 .. Len(c) : c[j].stamp <= t) =>
              /\ \A j \in 1 .. Len(Upsert(c, w, t)) : Upsert(c, w, t)[j].stamp <= t
              /\ \E i \in ExactAt(Upsert(c, w, t), w) : Freshest(Upsert(c, w, t), i)
  <1> DEFINE d == Upsert(c, w, t)
  <1>1. PICK k \in Nat \ {0}, e \in Entry :
           /\ Stored(c, d, k, e)
           /\ e.stamp = t /\ e.keys = w.keys /\ e.pos = PosPacked(w.hints)
           /\ e.text = w.text /\ e.bytes = w.bytes
           /\ \/ k \in 1 .. Len(c) /\ SameWord(e, c[k])
              \/ ExactAt(c, w) = {} /\ k \notin 1 .. Len(c)
              \/ /\ ExactAt(c, w) = {} /\ k \in 1 .. Len(c)
                 /\ \A j \in 1 .. Len(c) : Score(c[k]) <= Score(c[j])
    BY UpsertStores
  <1> HIDE DEF d
  <1>2. /\ d \in Seq(Entry) /\ Len(d) <= Cap /\ k \in 1 .. Len(d) /\ d[k] = e
        /\ \A j \in 1 .. Len(d) : j # k => j \in 1 .. Len(c) /\ d[j] = c[j]
    BY <1>1 DEF Stored
  <1>3. \A i, j \in 1 .. Len(c) : SameWord(c[i], c[j]) => i = j \/ c[i].text = TornText
    BY DEF Sound, Unique
  <1>4. ASSUME NEW j \in 1 .. Len(c), j # k, SameWord(c[j], e)
        PROVE  c[j].text = TornText
    <2>1. CASE ExactAt(c, w) = {}
      <3>1. j \in ExactAt(c, w)
        BY <1>1, <1>4 DEF ExactAt, SameWord
      <3> QED BY <2>1, <3>1
    <2>2. CASE k \in 1 .. Len(c) /\ SameWord(e, c[k])
      <3>1. SameWord(c[j], c[k])
        BY <1>4, <2>2 DEF SameWord
      <3> QED BY <1>3, <1>4, <2>2, <3>1
    <2> QED BY <1>1, <2>1, <2>2
  <1>5. ASSUME NEW i \in 1 .. Len(d), NEW j \in 1 .. Len(d), SameWord(d[i], d[j]), i # j
        PROVE  d[i].text = TornText
    <2>1. CASE i # k /\ j # k
      BY <1>2, <1>3, <1>5, <2>1
    <2>2. CASE i = k
      <3>1. j \in 1 .. Len(c) /\ j # k /\ d[j] = c[j] /\ SameWord(c[j], e)
        BY <1>2, <1>5, <2>2 DEF SameWord
      <3>2. c[j].text = TornText
        BY <1>4, <3>1
      <3> QED BY <1>2, <2>2, <3>1, <3>2 DEF SameWord
    <2>3. CASE j = k
      <3>1. i \in 1 .. Len(c) /\ i # k /\ d[i] = c[i] /\ SameWord(c[i], e)
        BY <1>2, <1>5, <2>3
      <3>2. c[i].text = TornText
        BY <1>4, <3>1
      <3> QED BY <3>1, <3>2
    <2> QED BY <2>1, <2>2, <2>3
  <1>6. Sound(d)
    BY <1>2, <1>5 DEF Sound, Unique
  <1>7. ASSUME \A j \in 1 .. Len(c) : c[j].stamp <= t
        PROVE  /\ \A j \in 1 .. Len(d) : d[j].stamp <= t
               /\ \E i \in ExactAt(d, w) : Freshest(d, i)
    <2>1. \A j \in 1 .. Len(d) : d[j].stamp <= t
      BY <1>1, <1>2, <1>7
    <2>2. k \in ExactAt(d, w)
      BY <1>1, <1>2 DEF ExactAt
    <2>3. Freshest(d, k)
      BY <1>1, <1>2, <2>1 DEF Freshest
    <2> QED BY <2>1, <2>2, <2>3
  <1> QED BY <1>6, <1>7 DEF d

-----------------------------------------------------------------------------
(* What a serialised cache yields *)

\* The bytes that are lost change the text, the time and the count of an entry.
LEMMA AsReadIs ==
  ASSUME NEW e \in Entry, NEW i \in Nat, NEW b \in Nat
  PROVE  /\ AsRead(e, i, b) \in Entry
         /\ AsRead(e, i, b).text # TornText => SameWord(AsRead(e, i, b), e)
         /\ b >= HeaderSize + EntrySize * (i - 1) + 42 => AsRead(e, i, b) = e
  <1> DEFINE u == b - HeaderSize - EntrySize * (i - 1)
             x == IF u >= 12 + e.bytes THEN e.text ELSE TornText
             y == IF u >= 40 THEN e.stamp ELSE MaxStamp
             z == IF u >= 42 THEN e.uses ELSE MaxUses
  <1>1. e.bytes \in 1 .. 24 /\ e.text \in Texts /\ e.stamp \in Stamps /\ e.uses \in 1 .. MaxUses
    BY DEF Entry
  <1>2. AsRead(e, i, b) = [e EXCEPT !.text = x, !.stamp = y, !.uses = z]
    BY DEF AsRead
  <1>3. u \in Int /\ (b >= HeaderSize + EntrySize * (i - 1) + 42 => u >= 42)
    BY DEF HeaderSize, EntrySize
  <1> HIDE DEF u
  <1>4. x \in Texts /\ y \in Stamps /\ z \in 1 .. MaxUses
    BY <1>1, Constants DEF Texts, Stamps
  <1>5. u >= 42 => x = e.text /\ y = e.stamp /\ z = e.uses
    BY <1>1, <1>3
  <1>6. x = e.text \/ x = TornText
    OBVIOUS
  <1> HIDE DEF x, y, z
  <1>7. [e EXCEPT !.text = x, !.stamp = y, !.uses = z] \in Entry
    BY <1>4 DEF Entry
  <1>8. [e EXCEPT !.text = x, !.stamp = y, !.uses = z].text # TornText
        => SameWord([e EXCEPT !.text = x, !.stamp = y, !.uses = z], e)
    BY <1>6 DEF Entry, SameWord
  <1>9. u >= 42 => [e EXCEPT !.text = x, !.stamp = y, !.uses = z] = e
    BY <1>5 DEF Entry
  <1> QED BY <1>2, <1>3, <1>7, <1>8, <1>9

\* A slot that was programmed in part yields nothing, or all entries with at most the last one
\* damaged; a slot that holds the whole cache yields the cache.
LEMMA ReadBack ==
  ASSUME NEW s, Sound(s), NEW b \in Nat
  PROVE  /\ Sound(Deserialize(s, b))
         /\ \/ Deserialize(s, b) = <<>>
            \/ Len(Deserialize(s, b)) = Len(s) /\ Front(Deserialize(s, b)) = Front(s)
         /\ b >= HeaderSize + EntrySize * Len(s) => Deserialize(s, b) = s
  <1> DEFINE n == Len(s)
             d == [i \in 1 .. n |-> AsRead(s[i], i, b)]
  <1>1. s \in Seq(Entry) /\ n \in Nat /\ n <= Cap /\ \A i \in 1 .. n : s[i] \in Entry
    BY LenProperties, ElementOfSeq DEF Sound
  <1>2. \A i \in 1 .. n :
          /\ d[i] \in Entry
          /\ d[i].text # TornText => SameWord(d[i], s[i])
          /\ b >= HeaderSize + EntrySize * (i - 1) + 42 => d[i] = s[i]
    <2> TAKE i \in 1 .. n
    <2>1. s[i] \in Entry /\ i \in Nat
      BY <1>1
    <2> QED BY <2>1, AsReadIs
  <1>3. d \in Seq(Entry) /\ Len(d) = n
    BY <1>1, <1>2
  <1>4. Deserialize(s, b) = IF b < HeaderSize \/ \E i \in 1 .. n : LengthsLost(i, b)
                            THEN <<>> ELSE d
    BY DEF Deserialize
  <1> HIDE DEF d, n
  <1>5. Unique(d)
    <2> SUFFICES ASSUME NEW i \in 1 .. n, NEW j \in 1 .. n, SameWord(d[i], d[j]),
                        d[i].text # TornText
                 PROVE  i = j
      BY <1>3 DEF Unique
    <2>1. d[j].text # TornText
      BY DEF SameWord
    <2>2. SameWord(d[i], s[i]) /\ SameWord(d[j], s[j])
      BY <1>2, <2>1
    <2>3. SameWord(s[i], s[j]) /\ s[i].text # TornText
      BY <2>2 DEF SameWord
    <2> QED BY <2>3 DEF Sound, Unique, n
  <1>6. Sound(d)
    BY <1>1, <1>3, <1>5 DEF Sound
  <1>7. Sound(<<>>)
    BY Constants DEF Sound, Unique
  <1>8. CASE b < HeaderSize \/ \E i \in 1 .. n : LengthsLost(i, b)
    <2>1. Deserialize(s, b) = <<>>
      BY <1>4, <1>8
    <2>2. ~(b >= HeaderSize + EntrySize * n)
      <3>1. CASE b < HeaderSize
        BY <1>1, <3>1 DEF HeaderSize, EntrySize
      <3>2. ASSUME NEW i \in 1 .. n, LengthsLost(i, b) PROVE ~(b >= HeaderSize + EntrySize * n)
        BY <1>1, <3>2 DEF HeaderSize, EntrySize, LengthsLost
      <3> QED BY <1>8, <3>1, <3>2
    <2> QED BY <1>7, <2>1, <2>2 DEF n
  <1>9. CASE ~(b < HeaderSize \/ \E i \in 1 .. n : LengthsLost(i, b))
    <2>1. Deserialize(s, b) = d
      BY <1>4, <1>9
    <2>2. CASE n = 0
      <3>1. s = <<>> /\ d = <<>>
        BY <1>1, <1>3, <2>2, EmptySeq DEF n
      <3> QED BY <1>7, <2>1, <3>1
    <2>3. CASE n # 0
      <3>1. n \in 1 .. n
        BY <1>1, <2>3
      <3>2. ~LengthsLost(n, b)
        BY <1>9, <3>1
      <3>3. \A i \in 1 .. n - 1 : b >= HeaderSize + EntrySize * (i - 1) + 42
        BY <1>1, <3>2 DEF HeaderSize, EntrySize, LengthsLost
      <3>4. \A i \in 1 .. n - 1 : i \in 1 .. n
        BY <1>1
      <3>5. \A i \in 1 .. n - 1 : d[i] = s[i]
        BY <1>2, <3>3, <3>4
      <3>6. Front(d) = Front(s)
        <4>1. n - 1 \in Nat /\ n - 1 <= n
          BY <1>1, <2>3
        <4> DEFINE m == n - 1
        <4>2. Front(d) = SubSeq(d, 1, m) /\ Front(s) = SubSeq(s, 1, m)
          BY <1>3 DEF Front, n
        <4>3. SubSeq(d, 1, m) = [i \in 1 .. m |-> d[i]] /\ SubSeq(s, 1, m) = [i \in 1 .. m |-> s[i]]
          BY <1>1, <1>3, <4>1 DEF n
        <4> QED BY <3>5, <4>2, <4>3
      <3>7. b >= HeaderSize + EntrySize * n => d = s
        <4> SUFFICES ASSUME b >= HeaderSize + EntrySize * n PROVE d = s
          OBVIOUS
        <4>1. \A i \in 1 .. n : b >= HeaderSize + EntrySize * (i - 1) + 42
          BY <1>1 DEF HeaderSize, EntrySize
        <4>2. \A i \in 1 .. n : d[i] = s[i]
          BY <1>2, <4>1
        <4> QED BY <1>1, <1>3, <4>2, SeqEqual DEF n
      <3> QED BY <1>3, <1>6, <2>1, <3>6, <3>7 DEF n
    <2> QED BY <2>2, <2>3
  <1> QED BY <1>8, <1>9

\* The pages of a save hold the largest cache.
LEMMA PagesSuffice ==
  /\ Pages \in Nat \ {0}
  /\ PageSize * Pages >= BlobMaxBytes
  <1> DEFINE x == BlobMaxBytes
             y == x + PageSize - 1
             q == y \div PageSize
             r == y % PageSize
  <1>1. x \in Nat \ {0}
    BY Constants DEF BlobMaxBytes, HeaderSize, EntrySize
  <1> HIDE DEF x
  <1>2. y \in Nat /\ PageSize \in Nat \ {0}
    BY <1>1, Constants
  <1>3. q \in Int /\ r \in 0 .. PageSize - 1 /\ y = PageSize * q + r
    BY SMTT(30), <1>2
  <1>4. Pages = q
    BY DEF Pages, x
  <1> HIDE DEF q, r
  <1>5. PageSize * q >= x
    BY <1>1, <1>2, <1>3
  <1>6. q > 0
    <2> SUFFICES ASSUME q <= 0 PROVE FALSE
      BY <1>3
    <2>1. PageSize * q <= 0
      BY <1>2, <1>3
    <2> QED BY <1>1, <1>2, <1>3, <1>5, <2>1
  <1> QED BY <1>3, <1>4, <1>5, <1>6 DEF x

-----------------------------------------------------------------------------
(* The order of the suggestions *)

\* The order is a strict and total one, and by time first.
LEMMA AheadIsOrder ==
  ASSUME NEW c \in Seq(Entry)
  PROVE  /\ \A i \in 1 .. Len(c) : ~Ahead(c, i, i)
         /\ \A i, j \in 1 .. Len(c) : i = j \/ Ahead(c, i, j) \/ Ahead(c, j, i)
         /\ \A i, j \in 1 .. Len(c) : Ahead(c, i, j) => c[j].stamp <= c[i].stamp
         /\ \A i, j, k \in 1 .. Len(c) : Ahead(c, i, j) /\ Ahead(c, j, k) => Ahead(c, i, k)
  <1>1. Len(c) \in Nat /\ \A i \in 1 .. Len(c) : c[i].stamp \in Nat /\ c[i].uses \in Nat
    BY LenProperties, ElementOfSeq, EntryNumbers
  <1>2. ASSUME NEW i \in 1 .. Len(c) PROVE ~Ahead(c, i, i)
    BY <1>1 DEF Ahead, Before, MoreRecent
  <1>3. ASSUME NEW i \in 1 .. Len(c), NEW j \in 1 .. Len(c)
        PROVE  /\ i = j \/ Ahead(c, i, j) \/ Ahead(c, j, i)
               /\ Ahead(c, i, j) => c[j].stamp <= c[i].stamp
    BY <1>1 DEF Ahead, Before, MoreRecent
  <1>4. ASSUME NEW i \in 1 .. Len(c), NEW j \in 1 .. Len(c), NEW k \in 1 .. Len(c),
               Ahead(c, i, j), Ahead(c, j, k)
        PROVE  Ahead(c, i, k)
    <2> DEFINE s == c[i].stamp
               t == c[j].stamp
               u == c[k].stamp
               l == c[i].uses
               m == c[j].uses
               n == c[k].uses
    <2>1. s \in Nat /\ t \in Nat /\ u \in Nat /\ l \in Nat /\ m \in Nat /\ n \in Nat
      BY <1>1
    <2>2. (s > t \/ (s = t /\ l > m)) \/ (~(t > s \/ (t = s /\ m > l)) /\ i < j)
      BY <1>4, Zenon DEF Ahead, Before, MoreRecent
    <2>3. (t > u \/ (t = u /\ m > n)) \/ (~(u > t \/ (u = t /\ n > m)) /\ j < k)
      BY <1>4, Zenon DEF Ahead, Before, MoreRecent
    <2>4. SUFFICES (s > u \/ (s = u /\ l > n)) \/ (~(u > s \/ (u = s /\ n > l)) /\ i < k)
      BY Zenon DEF Ahead, Before, MoreRecent
    <2>5. i \in Nat /\ j \in Nat /\ k \in Nat
      BY <1>1
    <2> HIDE DEF s, t, u, l, m, n
    <2>6. s >= t /\ t >= u /\ (s = t => l >= m) /\ (t = u => m >= n)
      BY <2>1, <2>2, <2>3
    <2>7. CASE s = u
      <3>1. s = t /\ t = u /\ l >= n
        BY <2>1, <2>6, <2>7
      <3> QED BY <2>1, <2>2, <2>3, <2>5, <3>1
    <2>8. CASE s # u
      BY <2>1, <2>6, <2>8
    <2> QED BY <2>7, <2>8
  <1> QED BY <1>2, <1>3, <1>4

\* Of some entries one is ahead of all others.
LEMMA OneIsAhead ==
  ASSUME NEW c \in Seq(Entry), NEW S \in SUBSET (1 .. Len(c)), S # {}
  PROVE  \E m \in S : \A j \in S : j = m \/ Ahead(c, m, j)
  <1> DEFINE A(i) == {j \in S : Ahead(c, j, i)}
             T == {Cardinality(A(i)) : i \in S}
  <1>1. Len(c) \in Nat
    BY LenProperties
  <1>2. IsFiniteSet(1 .. Len(c))
    BY <1>1, FS_Interval
  <1>3. \A U \in SUBSET (1 .. Len(c)) : IsFiniteSet(U)
    BY <1>2, FS_Subset
  <1>4. \A i \in S : IsFiniteSet(A(i)) /\ Cardinality(A(i)) \in Nat
    <2> TAKE i \in S
    <2>1. IsFiniteSet(A(i))
      BY <1>3
    <2> HIDE DEF A
    <2> QED BY <2>1, FS_CardinalityType
  <1> HIDE DEF A
  <1>5. PICK n \in T : \A m \in T : n <= m
    <2>1. T \in SUBSET Nat /\ T # {}
      BY <1>4
    <2> QED BY <2>1, LeastNatural
  <1>6. PICK m \in S : \A i \in S : Cardinality(A(m)) <= Cardinality(A(i))
    BY <1>5
  <1>7. ASSUME NEW j \in S, Ahead(c, j, m) PROVE FALSE
    <2>1. A(j) \subseteq A(m) /\ j \in A(m) /\ j \notin A(j)
      BY <1>7, AheadIsOrder DEF A
    <2>2. A(j) \in SUBSET A(m) /\ A(j) # A(m)
      BY <2>1
    <2> DEFINE a == A(j)
               b == A(m)
    <2>3. IsFiniteSet(b) /\ a \in SUBSET b /\ a # b
      BY <1>4, <2>2
    <2> HIDE DEF a, b
    <2>4. Cardinality(a) <= Cardinality(b) /\ Cardinality(a) # Cardinality(b)
      BY <2>3, FS_Subset
    <2>5. Cardinality(a) \in Nat /\ Cardinality(b) \in Nat /\ Cardinality(b) <= Cardinality(a)
      BY <1>4, <1>6 DEF a, b
    <2> QED BY <2>4, <2>5
  <1>8. \A j \in S : j = m \/ Ahead(c, m, j)
    BY <1>7, AheadIsOrder
  <1> QED BY <1>8

\* A word suits its own keys and hints, though the hints after the packed ones are lost.
LEMMA SuitsItself ==
  ASSUME NEW c, NEW w \in Words, NEW i \in ExactAt(c, w)
  PROVE  Suits(c[i], w.keys, w.hints)
  <1>1. c[i].keys = w.keys /\ c[i].pos = PosPacked(w.hints)
    BY DEF ExactAt
  <1>2. w.keys \in Seq(Nat) /\ Len(w.keys) \in Nat
    BY LruStoreAssumption, LenProperties
  <1>3. IsPrefix(w.keys, w.keys)
    BY <1>2 DEF IsPrefix
  <1>4. ASSUME NEW k \in 1 .. Len(w.keys)
        PROVE  HintMatches(HintAt(PosPacked(w.hints), k), w.hints[k])
    <2>1. CASE k <= Packed
      <3>1. k \in 1 .. Packed
        BY <1>2, <2>1, Constants
      <3>2. PosPacked(w.hints)[k] = IF k <= Len(w.hints) THEN w.hints[k] ELSE AnyHint
        BY <3>1 DEF PosPacked
      <3> QED BY <2>1, <3>2 DEF HintMatches, HintAt
    <2>2. CASE ~(k <= Packed)
      BY <2>2 DEF HintMatches, HintAt
    <2> QED BY <2>1, <2>2
  <1> DEFINE p == PosPacked(w.hints)
  <1> HIDE DEF p
  <1>5. c[i].pos = p /\ \A k \in 1 .. Len(w.keys) : HintMatches(HintAt(p, k), w.hints[k])
    BY <1>1, <1>4 DEF p
  <1> QED BY <1>1, <1>3, <1>5 DEF Suits

\* The first suggestion for the keys of the freshest entry is as fresh as that one.
LEMMA FirstSuggestion ==
  ASSUME NEW c, Sound(c), NEW w \in Words, NEW i \in ExactAt(c, w), Freshest(c, i)
  PROVE  /\ Lookup(c, w.keys, w.hints) # <<>>
         /\ Lookup(c, w.keys, w.hints)[1].stamp = c[i].stamp
  <1> DEFINE S == {j \in 1 .. Len(c) : Suits(c[j], w.keys, w.hints)}
             T == {j \in S : \A k \in S : c[k].text = c[j].text => k = j \/ Ahead(c, j, k)}
             A(j) == {k \in T : Ahead(c, k, j)}
             first == CHOOSE j \in T : Cardinality(A(j)) = 0
             r == Lookup(c, w.keys, w.hints)
  <1>1. c \in Seq(Entry) /\ Len(c) \in Nat /\ i \in 1 .. Len(c)
    BY LenProperties DEF Sound, ExactAt
  <1>2. i \in S
    BY <1>1, SuitsItself
  <1>3. r = [n \in 1 .. Cardinality(T) |-> c[CHOOSE j \in T : Cardinality(A(j)) = n - 1]]
    BY DEF Lookup
  <1>4. S \in SUBSET (1 .. Len(c)) /\ S # {}
    BY <1>2
  <1> HIDE DEF S
  <1>5. PICK m \in S : \A j \in S : j = m \/ Ahead(c, m, j)
    BY <1>1, <1>4, OneIsAhead
  <1>6. m \in T /\ T \subseteq S
    BY <1>5
  <1> HIDE DEF T
  <1>7. IsFiniteSet(T) /\ \A j \in T : IsFiniteSet(A(j))
    <2>1. IsFiniteSet(1 .. Len(c))
      BY <1>1, FS_Interval
    <2>2. \A U \in SUBSET (1 .. Len(c)) : IsFiniteSet(U)
      BY <2>1, FS_Subset
    <2> QED BY <1>4, <1>6, <2>2
  <1>8. A(m) = {}
    <2> SUFFICES ASSUME NEW k \in T, Ahead(c, k, m) PROVE FALSE
      OBVIOUS
    <2>1. k \in 1 .. Len(c) /\ m \in 1 .. Len(c) /\ (k = m \/ Ahead(c, m, k))
      BY <1>4, <1>5, <1>6
    <2> QED BY <1>1, <2>1, AheadIsOrder
  <1>9. \A j \in T : Cardinality(A(j)) = 0 => j = m
    <2> SUFFICES ASSUME NEW j \in T, Cardinality(A(j)) = 0, j # m PROVE FALSE
      OBVIOUS
    <2>1. m \in A(j)
      BY <1>5, <1>6
    <2>2. IsFiniteSet(A(j))
      BY <1>7
    <2> HIDE DEF A
    <2> QED BY <2>1, <2>2, FS_EmptySet
  <1>10. Cardinality(A(m)) = 0
    BY <1>8, FS_EmptySet
  <1> HIDE DEF A
  <1>11. first = m
    BY <1>6, <1>9, <1>10
  <1> HIDE DEF first
  <1>12. Cardinality(T) \in Nat \ {0}
    <2>1. T # {}
      BY <1>6
    <2> QED BY <1>7, <2>1, FS_EmptySet, FS_CardinalityType
  <1>13. 1 \in 1 .. Cardinality(T) /\ 1 - 1 = 0
    BY <1>12
  <1>14. r[1] = c[m]
    BY SMTT(30), <1>3, <1>11, <1>13 DEF first
  <1>15. r # <<>>
    <2>1. DOMAIN r = 1 .. Cardinality(T)
      BY <1>3
    <2> HIDE DEF r
    <2>2. DOMAIN <<>> = {}
      OBVIOUS
    <2> QED BY <1>13, <2>1, <2>2
  <1>16. c[m].stamp = c[i].stamp
    <2>1. m \in 1 .. Len(c) /\ (i = m \/ Ahead(c, m, i))
      BY <1>2, <1>4, <1>5
    <2>2. c[i].stamp <= c[m].stamp
      BY <1>1, <2>1, AheadIsOrder, ElementOfSeq, EntryNumbers
    <2>3. c[m].stamp <= c[i].stamp
      BY <2>1 DEF Freshest
    <2>4. c[m].stamp \in Nat /\ c[i].stamp \in Nat
      BY <1>1, <2>1, ElementOfSeq, EntryNumbers
    <2> QED BY <2>2, <2>3, <2>4
  <1> QED BY <1>14, <1>15, <1>16

-----------------------------------------------------------------------------
(* The inductive invariant *)

\* The device leaves the factory with empty hands.
LEMMA LruIInvInit == Init => LruIInv
  <1> SUFFICES ASSUME Init PROVE LruIInv
    OBVIOUS
  <1> USE Constants
  <1>1. Throttled
    BY DEF Init, Throttled
  <1>2. Clocks
    <2>1. dirty \in BOOLEAN
      BY Zenon DEF Init
    <2>2. now \in 0 .. MaxNow /\ idle \in 0 .. IdleTime /\ mode \in 0 .. 2 /\ lastMode \in 0 .. 2
      BY DEF Init
    <2> QED BY <2>1, <2>2 DEF Clocks
  <1>3. Slot
    BY PagesSuffice DEF Init, Slot
  <1>4. Sound(cache) /\ Sound(image)
    BY DEF Init, Sound, Unique
  <1>5. FirstBoot
    BY DEF Init, FirstBoot
  <1> QED BY <1>1, <1>2, <1>3, <1>4, <1>5 DEF LruIInv

\* A turn of the loop with n commits: the tripwire leaves fewer than N of them pending.
LEMMA ThrottleStep ==
  ASSUME LruIInv, pc = "loop", NEW n \in 0 .. 2, NEW t \in 0 .. 1, NEW x \in BOOLEAN,
         Throttle(n, t), CycleMode(x) \/ mode' = mode
  PROVE  Throttled' /\ Clocks' /\ Slot' /\ now <= now'
  <1> USE Constants
  <1>1. Throttled'
    <2> DEFINE f == fails * (N + 1)
    <2>1. f \in Nat
      BY DEF LruIInv, Throttled
    <2>2. fails' * (N + 1) = f /\ fails' = fails /\ boots' = boots
      BY DEF Throttle
    <2> HIDE DEF f
    <2>3. /\ pending \in 0 .. N - 1 /\ unsaved \in Nat /\ unsaved <= f + pending
          /\ pending' = pending + n /\ unsaved' = unsaved + n
      BY DEF LruIInv, Throttled, Throttle, f
    <2>4. pc' = "loop" => pending + n < N
      BY <2>3 DEF Throttle, CommitTripwire
    <2>5. pending' \in 0 .. N + 1 /\ (pc' = "loop" => pending' <= N - 1)
      BY <2>3, <2>4
    <2>6. unsaved' \in Nat /\ unsaved' <= f + pending'
      BY <2>1, <2>3
    <2>7. fails' \in Nat /\ boots' \in Nat /\ boots' + fails' <= MaxMishaps
      BY <2>2 DEF LruIInv, Throttled
    <2> QED BY <2>2, <2>5, <2>6, <2>7 DEF Throttled
  <1>2. now' \in 0 .. MaxNow /\ now <= now'
    <2>1. now \in 0 .. MaxNow /\ now + t \in Int
      BY DEF LruIInv, Clocks
    <2>2. now' = IF now + t <= MaxNow THEN now + t ELSE MaxNow
      BY <2>1, MinOfTwo DEF Throttle
    <2> QED BY <2>1, <2>2
  <1>3. idle' \in 0 .. IdleTime
    <2>1. idle \in 0 .. IdleTime /\ idle + t \in Int
      BY DEF LruIInv, Clocks
    <2>2. Min({idle + t, IdleTime}) \in 0 .. IdleTime
      BY <2>1, MinOfTwo
    <2> QED BY <2>2 DEF Throttle, IdleAfter
  <1>4. Clocks'
    <2>1. mode' \in 0 .. 2
      BY DEF LruIInv, Clocks, CycleMode
    <2>2. dirty' \in BOOLEAN /\ lastMode' \in 0 .. 2
      BY DEF Throttle, LruIInv, Clocks
    <2> QED BY <1>2, <1>3, <2>1, <2>2 DEF Clocks
  <1>5. Slot'
    BY DEF Throttle, LruIInv, Slot, flashVars
  <1> QED BY <1>1, <1>2, <1>4, <1>5

\* A turn of the loop in which nothing is learnt.
LEMMA QuietStep ==
  ASSUME LruIInv, pc = "loop", NEW n \in 0 .. 2, NEW t \in 0 .. 1, NEW x \in BOOLEAN,
         Throttle(n, t), CycleMode(x) \/ mode' = mode, UNCHANGED <<cache, latest>>
  PROVE  LruIInv'
  <1>1. Throttled' /\ Clocks' /\ Slot' /\ now <= now'
    BY ThrottleStep
  <1>2. Sound(cache)' /\ Sound(image)'
    BY DEF LruIInv, Throttle, flashVars, Sound, Unique, SameWord
  <1>3. \A j \in 1 .. Len(cache) : cache[j].stamp \in Nat
    BY ElementOfSeq, EntryNumbers DEF LruIInv, Sound
  <1>4. now \in Nat /\ now' \in Nat
    BY <1>1, Constants DEF LruIInv, Clocks
  <1>5. FirstBoot'
    <2>1. latest' \in Words \cup {NoWord}
      BY DEF LruIInv, FirstBoot
    <2>2. ASSUME boots' = 0
          PROVE  /\ \A j \in 1 .. Len(cache') : cache'[j].stamp <= now'
                 /\ latest' # NoWord => \E i \in ExactAt(cache', latest') : Freshest(cache', i)
      <3>1. boots = 0 /\ cache' = cache /\ latest' = latest
        BY <2>2 DEF Throttle
      <3>2. \A j \in 1 .. Len(cache) : cache[j].stamp <= now
        BY <3>1 DEF LruIInv, FirstBoot
      <3>3. \A j \in 1 .. Len(cache) : cache[j].stamp <= now'
        BY <1>1, <1>3, <1>4, <3>2
      <3> QED BY <3>1, <3>3 DEF LruIInv, FirstBoot
    <2> QED BY <2>1, <2>2 DEF FirstBoot
  <1> QED BY <1>1, <1>2, <1>5 DEF LruIInv

\* A word is learnt: in the first boot it is the freshest one then.
LEMMA LearnStep ==
  ASSUME LruIInv, NEW w \in Words, NEW x \in BOOLEAN, NEW t \in 0 .. 1, LearnWord(w, x, t)
  PROVE  LruIInv'
  <1>0. /\ pc = "loop" /\ CycleMode(x) /\ Throttle(1, t) /\ 1 \in 0 .. 2
        /\ cache' = Upsert(cache, w, now') /\ latest' = w /\ Sound(cache)
    BY DEF LearnWord, LruIInv
  <1>1. Throttled' /\ Clocks' /\ Slot' /\ now <= now'
    BY <1>0, ThrottleStep
  <1>2. now \in Nat /\ now' \in 0 .. MaxNow
    BY <1>1, Constants DEF LruIInv, Clocks
  <1> DEFINE d == Upsert(cache, w, now')
             m == now'
  <1>3. /\ Sound(d)
        /\ (\A j \in 1 .. Len(cache) : cache[j].stamp <= m) =>
             /\ \A j \in 1 .. Len(d) : d[j].stamp <= m
             /\ \E i \in ExactAt(d, w) : Freshest(d, i)
    <2> HIDE DEF m
    <2>1. m \in 0 .. MaxNow
      BY <1>2 DEF m
    <2>2. d = Upsert(cache, w, m)
      BY DEF m
    <2> HIDE DEF d
    <2> QED BY <1>0, <2>1, <2>2, UpsertSound
  <1>4. cache' = d
    BY <1>0
  <1> HIDE DEF d
  <1>5. Sound(cache')
    BY <1>3, <1>4
  <1>6. Sound(image')
    BY <1>0 DEF LruIInv, Throttle, flashVars
  <1>7. \A j \in 1 .. Len(cache) : cache[j].stamp \in Nat
    BY <1>0, ElementOfSeq, EntryNumbers DEF Sound
  <1>8. FirstBoot'
    <2>1. latest' \in Words \cup {NoWord}
      BY <1>0
    <2>2. ASSUME boots' = 0
          PROVE  /\ \A j \in 1 .. Len(cache') : cache'[j].stamp <= now'
                 /\ \E i \in ExactAt(cache', latest') : Freshest(cache', i)
      <3>1. boots = 0
        BY <1>0, <2>2 DEF Throttle
      <3>2. \A j \in 1 .. Len(cache) : cache[j].stamp <= now
        BY <3>1 DEF LruIInv, FirstBoot
      <3>3. \A j \in 1 .. Len(cache) : cache[j].stamp <= m
        BY <1>1, <1>2, <1>7, <3>2
      <3> QED BY <1>0, <1>3, <1>4, <3>3
    <2> QED BY <2>1, <2>2 DEF FirstBoot
  <1> QED BY <1>1, <1>5, <1>6, <1>8 DEF LruIInv

\* What lru_persist_save sets when it returns.
LEMMA ReturnStep ==
  ASSUME LruIInv, SaveReturns, UNCHANGED <<now, mode, idle>>
  PROVE  Clocks' /\ pending' = 0 /\ pc' = "loop"
  <1>1. dirty' \in BOOLEAN
    BY Zenon DEF SaveReturns
  <1>2. pending' = 0 /\ pc' = "loop" /\ lastMode' = mode
    BY DEF SaveReturns
  <1> QED BY <1>1, <1>2 DEF LruIInv, Clocks

\* The cache, the clock and the boots stay what they were.
LEMMA SameBoot ==
  ASSUME LruIInv, UNCHANGED <<cache, now, boots, latest>>
  PROVE  Sound(cache') /\ FirstBoot'
  BY DEF LruIInv, FirstBoot

\* A save that gets no buffer gives up, and the throttle starts again.
LEMMA NoBufferStep ==
  ASSUME LruIInv, NoBuffer
  PROVE  LruIInv'
  <1> USE Constants
  <1>1. /\ pc = "save" /\ boots + fails < MaxMishaps /\ fails' = fails + 1 /\ SaveReturns
        /\ UNCHANGED <<cache, now, mode, idle, image, programmed, boots, unsaved, latest>>
    BY DEF NoBuffer, flashVars
  <1>2. Clocks' /\ pending' = 0 /\ pc' = "loop"
    BY <1>1, ReturnStep
  <1>3. Throttled'
    <2> DEFINE f == fails * (N + 1)
    <2>1. fails \in Nat /\ boots \in Nat /\ unsaved \in Nat /\ pending \in 0 .. N + 1
          /\ unsaved <= f + pending
      BY DEF LruIInv, Throttled
    <2>2. f \in Nat /\ fails' * (N + 1) = f + (N + 1)
      BY <1>1, <2>1
    <2> HIDE DEF f
    <2>3. unsaved' <= fails' * (N + 1) + pending'
      BY <1>1, <1>2, <2>1, <2>2
    <2> QED BY <1>1, <1>2, <2>1, <2>3 DEF Throttled
  <1>4. Slot'
    BY <1>1, <1>2 DEF LruIInv, Slot
  <1>5. Sound(cache') /\ FirstBoot'
    BY <1>1, SameBoot
  <1>6. Sound(image')
    BY <1>1 DEF LruIInv
  <1> QED BY <1>2, <1>3, <1>4, <1>5, <1>6 DEF LruIInv

\* The slot is erased, and the image is that of the cache.
LEMMA EraseStep ==
  ASSUME LruIInv, Erase
  PROVE  LruIInv'
  <1>1. /\ pc' = "program" /\ image' = cache /\ programmed' = 0
        /\ UNCHANGED <<cache, now, mode, pending, dirty, idle, lastMode, boots,
                       unsaved, fails, latest>>
    BY DEF Erase, loopVars, ghostVars
  <1>2. Throttled' /\ Clocks'
    BY <1>1 DEF LruIInv, Throttled, Clocks
  <1>3. Slot'
    BY <1>1, PagesSuffice DEF Slot
  <1>4. Sound(cache') /\ FirstBoot'
    BY <1>1, SameBoot
  <1>5. Sound(image')
    BY <1>1 DEF LruIInv
  <1> QED BY <1>2, <1>3, <1>4, <1>5 DEF LruIInv

\* A page is programmed.
LEMMA ProgramStep ==
  ASSUME LruIInv, ProgramPage
  PROVE  LruIInv'
  <1> USE Constants
  <1>1. pc = "program" /\ programmed' = programmed + 1 /\ UNCHANGED <<cache, now, image, boots, latest>>
    BY DEF ProgramPage
  <1>2. programmed' \in 0 .. Pages
    BY <1>1, PagesSuffice DEF LruIInv, Slot
  <1>3. Sound(cache') /\ FirstBoot' /\ Sound(image')
    BY <1>1, SameBoot DEF LruIInv
  <1>4. CASE programmed' < Pages
    <2>1. UNCHANGED <<pc, mode, pending, dirty, idle, lastMode, unsaved, fails>>
      BY <1>4 DEF ProgramPage, loopVars
    <2>2. Throttled' /\ Clocks'
      BY <1>1, <2>1 DEF LruIInv, Throttled, Clocks
    <2>3. Slot'
      BY <1>1, <1>2, <1>4, <2>1 DEF Slot
    <2> QED BY <1>3, <2>2, <2>3 DEF LruIInv
  <1>5. CASE ~(programmed' < Pages)
    <2>1. SaveReturns /\ unsaved' = 0 /\ fails' = 0 /\ UNCHANGED <<mode, idle>>
      BY <1>5 DEF ProgramPage
    <2>2. Clocks' /\ pending' = 0 /\ pc' = "loop"
      BY <1>1, <2>1, ReturnStep
    <2>3. Throttled'
      BY <1>1, <2>1, <2>2 DEF LruIInv, Throttled
    <2>4. Slot'
      BY <1>2, <2>2 DEF Slot
    <2> QED BY <1>3, <2>2, <2>3, <2>4 DEF LruIInv
  <1> QED BY <1>4, <1>5

\* A reboot reads the pages that have been programmed.
LEMMA RebootStep ==
  ASSUME LruIInv, Reboot
  PROVE  LruIInv'
  <1> USE Constants
  <1>1. /\ boots + fails < MaxMishaps /\ boots' = boots + 1
        /\ cache' = Deserialize(image, PageSize * programmed)
        /\ pc' = "loop" /\ now' = 0 /\ mode' = 0 /\ pending' = 0 /\ idle' = 0 /\ lastMode' = 0
        /\ unsaved' = 0 /\ fails' = 0 /\ latest' = NoWord
        /\ image' = image /\ programmed' = programmed
    BY DEF Reboot, flashVars
  <1>2. dirty' \in BOOLEAN
    BY Zenon DEF Reboot
  <1>3. boots \in Nat /\ fails \in Nat
    BY DEF LruIInv, Throttled
  <1>4. Throttled'
    BY <1>1, <1>3 DEF Throttled
  <1>5. Clocks'
    BY <1>1, <1>2 DEF Clocks
  <1>6. Slot'
    BY <1>1 DEF LruIInv, Slot
  <1>7. Sound(image') /\ Sound(image)
    BY <1>1 DEF LruIInv
  <1>8. Sound(cache')
    <2>1. PageSize * programmed \in Nat
      BY PagesSuffice DEF LruIInv, Slot
    <2> QED BY <1>1, <1>7, <2>1, ReadBack
  <1>9. FirstBoot'
    BY <1>1, <1>3 DEF FirstBoot
  <1> QED BY <1>4, <1>5, <1>6, <1>7, <1>8, <1>9 DEF LruIInv

\* Every step keeps the invariant.
LEMMA LruIInvStep == LruIInv /\ [Next]_vars => LruIInv'
  <1> SUFFICES ASSUME LruIInv, [Next]_vars PROVE LruIInv'
    OBVIOUS
  <1>1. CASE TimeOut
    <2>1. pc = "loop" /\ Throttle(0, 1) /\ mode' = mode /\ UNCHANGED <<cache, latest>>
      BY <1>1 DEF TimeOut
    <2>2. 0 \in 0 .. 2 /\ 1 \in 0 .. 1 /\ TRUE \in BOOLEAN
      OBVIOUS
    <2> QED BY <2>1, <2>2, QuietStep
  <1>2. ASSUME NEW x \in BOOLEAN, NEW t \in 0 .. 1, NEW w \in Words, LearnWord(w, x, t)
        PROVE  LruIInv'
    BY <1>2, LearnStep
  <1>3. ASSUME NEW x \in BOOLEAN, NEW t \in 0 .. 1, NEW n \in 0 .. 2, OtherKey(n, x, t)
        PROVE  LruIInv'
    <2>1. pc = "loop" /\ Throttle(n, t) /\ CycleMode(x) /\ UNCHANGED <<cache, latest>>
      BY <1>3 DEF OtherKey
    <2> QED BY <2>1, QuietStep
  <1>4. CASE NoBuffer
    BY <1>4, NoBufferStep
  <1>5. CASE Erase
    BY <1>5, EraseStep
  <1>6. CASE ProgramPage
    BY <1>6, ProgramStep
  <1>7. CASE Reboot
    BY <1>7, RebootStep
  <1>8. CASE UNCHANGED vars
    BY <1>8 DEF vars, loopVars, flashVars, ghostVars, LruIInv, Throttled, Clocks, Slot, FirstBoot
  <1> QED BY <1>1, <1>2, <1>3, <1>4, <1>5, <1>6, <1>7, <1>8 DEF Next, ImeTask, KeyEvent

\* The invariant says what the store promises.
LEMMA StoreInvFollows == LruIInv => StoreInv
  <1> SUFFICES ASSUME LruIInv PROVE StoreInv
    BY SMTT(30)
  <1> USE Constants
  <1>1. ASSUME NEW s, Sound(s)
        PROVE  /\ Len(s) <= Cap
               /\ \A i \in 1 .. Len(s) : /\ s[i].text \in {w.text : w \in Words} \cup {TornText}
                                         /\ s[i].stamp \in 0 .. MaxNow \cup {MaxStamp}
                                         /\ s[i].uses \in 1 .. MaxUses
               /\ \A i, j \in 1 .. Len(s) :
                    [s[i] EXCEPT !.stamp = 0, !.uses = 0] = [s[j] EXCEPT !.stamp = 0, !.uses = 0]
                    => i = j \/ s[i].text = TornText
    <2>1. Len(s) <= Cap /\ \A i \in 1 .. Len(s) : s[i] \in Entry
      BY <1>1, ElementOfSeq DEF Sound
    <2>2. \A e \in Entry : e.text \in Texts /\ e.stamp \in Stamps /\ e.uses \in 1 .. MaxUses
      BY DEF Entry
    <2>3. \A e, f \in Entry :
            [e EXCEPT !.stamp = 0, !.uses = 0] = [f EXCEPT !.stamp = 0, !.uses = 0]
            => SameWord(e, f)
      <3> TAKE e, f \in Entry
      <3> DEFINE a == [e EXCEPT !.stamp = 0, !.uses = 0]
                 b == [f EXCEPT !.stamp = 0, !.uses = 0]
      <3>1. a.keys = e.keys /\ a.pos = e.pos /\ a.text = e.text /\ a.bytes = e.bytes
        BY DEF Entry
      <3>2. b.keys = f.keys /\ b.pos = f.pos /\ b.text = f.text /\ b.bytes = f.bytes
        BY DEF Entry
      <3> HIDE DEF a, b
      <3>3. a = b => SameWord(e, f)
        BY <3>1, <3>2 DEF SameWord
      <3> QED BY <3>3 DEF a, b
    <2>4. \A i, j \in 1 .. Len(s) : SameWord(s[i], s[j]) => i = j \/ s[i].text = TornText
      BY <1>1 DEF Sound, Unique
    <2>5. ASSUME NEW i \in 1 .. Len(s), NEW j \in 1 .. Len(s),
                 [s[i] EXCEPT !.stamp = 0, !.uses = 0] = [s[j] EXCEPT !.stamp = 0, !.uses = 0]
          PROVE  i = j \/ s[i].text = TornText
      <3>1. s[i] \in Entry /\ s[j] \in Entry
        BY <2>1
      <3>2. SameWord(s[i], s[j])
        BY SMTT(30), <2>3, <2>5, <3>1
      <3> QED BY <2>4, <3>2
    <2>6. ASSUME NEW i \in 1 .. Len(s)
          PROVE  s[i].text \in Texts /\ s[i].stamp \in Stamps /\ s[i].uses \in 1 .. MaxUses
      BY <2>1, <2>2
    <2> QED BY <2>1, <2>5, <2>6 DEF Texts, Stamps
  <1>2. TypeOK
    <2>1. Sound(cache) /\ Sound(image)
      BY DEF LruIInv
    <2>2. boots \in 0 .. MaxMishaps /\ fails \in 0 .. MaxMishaps
      BY DEF LruIInv, Throttled
    <2>3. /\ unsaved \in Nat /\ pending \in 0 .. N + 1 /\ now \in 0 .. MaxNow /\ idle \in 0 .. IdleTime
          /\ {mode, lastMode} \subseteq 0 .. 2 /\ dirty \in BOOLEAN
          /\ pc \in {"loop", "save", "program"} /\ programmed \in 0 .. Pages
          /\ latest \in Words \cup {NoWord}
      BY DEF LruIInv, Throttled, Clocks, Slot, FirstBoot
    <2> QED BY <1>1, <2>1, <2>2, <2>3 DEF TypeOK
  <1>3. SavesKeepUp
    <2> SUFFICES ASSUME pc = "loop" PROVE unsaved <= fails * (N + 1) + N - 1
      BY DEF SavesKeepUp
    <2> DEFINE f == fails * (N + 1)
    <2>1. /\ fails \in Nat /\ unsaved \in Nat /\ pending \in 0 .. N + 1
          /\ pending <= N - 1 /\ unsaved <= f + pending
      BY DEF LruIInv, Throttled
    <2>2. f \in Nat
      BY <2>1
    <2> HIDE DEF f
    <2>3. unsaved <= f + N - 1
      BY <2>1, <2>2
    <2> QED BY <2>3 DEF f
  <1>4. LatestIsFirst
    <2> SUFFICES ASSUME boots = 0, latest # NoWord
                 PROVE  \E i \in ExactAt(cache, latest) :
                          /\ Lookup(cache, latest.keys, latest.hints) # <<>>
                          /\ Lookup(cache, latest.keys, latest.hints)[1].stamp = cache[i].stamp
      BY DEF LatestIsFirst
    <2>1. latest \in Words /\ Sound(cache)
      BY DEF LruIInv, FirstBoot
    <2>2. PICK i \in ExactAt(cache, latest) : Freshest(cache, i)
      BY DEF LruIInv, FirstBoot
    <2> QED BY <2>1, <2>2, FirstSuggestion
  <1> QED BY <1>2, <1>3, <1>4 DEF StoreInv

\* The store is sound, its saves keep up with the commits, and in the first boot the word that
\* was learnt last comes first (lru_cache.cpp, ime_task_fn:255-282).
THEOREM StoreIsSound == Spec => []StoreInv
  <1>1. Init => LruIInv
    BY LruIInvInit
  <1>2. LruIInv /\ [Next]_vars => LruIInv'
    BY LruIInvStep
  <1>3. LruIInv => StoreInv
    BY StoreInvFollows
  <1> QED BY <1>1, <1>2, <1>3, PTL DEF Spec

\* After a power failure, at any page of a save, the cache comes back empty or with at most its
\* last word damaged, and whole after a completed save (deserialize:224-249).
THEOREM PowerFailureCostsOneWord == Spec => RestoresAllButLast
  <1>1. ASSUME LruIInv, [Next]_vars, boots' # boots
        PROVE  /\ cache' = <<>> \/ (Len(cache') = Len(image) /\ Front(cache') = Front(image))
               /\ programmed = Pages => cache' = image
    <2>1. Reboot
      BY <1>1 DEF Next, ImeTask, TimeOut, KeyEvent, LearnWord, OtherKey, Throttle, NoBuffer,
                  Erase, ProgramPage, vars
    <2> DEFINE b == PageSize * programmed
    <2>2. cache' = Deserialize(image, b)
      BY <2>1 DEF Reboot
    <2>3. b \in Nat
      BY <1>1, PagesSuffice, Constants DEF LruIInv, Slot
    <2>4. programmed = Pages => b >= HeaderSize + EntrySize * Len(image)
      <3> SUFFICES ASSUME programmed = Pages PROVE b >= HeaderSize + EntrySize * Len(image)
        OBVIOUS
      <3>1. Len(image) \in Nat /\ Len(image) <= Cap
        BY <1>1, LenProperties DEF LruIInv, Sound
      <3>2. b >= BlobMaxBytes
        BY PagesSuffice
      <3> HIDE DEF b
      <3> QED BY <2>3, <3>1, <3>2, Constants DEF BlobMaxBytes, HeaderSize, EntrySize
    <2> HIDE DEF b
    <2>5. Sound(image)
      BY <1>1 DEF LruIInv
    <2> QED BY <2>2, <2>3, <2>4, <2>5, ReadBack
  <1>2. LruIInv /\ [Next]_vars =>
          [boots' # boots =>
             /\ cache' = <<>> \/ (Len(cache') = Len(image) /\ Front(cache') = Front(image))
             /\ programmed = Pages => cache' = image]_vars
    BY <1>1
  <1>3. Init => LruIInv
    BY LruIInvInit
  <1>4. LruIInv /\ [Next]_vars => LruIInv'
    BY LruIInvStep
  <1> QED BY <1>2, <1>3, <1>4, PTL DEF Spec, RestoresAllButLast

\* When the cache is full, no word goes while another one stays that was used both less
\* recently and less often (find_evict_victim:70-101, upsert:105-135).
THEOREM WeakestWordGoes == Spec => ForgetsTheWeakest
  <1>1. ASSUME LruIInv, [Next]_vars, boots' = 0, cache # cache',
               NEW i \in 1 .. Len(cache), NEW j \in 1 .. Len(cache),
               cache'[i].text # cache[i].text
        PROVE  ~(cache[j].stamp < cache[i].stamp /\ cache[j].uses < cache[i].uses)
    <2>1. boots \in Nat /\ Sound(cache)
      BY <1>1 DEF LruIInv, Throttled
    <2>2. ~Reboot
      BY <1>1, <2>1 DEF Reboot
    <2>3. PICK x \in BOOLEAN, t \in 0 .. 1, w \in Words : LearnWord(w, x, t)
      BY <1>1, <2>2 DEF Next, ImeTask, TimeOut, KeyEvent, OtherKey, NoBuffer, Erase,
                        ProgramPage, vars
    <2>4. LruIInv'
      BY <1>1, LruIInvStep
    <2> DEFINE m == now'
               d == cache'
    <2>5. m \in 0 .. MaxNow /\ d = Upsert(cache, w, m)
      BY <2>3, <2>4 DEF LruIInv, Clocks, LearnWord
    <2> HIDE DEF m, d
    <2>6. PICK k \in Nat \ {0}, e \in Entry :
             /\ Stored(cache, d, k, e)
             /\ \/ k \in 1 .. Len(cache) /\ SameWord(e, cache[k])
                \/ ExactAt(cache, w) = {} /\ k \notin 1 .. Len(cache)
                \/ /\ ExactAt(cache, w) = {} /\ k \in 1 .. Len(cache)
                   /\ \A h \in 1 .. Len(cache) : Score(cache[k]) <= Score(cache[h])
      BY <2>1, <2>5, UpsertStores
    <2>7. Len(cache) \in Nat /\ i \in 1 .. Len(d)
      BY <2>1, <2>6, LenProperties DEF Sound, Stored
    <2>8. i = k /\ d[k] = e
      BY <1>1, <2>6, <2>7 DEF Stored, d
    <2>9. ~SameWord(e, cache[k])
      BY <1>1, <2>8 DEF SameWord, d
    <2>10. Score(cache[i]) <= Score(cache[j])
      BY <1>1, <2>6, <2>8, <2>9
    <2>11. cache[i] \in Entry /\ cache[j] \in Entry
      BY <2>1, ElementOfSeq DEF Sound
    <2> QED BY <2>10, <2>11, LowerScore
  <1>2. LruIInv /\ [Next]_vars =>
          [(boots' = 0 /\ cache # cache') =>
             \A i \in 1 .. Len(cache), j \in 1 .. Len(cache) :
               (cache'[i].text # cache[i].text /\ j # i) =>
                 ~(cache[j].stamp < cache[i].stamp /\ cache[j].uses < cache[i].uses)]_vars
    BY <1>1
  <1>3. Init => LruIInv
    BY LruIInvInit
  <1>4. LruIInv /\ [Next]_vars => LruIInv'
    BY LruIInvStep
  <1> QED BY <1>2, <1>3, <1>4, PTL DEF Spec, ForgetsTheWeakest
==============================================================================
