------------------------------- MODULE LruCache -------------------------------
(***************************************************************************)
(* The personal cache of the input method (mie/src/lru_cache.cpp): the     *)
(* words that the user has committed under a reading, the operations on    *)
(* them, and what a serialised cache yields that was written only in part. *)
(*                                                                         *)
(* A cache is the sequence of the used part of entries_.  A word is a      *)
(* reading, the hint on the phoneme meant at each of its keys, and a text  *)
(* with its length in bytes; the tone is left out.                         *)
(***************************************************************************)
EXTENDS Integers, SequencesExt

CONSTANTS
  Cap,         (* kCap (128)                                                *)
  Packed,      (* kLruPackedPositions (4)                                   *)
  ReuseBonus,  (* kReuseBonusMs (5000)                                      *)
  MaxUses,     (* UINT16_MAX: the largest use_count, and 2 bytes of 0xFF.   *)
  MaxStamp,    (* UINT32_MAX: 4 bytes of 0xFF in last_used_ms.              *)
  PageSize     (* FLASH_PAGE_SIZE (256)                                     *)

ASSUME LruCacheAssumption ==
  /\ {Cap, Packed, MaxUses, PageSize} \subseteq Nat \ {0}
  /\ ReuseBonus \in Nat /\ MaxStamp \in Nat

AnyHint == 255   \* kHintAny

\* pos_packed: the hints of the first Packed keys; a hint of a later key is lost.
PosPacked(hints) == [k \in 1 .. Packed |-> IF k <= Len(hints) THEN hints[k] ELSE AnyHint]

HintAt(pos, k) == IF k <= Packed THEN pos[k] ELSE AnyHint

HintMatches(stored, user) == AnyHint \in {stored, user} \/ stored = user

-----------------------------------------------------------------------------
(* upsert *)

\* The indices of the word in the cache: what find_exact looks for.
ExactAt(cache, word) ==
  {i \in 1 .. Len(cache) : /\ cache[i].keys = word.keys
                           /\ cache[i].pos = PosPacked(word.hints)
                           /\ cache[i].text = word.text
                           /\ cache[i].bytes = word.bytes}

Score(e) == e.stamp + ReuseBonus * e.uses

\* Mutant: the entry with the highest score goes.
BestScore(cache) ==
  Min({i \in 1 .. Len(cache) : \A j \in 1 .. Len(cache) : Score(cache[i]) >= Score(cache[j])})

EvictVictim(cache) ==
  Min({i \in 1 .. Len(cache) : \A j \in 1 .. Len(cache) : Score(cache[i]) <= Score(cache[j])})

NewEntry(word, now) ==
  [keys |-> word.keys, pos |-> PosPacked(word.hints), text |-> word.text,
   bytes |-> word.bytes, stamp |-> now, uses |-> 1]

Used(e, now) == [e EXCEPT !.stamp = now, !.uses = Min({@ + 1, MaxUses})]

Upsert(cache, word, now) ==
  IF ExactAt(cache, word) # {}
  THEN LET i == Min(ExactAt(cache, word)) IN [cache EXCEPT ![i] = Used(@, now)]
  ELSE IF Len(cache) < Cap
  THEN Append(cache, NewEntry(word, now))
  ELSE [cache EXCEPT ![EvictVictim(cache)] = NewEntry(word, now)]

-----------------------------------------------------------------------------
(* lookup *)

\* An entry suits the keys typed so far when its reading is a prefix of them;
\* a reading of one key only when nothing else has been typed.
Suits(e, typed, hints) ==
  /\ IsPrefix(e.keys, typed)
  /\ Len(e.keys) = 1 => Len(typed) = 1
  /\ \A k \in 1 .. Len(e.keys) : HintMatches(HintAt(e.pos, k), hints[k])

MoreRecent(e, f) == e.stamp > f.stamp \/ (e.stamp = f.stamp /\ e.uses > f.uses)

\* Mutant: the entries used most often come first.
MoreUsed(e, f) == e.uses > f.uses \/ (e.uses = f.uses /\ e.stamp > f.stamp)

Before(e, f) == MoreRecent(e, f)

\* What the insertion sort leaves in this order: entries that tie stay in that of the cache.
Ahead(cache, i, j) ==
  Before(cache[i], cache[j]) \/ (~Before(cache[j], cache[i]) /\ i < j)

\* The suggestions, best first, each text once; the cut at max_results is left out.
Lookup(cache, typed, hints) ==
  LET suits == {i \in 1 .. Len(cache) : Suits(cache[i], typed, hints)}
      shown == {i \in suits : \A j \in suits : cache[j].text = cache[i].text
                                               => j = i \/ Ahead(cache, i, j)}
      behind(n) == CHOOSE i \in shown : Cardinality({j \in shown : Ahead(cache, j, i)}) = n
  IN [n \in 1 .. Cardinality(shown) |-> cache[behind(n - 1)]]

-----------------------------------------------------------------------------
(* serialize and deserialize.  An image is a serialised cache and the      *)
(* number of bytes of it that have been programmed; the rest reads 0xFF.   *)

HeaderSize == 8
EntrySize == 48
BlobMaxBytes == HeaderSize + Cap * EntrySize
Pages == (BlobMaxBytes + PageSize - 1) \div PageSize

TornText == "torn"

\* Entry i as it reads: its fields lie in the order kbytes .. utf8_len (12 bytes),
\* utf8 (24), last_used_ms (4), use_count (2).
AsRead(e, i, bytes) ==
  LET written == bytes - HeaderSize - EntrySize * (i - 1)
  IN [e EXCEPT !.text  = IF written >= 12 + e.bytes THEN @ ELSE TornText,
               !.stamp = IF written >= 40 THEN @ ELSE MaxStamp,
               !.uses  = IF written >= 42 THEN @ ELSE MaxUses]

\* The lengths of entry i read 0xFF, which is out of range.
LengthsLost(i, bytes) == bytes < HeaderSize + EntrySize * (i - 1) + 12

\* Mutant: the lengths are not tested.
DeserializeUntested(image, bytes) ==
  IF bytes < HeaderSize THEN <<>> ELSE [i \in 1 .. Len(image) |-> AsRead(image[i], i, bytes)]

Deserialize(image, bytes) ==
  IF bytes < HeaderSize \/ \E i \in 1 .. Len(image) : LengthsLost(i, bytes)
  THEN <<>>
  ELSE [i \in 1 .. Len(image) |-> AsRead(image[i], i, bytes)]
=============================================================================
