------------------------------- MODULE ImeKeys -------------------------------
(***************************************************************************)
(* The 20 input keys of the half keyboard (mie/src/ime_keys.cpp and        *)
(* ime_internal.h): what each key stands for, how many syllables a         *)
(* sequence of keys spells, and which tone it asks for.                    *)
(*                                                                         *)
(* A dictionary byte is SlotByte(slot) for an input key, or FirstTone for  *)
(* SPACE.                                                                  *)
(***************************************************************************)
EXTENDS Integers, SequencesExt, FiniteSetsExt, TLC

Slots == 0 .. 19
SlotByte(slot) == slot + 33
FirstTone == 32
ToneKeyByte == 34     \* the tones 3 and 4
SecondToneByte == 35  \* the second tone, or an initial
Bytes == {FirstTone} \union {SlotByte(s) : s \in Slots}

\* The elements of a set as a sequence in a strict order.
Sorted(S, Less(_, _)) == SortSeq(FoldSet(LAMBDA x, seq : Append(seq, x), <<>>, S), Less)

-----------------------------------------------------------------------------
(* kKeyTable *)

DigitSlots == 0 .. 4
PhonemeCount(slot) == IF slot = 4 THEN 3 ELSE 2

\* The labels that a key of the keyboard cycles through in multi-tap; SYM2 has three.
Sym2 == 20
LabelCount(key) ==
  CASE key \in DigitSlots \union {14, 18} -> 2
    [] key = 19 -> 0
    [] key = Sym2 -> 3
    [] OTHER -> 4

-----------------------------------------------------------------------------
(* Syllables *)

SlotRoles ==
  <<"initial", "tone", "initial", "final", "final",
    "initial", "initial", "initial", "medial", "final",
    "initial", "initial", "initial", "medial", "final",
    "initial", "initial", "initial", "medial", "final">>

ClassifyByte(b) == IF b = FirstTone THEN "tone" ELSE SlotRoles[b - 32]

ResolveRole(b, at) ==
  IF b = SecondToneByte /\ at \in {"medial", "final"} THEN "tone" ELSE ClassifyByte(b)

\* Where in a syllable the counter is: after which role, or outside ("none").
AfterRole(role, at) ==
  CASE role = "tone" -> "none"
    [] role = "medial" /\ at = "medial" -> "final"
    [] OTHER -> role

StartsSyllable(role, at) ==
  \/ role = "initial"
  \/ role = "medial" /\ at \in {"none", "final"}
  \/ role = "final" /\ at \in {"none", "final"}

\* The counter after the first n bytes.
Counter(bytes) ==
  LET count[n \in 0 .. Len(bytes)] ==
        IF n = 0 THEN [at |-> "none", starts |-> FALSE, role |-> "none", syllables |-> 0]
        ELSE LET before == count[n - 1]
                 role == ResolveRole(bytes[n], before.at)
                 starts == StartsSyllable(role, before.at)
             IN [at |-> AfterRole(role, before.at), starts |-> starts, role |-> role,
                 syllables |-> before.syllables + (IF starts THEN 1 ELSE 0)]
  IN count

CountPositions(bytes) == Counter(bytes)[Len(bytes)].syllables

\* The length of the part of bytes that spells the first n syllables.
FirstNPositionsBytes(bytes, n) ==
  LET count == Counter(bytes)
      next == {i - 1 : i \in {j \in 1 .. Len(bytes) : count[j].starts /\ count[j - 1].syllables = n}}
      closed == {i \in 1 .. Len(bytes) : count[i].role = "tone" /\ count[i].syllables >= n}
  IN IF bytes = <<>> \/ n = 0 THEN 0 ELSE Min(next \union closed \union {Len(bytes)})

-----------------------------------------------------------------------------
(* Tones *)

\* The tone asked for by the keys around the end of a matched prefix: 34 is 3 or 4.
ToneIntent(bytes, prefix) ==
  IF prefix = 0 THEN 0
  ELSE IF bytes[prefix] = ToneKeyByte THEN 34
  ELSE IF prefix < Len(bytes) /\ bytes[prefix + 1] = FirstTone THEN 1
  ELSE 0

ToneMatches(tone, intent) ==
  CASE intent = 0 -> TRUE
    [] intent = 34 -> tone \in {3, 4}
    [] OTHER -> tone = intent

ToneTier(c, intent) ==
  (IF ToneMatches(c.tone, intent) THEN 0 ELSE 2) + (IF c.single THEN 0 ELSE 1)
=============================================================================
