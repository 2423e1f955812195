----------------------------- MODULE KeypadProofs -----------------------------
(***************************************************************************)
(* Proofs about Keypad, for every matrix and every debounce threshold.     *)
(***************************************************************************)
EXTENDS Keypad, SequenceFacts

(* What the debouncing of one key relies on: count[k] readings in a row,   *)
(* up to the last one, were pending[k], and these are less than Threshold. *)
CountsReadings(k) ==
  /\ stable[k] \in BOOLEAN /\ pending[k] \in BOOLEAN
  /\ count[k] \in 0 .. Threshold - 1
  /\ readings[k] \in Seq(BOOLEAN) /\ Len(readings[k]) = Threshold
  /\ \A i \in 1 .. Threshold :
       i > Threshold - count[k] => readings[k][i] = pending[k]

(* The counts of all keys are those of their readings.                     *)
DebounceInv ==
  /\ stable \in [Keys -> BOOLEAN] /\ pending \in [Keys -> BOOLEAN]
  /\ count \in [Keys -> 0 .. Threshold - 1] /\ readings \in [Keys -> Seq(BOOLEAN)]
  /\ \A k \in Keys : CountsReadings(k)

(* A reading pushes the oldest one out. *)
LEMMA ReadingShifts ==
  ASSUME NEW r \in Seq(BOOLEAN), Len(r) \in Nat \ {0}, NEW bit \in BOOLEAN
  PROVE  LET s == Append(Tail(r), bit)
         IN  /\ s \in Seq(BOOLEAN) /\ Len(s) = Len(r)
             /\ s[Len(r)] = bit
             /\ \A i \in 1 .. Len(r) - 1 : s[i] = r[i + 1]
  <1> DEFINE u == Tail(r)
             s == Append(u, bit)
  <1>1. u \in Seq(BOOLEAN) /\ Len(u) = Len(r) - 1
        /\ \A i \in 1 .. Len(r) - 1 : u[i] = r[i + 1]
    OBVIOUS
  <1> HIDE DEF u
  <1>2. s \in Seq(BOOLEAN) /\ Len(s) = Len(u) + 1
        /\ (\A i \in 1 .. Len(u) : s[i] = u[i]) /\ s[Len(u) + 1] = bit
    BY <1>1, AppendProperties
  <1> HIDE DEF s
  <1>3. /\ s \in Seq(BOOLEAN) /\ Len(s) = Len(r) /\ s[Len(r)] = bit
        /\ \A i \in 1 .. Len(r) - 1 : s[i] = r[i + 1]
    BY <1>1, <1>2
  <1> QED BY <1>3 DEF s, u

(* One reading of one key: its state changes only after Threshold equal    *)
(* readings, and what its count says stays true.                           *)
LEMMA ReadingCounts ==
  ASSUME NEW k \in Keys, CountsReadings(k), NEW bit \in BOOLEAN
  PROVE  LET s == Append(Tail(readings[k]), bit)
             n == CountOf(k, bit)
         IN  /\ s \in Seq(BOOLEAN) /\ Len(s) = Threshold
             /\ n \in 0 .. Threshold
             /\ \A i \in 1 .. Threshold : i > Threshold - n => s[i] = bit
             /\ Commits(k, bit) => \A i \in 1 .. Threshold : s[i] = bit
  <1> DEFINE s == Append(Tail(readings[k]), bit)
  <1>t. Threshold \in Nat \ {0}
    BY KeypadAssumption
  <1>1. /\ s \in Seq(BOOLEAN) /\ Len(s) = Threshold
        /\ s[Threshold] = bit
        /\ \A i \in 1 .. Threshold - 1 : s[i] = readings[k][i + 1]
    BY ZenonT(60), <1>t, ReadingShifts DEF CountsReadings
  <1>2. CountOf(k, bit) \in 0 .. Threshold
    BY <1>t DEF CountOf, CountsReadings
  <1> HIDE DEF s
  <1>3. \A i \in 1 .. Threshold : i > Threshold - CountOf(k, bit) => s[i] = bit
    <2> SUFFICES ASSUME NEW i \in 1 .. Threshold, i > Threshold - CountOf(k, bit)
                 PROVE  s[i] = bit
      OBVIOUS
    <2>1. CASE i = Threshold
      BY <1>1, <2>1
    <2>2. CASE i # Threshold
      <3>1. bit = pending[k] /\ CountOf(k, bit) = count[k] + 1
        BY <1>t, <2>2 DEF CountOf, CountsReadings
      <3>2. i + 1 \in 1 .. Threshold /\ i + 1 > Threshold - count[k]
        BY <1>t, <2>2, <3>1 DEF CountsReadings
      <3>3. readings[k][i + 1] = pending[k]
        BY <3>2 DEF CountsReadings
      <3>4. s[i] = readings[k][i + 1]
        BY <1>1, <1>t, <2>2
      <3> QED BY <3>1, <3>3, <3>4
    <2> QED BY <2>1, <2>2
  <1>4. Commits(k, bit) => \A i \in 1 .. Threshold : s[i] = bit
    BY <1>t, <1>2, <1>3 DEF Commits
  <1> QED BY <1>1, <1>2, <1>3, <1>4 DEF s

(* A pass keeps the counts true, and changes the state of a key only after *)
(* Threshold equal readings.                                               *)
LEMMA ScanDebounces ==
  ASSUME DebounceInv, Scan
  PROVE  /\ DebounceInv'
         /\ \A k \in Keys : stable'[k] # stable[k] =>
              \A i \in 1 .. Threshold : readings'[k][i] = stable'[k]
  <1>t. Threshold \in Nat \ {0}
    BY KeypadAssumption
  <1>1. PICK raw \in [Keys -> BOOLEAN] :
          /\ stable' = [k \in Keys |-> IF Commits(k, raw[k]) THEN raw[k] ELSE stable[k]]
          /\ pending' = raw
          /\ count' = [k \in Keys |-> IF Commits(k, raw[k]) THEN 0 ELSE CountOf(k, raw[k])]
          /\ readings' = [k \in Keys |-> Append(Tail(readings[k]), raw[k])]
    BY DEF Scan
  <1>2. stable' \in [Keys -> BOOLEAN] /\ pending' \in [Keys -> BOOLEAN]
    BY <1>1 DEF DebounceInv
  <1>3. ASSUME NEW k \in Keys
        PROVE  /\ CountsReadings(k)'
               /\ stable'[k] # stable[k] =>
                    \A i \in 1 .. Threshold : readings'[k][i] = stable'[k]
    <2>1. raw[k] \in BOOLEAN /\ CountsReadings(k)
      BY <1>1 DEF DebounceInv
    <2> DEFINE s == Append(Tail(readings[k]), raw[k])
               n == CountOf(k, raw[k])
    <2>2. /\ s \in Seq(BOOLEAN) /\ Len(s) = Threshold
          /\ n \in 0 .. Threshold
          /\ \A i \in 1 .. Threshold : i > Threshold - n => s[i] = raw[k]
          /\ Commits(k, raw[k]) => \A i \in 1 .. Threshold : s[i] = raw[k]
      BY <2>1, ReadingCounts
    <2>3. /\ stable'[k] = IF Commits(k, raw[k]) THEN raw[k] ELSE stable[k]
          /\ pending'[k] = raw[k]
          /\ count'[k] = IF Commits(k, raw[k]) THEN 0 ELSE n
          /\ readings'[k] = s
      BY <1>1
    <2>4. ~Commits(k, raw[k]) => n < Threshold
      BY <1>t, <2>1, <2>2 DEF Commits, CountOf
    <2> HIDE DEF s, n
    <2>5. CountsReadings(k)'
      <3>1. stable'[k] \in BOOLEAN /\ pending'[k] \in BOOLEAN
        BY <2>1, <2>3 DEF CountsReadings
      <3>2. count'[k] \in 0 .. Threshold - 1
        BY <1>t, <2>2, <2>3, <2>4
      <3>3. \A i \in 1 .. Threshold :
              i > Threshold - count'[k] => readings'[k][i] = pending'[k]
        BY <1>t, <2>2, <2>3
      <3> QED BY <2>2, <2>3, <3>1, <3>2, <3>3 DEF CountsReadings
    <2> QED BY <2>2, <2>3, <2>5
  <1>4. count' \in [Keys -> 0 .. Threshold - 1] /\ readings' \in [Keys -> Seq(BOOLEAN)]
    <2>1. \A k \in Keys : count'[k] \in 0 .. Threshold - 1 /\ readings'[k] \in Seq(BOOLEAN)
      BY <1>3 DEF CountsReadings
    <2> QED BY <1>1, <2>1
  <1> QED BY <1>2, <1>3, <1>4 DEF DebounceInv

(* At boot nothing has been counted.                                       *)
LEMMA DebounceInit == Init => DebounceInv
  <1> SUFFICES ASSUME Init PROVE DebounceInv
    OBVIOUS
  <1>1. ASSUME NEW k \in Keys PROVE CountsReadings(k)
    <2>1. readings[k] = [i \in 1 .. Threshold |-> FALSE]
      BY DEF Init
    <2>2. readings[k] \in Seq(BOOLEAN) /\ Len(readings[k]) = Threshold
      <3>1. readings[k] \in [1 .. Threshold -> BOOLEAN] /\ Threshold \in Nat
        BY <2>1, KeypadAssumption
      <3>2. readings[k] \in Seq(BOOLEAN)
        BY <3>1, SeqDef
      <3> QED BY <3>1, <3>2, LenProperties
    <2> QED BY <2>2, KeypadAssumption DEF Init, CountsReadings
  <1>2. count \in [Keys -> 0 .. Threshold - 1] /\ readings \in [Keys -> Seq(BOOLEAN)]
    <2>1. \A k \in Keys : count[k] \in 0 .. Threshold - 1 /\ readings[k] \in Seq(BOOLEAN)
      BY <1>1 DEF CountsReadings
    <2> QED BY <2>1 DEF Init
  <1> QED BY <1>1, <1>2 DEF Init, DebounceInv

(* Every step keeps the counts true; only a pass changes them.             *)
LEMMA DebounceStep ==
  DebounceInv /\ [Next]_vars
    => DebounceInv' /\ [\A k \in Keys : stable'[k] # stable[k] =>
                          \A i \in 1 .. Threshold : readings'[k][i] = stable'[k]]_vars
  <1> SUFFICES ASSUME DebounceInv, [Next]_vars
               PROVE  DebounceInv' /\ \A k \in Keys : stable'[k] # stable[k] =>
                        \A i \in 1 .. Threshold : readings'[k][i] = stable'[k]
    OBVIOUS
  <1>1. CASE Scan
    BY <1>1, ScanDebounces
  <1>2. CASE UNCHANGED matrixVars
    BY <1>2 DEF matrixVars, DebounceInv, CountsReadings
  <1>3. Scan \/ UNCHANGED matrixVars
    BY DEF Next, ScanTask, InjectContinues, MarkHw, Send, InjectBegins, InjectTest,
           ImePops, ViewPops, vars, matrixVars
  <1> QED BY <1>1, <1>2, <1>3

(* keypad_scan.c: "Number of consecutive scans where the raw reading has   *)
(* equalled pending": for every matrix and threshold, a key changes its    *)
(* state only on Threshold readings in a row that say so.                  *)
THEOREM KeysAreDebounced == Spec => Debounced
  BY DebounceInit, DebounceStep, PTL DEF Spec, Debounced

-----------------------------------------------------------------------------
(* The events of one key, one after another: what a reader of the events   *)
(* takes the key for, before and after each of them.                       *)
KeyStates == {"up", "tap", "long"}

(* What a reader takes the key for after event e.                          *)
StateOf(e) == IF ~e.pressed THEN "up" ELSE IF e.long THEN "long" ELSE "tap"

(* A press follows a release, and a release the press of its kind.         *)
Fits(a, e) == IF e.pressed THEN a = "up" ELSE a = IF e.long THEN "long" ELSE "tap"

(* Event e comes from key k of the matrix.                                 *)
Concerns(e, k) == e.key = k /\ e.source = "hw"

(* Event e turns key k from a into b.                                      *)
Turns(e, k, a, b) == IF Concerns(e, k) THEN Fits(a, e) /\ b = StateOf(e) ELSE b = a

(* h lists what key k is taken for, before and after each event of q.      *)
Path(h, q, k) == \A i \in 1 .. Len(q) : Turns(q[i], k, h[i - 1], h[i])

(* The events of q bring key k from a to b. *)
Leads(q, k, a, b) ==
  \E h \in [0 .. Len(q) -> KeyStates] : h[0] = a /\ h[Len(q)] = b /\ Path(h, q, k)

(* No event, no change.                                                    *)
LEMMA LeadsNowhere ==
  ASSUME NEW k, NEW a, NEW b
  PROVE  Leads(<<>>, k, a, b) <=> a = b /\ a \in KeyStates
  <1>1. Len(<<>>) = 0 /\ 0 \in 0 .. 0
    BY EmptySeq
  <1>2. ASSUME Leads(<<>>, k, a, b) PROVE a = b /\ a \in KeyStates
    BY <1>1, <1>2 DEF Leads
  <1>3. ASSUME a = b, a \in KeyStates PROVE Leads(<<>>, k, a, b)
    <2> DEFINE h == [i \in 0 .. 0 |-> a]
    <2>1. h \in [0 .. 0 -> KeyStates] /\ h[0] = a
      BY <1>3
    <2>2. Path(h, <<>>, k)
      BY <1>1 DEF Path
    <2> HIDE DEF h
    <2> QED BY <1>1, <1>3, <2>1, <2>2 DEF Leads
  <1> QED BY <1>2, <1>3

(* The events of q and then those of r.                                    *)
LEMMA LeadsOn ==
  ASSUME NEW S, NEW q \in Seq(S), NEW r \in Seq(S), NEW k, NEW a, NEW b, NEW c,
         Leads(q, k, a, b), Leads(r, k, b, c)
  PROVE  Leads(q \o r, k, a, c)
  <1> DEFINE n == Len(q)
             m == Len(r)
             t == q \o r
  <1>1. /\ n \in Nat /\ m \in Nat /\ Len(t) = n + m
        /\ \A i \in 1 .. n + m : t[i] = IF i <= n THEN q[i] ELSE r[i - n]
    BY ConcatProperties, LenProperties
  <1>2. PICK f \in [0 .. n -> KeyStates] : f[0] = a /\ f[n] = b /\ Path(f, q, k)
    BY DEF Leads
  <1>3. PICK g \in [0 .. m -> KeyStates] : g[0] = b /\ g[m] = c /\ Path(g, r, k)
    BY DEF Leads
  <1>4. /\ \A i \in 1 .. n : Turns(q[i], k, f[i - 1], f[i])
        /\ \A i \in 1 .. m : Turns(r[i], k, g[i - 1], g[i])
    BY <1>2, <1>3 DEF Path
  <1> HIDE DEF n, m, t
  <1> DEFINE h == [i \in 0 .. n + m |-> IF i <= n THEN f[i] ELSE g[i - n]]
  <1>5. \A i \in 0 .. n + m : h[i] = IF i <= n THEN f[i] ELSE g[i - n]
    OBVIOUS
  <1>6. h \in [0 .. n + m -> KeyStates]
    <2>1. ASSUME NEW i \in 0 .. n + m PROVE h[i] \in KeyStates
      <3>1. CASE i <= n
        <4>1. i \in 0 .. n /\ h[i] = f[i]
          BY <1>1, <3>1
        <4> HIDE DEF h
        <4> QED BY <1>2, <4>1
      <3>2. CASE ~(i <= n)
        <4>1. i - n \in 0 .. m /\ h[i] = g[i - n]
          BY <1>1, <3>2
        <4> HIDE DEF h
        <4> QED BY <1>3, <4>1
      <3> QED BY <3>1, <3>2
    <2> QED BY <2>1
  <1> HIDE DEF h
  <1>7. h[0] = a /\ h[n + m] = c
    <2>1. 0 \in 0 .. n + m /\ n + m \in 0 .. n + m /\ 0 <= n
      BY <1>1
    <2>2. CASE m = 0
      <3>1. n + m <= n /\ n + m = n
        BY <1>1, <2>2
      <3> QED BY <1>2, <1>3, <1>5, <2>1, <2>2, <3>1
    <2>3. CASE m # 0
      <3>1. ~(n + m <= n) /\ (n + m) - n = m
        BY <1>1, <2>3
      <3> QED BY <1>2, <1>3, <1>5, <2>1, <3>1
    <2> QED BY <2>2, <2>3
  <1>8. ASSUME NEW i \in 1 .. n + m PROVE Turns(t[i], k, h[i - 1], h[i])
    <2>1. i \in 0 .. n + m /\ i - 1 \in 0 .. n + m
      BY <1>1
    <2>2. CASE i <= n
      <3>1. i \in 1 .. n /\ i - 1 <= n
        BY <1>1, <2>2
      <3> QED BY <1>1, <1>4, <1>5, <2>1, <2>2, <3>1
    <2>3. CASE ~(i <= n)
      <3> DEFINE j == i - n
                 l == i - 1
      <3>1. j \in 1 .. m /\ t[i] = r[j] /\ h[i] = g[j]
        BY <1>1, <1>5, <2>1, <2>3
      <3>2. h[l] = g[j - 1]
        <4>1. CASE i = n + 1
          <5>1. l = n /\ l <= n /\ j - 1 = 0
            BY <1>1, <4>1
          <5>2. h[l] = f[l]
            BY <1>5, <2>1, <5>1
          <5> QED BY <1>2, <1>3, <5>1, <5>2
        <4>2. CASE i # n + 1
          <5>1. ~(l <= n) /\ l - n = j - 1
            BY <1>1, <2>3, <4>2
          <5> QED BY <1>5, <2>1, <5>1
        <4> QED BY <4>1, <4>2
      <3>3. Turns(r[j], k, g[j - 1], g[j])
        BY <1>4, <3>1
      <3> QED BY <3>1, <3>2, <3>3
    <2> QED BY <2>2, <2>3
  <1>9. Path(h, t, k)
    BY <1>1, <1>8 DEF Path
  <1> QED BY <1>1, <1>6, <1>7, <1>9 DEF Leads, t

(* A single event.                                                         *)
LEMMA LeadsOne ==
  ASSUME NEW e, NEW k, NEW a \in KeyStates, NEW b \in KeyStates, Turns(e, k, a, b)
  PROVE  Leads(<<e>>, k, a, b)
  <1> DEFINE h == [i \in 0 .. 1 |-> IF i = 0 THEN a ELSE b]
  <1>1. h \in [0 .. 1 -> KeyStates] /\ h[0] = a /\ h[1] = b
    OBVIOUS
  <1>2. Len(<<e>>) = 1 /\ <<e>>[1] = e /\ \A i \in 1 .. 1 : i = 1 /\ i - 1 = 0
    OBVIOUS
  <1> HIDE DEF h
  <1>3. Path(h, <<e>>, k)
    BY <1>1, <1>2 DEF Path
  <1> QED BY <1>1, <1>2, <1>3 DEF Leads

(* What the first event does, and the others. *)
LEMMA LeadsFirst ==
  ASSUME NEW S, NEW q \in Seq(S), q # <<>>, NEW k, NEW a, NEW c, Leads(q, k, a, c)
  PROVE  \E b \in KeyStates : Turns(Head(q), k, a, b) /\ Leads(Tail(q), k, b, c)
  <1> DEFINE n == Len(q)
             m == n - 1
             t == Tail(q)
  <1>1. /\ n \in Nat \ {0} /\ Len(t) = m /\ Head(q) = q[1] /\ m \in Nat
        /\ \A i \in 1 .. m : t[i] = q[i + 1]
    BY EmptySeq, HeadTailProperties
  <1>2. PICK f \in [0 .. n -> KeyStates] : f[0] = a /\ f[n] = c /\ Path(f, q, k)
    BY DEF Leads
  <1>3. \A i \in 1 .. n : Turns(q[i], k, f[i - 1], f[i])
    BY <1>2 DEF Path
  <1>4. 1 \in 1 .. n /\ 1 - 1 = 0 /\ 1 \in 0 .. n /\ m + 1 = n
    BY <1>1
  <1>5. Turns(Head(q), k, a, f[1]) /\ f[1] \in KeyStates
    BY <1>1, <1>2, <1>3, <1>4
  <1>a. \A i \in 0 .. m : i + 1 \in 0 .. n
    BY <1>1
  <1> HIDE DEF n, t
  <1> DEFINE g == [i \in 0 .. m |-> f[i + 1]]
  <1>6. g \in [0 .. m -> KeyStates]
    BY <1>2, <1>a
  <1>7. \A i \in 0 .. m : g[i] = f[i + 1]
    OBVIOUS
  <1> HIDE DEF g, m
  <1>8. g[0] = f[1] /\ g[m] = c
    <2>1. 0 \in 0 .. m /\ m \in 0 .. m /\ 0 + 1 = 1
      BY <1>1
    <2> QED BY <1>2, <1>4, <1>7, <2>1
  <1>9. ASSUME NEW i \in 1 .. m PROVE Turns(t[i], k, g[i - 1], g[i])
    <2> DEFINE j == i + 1
               l == i - 1
    <2>1. /\ j \in 1 .. n /\ j - 1 = i /\ i \in 0 .. m /\ l \in 0 .. m /\ l + 1 = i
      BY <1>1, <1>4
    <2>2. t[i] = q[j] /\ g[i] = f[j]
      BY <1>1, <1>7, <2>1
    <2>3. g[l] = f[i]
      BY <1>7, <2>1
    <2> HIDE DEF j
    <2>4. Turns(q[j], k, f[j - 1], f[j])
      BY <1>3, <2>1
    <2> QED BY <2>1, <2>2, <2>3, <2>4
  <1>10. Path(g, t, k)
    BY <1>1, <1>9 DEF Path
  <1>11. Leads(t, k, f[1], c)
    BY <1>1, <1>6, <1>8, <1>10 DEF Leads
  <1> QED BY <1>5, <1>11 DEF t

(* One event more.                                                         *)
LEMMA LeadsAppend ==
  ASSUME NEW S, NEW q \in Seq(S), NEW e \in S, NEW k, NEW a, NEW b \in KeyStates,
         NEW c \in KeyStates, Leads(q, k, a, b), Turns(e, k, b, c)
  PROVE  Leads(Append(q, e), k, a, c)
  <1>1. Leads(<<e>>, k, b, c)
    BY LeadsOne
  <1>2. <<e>> \in Seq(S) /\ Append(q, e) = q \o <<e>>
    BY AppendIsConcat
  <1> DEFINE r == <<e>>
  <1> HIDE DEF r
  <1>3. Leads(q \o r, k, a, c)
    BY <1>1, <1>2, LeadsOn DEF r
  <1> QED BY <1>2, <1>3 DEF r

(* The events of a pass are those of its pieces.                           *)
LEMMA FlattenLeads ==
  ASSUME NEW S, NEW s \in Seq(Seq(S)), NEW k, NEW st \in [0 .. Len(s) -> KeyStates],
         \A i \in 1 .. Len(s) : Leads(s[i], k, st[i - 1], st[i])
  PROVE  Leads(FlattenSeq(s), k, st[0], st[Len(s)])
  <1> DEFINE n == Len(s)
             f == Flattening(s)
  <1>0. n \in Nat
    BY LenProperties
  <1>1. CASE n = 0
    <2>1. s = <<>> /\ FlattenSeq(s) = <<>>
      BY <1>1, EmptySeq, FlattenEmpty
    <2>2. st[0] \in KeyStates
      BY <1>0
    <2> QED BY <1>1, <2>1, <2>2, LeadsNowhere
  <1>2. CASE n # 0
    <2>1. f \in [1 .. n -> Seq(S)] /\ Joins(f, s, n) /\ FlattenSeq(s) = f[n]
      BY <1>2, FlatteningExists, FlattenIs
    <2>2. \A i \in 1 .. n : s[i] \in Seq(S)
      BY ElementOfSeq
    <2> HIDE DEF n, f
    <2> DEFINE V(i) == i <= n => Leads(f[i], k, st[0], st[i])
               U == {m \in Nat : V(m + 1)}
    <2>3. V(1)
      <3>1. 1 \in 1 .. n /\ n \in Nat \ {0} /\ 1 - 1 = 0
        BY <1>0, <1>2
      <3>2. f[1] = s[1]
        BY <2>1, <3>1, JoinsFirst
      <3>3. Leads(s[1], k, st[1 - 1], st[1])
        BY <3>1 DEF n
      <3> QED BY <3>1, <3>2, <3>3
    <2>4. ASSUME NEW m \in Nat, V(m + 1) PROVE V((m + 1) + 1)
      <3> DEFINE j == m + 1
                 i == j + 1
      <3>1. SUFFICES ASSUME i <= n PROVE Leads(f[i], k, st[0], st[i])
        OBVIOUS
      <3>2. i \in 1 .. n /\ i # 1 /\ i - 1 = j /\ j \in 1 .. n /\ j <= n
        BY <1>0, <3>1
      <3>3. Leads(f[j], k, st[0], st[j])
        BY <2>4, <3>2
      <3> HIDE DEF V, U, i, j
      <3>4. f[i] = f[j] \o s[i]
        BY <2>1, <3>2 DEF Joins
      <3>5. Leads(s[i], k, st[j], st[i])
        BY <3>2 DEF n
      <3> DEFINE x == f[j]
                 y == s[i]
      <3>6. x \in Seq(S) /\ y \in Seq(S)
        BY <2>1, <2>2, <3>2
      <3> HIDE DEF x, y
      <3>7. Leads(x \o y, k, st[0], st[i])
        BY <3>3, <3>5, <3>6, LeadsOn DEF x, y
      <3> QED BY <3>4, <3>7 DEF x, y
    <2> HIDE DEF V
    <2>5. 0 \in U /\ \A m \in Nat : m \in U => m + 1 \in U
      <3>1. 0 + 1 = 1
        OBVIOUS
      <3> QED BY <2>3, <2>4, <3>1
    <2> HIDE DEF U
    <2>6. n - 1 \in Nat /\ (n - 1) + 1 = n /\ n <= n
      BY <1>0, <1>2
    <2>7. n - 1 \in U
      BY <2>5, <2>6, SetInduction
    <2>8. V(n)
      BY <2>6, <2>7 DEF U
    <2> QED BY <2>1, <2>6, <2>8 DEF V, n
  <1> QED BY <1>1, <1>2

-----------------------------------------------------------------------------
(* What the scan task has made of a key, the events it has still to push   *)
(* included.                                                               *)
KeyIs(k) ==
  IF k \in SlotKeys THEN IF lp[k] = "long" THEN "long" ELSE "up"
  ELSE IF stable[k] THEN "tap" ELSE "up"

(* The events of the matrix.                                               *)
HwEvents == [key : Keys, pressed : BOOLEAN, long : BOOLEAN, source : {"hw"}]

(* The timers and the deferred presses. *)
Timers ==
  /\ stable \in [Keys -> BOOLEAN]
  /\ lp \in [Keys -> {"idle", "pending", "long"}] /\ held \in [Keys -> 0 .. LongTicks - 1]
  /\ \A k \in Keys : IF k \in SlotKeys THEN lp[k] = "idle" <=> ~stable[k] ELSE lp[k] = "idle"

(* An event of the matrix concerns its key only, and says what it says.    *)
LEMMA EventsTyped ==
  ASSUME NEW k \in Keys, NEW p \in BOOLEAN, NEW l \in BOOLEAN
  PROVE  /\ Event(k, p, l, "hw") \in HwEvents /\ <<Event(k, p, l, "hw")>> \in Seq(HwEvents)
         /\ \A q \in Keys : Concerns(Event(k, p, l, "hw"), q) <=> q = k
         /\ \A a : Fits(a, Event(k, p, l, "hw"))
                     <=> a = IF p THEN "up" ELSE IF l THEN "long" ELSE "tap"
         /\ StateOf(Event(k, p, l, "hw")) = IF ~p THEN "up" ELSE IF l THEN "long" ELSE "tap"
  <1> DEFINE e == Event(k, p, l, "hw")
  <1>1. e \in HwEvents /\ e.key = k /\ e.pressed = p /\ e.long = l /\ e.source = "hw"
    BY DEF Event, HwEvents
  <1> HIDE DEF e
  <1>2. <<e>> \in Seq(HwEvents)
    BY <1>1
  <1> QED BY <1>1, <1>2 DEF Concerns, Fits, StateOf, e

(* What key k is between the debouncing of a pass and its timers.          *)
MidState(k, bit) ==
  IF ~Commits(k, bit) THEN KeyIs(k)
  ELSE IF k \in SlotKeys THEN "up" ELSE IF bit THEN "tap" ELSE "up"

(* The events of a pass over key q concern q only, and turn it from what   *)
(* it was into what it is.                                                 *)
LEMMA RowEventsLead ==
  ASSUME Timers, NEW k \in Keys, NEW q \in Keys, NEW bit \in BOOLEAN
  PROVE  /\ RowEvents(q, bit) \in Seq(HwEvents)
         /\ q # k => \A a \in KeyStates : Leads(RowEvents(q, bit), k, a, a)
         /\ Leads(RowEvents(k, bit), k, KeyIs(k), MidState(k, bit))
         /\ KeyIs(k) \in KeyStates /\ MidState(k, bit) \in KeyStates
  <1> DEFINE E(x, p, l) == Event(x, p, l, "hw")
  <1>1. KeyIs(k) \in KeyStates /\ MidState(k, bit) \in KeyStates
    BY DEF KeyIs, MidState, KeyStates
  <1>2. <<>> \in Seq(HwEvents) /\ \A a \in KeyStates : Leads(<<>>, k, a, a)
    BY EmptySeq, LeadsNowhere
  <1>3. \A x \in Keys, p, l \in BOOLEAN :
          /\ E(x, p, l) \in HwEvents /\ <<E(x, p, l)>> \in Seq(HwEvents)
          /\ x # k => \A a \in KeyStates : Turns(E(x, p, l), k, a, a)
          /\ Turns(E(k, p, l), k, IF p THEN "up" ELSE IF l THEN "long" ELSE "tap",
                                  IF ~p THEN "up" ELSE IF l THEN "long" ELSE "tap")
    BY EventsTyped DEF Turns
  <1>4. \A x \in Keys, p, l \in BOOLEAN :
          /\ x # k => \A a \in KeyStates : Leads(<<E(x, p, l)>>, k, a, a)
          /\ Leads(<<E(k, p, l)>>, k, IF p THEN "up" ELSE IF l THEN "long" ELSE "tap",
                                      IF ~p THEN "up" ELSE IF l THEN "long" ELSE "tap")
    BY <1>3, LeadsOne DEF KeyStates
  <1>5. \A x \in Keys : LET two == <<E(x, TRUE, FALSE), E(x, FALSE, FALSE)>>
                        IN  /\ two \in Seq(HwEvents)
                            /\ two = Append(<<E(x, TRUE, FALSE)>>, E(x, FALSE, FALSE))
    <2>1. \A x \in Keys : E(x, TRUE, FALSE) \in HwEvents /\ E(x, FALSE, FALSE) \in HwEvents
      BY <1>3
    <2> HIDE DEF E
    <2> QED BY <2>1, PairIs
  <1>6. \A x \in Keys : LET two == <<E(x, TRUE, FALSE), E(x, FALSE, FALSE)>>
                        IN  /\ x # k => \A a \in KeyStates : Leads(two, k, a, a)
                            /\ Leads(<<E(k, TRUE, FALSE), E(k, FALSE, FALSE)>>, k, "up", "up")
    <2> DEFINE u(x) == E(x, TRUE, FALSE)
               d(x) == E(x, FALSE, FALSE)
    <2>1. \A x \in Keys : u(x) \in HwEvents /\ d(x) \in HwEvents /\ <<u(x)>> \in Seq(HwEvents)
      BY <1>3
    <2>2. \A x \in Keys : x # k => \A a \in KeyStates : /\ Leads(<<u(x)>>, k, a, a)
                                                        /\ Turns(d(x), k, a, a)
      BY <1>3, <1>4
    <2>3. /\ Leads(<<u(k)>>, k, "up", "tap") /\ Turns(d(k), k, "tap", "up")
          /\ "up" \in KeyStates /\ "tap" \in KeyStates
      BY <1>3, <1>4 DEF KeyStates
    <2> HIDE DEF u, d
    <2>4. \A x \in Keys : x # k => \A a \in KeyStates : Leads(Append(<<u(x)>>, d(x)), k, a, a)
      BY <2>1, <2>2, LeadsAppend
    <2>5. Leads(Append(<<u(k)>>, d(k)), k, "up", "up")
      BY <2>1, <2>3, LeadsAppend
    <2> QED BY <1>5, <2>4, <2>5 DEF u, d
  <1> HIDE DEF E
  <1>7. RowEvents(q, bit) \in Seq(HwEvents)
    BY <1>2, <1>3, <1>5 DEF RowEvents, E
  <1>8. q # k => \A a \in KeyStates : Leads(RowEvents(q, bit), k, a, a)
    BY <1>2, <1>4, <1>6 DEF RowEvents, E
  <1>9. Leads(RowEvents(k, bit), k, KeyIs(k), MidState(k, bit))
    <2>1. CASE ~Commits(k, bit)
      BY <1>1, <1>2, <2>1 DEF RowEvents, MidState
    <2>2. CASE Commits(k, bit) /\ k \notin SlotKeys
      <3>1. stable[k] = ~bit
        BY <2>2 DEF Commits, Timers
      <3>2. KeyIs(k) = (IF bit THEN "up" ELSE "tap") /\ MidState(k, bit) = IF bit THEN "tap" ELSE "up"
        BY <2>2, <3>1 DEF KeyIs, MidState
      <3>3. RowEvents(k, bit) = <<E(k, bit, FALSE)>>
        BY <2>2 DEF RowEvents, E
      <3>4. Leads(<<E(k, bit, FALSE)>>, k, IF bit THEN "up" ELSE "tap", IF ~bit THEN "up" ELSE "tap")
        BY <1>4
      <3> QED BY <3>2, <3>3, <3>4
    <2>3. CASE Commits(k, bit) /\ k \in SlotKeys
      <3>1. stable[k] = ~bit /\ (lp[k] = "idle" <=> bit) /\ lp[k] \in {"idle", "pending", "long"}
        BY <2>3 DEF Commits, Timers
      <3>2. MidState(k, bit) = "up" /\ KeyIs(k) = IF lp[k] = "long" THEN "long" ELSE "up"
        BY <2>3 DEF MidState, KeyIs
      <3>3. CASE bit
        BY <1>1, <1>2, <2>3, <3>1, <3>2, <3>3 DEF RowEvents
      <3>4. CASE ~bit /\ lp[k] = "pending"
        BY <1>6, <2>3, <3>2, <3>4 DEF RowEvents, E
      <3>5. CASE ~bit /\ lp[k] = "long"
        <4>1. RowEvents(k, bit) = <<E(k, FALSE, TRUE)>>
          BY <2>3, <3>5 DEF RowEvents, E
        <4> QED BY <1>4, <3>2, <3>5, <4>1
      <3> QED BY <3>1, <3>3, <3>4, <3>5
    <2> QED BY <2>1, <2>2, <2>3
  <1> QED BY <1>1, <1>7, <1>8, <1>9

(* The timer says that a held key is a long press. *)
LEMMA LongEventsLead ==
  ASSUME Timers, NEW k \in Keys, NEW q \in Keys, NEW bit \in BOOLEAN
  PROVE  /\ LongEvents(q, bit) \in Seq(HwEvents)
         /\ q # k => \A a \in KeyStates : Leads(LongEvents(q, bit), k, a, a)
         /\ Leads(LongEvents(k, bit), k, MidState(k, bit),
                  IF TurnsLong(k, bit) THEN "long" ELSE MidState(k, bit))
         /\ TurnsLong(k, bit) => k \in SlotKeys /\ ~Commits(k, bit) /\ lp[k] = "pending"
  <1> DEFINE E(x) == Event(x, TRUE, TRUE, "hw")
  <1>1. <<>> \in Seq(HwEvents) /\ \A a \in KeyStates : Leads(<<>>, k, a, a)
    BY EmptySeq, LeadsNowhere
  <1>2. \A x \in Keys : /\ <<E(x)>> \in Seq(HwEvents)
                        /\ x # k => \A a \in KeyStates : Turns(E(x), k, a, a)
                        /\ Turns(E(k), k, "up", "long")
    BY EventsTyped DEF Turns
  <1> HIDE DEF E
  <1>3. \A x \in Keys : x # k => \A a \in KeyStates : Leads(<<E(x)>>, k, a, a)
    BY <1>2, LeadsOne
  <1>4. Leads(<<E(k)>>, k, "up", "long")
    BY <1>2, LeadsOne DEF KeyStates
  <1>5. TurnsLong(k, bit) => k \in SlotKeys /\ ~Commits(k, bit) /\ lp[k] = "pending"
    <2> SUFFICES ASSUME TurnsLong(k, bit)
                 PROVE  k \in SlotKeys /\ ~Commits(k, bit) /\ lp[k] = "pending"
      OBVIOUS
    <2>1. LpAfterRow(k, bit) = "pending" /\ TimerOf(k, bit) >= LongTicks /\ LongTicks \in Nat \ {0}
      BY KeypadAssumption DEF TurnsLong
    <2>2. ~Commits(k, bit)
      BY <2>1 DEF TimerOf
    <2>3. lp[k] = "pending"
      BY <2>1, <2>2 DEF LpAfterRow
    <2> QED BY <2>2, <2>3 DEF Timers
  <1>6. TurnsLong(k, bit) => MidState(k, bit) = "up"
    BY <1>5 DEF MidState, KeyIs
  <1>7. MidState(k, bit) \in KeyStates
    BY RowEventsLead
  <1> QED BY <1>1, <1>2, <1>3, <1>4, <1>5, <1>6, <1>7 DEF LongEvents, E

(* One piece of a pass concerns the key, and the others leave it alone. *)
LEMMA PassLeads ==
  ASSUME NEW S, NEW s \in Seq(Seq(S)), NEW k, NEW m \in 1 .. Len(s), NEW a \in KeyStates,
         NEW b \in KeyStates, Leads(s[m], k, a, b),
         \A i \in 1 .. Len(s) : i # m => \A x \in KeyStates : Leads(s[i], k, x, x)
  PROVE  Leads(FlattenSeq(s), k, a, b)
  <1> DEFINE n == Len(s)
             st == [i \in 0 .. n |-> IF i < m THEN a ELSE b]
  <1>1. n \in Nat /\ m \in 1 .. n
    BY LenProperties
  <1>2. st \in [0 .. n -> KeyStates] /\ \A i \in 0 .. n : st[i] = IF i < m THEN a ELSE b
    OBVIOUS
  <1>3. st[0] = a /\ st[n] = b
    BY <1>1
  <1> HIDE DEF st
  <1>4. ASSUME NEW i \in 1 .. n PROVE Leads(s[i], k, st[i - 1], st[i])
    <2>1. i \in 0 .. n /\ i - 1 \in 0 .. n
      BY <1>1
    <2>2. CASE i = m
      <3>1. st[i - 1] = a /\ st[i] = b
        BY <1>1, <1>2, <2>1, <2>2
      <3> QED BY <2>2, <3>1
    <2>3. CASE i # m
      <3>1. st[i - 1] = st[i] /\ st[i] \in KeyStates
        BY <1>1, <1>2, <2>1, <2>3
      <3> QED BY <2>3, <3>1
    <2> QED BY <2>2, <2>3
  <1>5. Leads(FlattenSeq(s), k, st[0], st[n])
    BY <1>2, <1>4, FlattenLeads
  <1> QED BY <1>3, <1>5

(* The place of a key in the matrix. *)
LEMMA MatrixPlaces ==
  /\ Len(Matrix) \in Nat /\ DOMAIN Matrix = 1 .. Len(Matrix)
  /\ \A i \in 1 .. Len(Matrix) : Matrix[i] \in Keys
  /\ \A k \in Keys : \E m \in 1 .. Len(Matrix) :
       Matrix[m] = k /\ \A i \in 1 .. Len(Matrix) : i # m => Matrix[i] # k
  <1>1. /\ Matrix \in Seq(Keys) /\ Len(Matrix) \in Nat /\ DOMAIN Matrix = 1 .. Len(Matrix)
        /\ \A i, j \in DOMAIN Matrix : Matrix[i] = Matrix[j] => i = j
    BY KeypadAssumption, LenProperties DEF IsInjective
  <1>2. \A i \in 1 .. Len(Matrix) : Matrix[i] \in Keys
    BY <1>1, ElementOfSeq
  <1>3. \A k \in Keys : \E m \in DOMAIN Matrix : Matrix[m] = k
    BY DEF Keys, Range
  <1> QED BY <1>1, <1>2, <1>3

(* The events of a whole pass bring each key from what it was to what it   *)
(* is.                                                                     *)
LEMMA EventsLead ==
  ASSUME Timers, NEW raw \in [Keys -> BOOLEAN], NEW k \in Keys
  PROVE  /\ EventsOf(raw) \in Seq(HwEvents)
         /\ Leads(EventsOf(raw), k, KeyIs(k),
                  IF TurnsLong(k, raw[k]) THEN "long" ELSE MidState(k, raw[k]))
  <1> DEFINE n == Len(Matrix)
             S == Seq(HwEvents)
             r == [i \in 1 .. n |-> RowEvents(Matrix[i], raw[Matrix[i]])]
             l == [i \in 1 .. n |-> LongEvents(Matrix[i], raw[Matrix[i]])]
             a == KeyIs(k)
             b == MidState(k, raw[k])
             c == IF TurnsLong(k, raw[k]) THEN "long" ELSE MidState(k, raw[k])
  <1>1. /\ n \in Nat /\ \A i \in 1 .. n : Matrix[i] \in Keys /\ raw[Matrix[i]] \in BOOLEAN
        /\ raw[k] \in BOOLEAN
    BY MatrixPlaces
  <1>2. PICK m \in 1 .. n : Matrix[m] = k /\ \A i \in 1 .. n : i # m => Matrix[i] # k
    BY MatrixPlaces
  <1>3. /\ \A i \in 1 .. n : RowEvents(Matrix[i], raw[Matrix[i]]) \in S
        /\ \A i \in 1 .. n : LongEvents(Matrix[i], raw[Matrix[i]]) \in S
    BY <1>1, RowEventsLead, LongEventsLead
  <1>4. EventsOf(raw) = FlattenSeq(r) \o FlattenSeq(l)
    BY MatrixPlaces DEF EventsOf
  <1>5. a \in KeyStates /\ b \in KeyStates /\ c \in KeyStates
    BY <1>1, RowEventsLead DEF KeyStates
  <1>6. /\ Leads(r[m], k, a, b)
        /\ \A i \in 1 .. n : i # m => \A x \in KeyStates : Leads(r[i], k, x, x)
    BY <1>1, <1>2, RowEventsLead
  <1>7. /\ Leads(l[m], k, b, c)
        /\ \A i \in 1 .. n : i # m => \A x \in KeyStates : Leads(l[i], k, x, x)
    BY <1>1, <1>2, LongEventsLead
  <1> HIDE DEF S, n, a, b, c
  <1>8. r \in Seq(S) /\ Len(r) = n /\ l \in Seq(S) /\ Len(l) = n
    BY <1>1, <1>3
  <1> HIDE DEF r, l
  <1>9. Leads(FlattenSeq(r), k, a, b) /\ Leads(FlattenSeq(l), k, b, c)
    <2>1. r \in Seq(Seq(HwEvents)) /\ l \in Seq(Seq(HwEvents)) /\ m \in 1 .. Len(r) /\ m \in 1 .. Len(l)
      BY <1>2, <1>8 DEF S
    <2> QED BY <1>5, <1>6, <1>7, <1>8, <2>1, PassLeads
  <1>10. FlattenSeq(r) \in Seq(HwEvents) /\ FlattenSeq(l) \in Seq(HwEvents)
    BY <1>8, FlattenType DEF S
  <1> DEFINE x == FlattenSeq(r)
             y == FlattenSeq(l)
  <1>11. x \in Seq(HwEvents) /\ y \in Seq(HwEvents) /\ Leads(x, k, a, b) /\ Leads(y, k, b, c)
    BY <1>9, <1>10
  <1> HIDE DEF x, y
  <1>12. x \o y \in Seq(HwEvents) /\ Leads(x \o y, k, a, c)
    BY <1>11, ConcatProperties, LeadsOn
  <1> QED BY <1>4, <1>12 DEF x, y, a, c

-----------------------------------------------------------------------------
(* The two tasks in their pushes. *)
Pushing ==
  /\ todo \in Seq(HwEvents)
  /\ pc \in [Producers -> {"idle", "mark", "test", "send"}]
  /\ pc["scan"] # "test" /\ pc["inject"] # "mark"
  /\ pc["scan"] = "idle" <=> todo = <<>>
  /\ injected \in Events /\ injected.source = "inject"

(* What the two queues and their reader hold.                              *)
Queues ==
  /\ queue \in Seq(Events) /\ Len(queue) <= QueueDepth /\ viewed \in 0 .. ViewDepth
  /\ heard \in [Keys -> KeyStates \cup {"lost"}] /\ hwPressed \in SUBSET Keys

(* The events that are not in the bitmap yet.                              *)
Marks == IF pc["scan"] = "send" THEN Tail(todo) ELSE todo

(* They bring each key from what the bitmap says of it to what it is.      *)
MarksAgree ==
  \A k \in Keys : \E a \in KeyStates :
    (k \in hwPressed <=> a # "up") /\ Leads(Marks, k, a, KeyIs(k))

(* Unless one of its events has been dropped, the queue and what is still  *)
(* to be pushed bring each key from what ime_task has seen to what it is.  *)
HeardAgrees ==
  \A k \in Keys : heard[k] # "lost" =>
    \E b \in KeyStates : Leads(queue, k, heard[k], b) /\ Leads(todo, k, b, KeyIs(k))

(* A pass keeps the timers: a slot key is pressed if and only if its timer *)
(* runs or has run out.                                                    *)
LEMMA TimersStep == Timers /\ Scan => Timers'
  <1> SUFFICES ASSUME Timers, Scan PROVE Timers'
    OBVIOUS
  <1>1. PICK raw \in [Keys -> BOOLEAN] :
          /\ stable' = [k \in Keys |-> IF Commits(k, raw[k]) THEN raw[k] ELSE stable[k]]
          /\ lp' = [k \in Keys |-> IF TurnsLong(k, raw[k]) THEN "long" ELSE LpAfterRow(k, raw[k])]
          /\ held' = [k \in Keys |-> IF lp'[k] = "pending" THEN TimerOf(k, raw[k]) ELSE 0]
    BY DEF Scan
  <1>2. ASSUME NEW k \in Keys
        PROVE  /\ stable'[k] \in BOOLEAN /\ lp'[k] \in {"idle", "pending", "long"}
               /\ held'[k] \in 0 .. LongTicks - 1
               /\ IF k \in SlotKeys THEN lp'[k] = "idle" <=> ~stable'[k] ELSE lp'[k] = "idle"
    <2> DEFINE bit == raw[k]
    <2>1. /\ bit \in BOOLEAN /\ stable[k] \in BOOLEAN /\ lp[k] \in {"idle", "pending", "long"}
          /\ held[k] \in 0 .. LongTicks - 1 /\ LongTicks \in Nat \ {0}
          /\ IF k \in SlotKeys THEN lp[k] = "idle" <=> ~stable[k] ELSE lp[k] = "idle"
      BY KeypadAssumption DEF Timers
    <2>2. /\ stable'[k] = IF Commits(k, bit) THEN bit ELSE stable[k]
          /\ lp'[k] = IF TurnsLong(k, bit) THEN "long" ELSE LpAfterRow(k, bit)
          /\ held'[k] = IF lp'[k] = "pending" THEN TimerOf(k, bit) ELSE 0
      BY <1>1
    <2>3. LpAfterRow(k, bit) = IF Commits(k, bit) /\ k \in SlotKeys
                               THEN IF bit THEN "pending" ELSE "idle" ELSE lp[k]
      BY DEF LpAfterRow
    <2>4. TurnsLong(k, bit) => k \in SlotKeys /\ ~Commits(k, bit) /\ lp[k] = "pending"
      BY <2>1, LongEventsLead
    <2>5. lp'[k] = "pending" => ~(TimerOf(k, bit) >= LongTicks)
      BY <2>2 DEF TurnsLong
    <2>6. TimerOf(k, bit) \in Nat
      BY <2>1 DEF TimerOf
    <2>7. Commits(k, bit) => bit # stable[k]
      BY DEF Commits
    <2> HIDE DEF bit
    <2>8. held'[k] \in 0 .. LongTicks - 1
      BY <2>1, <2>2, <2>5, <2>6
    <2>9. stable'[k] \in BOOLEAN /\ lp'[k] \in {"idle", "pending", "long"}
      BY <2>1, <2>2, <2>3
    <2>10. IF k \in SlotKeys THEN lp'[k] = "idle" <=> ~stable'[k] ELSE lp'[k] = "idle"
      <3>1. CASE TurnsLong(k, bit)
        BY <2>1, <2>2, <2>4, <3>1
      <3>2. CASE ~TurnsLong(k, bit)
        BY <2>1, <2>2, <2>3, <2>7, <3>2
      <3> QED BY <3>1, <3>2
    <2> QED BY <2>8, <2>9, <2>10
  <1>3. stable' \in [Keys -> BOOLEAN] /\ lp' \in [Keys -> {"idle", "pending", "long"}]
        /\ held' \in [Keys -> 0 .. LongTicks - 1]
    BY <1>1, <1>2
  <1> QED BY <1>2, <1>3 DEF Timers

(* A pass leaves the events that make its new state known. *)
LEMMA ScanLeads ==
  ASSUME Timers, Scan, NEW k \in Keys
  PROVE  todo' \in Seq(HwEvents) /\ Leads(todo', k, KeyIs(k), KeyIs(k)')
  <1>1. PICK raw \in [Keys -> BOOLEAN] :
          /\ stable' = [q \in Keys |-> IF Commits(q, raw[q]) THEN raw[q] ELSE stable[q]]
          /\ lp' = [q \in Keys |-> IF TurnsLong(q, raw[q]) THEN "long" ELSE LpAfterRow(q, raw[q])]
          /\ todo' = EventsOf(raw)
    BY DEF Scan
  <1>2. raw[k] \in BOOLEAN
    OBVIOUS
  <1>3. TurnsLong(k, raw[k]) => k \in SlotKeys /\ ~Commits(k, raw[k]) /\ lp[k] = "pending"
    BY <1>2, LongEventsLead
  <1>4. Commits(k, raw[k]) => raw[k] # stable[k]
    BY DEF Commits
  <1>5. KeyIs(k)' = IF TurnsLong(k, raw[k]) THEN "long" ELSE MidState(k, raw[k])
    <2>1. /\ stable'[k] = IF Commits(k, raw[k]) THEN raw[k] ELSE stable[k]
          /\ lp'[k] = IF TurnsLong(k, raw[k]) THEN "long" ELSE LpAfterRow(k, raw[k])
          /\ KeyIs(k)' = IF k \in SlotKeys THEN IF lp'[k] = "long" THEN "long" ELSE "up"
                         ELSE IF stable'[k] THEN "tap" ELSE "up"
      BY <1>1 DEF KeyIs
    <2>2. CASE TurnsLong(k, raw[k])
      BY <1>3, <2>1, <2>2
    <2>3. CASE ~TurnsLong(k, raw[k])
      BY <2>1, <2>3 DEF MidState, KeyIs, LpAfterRow
    <2> QED BY <2>2, <2>3
  <1> QED BY <1>1, <1>5, EventsLead

(* The fields of an event.                                                 *)
LEMMA EventSets ==
  /\ HwEvents \subseteq Events
  /\ \A e \in HwEvents : /\ e.key \in Keys /\ e.pressed \in BOOLEAN /\ e.long \in BOOLEAN
                         /\ StateOf(e) \in KeyStates
                         /\ \A k : Concerns(e, k) <=> e.key = k
  /\ \A e \in Events : e.source = "inject" => \A k : ~Concerns(e, k)
  /\ \A e \in Events : /\ e.key \in Keys /\ e.pressed \in BOOLEAN /\ e.long \in BOOLEAN
                       /\ e.source \in {"hw", "inject"} /\ StateOf(e) \in KeyStates
  BY DEF HwEvents, Events, Concerns, StateOf, KeyStates

(* The next event of the scan task, and those that follow it. *)
LEMMA NextEvent ==
  ASSUME Pushing, pc["scan"] # "idle"
  PROVE  /\ todo # <<>> /\ Head(todo) \in HwEvents /\ Head(todo) \in Events
         /\ Tail(todo) \in Seq(HwEvents)
  <1>1. todo \in Seq(HwEvents) /\ todo # <<>>
    BY DEF Pushing
  <1> QED BY <1>1, HeadTailProperties, EventSets

(* Every step keeps the places of the two tasks in their pushes.           *)
LEMMA PushingStep == Timers /\ Pushing /\ [Next]_vars => Pushing'
  <1> SUFFICES ASSUME Timers, Pushing, [Next]_vars PROVE Pushing'
    OBVIOUS
  <1> DEFINE P == {"idle", "mark", "test", "send"}
  <1>p. pc \in [Producers -> P] /\ "scan" \in Producers /\ "inject" \in Producers
    BY DEF Pushing, Producers
  <1>1. CASE Scan
    <2>1. todo' \in Seq(HwEvents)
      <3>1. Matrix[1] \in Keys
        BY MatrixPlaces, KeypadAssumption, EmptySeq
      <3> QED BY <1>1, <3>1, ScanLeads
    <2>2. pc' = [pc EXCEPT !["scan"] = IF todo' = <<>> THEN "idle" ELSE "mark"]
          /\ UNCHANGED injected
      BY <1>1 DEF Scan
    <2> QED BY <1>p, <2>1, <2>2 DEF Pushing
  <1>2. CASE MarkHw
    <2>1. /\ pc["scan"] = "mark" /\ pc' = [pc EXCEPT !["scan"] = "send"]
          /\ UNCHANGED <<todo, injected>>
      BY <1>2 DEF MarkHw
    <2> QED BY <1>p, <2>1 DEF Pushing
  <1>3. CASE Send("scan")
    <2>1. /\ pc["scan"] = "send" /\ todo' = Tail(todo) /\ UNCHANGED injected
          /\ pc' = [pc EXCEPT !["scan"] = IF todo' # <<>> THEN "mark" ELSE "idle"]
      BY <1>3 DEF Send, Returns
    <2>2. todo' \in Seq(HwEvents)
      BY <2>1, NextEvent
    <2> QED BY <1>p, <2>1, <2>2 DEF Pushing
  <1>4. CASE Send("inject")
    <2>1. todo' = todo /\ UNCHANGED injected /\ pc' = [pc EXCEPT !["inject"] = "idle"]
      BY <1>4 DEF Send, Returns
    <2> QED BY <1>p, <2>1 DEF Pushing
  <1>5. ASSUME NEW k \in InjectKeys, NEW pressed \in BOOLEAN, InjectBegins(k, pressed)
        PROVE  Pushing'
    <2>1. /\ injected' = Event(k, pressed, FALSE, "inject") /\ UNCHANGED todo
          /\ pc' = [pc EXCEPT !["inject"] = "test"]
      BY <1>5 DEF InjectBegins
    <2>2. injected' \in Events /\ injected'.source = "inject"
      BY <2>1, KeypadAssumption DEF Event, Events
    <2> QED BY <1>p, <2>1, <2>2 DEF Pushing
  <1>6. CASE InjectTest
    <2>1. /\ UNCHANGED <<todo, injected>>
          /\ \E x \in {"idle", "send"} : pc' = [pc EXCEPT !["inject"] = x]
      BY <1>6 DEF InjectTest
    <2> QED BY <1>p, <2>1 DEF Pushing
  <1>7. CASE ImePops \/ ViewPops \/ UNCHANGED vars
    <2>1. UNCHANGED <<todo, pc, injected>>
      BY <1>7 DEF ImePops, ViewPops, vars
    <2> QED BY <2>1 DEF Pushing
  <1> QED BY <1>1, <1>2, <1>3, <1>4, <1>5, <1>6, <1>7 DEF Next, ScanTask, InjectContinues

(* Every step keeps the queues within their depths.                        *)
LEMMA QueuesStep == Pushing /\ Queues /\ [Next]_vars => Queues'
  <1> SUFFICES ASSUME Pushing, Queues, [Next]_vars PROVE Queues'
    OBVIOUS
  <1> DEFINE H == KeyStates \cup {"lost"}
  <1>q. /\ queue \in Seq(Events) /\ Len(queue) \in Nat /\ Len(queue) <= QueueDepth
        /\ viewed \in 0 .. ViewDepth /\ heard \in [Keys -> H] /\ hwPressed \in SUBSET Keys
        /\ QueueDepth \in Nat /\ ViewDepth \in Nat /\ "lost" \in H /\ KeyStates \subseteq H
    BY LenProperties, KeypadAssumption DEF Queues
  <1> HIDE DEF H
  <1>1. CASE MarkHw
    <2>1. /\ pc["scan"] # "idle" /\ UNCHANGED <<queue, viewed, heard>>
          /\ \/ hwPressed' = hwPressed \cup {Head(todo).key} \/ hwPressed' = hwPressed \ {Head(todo).key}
      BY <1>1 DEF MarkHw
    <2>2. Head(todo).key \in Keys
      BY <2>1, NextEvent, EventSets
    <2> QED BY <1>q, <2>1, <2>2 DEF Queues, H
  <1>2. ASSUME NEW p \in Producers, Send(p) PROVE Queues'
    <2>1. EventOf(p) \in Events /\ (p = "scan" => Head(todo).key \in Keys)
      <3>1. CASE p = "scan"
        <4>1. pc["scan"] # "idle"
          BY <1>2, <3>1 DEF Send
        <4> QED BY <3>1, <4>1, NextEvent, EventSets DEF EventOf
      <3>2. CASE p # "scan"
        BY <3>2 DEF EventOf, Pushing
      <3> QED BY <3>1, <3>2
    <2>2. CASE Len(queue) < QueueDepth
      <3>1. /\ queue' = Append(queue, EventOf(p)) /\ UNCHANGED <<heard, hwPressed>>
            /\ viewed' = IF viewed < ViewDepth THEN viewed + 1 ELSE viewed
        BY <1>2, <2>2 DEF Send
      <3>2. queue' \in Seq(Events) /\ Len(queue') = Len(queue) + 1
        BY <1>q, <2>1, <3>1, AppendProperties
      <3> QED BY <1>q, <2>2, <3>1, <3>2 DEF Queues, H
    <2>3. CASE ~(Len(queue) < QueueDepth)
      <3>1. /\ UNCHANGED <<queue, viewed, hwPressed>>
            /\ heard' = IF p = "scan" THEN [heard EXCEPT ![Head(todo).key] = "lost"] ELSE heard
        BY <1>2, <2>3 DEF Send
      <3>2. heard' \in [Keys -> H]
        BY <1>q, <2>1, <3>1
      <3> QED BY <1>q, <3>1, <3>2 DEF Queues, H
    <2> QED BY <2>2, <2>3
  <1>3. CASE ImePops
    <2> DEFINE e == Head(queue)
               x == IF ~e.pressed THEN "up" ELSE IF e.long THEN "long" ELSE "tap"
    <2>1. /\ queue # <<>> /\ queue' = Tail(queue) /\ UNCHANGED <<viewed, hwPressed>>
          /\ heard' = heard \/ heard' = [heard EXCEPT ![e.key] = x]
      BY <1>3 DEF ImePops
    <2>2. queue' \in Seq(Events) /\ Len(queue') = Len(queue) - 1 /\ e \in Events
      BY <1>q, <2>1, HeadTailProperties
    <2>3. e.key \in Keys /\ x \in H
      BY <1>q, <2>2, EventSets DEF StateOf
    <2> HIDE DEF e, x
    <2>4. heard' \in [Keys -> H]
      BY <1>q, <2>1, <2>3
    <2> QED BY <1>q, <2>1, <2>2, <2>4 DEF Queues, H
  <1>4. CASE ViewPops
    <2>1. viewed > 0 /\ viewed' = viewed - 1 /\ UNCHANGED <<queue, heard, hwPressed>>
      BY <1>4 DEF ViewPops
    <2> QED BY <1>q, <2>1 DEF Queues, H
  <1>5. CASE \/ Scan \/ InjectTest \/ UNCHANGED vars
             \/ \E k \in InjectKeys, pressed \in BOOLEAN : InjectBegins(k, pressed)
    <2>1. UNCHANGED <<queue, viewed, heard, hwPressed>>
      BY <1>5 DEF Scan, InjectTest, InjectBegins, vars
    <2> QED BY <2>1 DEF Queues
  <1> QED BY <1>1, <1>2, <1>3, <1>4, <1>5 DEF Next, ScanTask, InjectContinues, Producers

(* Every step keeps the bitmap right.                                      *)
LEMMA MarksAgreeStep == Timers /\ Pushing /\ MarksAgree /\ [Next]_vars => MarksAgree'
  <1> SUFFICES ASSUME Timers, Pushing, MarksAgree, [Next]_vars, NEW k \in Keys
               PROVE  \E a \in KeyStates :
                        (k \in hwPressed' <=> a # "up") /\ Leads(Marks', k, a, KeyIs(k)')
    BY DEF MarksAgree
  <1>p. pc \in [Producers -> {"idle", "mark", "test", "send"}] /\ "scan" \in Producers
        /\ "inject" \in Producers
    BY DEF Pushing, Producers
  <1>0. PICK a \in KeyStates : (k \in hwPressed <=> a # "up") /\ Leads(Marks, k, a, KeyIs(k))
    BY DEF MarksAgree
  <1>1. CASE Scan
    <2>1. /\ pc["scan"] = "idle" /\ UNCHANGED hwPressed
          /\ pc' = [pc EXCEPT !["scan"] = IF todo' = <<>> THEN "idle" ELSE "mark"]
      BY <1>1 DEF Scan
    <2>2. Marks = <<>> /\ Marks' = todo'
      BY <1>p, <2>1 DEF Marks, Pushing
    <2>3. a = KeyIs(k)
      BY <1>0, <2>2, LeadsNowhere
    <2>4. Leads(todo', k, KeyIs(k), KeyIs(k)')
      BY <1>1, ScanLeads
    <2> QED BY <1>0, <2>1, <2>2, <2>3, <2>4
  <1>2. CASE MarkHw
    <2> DEFINE e == Head(todo)
    <2>1. /\ pc["scan"] = "mark" /\ pc' = [pc EXCEPT !["scan"] = "send"]
          /\ hwPressed' = IF e.pressed THEN hwPressed \cup {e.key} ELSE hwPressed \ {e.key}
          /\ UNCHANGED <<todo, stable, lp>>
      BY <1>2 DEF MarkHw, matrixVars
    <2>2. todo # <<>> /\ e \in HwEvents /\ todo \in Seq(HwEvents)
      BY <2>1, NextEvent DEF Pushing
    <2>3. Marks = todo /\ Marks' = Tail(todo) /\ KeyIs(k)' = KeyIs(k)
      BY <1>p, <2>1 DEF Marks, KeyIs
    <2>4. PICK b \in KeyStates : Turns(e, k, a, b) /\ Leads(Tail(todo), k, b, KeyIs(k))
      BY <1>0, <2>2, <2>3, LeadsFirst
    <2>5. e.pressed \in BOOLEAN /\ (Concerns(e, k) <=> e.key = k)
      BY <2>2, EventSets
    <2> HIDE DEF e
    <2>6. k \in hwPressed' <=> b # "up"
      <3>1. CASE e.key = k
        <4>1. b = StateOf(e)
          BY <2>4, <2>5, <3>1 DEF Turns
        <4>2. b # "up" <=> e.pressed
          BY <2>5, <4>1 DEF StateOf
        <4> QED BY <2>1, <2>5, <3>1, <4>2
      <3>2. CASE e.key # k
        <4>1. b = a
          BY <2>4, <2>5, <3>2 DEF Turns
        <4> QED BY <1>0, <2>1, <3>2, <4>1
      <3> QED BY <3>1, <3>2
    <2> QED BY <2>3, <2>4, <2>6
  <1>3. CASE Send("scan")
    <2>1. /\ pc["scan"] = "send" /\ todo' = Tail(todo) /\ UNCHANGED <<hwPressed, stable, lp>>
          /\ pc' = [pc EXCEPT !["scan"] = IF todo' # <<>> THEN "mark" ELSE "idle"]
      BY <1>3 DEF Send, Returns, matrixVars
    <2>2. Marks' = Marks /\ KeyIs(k)' = KeyIs(k)
      BY <1>p, <2>1 DEF Marks, KeyIs
    <2> QED BY <1>0, <2>1, <2>2
  <1>4. CASE /\ UNCHANGED <<todo, stable, lp, hwPressed>> /\ pc'["scan"] = pc["scan"]
    <2>1. Marks' = Marks /\ KeyIs(k)' = KeyIs(k)
      BY <1>4 DEF Marks, KeyIs
    <2> QED BY <1>0, <1>4, <2>1
  <1>5. CASE \/ \E q \in InjectKeys, pressed \in BOOLEAN : InjectBegins(q, pressed)
             \/ InjectTest \/ Send("inject")
    BY <1>p, <1>4, <1>5 DEF InjectBegins, InjectTest, Send, Returns, matrixVars
  <1>6. CASE ImePops \/ ViewPops \/ UNCHANGED vars
    BY <1>4, <1>6 DEF ImePops, ViewPops, vars, matrixVars
  <1> QED BY <1>1, <1>2, <1>3, <1>5, <1>6 DEF Next, ScanTask, InjectContinues

(* What ime_task takes from the queue fits what it has seen before. *)
LEMMA PopFits ==
  ASSUME Queues, HeardAgrees, queue # <<>>, NEW k \in Keys, heard[k] # "lost"
  PROVE  LET e == Head(queue)
         IN  /\ Concerns(e, k) => Fits(heard[k], e)
             /\ \E b \in KeyStates :
                  /\ Leads(Tail(queue), k, IF Concerns(e, k) THEN StateOf(e) ELSE heard[k], b)
                  /\ Leads(todo, k, b, KeyIs(k))
  <1>1. PICK b \in KeyStates : Leads(queue, k, heard[k], b) /\ Leads(todo, k, b, KeyIs(k))
    BY DEF HeardAgrees
  <1>2. PICK c \in KeyStates : Turns(Head(queue), k, heard[k], c) /\ Leads(Tail(queue), k, c, b)
    BY <1>1, LeadsFirst DEF Queues
  <1> QED BY <1>1, <1>2 DEF Turns

(* Every step keeps the queue right: no event of a key overtakes another   *)
(* one.                                                                    *)
LEMMA HeardAgreesStep ==
  Timers /\ Pushing /\ Queues /\ HeardAgrees /\ [Next]_vars => HeardAgrees'
  <1> SUFFICES ASSUME Timers, Pushing, Queues, HeardAgrees, [Next]_vars, NEW k \in Keys,
                      heard'[k] # "lost"
               PROVE  \E b \in KeyStates :
                        Leads(queue', k, heard'[k], b) /\ Leads(todo', k, b, KeyIs(k)')
    BY DEF HeardAgrees
  <1>q. queue \in Seq(Events) /\ heard \in [Keys -> KeyStates \cup {"lost"}]
    BY DEF Queues
  <1>1. CASE Scan
    <2>1. pc["scan"] = "idle" /\ UNCHANGED <<queue, heard>>
      BY <1>1 DEF Scan
    <2>2. todo = <<>>
      BY <2>1 DEF Pushing
    <2>3. PICK b \in KeyStates : Leads(queue, k, heard[k], b) /\ Leads(todo, k, b, KeyIs(k))
      BY <2>1 DEF HeardAgrees
    <2>4. b = KeyIs(k)
      BY <2>2, <2>3, LeadsNowhere
    <2>5. Leads(todo', k, KeyIs(k), KeyIs(k)')
      BY <1>1, ScanLeads
    <2> QED BY <2>1, <2>3, <2>4, <2>5
  <1>2. CASE Send("scan")
    <2> DEFINE e == Head(todo)
    <2>1. /\ pc["scan"] = "send" /\ todo' = Tail(todo) /\ UNCHANGED <<stable, lp>>
      BY <1>2 DEF Send, Returns, matrixVars
    <2>2. /\ todo # <<>> /\ e \in HwEvents /\ e \in Events /\ todo \in Seq(HwEvents)
          /\ e.key \in Keys /\ (Concerns(e, k) <=> e.key = k)
      BY <2>1, NextEvent, EventSets DEF Pushing
    <2>3. KeyIs(k)' = KeyIs(k)
      BY <2>1 DEF KeyIs
    <2>4. heard[k] # "lost"
      BY <1>2, <1>q, <2>2 DEF Send
    <2>5. PICK b \in KeyStates : Leads(queue, k, heard[k], b) /\ Leads(todo, k, b, KeyIs(k))
      BY <2>4 DEF HeardAgrees
    <2>6. PICK c \in KeyStates : Turns(e, k, b, c) /\ Leads(Tail(todo), k, c, KeyIs(k))
      BY <2>2, <2>5, LeadsFirst
    <2> HIDE DEF e
    <2>7. CASE Len(queue) < QueueDepth
      <3>1. queue' = Append(queue, e) /\ heard' = heard
        BY <1>2, <2>7 DEF Send, EventOf, e
      <3>2. Leads(queue', k, heard[k], c)
        BY <1>q, <2>2, <2>5, <2>6, <3>1, LeadsAppend
      <3> QED BY <2>1, <2>3, <2>6, <3>1, <3>2
    <2>8. CASE ~(Len(queue) < QueueDepth)
      <3>1. queue' = queue /\ heard' = [heard EXCEPT ![e.key] = "lost"]
        BY <1>2, <2>8 DEF Send, e
      <3>2. e.key # k /\ heard'[k] = heard[k]
        BY <1>q, <2>2, <3>1
      <3>3. c = b
        BY <2>2, <2>6, <3>2 DEF Turns
      <3> QED BY <2>1, <2>3, <2>5, <2>6, <3>1, <3>2, <3>3
    <2> QED BY <2>7, <2>8
  <1>3. CASE Send("inject")
    <2>1. /\ todo' = todo /\ heard' = heard /\ UNCHANGED <<stable, lp>>
          /\ queue' = queue \/ queue' = Append(queue, injected)
          /\ injected \in Events /\ ~Concerns(injected, k)
      BY <1>3, EventSets DEF Send, Returns, EventOf, matrixVars, Pushing
    <2>2. KeyIs(k)' = KeyIs(k)
      BY <2>1 DEF KeyIs
    <2>3. PICK b \in KeyStates : Leads(queue, k, heard[k], b) /\ Leads(todo, k, b, KeyIs(k))
      BY <2>1 DEF HeardAgrees
    <2>4. Turns(injected, k, b, b)
      BY <2>1 DEF Turns
    <2>5. Leads(queue', k, heard[k], b)
      BY <1>q, <2>1, <2>3, <2>4, LeadsAppend
    <2> QED BY <2>1, <2>2, <2>3, <2>5
  <1>4. CASE ImePops
    <2> DEFINE e == Head(queue)
    <2>1. /\ queue # <<>> /\ queue' = Tail(queue) /\ UNCHANGED <<todo, stable, lp>>
          /\ heard' = IF e.source = "inject" \/ heard[e.key] = "lost" THEN heard
                      ELSE [heard EXCEPT ![e.key] = StateOf(e)]
      BY <1>4 DEF ImePops, matrixVars, StateOf
    <2>2. KeyIs(k)' = KeyIs(k)
      BY <2>1 DEF KeyIs
    <2>3. e \in Events /\ e.key \in Keys /\ e.source \in {"hw", "inject"}
      BY <1>q, <2>1, HeadTailProperties, EventSets
    <2>4. heard[k] # "lost"
      BY <1>q, <2>1, <2>3
    <2>5. heard'[k] = IF Concerns(e, k) THEN StateOf(e) ELSE heard[k]
      BY <1>q, <2>1, <2>3, <2>4 DEF Concerns
    <2>6. \E b \in KeyStates : Leads(Tail(queue), k, heard'[k], b) /\ Leads(todo, k, b, KeyIs(k))
      BY <2>1, <2>4, <2>5, PopFits
    <2> QED BY <2>1, <2>2, <2>6
  <1>5. CASE UNCHANGED <<queue, todo, heard, stable, lp>>
    <2>1. KeyIs(k)' = KeyIs(k)
      BY <1>5 DEF KeyIs
    <2> QED BY <1>5, <2>1 DEF HeardAgrees
  <1>6. CASE \/ \E q \in InjectKeys, pressed \in BOOLEAN : InjectBegins(q, pressed)
             \/ InjectTest \/ MarkHw \/ ViewPops \/ UNCHANGED vars
    BY <1>5, <1>6 DEF InjectBegins, InjectTest, MarkHw, ViewPops, vars, matrixVars
  <1> QED BY <1>1, <1>2, <1>3, <1>4, <1>6 DEF Next, ScanTask, InjectContinues

(* Only a pass changes the timers.                                         *)
LEMMA TimersNext == Timers /\ [Next]_vars => Timers'
  <1> SUFFICES ASSUME Timers, [Next]_vars PROVE Timers'
    OBVIOUS
  <1>1. CASE UNCHANGED matrixVars
    BY <1>1 DEF matrixVars, Timers
  <1>2. Scan \/ UNCHANGED matrixVars
    BY DEF Next, ScanTask, InjectContinues, MarkHw, Send, InjectBegins, InjectTest,
           ImePops, ViewPops, vars, matrixVars
  <1> QED BY <1>1, <1>2, TimersStep

(* All that the tasks of the keypad rely on. *)
KeypadIInv == DebounceInv /\ Timers /\ Pushing /\ Queues /\ MarksAgree /\ HeardAgrees

(* At boot no key is pressed and no event is on its way.                   *)
LEMMA KeypadIInvInit == Init => KeypadIInv
  <1> SUFFICES ASSUME Init PROVE KeypadIInv
    OBVIOUS
  <1>1. /\ {Threshold, LongTicks, QueueDepth, ViewDepth} \subseteq Nat \ {0}
        /\ <<>> \in Seq(HwEvents) /\ <<>> \in Seq(Events) /\ Len(<<>>) = 0
    BY KeypadAssumption, EmptySeq
  <1>2. Timers
    BY <1>1 DEF Init, Timers
  <1>3. Pushing
    <2>1. Matrix[1] \in Keys
      BY MatrixPlaces, KeypadAssumption, EmptySeq
    <2>2. injected \in Events /\ injected.source = "inject"
      BY <2>1 DEF Init, Event, Events
    <2> QED BY <1>1, <2>2 DEF Init, Pushing, Producers
  <1>4. Queues
    BY <1>1 DEF Init, Queues, KeyStates
  <1>5. todo = <<>> /\ queue = <<>> /\ hwPressed = {} /\ pc["scan"] # "send"
    BY DEF Init, Producers
  <1>6. \A k \in Keys : /\ KeyIs(k) = "up" /\ heard[k] = "up" /\ "up" \in KeyStates
                        /\ Leads(<<>>, k, "up", "up")
    BY LeadsNowhere DEF Init, KeyIs, KeyStates
  <1>7. MarksAgree
    BY <1>5, <1>6 DEF MarksAgree, Marks
  <1>8. HeardAgrees
    BY <1>5, <1>6 DEF HeardAgrees
  <1> QED BY <1>2, <1>3, <1>4, <1>7, <1>8, DebounceInit DEF KeypadIInv

(* Every step keeps all parts.                                             *)
LEMMA KeypadIInvStep == KeypadIInv /\ [Next]_vars => KeypadIInv'
  BY DebounceStep, TimersNext, PushingStep, QueuesStep, MarksAgreeStep, HeardAgreesStep
     DEF KeypadIInv

(* The parts imply the invariant that is checked.                          *)
LEMMA KeypadInvFollows == KeypadIInv => KeypadInv
  <1> SUFFICES ASSUME KeypadIInv PROVE KeypadInv
    OBVIOUS
  <1>1. TypeOK
    <2>1. /\ stable \in [Keys -> BOOLEAN] /\ pending \in [Keys -> BOOLEAN]
          /\ count \in [Keys -> 0 .. Threshold - 1] /\ readings \in [Keys -> Seq(BOOLEAN)]
      BY DEF KeypadIInv, DebounceInv
    <2>2. lp \in [Keys -> {"idle", "pending", "long"}] /\ held \in [Keys -> 0 .. LongTicks - 1]
      BY DEF KeypadIInv, Timers
    <2>3. todo \in Seq(Events)
      BY EventSets, SeqMonotonic DEF KeypadIInv, Pushing
    <2>4. /\ injected \in Events /\ pc["scan"] \in {"idle", "mark", "send"}
          /\ pc["inject"] \in {"idle", "test", "send"}
      BY DEF KeypadIInv, Pushing, Producers
    <2>5. /\ hwPressed \in SUBSET Keys /\ queue \in Seq(Events) /\ Len(queue) <= QueueDepth
          /\ viewed \in 0 .. ViewDepth /\ heard \in [Keys -> {"up", "tap", "long", "lost"}]
      <3>1. KeyStates \cup {"lost"} = {"up", "tap", "long", "lost"}
        BY DEF KeyStates
      <3> QED BY <3>1 DEF KeypadIInv, Queues
    <2> QED BY <2>1, <2>2, <2>3, <2>4, <2>5 DEF TypeOK
  <1>2. BusyWhilePressed
    <2> SUFFICES ASSUME pc["scan"] = "idle"
                 PROVE  hwPressed = {k \in Keys : IF k \in SlotKeys THEN lp[k] = "long"
                                                   ELSE stable[k]}
      BY DEF BusyWhilePressed
    <2>1. Marks = <<>> /\ hwPressed \in SUBSET Keys
      BY DEF KeypadIInv, Pushing, Marks, Queues
    <2>2. \A k \in Keys : k \in hwPressed <=> KeyIs(k) # "up"
      BY <2>1, LeadsNowhere DEF KeypadIInv, MarksAgree
    <2>3. \A k \in Keys : KeyIs(k) # "up" <=> IF k \in SlotKeys THEN lp[k] = "long" ELSE stable[k]
      BY DEF KeyIs, KeypadIInv, Timers
    <2> QED BY <2>1, <2>2, <2>3
  <1> QED BY <1>1, <1>2 DEF KeypadInv

(* keypad_scan.c and key_event.c: whatever bounces, whatever is injected   *)
(* and however full the queue is, the bitmap holds the keys that are       *)
(* pressed whenever the scan task is between two passes.                   *)
THEOREM BitmapIsTrue == Spec => []KeypadInv
  BY KeypadIInvInit, KeypadIInvStep, KeypadInvFollows, PTL DEF Spec

(* key_event.c: "subsequent release fires release as normal", "with the    *)
(* same flag bit": ime_task gets the events of a key as presses and        *)
(* releases in turn, each release with the flag of its press.              *)
THEOREM PressesAndReleasesPair == Spec => HeardInPairs
  <1> DEFINE Paired ==
        \A k \in Keys :
          (queue # <<>> /\ ImePops) =>
            LET e == Head(queue)
            IN  (e.key = k /\ e.source = "hw" /\ heard[k] # "lost") =>
                  IF e.pressed THEN heard[k] = "up"
                  ELSE heard[k] = IF e.long THEN "long" ELSE "tap"
  <1>1. KeypadIInv => Paired
    BY PopFits DEF KeypadIInv, Concerns, Fits
  <1>2. KeypadIInv /\ [Next]_vars => [Paired]_vars
    BY <1>1
  <1> QED BY <1>2, KeypadIInvInit, KeypadIInvStep, PTL DEF Spec, HeardInPairs
===============================================================================
