---------------------------- MODULE SequenceFacts ----------------------------
(***************************************************************************)
(* Facts about numbers and sequences that the other proofs cite.  The      *)
(* induction theorems of the library take the property as an operator; the *)
(* one here takes it as a set of numbers, and what it is needed for is     *)
(* what FlattenSeq returns.                                                *)
(***************************************************************************)
EXTENDS Integers, SequencesExt, SequenceTheorems, WellFoundedInduction, TLAPS

(* A set of natural numbers has a least element.                           *)
LEMMA LeastNatural ==
  ASSUME NEW T \in SUBSET Nat, T # {}
  PROVE  \E n \in T : \A m \in T : n <= m
  <1> DEFINE R == OpToRel(<, Nat)
  <1>1. IsWellFoundedOn(R, Nat)
    BY NatLessThanWellFounded
  <1>2. \A m, n \in Nat : m < n => <<m, n>> \in R
    BY DEF OpToRel
  <1> HIDE DEF R
  <1>3. \E n \in T : \A m \in T : ~ (<<m, n>> \in R)
    BY <1>1, WFMin
  <1>4. PICK n \in T : \A m \in T : ~ (<<m, n>> \in R)
    BY <1>3
  <1>5. ASSUME NEW m \in T PROVE n <= m
    <2>1. m \in Nat /\ n \in Nat /\ ~ (<<m, n>> \in R)
      BY <1>4
    <2>2. ~ (m < n)
      BY <1>2, <2>1
    <2> QED BY <2>1, <2>2
  <1> QED BY <1>5

(* Induction, for a set of natural numbers.                                *)
LEMMA SetInduction ==
  ASSUME NEW T, 0 \in T, \A n \in Nat : n \in T => n + 1 \in T
  PROVE  Nat \subseteq T
  <1> SUFFICES ASSUME Nat \ T # {} PROVE FALSE
    OBVIOUS
  <1>1. PICK n \in Nat \ T : \A m \in Nat \ T : n <= m
    BY LeastNatural
  <1>2. n # 0 /\ n - 1 \in Nat /\ ~(n <= n - 1)
    BY <1>1
  <1>3. n - 1 \in T
    BY <1>1, <1>2
  <1>4. (n - 1) + 1 \in T
    BY <1>2, <1>3
  <1> QED BY <1>1, <1>4

(* FlattenSeq is defined by a recursive function, which stands for a       *)
(* function chosen to satisfy the equation.                                *)
Flattens(f, s) ==
  f = [i \in 1 .. Len(s) |-> IF i = 1 THEN s[i] ELSE f[i - 1] \o s[i]]

(* That function.                                                          *)
Flattening(s) == CHOOSE f : Flattens(f, s)

(* The first m pieces of s, one after another. *)
Joins(f, s, m) == \A i \in 1 .. m : f[i] = IF i = 1 THEN s[i] ELSE f[i - 1] \o s[i]

(* The first piece.                                                        *)
LEMMA JoinsFirst ==
  ASSUME NEW f, NEW s, NEW m \in Nat \ {0}, Joins(f, s, m)
  PROVE  f[1] = s[1]
  <1>1. 1 \in 1 .. m
    OBVIOUS
  <1> QED BY <1>1 DEF Joins

(* FlattenSeq is the last value of that function.                          *)
LEMMA FlattenIs ==
  ASSUME NEW s, Len(s) # 0
  PROVE  FlattenSeq(s) = Flattening(s)[Len(s)]
  BY DEF FlattenSeq, Flattening, Flattens

(* There is such a function, and its values are sequences.                 *)
LEMMA FlatteningExists ==
  ASSUME NEW S, NEW s \in Seq(Seq(S)), Len(s) # 0
  PROVE  /\ Flattening(s) \in [1 .. Len(s) -> Seq(S)]
         /\ Joins(Flattening(s), s, Len(s))
  <1> DEFINE n == Len(s)
             T == {m \in Nat : m <= n => \E f \in [1 .. m -> Seq(S)] : Joins(f, s, m)}
  <1>0. n \in Nat \ {0} /\ \A i \in 1 .. n : s[i] \in Seq(S)
    BY LenProperties, ElementOfSeq
  <1> HIDE DEF n
  <1>1. 0 \in T
    <2> DEFINE f == [i \in 1 .. 0 |-> <<>>]
    <2>1. f \in [1 .. 0 -> Seq(S)] /\ Joins(f, s, 0)
      BY DEF Joins
    <2> QED BY <2>1
  <1>2. ASSUME NEW m \in Nat, m \in T PROVE m + 1 \in T
    <2> SUFFICES ASSUME m + 1 <= n
                 PROVE  \E f \in [1 .. m + 1 -> Seq(S)] : Joins(f, s, m + 1)
      OBVIOUS
    <2>1. m + 1 \in 1 .. n /\ m <= n
      BY <1>0
    <2>2. PICK g \in [1 .. m -> Seq(S)] : Joins(g, s, m)
      BY <1>2, <2>1
    <2> HIDE DEF T
    <2> DEFINE last == IF m = 0 THEN s[m + 1] ELSE g[m] \o s[m + 1]
               f == [i \in 1 .. m + 1 |-> IF i = m + 1 THEN last ELSE g[i]]
    <2>3. last \in Seq(S)
      BY <1>0, <2>1, ConcatProperties
    <2>4. f \in [1 .. m + 1 -> Seq(S)]
      BY <2>3
    <2>a. m + 1 \in 1 .. m + 1 /\ \A i \in 1 .. m : i \in 1 .. m + 1 /\ i # m + 1
      OBVIOUS
    <2> HIDE DEF last
    <2>b. (\A i \in 1 .. m : f[i] = g[i]) /\ f[m + 1] = last
      BY <2>a
    <2>5. /\ \A i \in 1 .. m : f[i] = g[i]
          /\ f[m + 1] = IF m = 0 THEN s[m + 1] ELSE g[m] \o s[m + 1]
      BY <2>b DEF last
    <2> HIDE DEF f
    <2>6. ASSUME NEW i \in 1 .. m + 1 PROVE f[i] = IF i = 1 THEN s[i] ELSE f[i - 1] \o s[i]
      <3>1. CASE i = m + 1
        <4>1. CASE m = 0
          BY <2>5, <3>1, <4>1
        <4>2. CASE m # 0
          <5>1. m \in 1 .. m /\ i - 1 = m /\ i # 1
            BY <3>1, <4>2
          <5> QED BY <2>5, <3>1, <4>2, <5>1
        <4> QED BY <4>1, <4>2
      <3>2. CASE i # m + 1
        <4>1. i \in 1 .. m /\ (i # 1 => i - 1 \in 1 .. m)
          BY <3>2
        <4> QED BY <2>2, <2>5, <4>1 DEF Joins
      <3> QED BY <3>1, <3>2
    <2> QED BY <2>4, <2>6 DEF Joins
  <1> HIDE DEF T
  <1>3. n \in T
    BY <1>0, <1>1, <1>2, SetInduction
  <1>4. PICK f \in [1 .. n -> Seq(S)] : Joins(f, s, n)
    BY <1>0, <1>3 DEF T
  <1>5. Flattens(f, s)
    <2>1. f = [i \in 1 .. n |-> f[i]]
      OBVIOUS
    <2>2. f = [i \in 1 .. n |-> IF i = 1 THEN s[i] ELSE f[i - 1] \o s[i]]
      BY <1>4, <2>1 DEF Joins
    <2> QED BY <2>2 DEF Flattens, n
  <1>6. Flattens(Flattening(s), s)
    BY <1>5 DEF Flattening
  <1> DEFINE g == Flattening(s)
  <1>7. DOMAIN g = 1 .. n /\ Joins(g, s, n)
    BY <1>6 DEF Flattens, Joins, n
  <1> DEFINE U == {m \in Nat : m + 1 <= n => g[m + 1] \in Seq(S)}
  <1> HIDE DEF g
  <1>8. 0 \in U
    <2>1. g[1] = s[1]
      BY <1>0, <1>7, JoinsFirst
    <2>2. 1 \in 1 .. n
      BY <1>0
    <2> QED BY <1>0, <2>1, <2>2
  <1>9. ASSUME NEW m \in Nat, m \in U PROVE m + 1 \in U
    <2> SUFFICES ASSUME (m + 1) + 1 <= n PROVE g[(m + 1) + 1] \in Seq(S)
      OBVIOUS
    <2> DEFINE k == m + 1
               j == k + 1
    <2>1. n \in Nat /\ k \in 1 .. n /\ j \in 1 .. n /\ j # 1 /\ j - 1 = k /\ k <= n
      BY <1>0
    <2>2. g[k] \in Seq(S)
      BY <1>9, <2>1
    <2> HIDE DEF U, k, j
    <2>3. g[j] = g[k] \o s[j]
      BY <1>7, <2>1 DEF Joins
    <2>4. s[j] \in Seq(S)
      BY <1>0, <2>1
    <2>5. g[j] \in Seq(S)
      BY <2>2, <2>3, <2>4, ConcatProperties
    <2> QED BY <2>5 DEF j, k
  <1> HIDE DEF U
  <1>10. ASSUME NEW i \in 1 .. n PROVE g[i] \in Seq(S)
    <2>1. i - 1 \in Nat /\ (i - 1) + 1 = i /\ i <= n
      BY <1>0
    <2>2. i - 1 \in U
      BY <1>8, <1>9, <2>1, SetInduction
    <2> QED BY <2>1, <2>2 DEF U
  <1>11. g = [i \in 1 .. n |-> g[i]]
    BY <1>6, <1>7 DEF Flattens, g, n
  <1>12. g \in [1 .. n -> Seq(S)]
    BY <1>10, <1>11
  <1> QED BY <1>7, <1>12 DEF g, n

(* Equal pieces are joined to equal sequences.                             *)
LEMMA JoinsAgree ==
  ASSUME NEW f, NEW s, NEW g, NEW t, NEW m \in Nat,
         Joins(f, s, m), Joins(g, t, m), \A i \in 1 .. m : s[i] = t[i]
  PROVE  \A i \in 1 .. m : f[i] = g[i]
  <1> DEFINE U == {k \in Nat : k + 1 <= m => f[k + 1] = g[k + 1]}
  <1>1. 0 \in U
    <2> SUFFICES ASSUME 1 <= m PROVE f[1] = g[1]
      OBVIOUS
    <2>1. 1 \in 1 .. m /\ m \in Nat \ {0}
      OBVIOUS
    <2>2. f[1] = s[1] /\ g[1] = t[1]
      BY <2>1, JoinsFirst
    <2> QED BY <2>1, <2>2
  <1>2. ASSUME NEW k \in Nat, k \in U PROVE k + 1 \in U
    <2> SUFFICES ASSUME (k + 1) + 1 <= m PROVE f[(k + 1) + 1] = g[(k + 1) + 1]
      OBVIOUS
    <2> DEFINE h == k + 1
               j == h + 1
    <2>1. h \in 1 .. m /\ j \in 1 .. m /\ j # 1 /\ j - 1 = h /\ h <= m
      OBVIOUS
    <2>2. f[h] = g[h]
      BY <1>2, <2>1
    <2> HIDE DEF U, h, j
    <2>3. f[j] = f[h] \o s[j] /\ g[j] = g[h] \o t[j]
      BY <2>1 DEF Joins
    <2>4. f[j] = g[j]
      BY <2>1, <2>2, <2>3
    <2> QED BY <2>4 DEF h, j
  <1> HIDE DEF U
  <1>3. ASSUME NEW i \in 1 .. m PROVE f[i] = g[i]
    <2>1. i - 1 \in Nat /\ (i - 1) + 1 = i /\ i <= m
      OBVIOUS
    <2>2. i - 1 \in U
      BY <1>1, <1>2, <2>1, SetInduction
    <2> QED BY <2>1, <2>2 DEF U
  <1> QED BY <1>3

(* No pieces.                                                              *)
LEMMA FlattenEmpty == FlattenSeq(<<>>) = <<>>
  BY DEF FlattenSeq

(* Pieces over S are joined to a sequence over S.                          *)
LEMMA FlattenType ==
  ASSUME NEW S, NEW s \in Seq(Seq(S))
  PROVE  FlattenSeq(s) \in Seq(S)
  <1>0. Len(s) \in Nat
    BY LenProperties
  <1>1. CASE Len(s) = 0
    <2>1. s = <<>>
      BY <1>1, EmptySeq
    <2> QED BY <2>1, FlattenEmpty, EmptySeq
  <1>2. CASE Len(s) # 0
    <2>1. Len(s) \in 1 .. Len(s)
      BY <1>0, <1>2
    <2>2. Flattening(s)[Len(s)] \in Seq(S)
      BY <1>2, <2>1, FlatteningExists
    <2> QED BY <1>2, <2>2, FlattenIs
  <1> QED BY <1>1, <1>2

(* A piece more at the end. *)
LEMMA FlattenAppend ==
  ASSUME NEW S, NEW s \in Seq(Seq(S)), NEW x \in Seq(S)
  PROVE  FlattenSeq(Append(s, x)) = FlattenSeq(s) \o x
  <1> DEFINE t == Append(s, x)
             n == Len(s)
             f == Flattening(s)
             g == Flattening(t)
  <1>1. /\ n \in Nat /\ t \in Seq(Seq(S)) /\ Len(t) = n + 1
        /\ (\A i \in 1 .. n : t[i] = s[i]) /\ t[n + 1] = x
    BY LenProperties, AppendProperties
  <1> HIDE DEF t, n
  <1>2. Len(t) # 0
    BY <1>1
  <1>3. Joins(g, t, n + 1) /\ FlattenSeq(t) = g[n + 1]
    BY <1>1, <1>2, FlatteningExists, FlattenIs
  <1> HIDE DEF g
  <1>4. n + 1 \in 1 .. n + 1 /\ \A i \in 1 .. n : i \in 1 .. n + 1
    BY <1>1
  <1>5. g[n + 1] = IF n = 0 THEN x ELSE g[n] \o x
    <2>1. CASE n = 0
      <3>1. n + 1 = 1 /\ n + 1 \in Nat \ {0}
        BY <1>1, <2>1
      <3>2. g[1] = t[1]
        BY <1>3, <3>1, JoinsFirst
      <3> QED BY <1>1, <2>1, <3>1, <3>2
    <2>2. CASE n # 0
      <3> DEFINE j == n + 1
      <3>1. j \in 1 .. n + 1 /\ j # 1 /\ j - 1 = n
        BY <1>1, <2>2
      <3> HIDE DEF j
      <3>2. g[j] = g[n] \o t[j]
        BY <1>3, <3>1 DEF Joins
      <3> QED BY <1>1, <2>2, <3>2 DEF j
    <2> QED BY <2>1, <2>2
  <1>6. CASE n = 0
    <2>1. s = <<>>
      BY <1>6, EmptySeq DEF n
    <2> QED BY <1>3, <1>5, <1>6, <2>1, FlattenEmpty, ConcatEmptySeq DEF t
  <1>7. CASE n # 0
    <2>1. Joins(f, s, n) /\ FlattenSeq(s) = f[n]
      BY <1>7, FlatteningExists, FlattenIs DEF n
    <2> HIDE DEF f
    <2>2. Joins(g, t, n)
      BY <1>3, <1>4 DEF Joins
    <2>3. n \in 1 .. n
      BY <1>1, <1>7
    <2>4. \A i \in 1 .. n : g[i] = f[i]
      BY <1>1, <2>1, <2>2, JoinsAgree
    <2>5. g[n] = f[n]
      BY <2>3, <2>4
    <2> QED BY <1>3, <1>5, <1>7, <2>1, <2>5 DEF t
  <1> QED BY <1>6, <1>7

(* The first piece and the others. *)
LEMMA FlattenHeadTail ==
  ASSUME NEW S, NEW s \in Seq(Seq(S)), s # <<>>
  PROVE  FlattenSeq(s) = Head(s) \o FlattenSeq(Tail(s))
  <1> DEFINE t == Tail(s)
             n == Len(s)
             f == Flattening(s)
             g == Flattening(t)
             hd == Head(s)
  <1>1. /\ n \in Nat \ {0} /\ t \in Seq(Seq(S)) /\ Len(t) = n - 1
        /\ hd = s[1] /\ hd \in Seq(S)
        /\ (\A i \in 1 .. n - 1 : t[i] = s[i + 1])
    BY EmptySeq, HeadTailProperties
  <1>2. Joins(f, s, n) /\ FlattenSeq(s) = f[n] /\ f \in [1 .. n -> Seq(S)]
    BY <1>1, FlatteningExists, FlattenIs
  <1> HIDE DEF f, t, n, hd
  <1>3. 1 \in 1 .. n
    BY <1>1
  <1>4. f[1] = hd
    BY <1>1, <1>2, <1>3 DEF Joins
  <1>5. CASE n = 1
    <2>1. t = <<>>
      BY <1>1, <1>5, EmptySeq
    <2> QED BY <1>1, <1>2, <1>4, <1>5, <2>1, FlattenEmpty, ConcatEmptySeq DEF t, hd
  <1>6. CASE n # 1
    <2>1. n - 1 \in Nat \ {0} /\ Len(t) # 0
      BY <1>1, <1>6
    <2>2. Joins(g, t, n - 1) /\ FlattenSeq(t) = g[n - 1] /\ g \in [1 .. n - 1 -> Seq(S)]
      BY <1>1, <2>1, FlatteningExists, FlattenIs
    <2> HIDE DEF g
    <2> DEFINE V(i) == i <= n - 1 => f[i + 1] = hd \o g[i]
               U == {k \in Nat : V(k + 1)}
    <2>3. 0 \in U
      <3> DEFINE j == 2
      <3>1. /\ 1 \in 1 .. n - 1 /\ j \in 1 .. n /\ n - 1 \in Nat \ {0} /\ j # 1 /\ j - 1 = 1
            /\ n \in Nat
        BY <1>1, <2>1
      <3> HIDE DEF U, j
      <3>2. g[1] = t[1] /\ t[1] = s[j]
        BY <1>1, <2>2, <3>1, JoinsFirst
      <3>3. f[j] = f[1] \o s[j]
        BY <1>2, <1>3, <3>1 DEF Joins
      <3>4. V(1)
        <4>1. f[2] = hd \o g[1]
          BY <1>4, <3>2, <3>3 DEF j
        <4> QED BY <4>1
      <3>5. 0 + 1 = 1
        OBVIOUS
      <3> HIDE DEF V
      <3> QED BY <3>4, <3>5 DEF U
    <2>4. ASSUME NEW k \in Nat, k \in U PROVE k + 1 \in U
      <3> DEFINE j == k + 1
                 i == j + 1
                 h == i + 1
      <3>a. V(i) => k + 1 \in U
        <4> HIDE DEF V
        <4> QED OBVIOUS
      <3>0. SUFFICES ASSUME i <= n - 1 PROVE f[h] = hd \o g[i]
        BY <3>a
      <3>1. /\ j \in 1 .. n - 1 /\ i \in 1 .. n - 1 /\ j <= n - 1
            /\ i \in 1 .. n /\ h \in 1 .. n /\ n - 1 \in Nat /\ n \in Nat
            /\ i # 1 /\ i - 1 = j /\ h # 1 /\ h - 1 = i
        BY <1>1, <3>0
      <3>2. f[i] = hd \o g[j]
        BY <2>4, <3>1
      <3> HIDE DEF U, h, i, j
      <3>3. f[h] = f[i] \o s[h]
        BY <1>2, <3>1 DEF Joins
      <3>4. g[i] = g[j] \o t[i]
        BY <2>2, <3>1 DEF Joins
      <3>5. s[h] = t[i] /\ g[j] \in Seq(S)
        BY SMTT(30), <1>1, <2>2, <3>1
      <3>6. t[i] \in Seq(S)
        BY <1>1, <3>1, ElementOfSeq
      <3> DEFINE x == g[j]
                 y == t[i]
      <3>7. hd \in Seq(S) /\ x \in Seq(S) /\ y \in Seq(S)
        BY <1>1, <3>5, <3>6
      <3> HIDE DEF x, y
      <3>8. (hd \o x) \o y = hd \o (x \o y)
        BY SMTT(30), <3>7, ConcatAssociative
      <3> QED BY <3>2, <3>3, <3>4, <3>5, <3>8 DEF x, y
    <2> HIDE DEF U
    <2>5. n - 2 \in Nat /\ (n - 2) + 1 = n - 1 /\ (n - 1) + 1 = n /\ n - 1 <= n - 1
      BY <1>1, <2>1
    <2>6. n - 2 \in U
      BY <2>3, <2>4, <2>5, SetInduction
    <2>7. f[n] = hd \o g[n - 1]
      BY <2>5, <2>6 DEF U
    <2> QED BY <1>2, <2>2, <2>7 DEF t, hd
  <1> QED BY <1>5, <1>6

(* An element that moves from the head of b to the end of a.               *)
LEMMA MoveHead ==
  ASSUME NEW S, NEW a \in Seq(S), NEW b \in Seq(S), b # <<>>
  PROVE  Append(a, Head(b)) \o Tail(b) = a \o b
  <1> DEFINE h == Head(b)
             t == Tail(b)
             c == Append(a, h)
  <1>1. /\ h \in S /\ t \in Seq(S) /\ Len(t) = Len(b) - 1 /\ Len(b) \in Nat \ {0} /\ h = b[1]
        /\ \A i \in 1 .. Len(b) - 1 : t[i] = b[i + 1]
    BY EmptySeq, HeadTailProperties
  <1> HIDE DEF h, t
  <1>2. /\ c \in Seq(S) /\ Len(c) = Len(a) + 1 /\ Len(a) \in Nat
        /\ (\A i \in 1 .. Len(a) : c[i] = a[i]) /\ c[Len(a) + 1] = h
    BY <1>1, AppendProperties, LenProperties
  <1> HIDE DEF c
  <1>a. /\ c \o t \in Seq(S) /\ Len(c \o t) = Len(c) + Len(t)
        /\ \A i \in 1 .. Len(c) + Len(t) :
             (c \o t)[i] = IF i <= Len(c) THEN c[i] ELSE t[i - Len(c)]
    BY <1>1, <1>2, ConcatProperties
  <1>b. Len(c) + Len(t) = Len(a) + Len(b)
    BY <1>1, <1>2
  <1>3. /\ c \o t \in Seq(S) /\ Len(c \o t) = Len(a) + Len(b)
        /\ \A i \in 1 .. Len(a) + Len(b) :
             (c \o t)[i] = IF i <= Len(a) + 1 THEN c[i] ELSE t[i - (Len(a) + 1)]
    BY <1>2, <1>a, <1>b
  <1>4. /\ a \o b \in Seq(S) /\ Len(a \o b) = Len(a) + Len(b)
        /\ \A i \in 1 .. Len(a) + Len(b) :
             (a \o b)[i] = IF i <= Len(a) THEN a[i] ELSE b[i - Len(a)]
    BY ConcatProperties
  <1> DEFINE l == c \o t
             r == a \o b
  <1> HIDE DEF l, r
  <1>5. ASSUME NEW i \in 1 .. Len(a) + Len(b) PROVE l[i] = r[i]
    <2>1. CASE i <= Len(a)
      BY <1>1, <1>2, <1>3, <1>4, <2>1 DEF l, r
    <2>2. CASE i = Len(a) + 1
      <3>1. i - Len(a) = 1 /\ ~(i <= Len(a)) /\ i <= Len(a) + 1
        BY <1>1, <1>2, <2>2
      <3> QED BY <1>1, <1>2, <1>3, <1>4, <2>2, <3>1 DEF l, r
    <2>3. CASE i > Len(a) + 1
      <3> DEFINE j == i - (Len(a) + 1)
      <3>1. /\ j \in 1 .. Len(b) - 1 /\ j + 1 = i - Len(a)
            /\ ~(i <= Len(a)) /\ ~(i <= Len(a) + 1)
        BY <1>1, <1>2, <2>3
      <3>2. l[i] = t[j] /\ r[i] = b[j + 1]
        BY <1>3, <1>4, <3>1 DEF l, r
      <3> HIDE DEF j
      <3> QED BY <1>1, <3>1, <3>2
    <2> QED BY <1>1, <1>2, <2>1, <2>2, <2>3
  <1>6. l \in Seq(S) /\ r \in Seq(S) /\ Len(l) = Len(a) + Len(b) /\ Len(r) = Len(a) + Len(b)
    BY <1>3, <1>4 DEF l, r
  <1>7. l = r
    BY <1>5, <1>6, SeqEqual
  <1> QED BY <1>7 DEF l, r, c, h, t

(* Counting one further.                                                   *)
LEMMA CountAppend ==
  ASSUME NEW n \in Nat
  PROVE  [i \in 1 .. n + 1 |-> i] = Append([i \in 1 .. n |-> i], n + 1)
  <1> DEFINE u == [i \in 1 .. n |-> i]
             v == [i \in 1 .. n + 1 |-> i]
             w == Append(u, n + 1)
  <1>1. u \in Seq(Nat) /\ Len(u) = n /\ \A i \in 1 .. n : u[i] = i
    OBVIOUS
  <1>2. v \in Seq(Nat) /\ Len(v) = n + 1 /\ \A i \in 1 .. n + 1 : v[i] = i
    OBVIOUS
  <1> HIDE DEF u, v
  <1>3. /\ w \in Seq(Nat) /\ Len(w) = n + 1 /\ w[n + 1] = n + 1
        /\ \A i \in 1 .. n : w[i] = i
    BY <1>1, AppendProperties
  <1> HIDE DEF w
  <1>4. ASSUME NEW i \in 1 .. n + 1 PROVE w[i] = v[i]
    <2>1. i \in 1 .. n \/ i = n + 1
      OBVIOUS
    <2> QED BY <1>2, <1>3, <2>1
  <1>5. w = v
    BY <1>2, <1>3, <1>4, SeqEqual
  <1> QED BY <1>5 DEF u, v, w

(* Sequences of one and two elements.                                      *)
LEMMA PairIs ==
  ASSUME NEW S, NEW a \in S, NEW b \in S
  PROVE  /\ <<a>> \in Seq(S) /\ <<a, b>> \in Seq(S)
         /\ <<a, b>> = Append(<<a>>, b)
  OBVIOUS

(* The sequence of the values of a function at the elements of another.    *)
Mapped(f, s) == [i \in 1 .. Len(s) |-> f[s[i]]]

(* Values in T give a sequence over T.                                     *)
LEMMA MappedType ==
  ASSUME NEW S, NEW T, NEW f, NEW s \in Seq(S), \A x \in S : f[x] \in T
  PROVE  Mapped(f, s) \in Seq(T) /\ Len(Mapped(f, s)) = Len(s)
  <1>1. Len(s) \in Nat /\ \A i \in 1 .. Len(s) : s[i] \in S
    BY LenProperties, ElementOfSeq
  <1>2. \A i \in 1 .. Len(s) : f[s[i]] \in T
    BY <1>1
  <1> QED BY <1>1, <1>2 DEF Mapped

(* One element more, one value more.                                       *)
LEMMA MappedAppend ==
  ASSUME NEW S, NEW f, NEW s \in Seq(S), NEW x \in S
  PROVE  Mapped(f, Append(s, x)) = Append(Mapped(f, s), f[x])
  <1> DEFINE T == {f[y] : y \in S}
             n == Len(s)
             m == n + 1
             u == Mapped(f, s)
             t == Append(s, x)
             v == Mapped(f, t)
             y == f[x]
             w == Append(u, y)
  <1>1. /\ n \in Nat /\ Len(t) = m /\ t[m] = x /\ y \in T
        /\ \A i \in 1 .. n : s[i] \in S /\ t[i] = s[i]
    BY LenProperties, ElementOfSeq, AppendProperties
  <1>a. \A z \in S : f[z] \in T
    OBVIOUS
  <1> HIDE DEF t, n, y, T
  <1>2. u \in Seq(T) /\ Len(u) = n /\ \A i \in 1 .. n : u[i] = f[s[i]]
    BY <1>1, <1>a DEF n, Mapped
  <1>3. \A i \in 1 .. m : i \in 1 .. n \/ i = m
    BY <1>1
  <1>4. m \in Nat /\ \A i \in 1 .. m : t[i] \in S
    BY <1>1, <1>3
  <1> HIDE DEF m
  <1>5. v \in Seq(T) /\ Len(v) = m /\ \A i \in 1 .. m : v[i] = f[t[i]]
    BY <1>1, <1>4, <1>a DEF Mapped
  <1> HIDE DEF u, v
  <1>6. /\ w \in Seq(T) /\ Len(w) = m /\ w[m] = y
        /\ \A i \in 1 .. n : w[i] = f[s[i]]
    BY <1>1, <1>2, AppendProperties DEF m
  <1> HIDE DEF w
  <1>7. ASSUME NEW i \in 1 .. m PROVE w[i] = v[i]
    <2>1. CASE i = m
      BY <1>1, <1>5, <1>6, <2>1 DEF y
    <2>2. CASE i \in 1 .. n
      BY <1>1, <1>5, <1>6, <2>2
    <2> QED BY <1>3, <2>1, <2>2
  <1>8. v = w
    BY <1>5, <1>6, <1>7, SeqEqual
  <1> QED BY <1>8 DEF u, v, w, t, y

(* One element less, one value less.                                       *)
LEMMA MappedHeadTail ==
  ASSUME NEW S, NEW f, NEW s \in Seq(S), s # <<>>
  PROVE  /\ Mapped(f, s) # <<>>
         /\ Head(Mapped(f, s)) = f[Head(s)]
         /\ Tail(Mapped(f, s)) = Mapped(f, Tail(s))
  <1> DEFINE T == {f[y] : y \in S}
             n == Len(s)
             k == n - 1
             t == Tail(s)
             u == Mapped(f, s)
             v == Mapped(f, t)
             w == Tail(u)
  <1>1. /\ n \in Nat \ {0} /\ t \in Seq(S) /\ Len(t) = k /\ Head(s) = s[1]
        /\ (\A i \in 1 .. n : s[i] \in S) /\ (\A i \in 1 .. k : t[i] = s[i + 1])
    BY EmptySeq, HeadTailProperties, ElementOfSeq
  <1>a. \A z \in S : f[z] \in T
    OBVIOUS
  <1> HIDE DEF T
  <1>2. u \in Seq(T) /\ Len(u) = n /\ \A i \in 1 .. n : u[i] = f[s[i]]
    BY <1>1, <1>a DEF Mapped
  <1>3. u # <<>>
    BY <1>1, <1>2, EmptySeq
  <1>4. Head(u) = u[1] /\ 1 \in 1 .. n
    BY <1>1, <1>2, <1>3
  <1>5. Head(u) = f[Head(s)]
    BY <1>1, <1>2, <1>4
  <1>6. w \in Seq(T) /\ Len(w) = k /\ \A i \in 1 .. k : w[i] = u[i + 1]
    BY <1>2, <1>3, HeadTailProperties
  <1>7. k \in Nat /\ \A i \in 1 .. k : i + 1 \in 1 .. n
    BY <1>1
  <1>8. \A i \in 1 .. k : t[i] \in S
    BY <1>1, <1>7
  <1> HIDE DEF t, k, n, w
  <1>9. v \in Seq(T) /\ Len(v) = k /\ \A i \in 1 .. k : v[i] = f[t[i]]
    BY <1>1, <1>7, <1>8, <1>a DEF Mapped
  <1> HIDE DEF u, v
  <1>10. ASSUME NEW i \in 1 .. k PROVE w[i] = v[i]
    <2> DEFINE j == i + 1
    <2>1. j \in 1 .. n /\ w[i] = u[j] /\ t[i] = s[j]
      BY <1>1, <1>6, <1>7
    <2> HIDE DEF j
    <2>2. u[j] = f[s[j]] /\ v[i] = f[t[i]]
      BY <1>2, <1>9, <2>1
    <2> QED BY <2>1, <2>2
  <1>11. w = v
    BY <1>6, <1>9, <1>10, SeqEqual
  <1> QED BY <1>3, <1>5, <1>11 DEF u, v, w, t
==============================================================================
