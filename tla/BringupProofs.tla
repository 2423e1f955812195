---------------------------- MODULE BringupProofs ----------------------------
(***************************************************************************)
(* Proofs about the bring-up firmware (Bringup).  A command is a sequence  *)
(* of steps with jumps, so that its proof is one of a small program: every *)
(* place in it is annotated with what is held there and the states the     *)
(* memory interface may be in (Annotates), and each step must be allowed   *)
(* at its place and lead to what the next one, or the one it jumps to, is  *)
(* annotated with (Leads).  A command whose annotation starts and ends     *)
(* with the board at rest keeps the rules (Keeps).  Fragments are put      *)
(* together by Joined, Skipped and Consequence, and every command of the   *)
(* console and every item of the menu is shown to keep the rules           *)
(* (ConsoleKeeps, PagesKeep).                                              *)
(*                                                                         *)
(* The invariant then says that what is left of the command that runs is a *)
(* fragment from the present state to rest (Running): Starts is the step   *)
(* of that induction, and the properties are read off the first step.      *)
(*                                                                         *)
(* The rules R are those that every command keeps, with "fetch" those      *)
(* about fetching from the flash too, which the sweeps break, and with     *)
(* "uncharged" that the charger is left alone.                             *)
(***************************************************************************)
EXTENDS Bringup, SequenceFacts

-----------------------------------------------------------------------------
(* What a sequence of steps may do.                                        *)

(* The steps of the commands.                                              *)
Step ==
  [op : {"take", "give", "use"}, arg : Claims]
  \cup [op : {"keys"}, arg : {"all", "none", "back", "noback"}]
  \cup [op : {"tft"}, arg : {"reinit", "start", "stop"}]
  \cup [op : {"light"}, arg : BOOLEAN]
  \cup [op : {"charge"}, arg : {"on", "off"}]
  \cup [op : {"draw", "wait", "return", "fetch", "access"}, arg : {0}]
  \cup [op : {"maybe", "selected"}, arg : Nat]
  \cup [op : {"mem"}, arg : [what : {"irq", "direct", "stale", "quad", "cached"}, to : BOOLEAN]]
  \cup [op : {"mem"}, arg : [what : {"flash", "psram"}, to : {"boot", "test"}]]
  \cup [op : {"mem"}, arg : [what : {"pads"}, to : {"own", "tried"}]]
  \cup [op : {"mem"}, arg : [what : {"pin"}, to : {"xip", "sio"}]]

(* What is known between two steps: what is held, and the states the       *)
(* memory interface may be in.                                             *)
Told(m)    == m.pin = "xip" => m.quad
Point(h, M) == [held |-> h, mems |-> M]
Points ==
  {a \in [held : SUBSET Claims, mems : SUBSET Mems] :
     /\ ~({"busA", "busB"} \subseteq a.held)
     /\ \A m \in a.mems : Told(m)}
Within(a, b) == a.held = b.held /\ a.mems \subseteq b.mems

(* At rest, as a command finds the board and leaves it.                    *)
Fetchable(m) == ~m.direct /\ m.flash = "boot" /\ ~m.stale
Rest(R) == {m \in Mems : /\ m.irq /\ ~m.direct
                         /\ m.flash = "boot" /\ m.psram = "boot" /\ m.pads = "own"
                         /\ Told(m)
                         /\ "fetch" \in R => ~m.stale}
AtRest(R) == Point({}, Rest(R))

(* What the rules R and the properties ask of a step t taken at a.         *)
Allowed(R, t, a) ==
  /\ "uncharged" \in R => t.op # "charge"
  /\ t.op = "take" => t.arg \notin a.held
  /\ t.op = "use" => t.arg \in a.held
  /\ t.op \in {"light", "charge"} => "busB" \in a.held
  /\ "fetch" \in R /\ t.op \notin {"mem", "maybe"} => \A m \in a.mems : Fetchable(m)
  /\ "fetch" \in R => \A m \in a.mems : m.irq => Fetchable(m)

HeldAfter(t, h) ==
  IF t.op = "take" THEN h \cup {t.arg} ELSE IF t.op = "give" THEN h \ {t.arg} ELSE h
MemAfter(t, m) == IF t.op = "mem" THEN MemDo(m, t.arg) ELSE m
After(t, a) == Point(HeldAfter(t, a.held), {MemAfter(t, m) : m \in a.mems})

(* H tells what is known before each step of P: step i is allowed there,   *)
(* and whatever comes next finds what H says of it.                        *)
Leads(R, P, H, i) ==
  /\ Allowed(R, P[i], H[i])
  /\ P[i].op = "return" => Within(H[i], AtRest(R))
  /\ P[i].op # "return" => Within(After(P[i], H[i]), H[i + 1])
  /\ P[i].op \in {"maybe", "selected"} =>
       /\ i + P[i].arg <= Len(P)
       /\ Within(H[i], H[i + P[i].arg + 1])

Annotates(R, H, P) ==
  /\ H \in [1 .. Len(P) + 1 -> Points]
  /\ \A i \in 1 .. Len(P) : Leads(R, P, H, i)

(* From what a tells, P keeps the rules and ends where b tells, or before  *)
(* that with the board at rest.                                            *)
Fragment(R, P, a, b) ==
  /\ P \in Seq(Step)
  /\ \E H : /\ Annotates(R, H, P)
            /\ Within(a, H[1])
            /\ Within(H[Len(P) + 1], b)

Keeps(R, P) == Fragment(R, P, AtRest(R), AtRest(R))

-----------------------------------------------------------------------------

(* What a point tells follows from what a narrower one tells.              *)
LEMMA WithinTransitive ==
  ASSUME NEW a, NEW b, NEW c, Within(a, b), Within(b, c)
  PROVE  Within(a, c)
  BY DEF Within

(* A step that is allowed at a point is allowed at a narrower one.         *)
LEMMA AllowedWithin ==
  ASSUME NEW R, NEW t, NEW a, NEW b, Within(a, b), Allowed(R, t, b)
  PROVE  Allowed(R, t, a)
  BY DEF Within, Allowed

(* A step taken at a narrower point leads to a narrower one.               *)
LEMMA AfterWithin ==
  ASSUME NEW t, NEW a, NEW b, Within(a, b)
  PROVE  Within(After(t, a), After(t, b))
  BY DEF Within, After, Point

(* What is left of a sequence is annotated by what is left of H.           *)
LEMMA Rests ==
  ASSUME NEW R, NEW P \in Seq(Step), NEW H, NEW b, NEW k \in 0 .. Len(P),
         Annotates(R, H, P), Within(H[Len(P) + 1], b)
  PROVE  Fragment(R, SubSeq(P, k + 1, Len(P)), H[k + 1], b)
  <1> DEFINE n == Len(P)
             Q == SubSeq(P, k + 1, n)
             G == [i \in 1 .. n - k + 1 |-> H[i + k]]
  <1>0. n \in Nat /\ P \in [1 .. n -> Step] /\ k \in Nat /\ k <= n
    BY LenProperties
  <1>1. /\ Q \in Seq(Step) /\ Len(Q) = n - k
        /\ \A i \in 1 .. n - k : Q[i] = P[i + k]
    <2>1. \A i \in k + 1 .. n : P[i] \in Step
      BY <1>0
    <2>2. /\ Q \in Seq(Step) /\ Len(Q) = IF k + 1 <= n THEN n - (k + 1) + 1 ELSE 0
          /\ \A i \in 1 .. n - (k + 1) + 1 : Q[i] = P[k + 1 + i - 1]
      BY <1>0, <2>1, SubSeqProperties
    <2> HIDE DEF Q, n
    <2>3. n - (k + 1) + 1 = n - k /\ \A i \in 1 .. n - k : k + 1 + i - 1 = i + k
      BY <1>0
    <2>4. Len(Q) = n - k
      BY <1>0, <2>2
    <2>5. ASSUME NEW i \in 1 .. n - k PROVE Q[i] = P[i + k]
      <3>1. i \in 1 .. n - (k + 1) + 1
        BY <2>3
      <3> QED BY <2>2, <2>3, <3>1
    <2> QED BY <2>2, <2>4, <2>5
  <1> HIDE DEF n, Q
  <1>2. G \in [1 .. Len(Q) + 1 -> Points] /\ G[1] = H[k + 1] /\ G[Len(Q) + 1] = H[n + 1]
    <2>1. H \in [1 .. n + 1 -> Points]
      BY DEF Annotates, n
    <2> QED BY <1>0, <1>1, <2>1
  <1>3. ASSUME NEW i \in 1 .. Len(Q) PROVE Leads(R, Q, G, i)
    <2> DEFINE j == i + k
    <2>1. /\ j \in 1 .. n /\ Q[i] = P[j] /\ G[i] = H[j] /\ G[i + 1] = H[j + 1]
      BY <1>0, <1>1
    <2>2. Leads(R, P, H, j)
      BY <2>1 DEF Annotates, n
    <2>3. P[j] \in Step
      BY <1>0, <2>1
    <2>4. ASSUME P[j].op \in {"maybe", "selected"}
          PROVE  i + P[j].arg <= Len(Q) /\ G[i + P[j].arg + 1] = H[j + P[j].arg + 1]
      <3>1. P[j].arg \in Nat /\ j + P[j].arg <= n
        BY <2>2, <2>3, <2>4 DEF Leads, Step, n
      <3>2. /\ i + P[j].arg + 1 \in 1 .. n - k + 1
            /\ i + P[j].arg + 1 + k = j + P[j].arg + 1
        BY SMTT(30), <1>0, <1>1, <3>1
      <3>3. i + P[j].arg <= Len(Q)
        BY SMTT(30), <1>0, <1>1, <3>1
      <3> HIDE DEF j
      <3> QED BY <3>2, <3>3
    <2> HIDE DEF G, j
    <2> QED BY <2>1, <2>2, <2>4 DEF Leads
  <1> HIDE DEF G
  <1>4. Within(G[1], G[1])
    BY DEF Within
  <1> QED BY <1>1, <1>2, <1>3, <1>4 DEF Fragment, Annotates, n, Q

(* An empty sequence ends where it starts.                                 *)
LEMMA EndOf ==
  ASSUME NEW R, NEW a, NEW b, Fragment(R, <<>>, a, b)
  PROVE  Within(a, b)
  BY DEF Fragment, Within

(* The first step of a fragment is allowed where the fragment starts, and  *)
(* what is left once it is taken, jumped or cut short is a fragment again. *)
LEMMA Starts ==
  ASSUME NEW R, NEW P, NEW a, NEW b, Fragment(R, P, a, b), P # <<>>
  PROVE  /\ P \in Seq(Step) /\ Head(P) \in Step
         /\ Allowed(R, Head(P), a)
         /\ Head(P).op # "return" => Fragment(R, Tail(P), After(Head(P), a), b)
         /\ Head(P).op = "return" => Within(a, AtRest(R))
         /\ Head(P).op \in {"maybe", "selected"} =>
              /\ Head(P).arg \in Nat
              /\ Fragment(R, SubSeq(P, Head(P).arg + 2, Len(P)), a, b)
  <1>1. PICK H : Annotates(R, H, P) /\ Within(a, H[1]) /\ Within(H[Len(P) + 1], b)
    BY DEF Fragment
  <1>2. /\ P \in Seq(Step) /\ Len(P) \in Nat \ {0} /\ Head(P) = P[1] /\ P[1] \in Step
        /\ Tail(P) = SubSeq(P, 2, Len(P))
    <2>1. P \in Seq(Step) BY DEF Fragment
    <2> QED BY <2>1, EmptySeq, ElementOfSeq, TailIsSubSeq
  <1>3. Leads(R, P, H, 1)
    BY <1>1, <1>2 DEF Annotates
  <1>4. Allowed(R, P[1], a)
    BY <1>1, <1>3, AllowedWithin DEF Leads
  <1>5. ASSUME NEW k \in 0 .. Len(P), NEW c, Within(c, H[k + 1])
        PROVE  Fragment(R, SubSeq(P, k + 1, Len(P)), c, b)
    <2>1. Fragment(R, SubSeq(P, k + 1, Len(P)), H[k + 1], b)
      BY <1>1, <1>2, Rests
    <2> QED BY <1>5, <2>1, WithinTransitive DEF Fragment
  <1>6. ASSUME P[1].op # "return" PROVE Fragment(R, Tail(P), After(P[1], a), b)
    <2>1. Within(After(P[1], a), H[2])
      BY <1>1, <1>3, <1>6, AfterWithin, WithinTransitive DEF Leads
    <2>2. 1 \in 0 .. Len(P) /\ 1 + 1 = 2
      BY <1>2
    <2> QED BY <1>2, <1>5, <2>1, <2>2
  <1>7. ASSUME P[1].op = "return" PROVE Within(a, AtRest(R))
    BY <1>1, <1>3, <1>7, WithinTransitive DEF Leads
  <1>8. ASSUME P[1].op \in {"maybe", "selected"}
        PROVE  P[1].arg \in Nat /\ Fragment(R, SubSeq(P, P[1].arg + 2, Len(P)), a, b)
    <2> DEFINE k == P[1].arg + 1
    <2>1. P[1].arg \in Nat
      BY <1>2, <1>8 DEF Step
    <2>2. k \in 0 .. Len(P) /\ k + 1 = P[1].arg + 2 /\ Within(H[1], H[k + 1])
      <3>1. 1 + P[1].arg <= Len(P) /\ Within(H[1], H[1 + P[1].arg + 1])
        BY <1>3, <1>8 DEF Leads
      <3>2. 1 + P[1].arg + 1 = k + 1 /\ k + 1 = P[1].arg + 2 /\ k = 1 + P[1].arg
        BY <2>1
      <3> HIDE DEF k
      <3> QED BY <1>2, <2>1, <3>1, <3>2
    <2> HIDE DEF k
    <2>3. Within(a, H[k + 1])
      BY <1>1, <2>2, WithinTransitive
    <2>4. Fragment(R, SubSeq(P, k + 1, Len(P)), a, b)
      BY <1>5, <2>2, <2>3
    <2> QED BY <2>1, <2>2, <2>4
  <1> QED BY <1>2, <1>4, <1>6, <1>7, <1>8

-----------------------------------------------------------------------------
(* How fragments are put together.                                         *)

(* A fragment may start at a narrower point and end at a wider one.        *)
LEMMA Consequence ==
  ASSUME NEW R, NEW P, NEW a, NEW b, NEW c, NEW d,
         Within(c, a), Fragment(R, P, a, b), Within(b, d)
  PROVE  Fragment(R, P, c, d)
  BY WithinTransitive DEF Fragment

(* Two fragments, one after the other.                                     *)
LEMMA Joined ==
  ASSUME NEW R, NEW P, NEW Q, NEW a, NEW b, NEW c,
         Fragment(R, P, a, b), Fragment(R, Q, b, c)
  PROVE  Fragment(R, P \o Q, a, c)
  <1> DEFINE m == Len(P)
             n == Len(Q)
             S == P \o Q
  <1>1. PICK G : Annotates(R, G, P) /\ Within(a, G[1]) /\ Within(G[m + 1], b)
    BY DEF Fragment
  <1>2. PICK K : Annotates(R, K, Q) /\ Within(b, K[1]) /\ Within(K[n + 1], c)
    BY DEF Fragment
  <1>3. /\ m \in Nat /\ n \in Nat
        /\ P \in Seq(Step) /\ Q \in Seq(Step)
        /\ \A i \in 1 .. m : P[i] \in Step
        /\ \A i \in 1 .. n : Q[i] \in Step
    <2>1. P \in Seq(Step) /\ Q \in Seq(Step)
      BY DEF Fragment
    <2> QED BY <2>1, LenProperties, ElementOfSeq
  <1>4. /\ S \in Seq(Step) /\ Len(S) = m + n
        /\ \A i \in 1 .. m + n : S[i] = IF i <= m THEN P[i] ELSE Q[i - m]
    BY <1>3, ConcatProperties
  <1> HIDE DEF m, n, S
  <1> DEFINE H == [i \in 1 .. m + n + 1 |-> IF i <= m THEN G[i] ELSE K[i - m]]
  <1>5. /\ G \in [1 .. m + 1 -> Points] /\ K \in [1 .. n + 1 -> Points]
        /\ Within(G[m + 1], K[1])
    BY <1>1, <1>2, WithinTransitive DEF Annotates, m, n
  <1>6. /\ H \in [1 .. m + n + 1 -> Points]
        /\ \A i \in 1 .. m : H[i] = G[i]
        /\ \A i \in 1 .. n + 1 : H[i + m] = K[i]
    BY <1>3, <1>5
  <1> HIDE DEF H
  <1>7. \A i \in 1 .. m + 1 : Within(G[i], H[i])
    <2>1. H[m + 1] = K[1]
      <3>1. 1 \in 1 .. n + 1 /\ 1 + m = m + 1
        BY <1>3
      <3> QED BY <1>6, <3>1
    <2> SUFFICES ASSUME NEW i \in 1 .. m + 1 PROVE Within(G[i], H[i])
      OBVIOUS
    <2>2. CASE i \in 1 .. m
      BY <1>6, <2>2 DEF Within
    <2>3. CASE i = m + 1
      BY <1>5, <2>1, <2>3
    <2> QED BY <1>3, <2>2, <2>3
  <1>8. ASSUME NEW i \in 1 .. m PROVE Leads(R, S, H, i)
    <2>1. S[i] = P[i] /\ H[i] = G[i] /\ P[i] \in Step /\ i \in Nat /\ i + 1 \in 1 .. m + 1
      BY <1>3, <1>4, <1>6
    <2>2. Leads(R, P, G, i)
      BY <1>1 DEF Annotates, m
    <2>3. P[i].op # "return" => Within(After(S[i], H[i]), H[i + 1])
      <3>1. Within(G[i + 1], H[i + 1])
        BY <1>7, <2>1
      <3> QED BY <2>1, <2>2, <3>1, WithinTransitive DEF Leads
    <2>4. ASSUME P[i].op \in {"maybe", "selected"}
          PROVE  i + P[i].arg <= m + n /\ Within(H[i], H[i + P[i].arg + 1])
      <3>1. P[i].arg \in Nat /\ i + P[i].arg <= m /\ Within(G[i], G[i + P[i].arg + 1])
        BY <2>1, <2>2, <2>4 DEF Leads, Step, m
      <3>2. i + P[i].arg + 1 \in 1 .. m + 1 /\ i + P[i].arg <= m + n
        BY SMTT(30), <1>3, <2>1, <3>1
      <3> QED BY <1>7, <2>1, <3>1, <3>2, WithinTransitive
    <2> QED BY <1>4, <2>1, <2>2, <2>3, <2>4 DEF Leads
  <1>9. ASSUME NEW k \in 1 .. n PROVE Leads(R, S, H, k + m)
    <2> DEFINE j == k + m
    <2>1. /\ j \in 1 .. m + n /\ j \in Nat /\ k \in Nat /\ ~(j <= m) /\ j - m = k
          /\ k \in 1 .. n + 1 /\ k + 1 \in 1 .. n + 1 /\ k + 1 + m = j + 1
      BY <1>3
    <2>2. S[j] = Q[k] /\ H[j] = K[k] /\ H[j + 1] = K[k + 1] /\ Q[k] \in Step
      <3>1. H[k + m] = K[k] /\ H[k + 1 + m] = K[k + 1]
        BY <1>6, <2>1
      <3> QED BY <1>3, <1>4, <2>1, <3>1
    <2>3. Leads(R, Q, K, k)
      BY <1>2 DEF Annotates, n
    <2>4. ASSUME Q[k].op \in {"maybe", "selected"}
          PROVE  j + Q[k].arg <= m + n /\ H[j + Q[k].arg + 1] = K[k + Q[k].arg + 1]
      <3>1. Q[k].arg \in Nat /\ k + Q[k].arg <= n
        BY <2>2, <2>3, <2>4 DEF Leads, Step, n
      <3>2. /\ k + Q[k].arg + 1 \in 1 .. n + 1
            /\ k + Q[k].arg + 1 + m = j + Q[k].arg + 1
            /\ j + Q[k].arg <= m + n
        <4> DEFINE x == Q[k].arg
        <4>1. x \in Nat /\ k + x <= n
          BY <3>1
        <4> HIDE DEF x
        <4>2. k + x + 1 \in 1 .. n + 1 /\ k + x + 1 + m = j + x + 1 /\ j + x <= m + n
          BY <1>3, <2>1, <4>1
        <4> QED BY <4>2 DEF x
      <3>3. H[k + Q[k].arg + 1 + m] = K[k + Q[k].arg + 1]
        BY <1>6, <3>2
      <3> QED BY <3>2, <3>3
    <2> HIDE DEF j
    <2>5. Leads(R, S, H, j)
      BY <1>4, <2>2, <2>3, <2>4 DEF Leads
    <2> QED BY <2>5 DEF j
  <1>10. \A i \in 1 .. m + n : Leads(R, S, H, i)
    <2> SUFFICES ASSUME NEW i \in 1 .. m + n PROVE Leads(R, S, H, i)
      OBVIOUS
    <2>1. CASE i <= m
      BY <1>3, <1>8, <2>1
    <2>2. CASE ~(i <= m)
      <3> DEFINE k == i - m
      <3>1. k \in 1 .. n /\ k + m = i
        BY <1>3, <2>2
      <3> HIDE DEF k
      <3> QED BY <1>9, <3>1
    <2> QED BY <2>1, <2>2
  <1>11. Within(a, H[1]) /\ Within(H[m + n + 1], c)
    <2>1. Within(a, H[1])
      BY <1>1, <1>3, <1>7, WithinTransitive
    <2>2. n + 1 \in 1 .. n + 1 /\ n + 1 + m = m + n + 1
      BY <1>3
    <2>3. H[m + n + 1] = K[n + 1]
      BY <1>6, <2>2
    <2> QED BY <1>2, <2>1, <2>3 DEF n
  <1>12. Annotates(R, H, S)
    BY <1>4, <1>6, <1>10 DEF Annotates
  <1> QED BY <1>4, <1>11, <1>12 DEF Fragment, S

(* One step.                                                               *)
LEMMA OneStep ==
  ASSUME NEW R, NEW t \in Step, NEW a \in Points, NEW b \in Points,
         Allowed(R, t, a), t.op \notin {"maybe", "selected", "return"},
         Within(After(t, a), b)
  PROVE  Fragment(R, <<t>>, a, b)
  <1> DEFINE H == <<a, b>>
  <1>1. /\ <<t>> \in Seq(Step) /\ Len(<<t>>) = 1
        /\ H \in [1 .. 2 -> Points] /\ H[1] = a /\ H[2] = b /\ <<t>>[1] = t
    OBVIOUS
  <1> HIDE DEF H
  <1>2. Leads(R, <<t>>, H, 1)
    BY <1>1 DEF Leads
  <1>3. Annotates(R, H, <<t>>)
    BY <1>1, <1>2 DEF Annotates
  <1> QED BY <1>1, <1>3 DEF Fragment, Within

(* H may say of the end what b says.                                       *)
LEMMA EndsAs ==
  ASSUME NEW R, NEW P, NEW a, NEW b \in Points, Fragment(R, P, a, b)
  PROVE  \E H : Annotates(R, H, P) /\ Within(a, H[1]) /\ H[Len(P) + 1] = b
  <1> DEFINE n == Len(P)
  <1>1. PICK G : Annotates(R, G, P) /\ Within(a, G[1]) /\ Within(G[n + 1], b)
    BY DEF Fragment
  <1>2. /\ n \in Nat /\ \A i \in 1 .. n : P[i] \in Step
        /\ G \in [1 .. n + 1 -> Points]
    <2>1. P \in Seq(Step)
      BY DEF Fragment
    <2> QED BY <1>1, <2>1, LenProperties, ElementOfSeq DEF Annotates
  <1> DEFINE H == [G EXCEPT ![n + 1] = b]
  <1> HIDE DEF n
  <1>3. /\ H \in [1 .. n + 1 -> Points] /\ H[n + 1] = b
        /\ \A i \in 1 .. n : H[i] = G[i]
    BY <1>2
  <1> HIDE DEF H
  <1>4. \A i \in 1 .. n + 1 : Within(G[i], H[i])
    <2> SUFFICES ASSUME NEW i \in 1 .. n + 1 PROVE Within(G[i], H[i])
      OBVIOUS
    <2>1. CASE i \in 1 .. n
      BY <1>3, <2>1 DEF Within
    <2>2. CASE i = n + 1
      BY <1>1, <1>3, <2>2
    <2> QED BY <1>2, <2>1, <2>2
  <1>5. ASSUME NEW i \in 1 .. n PROVE Leads(R, P, H, i)
    <2>1. Leads(R, P, G, i) /\ H[i] = G[i] /\ P[i] \in Step /\ i \in Nat /\ i + 1 \in 1 .. n + 1
      BY <1>1, <1>2, <1>3 DEF Annotates, n
    <2>2. P[i].op # "return" => Within(After(P[i], H[i]), H[i + 1])
      BY <1>4, <2>1, WithinTransitive DEF Leads
    <2>3. ASSUME P[i].op \in {"maybe", "selected"}
          PROVE  i + P[i].arg <= n /\ Within(H[i], H[i + P[i].arg + 1])
      <3>1. P[i].arg \in Nat /\ i + P[i].arg <= n /\ Within(G[i], G[i + P[i].arg + 1])
        BY <2>1, <2>3 DEF Leads, Step, n
      <3>2. i + P[i].arg + 1 \in 1 .. n + 1
        BY <1>2, <2>1, <3>1
      <3> QED BY <1>4, <2>1, <3>1, <3>2, WithinTransitive
    <2> QED BY <2>1, <2>2, <2>3 DEF Leads, n
  <1>6. Annotates(R, H, P)
    BY <1>3, <1>5 DEF Annotates, n
  <1>7. Within(a, H[1])
    BY <1>1, <1>2, <1>4, WithinTransitive
  <1> QED BY <1>3, <1>6, <1>7 DEF n

(* Steps that may be left out.                                             *)
LEMMA Skipped ==
  ASSUME NEW R, NEW o \in {"maybe", "selected"}, NEW P, NEW a \in Points, NEW b \in Points,
         Fragment(R, P, a, b), Within(a, b), Allowed(R, [op |-> o, arg |-> Len(P)], a)
  PROVE  Fragment(R, <<[op |-> o, arg |-> Len(P)]>> \o P, a, b)
  <1> DEFINE n == Len(P)
             t == [op |-> o, arg |-> n]
             S == <<t>> \o P
  <1>1. PICK K : Annotates(R, K, P) /\ Within(a, K[1]) /\ K[n + 1] = b
    BY EndsAs
  <1>2. /\ n \in Nat /\ P \in Seq(Step)
        /\ \A i \in 1 .. n : P[i] \in Step
        /\ K \in [1 .. n + 1 -> Points]
    <2>1. P \in Seq(Step)
      BY DEF Fragment
    <2> QED BY <1>1, <2>1, LenProperties, ElementOfSeq DEF Annotates
  <1>3. /\ t \in Step /\ <<t>> \in Seq(Step) /\ Len(<<t>>) = 1 /\ <<t>>[1] = t
        /\ t.op = o /\ t.arg = n
    BY <1>2 DEF Step
  <1> HIDE DEF t, n
  <1>4. /\ S \in Seq(Step) /\ Len(S) = n + 1
        /\ S[1] = t
        /\ \A i \in 1 .. n : S[i + 1] = P[i]
    <2>1. /\ S \in Seq(Step) /\ Len(S) = 1 + n
          /\ \A i \in 1 .. 1 + n : S[i] = IF i <= 1 THEN <<t>>[i] ELSE P[i - 1]
      BY <1>2, <1>3, ConcatProperties DEF n
    <2> HIDE DEF S
    <2>2. 1 \in 1 .. 1 + n /\ 1 + n = n + 1
      BY <1>2
    <2>3. S[1] = t
      BY <1>3, <2>1, <2>2
    <2>4. ASSUME NEW i \in 1 .. n PROVE S[i + 1] = P[i]
      <3> DEFINE j == i + 1
      <3>1. j \in 1 .. 1 + n /\ ~(j <= 1) /\ j - 1 = i
        BY <1>2
      <3> HIDE DEF j
      <3>2. S[j] = P[i]
        BY <2>1, <3>1
      <3> QED BY <3>2 DEF j
    <2> QED BY <2>1, <2>2, <2>3, <2>4
  <1> DEFINE H == [i \in 1 .. n + 2 |-> IF i = 1 THEN a ELSE K[i - 1]]
  <1>5. /\ H \in [1 .. n + 2 -> Points] /\ H[1] = a
        /\ \A i \in 1 .. n + 1 : H[i + 1] = K[i]
    BY <1>2
  <1> HIDE DEF S, H
  <1>6. 1 \in 1 .. n + 1 /\ n + 1 \in 1 .. n + 1 /\ n + 1 + 1 = n + 2
    BY <1>2
  <1>7. Leads(R, S, H, 1)
    <2>1. H[2] = K[1] /\ H[n + 2] = b
      BY <1>1, <1>5, <1>6
    <2>2. Within(After(t, a), a)
      BY <1>3 DEF Within, After, Point, HeldAfter, MemAfter
    <2>3. Within(After(t, a), H[1 + 1])
      BY <1>1, <2>1, <2>2, WithinTransitive
    <2>4. 1 + t.arg <= n + 1 /\ 1 + t.arg + 1 = n + 2
      BY <1>2, <1>3
    <2>5. Allowed(R, t, a)
      BY DEF t, n
    <2> QED BY <1>3, <1>4, <1>5, <2>1, <2>3, <2>4, <2>5 DEF Leads
  <1>8. ASSUME NEW k \in 1 .. n PROVE Leads(R, S, H, k + 1)
    <2> DEFINE j == k + 1
    <2>1. /\ j \in 1 .. n + 1 /\ j \in Nat /\ k \in Nat
          /\ k \in 1 .. n + 1 /\ k + 1 \in 1 .. n + 1 /\ k + 1 + 1 = j + 1
      BY <1>2
    <2>2. S[j] = P[k] /\ H[j] = K[k] /\ H[j + 1] = K[k + 1] /\ P[k] \in Step
      BY <1>2, <1>4, <1>5, <2>1
    <2>3. Leads(R, P, K, k)
      BY <1>1 DEF Annotates, n
    <2>4. ASSUME P[k].op \in {"maybe", "selected"}
          PROVE  j + P[k].arg <= n + 1 /\ H[j + P[k].arg + 1] = K[k + P[k].arg + 1]
      <3> DEFINE x == P[k].arg
      <3>1. x \in Nat /\ k + x <= n
        BY <2>2, <2>3, <2>4 DEF Leads, Step, n
      <3> HIDE DEF x
      <3>2. k + x + 1 \in 1 .. n + 1 /\ k + x + 1 + 1 = j + x + 1 /\ j + x <= n + 1
        BY <1>2, <2>1, <3>1
      <3>3. H[k + x + 1 + 1] = K[k + x + 1]
        BY <1>5, <3>2
      <3> QED BY <3>2, <3>3 DEF x
    <2> HIDE DEF j
    <2>5. Leads(R, S, H, j)
      BY <1>4, <2>2, <2>3, <2>4 DEF Leads
    <2> QED BY <2>5 DEF j
  <1>9. \A i \in 1 .. n + 1 : Leads(R, S, H, i)
    <2> SUFFICES ASSUME NEW i \in 1 .. n + 1, i # 1 PROVE Leads(R, S, H, i)
      BY <1>7
    <2> DEFINE k == i - 1
    <2>1. k \in 1 .. n /\ k + 1 = i
      BY <1>2
    <2> HIDE DEF k
    <2> QED BY <1>8, <2>1
  <1>10. H[n + 2] = b /\ Within(a, a) /\ Within(b, b)
    BY <1>1, <1>5, <1>6 DEF Within
  <1>11. Annotates(R, H, S)
    BY <1>4, <1>5, <1>6, <1>9 DEF Annotates
  <1>12. Fragment(R, S, a, b)
    BY <1>4, <1>5, <1>6, <1>10, <1>11 DEF Fragment
  <1> QED BY <1>12 DEF S, t, n

-----------------------------------------------------------------------------
(* Commands that leave the memory interface alone.                         *)

Holdings == {h \in SUBSET Claims : ~({"busA", "busB"} \subseteq h)}
Held(R, h) == Point(h, Rest(R))

(* A legal holding and states of the memory interface that tell the truth  *)
(* make a point.                                                           *)
LEMMA PointsOf ==
  ASSUME NEW h \in Holdings, NEW M \in SUBSET {m \in Mems : Told(m)}
  PROVE  Point(h, M) \in Points
  BY DEF Points, Point, Holdings

(* The points of a command that leaves the memory interface at rest.       *)
LEMMA HeldPoints ==
  ASSUME NEW R, NEW h \in Holdings
  PROVE  /\ Held(R, h) \in Points
         /\ Held(R, h).held = h /\ Held(R, h).mems = Rest(R)
         /\ "fetch" \in R => \A m \in Rest(R) : Fetchable(m)
  BY PointsOf DEF Held, Rest, Point, Fetchable

(* At rest nothing is held.                                                *)
LEMMA RestHeld ==
  /\ {} \in Holdings
  /\ \A R : AtRest(R) = Held(R, {})
  BY DEF Holdings, AtRest, Held

(* Step i of P, with h telling what is held before each step.              *)
Plain(R, P, h, i) ==
  /\ P[i] \in Step
  /\ P[i].op # "mem"
  /\ "uncharged" \in R => P[i].op # "charge"
  /\ P[i].op = "take" => P[i].arg \notin h[i]
  /\ P[i].op = "use" => P[i].arg \in h[i]
  /\ P[i].op \in {"light", "charge"} => "busB" \in h[i]
  /\ P[i].op = "return" => h[i] = {}
  /\ P[i].op # "return" => h[i + 1] = HeldAfter(P[i], h[i])
  /\ P[i].op \in {"maybe", "selected"} =>
       i + P[i].arg <= Len(P) /\ h[i + P[i].arg + 1] = h[i]

(* Steps that leave the memory interface at rest form a fragment if what   *)
(* is held before each of them is as h says.                               *)
LEMMA PlainFragment ==
  ASSUME NEW R, NEW P \in Seq(Step), NEW h \in [1 .. Len(P) + 1 -> Holdings],
         \A i \in 1 .. Len(P) : Plain(R, P, h, i)
  PROVE  Fragment(R, P, Held(R, h[1]), Held(R, h[Len(P) + 1]))
  <1> DEFINE n == Len(P)
             H == [i \in 1 .. n + 1 |-> Held(R, h[i])]
  <1>1. n \in Nat
    BY LenProperties
  <1>2. /\ H \in [1 .. n + 1 -> Points]
        /\ \A i \in 1 .. n + 1 : H[i] = Held(R, h[i]) /\ H[i].held = h[i] /\ H[i].mems = Rest(R)
    BY HeldPoints
  <1>3. ASSUME NEW i \in 1 .. n PROVE Leads(R, P, H, i)
    <2>1. Plain(R, P, h, i) /\ i \in Nat /\ i \in 1 .. n + 1 /\ i + 1 \in 1 .. n + 1
      BY <1>1
    <2>2. Allowed(R, P[i], H[i])
      BY <1>2, <2>1, HeldPoints DEF Allowed, Plain
    <2>3. P[i].op = "return" => Within(H[i], AtRest(R))
      BY <1>2, <2>1 DEF Within, AtRest, Point, Plain
    <2>4. P[i].op # "return" => Within(After(P[i], H[i]), H[i + 1])
      BY <1>2, <2>1 DEF Within, After, Point, Plain, MemAfter
    <2>5. ASSUME P[i].op \in {"maybe", "selected"}
          PROVE  i + P[i].arg <= n /\ Within(H[i], H[i + P[i].arg + 1])
      <3> DEFINE x == P[i].arg
      <3>1. x \in Nat /\ i + x <= n /\ h[i + x + 1] = h[i]
        BY <2>1, <2>5 DEF Plain, Step
      <3> HIDE DEF x
      <3>2. i + x + 1 \in 1 .. n + 1
        BY <1>1, <2>1, <3>1
      <3>3. Within(H[i], H[i + x + 1])
        BY <1>2, <2>1, <3>1, <3>2 DEF Within
      <3> QED BY <3>1, <3>3 DEF x
    <2> QED BY <2>2, <2>3, <2>4, <2>5 DEF Leads, n
  <1>4. 1 \in 1 .. n + 1 /\ n + 1 \in 1 .. n + 1
    BY <1>1
  <1>5. Within(Held(R, h[1]), H[1]) /\ Within(H[n + 1], Held(R, h[n + 1]))
    BY <1>2, <1>4 DEF Within
  <1> HIDE DEF H
  <1>6. Annotates(R, H, P)
    BY <1>2, <1>3 DEF Annotates, n
  <1> QED BY <1>5, <1>6 DEF Fragment, n

(* The constructors of the commands make steps.                            *)
LEMMA Steps ==
  /\ \A r \in Claims : Take(r) \in Step /\ Give(r) \in Step /\ Use(r) \in Step
  /\ \A k \in {"all", "none", "back", "noback"} : Keys(k) \in Step
  /\ \A t \in {"reinit", "start", "stop"} : Tft(t) \in Step
  /\ Light(TRUE) \in Step /\ Light(FALSE) \in Step
  /\ \A c \in {"on", "off"} : Charge(c) \in Step
  /\ Draw \in Step /\ Wait \in Step /\ Return \in Step /\ Fetch \in Step /\ Access \in Step
  /\ \A n \in Nat : Maybe(n) \in Step /\ Selected(n) \in Step
  BY DEF Step, Take, Give, Use, Keys, Tft, Light, Charge, Draw, Wait, Return, Fetch, Access,
         Maybe, Selected

(* One thing may be held.                                                  *)
LEMMA Kept ==
  {} \in Holdings /\ \A r \in Claims : {r} \in Holdings
  BY DEF Holdings

(* Anything but the two buses may be held together, with or without bus B. *)
LEMMA KeptPairs ==
  /\ \A r, q \in Claims \ {"busA", "busB"} : {r, q} \in Holdings
  /\ \A k \in SUBSET (Claims \ {"busA", "busB"}) : k \in Holdings /\ k \cup {"busB"} \in Holdings
  BY DEF Holdings, Claims

(* PlainFragment, with the length and the two ends by name.                *)
LEMMA PlainParts ==
  ASSUME NEW R, NEW P \in Seq(Step), NEW n \in Nat, Len(P) = n,
         NEW h \in [1 .. n + 1 -> Holdings], NEW f, NEW g, h[1] = f, h[n + 1] = g,
         \A i \in 1 .. n : Plain(R, P, h, i)
  PROVE  Fragment(R, P, Held(R, f), Held(R, g))
  BY PlainFragment

(* What is claimed, used and released.                                     *)
LEMMA UseKeeps ==
  ASSUME NEW R, NEW r \in Claims
  PROVE  Keeps(R, <<Take(r), Use(r), Give(r)>>)
  <1> DEFINE h == <<{}, {r}, {r}, {}>>
             P == <<Take(r), Use(r), Give(r)>>
  <1>1. P \in Seq(Step) /\ Len(P) = 3
    BY Steps DEF Claims
  <1>2. h \in [1 .. 3 + 1 -> Holdings] /\ h[1] = {} /\ h[3 + 1] = {}
    BY SMTT(30), Kept DEF Claims
  <1>3. /\ Plain(R, P, h, 1) /\ Plain(R, P, h, 2) /\ Plain(R, P, h, 3)
    BY SMTT(30), Steps DEF Plain, HeldAfter, Claims, Take, Give, Use
  <1>4. \A i \in 1 .. 3 : Plain(R, P, h, i)
    <2> HIDE DEF h, P
    <2> QED BY <1>3
  <1> HIDE DEF h, P
  <1>5. Fragment(R, P, Held(R, {}), Held(R, {}))
    BY <1>1, <1>2, <1>4, PlainParts
  <1> QED BY <1>5, RestHeld DEF Keeps, P

(* The same between two drawings.                                          *)
LEMMA ScanKeeps ==
  ASSUME NEW R, NEW r \in Claims
  PROVE  Keeps(R, <<Draw, Take(r), Use(r), Draw, Give(r)>>)
  <1> DEFINE h == <<{}, {}, {r}, {r}, {r}, {}>>
             P == <<Draw, Take(r), Use(r), Draw, Give(r)>>
  <1>1. P \in Seq(Step) /\ Len(P) = 5
    BY Steps DEF Claims
  <1>2. h \in [1 .. 5 + 1 -> Holdings] /\ h[1] = {} /\ h[5 + 1] = {}
    BY SMTT(30), Kept DEF Claims
  <1>3. /\ Plain(R, P, h, 1) /\ Plain(R, P, h, 2) /\ Plain(R, P, h, 3)
        /\ Plain(R, P, h, 4) /\ Plain(R, P, h, 5)
    BY SMTT(30), Steps DEF Plain, HeldAfter, Claims, Take, Give, Use, Draw
  <1>4. \A i \in 1 .. 5 : Plain(R, P, h, i)
    <2> HIDE DEF h, P
    <2> QED BY <1>3
  <1> HIDE DEF h, P
  <1>5. Fragment(R, P, Held(R, {}), Held(R, {}))
    BY <1>1, <1>2, <1>4, PlainParts
  <1> QED BY <1>5, RestHeld DEF Keeps, P

(* The same, with BACK half-way.                                           *)
LEMMA StoppableKeeps ==
  ASSUME NEW R, NEW r \in Claims
  PROVE  Keeps(R, <<Take(r), Use(r), Maybe(1), Use(r), Give(r)>>)
  <1> DEFINE h == <<{}, {r}, {r}, {r}, {r}, {}>>
             P == <<Take(r), Use(r), Maybe(1), Use(r), Give(r)>>
  <1>1. P \in Seq(Step) /\ Len(P) = 5
    BY Steps DEF Claims
  <1>2. h \in [1 .. 5 + 1 -> Holdings] /\ h[1] = {} /\ h[5 + 1] = {}
    BY SMTT(30), Kept DEF Claims
  <1>3. /\ Plain(R, P, h, 1) /\ Plain(R, P, h, 2) /\ Plain(R, P, h, 3)
        /\ Plain(R, P, h, 4) /\ Plain(R, P, h, 5)
    BY SMTT(30), Steps DEF Plain, HeldAfter, Claims, Take, Give, Use, Maybe
  <1>4. \A i \in 1 .. 5 : Plain(R, P, h, i)
    <2> HIDE DEF h, P
    <2> QED BY <1>3
  <1> HIDE DEF h, P
  <1>5. Fragment(R, P, Held(R, {}), Held(R, {}))
    BY <1>1, <1>2, <1>4, PlainParts
  <1> QED BY <1>5, RestHeld DEF Keeps, P

(* The motor demo: the PWM slice is released.                              *)
LEMMA MotorKeeps ==
  ASSUME NEW R
  PROVE  Keeps(R, motor_breathe)
  <1> DEFINE h == <<{}, {"motor"}, {}>>
  <1>1. motor_breathe \in Seq(Step) /\ Len(motor_breathe) = 2
    BY Steps DEF Claims, motor_breathe
  <1>2. h \in [1 .. 2 + 1 -> Holdings] /\ h[1] = {} /\ h[2 + 1] = {}
    BY Kept DEF Claims
  <1>3. /\ Plain(R, motor_breathe, h, 1) /\ Plain(R, motor_breathe, h, 2)
    BY Steps DEF Plain, HeldAfter, Claims, motor_breathe, Take, Give
  <1>4. \A i \in 1 .. 2 : Plain(R, motor_breathe, h, i)
    <2> HIDE DEF h
    <2> QED BY <1>3
  <1> HIDE DEF h
  <1>5. Fragment(R, motor_breathe, Held(R, {}), Held(R, {}))
    BY <1>1, <1>2, <1>4, PlainParts
  <1> QED BY <1>5, RestHeld DEF Keeps

(* The live readings of barometer, magnetometer and IMU release bus A      *)
(* after BACK.                                                             *)
LEMMA LiveKeeps ==
  ASSUME NEW R
  PROVE  Keeps(R, Live)
  <1> DEFINE h == <<{}, {"busA"}, {"busA"}, {"busA"}, {"busA"}, {"busA"}, {}>>
  <1>1. Live \in Seq(Step) /\ Len(Live) = 6
    BY Steps DEF Claims, Live
  <1>2. h \in [1 .. 6 + 1 -> Holdings] /\ h[1] = {} /\ h[6 + 1] = {}
    BY SMTT(30), Kept DEF Claims
  <1>3. /\ Plain(R, Live, h, 1) /\ Plain(R, Live, h, 2) /\ Plain(R, Live, h, 3)
        /\ Plain(R, Live, h, 4) /\ Plain(R, Live, h, 5) /\ Plain(R, Live, h, 6)
    BY Steps DEF Plain, HeldAfter, Claims, Live, Take, Give, Use, Draw, Wait
  <1>4. \A i \in 1 .. 6 : Plain(R, Live, h, i)
    <2> HIDE DEF h
    <2> QED BY <1>3
  <1> HIDE DEF h
  <1>5. Fragment(R, Live, Held(R, {}), Held(R, {}))
    BY <1>1, <1>2, <1>4, PlainParts
  <1> QED BY <1>5, RestHeld DEF Keeps

(* So does the GNSS information.                                           *)
LEMMA GnssInfoKeeps ==
  ASSUME NEW R
  PROVE  Keeps(R, gnss_info)
  <1> DEFINE h == <<{}, {"busA"}, {"busA"}, {"busA"}, {"busA"}, {}>>
  <1>1. gnss_info \in Seq(Step) /\ Len(gnss_info) = 5
    BY Steps DEF Claims, gnss_info
  <1>2. h \in [1 .. 5 + 1 -> Holdings] /\ h[1] = {} /\ h[5 + 1] = {}
    BY Kept DEF Claims
  <1>3. /\ Plain(R, gnss_info, h, 1) /\ Plain(R, gnss_info, h, 2) /\ Plain(R, gnss_info, h, 3)
        /\ Plain(R, gnss_info, h, 4) /\ Plain(R, gnss_info, h, 5)
    BY Steps DEF Plain, HeldAfter, Claims, gnss_info, Take, Give, Use, Draw, Wait
  <1>4. \A i \in 1 .. 5 : Plain(R, gnss_info, h, i)
    <2> HIDE DEF h
    <2> QED BY <1>3
  <1> HIDE DEF h
  <1>5. Fragment(R, gnss_info, Held(R, {}), Held(R, {}))
    BY <1>1, <1>2, <1>4, PlainParts
  <1> QED BY <1>5, RestHeld DEF Keeps

(* The charger page releases bus B.                                        *)
LEMMA ChargerDiagKeeps ==
  ASSUME NEW R
  PROVE  Keeps(R, charger_diag)
  <1> DEFINE h == <<{}, {"busB"}, {"busB"}, {"busB"}, {"busB"}, {}>>
  <1>1. charger_diag \in Seq(Step) /\ Len(charger_diag) = 5
    BY Steps DEF Claims, charger_diag
  <1>2. h \in [1 .. 5 + 1 -> Holdings] /\ h[1] = {} /\ h[5 + 1] = {}
    BY Kept DEF Claims
  <1>3. /\ Plain(R, charger_diag, h, 1) /\ Plain(R, charger_diag, h, 2) /\ Plain(R, charger_diag, h, 3)
        /\ Plain(R, charger_diag, h, 4) /\ Plain(R, charger_diag, h, 5)
    BY Steps DEF Plain, HeldAfter, Claims, charger_diag, Take, Give, Use, Draw, Wait
  <1>4. \A i \in 1 .. 5 : Plain(R, charger_diag, h, i)
    <2> HIDE DEF h
    <2> QED BY <1>3
  <1> HIDE DEF h
  <1>5. Fragment(R, charger_diag, Held(R, {}), Held(R, {}))
    BY <1>1, <1>2, <1>4, PlainParts
  <1> QED BY <1>5, RestHeld DEF Keeps

(* The gauge page releases bus B whether the gauge answers or not.         *)
LEMMA GaugeDiagKeeps ==
  ASSUME NEW R
  PROVE  Keeps(R, gauge_diag)
  <1> DEFINE h == <<{}, {"busB"}, {"busB"}, {"busB"}, {"busB"}, {"busB"}, {}, {"busB"}, {"busB"}, {}, {}>>
  <1>1. gauge_diag \in Seq(Step) /\ Len(gauge_diag) = 10
    BY Steps DEF Claims, gauge_diag
  <1>2. h \in [1 .. 10 + 1 -> Holdings] /\ h[1] = {} /\ h[10 + 1] = {}
    BY SMTT(30), Kept DEF Claims
  <1>3. /\ Plain(R, gauge_diag, h, 1) /\ Plain(R, gauge_diag, h, 2) /\ Plain(R, gauge_diag, h, 3)
        /\ Plain(R, gauge_diag, h, 4) /\ Plain(R, gauge_diag, h, 5) /\ Plain(R, gauge_diag, h, 6)
        /\ Plain(R, gauge_diag, h, 7) /\ Plain(R, gauge_diag, h, 8) /\ Plain(R, gauge_diag, h, 9)
        /\ Plain(R, gauge_diag, h, 10)
    BY Steps DEF Plain, HeldAfter, Claims, gauge_diag, Take, Give, Use, Draw, Wait, Maybe, Return
  <1>4. \A i \in 1 .. 10 : Plain(R, gauge_diag, h, i)
    <2> HIDE DEF h
    <2> QED BY <1>3
  <1> HIDE DEF h
  <1>5. Fragment(R, gauge_diag, Held(R, {}), Held(R, {}))
    BY <1>1, <1>2, <1>4, PlainParts
  <1> QED BY <1>5, RestHeld DEF Keeps

(* The loopback of microphone and amplifier releases both state machines.  *)
LEMMA LoopbackKeeps ==
  ASSUME NEW R
  PROVE  Keeps(R, mic_loopback)
  <1> DEFINE h == <<{}, {"amp"}, {"amp"}, {"amp", "mic"}, {"amp", "mic"}, {"amp", "mic"}, {"amp",
                    "mic"}, {"amp", "mic"}, {"amp"}, {}>>
  <1>1. mic_loopback \in Seq(Step) /\ Len(mic_loopback) = 9
    BY Steps DEF Claims, mic_loopback
  <1>2. h \in [1 .. 9 + 1 -> Holdings] /\ h[1] = {} /\ h[9 + 1] = {}
    BY SMTT(30), Kept, KeptPairs DEF Claims
  <1>3. /\ Plain(R, mic_loopback, h, 1) /\ Plain(R, mic_loopback, h, 2) /\ Plain(R, mic_loopback, h, 3)
        /\ Plain(R, mic_loopback, h, 4) /\ Plain(R, mic_loopback, h, 5) /\ Plain(R, mic_loopback, h, 6)
        /\ Plain(R, mic_loopback, h, 7) /\ Plain(R, mic_loopback, h, 8) /\ Plain(R, mic_loopback, h, 9)
    BY Steps DEF Plain, HeldAfter, Claims, mic_loopback, Take, Give, Use, Maybe
  <1>4. \A i \in 1 .. 9 : Plain(R, mic_loopback, h, i)
    <2> HIDE DEF h
    <2> QED BY <1>3
  <1> HIDE DEF h
  <1>5. Fragment(R, mic_loopback, Held(R, {}), Held(R, {}))
    BY <1>1, <1>2, <1>4, PlainParts
  <1> QED BY <1>5, RestHeld DEF Keeps

(* The core 1 test releases its spin lock and resets core 1.               *)
LEMMA Core1Keeps ==
  ASSUME NEW R
  PROVE  Keeps(R, core1_test)
  <1> DEFINE h == <<{}, {"lock"}, {"lock", "core1"}, {"lock", "core1"}, {"lock", "core1"}, {"lock"}, {}, {}>>
  <1>1. core1_test \in Seq(Step) /\ Len(core1_test) = 7
    BY Steps DEF Claims, core1_test
  <1>2. h \in [1 .. 7 + 1 -> Holdings] /\ h[1] = {} /\ h[7 + 1] = {}
    BY Kept, KeptPairs DEF Claims
  <1>3. /\ Plain(R, core1_test, h, 1) /\ Plain(R, core1_test, h, 2) /\ Plain(R, core1_test, h, 3)
        /\ Plain(R, core1_test, h, 4) /\ Plain(R, core1_test, h, 5) /\ Plain(R, core1_test, h, 6)
        /\ Plain(R, core1_test, h, 7)
    BY Steps DEF Plain, HeldAfter, Claims, core1_test, Take, Give, Use, Maybe, Wait
  <1>4. \A i \in 1 .. 7 : Plain(R, core1_test, h, i)
    <2> HIDE DEF h
    <2> QED BY <1>3
  <1> HIDE DEF h
  <1>5. Fragment(R, core1_test, Held(R, {}), Held(R, {}))
    BY <1>1, <1>2, <1>4, PlainParts
  <1> QED BY <1>5, RestHeld DEF Keeps

(* The key monitor holds nothing.                                          *)
LEMMA KeyMonitorKeeps ==
  ASSUME NEW R
  PROVE  Keeps(R, key_monitor)
  <1> DEFINE h == <<{}, {}, {}>>
  <1>1. key_monitor \in Seq(Step) /\ Len(key_monitor) = 2
    BY Steps DEF Claims, key_monitor
  <1>2. h \in [1 .. 2 + 1 -> Holdings] /\ h[1] = {} /\ h[2 + 1] = {}
    BY Kept DEF Claims
  <1>3. /\ Plain(R, key_monitor, h, 1) /\ Plain(R, key_monitor, h, 2)
    BY Steps DEF Plain, HeldAfter, Claims, key_monitor, Keys
  <1>4. \A i \in 1 .. 2 : Plain(R, key_monitor, h, i)
    <2> HIDE DEF h
    <2> QED BY <1>3
  <1> HIDE DEF h
  <1>5. Fragment(R, key_monitor, Held(R, {}), Held(R, {}))
    BY <1>1, <1>2, <1>4, PlainParts
  <1> QED BY <1>5, RestHeld DEF Keeps

(* Nor does the key test on the display.                                   *)
LEMMA KeyTftKeeps ==
  ASSUME NEW R
  PROVE  Keeps(R, key_tft_test)
  <1> DEFINE h == <<{}, {}, {}>>
  <1>1. key_tft_test \in Seq(Step) /\ Len(key_tft_test) = 2
    BY Steps DEF Claims, key_tft_test
  <1>2. h \in [1 .. 2 + 1 -> Holdings] /\ h[1] = {} /\ h[2 + 1] = {}
    BY Kept DEF Claims
  <1>3. /\ Plain(R, key_tft_test, h, 1) /\ Plain(R, key_tft_test, h, 2)
    BY Steps DEF Plain, HeldAfter, Claims, key_tft_test, Keys, Draw
  <1>4. \A i \in 1 .. 2 : Plain(R, key_tft_test, h, i)
    <2> HIDE DEF h
    <2> QED BY <1>3
  <1> HIDE DEF h
  <1>5. Fragment(R, key_tft_test, Held(R, {}), Held(R, {}))
    BY <1>1, <1>2, <1>4, PlainParts
  <1> QED BY <1>5, RestHeld DEF Keeps

(* The backlight on, or off, while other things are held.                  *)
LEMMA LitUpRuns ==
  ASSUME NEW R, NEW k \in SUBSET (Claims \ {"busA", "busB"})
  PROVE  Fragment(R, LitUp, Held(R, k), Held(R, k))
  <1> DEFINE h == <<k, k \cup {"busB"}, k \cup {"busB"}, k \cup {"busB"}, k>>
  <1>1. LitUp \in Seq(Step) /\ Len(LitUp) = 4
    BY Steps DEF Claims, LitUp, Light
  <1>2. h \in [1 .. 4 + 1 -> Holdings] /\ h[1] = k /\ h[4 + 1] = k
    BY Kept, KeptPairs DEF Claims
  <1>3. /\ Plain(R, LitUp, h, 1) /\ Plain(R, LitUp, h, 2) /\ Plain(R, LitUp, h, 3)
        /\ Plain(R, LitUp, h, 4)
    BY Steps DEF Plain, HeldAfter, Claims, LitUp, Take, Give, Use, Light
  <1>4. \A i \in 1 .. 4 : Plain(R, LitUp, h, i)
    <2> HIDE DEF h
    <2> QED BY <1>3
  <1> HIDE DEF h
  <1>5. Fragment(R, LitUp, Held(R, k), Held(R, k))
    BY <1>1, <1>2, <1>4, PlainParts
  <1> QED BY <1>5, RestHeld DEF Keeps

(* The same with the backlight off.                                        *)
LEMMA LitOffRuns ==
  ASSUME NEW R, NEW k \in SUBSET (Claims \ {"busA", "busB"})
  PROVE  Fragment(R, LitOff, Held(R, k), Held(R, k))
  <1> DEFINE h == <<k, k \cup {"busB"}, k \cup {"busB"}, k \cup {"busB"}, k>>
  <1>1. LitOff \in Seq(Step) /\ Len(LitOff) = 4
    BY Steps DEF Claims, LitOff, Light
  <1>2. h \in [1 .. 4 + 1 -> Holdings] /\ h[1] = k /\ h[4 + 1] = k
    BY Kept, KeptPairs DEF Claims
  <1>3. /\ Plain(R, LitOff, h, 1) /\ Plain(R, LitOff, h, 2) /\ Plain(R, LitOff, h, 3)
        /\ Plain(R, LitOff, h, 4)
    BY Steps DEF Plain, HeldAfter, Claims, LitOff, Take, Give, Use, Light
  <1>4. \A i \in 1 .. 4 : Plain(R, LitOff, h, i)
    <2> HIDE DEF h
    <2> QED BY <1>3
  <1> HIDE DEF h
  <1>5. Fragment(R, LitOff, Held(R, k), Held(R, k))
    BY <1>1, <1>2, <1>4, PlainParts
  <1> QED BY <1>5, RestHeld DEF Keeps

(* The LED page, between the start and the end of bus B.                   *)
LEMMA LedRuns ==
  ASSUME NEW R
  PROVE  Fragment(R, led_control, Held(R, {"busB"}), Held(R, {"busB"}))
  <1> DEFINE h == <<{"busB"}, {"busB"}, {"busB"}, {"busB"}, {"busB"}, {"busB"}, {"busB"}>>
  <1>1. led_control \in Seq(Step) /\ Len(led_control) = 6
    BY Steps DEF Claims, led_control, Light
  <1>2. h \in [1 .. 6 + 1 -> Holdings] /\ h[1] = {"busB"} /\ h[6 + 1] = {"busB"}
    BY Kept DEF Claims
  <1>3. /\ Plain(R, led_control, h, 1) /\ Plain(R, led_control, h, 2) /\ Plain(R, led_control, h, 3)
        /\ Plain(R, led_control, h, 4) /\ Plain(R, led_control, h, 5) /\ Plain(R, led_control, h, 6)
    BY Steps DEF Plain, HeldAfter, Claims, led_control, Use, Light, Draw, Keys, Wait
  <1>4. \A i \in 1 .. 6 : Plain(R, led_control, h, i)
    <2> HIDE DEF h
    <2> QED BY <1>3
  <1> HIDE DEF h
  <1>5. Fragment(R, led_control, Held(R, {"busB"}), Held(R, {"busB"}))
    BY <1>1, <1>2, <1>4, PlainParts
  <1> QED BY <1>5, RestHeld DEF Keeps

(* Charging on is written with bus B held, and the bus is released.        *)
LEMMA ChargeOnKeeps ==
  ASSUME NEW R, "uncharged" \notin R
  PROVE  Keeps(R, charge_on)
  <1> DEFINE h == <<{}, {"busB"}, {"busB"}, {"busB"}, {}>>
  <1>1. charge_on \in Seq(Step) /\ Len(charge_on) = 4
    BY Steps DEF Claims, charge_on
  <1>2. h \in [1 .. 4 + 1 -> Holdings] /\ h[1] = {} /\ h[4 + 1] = {}
    BY Kept DEF Claims
  <1>3. /\ Plain(R, charge_on, h, 1) /\ Plain(R, charge_on, h, 2) /\ Plain(R, charge_on, h, 3)
        /\ Plain(R, charge_on, h, 4)
    BY Steps DEF Plain, HeldAfter, Claims, charge_on, Take, Give, Use, Charge
  <1>4. \A i \in 1 .. 4 : Plain(R, charge_on, h, i)
    <2> HIDE DEF h
    <2> QED BY <1>3
  <1> HIDE DEF h
  <1>5. Fragment(R, charge_on, Held(R, {}), Held(R, {}))
    BY <1>1, <1>2, <1>4, PlainParts
  <1> QED BY <1>5, RestHeld DEF Keeps

(* So is charging off.                                                     *)
LEMMA ChargeOffKeeps ==
  ASSUME NEW R, "uncharged" \notin R
  PROVE  Keeps(R, charge_off)
  <1> DEFINE h == <<{}, {"busB"}, {"busB"}, {"busB"}, {}>>
  <1>1. charge_off \in Seq(Step) /\ Len(charge_off) = 4
    BY Steps DEF Claims, charge_off
  <1>2. h \in [1 .. 4 + 1 -> Holdings] /\ h[1] = {} /\ h[4 + 1] = {}
    BY Kept DEF Claims
  <1>3. /\ Plain(R, charge_off, h, 1) /\ Plain(R, charge_off, h, 2) /\ Plain(R, charge_off, h, 3)
        /\ Plain(R, charge_off, h, 4)
    BY Steps DEF Plain, HeldAfter, Claims, charge_off, Take, Give, Use, Charge
  <1>4. \A i \in 1 .. 4 : Plain(R, charge_off, h, i)
    <2> HIDE DEF h
    <2> QED BY <1>3
  <1> HIDE DEF h
  <1>5. Fragment(R, charge_off, Held(R, {}), Held(R, {}))
    BY <1>1, <1>2, <1>4, PlainParts
  <1> QED BY <1>5, RestHeld DEF Keeps

(* A step that claims and releases nothing; one that claims; one that      *)
(* releases.                                                               *)
Idles(R, t) ==
  /\ t \in Step
  /\ t.op \notin {"take", "give", "use", "light", "charge", "mem", "maybe", "selected", "return"}

(* Single steps of a command that leaves the memory interface at rest.     *)
LEMMA SingleSteps ==
  ASSUME NEW R, NEW k \in Holdings
  PROVE  /\ \A t : Idles(R, t) => Fragment(R, <<t>>, Held(R, k), Held(R, k))
         /\ \A r \in Claims : r \notin k /\ k \cup {r} \in Holdings =>
              Fragment(R, <<Take(r)>>, Held(R, k), Held(R, k \cup {r}))
         /\ \A r \in Claims : Fragment(R, <<Give(r)>>, Held(R, k), Held(R, k \ {r}))
         /\ \A r \in Claims : r \in k => Fragment(R, <<Use(r)>>, Held(R, k), Held(R, k))
  <1>1. ASSUME NEW t \in Step, t.op \notin {"mem", "maybe", "selected", "return", "charge", "light"},
               t.op = "take" => t.arg \notin k, t.op = "use" => t.arg \in k,
               HeldAfter(t, k) \in Holdings
        PROVE  Fragment(R, <<t>>, Held(R, k), Held(R, HeldAfter(t, k)))
    <2>1. Allowed(R, t, Held(R, k))
      BY <1>1, HeldPoints DEF Allowed
    <2>2. Within(After(t, Held(R, k)), Held(R, HeldAfter(t, k)))
      BY <1>1, HeldPoints DEF Within, After, Point, MemAfter
    <2> QED BY <1>1, <2>1, <2>2, HeldPoints, OneStep
  <1>2. \A t : Idles(R, t) => Fragment(R, <<t>>, Held(R, k), Held(R, k))
    <2> SUFFICES ASSUME NEW t, Idles(R, t) PROVE Fragment(R, <<t>>, Held(R, k), Held(R, k))
      OBVIOUS
    <2>1. HeldAfter(t, k) = k
      BY DEF HeldAfter, Idles
    <2> QED BY <1>1, <2>1 DEF Idles
  <1>3. ASSUME NEW r \in Claims, r \notin k, k \cup {r} \in Holdings
        PROVE  Fragment(R, <<Take(r)>>, Held(R, k), Held(R, k \cup {r}))
    <2>1. HeldAfter(Take(r), k) = k \cup {r} /\ Take(r).op = "take" /\ Take(r).arg = r
      BY DEF HeldAfter, Take
    <2> QED BY <1>1, <1>3, <2>1, Steps
  <1>4. ASSUME NEW r \in Claims
        PROVE  Fragment(R, <<Give(r)>>, Held(R, k), Held(R, k \ {r}))
    <2>1. HeldAfter(Give(r), k) = k \ {r} /\ Give(r).op = "give" /\ k \ {r} \in Holdings
      BY DEF HeldAfter, Give, Holdings
    <2> QED BY <1>1, <2>1, Steps
  <1>5. ASSUME NEW r \in Claims, r \in k
        PROVE  Fragment(R, <<Use(r)>>, Held(R, k), Held(R, k))
    <2>1. HeldAfter(Use(r), k) = k /\ Use(r).op = "use" /\ Use(r).arg = r
      BY DEF HeldAfter, Use
    <2> QED BY <1>1, <1>5, <2>1, Steps
  <1> QED BY <1>2, <1>3, <1>4, <1>5

(* Drawing, waiting, an access and the pins of keypad and display claim    *)
(* nothing.                                                                *)
LEMMA IdleSteps ==
  ASSUME NEW R
  PROVE  /\ Idles(R, Draw) /\ Idles(R, Wait) /\ Idles(R, Access) /\ Idles(R, Fetch)
         /\ \A k \in {"all", "none", "back", "noback"} : Idles(R, Keys(k))
         /\ \A t \in {"reinit", "start", "stop"} : Idles(R, Tft(t))
  BY Steps DEF Idles, Draw, Wait, Access, Fetch, Keys, Tft

(* The steps that follow a return are left out.                            *)
LEMMA ReturnEnds ==
  ASSUME NEW R, NEW b \in Points
  PROVE  Fragment(R, <<Return>>, AtRest(R), b)
  <1> DEFINE H == <<AtRest(R), b>>
  <1>1. AtRest(R) \in Points
    BY RestHeld, HeldPoints
  <1>2. /\ <<Return>> \in Seq(Step) /\ Len(<<Return>>) = 1 /\ <<Return>>[1] = Return
        /\ H \in [1 .. 2 -> Points] /\ H[1] = AtRest(R) /\ H[2] = b
    BY <1>1, Steps
  <1> HIDE DEF H
  <1>3. Allowed(R, Return, AtRest(R)) /\ Return.op = "return"
    BY RestHeld, HeldPoints DEF Allowed, Return
  <1>4. Leads(R, <<Return>>, H, 1)
    BY <1>2, <1>3 DEF Leads, Within
  <1>5. Annotates(R, H, <<Return>>)
    BY <1>2, <1>4 DEF Annotates
  <1> QED BY <1>2, <1>5 DEF Fragment, Within

(* A jump over what may as well be done, in a command that leaves the      *)
(* memory interface alone.                                                 *)
LEMMA HeldSkipped ==
  ASSUME NEW R, NEW P, NEW k \in Holdings, NEW n, n = Len(P),
         Fragment(R, P, Held(R, k), Held(R, k))
  PROVE  /\ Fragment(R, <<Maybe(n)>> \o P, Held(R, k), Held(R, k))
         /\ Fragment(R, <<Selected(n)>> \o P, Held(R, k), Held(R, k))
  <1>1. \A o \in {"maybe", "selected"} : Allowed(R, [op |-> o, arg |-> n], Held(R, k))
    BY HeldPoints DEF Allowed
  <1>2. Within(Held(R, k), Held(R, k))
    BY DEF Within
  <1> QED BY <1>1, <1>2, HeldPoints, Skipped DEF Maybe, Selected

(* Two steps are one after another one.                                    *)
LEMMA TwoSteps ==
  ASSUME NEW a, NEW b
  PROVE  <<a, b>> = <<a>> \o <<b>>
  <1> DEFINE S == {a, b}
  <1>1. a \in S /\ b \in S
    OBVIOUS
  <1> HIDE DEF S
  <1>2. <<a>> \in Seq(S) /\ <<a, b>> = Append(<<a>>, b)
    BY <1>1, PairIs
  <1> QED BY <1>1, <1>2, AppendIsConcat

(* Two, three or four steps.                                               *)
LEMMA Several ==
  ASSUME NEW R, NEW a, NEW b, NEW x, NEW y, Fragment(R, <<a>>, x, y)
  PROVE  /\ \A z : Fragment(R, <<b>>, y, z) => Fragment(R, <<a, b>>, x, z)
         /\ \A z, c : Fragment(R, <<b, c>>, y, z) => Fragment(R, <<a, b, c>>, x, z)
         /\ \A z, c, d : Fragment(R, <<b, c, d>>, y, z) => Fragment(R, <<a, b, c, d>>, x, z)
  <1>1. <<a, b>> = <<a>> \o <<b>>
    BY TwoSteps
  <1>2. ASSUME NEW c PROVE <<a, b, c>> = <<a>> \o <<b, c>>
    OBVIOUS
  <1>3. ASSUME NEW c, NEW d PROVE <<a, b, c, d>> = <<a>> \o <<b, c, d>>
    OBVIOUS
  <1>4. \A z : Fragment(R, <<b>>, y, z) => Fragment(R, <<a, b>>, x, z)
    BY <1>1, Joined
  <1>5. \A z, c : Fragment(R, <<b, c>>, y, z) => Fragment(R, <<a, b, c>>, x, z)
    BY <1>2, Joined
  <1>6. \A z, c, d : Fragment(R, <<b, c, d>>, y, z) => Fragment(R, <<a, b, c, d>>, x, z)
    BY <1>3, Joined
  <1> QED BY <1>4, <1>5, <1>6

(* The grouping of concatenations does not matter.                         *)
LEMMA Associated == \A a, b, c \in Seq(Step) : (a \o b) \o c = a \o (b \o c)
  BY ConcatAssociative

(* The concatenation of sequences of steps is one.                         *)
LEMMA Concatenated == \A a, b \in Seq(Step) : a \o b \in Seq(Step)
  BY ConcatProperties

(* Its length.                                                             *)
LEMMA Lengths == \A a, b \in Seq(Step) : Len(a \o b) = Len(a) + Len(b)
  BY ConcatProperties

(* Concatenation as an opaque operator, for the longer sequences.          *)
Then(a, b) == a \o b
Programs == Seq(Step)

(* The same, on the opaque form.                                           *)
LEMMA ThenProperties ==
  /\ \A a, b, c \in Programs : Then(Then(a, b), c) = Then(a, Then(b, c))
  /\ \A a, b \in Programs : Then(a, b) \in Programs
  <1>1. ASSUME NEW a \in Seq(Step), NEW b \in Seq(Step), NEW c \in Seq(Step)
        PROVE  Then(Then(a, b), c) = Then(a, Then(b, c))
    <2>1. (a \o b) \o c = a \o (b \o c) BY ConcatAssociative
    <2> QED BY <2>1 DEF Then
  <1>2. \A a, b \in Seq(Step) : Then(a, b) \in Seq(Step)
    BY ConcatProperties DEF Then
  <1> QED BY <1>1, <1>2 DEF Programs

(* Four sequences, grouped from the left and from the right.               *)
LEMMA Four ==
  ASSUME NEW x \in Programs, NEW a \in Programs, NEW b \in Programs, NEW c \in Programs
  PROVE  Then(Then(Then(x, a), b), c) = Then(x, Then(a, Then(b, c)))
  BY ThenProperties

(* Seven sequences, as the retries of the gauge put them together.         *)
LEMMA Seven ==
  ASSUME NEW x \in Programs, NEW a \in Programs, NEW b \in Programs, NEW c \in Programs,
         NEW d \in Programs
  PROVE  Then(Then(Then(Then(Then(Then(x, a), b), c), b), d), b)
         = Then(x, Then(a, Then(b, Then(c, Then(b, Then(d, b))))))
  <1> DEFINE p == Then(x, a)
             q == Then(p, b)
             r == Then(q, c)
             u == Then(b, Then(d, b))
             v == Then(c, u)
             w == Then(b, v)
  <1>1. p \in Programs /\ u \in Programs
    BY ThenProperties
  <1> HIDE DEF p, u
  <1>2. q \in Programs /\ v \in Programs
    BY <1>1, ThenProperties
  <1> HIDE DEF q, v
  <1>3. r \in Programs /\ w \in Programs
    BY <1>2, ThenProperties
  <1> HIDE DEF r, w
  <1>4. Then(Then(Then(r, b), d), b) = Then(r, u)
    BY <1>3, Four DEF u
  <1>5. Then(r, u) = Then(q, v)
    BY <1>1, <1>2, ThenProperties DEF r, v
  <1>6. Then(q, v) = Then(p, w)
    BY <1>1, <1>2, ThenProperties DEF q, w
  <1>7. Then(p, w) = Then(x, Then(a, w))
    BY <1>3, ThenProperties DEF p
  <1>8. Then(Then(Then(r, b), d), b) = Then(x, Then(a, w))
    BY <1>4, <1>5, <1>6, <1>7
  <1> QED BY <1>8 DEF w, v, u, r, q, p

(* The LED page releases bus B.                                            *)
LEMMA LedKeeps ==
  ASSUME NEW R
  PROVE  Keeps(R, led)
  <1>1. Fragment(R, <<Take("busB")>>, Held(R, {}), Held(R, {"busB"}))
    BY SingleSteps, Kept, {} \cup {"busB"} = {"busB"} DEF Claims
  <1>2. Fragment(R, <<Give("busB")>>, Held(R, {"busB"}), Held(R, {}))
    BY SingleSteps, Kept, {"busB"} \ {"busB"} = {} DEF Claims
  <1> QED BY <1>1, <1>2, LedRuns, Joined, RestHeld DEF led, Keeps

(* The display test releases the panel's state machine and bus B.          *)
LEMMA TftTestKeeps ==
  ASSUME NEW R
  PROVE  Keeps(R, tft_test)
  <1>0. /\ "panel" \in Claims /\ {} \in Holdings /\ {"panel"} \in Holdings
        /\ {} \cup {"panel"} = {"panel"} /\ {"panel"} \ {"panel"} = {}
        /\ {"panel"} \in SUBSET (Claims \ {"busA", "busB"})
    BY Kept DEF Claims
  <1>1. Fragment(R, <<Tft("stop"), Take("panel")>>, Held(R, {}), Held(R, {"panel"}))
    <2>1. Fragment(R, <<Tft("stop")>>, Held(R, {}), Held(R, {}))
      BY <1>0, SingleSteps, IdleSteps
    <2>2. Fragment(R, <<Take("panel")>>, Held(R, {}), Held(R, {"panel"}))
      BY <1>0, SingleSteps
    <2> QED BY <2>1, <2>2, Several
  <1>2. Fragment(R, LitUp, Held(R, {"panel"}), Held(R, {"panel"}))
    BY <1>0, LitUpRuns
  <1>3. Fragment(R, <<Give("panel")>>, Held(R, {"panel"}), Held(R, {}))
    BY <1>0, SingleSteps
  <1>4. Fragment(R, menu_tft_reinit, Held(R, {}), Held(R, {}))
    BY <1>0, SingleSteps, IdleSteps DEF menu_tft_reinit
  <1>5. Fragment(R, <<Draw, Wait>>, Held(R, {}), Held(R, {}))
    BY <1>0, SingleSteps, IdleSteps, Several
  <1> QED BY <1>1, <1>2, <1>3, <1>4, <1>5, Joined, RestHeld DEF tft_test, Keeps

(* The live GNSS displays release both buses, one after the other.         *)
LEMMA LiveGnssKeeps ==
  ASSUME NEW R
  PROVE  Keeps(R, LiveGnss)
  <1>0. /\ "busA" \in Claims /\ {} \in Holdings /\ {"busA"} \in Holdings
        /\ {} \cup {"busA"} = {"busA"} /\ {"busA"} \ {"busA"} = {} /\ "busA" \in {"busA"}
        /\ {} \in SUBSET (Claims \ {"busA", "busB"})
    BY Kept DEF Claims
  <1>1. Fragment(R, <<Tft("stop"), Tft("start")>>, Held(R, {}), Held(R, {}))
    BY <1>0, SingleSteps, IdleSteps, Several
  <1>2. Fragment(R, LitUp, Held(R, {}), Held(R, {}))
    BY <1>0, LitUpRuns
  <1>3. Fragment(R, <<Keys("back"), Draw>>, Held(R, {}), Held(R, {}))
    BY <1>0, SingleSteps, IdleSteps, Several
  <1>4. Fragment(R, <<Take("busA"), Use("busA"), Draw, Wait>>, Held(R, {}), Held(R, {"busA"}))
    <2>1. Fragment(R, <<Take("busA")>>, Held(R, {}), Held(R, {"busA"}))
      BY <1>0, SingleSteps
    <2>2. Fragment(R, <<Use("busA")>>, Held(R, {"busA"}), Held(R, {"busA"}))
      BY <1>0, SingleSteps
    <2>3. Fragment(R, <<Draw, Wait>>, Held(R, {"busA"}), Held(R, {"busA"}))
      BY <1>0, SingleSteps, IdleSteps, Several
    <2>4. Fragment(R, <<Use("busA"), Draw, Wait>>, Held(R, {"busA"}), Held(R, {"busA"}))
      BY <2>2, <2>3, Several
    <2> QED BY <2>1, <2>4, Several
  <1>5. Fragment(R, <<Keys("noback"), Give("busA")>>, Held(R, {"busA"}), Held(R, {}))
    <2>1. Fragment(R, <<Keys("noback")>>, Held(R, {"busA"}), Held(R, {"busA"}))
      BY <1>0, SingleSteps, IdleSteps
    <2>2. Fragment(R, <<Give("busA")>>, Held(R, {"busA"}), Held(R, {}))
      BY <1>0, SingleSteps
    <2> QED BY <2>1, <2>2, Several
  <1>6. Fragment(R, LitOff, Held(R, {}), Held(R, {}))
    BY <1>0, LitOffRuns
  <1>7. Fragment(R, <<Tft("stop")>>, Held(R, {}), Held(R, {}))
    BY <1>0, SingleSteps, IdleSteps
  <1> QED BY <1>1, <1>2, <1>3, <1>4, <1>5, <1>6, <1>7, Joined, RestHeld DEF LiveGnss, Keeps

(* The end of the frame-rate tests: DMA channel and state machine.         *)
LEMMA FastCleanupRuns ==
  ASSUME NEW R
  PROVE  Fragment(R, FastCleanup, Held(R, {"panel", "dma"}), Held(R, {}))
  <1>1. /\ "panel" \in Claims /\ "dma" \in Claims
        /\ {"panel", "dma"} \in Holdings /\ {"panel"} \in Holdings
        /\ {"panel", "dma"} \ {"dma"} = {"panel"} /\ {"panel"} \ {"panel"} = {}
    BY Kept, KeptPairs DEF Claims
  <1>2. Fragment(R, <<Give("dma")>>, Held(R, {"panel", "dma"}), Held(R, {"panel"}))
    BY <1>1, SingleSteps
  <1>3. Fragment(R, <<Give("panel")>>, Held(R, {"panel"}), Held(R, {}))
    BY <1>1, SingleSteps
  <1> QED BY <1>2, <1>3, Several DEF FastCleanup

(* The frame-rate tests return with everything released, or are left out   *)
(* by BACK.                                                                *)
LEMMA FastTestsRun ==
  ASSUME NEW R
  PROVE  Fragment(R, FastTests, Held(R, {"panel", "dma"}), Held(R, {"panel", "dma"}))
  <1> DEFINE k == {"panel", "dma"}
  <1>1. k \in Holdings /\ {} \in Holdings /\ k \in SUBSET (Claims \ {"busA", "busB"})
    BY Kept, KeptPairs DEF Claims
  <1> HIDE DEF k
  <1>2. Fragment(R, LitUp, Held(R, k), Held(R, k))
    BY <1>1, LitUpRuns
  <1>3. Fragment(R, <<Maybe(Len(LitUp))>> \o LitUp, Held(R, k), Held(R, k))
    BY <1>1, <1>2, HeldSkipped
  <1>4. Fragment(R, FastCleanup, Held(R, k), Held(R, {}))
    BY FastCleanupRuns DEF k
  <1>5. Fragment(R, menu_tft_reinit, Held(R, {}), Held(R, {}))
    BY <1>1, SingleSteps, IdleSteps DEF menu_tft_reinit
  <1>6. Fragment(R, <<Draw, Wait, Return>>, Held(R, {}), Held(R, k))
    <2>1. Fragment(R, <<Return>>, Held(R, {}), Held(R, k))
      BY <1>1, HeldPoints, ReturnEnds, RestHeld
    <2>2. Fragment(R, <<Draw>>, Held(R, {}), Held(R, {})) /\ Fragment(R, <<Wait>>, Held(R, {}), Held(R, {}))
      BY <1>1, SingleSteps, IdleSteps
    <2>3. Fragment(R, <<Wait, Return>>, Held(R, {}), Held(R, k))
      BY <2>1, <2>2, Several
    <2> QED BY <2>2, <2>3, Several
  <1>7. Fragment(R, FastTests, Held(R, k), Held(R, k))
    BY <1>3, <1>4, <1>5, <1>6, Joined DEF FastTests
  <1> QED BY <1>7 DEF k

(* The frame-rate tests release what they claim wherever BACK ends them.   *)
LEMMA TftFastKeeps ==
  ASSUME NEW R
  PROVE  Keeps(R, tft_fast_test)
  <1> DEFINE k == {"panel", "dma"}
             A == <<Tft("stop"), Take("panel")>> \o LitUp
             F == <<Maybe(Len(FastTests))>> \o FastTests
  <1>0. /\ "panel" \in Claims /\ "dma" \in Claims
        /\ {} \in Holdings /\ {"panel"} \in Holdings /\ k \in Holdings
        /\ {} \cup {"panel"} = {"panel"} /\ {"panel"} \cup {"dma"} = k
        /\ "dma" \notin {"panel"} /\ {"panel"} \in SUBSET (Claims \ {"busA", "busB"})
    BY Kept, KeptPairs DEF Claims
  <1>1. Fragment(R, <<Tft("stop"), Take("panel")>>, Held(R, {}), Held(R, {"panel"}))
    <2>1. Fragment(R, <<Tft("stop")>>, Held(R, {}), Held(R, {}))
      BY <1>0, SingleSteps, IdleSteps
    <2>2. Fragment(R, <<Take("panel")>>, Held(R, {}), Held(R, {"panel"}))
      BY <1>0, SingleSteps
    <2> QED BY <2>1, <2>2, Several
  <1>2. Fragment(R, LitUp, Held(R, {"panel"}), Held(R, {"panel"}))
    BY <1>0, LitUpRuns
  <1>3. Fragment(R, A, Held(R, {}), Held(R, {"panel"}))
    BY <1>1, <1>2, Joined
  <1>4. Fragment(R, <<Take("dma")>>, Held(R, {"panel"}), Held(R, k))
    BY <1>0, SingleSteps
  <1>5. Fragment(R, F, Held(R, k), Held(R, k))
    BY <1>0, FastTestsRun, HeldSkipped
  <1>6. Fragment(R, FastCleanup, Held(R, k), Held(R, {}))
    BY FastCleanupRuns
  <1>7. Fragment(R, (A \o (<<Take("dma")>> \o F)) \o FastCleanup, Held(R, {}), Held(R, {}))
    <2> HIDE DEF A, F, k
    <2> QED BY <1>3, <1>4, <1>5, <1>6, Joined
  <1>8. tft_fast_test = (A \o (<<Take("dma")>> \o F)) \o FastCleanup
    <2> DEFINE t == <<Take("dma")>>
               m == <<Maybe(Len(FastTests))>>
               G == FastTests
    <2>1. <<Take("dma"), Maybe(Len(FastTests))>> = t \o m
      BY TwoSteps
    <2>2. A \in Seq(Step) /\ t \in Seq(Step) /\ m \in Seq(Step) /\ G \in Seq(Step)
      <3>1. Len(FastTests) \in Nat /\ G \in Seq(Step)
        BY FastTestsRun, LenProperties DEF Fragment
      <3>2. A \in Seq(Step)
        BY <1>3 DEF Fragment
      <3> QED BY <3>1, <3>2, <1>0, Steps
    <2>3. tft_fast_test = ((A \o (t \o m)) \o G) \o FastCleanup
      BY <2>1 DEF tft_fast_test
    <2> HIDE DEF A, t, m, G
    <2>4. t \o m \in Seq(Step)
      BY <2>2, Associated, Concatenated
    <2>5. (A \o (t \o m)) \o G = A \o ((t \o m) \o G)
      BY SMTT(30), <2>2, <2>4, Associated, Concatenated
    <2>6. (t \o m) \o G = t \o (m \o G)
      BY SMTT(30), <2>2, Associated, Concatenated
    <2> QED BY <2>3, <2>5, <2>6 DEF t, m, G
  <1> QED BY <1>7, <1>8, RestHeld DEF Keeps

(* Not answering devices.                                                  *)
LEMMA RecoverRuns ==
  ASSUME NEW R
  PROVE  Fragment(R, Recover, Held(R, {"busB"}), Held(R, {"busB"})) /\ Len(Recover) = 3
  <1>1. /\ "busB" \in Claims /\ {} \in Holdings /\ {"busB"} \in Holdings
        /\ {} \cup {"busB"} = {"busB"} /\ {"busB"} \ {"busB"} = {} /\ "busB" \in {"busB"}
    BY Kept DEF Claims
  <1>2. Fragment(R, <<Give("busB")>>, Held(R, {"busB"}), Held(R, {}))
    BY <1>1, SingleSteps
  <1>3. Fragment(R, <<Take("busB")>>, Held(R, {}), Held(R, {"busB"}))
    BY <1>1, SingleSteps
  <1>4. Fragment(R, <<Use("busB")>>, Held(R, {"busB"}), Held(R, {"busB"}))
    BY <1>1, SingleSteps
  <1>5. Fragment(R, <<Take("busB"), Use("busB")>>, Held(R, {}), Held(R, {"busB"}))
    BY <1>3, <1>4, Several
  <1> QED BY <1>2, <1>5, Several DEF Recover

(* The gauge is read with up to three retries, each of which releases bus  *)
(* B and claims it again.                                                  *)
LEMMA GaugeKeeps ==
  ASSUME NEW R
  PROVE  Keeps(R, bq27441_read)
  <1> DEFINE k == {"busB"}
             X == <<Take("busB"), Use("busB")>>
             W3 == <<Maybe(3)>> \o Recover
             V2 == Recover \o W3
             W2 == <<Maybe(7)>> \o V2
             V1 == Recover \o W2
             W1 == <<Maybe(11)>> \o V1
             Z == <<Maybe(1), Use("busB"), Give("busB")>>
  <1>0. /\ "busB" \in Claims /\ {} \in Holdings /\ k \in Holdings
        /\ {} \cup {"busB"} = k /\ k \ {"busB"} = {} /\ "busB" \in k
    BY Kept DEF Claims
  <1>1. Fragment(R, X, Held(R, {}), Held(R, k))
    <2>1. Fragment(R, <<Take("busB")>>, Held(R, {}), Held(R, k))
      BY <1>0, SingleSteps
    <2>2. Fragment(R, <<Use("busB")>>, Held(R, k), Held(R, k))
      BY <1>0, SingleSteps
    <2> QED BY <2>1, <2>2, Several
  <1>2. /\ Fragment(R, Recover, Held(R, k), Held(R, k)) /\ Recover \in Seq(Step)
        /\ Len(Recover) = 3
    BY RecoverRuns DEF Fragment
  <1>3. Fragment(R, Z, Held(R, k), Held(R, {}))
    <2>1. Fragment(R, <<Use("busB")>>, Held(R, k), Held(R, k))
      BY <1>0, SingleSteps
    <2>2. Fragment(R, <<Give("busB")>>, Held(R, k), Held(R, {}))
      BY <1>0, SingleSteps
    <2>3. Fragment(R, <<Maybe(1)>> \o <<Use("busB")>>, Held(R, k), Held(R, k))
      BY <1>0, <2>1, HeldSkipped, Len(<<Use("busB")>>) = 1
    <2>4. Z = (<<Maybe(1)>> \o <<Use("busB")>>) \o <<Give("busB")>>
      <3>1. <<Maybe(1)>> \o <<Use("busB")>> = <<Maybe(1), Use("busB")>>
        BY TwoSteps
      <3> QED BY <3>1 DEF Z
    <2> QED BY <2>2, <2>3, <2>4, Joined
  <1> HIDE DEF k, X, Z
  <1>11. /\ Len(<<Maybe(3)>>) = 1 /\ <<Maybe(3)>> \in Seq(Step)
        /\ Len(<<Maybe(7)>>) = 1 /\ <<Maybe(7)>> \in Seq(Step)
    BY Steps
  <1>4. Fragment(R, W3, Held(R, k), Held(R, k)) /\ W3 \in Seq(Step) /\ Len(W3) = 4
    <2>1. Fragment(R, W3, Held(R, k), Held(R, k))
      BY <1>0, <1>2, HeldSkipped
    <2>2. Len(W3) = 1 + 3
      BY <1>2, <1>11, Lengths
    <2> HIDE DEF W3
    <2> QED BY <2>1, <2>2 DEF Fragment
  <1> HIDE DEF W3
  <1>5. Fragment(R, V2, Held(R, k), Held(R, k)) /\ V2 \in Seq(Step) /\ Len(V2) = 7
    <2>1. Fragment(R, V2, Held(R, k), Held(R, k))
      BY <1>2, <1>4, Joined
    <2>2. Len(V2) = 3 + 4
      BY <1>2, <1>4, Lengths
    <2> HIDE DEF V2
    <2> QED BY <2>1, <2>2 DEF Fragment
  <1> HIDE DEF V2
  <1>6. Fragment(R, W2, Held(R, k), Held(R, k)) /\ W2 \in Seq(Step) /\ Len(W2) = 8
    <2>1. Fragment(R, W2, Held(R, k), Held(R, k))
      BY <1>0, <1>5, HeldSkipped
    <2>2. Len(W2) = 1 + 7
      BY <1>5, <1>11, Lengths
    <2> HIDE DEF W2
    <2> QED BY <2>1, <2>2 DEF Fragment
  <1> HIDE DEF W2
  <1>7. Fragment(R, V1, Held(R, k), Held(R, k)) /\ V1 \in Seq(Step) /\ Len(V1) = 11
    <2>1. Fragment(R, V1, Held(R, k), Held(R, k))
      BY <1>2, <1>6, Joined
    <2>2. Len(V1) = 3 + 8
      BY <1>2, <1>6, Lengths
    <2> HIDE DEF V1
    <2> QED BY <2>1, <2>2 DEF Fragment
  <1> HIDE DEF V1
  <1>8. Fragment(R, W1, Held(R, k), Held(R, k)) /\ W1 \in Seq(Step)
    <2>1. Fragment(R, W1, Held(R, k), Held(R, k))
      BY <1>0, <1>7, HeldSkipped
    <2> HIDE DEF W1
    <2> QED BY <2>1 DEF Fragment
  <1> HIDE DEF W1
  <1>9. Fragment(R, (X \o W1) \o Z, Held(R, {}), Held(R, {}))
    BY <1>1, <1>3, <1>8, Joined
  <1>10. bq27441_read = (X \o W1) \o Z
    <2> DEFINE m1 == <<Maybe(11)>>
               m2 == <<Maybe(7)>>
               m3 == <<Maybe(3)>>
               B == Recover
    <2>1. <<Take("busB"), Use("busB"), Maybe(11)>> = X \o m1
      BY DEF X
    <2>2. /\ X \in Programs /\ B \in Programs
          /\ m1 \in Programs /\ m2 \in Programs /\ m3 \in Programs
      BY <1>1, <1>2, Steps DEF Fragment, Programs
    <2>3. bq27441_read = ((((((X \o m1) \o B) \o m2) \o B) \o m3) \o B) \o Z
      BY <2>1 DEF bq27441_read, Z
    <2>4. W1 = m1 \o (B \o (m2 \o (B \o (m3 \o B))))
      BY DEF W1, V1, W2, V2, W3
    <2> HIDE DEF m1, m2, m3, B
    <2>5. Then(Then(Then(Then(Then(Then(X, m1), B), m2), B), m3), B)
          = Then(X, Then(m1, Then(B, Then(m2, Then(B, Then(m3, B))))))
      BY <2>2, Seven
    <2> QED BY <2>3, <2>4, <2>5 DEF Then
  <1> QED BY <1>9, <1>10, RestHeld DEF Keeps

(* A radio test that finds the chip busy, or not, releases the SPI block.  *)
LEMMA BusyKeeps ==
  ASSUME NEW R, NEW P,
         Fragment(R, P, Held(R, {"radio"}), Held(R, {"radio"}))
  PROVE  Keeps(R, OrBusy(P))
  <1> DEFINE k == {"radio"}
             A == <<Draw, Take("radio")>>
             m == <<Maybe(Len(P) + 2)>>
             G == <<Give("radio"), Return>>
             Z == <<Draw, Wait, Give("radio")>>
  <1>0. /\ "radio" \in Claims /\ {} \in Holdings /\ k \in Holdings
        /\ {} \cup {"radio"} = k /\ k \ {"radio"} = {}
    BY Kept DEF Claims
  <1>1. Fragment(R, A, Held(R, {}), Held(R, k))
    <2>1. Fragment(R, <<Draw>>, Held(R, {}), Held(R, {}))
      BY <1>0, SingleSteps, IdleSteps
    <2>2. Fragment(R, <<Take("radio")>>, Held(R, {}), Held(R, k))
      BY <1>0, SingleSteps
    <2> QED BY <2>1, <2>2, Several
  <1>2. Fragment(R, G, Held(R, k), Held(R, k)) /\ Len(G) = 2
    <2>1. Fragment(R, <<Give("radio")>>, Held(R, k), Held(R, {}))
      BY <1>0, SingleSteps
    <2>2. Fragment(R, <<Return>>, Held(R, {}), Held(R, k))
      BY <1>0, HeldPoints, ReturnEnds, RestHeld
    <2> QED BY <2>1, <2>2, Several
  <1>3. Fragment(R, Z, Held(R, k), Held(R, {}))
    <2>1. Fragment(R, <<Draw>>, Held(R, k), Held(R, k)) /\ Fragment(R, <<Wait>>, Held(R, k), Held(R, k))
      BY <1>0, SingleSteps, IdleSteps
    <2>2. Fragment(R, <<Give("radio")>>, Held(R, k), Held(R, {}))
      BY <1>0, SingleSteps
    <2>3. Fragment(R, <<Wait, Give("radio")>>, Held(R, k), Held(R, {}))
      BY <2>1, <2>2, Several
    <2> QED BY <2>1, <2>3, Several
  <1>4. P \in Seq(Step) /\ A \in Seq(Step) /\ m \in Seq(Step) /\ G \in Seq(Step) /\ Z \in Seq(Step)
    <2>1. P \in Seq(Step) /\ A \in Seq(Step) /\ G \in Seq(Step) /\ Z \in Seq(Step)
      BY <1>1, <1>2, <1>3 DEF Fragment
    <2>2. Len(P) + 2 \in Nat
      BY <2>1, LenProperties
    <2> QED BY <2>1, <2>2, Steps
  <1>5. <<Draw, Take("radio"), Maybe(Len(P) + 2)>> = A \o m
    OBVIOUS
  <1>6. <<Give("radio"), Return, Draw, Wait, Give("radio")>> = G \o Z
    OBVIOUS
  <1> HIDE DEF A, G, Z, k
  <1>7. Fragment(R, P \o G, Held(R, k), Held(R, k)) /\ Len(P \o G) = Len(P) + 2
    <2>1. Len(G) = 2
      BY <1>2
    <2>2. Fragment(R, P \o G, Held(R, k), Held(R, k))
      BY <1>2, Joined DEF k
    <2> QED BY ZenonT(60), <1>4, <2>1, <2>2, Lengths, Concatenated
  <1>8. Fragment(R, m \o (P \o G), Held(R, k), Held(R, k))
    BY <1>0, <1>7, HeldSkipped
  <1>9. Fragment(R, (A \o (m \o (P \o G))) \o Z, Held(R, {}), Held(R, {}))
    BY <1>1, <1>3, <1>8, Joined
  <1>10. OrBusy(P) = ((A \o m) \o P) \o (G \o Z)
    BY <1>5, <1>6 DEF OrBusy
  <1> HIDE DEF m
  <1>11. ((A \o m) \o P) \o (G \o Z) = (A \o (m \o (P \o G))) \o Z
    <2>1. (A \o m) \o P = A \o (m \o P) /\ m \o P \in Seq(Step) /\ A \o (m \o P) \in Seq(Step)
      BY SMTT(30), <1>4, Associated, Concatenated
    <2>2. (A \o (m \o P)) \o (G \o Z) = ((A \o (m \o P)) \o G) \o Z
      BY SMTT(30), <1>4, <2>1, Associated, Concatenated
    <2>3. (A \o (m \o P)) \o G = A \o ((m \o P) \o G)
      BY SMTT(30), <1>4, <2>1, Associated, Concatenated
    <2>4. (m \o P) \o G = m \o (P \o G)
      BY SMTT(30), <1>4, Associated, Concatenated
    <2> QED BY <2>1, <2>2, <2>3, <2>4, Zenon
  <1> QED BY <1>9, <1>10, <1>11, RestHeld DEF Keeps

-----------------------------------------------------------------------------
(* Commands that set up the memory interface.                              *)

(* w: "open" to interrupts, interrupts "masked", or in "direct" mode too.  *)
Mode(w, f, p, r, C) ==
  {m \in Mems : /\ m.irq <=> w = "open"
                /\ m.direct <=> w = "direct"
                /\ m.flash = f /\ m.pads = p /\ m.psram \in r
                /\ Told(m) /\ ("fetch" \in C => ~m.stale)}
Loose(M)  == {m \in M : m.pin = "sio"}
Quadded(M) == {m \in Loose(M) : m.quad}

(* At rest, the interface is open and everything is as at boot.            *)
LEMMA RestMode ==
  ASSUME NEW R
  PROVE  Rest(R) = Mode("open", "boot", "own", {"boot"}, R)
  BY DEF Rest, Mode

(* The constructors of the memory steps make steps.                        *)
LEMMA MemorySteps ==
  /\ \A b \in BOOLEAN : \A k \in {"irq", "direct", "stale", "quad", "cached"} : Mem(k, b) \in Step
  /\ \A t \in {"boot", "test"} : Mem("flash", t) \in Step /\ Mem("psram", t) \in Step
  /\ \A t \in {"own", "tried"} : Mem("pads", t) \in Step
  /\ \A t \in {"xip", "sio"} : Mem("pin", t) \in Step
  BY DEF Step, Mem

(* A memory step takes states M to states N if MemDo does.                 *)
LEMMA SetMemory ==
  ASSUME NEW R, NEW h \in Holdings,
         NEW M \in SUBSET {m \in Mems : Told(m)}, NEW N \in SUBSET {m \in Mems : Told(m)},
         NEW k, NEW v, Mem(k, v) \in Step,
         \A m \in M : MemDo(m, [what |-> k, to |-> v]) \in N,
         "fetch" \in R => \A m \in M : m.irq => Fetchable(m)
  PROVE  Fragment(R, <<Mem(k, v)>>, Point(h, M), Point(h, N))
  <1> DEFINE t == Mem(k, v)
  <1>1. t.op = "mem" /\ t.arg = [what |-> k, to |-> v]
    BY DEF Mem
  <1> HIDE DEF t
  <1>2. Point(h, M) \in Points /\ Point(h, N) \in Points
    BY PointsOf
  <1>3. Allowed(R, t, Point(h, M))
    BY <1>1 DEF Allowed, Point
  <1>4. Within(After(t, Point(h, M)), Point(h, N))
    BY <1>1 DEF Within, After, Point, HeldAfter, MemAfter
  <1> QED BY <1>1, <1>2, <1>3, <1>4, OneStep DEF t

(* What a memory step leaves.                                              *)
Reads(n, i, d, f, p, r, s, o, q) ==
  /\ n \in Mems
  /\ n.flash = f /\ n.pads = p /\ n.psram = r /\ n.pin = o
  /\ (n.irq <=> i) /\ (n.direct <=> d) /\ (n.stale <=> s) /\ (n.quad <=> q)

(* What each memory step writes, field by field.                           *)
LEMMA MemIs ==
  ASSUME NEW m \in Mems
  PROVE  /\ \A v \in BOOLEAN :
              Reads(MemDo(m, [what |-> "irq", to |-> v]),
                    v, m.direct, m.flash, m.pads, m.psram, m.stale, m.pin, m.quad)
         /\ \A v \in BOOLEAN :
              Reads(MemDo(m, [what |-> "direct", to |-> v]),
                    m.irq, v, m.flash, m.pads, m.psram, m.stale, m.pin, m.quad)
         /\ \A v \in {"boot", "test"} :
              Reads(MemDo(m, [what |-> "flash", to |-> v]),
                    m.irq, m.direct, v, m.pads, m.psram, m.stale, m.pin, m.quad)
         /\ \A v \in {"own", "tried"} :
              Reads(MemDo(m, [what |-> "pads", to |-> v]),
                    m.irq, m.direct, m.flash, v, m.psram, m.stale, m.pin, m.quad)
         /\ \A v \in {"boot", "test"} :
              Reads(MemDo(m, [what |-> "psram", to |-> v]),
                    m.irq, m.direct, m.flash, m.pads, v, m.stale, m.pin, m.quad)
         /\ \A v \in {FALSE} :
              Reads(MemDo(m, [what |-> "stale", to |-> v]),
                    m.irq, m.direct, m.flash, m.pads, m.psram, v, m.pin, m.quad)
         /\ \A v \in {"xip", "sio"} :
              Reads(MemDo(m, [what |-> "pin", to |-> v]),
                    m.irq, m.direct, m.flash, m.pads, m.psram, m.stale, v, m.quad)
         /\ \A v \in BOOLEAN :
              Reads(MemDo(m, [what |-> "quad", to |-> v]),
                    m.irq, m.direct, m.flash, m.pads, m.psram, m.stale, m.pin, v)
         /\ \A v \in {TRUE} :
              Reads(MemDo(m, [what |-> "cached", to |-> v]),
                    m.irq, m.direct, m.flash, m.pads, m.psram, (m.stale \/ m.flash = "test"), m.pin, m.quad)
  <1>1. \A v \in BOOLEAN :
              Reads(MemDo(m, [what |-> "irq", to |-> v]),
                    v, m.direct, m.flash, m.pads, m.psram, m.stale, m.pin, m.quad)
    BY DEF MemDo, Mems, Reads
  <1>2. \A v \in BOOLEAN :
              Reads(MemDo(m, [what |-> "direct", to |-> v]),
                    m.irq, v, m.flash, m.pads, m.psram, m.stale, m.pin, m.quad)
    BY DEF MemDo, Mems, Reads
  <1>3. \A v \in {"boot", "test"} :
              Reads(MemDo(m, [what |-> "flash", to |-> v]),
                    m.irq, m.direct, v, m.pads, m.psram, m.stale, m.pin, m.quad)
    BY DEF MemDo, Mems, Reads
  <1>4. \A v \in {"own", "tried"} :
              Reads(MemDo(m, [what |-> "pads", to |-> v]),
                    m.irq, m.direct, m.flash, v, m.psram, m.stale, m.pin, m.quad)
    BY DEF MemDo, Mems, Reads
  <1>5. \A v \in {"boot", "test"} :
              Reads(MemDo(m, [what |-> "psram", to |-> v]),
                    m.irq, m.direct, m.flash, m.pads, v, m.stale, m.pin, m.quad)
    BY DEF MemDo, Mems, Reads
  <1>6. \A v \in {FALSE} :
              Reads(MemDo(m, [what |-> "stale", to |-> v]),
                    m.irq, m.direct, m.flash, m.pads, m.psram, v, m.pin, m.quad)
    BY DEF MemDo, Mems, Reads
  <1>7. \A v \in {"xip", "sio"} :
              Reads(MemDo(m, [what |-> "pin", to |-> v]),
                    m.irq, m.direct, m.flash, m.pads, m.psram, m.stale, v, m.quad)
    BY DEF MemDo, Mems, Reads
  <1>8. \A v \in BOOLEAN :
              Reads(MemDo(m, [what |-> "quad", to |-> v]),
                    m.irq, m.direct, m.flash, m.pads, m.psram, m.stale, m.pin, v)
    BY DEF MemDo, Mems, Reads
  <1>9. \A v \in {TRUE} :
              Reads(MemDo(m, [what |-> "cached", to |-> v]),
                    m.irq, m.direct, m.flash, m.pads, m.psram, (m.stale \/ m.flash = "test"), m.pin, m.quad)
    BY DEF MemDo, Mems, Reads
  <1> QED BY <1>1, <1>2, <1>3, <1>4, <1>5, <1>6, <1>7, <1>8, <1>9

(* Memory steps that leave the PSRAM's pin alone, from one mode to         *)
(* another.                                                                *)
LEMMA ModeSteps ==
  ASSUME NEW R, NEW h \in Holdings, NEW w, NEW C,
         NEW f \in {"boot", "test"}, NEW p \in {"own", "tried"}, NEW r \in SUBSET {"boot", "test"},
         "fetch" \in R /\ w = "open" => f = "boot" /\ "fetch" \in C
  PROVE  /\ w = "open" =>
              Fragment(R, <<Mem("irq", FALSE)>>,
                       Point(h, Mode(w, f, p, r, C)), Point(h, Mode("masked", f, p, r, C)))
         /\ w = "masked" =>
              Fragment(R, <<Mem("irq", TRUE)>>,
                       Point(h, Mode(w, f, p, r, C)), Point(h, Mode("open", f, p, r, C)))
         /\ w = "masked" =>
              Fragment(R, <<Mem("direct", TRUE)>>,
                       Point(h, Mode(w, f, p, r, C)), Point(h, Mode("direct", f, p, r, C)))
         /\ w = "direct" =>
              Fragment(R, <<Mem("direct", FALSE)>>,
                       Point(h, Mode(w, f, p, r, C)), Point(h, Mode("masked", f, p, r, C)))
         /\ \A x \in {"boot", "test"} :
              Fragment(R, <<Mem("flash", x)>>, Point(h, Mode(w, f, p, r, C)), Point(h, Mode(w, x, p, r, C)))
         /\ \A x \in {"boot", "test"} :
              Fragment(R, <<Mem("psram", x)>>, Point(h, Mode(w, f, p, r, C)), Point(h, Mode(w, f, p, {x}, C)))
         /\ \A x \in {"own", "tried"} :
              Fragment(R, <<Mem("pads", x)>>, Point(h, Mode(w, f, p, r, C)), Point(h, Mode(w, f, x, r, C)))
         /\ Fragment(R, <<Mem("stale", FALSE)>>, Point(h, Mode(w, f, p, r, C)), Point(h, Mode(w, f, p, r, R)))
         /\ Fragment(R, <<Mem("cached", TRUE)>>,
                     Point(h, Mode(w, f, p, r, C)), Point(h, Mode(w, f, p, r, IF f = "boot" THEN C ELSE {})))
  <1> DEFINE T == {m \in Mems : Told(m)}
             M == Mode(w, f, p, r, C)
  <1>0. /\ M \in SUBSET T /\ Loose(M) \in SUBSET T /\ Quadded(M) \in SUBSET T
        /\ "fetch" \in R => \A m \in M : m.irq => Fetchable(m)
        /\ "fetch" \in R => \A m \in Loose(M) : m.irq => Fetchable(m)
        /\ "fetch" \in R => \A m \in Quadded(M) : m.irq => Fetchable(m)
    BY DEF Mode, Fetchable, Loose, Quadded
  <1>1. ASSUME w = "open"
        PROVE  Fragment(R, <<Mem("irq", FALSE)>>, Point(h, M), Point(h, Mode("masked", f, p, r, C)))
    <2>1. Mode("masked", f, p, r, C) \in SUBSET T
      BY DEF Mode, Loose, Quadded
    <2>2. ASSUME NEW m \in M
          PROVE  MemDo(m, [what |-> "irq", to |-> FALSE]) \in Mode("masked", f, p, r, C)
      <3>0. m \in M /\ m \in Mems
        BY DEF Mode, Loose, Quadded
      <3>1. Reads(MemDo(m, [what |-> "irq", to |-> FALSE]),
                  FALSE, m.direct, m.flash, m.pads, m.psram, m.stale, m.pin, m.quad)
        BY <3>0, MemIs
      <3> QED BY <3>1, <1>1 DEF Mode, Loose, Quadded, Reads, Told
    <2> QED BY <1>0, <2>1, <2>2, SetMemory, MemorySteps
  <1>2. ASSUME w = "masked"
        PROVE  Fragment(R, <<Mem("irq", TRUE)>>, Point(h, M), Point(h, Mode("open", f, p, r, C)))
    <2>1. Mode("open", f, p, r, C) \in SUBSET T
      BY DEF Mode, Loose, Quadded
    <2>2. ASSUME NEW m \in M
          PROVE  MemDo(m, [what |-> "irq", to |-> TRUE]) \in Mode("open", f, p, r, C)
      <3>0. m \in M /\ m \in Mems
        BY DEF Mode, Loose, Quadded
      <3>1. Reads(MemDo(m, [what |-> "irq", to |-> TRUE]),
                  TRUE, m.direct, m.flash, m.pads, m.psram, m.stale, m.pin, m.quad)
        BY <3>0, MemIs
      <3> QED BY <3>1, <1>2 DEF Mode, Loose, Quadded, Reads, Told
    <2> QED BY <1>0, <2>1, <2>2, SetMemory, MemorySteps
  <1>3. ASSUME w = "masked"
        PROVE  Fragment(R, <<Mem("direct", TRUE)>>, Point(h, M), Point(h, Mode("direct", f, p, r, C)))
    <2>1. Mode("direct", f, p, r, C) \in SUBSET T
      BY DEF Mode, Loose, Quadded
    <2>2. ASSUME NEW m \in M
          PROVE  MemDo(m, [what |-> "direct", to |-> TRUE]) \in Mode("direct", f, p, r, C)
      <3>0. m \in M /\ m \in Mems
        BY DEF Mode, Loose, Quadded
      <3>1. Reads(MemDo(m, [what |-> "direct", to |-> TRUE]),
                  m.irq, TRUE, m.flash, m.pads, m.psram, m.stale, m.pin, m.quad)
        BY <3>0, MemIs
      <3> QED BY <3>1, <1>3 DEF Mode, Loose, Quadded, Reads, Told
    <2> QED BY <1>0, <2>1, <2>2, SetMemory, MemorySteps
  <1>4. ASSUME w = "direct"
        PROVE  Fragment(R, <<Mem("direct", FALSE)>>, Point(h, M), Point(h, Mode("masked", f, p, r, C)))
    <2>1. Mode("masked", f, p, r, C) \in SUBSET T
      BY DEF Mode, Loose, Quadded
    <2>2. ASSUME NEW m \in M
          PROVE  MemDo(m, [what |-> "direct", to |-> FALSE]) \in Mode("masked", f, p, r, C)
      <3>0. m \in M /\ m \in Mems
        BY DEF Mode, Loose, Quadded
      <3>1. Reads(MemDo(m, [what |-> "direct", to |-> FALSE]),
                  m.irq, FALSE, m.flash, m.pads, m.psram, m.stale, m.pin, m.quad)
        BY <3>0, MemIs
      <3> QED BY <3>1, <1>4 DEF Mode, Loose, Quadded, Reads, Told
    <2> QED BY <1>0, <2>1, <2>2, SetMemory, MemorySteps
  <1>5. ASSUME NEW x \in {"boot", "test"}
        PROVE  Fragment(R, <<Mem("flash", x)>>, Point(h, M), Point(h, Mode(w, x, p, r, C)))
    <2>1. Mode(w, x, p, r, C) \in SUBSET T
      BY DEF Mode, Loose, Quadded
    <2>2. ASSUME NEW m \in M
          PROVE  MemDo(m, [what |-> "flash", to |-> x]) \in Mode(w, x, p, r, C)
      <3>0. m \in M /\ m \in Mems
        BY DEF Mode, Loose, Quadded
      <3>1. Reads(MemDo(m, [what |-> "flash", to |-> x]),
                  m.irq, m.direct, x, m.pads, m.psram, m.stale, m.pin, m.quad)
        BY <3>0, MemIs
      <3> QED BY <3>1, <1>5 DEF Mode, Loose, Quadded, Reads, Told
    <2> QED BY <1>0, <2>1, <2>2, SetMemory, MemorySteps
  <1>6. ASSUME NEW x \in {"boot", "test"}
        PROVE  Fragment(R, <<Mem("psram", x)>>, Point(h, M), Point(h, Mode(w, f, p, {x}, C)))
    <2>1. Mode(w, f, p, {x}, C) \in SUBSET T
      BY DEF Mode, Loose, Quadded
    <2>2. ASSUME NEW m \in M
          PROVE  MemDo(m, [what |-> "psram", to |-> x]) \in Mode(w, f, p, {x}, C)
      <3>0. m \in M /\ m \in Mems
        BY DEF Mode, Loose, Quadded
      <3>1. Reads(MemDo(m, [what |-> "psram", to |-> x]),
                  m.irq, m.direct, m.flash, m.pads, x, m.stale, m.pin, m.quad)
        BY <3>0, MemIs
      <3> QED BY <3>1, <1>6 DEF Mode, Loose, Quadded, Reads, Told
    <2> QED BY <1>0, <2>1, <2>2, SetMemory, MemorySteps
  <1>7. ASSUME NEW x \in {"own", "tried"}
        PROVE  Fragment(R, <<Mem("pads", x)>>, Point(h, M), Point(h, Mode(w, f, x, r, C)))
    <2>1. Mode(w, f, x, r, C) \in SUBSET T
      BY DEF Mode, Loose, Quadded
    <2>2. ASSUME NEW m \in M
          PROVE  MemDo(m, [what |-> "pads", to |-> x]) \in Mode(w, f, x, r, C)
      <3>0. m \in M /\ m \in Mems
        BY DEF Mode, Loose, Quadded
      <3>1. Reads(MemDo(m, [what |-> "pads", to |-> x]),
                  m.irq, m.direct, m.flash, x, m.psram, m.stale, m.pin, m.quad)
        BY <3>0, MemIs
      <3> QED BY <3>1, <1>7 DEF Mode, Loose, Quadded, Reads, Told
    <2> QED BY <1>0, <2>1, <2>2, SetMemory, MemorySteps
  <1>8. Fragment(R, <<Mem("stale", FALSE)>>, Point(h, M), Point(h, Mode(w, f, p, r, R)))
    <2>1. Mode(w, f, p, r, R) \in SUBSET T
      BY DEF Mode, Loose, Quadded
    <2>2. ASSUME NEW m \in M
          PROVE  MemDo(m, [what |-> "stale", to |-> FALSE]) \in Mode(w, f, p, r, R)
      <3>0. m \in M /\ m \in Mems
        BY DEF Mode, Loose, Quadded
      <3>1. Reads(MemDo(m, [what |-> "stale", to |-> FALSE]),
                  m.irq, m.direct, m.flash, m.pads, m.psram, FALSE, m.pin, m.quad)
        BY <3>0, MemIs
      <3> QED BY <3>1 DEF Mode, Loose, Quadded, Reads, Told
    <2> QED BY <1>0, <2>1, <2>2, SetMemory, MemorySteps
  <1>9. Fragment(R, <<Mem("cached", TRUE)>>,
                 Point(h, M), Point(h, Mode(w, f, p, r, IF f = "boot" THEN C ELSE {})))
    <2>1. Mode(w, f, p, r, IF f = "boot" THEN C ELSE {}) \in SUBSET T
      BY DEF Mode, Loose, Quadded
    <2>2. ASSUME NEW m \in M
          PROVE  MemDo(m, [what |-> "cached", to |-> TRUE]) \in Mode(w, f, p, r, IF f = "boot" THEN C ELSE {})
      <3>0. m \in M /\ m \in Mems
        BY DEF Mode, Loose, Quadded
      <3>1. Reads(MemDo(m, [what |-> "cached", to |-> TRUE]),
                  m.irq, m.direct, m.flash, m.pads, m.psram, m.stale \/ m.flash = "test", m.pin, m.quad)
        BY <3>0, MemIs
      <3> QED BY <3>1 DEF Mode, Loose, Quadded, Reads, Told
    <2> QED BY <1>0, <2>1, <2>2, SetMemory, MemorySteps
  <1> QED BY <1>1, <1>2, <1>3, <1>4, <1>5, <1>6, <1>7, <1>8, <1>9

(* Memory steps while the PSRAM's pin is with software.                    *)
LEMMA LooseSteps ==
  ASSUME NEW R, NEW h \in Holdings, NEW w, NEW C,
         NEW f \in {"boot", "test"}, NEW p \in {"own", "tried"}, NEW r \in SUBSET {"boot", "test"},
         "fetch" \in R /\ w = "open" => f = "boot" /\ "fetch" \in C
  PROVE  /\ w = "open" =>
              Fragment(R, <<Mem("irq", FALSE)>>,
                       Point(h, Loose(Mode(w, f, p, r, C))), Point(h, Loose(Mode("masked", f, p, r, C))))
         /\ w = "masked" =>
              Fragment(R, <<Mem("irq", TRUE)>>,
                       Point(h, Loose(Mode(w, f, p, r, C))), Point(h, Loose(Mode("open", f, p, r, C))))
         /\ w = "masked" =>
              Fragment(R, <<Mem("direct", TRUE)>>,
                       Point(h, Loose(Mode(w, f, p, r, C))), Point(h, Loose(Mode("direct", f, p, r, C))))
         /\ w = "direct" =>
              Fragment(R, <<Mem("direct", FALSE)>>,
                       Point(h, Loose(Mode(w, f, p, r, C))), Point(h, Loose(Mode("masked", f, p, r, C))))
         /\ Fragment(R, <<Mem("quad", FALSE)>>,
                     Point(h, Loose(Mode(w, f, p, r, C))), Point(h, Loose(Mode(w, f, p, r, C))))
         /\ Fragment(R, <<Mem("quad", TRUE)>>,
                     Point(h, Loose(Mode(w, f, p, r, C))), Point(h, Quadded(Mode(w, f, p, r, C))))
         /\ \A x \in {"boot", "test"} :
              Fragment(R, <<Mem("psram", x)>>,
                       Point(h, Quadded(Mode(w, f, p, r, C))), Point(h, Quadded(Mode(w, f, p, {x}, C))))
         /\ Fragment(R, <<Mem("pin", "sio")>>,
                     Point(h, Mode(w, f, p, r, C)), Point(h, Loose(Mode(w, f, p, r, C))))
         /\ Fragment(R, <<Mem("pin", "xip")>>,
                     Point(h, Quadded(Mode(w, f, p, r, C))), Point(h, Mode(w, f, p, r, C)))
  <1> DEFINE T == {m \in Mems : Told(m)}
             M == Mode(w, f, p, r, C)
  <1>0. /\ M \in SUBSET T /\ Loose(M) \in SUBSET T /\ Quadded(M) \in SUBSET T
        /\ "fetch" \in R => \A m \in M : m.irq => Fetchable(m)
        /\ "fetch" \in R => \A m \in Loose(M) : m.irq => Fetchable(m)
        /\ "fetch" \in R => \A m \in Quadded(M) : m.irq => Fetchable(m)
    BY DEF Mode, Fetchable, Loose, Quadded
  <1>1. ASSUME w = "open"
        PROVE  Fragment(R, <<Mem("irq", FALSE)>>,
                        Point(h, Loose(M)), Point(h, Loose(Mode("masked", f, p, r, C))))
    <2>1. Loose(Mode("masked", f, p, r, C)) \in SUBSET T
      BY DEF Mode, Loose, Quadded
    <2>2. ASSUME NEW m \in Loose(M)
          PROVE  MemDo(m, [what |-> "irq", to |-> FALSE]) \in Loose(Mode("masked", f, p, r, C))
      <3>0. m \in M /\ m \in Mems
        BY DEF Mode, Loose, Quadded
      <3>1. Reads(MemDo(m, [what |-> "irq", to |-> FALSE]),
                  FALSE, m.direct, m.flash, m.pads, m.psram, m.stale, m.pin, m.quad)
        BY <3>0, MemIs
      <3> QED BY <3>1, <1>1 DEF Mode, Loose, Quadded, Reads, Told
    <2> QED BY <1>0, <2>1, <2>2, SetMemory, MemorySteps
  <1>2. ASSUME w = "masked"
        PROVE  Fragment(R, <<Mem("irq", TRUE)>>,
                        Point(h, Loose(M)), Point(h, Loose(Mode("open", f, p, r, C))))
    <2>1. Loose(Mode("open", f, p, r, C)) \in SUBSET T
      BY DEF Mode, Loose, Quadded
    <2>2. ASSUME NEW m \in Loose(M)
          PROVE  MemDo(m, [what |-> "irq", to |-> TRUE]) \in Loose(Mode("open", f, p, r, C))
      <3>0. m \in M /\ m \in Mems
        BY DEF Mode, Loose, Quadded
      <3>1. Reads(MemDo(m, [what |-> "irq", to |-> TRUE]),
                  TRUE, m.direct, m.flash, m.pads, m.psram, m.stale, m.pin, m.quad)
        BY <3>0, MemIs
      <3> QED BY <3>1, <1>2 DEF Mode, Loose, Quadded, Reads, Told
    <2> QED BY <1>0, <2>1, <2>2, SetMemory, MemorySteps
  <1>3. ASSUME w = "masked"
        PROVE  Fragment(R, <<Mem("direct", TRUE)>>,
                        Point(h, Loose(M)), Point(h, Loose(Mode("direct", f, p, r, C))))
    <2>1. Loose(Mode("direct", f, p, r, C)) \in SUBSET T
      BY DEF Mode, Loose, Quadded
    <2>2. ASSUME NEW m \in Loose(M)
          PROVE  MemDo(m, [what |-> "direct", to |-> TRUE]) \in Loose(Mode("direct", f, p, r, C))
      <3>0. m \in M /\ m \in Mems
        BY DEF Mode, Loose, Quadded
      <3>1. Reads(MemDo(m, [what |-> "direct", to |-> TRUE]),
                  m.irq, TRUE, m.flash, m.pads, m.psram, m.stale, m.pin, m.quad)
        BY <3>0, MemIs
      <3> QED BY <3>1, <1>3 DEF Mode, Loose, Quadded, Reads, Told
    <2> QED BY <1>0, <2>1, <2>2, SetMemory, MemorySteps
  <1>4. ASSUME w = "direct"
        PROVE  Fragment(R, <<Mem("direct", FALSE)>>,
                        Point(h, Loose(M)), Point(h, Loose(Mode("masked", f, p, r, C))))
    <2>1. Loose(Mode("masked", f, p, r, C)) \in SUBSET T
      BY DEF Mode, Loose, Quadded
    <2>2. ASSUME NEW m \in Loose(M)
          PROVE  MemDo(m, [what |-> "direct", to |-> FALSE]) \in Loose(Mode("masked", f, p, r, C))
      <3>0. m \in M /\ m \in Mems
        BY DEF Mode, Loose, Quadded
      <3>1. Reads(MemDo(m, [what |-> "direct", to |-> FALSE]),
                  m.irq, FALSE, m.flash, m.pads, m.psram, m.stale, m.pin, m.quad)
        BY <3>0, MemIs
      <3> QED BY <3>1, <1>4 DEF Mode, Loose, Quadded, Reads, Told
    <2> QED BY <1>0, <2>1, <2>2, SetMemory, MemorySteps
  <1>5. Fragment(R, <<Mem("quad", FALSE)>>, Point(h, Loose(M)), Point(h, Loose(M)))
    <2>1. Loose(M) \in SUBSET T
      BY DEF Mode, Loose, Quadded
    <2>2. ASSUME NEW m \in Loose(M)
          PROVE  MemDo(m, [what |-> "quad", to |-> FALSE]) \in Loose(M)
      <3>0. m \in M /\ m \in Mems
        BY DEF Mode, Loose, Quadded
      <3>1. Reads(MemDo(m, [what |-> "quad", to |-> FALSE]),
                  m.irq, m.direct, m.flash, m.pads, m.psram, m.stale, m.pin, FALSE)
        BY <3>0, MemIs
      <3> QED BY <3>1 DEF Mode, Loose, Quadded, Reads, Told
    <2> QED BY <1>0, <2>1, <2>2, SetMemory, MemorySteps
  <1>6. Fragment(R, <<Mem("quad", TRUE)>>, Point(h, Loose(M)), Point(h, Quadded(M)))
    <2>1. Quadded(M) \in SUBSET T
      BY DEF Mode, Loose, Quadded
    <2>2. ASSUME NEW m \in Loose(M)
          PROVE  MemDo(m, [what |-> "quad", to |-> TRUE]) \in Quadded(M)
      <3>0. m \in M /\ m \in Mems
        BY DEF Mode, Loose, Quadded
      <3>1. Reads(MemDo(m, [what |-> "quad", to |-> TRUE]),
                  m.irq, m.direct, m.flash, m.pads, m.psram, m.stale, m.pin, TRUE)
        BY <3>0, MemIs
      <3> QED BY <3>1 DEF Mode, Loose, Quadded, Reads, Told
    <2> QED BY <1>0, <2>1, <2>2, SetMemory, MemorySteps
  <1>7. ASSUME NEW x \in {"boot", "test"}
        PROVE  Fragment(R, <<Mem("psram", x)>>,
                        Point(h, Quadded(M)), Point(h, Quadded(Mode(w, f, p, {x}, C))))
    <2>1. Quadded(Mode(w, f, p, {x}, C)) \in SUBSET T
      BY DEF Mode, Loose, Quadded
    <2>2. ASSUME NEW m \in Quadded(M)
          PROVE  MemDo(m, [what |-> "psram", to |-> x]) \in Quadded(Mode(w, f, p, {x}, C))
      <3>0. m \in M /\ m \in Mems
        BY DEF Mode, Loose, Quadded
      <3>1. Reads(MemDo(m, [what |-> "psram", to |-> x]),
                  m.irq, m.direct, m.flash, m.pads, x, m.stale, m.pin, m.quad)
        BY <3>0, MemIs
      <3> QED BY <3>1, <1>7 DEF Mode, Loose, Quadded, Reads, Told
    <2> QED BY <1>0, <2>1, <2>2, SetMemory, MemorySteps
  <1>8. Fragment(R, <<Mem("pin", "sio")>>, Point(h, M), Point(h, Loose(M)))
    <2>1. Loose(M) \in SUBSET T
      BY DEF Mode, Loose, Quadded
    <2>2. ASSUME NEW m \in M
          PROVE  MemDo(m, [what |-> "pin", to |-> "sio"]) \in Loose(M)
      <3>0. m \in M /\ m \in Mems
        BY DEF Mode, Loose, Quadded
      <3>1. Reads(MemDo(m, [what |-> "pin", to |-> "sio"]),
                  m.irq, m.direct, m.flash, m.pads, m.psram, m.stale, "sio", m.quad)
        BY <3>0, MemIs
      <3> QED BY <3>1 DEF Mode, Loose, Quadded, Reads, Told
    <2> QED BY <1>0, <2>1, <2>2, SetMemory, MemorySteps
  <1>9. Fragment(R, <<Mem("pin", "xip")>>, Point(h, Quadded(M)), Point(h, M))
    <2>1. M \in SUBSET T
      BY DEF Mode, Loose, Quadded
    <2>2. ASSUME NEW m \in Quadded(M)
          PROVE  MemDo(m, [what |-> "pin", to |-> "xip"]) \in M
      <3>0. m \in M /\ m \in Mems
        BY DEF Mode, Loose, Quadded
      <3>1. Reads(MemDo(m, [what |-> "pin", to |-> "xip"]),
                  m.irq, m.direct, m.flash, m.pads, m.psram, m.stale, "xip", m.quad)
        BY <3>0, MemIs
      <3> QED BY <3>1 DEF Mode, Loose, Quadded, Reads, Told
    <2> QED BY <1>0, <2>1, <2>2, SetMemory, MemorySteps
  <1> QED BY <1>1, <1>2, <1>3, <1>4, <1>5, <1>6, <1>7, <1>8, <1>9

(* A critical section, around steps that run with the interrupts off.      *)
LEMMA IrqOffMode ==
  ASSUME NEW R, NEW h \in Holdings, NEW P, NEW C, NEW D,
         NEW f \in {"boot", "test"}, NEW p \in {"own", "tried"}, NEW r \in SUBSET {"boot", "test"},
         "fetch" \in R => f = "boot" /\ "fetch" \in C,
         NEW g \in {"boot", "test"}, NEW q \in {"own", "tried"}, NEW s \in SUBSET {"boot", "test"},
         Fragment(R, P, Point(h, Mode("masked", f, p, r, C)), Point(h, Mode("masked", g, q, s, D)))
  PROVE  Fragment(R, IrqOff(P), Point(h, Mode("open", f, p, r, C)),
                                Point(h, Mode("open", g, q, s, D)))
  <1>1. Fragment(R, <<Mem("irq", FALSE)>>, Point(h, Mode("open", f, p, r, C)),
                                           Point(h, Mode("masked", f, p, r, C)))
    BY ZenonT(60), ModeSteps
  <1>2. Fragment(R, <<Mem("irq", TRUE)>>, Point(h, Mode("masked", g, q, s, D)),
                                          Point(h, Mode("open", g, q, s, D)))
    BY ZenonT(60), ModeSteps
  <1> QED BY <1>1, <1>2, Joined DEF IrqOff

(* Direct mode, around steps that run in it.                               *)
LEMMA InDirectMode ==
  ASSUME NEW R, NEW h \in Holdings, NEW P, NEW C, NEW D,
         NEW f \in {"boot", "test"}, NEW p \in {"own", "tried"}, NEW r \in SUBSET {"boot", "test"},
         NEW g \in {"boot", "test"}, NEW q \in {"own", "tried"}, NEW s \in SUBSET {"boot", "test"},
         Fragment(R, P, Point(h, Mode("direct", f, p, r, C)), Point(h, Mode("direct", g, q, s, D)))
  PROVE  Fragment(R, InDirect(P), Point(h, Mode("masked", f, p, r, C)),
                                  Point(h, Mode("masked", g, q, s, D)))
  <1>1. Fragment(R, <<Mem("direct", TRUE)>>, Point(h, Mode("masked", f, p, r, C)),
                                             Point(h, Mode("direct", f, p, r, C)))
    BY ZenonT(60), ModeSteps
  <1>2. Fragment(R, <<Mem("direct", FALSE)>>, Point(h, Mode("direct", g, q, s, D)),
                                              Point(h, Mode("masked", g, q, s, D)))
    BY ModeSteps
  <1> QED BY <1>1, <1>2, Joined DEF InDirect

(* The PSRAM's timing is set with the interrupts off.                      *)
LEMMA PsramTiming ==
  ASSUME NEW R, NEW h \in Holdings, NEW r \in SUBSET {"boot", "test"}, NEW t \in {"boot", "test"}
  PROVE  Fragment(R, psram_set_timing(t), Point(h, Mode("open", "boot", "own", r, R)),
                                          Point(h, Mode("open", "boot", "own", {t}, R)))
  <1>1. Fragment(R, <<Mem("psram", t)>>, Point(h, Mode("direct", "boot", "own", r, R)),
                                         Point(h, Mode("direct", "boot", "own", {t}, R)))
    BY ModeSteps
  <1>2. Fragment(R, InDirect(<<Mem("psram", t)>>), Point(h, Mode("masked", "boot", "own", r, R)),
                                         Point(h, Mode("masked", "boot", "own", {t}, R)))
    BY <1>1, InDirectMode
  <1> QED BY <1>2, IrqOffMode DEF psram_set_timing

(* The flash's timing is set in direct mode.                               *)
LEMMA FlashTiming ==
  ASSUME NEW R, NEW h \in Holdings, NEW p \in {"own", "tried"}, NEW f \in {"boot", "test"},
         NEW t \in {"boot", "test"}, NEW C
  PROVE  Fragment(R, M0(t), Point(h, Mode("masked", f, p, {"boot"}, C)),
                            Point(h, Mode("masked", t, p, {"boot"}, C)))
  <1>1. Fragment(R, <<Mem("flash", t)>>, Point(h, Mode("direct", f, p, {"boot"}, C)),
                                         Point(h, Mode("direct", t, p, {"boot"}, C)))
    BY ZenonT(60), ModeSteps
  <1> QED BY <1>1, InDirectMode DEF M0

(* The ablation of the pads puts pads and timing back before the           *)
(* interrupts are on again.                                                *)
LEMMA PadAblationKeeps ==
  ASSUME NEW R
  PROVE  Keeps(R, flash_pad_ablation)
  <1>1. Fragment(R, M0("test"), Point({}, Mode("masked", "boot", "own", {"boot"}, R)),
                                Point({}, Mode("masked", "test", "own", {"boot"}, R)))
    BY RestHeld, FlashTiming
  <1>2. Fragment(R, <<Mem("pads", "tried")>>, Point({}, Mode("masked", "test", "own", {"boot"}, R)),
                                              Point({}, Mode("masked", "test", "tried", {"boot"}, R)))
    BY RestHeld, ModeSteps
  <1>3. Fragment(R, <<Mem("pads", "own")>>, Point({}, Mode("masked", "test", "tried", {"boot"}, R)),
                                            Point({}, Mode("masked", "test", "own", {"boot"}, R)))
    BY RestHeld, ModeSteps
  <1>4. Fragment(R, M0("boot"), Point({}, Mode("masked", "test", "own", {"boot"}, R)),
                                Point({}, Mode("masked", "boot", "own", {"boot"}, R)))
    BY RestHeld, FlashTiming
  <1>5. <<Mem("pads", "tried"), Mem("pads", "own")>> = <<Mem("pads", "tried")>> \o <<Mem("pads", "own")>>
    OBVIOUS
  <1>6. Fragment(R, M0("test") \o <<Mem("pads", "tried"), Mem("pads", "own")>> \o M0("boot"),
                 Point({}, Mode("masked", "boot", "own", {"boot"}, R)),
                 Point({}, Mode("masked", "boot", "own", {"boot"}, R)))
    BY <1>1, <1>2, <1>3, <1>4, <1>5, Joined
  <1>7. Fragment(R, flash_pad_ablation, Point({}, Mode("open", "boot", "own", {"boot"}, R)),
                 Point({}, Mode("open", "boot", "own", {"boot"}, R)))
    BY <1>6, RestHeld, IrqOffMode DEF flash_pad_ablation
  <1> QED BY <1>7, RestMode DEF Keeps, AtRest

-----------------------------------------------------------------------------
(* The other commands that leave the memory interface alone.               *)

(* The commands of amplifier and microphone release their state machines.  *)
LEMMA SoundKeeps ==
  ASSUME NEW R
  PROVE  Keeps(R, Sound) /\ Keeps(R, Record) /\ Keeps(R, mic_raw) /\ Keeps(R, mic_rec)
  <1>1. "amp" \in Claims /\ "mic" \in Claims
    BY DEF Claims
  <1>2. Keeps(R, Sound) /\ Keeps(R, Record) /\ Keeps(R, mic_raw)
    BY <1>1, StoppableKeeps, UseKeeps DEF Sound, Record, mic_raw
  <1>3. Keeps(R, <<Take("amp"), Use("amp"), Give("amp")>>)
    BY <1>1, UseKeeps
  <1> QED BY <1>2, <1>3, Joined DEF mic_rec, Keeps

(* No steps at all.                                                        *)
LEMMA NothingRuns ==
  ASSUME NEW R, NEW a \in Points
  PROVE  Fragment(R, <<>>, a, a)
  <1> DEFINE H == <<a>>
  <1>1. /\ <<>> \in Seq(Step) /\ Len(<<>>) = 0
        /\ H \in [1 .. 0 + 1 -> Points] /\ H[1] = a
    OBVIOUS
  <1> HIDE DEF H
  <1>2. Annotates(R, H, <<>>)
    BY <1>1 DEF Annotates
  <1> QED BY <1>1, <1>2 DEF Fragment, Within

(* A command that does nothing to the board.                               *)
LEMMA EmptyKeeps ==
  ASSUME NEW R
  PROVE  Keeps(R, <<>>)
  BY NothingRuns, HeldPoints, RestHeld DEF Keeps

(* Charging on and a scan of bus B.                                        *)
LEMMA ChargeScanKeeps ==
  ASSUME NEW R, "uncharged" \notin R
  PROVE  Keeps(R, charge_scan)
  <1>1. Keeps(R, perform_scan)
    BY UseKeeps DEF perform_scan, Claims
  <1> QED BY <1>1, ChargeOnKeeps, Joined DEF charge_scan, Keeps

(* A command that is followed by BACK, or drawn, or left out if the window *)
(* does not drive the PSRAM's pin.                                         *)
LEMMA Wrapped ==
  ASSUME NEW R, NEW P, Keeps(R, P)
  PROVE  /\ Keeps(R, P \o <<Wait>>)
         /\ Keeps(R, <<Keys("back")>> \o P)
         /\ Keeps(R, Shown(P))
         /\ Keeps(R, Guarded(P))
  <1>1. /\ Fragment(R, <<Wait>>, Held(R, {}), Held(R, {}))
        /\ Fragment(R, <<Draw>>, Held(R, {}), Held(R, {}))
        /\ Fragment(R, <<Keys("back")>>, Held(R, {}), Held(R, {}))
    BY RestHeld, SingleSteps, IdleSteps
  <1>2. Fragment(R, P, Held(R, {}), Held(R, {}))
    BY RestHeld DEF Keeps
  <1>3. Fragment(R, <<Draw, Wait>>, Held(R, {}), Held(R, {}))
    BY <1>1, Several
  <1>4. Fragment(R, Shown(P), Held(R, {}), Held(R, {}))
    BY <1>1, <1>2, <1>3, Joined DEF Shown
  <1>5. Fragment(R, Guarded(P), Held(R, {}), Held(R, {}))
    BY <1>2, RestHeld, HeldSkipped DEF Guarded
  <1> QED BY <1>1, <1>2, <1>4, <1>5, Joined, RestHeld DEF Keeps

(* What the receive test does with the radio.                              *)
LEMMA RxRuns ==
  ASSUME NEW R
  PROVE  Fragment(R, <<Use("radio"), Draw, Maybe(1), Wait, Draw>>, Held(R, {"radio"}), Held(R, {"radio"}))
  <1> DEFINE h == <<{"radio"}, {"radio"}, {"radio"}, {"radio"}, {"radio"}, {"radio"}>>
             P == <<Use("radio"), Draw, Maybe(1), Wait, Draw>>
  <1>1. P \in Seq(Step) /\ Len(P) = 5
    BY Steps DEF Claims
  <1>2. h \in [1 .. 5 + 1 -> Holdings] /\ h[1] = {"radio"} /\ h[5 + 1] = {"radio"}
    BY Kept, KeptPairs DEF Claims
  <1>3. /\ Plain(R, P, h, 1) /\ Plain(R, P, h, 2) /\ Plain(R, P, h, 3)
        /\ Plain(R, P, h, 4) /\ Plain(R, P, h, 5)
    BY Steps DEF Plain, HeldAfter, Claims, Use, Draw, Maybe, Wait
  <1>4. \A i \in 1 .. 5 : Plain(R, P, h, i)
    <2> HIDE DEF h, P
    <2> QED BY <1>3
  <1> HIDE DEF h, P
  <1> QED BY <1>1, <1>2, <1>4, PlainParts DEF P

(* The register dump.                                                      *)
LEMMA DumpRuns ==
  ASSUME NEW R
  PROVE  Fragment(R, <<Use("radio"), Draw, Use("radio")>>, Held(R, {"radio"}), Held(R, {"radio"}))
  <1> DEFINE h == <<{"radio"}, {"radio"}, {"radio"}, {"radio"}>>
             P == <<Use("radio"), Draw, Use("radio")>>
  <1>1. P \in Seq(Step) /\ Len(P) = 3
    BY Steps DEF Claims
  <1>2. h \in [1 .. 3 + 1 -> Holdings] /\ h[1] = {"radio"} /\ h[3 + 1] = {"radio"}
    BY Kept, KeptPairs DEF Claims
  <1>3. /\ Plain(R, P, h, 1) /\ Plain(R, P, h, 2) /\ Plain(R, P, h, 3)
    BY Steps DEF Plain, HeldAfter, Claims, Use, Draw
  <1>4. \A i \in 1 .. 3 : Plain(R, P, h, i)
    <2> HIDE DEF h, P
    <2> QED BY <1>3
  <1> HIDE DEF h, P
  <1> QED BY <1>1, <1>2, <1>4, PlainParts DEF P

(* The transmit test.                                                      *)
LEMMA TxRuns ==
  ASSUME NEW R
  PROVE  Fragment(R, <<Use("radio"), Draw, Use("radio"), Draw>>, Held(R, {"radio"}), Held(R, {"radio"}))
  <1> DEFINE h == <<{"radio"}, {"radio"}, {"radio"}, {"radio"}, {"radio"}>>
             P == <<Use("radio"), Draw, Use("radio"), Draw>>
  <1>1. P \in Seq(Step) /\ Len(P) = 4
    BY Steps DEF Claims
  <1>2. h \in [1 .. 4 + 1 -> Holdings] /\ h[1] = {"radio"} /\ h[4 + 1] = {"radio"}
    BY Kept, KeptPairs DEF Claims
  <1>3. /\ Plain(R, P, h, 1) /\ Plain(R, P, h, 2) /\ Plain(R, P, h, 3)
        /\ Plain(R, P, h, 4)
    BY Steps DEF Plain, HeldAfter, Claims, Use, Draw
  <1>4. \A i \in 1 .. 4 : Plain(R, P, h, i)
    <2> HIDE DEF h, P
    <2> QED BY <1>3
  <1> HIDE DEF h, P
  <1> QED BY <1>1, <1>2, <1>4, PlainParts DEF P

(* The radio tests release the SPI block.                                  *)
LEMMA RadioKeeps ==
  ASSUME NEW R
  PROVE  Keeps(R, lora_test) /\ Keeps(R, lora_rx) /\ Keeps(R, lora_tx) /\ Keeps(R, lora_dump)
  <1>1. Keeps(R, lora_test)
    BY ScanKeeps DEF lora_test, Claims
  <1> QED BY <1>1, RxRuns, TxRuns, DumpRuns, BusyKeeps DEF lora_rx, lora_tx, lora_dump

(* Accesses through the PSRAM's window.                                    *)
LEMMA ReadsByDmaKeep ==
  ASSUME NEW R
  PROVE  Keeps(R, <<Take("dma"), Access, Give("dma")>>)
  <1> DEFINE h == <<{}, {"dma"}, {"dma"}, {}>>
             P == <<Take("dma"), Access, Give("dma")>>
  <1>1. P \in Seq(Step) /\ Len(P) = 3
    BY Steps DEF Claims
  <1>2. h \in [1 .. 3 + 1 -> Holdings] /\ h[1] = {} /\ h[3 + 1] = {}
    BY Kept, KeptPairs DEF Claims
  <1>3. /\ Plain(R, P, h, 1) /\ Plain(R, P, h, 2) /\ Plain(R, P, h, 3)
    BY Steps DEF Plain, HeldAfter, Claims, Take, Access, Give
  <1>4. \A i \in 1 .. 3 : Plain(R, P, h, i)
    <2> HIDE DEF h, P
    <2> QED BY <1>3
  <1> HIDE DEF h, P
  <1>5. Fragment(R, P, Held(R, {}), Held(R, {}))
    BY <1>1, <1>2, <1>4, PlainParts
  <1> QED BY <1>5, RestHeld DEF Keeps, P

(* Frames written, then read by DMA.                                       *)
LEMMA FramesKeep ==
  ASSUME NEW R
  PROVE  Keeps(R, <<Access, Take("dma"), Access, Give("dma")>>)
  <1> DEFINE h == <<{}, {}, {"dma"}, {"dma"}, {}>>
             P == <<Access, Take("dma"), Access, Give("dma")>>
  <1>1. P \in Seq(Step) /\ Len(P) = 4
    BY Steps DEF Claims
  <1>2. h \in [1 .. 4 + 1 -> Holdings] /\ h[1] = {} /\ h[4 + 1] = {}
    BY Kept, KeptPairs DEF Claims
  <1>3. /\ Plain(R, P, h, 1) /\ Plain(R, P, h, 2) /\ Plain(R, P, h, 3)
        /\ Plain(R, P, h, 4)
    BY Steps DEF Plain, HeldAfter, Claims, Take, Access, Give
  <1>4. \A i \in 1 .. 4 : Plain(R, P, h, i)
    <2> HIDE DEF h, P
    <2> QED BY <1>3
  <1> HIDE DEF h, P
  <1>5. Fragment(R, P, Held(R, {}), Held(R, {}))
    BY <1>1, <1>2, <1>4, PlainParts
  <1> QED BY <1>5, RestHeld DEF Keeps, P

(* The full test, drawn.                                                   *)
LEMMA DrawnAccessKeeps ==
  ASSUME NEW R
  PROVE  Keeps(R, <<Draw, Access, Draw>>)
  <1> DEFINE h == <<{}, {}, {}, {}>>
             P == <<Draw, Access, Draw>>
  <1>1. P \in Seq(Step) /\ Len(P) = 3
    BY Steps DEF Claims
  <1>2. h \in [1 .. 3 + 1 -> Holdings] /\ h[1] = {} /\ h[3 + 1] = {}
    BY Kept, KeptPairs DEF Claims
  <1>3. /\ Plain(R, P, h, 1) /\ Plain(R, P, h, 2) /\ Plain(R, P, h, 3)
    BY Steps DEF Plain, HeldAfter, Claims, Draw, Access
  <1>4. \A i \in 1 .. 3 : Plain(R, P, h, i)
    <2> HIDE DEF h, P
    <2> QED BY <1>3
  <1> HIDE DEF h, P
  <1>5. Fragment(R, P, Held(R, {}), Held(R, {}))
    BY <1>1, <1>2, <1>4, PlainParts
  <1> QED BY <1>5, RestHeld DEF Keeps, P

(* The DMA test, drawn, and ended by BACK half-way.                        *)
LEMMA DrawnDmaKeeps ==
  ASSUME NEW R
  PROVE  Keeps(R, <<Draw, Access, Maybe(3), Draw, Access, Draw>>)
  <1> DEFINE h == <<{}, {}, {}, {}, {}, {}, {}>>
             P == <<Draw, Access, Maybe(3), Draw, Access, Draw>>
  <1>1. P \in Seq(Step) /\ Len(P) = 6
    BY Steps DEF Claims
  <1>2. h \in [1 .. 6 + 1 -> Holdings] /\ h[1] = {} /\ h[6 + 1] = {}
    BY Kept, KeptPairs DEF Claims
  <1>3. /\ Plain(R, P, h, 1) /\ Plain(R, P, h, 2) /\ Plain(R, P, h, 3)
        /\ Plain(R, P, h, 4) /\ Plain(R, P, h, 5) /\ Plain(R, P, h, 6)
    BY Steps DEF Plain, HeldAfter, Claims, Draw, Access, Maybe
  <1>4. \A i \in 1 .. 6 : Plain(R, P, h, i)
    <2> HIDE DEF h, P
    <2> QED BY <1>3
  <1> HIDE DEF h, P
  <1>5. Fragment(R, P, Held(R, {}), Held(R, {}))
    BY <1>1, <1>2, <1>4, PlainParts
  <1> QED BY <1>5, RestHeld DEF Keeps, P

(* A test that follows only if the PSRAM was found.                        *)
LEMMA PerhapsAccessKeeps ==
  ASSUME NEW R
  PROVE  Keeps(R, <<Draw, Maybe(1), Access>>)
  <1> DEFINE h == <<{}, {}, {}, {}>>
             P == <<Draw, Maybe(1), Access>>
  <1>1. P \in Seq(Step) /\ Len(P) = 3
    BY Steps DEF Claims
  <1>2. h \in [1 .. 3 + 1 -> Holdings] /\ h[1] = {} /\ h[3 + 1] = {}
    BY Kept, KeptPairs DEF Claims
  <1>3. /\ Plain(R, P, h, 1) /\ Plain(R, P, h, 2) /\ Plain(R, P, h, 3)
    BY Steps DEF Plain, HeldAfter, Claims, Draw, Access, Maybe
  <1>4. \A i \in 1 .. 3 : Plain(R, P, h, i)
    <2> HIDE DEF h, P
    <2> QED BY <1>3
  <1> HIDE DEF h, P
  <1>5. Fragment(R, P, Held(R, {}), Held(R, {}))
    BY <1>1, <1>2, <1>4, PlainParts
  <1> QED BY <1>5, RestHeld DEF Keeps, P

(* The commands that use the PSRAM's window as they find it.               *)
LEMMA WindowKeeps ==
  ASSUME NEW R
  PROVE  /\ Keeps(R, psram_test) /\ Keeps(R, psram_full_test) /\ Keeps(R, psram_verify_full)
         /\ Keeps(R, psram_wthru_test) /\ Keeps(R, psram_jlink_prep) /\ Keeps(R, psram_fps_bench)
         /\ Keeps(R, psram_rd_diag) /\ Keeps(R, psram_dma_diag)
         /\ Keeps(R, cmd_psram_full_tft) /\ Keeps(R, cmd_psram_dma_test)
  <1>1. Keeps(R, <<Access>>)
    BY RestHeld, SingleSteps, IdleSteps DEF Keeps
  <1>2. Keeps(R, Guarded(<<Access>>))
    BY <1>1, Wrapped
  <1>3. Keeps(R, psram_fps_bench) /\ Keeps(R, psram_rd_diag) /\ Keeps(R, psram_dma_diag)
    BY ReadsByDmaKeep, FramesKeep, Wrapped DEF psram_fps_bench, psram_rd_diag, psram_dma_diag
  <1>4. Keeps(R, cmd_psram_full_tft) /\ Keeps(R, cmd_psram_dma_test)
    BY DrawnAccessKeeps, DrawnDmaKeeps, Wrapped DEF cmd_psram_full_tft, cmd_psram_dma_test
  <1> QED BY <1>2, <1>3, <1>4 DEF psram_test, psram_full_test, psram_verify_full,
             psram_wthru_test, psram_jlink_prep

(* A step that touches neither a claim nor the memory interface, and a     *)
(* jump, wherever the memory interface is.                                 *)
LEMMA QuietStep ==
  ASSUME NEW R, NEW h \in Holdings, NEW M \in SUBSET {m \in Mems : Told(m)},
         "fetch" \in R => \A m \in M : Fetchable(m),
         NEW t, Idles(R, t)
  PROVE  Fragment(R, <<t>>, Point(h, M), Point(h, M))
  <1>1. Point(h, M) \in Points
    BY PointsOf
  <1>2. Allowed(R, t, Point(h, M))
    BY DEF Allowed, Idles, Point
  <1>3. Within(After(t, Point(h, M)), Point(h, M))
    BY DEF Within, After, Point, HeldAfter, MemAfter, Idles
  <1> QED BY <1>1, <1>2, <1>3, OneStep DEF Idles

(* The same of a jump over steps that may as well be taken.                *)
LEMMA QuietJump ==
  ASSUME NEW R, NEW h \in Holdings, NEW M \in SUBSET {m \in Mems : Told(m)},
         NEW N \in SUBSET {m \in Mems : Told(m)}, M \subseteq N,
         "fetch" \in R => \A m \in M : m.irq => Fetchable(m),
         NEW P, NEW n, n = Len(P), Fragment(R, P, Point(h, M), Point(h, N))
  PROVE  Fragment(R, <<Maybe(n)>> \o P, Point(h, M), Point(h, N))
  <1>1. Point(h, M) \in Points /\ Point(h, N) \in Points
    BY PointsOf
  <1>2. Allowed(R, [op |-> "maybe", arg |-> n], Point(h, M))
    BY DEF Allowed, Point
  <1>3. Within(Point(h, M), Point(h, N))
    BY DEF Within, Point
  <1> QED BY <1>1, <1>2, <1>3, Skipped DEF Maybe

(* The same of a jump that depends on the PSRAM's pin.                     *)
LEMMA QuietGuard ==
  ASSUME NEW R, NEW h \in Holdings, NEW M \in SUBSET {m \in Mems : Told(m)},
         "fetch" \in R => \A m \in M : Fetchable(m),
         NEW P, Fragment(R, P, Point(h, M), Point(h, M))
  PROVE  Fragment(R, Guarded(P), Point(h, M), Point(h, M))
  <1>1. Point(h, M) \in Points
    BY PointsOf
  <1>2. Allowed(R, [op |-> "selected", arg |-> Len(P)], Point(h, M))
    BY DEF Allowed, Point
  <1>3. Within(Point(h, M), Point(h, M))
    BY DEF Within
  <1> QED BY <1>1, <1>2, <1>3, Skipped DEF Guarded, Selected

(* What the memory interface is known to be in each mode.                  *)
LEMMA Modes ==
  ASSUME NEW R, NEW w, NEW f, NEW p, NEW r, NEW C
  PROVE  /\ Mode(w, f, p, r, C) \in SUBSET {m \in Mems : Told(m)}
         /\ Loose(Mode(w, f, p, r, C)) \subseteq Mode(w, f, p, r, C)
         /\ Quadded(Mode(w, f, p, r, C)) \subseteq Mode(w, f, p, r, C)
         /\ w # "open" => \A m \in Mode(w, f, p, r, C) : ~m.irq
         /\ w # "direct" /\ f = "boot" /\ "fetch" \in C =>
              \A m \in Mode(w, f, p, r, C) : Fetchable(m)
         /\ "fetch" \notin R => Mode(w, f, p, r, {}) = Mode(w, f, p, r, R)
  BY DEF Mode, Loose, Quadded, Fetchable

(* Four steps, and five, as one and the rest.                              *)
LEMMA FourSteps ==
  ASSUME NEW a, NEW b, NEW c, NEW d
  PROVE  <<a, b, c, d>> = <<a>> \o <<b, c, d>>
  OBVIOUS

(* Five steps, as one and the rest.                                        *)
LEMMA FiveSteps ==
  ASSUME NEW a, NEW b, NEW c, NEW d, NEW e
  PROVE  <<a, b, c, d, e>> = <<a>> \o <<b, c, d, e>>
  OBVIOUS

(* The PSRAM set up, or looked for.                                        *)
LEMMA PsramInitKeeps ==
  ASSUME NEW R
  PROVE  Keeps(R, psram_init)
  <1> DEFINE X == <<Mem("quad", FALSE), Maybe(3), Mem("quad", TRUE), Mem("psram", "boot"),
                    Mem("pin", "xip")>>
             Y == <<Mem("quad", TRUE), Mem("psram", "boot"), Mem("pin", "xip")>>
             D == Mode("direct", "boot", "own", {"boot"}, R)
             M == Mode("masked", "boot", "own", {"boot"}, R)
             O == Mode("open", "boot", "own", {"boot"}, R)
  <1>0. {} \in Holdings
    BY RestHeld
  <1>1. Fragment(R, Y, Point({}, Loose(D)), Point({}, D))
    <2>1. Fragment(R, <<Mem("quad", TRUE)>>, Point({}, Loose(D)), Point({}, Quadded(D)))
      BY <1>0, LooseSteps
    <2>2. Fragment(R, <<Mem("psram", "boot")>>, Point({}, Quadded(D)), Point({}, Quadded(D)))
      BY <1>0, LooseSteps
    <2>3. Fragment(R, <<Mem("pin", "xip")>>, Point({}, Quadded(D)), Point({}, D))
      BY <1>0, LooseSteps
    <2>4. Fragment(R, <<Mem("psram", "boot"), Mem("pin", "xip")>>, Point({}, Quadded(D)), Point({}, D))
      BY <2>2, <2>3, Several
    <2> QED BY ZenonT(60), <2>1, <2>4, Several
  <1>2. Fragment(R, <<Maybe(3)>> \o Y, Point({}, Loose(D)), Point({}, D))
    <2>1. Len(Y) = 3
      OBVIOUS
    <2>2. /\ Loose(D) \in SUBSET {m \in Mems : Told(m)} /\ D \in SUBSET {m \in Mems : Told(m)}
          /\ Loose(D) \subseteq D /\ \A m \in Loose(D) : ~m.irq
      BY Modes
    <2> HIDE DEF D, Y
    <2> QED BY <1>0, <1>1, <2>1, <2>2, QuietJump
  <1>3. Fragment(R, X, Point({}, Loose(D)), Point({}, D))
    <2>1. Fragment(R, <<Mem("quad", FALSE)>>, Point({}, Loose(D)), Point({}, Loose(D)))
      BY <1>0, LooseSteps
    <2>2. X = <<Mem("quad", FALSE)>> \o (<<Maybe(3)>> \o Y)
      <3> DEFINE Z == <<Maybe(3), Mem("quad", TRUE), Mem("psram", "boot"), Mem("pin", "xip")>>
      <3>1. Z = <<Maybe(3)>> \o Y
        BY FourSteps
      <3>2. X = <<Mem("quad", FALSE)>> \o Z
        BY FiveSteps
      <3> HIDE DEF X, Y, Z
      <3> QED BY <3>1, <3>2
    <2> QED BY <1>2, <2>1, <2>2, Joined
  <1>4. Fragment(R, InDirect(X), Point({}, Loose(M)), Point({}, M))
    <2>1. Fragment(R, <<Mem("direct", TRUE)>>, Point({}, Loose(M)), Point({}, Loose(D)))
      BY <1>0, LooseSteps
    <2>2. Fragment(R, <<Mem("direct", FALSE)>>, Point({}, D), Point({}, M))
      BY <1>0, ModeSteps
    <2> HIDE DEF X, D, M
    <2> QED BY <1>3, <2>1, <2>2, Joined DEF InDirect
  <1>5. Fragment(R, IrqOff(InDirect(X)), Point({}, Loose(O)), Point({}, O))
    <2>1. Fragment(R, <<Mem("irq", FALSE)>>, Point({}, Loose(O)), Point({}, Loose(M)))
      BY <1>0, LooseSteps
    <2>2. Fragment(R, <<Mem("irq", TRUE)>>, Point({}, M), Point({}, O))
      BY <1>0, ModeSteps
    <2> HIDE DEF X, M, O
    <2> QED BY <1>4, <2>1, <2>2, Joined DEF IrqOff
  <1>6. Fragment(R, <<Mem("pin", "sio")>>, Point({}, O), Point({}, Loose(O)))
    BY <1>0, LooseSteps
  <1>7. AtRest(R) = Point({}, O)
    BY RestMode DEF AtRest
  <1> HIDE DEF O
  <1> QED BY <1>5, <1>6, <1>7, Joined DEF psram_init, Keeps

(* The probe leaves the pin with software, so that the window is not used. *)
LEMMA PsramProbeKeeps ==
  ASSUME NEW R
  PROVE  Keeps(R, psram_probe)
  <1> DEFINE X == <<Maybe(1), Mem("quad", FALSE)>>
             D == Mode("direct", "boot", "own", {"boot"}, R)
             M == Mode("masked", "boot", "own", {"boot"}, R)
             O == Mode("open", "boot", "own", {"boot"}, R)
  <1>0. {} \in Holdings
    BY RestHeld
  <1>1. Fragment(R, X, Point({}, Loose(D)), Point({}, Loose(D)))
    <2>1. Fragment(R, <<Mem("quad", FALSE)>>, Point({}, Loose(D)), Point({}, Loose(D)))
      BY <1>0, LooseSteps
    <2>2. Len(<<Mem("quad", FALSE)>>) = 1
      OBVIOUS
    <2>3. /\ Loose(D) \in SUBSET {m \in Mems : Told(m)}
          /\ \A m \in Loose(D) : ~m.irq
      BY Modes
    <2>4. X = <<Maybe(1)>> \o <<Mem("quad", FALSE)>>
      BY TwoSteps
    <2> HIDE DEF D, X
    <2> QED BY <1>0, <2>1, <2>2, <2>3, <2>4, QuietJump
  <1>2. Fragment(R, InDirect(X), Point({}, Loose(M)), Point({}, Loose(M)))
    <2>1. Fragment(R, <<Mem("direct", TRUE)>>, Point({}, Loose(M)), Point({}, Loose(D)))
      BY <1>0, LooseSteps
    <2>2. Fragment(R, <<Mem("direct", FALSE)>>, Point({}, Loose(D)), Point({}, Loose(M)))
      BY <1>0, LooseSteps
    <2> HIDE DEF X, D, M
    <2> QED BY <1>1, <2>1, <2>2, Joined DEF InDirect
  <1>3. Fragment(R, IrqOff(InDirect(X)), Point({}, Loose(O)), Point({}, Loose(O)))
    <2>1. Fragment(R, <<Mem("irq", FALSE)>>, Point({}, Loose(O)), Point({}, Loose(M)))
      BY <1>0, LooseSteps
    <2>2. Fragment(R, <<Mem("irq", TRUE)>>, Point({}, Loose(M)), Point({}, Loose(O)))
      BY <1>0, LooseSteps
    <2> HIDE DEF X, M, O
    <2> QED BY <1>2, <2>1, <2>2, Joined DEF IrqOff
  <1>4. Fragment(R, <<Mem("pin", "sio")>>, Point({}, O), Point({}, Loose(O)))
    BY <1>0, LooseSteps
  <1>5. Within(Point({}, Loose(O)), Point({}, O)) /\ Within(Point({}, O), Point({}, O))
    BY Modes DEF Within, Point
  <1>6. AtRest(R) = Point({}, O)
    BY RestMode DEF AtRest
  <1> HIDE DEF O
  <1>7. Fragment(R, psram_probe, Point({}, O), Point({}, Loose(O)))
    BY <1>3, <1>4, Joined DEF psram_probe
  <1> QED BY <1>5, <1>6, <1>7, Consequence DEF Keeps

(* The PSRAM used at another timing, and the timing put back.              *)
LEMMA TimedKeeps ==
  ASSUME NEW R
  PROVE  /\ Keeps(R, psram_full_test_75) /\ Keeps(R, psram_full_at)
         /\ Keeps(R, psram_speed_test) /\ Keeps(R, psram_diag_test)
  <1> DEFINE T == Mode("open", "boot", "own", {"test"}, R)
             O == Mode("open", "boot", "own", {"boot"}, R)
  <1>0. {} \in Holdings
    BY RestHeld
  <1>1. Fragment(R, psram_set_timing("test"), Point({}, O), Point({}, T))
    BY <1>0, PsramTiming
  <1>2. Fragment(R, psram_set_timing("boot"), Point({}, T), Point({}, O))
    BY <1>0, PsramTiming
  <1>3. T \in SUBSET {m \in Mems : Told(m)} /\ ("fetch" \in R => \A m \in T : Fetchable(m))
    BY Modes
  <1>4. AtRest(R) = Point({}, O)
    BY RestMode DEF AtRest
  <1>5. Fragment(R, <<Mem("psram", "boot")>>, Point({}, T), Point({}, O))
    BY <1>0, ModeSteps
  <1> HIDE DEF T, O
  <1>6. Fragment(R, <<Access>>, Point({}, T), Point({}, T))
    BY <1>0, <1>3, QuietStep, IdleSteps
  <1>7. Fragment(R, Guarded(<<Access>>), Point({}, T), Point({}, T))
    BY <1>0, <1>3, <1>6, QuietGuard
  <1>8. Keeps(R, psram_full_test_75) /\ Keeps(R, psram_full_at)
    BY <1>1, <1>2, <1>4, <1>7, Joined
       DEF Keeps, psram_full_test_75, psram_full_at, psram_full_test, psram_verify_full
  <1>9. Keeps(R, psram_set_timing("test") \o <<Access, Mem("psram", "boot")>>)
    <2>1. Fragment(R, <<Access, Mem("psram", "boot")>>, Point({}, T), Point({}, O))
      BY <1>5, <1>6, Several
    <2> QED BY <1>1, <1>4, <2>1, Joined DEF Keeps
  <1>10. Keeps(R, psram_set_timing("test") \o <<Access>> \o psram_set_timing("boot"))
    BY <1>1, <1>2, <1>4, <1>6, Joined DEF Keeps
  <1> QED BY <1>8, <1>9, <1>10, Wrapped DEF psram_speed_test, psram_diag_test

(* Commands that set up the PSRAM, drawing what they do.                   *)
LEMMA DiagnosisKeeps ==
  ASSUME NEW R
  PROVE  Keeps(R, cmd_memory_diag) /\ Keeps(R, cmd_psram_debug)
  <1>1. Keeps(R, <<Draw>>)
    BY RestHeld, SingleSteps, IdleSteps DEF Keeps
  <1>2. /\ Keeps(R, psram_init \o <<Draw, Maybe(1), Access>>)
        /\ Keeps(R, <<Draw>> \o psram_init \o <<Draw, Maybe(1), Access>>)
    BY <1>1, PsramInitKeeps, PerhapsAccessKeeps, Joined DEF Keeps
  <1> QED BY <1>2, Wrapped DEF cmd_memory_diag, cmd_psram_debug

(* The flash's timing, set with the interrupts off.                        *)
LEMMA FlashResetKeeps ==
  ASSUME NEW R
  PROVE  Keeps(R, flash_reset)
  <1>1. {} \in Holdings
    BY RestHeld
  <1>2. Point({}, Mode("direct", "boot", "own", {"boot"}, R)) \in Points
    BY <1>1, Modes, PointsOf
  <1>3. Fragment(R, <<>>, Point({}, Mode("direct", "boot", "own", {"boot"}, R)),
                          Point({}, Mode("direct", "boot", "own", {"boot"}, R)))
    BY <1>2, NothingRuns
  <1>4. Fragment(R, InDirect(<<>>), Point({}, Mode("masked", "boot", "own", {"boot"}, R)),
                                    Point({}, Mode("masked", "boot", "own", {"boot"}, R)))
    BY <1>1, <1>3, InDirectMode
  <1>5. Fragment(R, flash_reset, Point({}, Mode("open", "boot", "own", {"boot"}, R)),
                                 Point({}, Mode("open", "boot", "own", {"boot"}, R)))
    BY <1>1, <1>4, IrqOffMode DEF flash_reset
  <1> QED BY <1>5, RestMode DEF Keeps, AtRest

(* The sweeps, which leave the interrupts on at a candidate timing.        *)
LEMMA SweepsKeep ==
  ASSUME NEW R, "fetch" \notin R
  PROVE  Keeps(R, flash_speed_run) /\ Keeps(R, flash_sweep2)
  <1> DEFINE T == Mode("open", "test", "own", {"boot"}, R)
             O == Mode("open", "boot", "own", {"boot"}, R)
  <1>0. {} \in Holdings
    BY RestHeld
  <1>1. Fragment(R, IrqOff(M0("test")), Point({}, O), Point({}, T))
    BY <1>0, FlashTiming, IrqOffMode
  <1>2. Fragment(R, IrqOff(M0("boot")), Point({}, T), Point({}, O))
    BY <1>0, FlashTiming, IrqOffMode
  <1>3. Fragment(R, <<Cached>>, Point({}, T), Point({}, T))
    <2>1. Fragment(R, <<Cached>>, Point({}, T), Point({}, Mode("open", "test", "own", {"boot"}, {})))
      BY <1>0, ModeSteps DEF Cached
    <2> QED BY <2>1, Modes
  <1>4. T \in SUBSET {m \in Mems : Told(m)}
    BY Modes
  <1>5. AtRest(R) = Point({}, O)
    BY RestMode DEF AtRest
  <1> HIDE DEF T, O
  <1>6. Keeps(R, flash_speed_run)
    BY <1>1, <1>2, <1>5, Joined DEF flash_speed_run, Keeps
  <1>7. Fragment(R, <<Maybe(1), Cached>>, Point({}, T), Point({}, T))
    <2>1. Len(<<Cached>>) = 1
      OBVIOUS
    <2>2. <<Maybe(1), Cached>> = <<Maybe(1)>> \o <<Cached>>
      BY TwoSteps
    <2>3. Fragment(R, <<Maybe(1)>> \o <<Cached>>, Point({}, T), Point({}, T))
      BY <1>0, <1>3, <1>4, <2>1, QuietJump
    <2> QED BY <2>2, <2>3
  <1> QED BY <1>1, <1>2, <1>5, <1>6, <1>7, Joined DEF flash_sweep2, Keeps

(* The scans with the interrupts off: those past the cache call functions  *)
(* in flash at a candidate timing.                                         *)
LEMMA ScansKeep ==
  ASSUME NEW R, "fetch" \notin R
  PROVE  Keeps(R, flash_deep_scan) /\ Keeps(R, flash_deep_ablation)
  <1> DEFINE S(f, p) == Mode("masked", f, p, {"boot"}, R)
             Q == M0("test") \o <<Fetch>>
  <1>0. {} \in Holdings
    BY RestHeld
  <1>1. /\ Fragment(R, <<Mem("pads", "tried")>>, Point({}, S("boot", "own")), Point({}, S("boot", "tried")))
        /\ Fragment(R, <<Mem("pads", "own")>>, Point({}, S("boot", "tried")), Point({}, S("boot", "own")))
    BY <1>0, ModeSteps
  <1>2. /\ Fragment(R, M0("test"), Point({}, S("boot", "tried")), Point({}, S("test", "tried")))
        /\ Fragment(R, M0("boot"), Point({}, S("test", "tried")), Point({}, S("boot", "tried")))
    BY <1>0, FlashTiming
  <1>3. /\ S("test", "tried") \in SUBSET {m \in Mems : Told(m)}
        /\ S("boot", "own") \in SUBSET {m \in Mems : Told(m)}
    BY Modes
  <1>4. ASSUME NEW P, Fragment(R, P, Point({}, S("boot", "own")), Point({}, S("boot", "own")))
        PROVE  Keeps(R, IrqOff(P))
    <2>1. Fragment(R, IrqOff(P), Point({}, Mode("open", "boot", "own", {"boot"}, R)),
                                 Point({}, Mode("open", "boot", "own", {"boot"}, R)))
      BY <1>0, <1>4, IrqOffMode
    <2> QED BY <2>1, RestMode DEF Keeps, AtRest
  <1> HIDE DEF S
  <1>5. /\ Fragment(R, <<Fetch>>, Point({}, S("test", "tried")), Point({}, S("test", "tried")))
        /\ Fragment(R, <<Fetch>>, Point({}, S("boot", "own")), Point({}, S("boot", "own")))
    BY <1>0, <1>3, QuietStep, IdleSteps
  <1>6. Fragment(R, <<Fetch, Mem("pads", "tried")>>,
                 Point({}, S("boot", "own")), Point({}, S("boot", "tried")))
    BY <1>1, <1>5, Several
  <1>7. Keeps(R, flash_deep_scan)
    <2>1. Fragment(R, <<Fetch, Mem("pads", "tried")>> \o M0("test") \o <<Fetch>> \o M0("boot")
                      \o <<Mem("pads", "own")>>, Point({}, S("boot", "own")), Point({}, S("boot", "own")))
      BY <1>1, <1>2, <1>5, <1>6, Joined
    <2> QED BY <1>4, <2>1 DEF flash_deep_scan
  <1>8. Keeps(R, flash_deep_ablation)
    <2>1. Fragment(R, <<Mem("pads", "tried")>> \o M0("test") \o <<Fetch>> \o M0("boot")
                      \o <<Mem("pads", "own")>>, Point({}, S("boot", "own")), Point({}, S("boot", "own")))
      BY <1>1, <1>2, <1>5, Joined
    <2> QED BY <1>4, <2>1 DEF flash_deep_ablation
  <1> QED BY <1>7, <1>8

(* The scans through the cache empty it with the interrupts off, before    *)
(* anything is fetched through it.                                         *)
LEMMA CachedScansKeep ==
  ASSUME NEW R
  PROVE  Keeps(R, flash_deep_scan_cached) /\ Keeps(R, flash_deep_ablation_cached)
  <1> DEFINE S(f, p, C) == Mode("masked", f, p, {"boot"}, C)
  <1>0. {} \in Holdings
    BY RestHeld
  <1>1. Fragment(R, <<Mem("pads", "tried")>>,
                 Point({}, S("boot", "own", R)), Point({}, S("boot", "tried", R)))
    BY <1>0, ModeSteps
  <1>2. Fragment(R, M0("test"), Point({}, S("boot", "tried", R)), Point({}, S("test", "tried", R)))
    BY <1>0, FlashTiming
  <1>3. Fragment(R, M0("boot"), Point({}, S("test", "tried", {})), Point({}, S("boot", "tried", {})))
    BY <1>0, FlashTiming
  <1>4. Fragment(R, <<Cached>>, Point({}, S("boot", "own", R)), Point({}, S("boot", "own", R)))
    BY <1>0, ModeSteps DEF Cached
  <1>5. Fragment(R, <<Cached>>, Point({}, S("test", "tried", R)), Point({}, S("test", "tried", {})))
    BY <1>0, ModeSteps DEF Cached
  <1>6. Fragment(R, <<Mem("pads", "own")>>,
                 Point({}, S("boot", "tried", {})), Point({}, S("boot", "own", {})))
    BY <1>0, ModeSteps
  <1>7. Fragment(R, <<Mem("stale", FALSE)>>, Point({}, S("boot", "own", {})), Point({}, S("boot", "own", R)))
    BY <1>0, ModeSteps
  <1>8. Fragment(R, <<Mem("stale", FALSE)>>,
                 Point({}, S("boot", "tried", {})), Point({}, S("boot", "tried", R)))
    BY <1>0, ModeSteps
  <1>9. Fragment(R, <<Mem("pads", "own")>>, Point({}, S("boot", "tried", R)), Point({}, S("boot", "own", R)))
    BY <1>0, ModeSteps
  <1>10. Fragment(R, <<Mem("stale", FALSE)>>, Point({}, S("boot", "own", R)), Point({}, S("boot", "own", R)))
    BY <1>0, ModeSteps
  <1>11. ASSUME NEW P, Fragment(R, P, Point({}, S("boot", "own", R)), Point({}, S("boot", "own", R)))
        PROVE  Keeps(R, IrqOff(P))
    <2>1. Fragment(R, IrqOff(P), Point({}, Mode("open", "boot", "own", {"boot"}, R)),
                                 Point({}, Mode("open", "boot", "own", {"boot"}, R)))
      BY <1>0, <1>11, IrqOffMode
    <2> QED BY <2>1, RestMode DEF Keeps, AtRest
  <1> HIDE DEF S
  <1>12. Fragment(R, <<Cached, Mem("pads", "tried")>>,
                  Point({}, S("boot", "own", R)), Point({}, S("boot", "tried", R)))
    BY <1>1, <1>4, Several
  <1>13. Fragment(R, <<Mem("pads", "own"), Mem("stale", FALSE)>>,
                  Point({}, S("boot", "tried", {})), Point({}, S("boot", "own", R)))
    BY <1>6, <1>7, Several
  <1>14. Fragment(R, <<Mem("stale", FALSE), Mem("pads", "own"), Mem("stale", FALSE)>>,
                  Point({}, S("boot", "tried", {})), Point({}, S("boot", "own", R)))
    <2>1. Fragment(R, <<Mem("pads", "own"), Mem("stale", FALSE)>>,
                   Point({}, S("boot", "tried", R)), Point({}, S("boot", "own", R)))
      BY <1>9, <1>10, Several
    <2> QED BY <1>8, <2>1, Several
  <1>15. Fragment(R, <<Cached, Mem("pads", "tried")>> \o M0("test") \o <<Cached>> \o M0("boot"),
                  Point({}, S("boot", "own", R)), Point({}, S("boot", "tried", {})))
    BY <1>2, <1>3, <1>5, <1>12, Joined
  <1>16. Keeps(R, flash_deep_scan_cached)
    BY <1>11, <1>13, <1>15, Joined DEF flash_deep_scan_cached
  <1>17. Keeps(R, flash_deep_ablation_cached)
    BY <1>11, <1>14, <1>15, Joined DEF flash_deep_ablation_cached
  <1> QED BY <1>16, <1>17

(* The sweep of the PSRAM, which BACK ends with the candidate timing in.   *)
LEMMA TuningKeeps ==
  ASSUME NEW R, "fetch" \notin R
  PROVE  Keeps(R, cmd_psram_tuning)
  <1> DEFINE A == Mode("open", "boot", "own", {"boot", "test"}, R)
             O == Mode("open", "boot", "own", {"boot"}, R)
             S == psram_set_timing("test")
             B == psram_set_timing("boot")
             X == <<Draw>> \o S
             m == <<Maybe(Len(Tuning))>>
             c == <<Access>>
  <1>0. {} \in Holdings
    BY RestHeld
  <1>1. /\ A \in SUBSET {n \in Mems : Told(n)} /\ O \in SUBSET {n \in Mems : Told(n)} /\ O \subseteq A
        /\ Mode("open", "boot", "own", {"test"}, R) \subseteq A
    BY DEF Mode
  <1>2. /\ Fragment(R, S, Point({}, O), Point({}, Mode("open", "boot", "own", {"test"}, R)))
        /\ Fragment(R, B, Point({}, A), Point({}, O))
    BY <1>0, PsramTiming
  <1>3. Fragment(R, S, Point({}, O), Point({}, A))
    BY <1>1, <1>2, Consequence DEF Within, Point
  <1>4. AtRest(R) = Point({}, O)
    BY RestMode DEF AtRest
  <1>5. Fragment(R, flash_speed_run, Point({}, O), Point({}, O))
    BY <1>4, SweepsKeep DEF Keeps
  <1> HIDE DEF A, O, S, B
  <1>6. /\ Fragment(R, <<Draw>>, Point({}, O), Point({}, O))
        /\ Fragment(R, c, Point({}, A), Point({}, A))
    BY <1>0, <1>1, QuietStep, IdleSteps
  <1>7. Fragment(R, Tuning, Point({}, A), Point({}, A))
    <2>1. Fragment(R, Tuning, Point({}, A), Point({}, O))
      BY <1>2, <1>5, <1>6, Joined DEF Tuning, B
    <2> QED BY <1>1, <2>1, Consequence DEF Within, Point
  <1>8. Fragment(R, m \o Tuning, Point({}, A), Point({}, A))
    BY <1>0, <1>1, <1>7, QuietJump
  <1>9. Fragment(R, X, Point({}, O), Point({}, A))
    BY <1>3, <1>6, Joined
  <1>10. X \in Programs /\ c \in Programs /\ m \in Programs /\ Tuning \in Programs
    <2>1. X \in Seq(Step) /\ c \in Seq(Step) /\ Tuning \in Seq(Step)
      BY <1>6, <1>7, <1>9 DEF Fragment
    <2>2. Len(Tuning) \in Nat
      BY <2>1, LenProperties
    <2> QED BY <2>1, <2>2, Steps DEF Programs
  <1>11. <<Access, Maybe(Len(Tuning))>> = c \o m
    BY TwoSteps
  <1> HIDE DEF X, c, m
  <1>12. Keeps(R, (X \o (c \o (m \o Tuning))) \o B)
    BY <1>2, <1>4, <1>6, <1>8, <1>9, Joined DEF Keeps
  <1>13. (X \o (c \o m)) \o Tuning = X \o (c \o (m \o Tuning))
    <2>1. Then(Then(X, Then(c, m)), Tuning) = Then(X, Then(c, Then(m, Tuning)))
      BY <1>10, ThenProperties
    <2> QED BY <2>1 DEF Then
  <1>14. <<Draw>> \o psram_set_timing("test") \o <<Access, Maybe(Len(Tuning))>> \o Tuning
           \o psram_set_timing("boot")
         = (X \o (c \o (m \o Tuning))) \o B
    BY <1>11, <1>13 DEF X, S, B
  <1> QED BY <1>12, <1>14, Wrapped DEF cmd_psram_tuning

-----------------------------------------------------------------------------
(* Every command.                                                          *)

(* Those that fetch from the flash at a candidate timing with the          *)
(* interrupts on, or call a function that is there; those that write the   *)
(* charger's control register.                                             *)
Sweeping == {"flash_sweep", "flash_sweep2", "flash_deep_scan",
             "flash_deep_ablation", "psram_tuning"}
Charging == {"charge_on", "charge_off", "charge_scan"}

(* Every command of the console keeps the rules, those of the memory       *)
(* except the sweeps, that of the charger except its own three.            *)
LEMMA ConsoleKeeps ==
  ASSUME NEW R, NEW name \in DOMAIN Console,
         "fetch" \in R => name \notin Sweeping,
         "uncharged" \in R => name \notin Charging
  PROVE  Keeps(R, Console[name])
  <1>1. /\ Keeps(R, Console["baro"]) /\ Keeps(R, Console["mag"])
        /\ Keeps(R, Console["imu"])
    BY LiveKeeps DEF Console, baro_read, mag_read, imu_read
  <1>2. /\ Keeps(R, Console["gnss_probe"]) /\ Keeps(R, Console["gnss_rfdiag"])
        /\ Keeps(R, Console["dump_b"]) /\ Keeps(R, Console["status"])
        /\ Keeps(R, Console["adc"]) /\ Keeps(R, Console["mic"])
        /\ Keeps(R, Console["mic_dump"])
    BY UseKeeps DEF Console, gnss_probe, gnss_rfdiag, dump_bus_b, status, adc, mic_test, mic_dump,
       Record, Claims
  <1>3. /\ Keeps(R, Console["scan_a"]) /\ Keeps(R, Console["scan_b"])
        /\ Keeps(R, Console["lora"])
    BY ScanKeeps DEF Console, scan_bus_a, scan_bus_b, lora_test, Claims
  <1>4. /\ Keeps(R, Console["amp_test"]) /\ Keeps(R, Console["amp"])
        /\ Keeps(R, Console["bee"]) /\ Keeps(R, Console["mic_raw"])
        /\ Keeps(R, Console["mic_rec"])
    BY SoundKeeps DEF Console, amp_test, amp_breathe, amp_bee
  <1>5. /\ Keeps(R, Console["sram"]) /\ Keeps(R, Console["flash"])
        /\ Keeps(R, Console["flash_bench"]) /\ Keeps(R, Console["flash_boost_pads"])
        /\ Keeps(R, Console["qmi_diag"]) /\ Keeps(R, Console["rotate"])
    BY EmptyKeeps DEF Console, sram_test, flash_test, flash_bench, flash_boost_pads, qmi_diag, rotate
  <1>6. /\ Keeps(R, Console["gnss_info"]) /\ Keeps(R, Console["gnss_rftft"])
        /\ Keeps(R, Console["gnss_tft"])
    BY GnssInfoKeeps, LiveGnssKeeps DEF Console, gnss_rftft, gnss_tft_test
  <1>7. /\ Keeps(R, Console["led"]) /\ Keeps(R, Console["motor"])
        /\ Keeps(R, Console["mic_loop"]) /\ Keeps(R, Console["bq27441"])
        /\ Keeps(R, Console["core1"])
    BY LedKeeps, MotorKeeps, GaugeKeeps, LoopbackKeeps, Core1Keeps DEF Console
  <1>8. /\ Keeps(R, Console["lora_rx"]) /\ Keeps(R, Console["lora_tx"])
        /\ Keeps(R, Console["lora_dump"])
    BY RadioKeeps DEF Console
  <1>9. /\ Keeps(R, Console["psram"]) /\ Keeps(R, Console["psram_full"])
        /\ Keeps(R, Console["psram_jlink"]) /\ Keeps(R, Console["psram_verify"])
        /\ Keeps(R, Console["psram_wthru"]) /\ Keeps(R, Console["psram_full_tft"])
        /\ Keeps(R, Console["psram_dma"]) /\ Keeps(R, Console["psram_rd_diag"])
        /\ Keeps(R, Console["psram_dma_diag"]) /\ Keeps(R, Console["psram_fps"])
    BY WindowKeeps DEF Console
  <1>10. /\ Keeps(R, Console["psram_full_75"]) /\ Keeps(R, Console["psram_sweep"])
        /\ Keeps(R, Console["psram_diag"]) /\ Keeps(R, Console["psram_probe"])
        /\ Keeps(R, Console["psram_at"]) /\ Keeps(R, Console["mem_diag"])
        /\ Keeps(R, Console["psram_debug"])
    BY TimedKeeps, PsramInitKeeps, PsramProbeKeeps, DiagnosisKeeps DEF Console
  <1>11. /\ Keeps(R, Console["flash_reset"]) /\ Keeps(R, Console["flash_pad_ablation"])
        /\ Keeps(R, Console["flash_deep_scan_cached"]) /\ Keeps(R, Console["flash_deep_ablation_cached"])
        /\ Keeps(R, Console["flash_rand_scan_cached"])
    BY FlashResetKeeps, PadAblationKeeps, CachedScansKeep DEF Console, flash_rand_scan_cached
  <1>12. /\ Keeps(R, Console["key"]) /\ Keeps(R, Console["key_tft"])
        /\ Keeps(R, Console["tft"]) /\ Keeps(R, Console["tft_fast"])
    BY KeyMonitorKeeps, KeyTftKeeps, TftTestKeeps, TftFastKeeps DEF Console
  <1>13. "uncharged" \notin R => 
        /\ Keeps(R, Console["charge_on"]) /\ Keeps(R, Console["charge_scan"])
        /\ Keeps(R, Console["charge_off"])
    BY ChargeOnKeeps, ChargeOffKeeps, ChargeScanKeeps DEF Console
  <1>14. "fetch" \notin R => 
        /\ Keeps(R, Console["flash_sweep"]) /\ Keeps(R, Console["flash_sweep2"])
        /\ Keeps(R, Console["flash_deep_scan"]) /\ Keeps(R, Console["flash_deep_ablation"])
        /\ Keeps(R, Console["psram_tuning"])
    BY SweepsKeep, ScansKeep, TuningKeeps DEF Console
  <1>15. name \in {"baro", "mag", "imu", "gnss_info", "gnss_probe",
             "gnss_rfdiag", "gnss_rftft", "dump_b", "scan_a", "scan_b",
             "status", "adc", "led", "motor", "amp_test", "amp", "bee",
             "mic", "mic_raw", "mic_loop", "mic_rec", "mic_dump", "lora",
             "lora_rx", "lora_tx", "lora_dump", "sram", "flash", "psram",
             "psram_full", "psram_full_75", "psram_sweep", "flash_sweep",
             "flash_bench", "flash_sweep2", "flash_reset",
             "flash_boost_pads", "flash_pad_ablation", "flash_deep_scan",
             "flash_deep_ablation", "flash_deep_scan_cached",
             "flash_deep_ablation_cached", "flash_rand_scan_cached",
             "psram_jlink", "psram_diag", "psram_probe", "qmi_diag",
             "psram_verify", "psram_wthru", "psram_at", "mem_diag",
             "psram_full_tft", "psram_tuning", "psram_debug", "psram_dma",
             "psram_rd_diag", "psram_dma_diag", "psram_fps", "key",
             "key_tft", "tft", "tft_fast", "rotate", "gnss_tft",
             "charge_on", "charge_scan", "charge_off", "bq27441", "core1"}
    BY DEF Console
  <1> QED BY <1>1, <1>2, <1>3, <1>4, <1>5, <1>6, <1>7, <1>8, <1>9, <1>10, <1>11, <1>12, <1>13,
             <1>14, <1>15 DEF Sweeping, Charging

(* So does every item of every page, the memory page except the rule about *)
(* fetching, which its tuning item breaks.                                 *)
LEMMA PagesKeep ==
  ASSUME NEW R, NEW p \in DOMAIN Pages, NEW steps \in Pages[p],
         "fetch" \in R => p # "memory",
         "uncharged" \in R => steps \notin {charge_on, charge_off, charge_scan}
  PROVE  Keeps(R, steps)
  <1>1. /\ "busA" \in Claims /\ "busB" \in Claims /\ "radio" \in Claims
        /\ Keeps(R, Live) /\ Keeps(R, Sound) /\ Keeps(R, Record) /\ Keeps(R, <<>>)
        /\ \A r \in Claims : Keeps(R, <<Draw, Take(r), Use(r), Draw, Give(r)>>)
    BY LiveKeeps, SoundKeeps, EmptyKeeps, ScanKeeps DEF Claims
  <1>2. CASE p = "sensors"
    <2>1. Keeps(R, scan_bus_a \o <<Wait>>)
      BY <1>1, Wrapped DEF scan_bus_a
    <2>2. Keeps(R, gnss_info) /\ Keeps(R, LiveGnss)
      BY GnssInfoKeeps, LiveGnssKeeps
    <2> QED BY <1>1, <1>2, <2>1, <2>2
            DEF Pages, imu_read, baro_read, mag_read, gnss_tft_test, gnss_rftft
  <1>3. CASE p = "power"
    <2>1. Keeps(R, scan_bus_b \o <<Wait>>)
      BY <1>1, Wrapped DEF scan_bus_b
    <2>2. /\ Keeps(R, charger_diag) /\ Keeps(R, gauge_diag)
          /\ Keeps(R, led) /\ Keeps(R, motor_breathe)
      BY ChargerDiagKeeps, GaugeDiagKeeps, LedKeeps, MotorKeeps
    <2>3. "uncharged" \notin R =>
             Keeps(R, charge_on) /\ Keeps(R, charge_off) /\ Keeps(R, charge_scan)
      BY ChargeOnKeeps, ChargeOffKeeps, ChargeScanKeeps
    <2>4. steps \in {scan_bus_b \o <<Wait>>, charger_diag, gauge_diag, charge_on, charge_off,
                     charge_scan, led, motor_breathe}
      BY <1>3 DEF Pages
    <2> QED BY <2>1, <2>2, <2>3, <2>4
  <1>4. CASE p = "audio"
    <2>1. Keeps(R, mic_raw) /\ Keeps(R, mic_rec) /\ Keeps(R, mic_loopback)
      BY SoundKeeps, LoopbackKeeps
    <2> QED BY <1>1, <1>4, <2>1 DEF Pages, amp_test, amp_breathe, amp_bee, mic_test, mic_dump
  <1>5. CASE p = "memory"
    <2>1. /\ Keeps(R, cmd_memory_diag) /\ Keeps(R, cmd_psram_debug)
          /\ Keeps(R, cmd_psram_full_tft) /\ Keeps(R, cmd_psram_dma_test)
          /\ Keeps(R, cmd_psram_tuning)
      BY <1>5, DiagnosisKeeps, WindowKeeps, TuningKeeps
    <2> QED BY <1>5, <2>1 DEF Pages
  <1>6. CASE p = "lora"
    <2>1. Keeps(R, lora_test \o <<Wait>>) /\ Keeps(R, lora_rx)
      BY RadioKeeps, Wrapped
    <2>2. Keeps(R, lora_tx \o <<Wait>>) /\ Keeps(R, lora_dump \o <<Wait>>)
      BY RadioKeeps, Wrapped
    <2> QED BY <1>6, <2>1, <2>2 DEF Pages
  <1>7. CASE p = "display"
    BY <1>1, <1>7, TftTestKeeps, TftFastKeeps DEF Pages, rotate
  <1>8. CASE p = "keyboard"
    BY <1>8, KeyMonitorKeeps, KeyTftKeeps DEF Pages
  <1>9. CASE p = "core1"
    BY <1>9, Core1Keeps DEF Pages
  <1>10. p \in {"sensors", "power", "audio", "memory", "lora", "display", "keyboard", "core1"}
    BY DEF Pages
  <1> QED BY <1>2, <1>3, <1>4, <1>5, <1>6, <1>7, <1>8, <1>9, <1>10

-----------------------------------------------------------------------------
(* What a fragment says of the state before its first step.                *)
LEMMA Here ==
  ASSUME NEW R, NEW P, NEW a, NEW b, Fragment(R, P, a, b)
  PROVE  /\ P \in Seq(Step)
         /\ a.held \in Holdings /\ \A m \in a.mems : m \in Mems /\ Told(m)
  <1>1. PICK H : Annotates(R, H, P) /\ Within(a, H[1]) /\ P \in Seq(Step)
    BY DEF Fragment
  <1>2. H[1] \in Points
    <2>1. 1 \in 1 .. Len(P) + 1
      BY <1>1, LenProperties
    <2> QED BY <1>1, <2>1 DEF Annotates
  <1> QED BY <1>1, <1>2 DEF Points, Within, Holdings

(* A command of which nothing is left has left the board at rest.          *)
LEMMA Ended ==
  ASSUME NEW R, NEW h, NEW m, Fragment(R, <<>>, Point(h, {m}), AtRest(R))
  PROVE  h = {} /\ m \in Rest(R)
  BY EndOf DEF Within, AtRest, Point

(* A step taken.                                                           *)
LEMMA Taken ==
  ASSUME NEW R, NEW P, NEW h, NEW m, Fragment(R, P, Point(h, {m}), AtRest(R)), P # <<>>
  PROVE  /\ Head(P) \in Step /\ Allowed(R, Head(P), Point(h, {m}))
         /\ Head(P).op # "return" =>
              Fragment(R, Tail(P), Point(HeldAfter(Head(P), h), {MemAfter(Head(P), m)}), AtRest(R))
         /\ Head(P).op = "return" => Fragment(R, <<>>, Point(h, {m}), AtRest(R))
         /\ Head(P).op \in {"maybe", "selected"} =>
              \A n \in {0, Head(P).arg} :
                 Fragment(R, SubSeq(P, n + 2, Len(P)), Point(h, {m}), AtRest(R))
  <1> DEFINE t == Head(P)
             a == Point(h, {m})
  <1>1. After(t, a) = Point(HeldAfter(t, h), {MemAfter(t, m)})
    BY DEF After, Point
  <1>2. a \in Points
    <2>1. a.held = h /\ a.mems = {m} /\ a = Point(h, {m})
      BY DEF Point
    <2> HIDE DEF a
    <2>2. h \in Holdings /\ m \in Mems /\ Told(m)
      BY <2>1, Here
    <2> QED BY <2>1, <2>2, PointsOf
  <1> HIDE DEF t, a
  <1>3. /\ P \in Seq(Step) /\ t \in Step
        /\ Allowed(R, t, a)
        /\ t.op # "return" => Fragment(R, Tail(P), After(t, a), AtRest(R))
        /\ t.op = "return" => Within(a, AtRest(R))
        /\ t.op \in {"maybe", "selected"} =>
             /\ t.arg \in Nat
             /\ Fragment(R, SubSeq(P, t.arg + 2, Len(P)), a, AtRest(R))
    BY Starts DEF t, a
  <1>4. ASSUME t.op = "return" PROVE Fragment(R, <<>>, a, AtRest(R))
    <2>1. Within(a, a) /\ Within(a, AtRest(R))
      BY <1>3, <1>4 DEF Within
    <2> QED BY <1>2, <2>1, NothingRuns, Consequence
  <1>5. ASSUME t.op \in {"maybe", "selected"}, NEW n \in {0, t.arg}
        PROVE  Fragment(R, SubSeq(P, n + 2, Len(P)), a, AtRest(R))
    <2>1. CASE n = t.arg
      BY <1>3, <1>5, <2>1
    <2>2. CASE n = 0
      <3>1. SubSeq(P, n + 2, Len(P)) = Tail(P)
        BY <1>3, <2>2, TailIsSubSeq
      <3>2. After(t, a) = a
        BY <1>1, <1>5 DEF HeldAfter, MemAfter, a
      <3> QED BY <1>3, <1>5, <3>1, <3>2
    <2> QED BY <1>5, <2>1, <2>2
  <1> QED BY <1>1, <1>3, <1>4, <1>5 DEF t, a

-----------------------------------------------------------------------------
(* The invariant.                                                          *)

(* The rules that the commands explored keep.                              *)
Covered(R) ==
  /\ "uncharged" \notin R
  /\ "fetch" \in R => SerialCommands \cap Sweeping = {} /\ "memory" \notin MenuPages

(* Nothing runs and the board is at rest, or what is left of the command   *)
(* that runs is a fragment from here to rest.                              *)
Running(R) ==
  /\ via = "" => held = {} /\ mem \in Rest(R)
  /\ via # "" => Fragment(R, todo, Point(held, {mem}), AtRest(R))

(* The types, with a page that can be opened.                              *)
Typed ==
  /\ ui \in {"MENU", "SERIAL", "TEST"} /\ page \in MenuPages \cup {"root"}
  /\ via \in {"", "menu", "serial"} /\ held \in SUBSET Claims
  /\ dirty \in BOOLEAN /\ tft \in BOOLEAN /\ lit \in BOOLEAN /\ rows \in BOOLEAN
  /\ back \in BOOLEAN /\ watched \in BOOLEAN /\ asked \in BOOLEAN /\ spoiled \in BOOLEAN
  /\ charge \in {"off", "on", "reset"} /\ mem \in Mems

(* Typed is the type invariant of the model.                               *)
LEMMA TypedIs == Typed => TypeOK
  BY CommandAssumption DEF Typed, TypeOK

(* A step of a command, or its return.                                     *)
LEMMA RunningStep ==
  ASSUME NEW R, Running(R), CommandStep \/ BackRead
  PROVE  Running(R)'
  <1> DEFINE t == Head(todo)
             F(P, h, m) == Fragment(R, P, Point(h, {m}), AtRest(R))
  <1>1. SUFFICES \/ via' = "" /\ held' = {} /\ mem' \in Rest(R)
                 \/ via' # "" /\ F(todo', held', mem')
    BY DEF Running
  <1>2. via # "" /\ F(todo, held, mem)
    BY DEF Running, CommandStep, BackRead, Claim, Release, Talk, DrawStep, Choose, SelectedStep,
           ReturnStep, KeyPins, TftStep, LightStep, bq25622_charge, MemoryStep, Returned, At
  <1>3. ASSUME todo # <<>>
        PROVE  /\ t.op # "return" => F(Tail(todo), HeldAfter(t, held), MemAfter(t, mem))
               /\ t.op = "return" => F(<<>>, held, mem)
               /\ t.op \in {"maybe", "selected"} =>
                    \A n \in {0, t.arg} : F(SubSeq(todo, n + 2, Len(todo)), held, mem)
    BY <1>2, <1>3, Taken
  <1> HIDE DEF F
  <1>4. CASE Claim
    BY <1>2, <1>3, <1>4 DEF Claim, At, Arg, Done, HeldAfter, MemAfter
  <1>5. CASE Release
    BY <1>2, <1>3, <1>5 DEF Release, At, Arg, Done, HeldAfter, MemAfter
  <1>6. CASE Talk
    BY <1>2, <1>3, <1>6 DEF Talk, At, Arg, Done, HeldAfter, MemAfter
  <1>7. CASE DrawStep \/ BackRead
    BY <1>2, <1>3, <1>7 DEF DrawStep, BackRead, At, Arg, Done, HeldAfter, MemAfter
  <1>8. CASE Choose
    BY <1>2, <1>3, <1>8 DEF Choose, At, Arg
  <1>9. CASE SelectedStep
    <2> DEFINE n == IF mem.pin = "xip" THEN 0 ELSE Arg
    <2>1. todo # <<>> /\ t.op = "selected" /\ n \in {0, t.arg}
      BY <1>9 DEF SelectedStep, At, Arg
    <2>2. todo' = SubSeq(todo, n + 2, Len(todo))
      BY <1>9 DEF SelectedStep
    <2> HIDE DEF n
    <2>3. F(SubSeq(todo, n + 2, Len(todo)), held, mem)
      BY <1>3, <2>1
    <2> QED BY <1>2, <1>9, <2>2, <2>3 DEF SelectedStep
  <1>10. CASE ReturnStep
    BY <1>2, <1>3, <1>10 DEF ReturnStep, At
  <1>11. CASE KeyPins
    BY <1>2, <1>3, <1>11 DEF KeyPins, At, Arg, Done, HeldAfter, MemAfter
  <1>12. CASE TftStep
    BY <1>2, <1>3, <1>12 DEF TftStep, At, Arg, Done, HeldAfter, MemAfter
  <1>13. CASE LightStep
    BY <1>2, <1>3, <1>13 DEF LightStep, At, Arg, Done, HeldAfter, MemAfter
  <1>14. CASE bq25622_charge
    BY <1>2, <1>3, <1>14 DEF bq25622_charge, At, Arg, Done, HeldAfter, MemAfter
  <1>15. CASE MemoryStep
    BY <1>2, <1>3, <1>15 DEF MemoryStep, At, Arg, Done, HeldAfter, MemAfter
  <1>16. CASE Returned
    <2>1. held = {} /\ mem \in Rest(R)
      BY <1>2, <1>16, Ended DEF Returned, F
    <2> QED BY <1>16, <2>1 DEF Returned
  <1> QED BY <1>4, <1>5, <1>6, <1>7, <1>8, <1>9, <1>10, <1>11, <1>12, <1>13, <1>14, <1>15, <1>16
          DEF CommandStep

(* A command that is started.                                              *)
LEMMA RunningStart ==
  ASSUME NEW R, Running(R), via = "", held' = held, mem' = mem, via' # "", Keeps(R, todo')
  PROVE  Running(R)'
  <1>1. Within(Point(held', {mem'}), AtRest(R)) /\ Within(AtRest(R), AtRest(R))
    BY DEF Running, Within, Point, AtRest
  <1>2. Fragment(R, todo', AtRest(R), AtRest(R))
    BY DEF Keeps
  <1>3. Fragment(R, todo', Point(held', {mem'}), AtRest(R))
    BY <1>1, <1>2, Consequence
  <1> QED BY <1>3 DEF Running

(* Whatever happens next, what is left of the command that runs keeps the  *)
(* rules.                                                                  *)
LEMMA RunningNext ==
  ASSUME NEW R, Covered(R), Typed, Running(R), [Next]_vars
  PROVE  Running(R)'
  <1>1. CASE CommandStep \/ BackRead
    BY <1>1, RunningStep
  <1>2. ASSUME NEW name \in SerialCommands, handle_command(name) PROVE Running(R)'
    <2>1. Keeps(R, Console[name])
      BY CommandAssumption, ConsoleKeeps DEF Covered
    <2> QED BY <1>2, <2>1, RunningStart DEF handle_command, Idle
  <1>3. ASSUME page # "root", NEW steps \in Pages[page], RunItem(steps) PROVE Running(R)'
    <2>1. page \in MenuPages /\ page \in DOMAIN Pages
      BY <1>3, CommandAssumption DEF Typed
    <2>2. Keeps(R, steps)
      BY <2>1, PagesKeep DEF Covered
    <2>3. Keeps(R, <<Keys("back")>> \o steps)
      BY <2>2, Wrapped
    <2> QED BY <1>3, <2>3, RunningStart DEF RunItem, Idle
  <1>4. CASE menu_draw \/ SerialByte \/ SerialIdle \/ ClosePage
    BY <1>4 DEF Running, menu_draw, SerialByte, SerialIdle, ClosePage, Idle
  <1>5. ASSUME NEW p \in MenuPages, OpenPage(p) PROVE Running(R)'
    BY <1>5 DEF Running, OpenPage
  <1>6. CASE WatchdogExpires
    BY <1>6 DEF Running, WatchdogExpires
  <1>7. CASE UNCHANGED vars
    BY <1>7 DEF Running, vars
  <1> QED BY <1>1, <1>2, <1>3, <1>4, <1>5, <1>6, <1>7 DEF Next

(* At power-on nothing runs.                                               *)
LEMMA RunningInit ==
  ASSUME NEW R, Init
  PROVE  Typed /\ Running(R)
  <1>1. mem \in Mems /\ mem \in Rest(R)
    BY DEF Init, MemInit, Rest, Told
  <1> QED BY <1>1 DEF Init, Typed, Running, Claims

(* The type invariant is preserved.                                        *)
LEMMA TypedNext ==
  ASSUME Typed, Running({}), [Next]_vars
  PROVE  Typed'
  <1>1. Running({})'
    BY RunningNext DEF Covered
  <1>2. held' \in SUBSET Claims /\ mem' \in Mems
    <2>1. CASE via' = ""
      BY <1>1, <2>1 DEF Running, Rest
    <2>2. CASE via' # ""
      <3>1. Fragment({}, todo', Point(held', {mem'}), AtRest({}))
        BY <1>1, <2>2 DEF Running
      <3> QED BY <3>1, Here DEF Point, Holdings
    <2> QED BY <2>1, <2>2
  <1>3. ASSUME todo # <<>>, via # "" PROVE Head(todo) \in Step
    BY <1>3, Taken DEF Running
  <1>4. SUFFICES
        /\ ui' \in {"MENU", "SERIAL", "TEST"} /\ page' \in MenuPages \cup {"root"}
        /\ via' \in {"", "menu", "serial"}
        /\ dirty' \in BOOLEAN /\ tft' \in BOOLEAN /\ lit' \in BOOLEAN /\ rows' \in BOOLEAN
        /\ back' \in BOOLEAN /\ watched' \in BOOLEAN /\ asked' \in BOOLEAN /\ spoiled' \in BOOLEAN
        /\ charge' \in {"off", "on", "reset"}
    BY <1>2 DEF Typed
  <1>5. CASE Claim \/ Release \/ DrawStep \/ MemoryStep
    BY ZenonT(60), <1>5 DEF Typed, Claim, Release, DrawStep, MemoryStep, At, Arg, Done, pins
  <1>6. CASE Talk \/ BackRead
    <2>1. via # "" /\ todo # <<>> /\ Done /\ UNCHANGED <<held, pins, charge, watched, mem>>
      BY <1>6 DEF Talk, BackRead, At
    <2> QED BY ZenonT(60), <2>1 DEF Typed, Done, pins
  <1>7. CASE Choose \/ SelectedStep \/ ReturnStep
    BY ZenonT(60), <1>7 DEF Typed, Choose, SelectedStep, ReturnStep, At, Arg, pins
  <1>8. CASE KeyPins \/ TftStep
    BY ZenonT(60), <1>8 DEF Typed, KeyPins, TftStep, At, Arg, Done, pins
  <1>9. CASE LightStep
    <2>1. lit' \in BOOLEAN
      BY <1>3, <1>9 DEF LightStep, At, Arg, Step
    <2> QED BY ZenonT(60), <1>9, <2>1 DEF Typed, LightStep, At, Arg, Done, pins
  <1>10. CASE bq25622_charge
    <2>1. charge' \in {"off", "on", "reset"} /\ watched' \in BOOLEAN
      BY <1>3, <1>10 DEF bq25622_charge, At, Arg, Step
    <2> QED BY ZenonT(60), <1>10, <2>1 DEF Typed, bq25622_charge, At, Arg, Done, pins
  <1>11. CASE Returned
    BY ZenonT(60), <1>11 DEF Typed, Returned
  <1>12. CASE menu_draw \/ SerialByte \/ SerialIdle \/ ClosePage
    BY ZenonT(60), <1>12 DEF Typed, menu_draw, SerialByte, SerialIdle, ClosePage, Idle, pins
  <1>13. ASSUME NEW steps PROVE Asked(steps) \in BOOLEAN
    BY DEF Typed, Asked
  <1>14. ASSUME NEW name \in SerialCommands, handle_command(name)
         PROVE  Typed' 
    BY <1>2, <1>13, <1>14 DEF Typed, handle_command, pins
  <1>15. ASSUME NEW steps, RunItem(steps) PROVE Typed'
    BY ZenonT(60), <1>2, <1>13, <1>15 DEF Typed, RunItem, pins
  <1>16. ASSUME NEW p \in MenuPages, OpenPage(p) PROVE Typed'
    BY ZenonT(60), <1>2, <1>16 DEF Typed, OpenPage, pins
  <1>17. CASE WatchdogExpires
    BY ZenonT(60), <1>17 DEF Typed, WatchdogExpires, pins
  <1>18. CASE UNCHANGED vars
    <2>1. /\ ui' = ui /\ page' = page /\ via' = via /\ charge' = charge
          /\ dirty' = dirty /\ watched' = watched /\ asked' = asked /\ spoiled' = spoiled
      BY <1>18 DEF vars
    <2>2. tft' = tft /\ lit' = lit /\ rows' = rows /\ back' = back
      BY <1>18 DEF vars, pins
    <2>3. /\ ui' \in {"MENU", "SERIAL", "TEST"} /\ page' \in MenuPages \cup {"root"}
          /\ via' \in {"", "menu", "serial"} /\ charge' \in {"off", "on", "reset"}
      BY <2>1 DEF Typed
    <2>4. /\ dirty' \in BOOLEAN /\ watched' \in BOOLEAN
          /\ asked' \in BOOLEAN /\ spoiled' \in BOOLEAN
      BY <2>1 DEF Typed
    <2>5. tft' \in BOOLEAN /\ lit' \in BOOLEAN /\ rows' \in BOOLEAN /\ back' \in BOOLEAN
      BY <2>2 DEF Typed
    <2> QED BY <2>3, <2>4, <2>5
  <1> QED BY <1>5, <1>6, <1>7, <1>8, <1>9, <1>10, <1>11, <1>12, <1>14, <1>15, <1>16, <1>17, <1>18
          DEF Next, CommandStep, Typed

-----------------------------------------------------------------------------
(* The charger.                                                            *)

(* The rule of a command that leaves the charger alone; what may be left   *)
(* of charging off, until it is written and after that.                    *)
Quiet == {"uncharged"}
Offs == {<<Keys("back")>> \o charge_off, charge_off,
         <<Use("busB"), Charge("off"), Give("busB")>>, <<Charge("off"), Give("busB")>>}
Ends == {<<Give("busB")>>, <<>>}

(* The watchdog runs only while charging is on.  If charging is not asked  *)
(* for, the charger is off and nothing that is left to do changes that, or *)
(* charging off has not been written yet.                                  *)
ChargeInv ==
  /\ watched => charge = "on"
  /\ via = "" => (charge # "off" => asked)
  /\ via # "" /\ ~asked =>
       \/ charge = "off" /\ Running(Quiet)
       \/ charge = "off" /\ todo \in Ends
       \/ todo \in Offs

(* A command that writes nothing to the charger leaves open what was asked. *)
LEMMA AskedByNone ==
  ASSUME NEW P, Keeps(Quiet, P), Typed
  PROVE  Asked(P) = asked
  <1>1. PICK H : Annotates(Quiet, H, P) /\ P \in Seq(Step)
    BY DEF Keeps, Fragment
  <1>2. \A i \in DOMAIN P : P[i].op # "charge"
    <2>1. DOMAIN P = 1 .. Len(P)
      BY <1>1, LenProperties
    <2> QED BY <1>1, <2>1 DEF Annotates, Leads, Allowed, Quiet
  <1>3. \A i \in DOMAIN P : P[i] # Charge("on") /\ P[i] # Charge("off")
    BY <1>2 DEF Charge
  <1> QED BY <1>3 DEF Asked

(* Charging is asked for by two commands.                                  *)
LEMMA AskedByCharging ==
  Asked(charge_on) = TRUE /\ Asked(charge_scan) = TRUE
  <1>1. charge_on[3] = Charge("on") /\ 3 \in DOMAIN charge_on
    BY DEF charge_on
  <1>2. charge_scan[3] = Charge("on") /\ 3 \in DOMAIN charge_scan
    BY DEF charge_scan, charge_on, perform_scan
  <1> QED BY <1>1, <1>2 DEF Asked

(* Charging off, step by step.                                             *)
LEMMA OffSteps ==
  ASSUME NEW P \in Offs
  PROVE  /\ P # <<>>
         /\ Head(P).op \in {"keys", "take", "use", "charge"}
         /\ Head(P).op = "charge" => Head(P).arg = "off" /\ Tail(P) \in Ends
         /\ Head(P).op # "charge" => Tail(P) \in Offs
  <1>1. P \in {<<Keys("back"), Take("busB"), Use("busB"), Charge("off"), Give("busB")>>,
               <<Take("busB"), Use("busB"), Charge("off"), Give("busB")>>,
               <<Use("busB"), Charge("off"), Give("busB")>>, <<Charge("off"), Give("busB")>>}
    BY DEF Offs, charge_off
  <1>2. CASE P = <<Keys("back"), Take("busB"), Use("busB"), Charge("off"), Give("busB")>>
    <2>1. Tail(P) = charge_off /\ Head(P).op = "keys" /\ P # <<>>
      BY <1>2 DEF charge_off, Keys
    <2> QED BY <2>1 DEF Offs
  <1>3. CASE P = <<Take("busB"), Use("busB"), Charge("off"), Give("busB")>>
    <2>1. /\ Tail(P) = <<Use("busB"), Charge("off"), Give("busB")>>
          /\ Head(P).op = "take" /\ P # <<>>
      BY <1>3 DEF Take
    <2> QED BY <2>1 DEF Offs
  <1>4. CASE P = <<Use("busB"), Charge("off"), Give("busB")>>
    <2>1. Tail(P) = <<Charge("off"), Give("busB")>> /\ Head(P).op = "use" /\ P # <<>>
      BY <1>4 DEF Use
    <2> QED BY <2>1 DEF Offs
  <1>5. CASE P = <<Charge("off"), Give("busB")>>
    <2>1. /\ Tail(P) = <<Give("busB")>> /\ P # <<>>
          /\ Head(P).op = "charge" /\ Head(P).arg = "off"
      BY <1>5 DEF Charge
    <2> QED BY <2>1 DEF Ends
  <1> QED BY <1>1, <1>2, <1>3, <1>4, <1>5

(* The end of charging off.                                                *)
LEMMA EndSteps ==
  ASSUME NEW P \in Ends, P # <<>>
  PROVE  Head(P).op = "give" /\ Tail(P) \in Ends
  <1>1. P = <<Give("busB")>>
    BY DEF Ends
  <1>2. Head(P) = Give("busB") /\ Tail(P) = <<>>
    BY <1>1
  <1> QED BY <1>2 DEF Ends, Give

(* The step of a command, other than its return.                           *)
LEMMA WhileItRuns ==
  ASSUME CommandStep \/ BackRead, ~Returned
  PROVE  /\ via # "" /\ via' = via /\ asked' = asked /\ spoiled' = spoiled
         /\ ~bq25622_charge => charge' = charge /\ watched' = watched
  <1> DEFINE Same == via # "" /\ via' = via /\ asked' = asked /\ spoiled' = spoiled
             Left == charge' = charge /\ watched' = watched
  <1>1. ASSUME Claim \/ Release \/ DrawStep \/ MemoryStep PROVE Same /\ Left
    BY <1>1 DEF Claim, Release, DrawStep, MemoryStep, At, Arg, Done
  <1>2. ASSUME Talk \/ BackRead PROVE Same /\ Left
    <2>1. via # "" /\ todo # <<>> /\ Done /\ UNCHANGED <<held, pins, charge, watched, mem>>
      BY <1>2 DEF Talk, BackRead, At
    <2> QED BY <2>1 DEF Done
  <1>3. ASSUME Choose \/ SelectedStep \/ ReturnStep PROVE Same /\ Left
    BY <1>3 DEF Choose, SelectedStep, ReturnStep, At, Arg
  <1>4. ASSUME KeyPins \/ TftStep \/ LightStep PROVE Same /\ Left
    BY <1>4 DEF KeyPins, TftStep, LightStep, At, Arg, Done
  <1>5. ASSUME bq25622_charge PROVE Same
    BY <1>5 DEF bq25622_charge, At, Arg, Done
  <1> HIDE DEF Same, Left
  <1>6. Same /\ (~bq25622_charge => Left)
    BY <1>1, <1>2, <1>3, <1>4, <1>5 DEF CommandStep
  <1> QED BY <1>6 DEF Same, Left

(* A step of a command preserves ChargeInv: only charging off can be under *)
(* way when charging is not asked for and the charger is not off.          *)
LEMMA ChargeStep ==
  ASSUME Typed, Running({}), ChargeInv, CommandStep \/ BackRead
  PROVE  ChargeInv'
  <1> DEFINE t == Head(todo)
  <1>1. CASE Returned
    <2>1. /\ via # "" /\ via' = "" /\ todo = <<>>
          /\ charge' = charge /\ (watched' <=> watched) /\ (asked' <=> asked)
      BY <1>1 DEF Returned
    <2>2. todo \notin Offs
      BY <2>1, OffSteps
    <2> QED BY <2>1, <2>2 DEF ChargeInv
  <1>2. CASE bq25622_charge
    <2>1. /\ via # "" /\ via' = via /\ (asked' <=> asked) /\ todo' = Tail(todo)
          /\ todo # <<>> /\ t.op = "charge"
          /\ charge' = t.arg /\ (watched' <=> (t.arg = "on"))
      BY <1>2 DEF bq25622_charge, At, Arg, Done
    <2>2. Running(Quiet) => FALSE
      <3>1. ASSUME Running(Quiet) PROVE FALSE
        <4>1. Allowed(Quiet, t, Point(held, {mem}))
          BY <2>1, <3>1, Taken DEF Running
        <4> QED BY <2>1, <4>1 DEF Allowed, Quiet
      <3> QED BY <3>1
    <2>3. todo \notin Ends
      BY <2>1, EndSteps
    <2>4. todo \in Offs => t.arg = "off" /\ Tail(todo) \in Ends
      BY <2>1, OffSteps
    <2> QED BY <2>1, <2>2, <2>3, <2>4 DEF ChargeInv
  <1>3. ASSUME ~Returned, ~bq25622_charge PROVE ChargeInv'
    <2>1. /\ via # "" /\ via' = via /\ charge' = charge
          /\ asked' = asked /\ watched' = watched
      BY <1>3, WhileItRuns
    <2>6. todo # <<>> /\ t.op # "charge"
      BY <1>3 DEF CommandStep, BackRead, Claim, Release, Talk, DrawStep, Choose, SelectedStep,
           ReturnStep, KeyPins, TftStep, LightStep, MemoryStep, At, Arg, Done
    <2>2. t.op \in {"maybe", "selected", "return"} \/ todo' = Tail(todo)
      BY <1>3 DEF CommandStep, BackRead, Claim, Release, Talk, DrawStep, Choose, SelectedStep,
           ReturnStep, KeyPins, TftStep, LightStep, MemoryStep, At, Arg, Done
    <2>3. Running(Quiet) => Running(Quiet)'
      BY RunningStep
    <2>4. todo \in Ends => todo' \in Ends
      BY <2>2, <2>6, EndSteps
    <2>5. todo \in Offs => todo' \in Offs
      BY <2>2, <2>6, OffSteps
    <2>8. (asked' <=> asked) /\ (watched' <=> watched)
      BY <2>1
    <2> QED BY <2>1, <2>3, <2>4, <2>5, <2>8 DEF ChargeInv
  <1> QED BY <1>1, <1>2, <1>3

(* A command or an item that is started with steps P, the menu's own one   *)
(* before them or not.                                                     *)
LEMMA ChargeStart ==
  ASSUME Typed, Running({}), ChargeInv, NEW P, via = "", via' # "",
         UNCHANGED <<held, mem, charge, watched>>, asked' = Asked(P),
         todo' \in {P, <<Keys("back")>> \o P},
         P \in {charge_on, charge_off, charge_scan} \/ Keeps(Quiet, P)
  PROVE  ChargeInv'
  <1>1. CASE P \in {charge_on, charge_scan}
    <2>1. asked'
      BY <1>1, AskedByCharging
    <2> QED BY <2>1 DEF ChargeInv
  <1>2. CASE P = charge_off
    BY <1>2 DEF ChargeInv, Offs
  <1>3. CASE Keeps(Quiet, P)
    <2>1. asked' <=> asked
      BY <1>3, AskedByNone
    <2>2. Keeps(Quiet, todo')
      BY <1>3, Wrapped
    <2>3. Running(Quiet)
      BY DEF Running, Rest, Quiet
    <2>4. Running(Quiet)'
      BY <2>2, <2>3, RunningStart
    <2> QED BY <2>1, <2>4 DEF ChargeInv
  <1> QED BY <1>1, <1>2, <1>3

(* So does everything else.                                                *)
LEMMA ChargeNext ==
  ASSUME Typed, Running({}), ChargeInv, [Next]_vars
  PROVE  ChargeInv'
  <1>1. CASE CommandStep \/ BackRead
    BY <1>1, ChargeStep
  <1>2. ASSUME NEW name \in SerialCommands, handle_command(name) PROVE ChargeInv'
    <2>1. name \in Charging \/ Keeps(Quiet, Console[name])
      BY CommandAssumption, ConsoleKeeps DEF Quiet
    <2>2. name \in Charging => Console[name] \in {charge_on, charge_off, charge_scan}
      BY DEF Charging, Console
    <2> QED BY <1>2, <2>1, <2>2, ChargeStart DEF handle_command, Idle
  <1>3. ASSUME page # "root", NEW steps \in Pages[page], RunItem(steps) PROVE ChargeInv'
    <2>1. page \in DOMAIN Pages
      BY <1>3, CommandAssumption DEF Typed
    <2>2. steps \in {charge_on, charge_off, charge_scan} \/ Keeps(Quiet, steps)
      BY <2>1, PagesKeep DEF Quiet
    <2> QED BY <1>3, <2>2, ChargeStart DEF RunItem, Idle
  <1>4. CASE menu_draw \/ SerialByte \/ SerialIdle \/ ClosePage
    <2>1. /\ via = "" /\ via' = via /\ charge' = charge
          /\ watched' = watched /\ asked' = asked
      BY <1>4 DEF menu_draw, SerialByte, SerialIdle, ClosePage, Idle
    <2>2. (watched' <=> watched) /\ (asked' <=> asked)
      BY <2>1
    <2> QED BY <2>1, <2>2 DEF ChargeInv
  <1>5. ASSUME NEW p \in MenuPages, OpenPage(p) PROVE ChargeInv'
    <2>1. /\ via = "" /\ via' = via /\ charge' = charge
          /\ watched' = watched /\ asked' = asked
      BY <1>5 DEF OpenPage, Idle
    <2>2. (watched' <=> watched) /\ (asked' <=> asked)
      BY <2>1
    <2> QED BY <2>1, <2>2 DEF ChargeInv
  <1>6. CASE WatchdogExpires
    <2>1. /\ watched /\ ~watched' /\ via' = via /\ todo' = todo /\ charge' = "reset"
          /\ (asked' <=> asked)
      BY <1>6 DEF WatchdogExpires
    <2>2. charge = "on" /\ (via = "" => asked) /\ (via # "" /\ ~asked => todo \in Offs)
      BY <2>1 DEF ChargeInv
    <2> QED BY <2>1, <2>2 DEF ChargeInv
  <1>7. CASE UNCHANGED vars
    <2>1. /\ via' = via /\ todo' = todo /\ held' = held /\ mem' = mem /\ charge' = charge
          /\ (watched' <=> watched) /\ (asked' <=> asked)
      BY <1>7 DEF vars
    <2>2. Running(Quiet) => Running(Quiet)'
      BY <2>1 DEF Running
    <2> QED BY <2>1, <2>2 DEF ChargeInv
  <1> QED BY <1>1, <1>2, <1>3, <1>4, <1>5, <1>6, <1>7 DEF Next

-----------------------------------------------------------------------------
(* The menu.                                                               *)

(* The display may be stopped as long as a redraw is due, which starts it  *)
(* again with its backlight.                                               *)
MenuInv ==
  /\ via = "serial" => spoiled
  /\ via = "" /\ ~spoiled => rows /\ back /\ (tft => lit) /\ (~dirty => tft /\ lit)

(* The menu stays usable: what a menu item leaves undone, its return and   *)
(* the redraw after it do.                                                 *)
LEMMA MenuNext ==
  ASSUME Typed, MenuInv, [Next]_vars
  PROVE  MenuInv'
  <1>1. CASE (CommandStep \/ BackRead) /\ ~Returned
    BY <1>1, WhileItRuns DEF MenuInv
  <1>2. CASE Returned
    <2>1. CASE via = "menu"
      BY <1>2, <2>1 DEF MenuInv, Returned
    <2>2. CASE via = "serial"
      <3>1. spoiled /\ spoiled' = spoiled /\ via' = ""
        BY <1>2, <2>2 DEF MenuInv, Returned
      <3> QED BY <3>1 DEF MenuInv
    <2> QED BY <1>2, <2>1, <2>2 DEF Typed, Returned
  <1>3. CASE menu_draw
    <2>1. /\ via = "" /\ dirty /\ via' = "" /\ ~dirty' /\ tft' /\ (lit' <=> lit \/ ~tft)
          /\ spoiled' = spoiled /\ rows' = rows /\ back' = back
      BY <1>3 DEF menu_draw
    <2> QED BY <2>1 DEF MenuInv
  <1>4. ASSUME \/ SerialByte \/ SerialIdle \/ ClosePage \/ UNCHANGED vars
               \/ \E p \in MenuPages : OpenPage(p)
               \/ WatchdogExpires
        PROVE  MenuInv'
    <2>1. via' = via /\ spoiled' = spoiled /\ UNCHANGED pins /\ (dirty' = dirty \/ dirty')
      BY <1>4 DEF SerialByte, SerialIdle, ClosePage, OpenPage, WatchdogExpires, vars
    <2>2. tft' = tft /\ lit' = lit /\ rows' = rows /\ back' = back
      BY <2>1 DEF pins
    <2>3. (via = "" /\ ~spoiled => rows /\ back) => (via' = "" /\ ~spoiled' => rows' /\ back')
      BY <2>1, <2>2
    <2>4. (tft => lit) => (tft' => lit')
      BY <2>2
    <2>5. (~dirty => tft /\ lit) => (~dirty' => tft' /\ lit')
      BY <2>1, <2>2
    <2>6. (via = "serial" => spoiled) => (via' = "serial" => spoiled')
      BY <2>1
    <2>7. (via' = "" /\ ~spoiled') => (via = "" /\ ~spoiled)
      BY <2>1
    <2> QED BY <2>3, <2>4, <2>5, <2>6, <2>7 DEF MenuInv
  <1>5. ASSUME NEW name \in SerialCommands, handle_command(name) PROVE MenuInv'
    BY <1>5 DEF MenuInv, handle_command
  <1>6. ASSUME NEW steps, RunItem(steps) PROVE MenuInv'
    BY <1>6 DEF MenuInv, RunItem
  <1> QED BY <1>1, <1>2, <1>3, <1>4, <1>5, <1>6 DEF Next, CommandStep

-----------------------------------------------------------------------------
(* The theorems.                                                           *)

(* The three parts of the invariant hold together.                         *)
LEMMA Always == Spec => [](Typed /\ Running({}) /\ ChargeInv)
  <1>1. Init => Typed /\ Running({}) /\ ChargeInv
    BY RunningInit DEF Init, ChargeInv
  <1>2. Typed /\ Running({}) /\ ChargeInv /\ [Next]_vars => (Typed /\ Running({}) /\ ChargeInv)'
    BY TypedNext, RunningNext, ChargeNext DEF Covered
  <1> QED BY <1>1, <1>2, PTL DEF Spec

(* They give the properties of the runs.                                   *)
LEMMA WhatTheInvariantGives ==
  ASSUME Typed, Running({}), ChargeInv
  PROVE  BringupInv
  <1>1. HoldsWhatItUses
    <2>1. CASE via = ""
      BY <2>1 DEF HoldsWhatItUses, Running, At
    <2>2. CASE via # ""
      <3>1. Fragment({}, todo, Point(held, {mem}), AtRest({}))
        BY <2>2 DEF Running
      <3>2. ~({"busA", "busB"} \subseteq held)
        BY <3>1, Here DEF Point, Holdings
      <3>3. todo # <<>> => Allowed({}, Head(todo), Point(held, {mem}))
        BY <3>1, Taken
      <3> QED BY <3>2, <3>3 DEF HoldsWhatItUses, At, Arg, Allowed, Point
    <2> QED BY <2>1, <2>2
  <1>2. NothingLeftOver
    BY DEF NothingLeftOver, Running, Rest
  <1>3. ChargesIfAsked
    BY DEF ChargesIfAsked, ChargeInv
  <1> QED BY <1>1, <1>2, <1>3, TypedIs DEF BringupInv

(* BringupInv for every set of commands and pages, hence for any order of  *)
(* them: a command claims only what is free and uses only what it holds,   *)
(* and however it ends - at its last step, at a BACK key, at a device that *)
(* does not answer - it has released everything and put the interrupts,    *)
(* the flash's timing, the pads and the PSRAM's timing back; the charger   *)
(* charges only if that was asked.                                         *)
THEOREM CommandsReturnWhatTheyTake == Spec => []BringupInv
  <1>1. Typed /\ Running({}) /\ ChargeInv => BringupInv
    BY WhatTheInvariantGives
  <1> QED BY <1>1, Always, PTL

(* A command that keeps the rule "fetch" fetches from the flash only where *)
(* the flash can be read.                                                  *)
LEMMA FetchesWhereItMay ==
  ASSUME Running({"fetch"})
  PROVE  MemoryIsSafe
  <1> DEFINE R == {"fetch"}
  <1>1. CASE via = "" \/ todo = <<>>
    <2>1. via # "" => Fragment(R, <<>>, Point(held, {mem}), AtRest(R))
      BY <1>1 DEF Running
    <2>2. mem \in Rest(R)
      BY <2>1, Ended DEF Running
    <2> QED BY <2>2 DEF MemoryIsSafe, FetchesAreSafe, SelectedIsQuad, Rest, Told
  <1>2. CASE via # "" /\ todo # <<>>
    <2>1. Fragment(R, todo, Point(held, {mem}), AtRest(R))
      BY <1>2 DEF Running
    <2>2. Told(mem)
      BY <2>1, Here DEF Point
    <2>3. Allowed(R, Head(todo), Point(held, {mem}))
      BY <1>2, <2>1, Taken
    <2>4. /\ Head(todo).op \notin {"mem", "maybe"} => Fetchable(mem)
          /\ mem.irq => Fetchable(mem)
      BY <2>3 DEF Allowed, Point
    <2> QED BY <1>2, <2>2, <2>4
            DEF MemoryIsSafe, FetchesAreSafe, Fetches, SelectedIsQuad, Fetchable, Told, At
  <1> QED BY <1>1, <1>2

(* MemoryIsSafe, as long as none of the commands of Sweeping is offered on *)
(* the console and the menu's memory page, whose tuning item runs a sweep, *)
(* is not opened: the interrupts are never on, and no function in flash is *)
(* called, in direct mode, at a candidate timing or over a stale cache;    *)
(* and the function of GPIO 0, which the PSRAM commands test, tells the    *)
(* mode of the chip.                                                       *)
THEOREM MemorySafety ==
  ASSUME SerialCommands \cap Sweeping = {}, "memory" \notin MenuPages
  PROVE  Spec => []MemoryIsSafe
  <1> DEFINE Safe == Running({"fetch"})
  <1>1. Init => Safe
    BY RunningInit
  <1>2. Typed /\ Safe /\ [Next]_vars => Safe'
    BY RunningNext DEF Covered
  <1>3. Safe => MemoryIsSafe
    BY FetchesWhereItMay
  <1> HIDE DEF Safe
  <1> QED BY <1>1, <1>2, <1>3, Always, PTL DEF Spec

(* MenuUsable: between two items the menu is drawn, lit and can be         *)
(* operated, whatever the items did to display, backlight and keypad,      *)
(* until a console command runs.                                           *)
THEOREM MenuUsability == Spec => []MenuUsable
  <1>1. Init => MenuInv
    BY DEF Init, MenuInv
  <1>2. Typed /\ MenuInv /\ [Next]_vars => MenuInv'
    BY MenuNext
  <1>3. MenuInv => MenuUsable
    BY DEF MenuInv, MenuUsable, Usable, Idle
  <1> QED BY <1>1, <1>2, <1>3, Always, PTL DEF Spec

=============================================================================
