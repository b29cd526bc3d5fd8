---------------------------- MODULE FlattenFacts ----------------------------
(***************************************************************************)
(* What FlattenSeq of the community modules does to a sequence of          *)
(* sequences: FlattenSeq is a recursive function, so each fact is proved   *)
(* by induction on the length, which rests on the least element of a set   *)
(* of naturals.                                                            *)
(***************************************************************************)
EXTENDS Naturals, SequencesExt, SequenceTheorems, WellFoundedInduction, TLAPS

\* A set of naturals that is not empty has a least element.
LEMMA LeastNatural ==
  ASSUME NEW T, T \subseteq Nat, T # {}
  PROVE  \E x \in T : \A y \in T : x <= y
<1>1. \E x \in T : \A y \in T : ~(<<y, x>> \in OpToRel(<, Nat))
  BY NatLessThanWellFounded, WFMin
<1>2. \A x \in Nat : \A y \in Nat : (<<x, y>> \in OpToRel(<, Nat)) <=> x < y
  BY DEF OpToRel
<1>3. \E x \in T : \A y \in T : ~(y < x)
  BY <1>1, <1>2, Zenon
<1>4. \A x, y \in Nat : ~(y < x) => x <= y
  OBVIOUS
<1> QED BY <1>3, <1>4

\* Induction over the naturals, for a set in the place of a predicate.
LEMMA Induction ==
  ASSUME NEW T, 0 \in T, \A k \in Nat : k \in T => k + 1 \in T
  PROVE  Nat \subseteq T
<1> DEFINE missing == Nat \ T
<1> SUFFICES ASSUME missing # {} PROVE FALSE
  OBVIOUS
<1>1. PICK m \in missing : \A y \in missing : m <= y
  BY LeastNatural
<1>2. m # 0 /\ m - 1 \in Nat
  BY <1>1
<1>3. m - 1 \notin missing
  BY <1>1, <1>2
<1> QED BY <1>1, <1>2, <1>3

\* A sequence with one element appended.
LEMMA Appended ==
  ASSUME NEW S, NEW s \in Seq(S), NEW e \in S
  PROVE  /\ Append(s, e) \in Seq(S) /\ Len(Append(s, e)) = Len(s) + 1 /\ Len(s) \in Nat
         /\ \A k \in 1..Len(s) : Append(s, e)[k] = s[k]
         /\ Append(s, e)[Len(s) + 1] = e
OBVIOUS

\* What the recursion of FlattenSeq says of the function it defines.
Flattens(f, seqs, n) == f = [k \in 1..n |-> IF k = 1 THEN seqs[k] ELSE f[k - 1] \o seqs[k]]

\* There is such a function.
LEMMA FlattenExists ==
  ASSUME NEW seqs
  PROVE  \A n \in Nat : \E f : Flattens(f, seqs, n)
<1> DEFINE T == {n \in Nat : \E f : Flattens(f, seqs, n)}
<1>1. 0 \in T
  <2> DEFINE f == [k \in 1..0 |-> seqs[k]]
  <2>1. Flattens(f, seqs, 0)
    BY DEF Flattens
  <2> QED BY <2>1
<1>2. ASSUME NEW n \in Nat, n \in T PROVE n + 1 \in T
  <2>1. PICK f : Flattens(f, seqs, n)
    BY <1>2
  <2> DEFINE next == IF n = 0 THEN seqs[1] ELSE f[n] \o seqs[n + 1]
  <2> DEFINE g == [k \in 1..(n + 1) |-> IF k = n + 1 THEN next ELSE f[k]]
  <2>2. \A k \in 1..n : f[k] = IF k = 1 THEN seqs[k] ELSE f[k - 1] \o seqs[k]
    BY <2>1 DEF Flattens
  <2>3. /\ \A k \in 1..n : g[k] = f[k]
        /\ g[n + 1] = next /\ n + 1 \in 1..(n + 1)
    <3>1. n + 1 \in 1..(n + 1) /\ \A k \in 1..n : k \in 1..(n + 1) /\ k # n + 1
      OBVIOUS
    <3> HIDE DEF next
    <3> QED BY <3>1
  <2>4. \A k \in 1..(n + 1) : g[k] = IF k = 1 THEN seqs[k] ELSE g[k - 1] \o seqs[k]
    <3> SUFFICES ASSUME NEW k \in 1..(n + 1)
                 PROVE  g[k] = IF k = 1 THEN seqs[k] ELSE g[k - 1] \o seqs[k]
      OBVIOUS
    <3> HIDE DEF g
    <3>1. CASE k = n + 1
      <4>1. CASE n = 0
        BY <2>3, <3>1, <4>1
      <4>2. CASE n # 0
        <5>1. g[k - 1] = f[n] /\ k # 1
          BY <2>3, <3>1, <4>2
        <5> QED BY <2>3, <3>1, <4>2, <5>1
      <4> QED BY <4>1, <4>2
    <3>2. CASE k # n + 1
      <4>1. k \in 1..n /\ (k # 1 => k - 1 \in 1..n)
        BY <3>2
      <4> QED BY <2>2, <2>3, <4>1
    <3> QED BY <3>1, <3>2
  <2>5. Flattens(g, seqs, n + 1)
    <3> DEFINE h == [k \in 1..(n + 1) |-> IF k = 1 THEN seqs[k] ELSE g[k - 1] \o seqs[k]]
    <3>1. g = h
      BY <2>4
    <3> QED BY <3>1 DEF Flattens
  <2> QED BY <2>5
<1>3. Nat \subseteq T
  BY <1>1, <1>2, Induction
<1> QED BY <1>3

\* FlattenSeq is the last value of such a function.
LEMMA FlattenIs ==
  ASSUME NEW S, NEW seqs \in Seq(S), seqs # <<>>
  PROVE  \E f : Flattens(f, seqs, Len(seqs)) /\ FlattenSeq(seqs) = f[Len(seqs)]
<1> DEFINE f == CHOOSE f : Flattens(f, seqs, Len(seqs))
<1>1. Len(seqs) \in Nat /\ Len(seqs) # 0
  OBVIOUS
<1>2. Flattens(f, seqs, Len(seqs))
  BY <1>1, FlattenExists
<1>3. FlattenSeq(seqs) = f[Len(seqs)]
  BY <1>1 DEF FlattenSeq, Flattens
<1> QED BY <1>2, <1>3

Agree(s, t, n) == \A k \in 1..n : s[k] = t[k]

\* Two such functions agree as far as their sequences do.
LEMMA FlattenAgrees ==
  ASSUME NEW f, NEW g, NEW s, NEW t, NEW m \in Nat, NEW n \in Nat,
         Flattens(f, s, m), Flattens(g, t, n), n <= m, Agree(s, t, n)
  PROVE  Agree(f, g, n)
<1> DEFINE T == {k \in Nat : k \in 1..n => f[k] = g[k]}
<1>1. /\ \A k \in 1..m : f[k] = IF k = 1 THEN s[k] ELSE f[k - 1] \o s[k]
      /\ \A k \in 1..n : g[k] = IF k = 1 THEN t[k] ELSE g[k - 1] \o t[k]
  BY DEF Flattens
<1>2. 0 \in T
  OBVIOUS
<1>3. ASSUME NEW k \in Nat, k \in T PROVE k + 1 \in T
  <2> SUFFICES ASSUME k + 1 \in 1..n PROVE f[k + 1] = g[k + 1]
    OBVIOUS
  <2>1. k + 1 \in 1..m /\ k + 1 \in 1..n /\ s[k + 1] = t[k + 1]
    BY DEF Agree
  <2>2. CASE k = 0
    BY <1>1, <2>1, <2>2
  <2>3. CASE k # 0
    <3>1. f[k] = g[k] /\ (k + 1) - 1 = k /\ k + 1 # 1
      BY <1>3, <2>3
    <3> QED BY ONLY <1>1, <2>1, <3>1
  <2> QED BY <2>2, <2>3
<1>4. Nat \subseteq T
  BY <1>2, <1>3, Induction
<1> QED BY <1>4 DEF Agree

\* Nothing flattens to nothing.
THEOREM FlattenEmpty == FlattenSeq(<<>>) = <<>>
BY DEF FlattenSeq

\* One more sequence is appended to what the others flatten to.
THEOREM FlattenAppend ==
  ASSUME NEW S, NEW seqs \in Seq(Seq(S)), NEW s \in Seq(S)
  PROVE  FlattenSeq(Append(seqs, s)) = FlattenSeq(seqs) \o s
<1> DEFINE longer == Append(seqs, s)
<1> DEFINE n == Len(seqs)
<1>1. /\ longer \in Seq(Seq(S)) /\ Len(longer) = n + 1 /\ n \in Nat /\ longer # <<>>
      /\ \A k \in 1..n : longer[k] = seqs[k]
      /\ longer[n + 1] = s
  BY Appended
<1>2. PICK f : Flattens(f, longer, n + 1) /\ FlattenSeq(longer) = f[n + 1]
  BY <1>1, FlattenIs
<1>3. f[n + 1] = IF n = 0 THEN s ELSE f[n] \o s
  <2> HIDE DEF longer, n
  <2>1. f[n + 1] = IF n + 1 = 1 THEN longer[n + 1] ELSE f[(n + 1) - 1] \o longer[n + 1]
    <3>1. n + 1 \in 1..(n + 1)
      BY <1>1
    <3> QED BY <1>2, <3>1 DEF Flattens
  <2> QED BY ONLY <1>1, <2>1
<1>4. CASE n = 0
  BY <1>2, <1>3, <1>4, FlattenEmpty
<1>5. CASE n # 0
  <2>1. PICK g : Flattens(g, seqs, n) /\ FlattenSeq(seqs) = g[n]
    BY <1>5, FlattenIs
  <2> HIDE DEF longer, n
  <2>2. Agree(f, g, n)
    <3>1. n + 1 \in Nat /\ n \in Nat /\ n <= n + 1
      BY <1>1
    <3>2. Agree(longer, seqs, n)
      BY <1>1 DEF Agree
    <3> QED BY ONLY <1>2, <2>1, <3>1, <3>2, FlattenAgrees
  <2>3. f[n] = g[n]
    BY <1>1, <1>5, <2>2 DEF Agree
  <2> QED BY <1>2, <1>3, <1>5, <2>1, <2>3 DEF longer
<1> QED BY <1>4, <1>5

\* What sequences over S flatten to is a sequence over S.
THEOREM FlattenTyped ==
  ASSUME NEW S
  PROVE  \A seqs \in Seq(Seq(S)) : FlattenSeq(seqs) \in Seq(S)
<1> DEFINE T == {n \in Nat : \A seqs \in Seq(Seq(S)) : Len(seqs) = n => FlattenSeq(seqs) \in Seq(S)}
<1>1. 0 \in T
  BY FlattenEmpty, EmptySeq
<1>2. ASSUME NEW n \in Nat, n \in T PROVE n + 1 \in T
  <2> SUFFICES ASSUME NEW seqs \in Seq(Seq(S)), Len(seqs) = n + 1
               PROVE  FlattenSeq(seqs) \in Seq(S)
    OBVIOUS
  <2> DEFINE U == Seq(S)
  <2>0. seqs \in Seq(U) /\ seqs # <<>>
    OBVIOUS
  <2>1. PICK front \in Seq(U), s \in U : seqs = Append(front, s)
    <3> HIDE DEF U
    <3> QED BY <2>0, SequenceEmptyOrAppend
  <2>2. Len(front) = n
    BY <2>1
  <2>3. FlattenSeq(front) \in Seq(S)
    BY <1>2, <2>2
  <2> QED BY <2>1, <2>3, FlattenAppend, ConcatProperties
<1>3. Nat \subseteq T
  BY <1>1, <1>2, Induction
<1> QED BY <1>3, LenProperties

\* Flattening distributes over concatenation.
THEOREM FlattenCat ==
  ASSUME NEW S, NEW a \in Seq(Seq(S))
  PROVE  \A b \in Seq(Seq(S)) : FlattenSeq(a \o b) = FlattenSeq(a) \o FlattenSeq(b)
<1> DEFINE Cat(b) == FlattenSeq(a \o b) = FlattenSeq(a) \o FlattenSeq(b)
<1> DEFINE T == {n \in Nat : \A b \in Seq(Seq(S)) : Len(b) = n => Cat(b)}
<1>1. 0 \in T
  <2> SUFFICES ASSUME NEW b \in Seq(Seq(S)), Len(b) = 0 PROVE Cat(b)
    OBVIOUS
  <2>1. b = <<>> /\ a \o b = a
    OBVIOUS
  <2>2. FlattenSeq(a) \o <<>> = FlattenSeq(a)
    BY FlattenTyped, ConcatEmptySeq
  <2> QED BY <2>1, <2>2, FlattenEmpty
<1>2. ASSUME NEW n \in Nat, n \in T PROVE n + 1 \in T
  <2> SUFFICES ASSUME NEW b \in Seq(Seq(S)), Len(b) = n + 1 PROVE Cat(b)
    OBVIOUS
  <2> DEFINE U == Seq(S)
  <2>0. b \in Seq(U) /\ b # <<>>
    OBVIOUS
  <2>1. PICK front \in Seq(U), s \in U : b = Append(front, s)
    <3> HIDE DEF U
    <3> QED BY <2>0, SequenceEmptyOrAppend
  <2>2. FlattenSeq(a \o front) = FlattenSeq(a) \o FlattenSeq(front)
    BY <1>2, <2>1
  <2>3. a \o b = Append(a \o front, s) /\ a \o front \in Seq(Seq(S))
    BY <2>1
  <2>4. FlattenSeq(b) = FlattenSeq(front) \o s
    BY <2>1, FlattenAppend
  <2>5. FlattenSeq(a \o b) = (FlattenSeq(a) \o FlattenSeq(front)) \o s
    BY <2>2, <2>3, FlattenAppend
  <2>6. FlattenSeq(a) \in Seq(S) /\ FlattenSeq(front) \in Seq(S) /\ s \in Seq(S)
    BY FlattenTyped
  <2>7. (FlattenSeq(a) \o FlattenSeq(front)) \o s = FlattenSeq(a) \o (FlattenSeq(front) \o s)
    BY ONLY <2>6
  <2> QED BY <2>4, <2>5, <2>7
<1>3. Nat \subseteq T
  <2> HIDE DEF T
  <2> QED BY <1>1, <1>2, Induction
<1> QED BY <1>3, LenProperties

\* One sequence flattens to itself.
THEOREM FlattenOne ==
  ASSUME NEW S, NEW s \in Seq(S)
  PROVE  FlattenSeq(<<s>>) = s
<1>1. <<s>> = Append(<<>>, s) /\ <<>> \in Seq(Seq(S))
  OBVIOUS
<1>2. FlattenSeq(<<s>>) = <<>> \o s
  BY <1>1, FlattenAppend, FlattenEmpty
<1> QED BY <1>2, ConcatEmptySeq

\* What is flattened begins with the first sequence and goes on with the others.
THEOREM FlattenHead ==
  ASSUME NEW S, NEW seqs \in Seq(Seq(S)), seqs # <<>>
  PROVE  FlattenSeq(seqs) = Head(seqs) \o FlattenSeq(Tail(seqs))
<1>1. /\ Head(seqs) \in Seq(S) /\ Tail(seqs) \in Seq(Seq(S))
      /\ <<Head(seqs)>> \in Seq(Seq(S)) /\ seqs = <<Head(seqs)>> \o Tail(seqs)
  OBVIOUS
<1>2. FlattenSeq(<<Head(seqs)>> \o Tail(seqs)) = FlattenSeq(<<Head(seqs)>>) \o FlattenSeq(Tail(seqs))
  BY <1>1, FlattenCat
<1> QED BY <1>1, <1>2, FlattenOne

\* A sequence cut into its elements flattens to itself.
Singles(s) == [k \in DOMAIN s |-> <<s[k]>>]
THEOREM FlattenSingles ==
  ASSUME NEW S
  PROVE  \A s \in Seq(S) : Singles(s) \in Seq(Seq(S)) /\ FlattenSeq(Singles(s)) = s
<1>1. \A s \in Seq(S) : /\ Singles(s) \in Seq(Seq(S)) /\ Len(Singles(s)) = Len(s)
                        /\ \A k \in 1..Len(s) : Singles(s)[k] = <<s[k]>>
  <2> SUFFICES ASSUME NEW s \in Seq(S)
               PROVE  /\ Singles(s) \in Seq(Seq(S)) /\ Len(Singles(s)) = Len(s)
                      /\ \A k \in 1..Len(s) : Singles(s)[k] = <<s[k]>>
    OBVIOUS
  <2>1. DOMAIN s = 1..Len(s) /\ Len(s) \in Nat /\ \A k \in 1..Len(s) : <<s[k]>> \in Seq(S)
    OBVIOUS
  <2> QED BY <2>1 DEF Singles
<1> DEFINE T == {n \in Nat : \A s \in Seq(S) : Len(s) = n => FlattenSeq(Singles(s)) = s}
<1>2. 0 \in T
  <2> SUFFICES ASSUME NEW s \in Seq(S), Len(s) = 0 PROVE FlattenSeq(Singles(s)) = s
    OBVIOUS
  <2>1. Singles(s) \in Seq(Seq(S)) /\ Len(Singles(s)) = 0
    BY <1>1
  <2>2. s = <<>> /\ Singles(s) = <<>>
    BY ONLY <2>1, s \in Seq(S), Len(s) = 0
  <2> QED BY <2>2, FlattenEmpty
<1>3. ASSUME NEW n \in Nat, n \in T PROVE n + 1 \in T
  <2> SUFFICES ASSUME NEW s \in Seq(S), Len(s) = n + 1 PROVE FlattenSeq(Singles(s)) = s
    OBVIOUS
  <2>0. s # <<>>
    OBVIOUS
  <2>1. PICK front \in Seq(S), e \in S : s = Append(front, e)
    BY <2>0, SequenceEmptyOrAppend
  <2>2. /\ Len(front) = n /\ s[n + 1] = e /\ <<e>> \in Seq(S)
        /\ \A k \in 1..n : s[k] = front[k]
    BY <2>1
  <2>3. Singles(s) = Append(Singles(front), <<e>>)
    <3> DEFINE longer == Append(Singles(front), <<e>>)
    <3>1. /\ longer \in Seq(Seq(S)) /\ Len(longer) = n + 1
          /\ \A k \in 1..n : longer[k] = Singles(front)[k]
          /\ longer[n + 1] = <<e>>
      <4> DEFINE U == Seq(S)
      <4>1. Singles(front) \in Seq(U) /\ <<e>> \in U /\ Len(Singles(front)) = n
        BY <1>1, <2>2
      <4> HIDE DEF U
      <4>2. /\ longer \in Seq(U) /\ Len(longer) = n + 1
            /\ \A k \in 1..n : longer[k] = Singles(front)[k]
            /\ longer[n + 1] = <<e>>
        BY ONLY <4>1, Appended
      <4> QED BY <4>2 DEF U
    <3>2. /\ Singles(s) \in Seq(Seq(S)) /\ Len(Singles(s)) = n + 1
          /\ \A k \in 1..(n + 1) : Singles(s)[k] = <<s[k]>>
          /\ \A k \in 1..n : Singles(front)[k] = <<front[k]>>
      BY <1>1, <2>2
    <3> HIDE DEF longer
    <3>3. \A k \in 1..(n + 1) : Singles(s)[k] = longer[k]
      <4> SUFFICES ASSUME NEW k \in 1..(n + 1) PROVE Singles(s)[k] = longer[k]
        OBVIOUS
      <4>1. k = n + 1 \/ k \in 1..n
        OBVIOUS
      <4>2. Singles(s)[k] = <<s[k]>>
        BY <3>2
      <4> QED BY ONLY <2>2, <3>1, <3>2, <4>1, <4>2
    <3>4. Singles(s) = longer
      BY <3>1, <3>2, <3>3, SeqEqual
    <3> QED BY <3>4 DEF longer
  <2>4. FlattenSeq(Singles(s)) = front \o <<e>>
    <3>1. FlattenSeq(Append(Singles(front), <<e>>)) = FlattenSeq(Singles(front)) \o <<e>>
      BY <1>1, <2>2, FlattenAppend
    <3> QED BY <1>3, <2>2, <2>3, <3>1
  <2> QED BY <2>1, <2>4, AppendIsConcat
<1>4. Nat \subseteq T
  <2> HIDE DEF T
  <2> QED BY <1>2, <1>3, Induction
<1> QED BY <1>1, <1>4, LenProperties
=============================================================================
