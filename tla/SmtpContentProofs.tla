-------------------------- MODULE SmtpContentProofs --------------------------
(***************************************************************************)
(* What SmtpContent keeps for messages of any length, cut into chunks in   *)
(* any way.  Dot-stuffing distributes over the chunks, so what is on the   *)
(* wire depends on the bytes alone; then byte after byte of the message,   *)
(* what is on the wire un-stuffs to it and holds no line of one dot.       *)
(***************************************************************************)
EXTENDS SmtpContent, FlattenFacts

(* Dot-stuffing                                                             *)

\* What becomes of the k-th byte of a chunk.
Stuffed(chunk, start) ==
  [k \in DOMAIN chunk |->
    IF chunk[k] = "." /\ StartsLine(chunk, start, k) THEN <<".", ".">> ELSE <<chunk[k]>>]

\* Each byte becomes one byte, or two.
LEMMA StuffedFacts ==
  ASSUME NEW c \in Seq(Bytes), NEW start \in BOOLEAN
  PROVE  /\ DotStuff(c, start) = FlattenSeq(Stuffed(c, start))
         /\ Stuffed(c, start) \in Seq(Seq(Bytes)) /\ Len(Stuffed(c, start)) = Len(c)
         /\ \A k \in 1..Len(c) :
              Stuffed(c, start)[k] = IF c[k] = "." /\ StartsLine(c, start, k) THEN <<".", ".">>
                                     ELSE <<c[k]>>
         /\ DotStuff(c, start) \in Seq(Bytes)
<1>1. DotStuff(c, start) = FlattenSeq(Stuffed(c, start))
  BY DEF DotStuff, Stuffed
<1>2. DOMAIN c = 1..Len(c) /\ Len(c) \in Nat /\ \A k \in 1..Len(c) : c[k] \in Bytes
  OBVIOUS
<1>3. <<".", ".">> \in Seq(Bytes) /\ \A k \in 1..Len(c) : <<c[k]>> \in Seq(Bytes)
  BY <1>2 DEF Bytes
<1>4. /\ Stuffed(c, start) \in Seq(Seq(Bytes)) /\ Len(Stuffed(c, start)) = Len(c)
      /\ \A k \in 1..Len(c) :
           Stuffed(c, start)[k] = IF c[k] = "." /\ StartsLine(c, start, k) THEN <<".", ".">>
                                  ELSE <<c[k]>>
  BY <1>2, <1>3 DEF Stuffed
<1> QED BY <1>1, <1>4, FlattenTyped

\* Whether a byte of the second chunk starts a line is told by the state that
\* the first one left.
LEMMA LineStarts ==
  ASSUME NEW a \in Seq(Bytes), NEW b \in Seq(Bytes), NEW start \in BOOLEAN
  PROVE  /\ LineStartAfter(a, start) \in BOOLEAN
         /\ LineStartAfter(<<>>, start) = start
         /\ LineStartAfter(a \o b, start) = LineStartAfter(b, LineStartAfter(a, start))
         /\ \A k \in 1..Len(a) : StartsLine(a \o b, start, k) = StartsLine(a, start, k)
         /\ \A k \in 1..Len(b) : StartsLine(a \o b, start, Len(a) + k)
                                   = StartsLine(b, LineStartAfter(a, start), k)
<1> DEFINE c == a \o b
<1>1. /\ c \in Seq(Bytes) /\ Len(c) = Len(a) + Len(b) /\ Len(a) \in Nat /\ Len(b) \in Nat
      /\ \A k \in 1..Len(a) : c[k] = a[k]
      /\ \A k \in 1..Len(b) : c[Len(a) + k] = b[k]
  OBVIOUS
<1> HIDE DEF c
<1>2. LineStartAfter(a, start) \in BOOLEAN /\ LineStartAfter(<<>>, start) = start
  <2>1. \A s, k : StartsLine(s, start, k) \in BOOLEAN /\ StartsLine(s, start, 1) = start
    BY DEF StartsLine
  <2>2. Len(<<>>) + 1 = 1
    OBVIOUS
  <2>3. LineStartAfter(<<>>, start) = StartsLine(<<>>, start, 1)
    BY ONLY <2>2 DEF LineStartAfter
  <2>4. LineStartAfter(a, start) = StartsLine(a, start, Len(a) + 1)
    BY DEF LineStartAfter
  <2> QED BY ONLY <2>1, <2>3, <2>4
<1>3. \A k \in 1..Len(a) : StartsLine(c, start, k) = StartsLine(a, start, k)
  BY <1>1 DEF StartsLine
<1>4. \A k \in 1..(Len(b) + 1) :
        StartsLine(c, start, Len(a) + k) = StartsLine(b, LineStartAfter(a, start), k)
  <2> SUFFICES ASSUME NEW k \in 1..(Len(b) + 1)
               PROVE  StartsLine(c, start, Len(a) + k) = StartsLine(b, LineStartAfter(a, start), k)
    OBVIOUS
  <2>1. CASE k = 1
    <3>1. CASE Len(a) = 0
      BY <1>1, <2>1, <3>1 DEF LineStartAfter, StartsLine
    <3>2. CASE Len(a) # 0
      <4>1. c[Len(a)] = a[Len(a)]
        BY <1>1, <3>2
      <4> QED BY <1>1, <2>1, <3>2, <4>1 DEF LineStartAfter, StartsLine
    <3> QED BY <3>1, <3>2
  <2>2. CASE k # 1
    <3>1. k - 1 \in 1..Len(b) /\ (Len(a) + k) - 1 = Len(a) + (k - 1) /\ Len(a) + k # 1
      BY <1>1, <2>2
    <3>2. c[(Len(a) + k) - 1] = b[k - 1]
      BY <1>1, <3>1
    <3> QED BY <2>2, <3>1, <3>2 DEF StartsLine
  <2> QED BY <2>1, <2>2
<1>5. LineStartAfter(c, start) = LineStartAfter(b, LineStartAfter(a, start))
  <2>1. Len(b) + 1 \in 1..(Len(b) + 1) /\ Len(c) + 1 = Len(a) + (Len(b) + 1)
    BY <1>1
  <2>2. StartsLine(c, start, Len(a) + (Len(b) + 1))
          = StartsLine(b, LineStartAfter(a, start), Len(b) + 1)
    BY <1>4, <2>1
  <2>3. \A s, t : LineStartAfter(s, t) = StartsLine(s, t, Len(s) + 1)
    BY DEF LineStartAfter
  <2> QED BY ONLY <2>1, <2>2, <2>3
<1>6. \A k \in 1..Len(b) : k \in 1..(Len(b) + 1)
  BY <1>1
<1> QED BY <1>2, <1>3, <1>4, <1>5, <1>6 DEF c

\* Dot-stuffing distributes over chunks, the state carried between them.
THEOREM StuffCat ==
  ASSUME NEW a \in Seq(Bytes), NEW b \in Seq(Bytes), NEW start \in BOOLEAN
  PROVE  DotStuff(a \o b, start) = DotStuff(a, start) \o DotStuff(b, LineStartAfter(a, start))
<1> DEFINE next == LineStartAfter(a, start)
<1> DEFINE c == a \o b
<1> DEFINE sa == Stuffed(a, start)
<1> DEFINE sb == Stuffed(b, next)
<1> DEFINE sc == Stuffed(c, start)
<1>1. /\ c \in Seq(Bytes) /\ Len(c) = Len(a) + Len(b) /\ Len(a) \in Nat /\ Len(b) \in Nat
      /\ \A k \in 1..Len(a) : c[k] = a[k]
      /\ \A k \in 1..Len(b) : c[Len(a) + k] = b[k]
  OBVIOUS
<1>2. next \in BOOLEAN
  BY LineStarts
<1>3. /\ \A k \in 1..Len(a) : StartsLine(c, start, k) = StartsLine(a, start, k)
      /\ \A k \in 1..Len(b) : StartsLine(c, start, Len(a) + k) = StartsLine(b, next, k)
  BY LineStarts
<1> HIDE DEF next, c
<1>4. /\ sa \in Seq(Seq(Bytes)) /\ Len(sa) = Len(a)
      /\ \A k \in 1..Len(a) :
           sa[k] = IF a[k] = "." /\ StartsLine(a, start, k) THEN <<".", ".">> ELSE <<a[k]>>
      /\ DotStuff(a, start) = FlattenSeq(sa)
  BY StuffedFacts
<1>5. /\ sb \in Seq(Seq(Bytes)) /\ Len(sb) = Len(b)
      /\ \A k \in 1..Len(b) :
           sb[k] = IF b[k] = "." /\ StartsLine(b, next, k) THEN <<".", ".">> ELSE <<b[k]>>
      /\ DotStuff(b, next) = FlattenSeq(sb)
  BY <1>2, StuffedFacts
<1>6. /\ sc \in Seq(Seq(Bytes)) /\ Len(sc) = Len(c)
      /\ \A k \in 1..Len(c) :
           sc[k] = IF c[k] = "." /\ StartsLine(c, start, k) THEN <<".", ".">> ELSE <<c[k]>>
      /\ DotStuff(c, start) = FlattenSeq(sc)
  BY <1>1, StuffedFacts
<1> HIDE DEF sa, sb, sc
<1>7. sc = sa \o sb
  <2> DEFINE s == sa \o sb
  <2>1. /\ s \in Seq(Seq(Bytes)) /\ Len(s) = Len(a) + Len(b)
        /\ \A k \in 1..Len(a) : s[k] = sa[k]
        /\ \A k \in 1..Len(b) : s[Len(a) + k] = sb[k]
    <3> DEFINE U == Seq(Bytes)
    <3>1. sa \in Seq(U) /\ sb \in Seq(U)
      BY <1>4, <1>5
    <3> HIDE DEF U
    <3>2. /\ s \in Seq(U) /\ Len(s) = Len(sa) + Len(sb)
          /\ \A k \in 1..Len(sa) : s[k] = sa[k]
          /\ \A k \in 1..Len(sb) : s[Len(sa) + k] = sb[k]
      BY ONLY <3>1
    <3> QED BY ONLY <1>4, <1>5, <3>2 DEF U
  <2> HIDE DEF s
  <2>2. \A k \in 1..Len(sc) : sc[k] = s[k]
    <3> SUFFICES ASSUME NEW k \in 1..(Len(a) + Len(b)) PROVE sc[k] = s[k]
      BY <1>1, <1>6
    <3>1. sc[k] = IF c[k] = "." /\ StartsLine(c, start, k) THEN <<".", ".">> ELSE <<c[k]>>
      BY <1>1, <1>6
    <3>2. CASE k \in 1..Len(a)
      BY ONLY <1>1, <1>3, <1>4, <2>1, <3>1, <3>2
    <3>3. CASE k \notin 1..Len(a)
      <4>1. k - Len(a) \in 1..Len(b) /\ k = Len(a) + (k - Len(a))
        BY <1>1, <3>3
      <4>2. PICK j \in 1..Len(b) : k = Len(a) + j
        BY <4>1
      <4> QED BY ONLY <1>1, <1>3, <1>5, <2>1, <3>1, <4>2
    <3> QED BY <3>2, <3>3
  <2>3. sc = s
    BY <1>1, <1>6, <2>1, <2>2, SeqEqual
  <2> QED BY <2>3 DEF s
<1>8. FlattenSeq(sa \o sb) = FlattenSeq(sa) \o FlattenSeq(sb)
  BY <1>4, <1>5, FlattenCat
<1> QED BY <1>4, <1>5, <1>6, <1>7, <1>8 DEF c, next

\* Nothing becomes nothing; one byte becomes itself, or two dots.
LEMMA StuffOne ==
  ASSUME NEW start \in BOOLEAN
  PROVE  /\ DotStuff(<<>>, start) = <<>>
         /\ \A x \in Bytes : DotStuff(<<x>>, start) = IF x = "." /\ start THEN <<".", ".">> ELSE <<x>>
<1>1. DotStuff(<<>>, start) = <<>>
  <2>1. <<>> \in Seq(Bytes) /\ Len(<<>>) = 0
    OBVIOUS
  <2>2. /\ DotStuff(<<>>, start) = FlattenSeq(Stuffed(<<>>, start))
        /\ Stuffed(<<>>, start) \in Seq(Seq(Bytes)) /\ Len(Stuffed(<<>>, start)) = 0
    BY <2>1, StuffedFacts
  <2>3. Stuffed(<<>>, start) = <<>>
    BY ONLY <2>2
  <2> QED BY <2>2, <2>3, FlattenEmpty
<1>2. ASSUME NEW x \in Bytes
      PROVE  DotStuff(<<x>>, start) = IF x = "." /\ start THEN <<".", ".">> ELSE <<x>>
  <2> DEFINE s == Stuffed(<<x>>, start)
  <2> DEFINE e == IF x = "." /\ start THEN <<".", ".">> ELSE <<x>>
  <2>1. <<x>> \in Seq(Bytes) /\ Len(<<x>>) = 1 /\ <<x>>[1] = x /\ 1 \in 1..1
    OBVIOUS
  <2>2. StartsLine(<<x>>, start, 1) = start
    BY DEF StartsLine
  <2>3. /\ DotStuff(<<x>>, start) = FlattenSeq(s)
        /\ s \in Seq(Seq(Bytes)) /\ Len(s) = 1 /\ s[1] = e
    <3> DEFINE c == <<x>>
    <3> HIDE DEF c
    <3>1. /\ DotStuff(c, start) = FlattenSeq(Stuffed(c, start))
          /\ Stuffed(c, start) \in Seq(Seq(Bytes)) /\ Len(Stuffed(c, start)) = Len(c)
          /\ \A k \in 1..Len(c) :
               Stuffed(c, start)[k] = IF c[k] = "." /\ StartsLine(c, start, k) THEN <<".", ".">>
                                      ELSE <<c[k]>>
      BY <2>1, StuffedFacts DEF c
    <3>2. Len(c) = 1 /\ c[1] = x /\ StartsLine(c, start, 1) = start
      BY <2>1, <2>2 DEF c
    <3>3. Stuffed(c, start)[1] = IF x = "." /\ start THEN <<".", ".">> ELSE <<x>>
      BY ONLY <3>1, <3>2, <2>1
    <3> QED BY ONLY <3>1, <3>2, <3>3 DEF c, s, e
  <2> HIDE DEF s, e
  <2>4. s = <<e>> /\ e \in Seq(Bytes)
    BY ONLY <2>3
  <2>5. FlattenSeq(<<e>>) = e
    BY <2>4, FlattenOne
  <2> QED BY <2>3, <2>4, <2>5 DEF e
<1> QED BY <1>1, <1>2

\* One more byte of the message.
LEMMA StuffAppend ==
  ASSUME NEW m \in Seq(Bytes), NEW x \in Bytes
  PROVE  DotStuff(Append(m, x), TRUE)
           = DotStuff(m, TRUE) \o (IF x = "." /\ LineStartAfter(m, TRUE) THEN <<".", ".">> ELSE <<x>>)
<1>1. <<x>> \in Seq(Bytes) /\ Append(m, x) = m \o <<x>> /\ TRUE \in BOOLEAN
  BY AppendIsConcat
<1>2. DotStuff(m \o <<x>>, TRUE) = DotStuff(m, TRUE) \o DotStuff(<<x>>, LineStartAfter(m, TRUE))
  BY <1>1, StuffCat
<1>3. LineStartAfter(m, TRUE) \in BOOLEAN
  BY <1>1, LineStarts
<1>4. DotStuff(<<x>>, LineStartAfter(m, TRUE))
        = IF x = "." /\ LineStartAfter(m, TRUE) THEN <<".", ".">> ELSE <<x>>
  BY <1>3, StuffOne
<1> QED BY <1>1, <1>2, <1>4

(* What a server reads                                                      *)

\* Where a line starts is told by the bytes before.
LEMMA ServerLines ==
  ASSUME NEW a \in Seq(Bytes), NEW b \in Seq(Bytes), NEW server
  PROVE  /\ \A k \in 1..(Len(a) + 1) : LineStart(a \o b, k, server) = LineStart(a, k, server)
         /\ LineStart(a, Len(a) + 1, "lenient") = LineStartAfter(a, TRUE)
<1> DEFINE c == a \o b
<1>1. Len(a) \in Nat /\ \A k \in 1..Len(a) : c[k] = a[k]
  OBVIOUS
<1> HIDE DEF c
<1>2. ASSUME NEW k \in 1..(Len(a) + 1) PROVE LineStart(c, k, server) = LineStart(a, k, server)
  <2>1. k > 1 => c[k - 1] = a[k - 1]
    BY <1>1
  <2>2. k > 2 => c[k - 2] = a[k - 2]
    BY <1>1
  <2> QED BY <1>1, <2>1, <2>2 DEF LineStart
<1>3. LineStart(a, Len(a) + 1, "lenient") = LineStartAfter(a, TRUE)
  <2>1. LineStartAfter(a, TRUE) = IF Len(a) + 1 = 1 THEN TRUE ELSE a[(Len(a) + 1) - 1] = "LF"
    BY DEF LineStartAfter, StartsLine
  <2>2. LineStart(a, Len(a) + 1, "lenient")
          = (Len(a) + 1 = 1 \/ (Len(a) + 1 > 1 /\ a[(Len(a) + 1) - 1] = "LF"))
    BY DEF LineStart
  <2>3. Len(a) + 1 = 1 \/ (Len(a) + 1 > 1 /\ Len(a) + 1 # 1)
    BY <1>1
  <2> QED BY ONLY <2>1, <2>2, <2>3
<1> QED BY <1>2, <1>3 DEF c

\* What a server makes of the j-th byte.
Unstuffed(w, server, j) == IF w[j] = "." /\ LineStart(w, j, server) THEN <<>> ELSE <<w[j]>>

\* What it keeps of a part depends on that part.
LEMMA KeptPrefix ==
  ASSUME NEW a \in Seq(Bytes), NEW b \in Seq(Bytes), NEW server
  PROVE  Kept(a \o b, Len(a) + 1, server) = Kept(a, Len(a) + 1, server)
<1> DEFINE c == a \o b
<1>1. Len(a) \in Nat /\ (\A k \in 1..Len(a) : c[k] = a[k]) /\ (Len(a) + 1) - 1 = Len(a)
  OBVIOUS
<1>2. \A k \in 1..(Len(a) + 1) : LineStart(c, k, server) = LineStart(a, k, server)
  BY ServerLines
<1> HIDE DEF c
<1>3. \A k \in 1..Len(a) : k \in 1..(Len(a) + 1)
  BY <1>1
<1>4. \A k \in 1..Len(a) : Unstuffed(c, server, k) = Unstuffed(a, server, k)
  BY <1>1, <1>2, <1>3 DEF Unstuffed
<1>5. [k \in 1..Len(a) |-> Unstuffed(c, server, k)] = [k \in 1..Len(a) |-> Unstuffed(a, server, k)]
  BY <1>4
<1> QED BY <1>1, <1>5 DEF Kept, Unstuffed, c

\* One more byte is kept, unless it is the dot that starts a line.
LEMMA KeptAppend ==
  ASSUME NEW a \in Seq(Bytes), NEW x \in Bytes, NEW server
  PROVE  Kept(Append(a, x), Len(a) + 2, server)
           = Kept(a, Len(a) + 1, server)
               \o (IF x = "." /\ LineStart(a, Len(a) + 1, server) THEN <<>> ELSE <<x>>)
<1> DEFINE c == Append(a, x)
<1> DEFINE n == Len(a)
<1> DEFINE front == [k \in 1..n |-> Unstuffed(a, server, k)]
<1> DEFINE all == [k \in 1..(n + 1) |-> Unstuffed(c, server, k)]
<1> DEFINE e == Unstuffed(c, server, n + 1)
<1>1. /\ n \in Nat /\ (n + 1) - 1 = n /\ (n + 2) - 1 = n + 1
      /\ \A k \in 1..n : c[k] = a[k] /\ a[k] \in Bytes
      /\ c[n + 1] = x /\ n + 1 \in 1..(n + 1)
  OBVIOUS
<1>2. \A k \in 1..(n + 1) : LineStart(c, k, server) = LineStart(a, k, server)
  <2>1. c = a \o <<x>> /\ <<x>> \in Seq(Bytes)
    BY AppendIsConcat
  <2> QED BY <2>1, ServerLines
<1>3. Kept(a, n + 1, server) = FlattenSeq(front) /\ Kept(c, n + 2, server) = FlattenSeq(all)
  BY <1>1 DEF Kept, Unstuffed
<1> HIDE DEF c, n
<1>4. e = IF x = "." /\ LineStart(a, n + 1, server) THEN <<>> ELSE <<x>>
  BY <1>1, <1>2 DEF Unstuffed
<1>5. \A k \in 1..n : Unstuffed(c, server, k) = Unstuffed(a, server, k)
                      /\ Unstuffed(a, server, k) \in Seq(Bytes)
  <2>1. \A k \in 1..n : k \in 1..(n + 1) /\ <<a[k]>> \in Seq(Bytes) /\ <<>> \in Seq(Bytes)
    BY <1>1
  <2> QED BY <1>1, <1>2, <2>1 DEF Unstuffed
<1>6. e \in Seq(Bytes)
  <2>1. <<>> \in Seq(Bytes) /\ <<x>> \in Seq(Bytes)
    OBVIOUS
  <2> QED BY ONLY <1>4, <2>1
<1>7. front \in Seq(Seq(Bytes)) /\ all = Append(front, e)
  <2> DEFINE U == Seq(Bytes)
  <2> HIDE DEF e
  <2>1. \A k \in 1..n : Unstuffed(c, server, k) = Unstuffed(a, server, k)
                        /\ Unstuffed(a, server, k) \in U
    BY <1>5
  <2>2. e \in U /\ e = Unstuffed(c, server, n + 1)
    BY <1>6 DEF e
  <2> HIDE DEF U
  <2>3. front \in Seq(U) /\ Len(front) = n /\ \A k \in 1..n : front[k] = Unstuffed(a, server, k)
    BY ONLY <1>1, <2>1
  <2>4. all \in Seq(U) /\ Len(all) = n + 1
        /\ \A k \in 1..(n + 1) : all[k] = Unstuffed(c, server, k)
    BY ONLY <1>1, <2>1, <2>2
  <2> HIDE DEF front, all
  <2>5. /\ Append(front, e) \in Seq(U) /\ Len(Append(front, e)) = n + 1
        /\ \A k \in 1..n : Append(front, e)[k] = front[k]
        /\ Append(front, e)[n + 1] = e
    BY ONLY <2>2, <2>3, Appended
  <2>6. \A k \in 1..(n + 1) : all[k] = Append(front, e)[k]
    <3>1. \A k \in 1..(n + 1) : k \in 1..n \/ k = n + 1
      BY <1>1
    <3> QED BY ONLY <2>1, <2>2, <2>3, <2>4, <2>5, <3>1
  <2>7. all = Append(front, e)
    BY ONLY <2>4, <2>5, <2>6, SeqEqual
  <2> QED BY <2>3, <2>7 DEF U
<1>8. FlattenSeq(Append(front, e)) = FlattenSeq(front) \o e
  BY <1>6, <1>7, FlattenAppend
<1> QED BY <1>3, <1>4, <1>7, <1>8 DEF c, n

(* Byte after byte                                                          *)

\* Whether a LF without a CR before it comes in with one more byte.
LEMMA BareLfAppend ==
  ASSUME NEW w \in Seq(Bytes), NEW x \in Bytes
  PROVE  HasBareLf(Append(w, x))
           <=> HasBareLf(w) \/ (x = "LF" /\ (Len(w) = 0 \/ w[Len(w)] # "CR"))
<1> DEFINE c == Append(w, x)
<1> DEFINE n == Len(w)
<1> DEFINE Bare(s, k) == s[k] = "LF" /\ (k = 1 \/ s[k - 1] # "CR")
<1>1. /\ n \in Nat /\ DOMAIN w = 1..n /\ DOMAIN c = 1..(n + 1)
      /\ \A k \in 1..n : c[k] = w[k]
      /\ c[n + 1] = x /\ n + 1 \in 1..(n + 1)
  OBVIOUS
<1>2. (HasBareLf(c) <=> \E k \in 1..(n + 1) : Bare(c, k)) /\ (HasBareLf(w) <=> \E k \in 1..n : Bare(w, k))
  BY <1>1 DEF HasBareLf
<1>3. Len(w) = n
  OBVIOUS
<1> HIDE DEF c, n
<1>4. \A k \in 1..n : Bare(c, k) = Bare(w, k)
  <2> SUFFICES ASSUME NEW k \in 1..n PROVE Bare(c, k) = Bare(w, k)
    OBVIOUS
  <2>1. k # 1 => c[k - 1] = w[k - 1]
    BY <1>1
  <2>2. c[k] = w[k]
    BY <1>1
  <2> QED BY ONLY <2>1, <2>2
<1>5. Bare(c, n + 1) <=> (x = "LF" /\ (n = 0 \/ w[n] # "CR"))
  <2>1. n # 0 => c[n] = w[n]
    BY <1>1
  <2>2. (n + 1) - 1 = n /\ (n + 1 = 1 <=> n = 0)
    BY <1>1
  <2> QED BY ONLY <1>1, <2>1, <2>2
<1>6. \A k \in 1..(n + 1) : k \in 1..n \/ k = n + 1
  BY <1>1
<1>7. \A k \in 1..n : k \in 1..(n + 1)
  BY <1>1
<1> HIDE DEF Bare
<1>8. HasBareLf(c) <=> HasBareLf(w) \/ Bare(c, n + 1)
  BY <1>1, <1>2, <1>4, <1>6, <1>7
<1> QED BY <1>3, <1>5, <1>8 DEF c

\* Every dot that starts a line is followed by another.
Guarded(w) ==
  \A k \in 1..Len(w) : w[k] = "." /\ LineStart(w, k, "lenient") => k + 1 \in 1..Len(w) /\ w[k + 1] = "."

\* A byte that is not such a dot leaves it so, and so do two dots.
LEMMA GuardedAppend ==
  ASSUME NEW w \in Seq(Bytes), Guarded(w)
  PROVE  /\ \A x \in Bytes : ~(x = "." /\ LineStart(w, Len(w) + 1, "lenient")) => Guarded(Append(w, x))
         /\ Guarded(w \o <<".", ".">>)
<1>1. Len(w) \in Nat /\ "." \in Bytes /\ \A k \in 1..Len(w) : k \in 1..(Len(w) + 1)
  BY DEF Bytes
<1>2. ASSUME NEW x \in Bytes, ~(x = "." /\ LineStart(w, Len(w) + 1, "lenient"))
      PROVE  Guarded(Append(w, x))
  <2> DEFINE c == Append(w, x)
  <2>1. /\ Len(c) = Len(w) + 1 /\ c[Len(w) + 1] = x
        /\ \A k \in 1..Len(w) : c[k] = w[k]
    OBVIOUS
  <2>2. \A k \in 1..(Len(w) + 1) : LineStart(c, k, "lenient") = LineStart(w, k, "lenient")
    <3>1. <<x>> \in Seq(Bytes) /\ c = w \o <<x>>
      BY AppendIsConcat
    <3> QED BY <3>1, ServerLines
  <2> HIDE DEF c
  <2>3. ASSUME NEW k \in 1..(Len(w) + 1), c[k] = ".", LineStart(c, k, "lenient")
        PROVE  k + 1 \in 1..(Len(w) + 1) /\ c[k + 1] = "."
    <3>1. k # Len(w) + 1
      BY <1>2, <2>1, <2>2, <2>3
    <3>2. k \in 1..Len(w)
      BY <1>1, <3>1
    <3>3. k + 1 \in 1..Len(w) /\ w[k + 1] = "."
      BY <2>1, <2>2, <2>3, <3>2, <1>1 DEF Guarded
    <3> QED BY <1>1, <2>1, <3>3
  <2>4. Guarded(c)
    BY ONLY <2>1, <2>3 DEF Guarded
  <2> QED BY <2>4 DEF c
<1>3. Guarded(w \o <<".", ".">>)
  <2> DEFINE c == w \o <<".", ".">>
  <2>1. /\ Len(c) = Len(w) + 2 /\ c[Len(w) + 1] = "." /\ c[Len(w) + 2] = "."
        /\ \A k \in 1..Len(w) : c[k] = w[k]
    OBVIOUS
  <2>2. \A k \in 1..(Len(w) + 1) : LineStart(c, k, "lenient") = LineStart(w, k, "lenient")
    <3>1. <<".", ".">> \in Seq(Bytes)
      BY <1>1
    <3> QED BY <3>1, ServerLines
  <2> HIDE DEF c
  <2>3. ASSUME NEW k \in 1..(Len(w) + 2), c[k] = ".", LineStart(c, k, "lenient")
        PROVE  k + 1 \in 1..(Len(w) + 2) /\ c[k + 1] = "."
    <3>1. k # Len(w) + 2
      <4>1. ASSUME k = Len(w) + 2 PROVE FALSE
        <5>1. k - 1 = Len(w) + 1 /\ k # 1
          BY <1>1, <4>1
        <5>2. c[k - 1] = "LF"
          BY <2>3, <5>1 DEF LineStart
        <5> QED BY ONLY <2>1, <5>1, <5>2
      <4> QED BY <4>1
    <3>2. CASE k = Len(w) + 1
      BY <1>1, <2>1, <3>2
    <3>3. CASE k # Len(w) + 1
      <4>1. k \in 1..Len(w)
        BY <1>1, <3>1, <3>3
      <4>2. k + 1 \in 1..Len(w) /\ w[k + 1] = "."
        BY <2>1, <2>2, <2>3, <4>1, <1>1 DEF Guarded
      <4> QED BY <1>1, <2>1, <4>2
    <3> QED BY <3>2, <3>3
  <2>4. Guarded(c)
    BY ONLY <2>1, <2>3 DEF Guarded
  <2> QED BY <2>4 DEF c
<1> QED BY <1>2, <1>3

\* What is on the wire for m: it ends with the last byte of m, its dots are
\* guarded, a server un-stuffs it to m, and no LF has lost its CR.
IsStuffed(w, m) ==
  /\ w \in Seq(Bytes) /\ (Len(w) = 0 <=> Len(m) = 0)
  /\ (Len(m) # 0 => w[Len(w)] = m[Len(m)])
  /\ Guarded(w)
  /\ Kept(w, Len(w) + 1, "lenient") = m
  /\ (~HasBareLf(m) => ~HasBareLf(w))

LEMMA IsStuffedAppend ==
  ASSUME NEW m \in Seq(Bytes), NEW x \in Bytes, NEW w, IsStuffed(w, m)
  PROVE  IsStuffed(w \o (IF x = "." /\ LineStartAfter(m, TRUE) THEN <<".", ".">> ELSE <<x>>),
                   Append(m, x))
<1> DEFINE longer == Append(m, x)
<1>1. w \in Seq(Bytes) /\ Guarded(w) /\ Kept(w, Len(w) + 1, "lenient") = m
  BY DEF IsStuffed
<1>2. /\ longer \in Seq(Bytes) /\ Len(longer) # 0 /\ longer[Len(longer)] = x
      /\ longer = m \o <<x>> /\ Len(w) \in Nat /\ Len(m) \in Nat
  BY <1>1, AppendIsConcat
<1>3. LineStart(w, Len(w) + 1, "lenient") = LineStartAfter(m, TRUE)
  <2>1. LineStart(w, Len(w) + 1, "lenient") = LineStartAfter(w, TRUE)
    BY <1>1, <1>2, ServerLines
  <2>2. Len(w) = 0 <=> Len(m) = 0
    BY DEF IsStuffed
  <2>3. Len(m) # 0 => w[Len(w)] = m[Len(m)]
    BY DEF IsStuffed
  <2>4. \A s : Len(s) \in Nat => LineStartAfter(s, TRUE) = (Len(s) = 0 \/ s[Len(s)] = "LF")
    <3> SUFFICES ASSUME NEW s, Len(s) \in Nat
                 PROVE  LineStartAfter(s, TRUE) = (Len(s) = 0 \/ s[Len(s)] = "LF")
      OBVIOUS
    <3>1. (Len(s) + 1) - 1 = Len(s) /\ (Len(s) + 1 = 1 <=> Len(s) = 0)
      OBVIOUS
    <3>2. LineStartAfter(s, TRUE) = IF Len(s) + 1 = 1 THEN TRUE ELSE s[(Len(s) + 1) - 1] = "LF"
      BY DEF LineStartAfter, StartsLine
    <3> QED BY ONLY <3>1, <3>2
  <2> QED BY ONLY <1>2, <2>1, <2>2, <2>3, <2>4
<1>4. HasBareLf(longer) <=> HasBareLf(m) \/ (x = "LF" /\ (Len(m) = 0 \/ m[Len(m)] # "CR"))
  BY BareLfAppend
<1> HIDE DEF longer
<1>5. CASE x = "." /\ LineStartAfter(m, TRUE)
  <2> DEFINE v == Append(w, ".")
  <2> DEFINE u == w \o <<".", ".">>
  <2>0. "." \in Bytes
    BY DEF Bytes
  <2>1. /\ v \in Seq(Bytes) /\ Len(v) = Len(w) + 1 /\ v[Len(v)] = "."
        /\ u = Append(v, ".") /\ u \in Seq(Bytes) /\ Len(u) = Len(w) + 2 /\ u[Len(u)] = "."
    BY <1>1, <2>0
  <2>2. Guarded(u)
    BY <1>1, GuardedAppend
  <2>3. Kept(v, Len(w) + 2, "lenient") = m \o <<>>
    BY <1>1, <1>3, <1>5, <2>0, KeptAppend
  <2>4. ~LineStart(v, Len(v) + 1, "lenient")
    <3>1. (Len(v) + 1) - 1 = Len(v) /\ Len(v) + 1 # 1
      BY <1>2, <2>1
    <3> QED BY ONLY <2>1, <3>1 DEF LineStart
  <2>5. HasBareLf(u) <=> HasBareLf(w)
    <3>1. HasBareLf(v) <=> HasBareLf(w)
      BY <1>1, <2>0, BareLfAppend
    <3> HIDE DEF v, u
    <3>2. HasBareLf(Append(v, ".")) <=> HasBareLf(v)
      <4>1. HasBareLf(Append(v, "."))
              <=> HasBareLf(v) \/ ("." = "LF" /\ (Len(v) = 0 \/ v[Len(v)] # "CR"))
        BY ONLY <2>0, <2>1, BareLfAppend
      <4> QED BY ONLY <4>1
    <3> QED BY ONLY <2>1, <3>1, <3>2
  <2> HIDE DEF v, u
  <2>6. Kept(u, Len(v) + 2, "lenient") = Kept(v, Len(v) + 1, "lenient") \o <<".">>
    BY <2>0, <2>1, <2>4, KeptAppend
  <2>7. Len(v) + 2 = Len(u) + 1 /\ Len(v) + 1 = Len(w) + 2
    BY <1>2, <2>1
  <2>8. Kept(u, Len(u) + 1, "lenient") = longer
    <3>1. m \o <<>> = m
      BY ConcatEmptySeq
    <3> QED BY ONLY <1>2, <1>5, <2>3, <2>6, <2>7, <3>1
  <2>9. ~HasBareLf(longer) => ~HasBareLf(u)
    BY <1>4, <2>5 DEF IsStuffed
  <2>10. Len(u) # 0
    BY <1>2, <2>1
  <2>11. IsStuffed(u, longer)
    BY ONLY <1>2, <1>5, <2>1, <2>2, <2>8, <2>9, <2>10 DEF IsStuffed
  <2> QED BY <1>5, <2>11 DEF u, longer
<1>6. CASE ~(x = "." /\ LineStartAfter(m, TRUE))
  <2> DEFINE u == Append(w, x)
  <2>1. u \in Seq(Bytes) /\ Len(u) = Len(w) + 1 /\ u[Len(u)] = x /\ u = w \o <<x>>
    BY <1>1, AppendIsConcat
  <2>2. Guarded(u)
    BY <1>1, <1>3, <1>6, GuardedAppend
  <2>3. Kept(u, Len(w) + 2, "lenient") = m \o <<x>>
    BY <1>1, <1>3, <1>6, KeptAppend
  <2>4. HasBareLf(u) <=> HasBareLf(w) \/ (x = "LF" /\ (Len(w) = 0 \/ w[Len(w)] # "CR"))
    BY <1>1, BareLfAppend
  <2> HIDE DEF u
  <2>5. ~HasBareLf(longer) => ~HasBareLf(u)
    BY <1>4, <2>4 DEF IsStuffed
  <2>6. Len(w) + 2 = Len(u) + 1 /\ Len(u) # 0
    BY <1>2, <2>1
  <2>7. IsStuffed(u, longer)
    BY ONLY <1>2, <2>1, <2>2, <2>3, <2>5, <2>6 DEF IsStuffed
  <2> QED BY <1>6, <2>1, <2>7 DEF longer
<1> QED BY <1>5, <1>6

\* Dot-stuffing does so to every message.
THEOREM StuffedIsReadBack ==
  \A m \in Seq(Bytes) : IsStuffed(DotStuff(m, TRUE), m)
<1> DEFINE Reads(m) == IsStuffed(DotStuff(m, TRUE), m)
<1> DEFINE T == {n \in Nat : \A m \in Seq(Bytes) : Len(m) = n => Reads(m)}
<1>1. 0 \in T
  <2> SUFFICES ASSUME NEW m \in Seq(Bytes), Len(m) = 0 PROVE Reads(m)
    <3> HIDE DEF Reads
    <3> QED OBVIOUS
  <2>1. m = <<>>
    OBVIOUS
  <2>2. DotStuff(<<>>, TRUE) = <<>>
    BY StuffOne
  <2>3. Kept(<<>>, Len(<<>>) + 1, "lenient") = <<>>
    <3>1. (Len(<<>>) + 1) - 1 = 0
      OBVIOUS
    <3>2. \A f : f = [j \in 1..0 |-> Unstuffed(<<>>, "lenient", j)] => f = <<>>
      OBVIOUS
    <3>3. [j \in 1..((Len(<<>>) + 1) - 1) |-> Unstuffed(<<>>, "lenient", j)] = <<>>
      BY <3>1, <3>2
    <3> QED BY <3>3, FlattenEmpty DEF Kept, Unstuffed
  <2>4. Guarded(<<>>) /\ ~HasBareLf(<<>>) /\ <<>> \in Seq(Bytes) /\ Len(<<>>) = 0
    BY DEF Guarded, HasBareLf
  <2>5. IsStuffed(<<>>, <<>>)
    BY ONLY <2>3, <2>4 DEF IsStuffed
  <2> QED BY <2>1, <2>2, <2>5
<1>2. ASSUME NEW n \in Nat, n \in T PROVE n + 1 \in T
  <2> SUFFICES ASSUME NEW m \in Seq(Bytes), Len(m) = n + 1 PROVE Reads(m)
    <3> HIDE DEF Reads
    <3> QED OBVIOUS
  <2>1. m # <<>>
    OBVIOUS
  <2>2. PICK front \in Seq(Bytes), x \in Bytes : m = Append(front, x)
    BY <2>1, SequenceEmptyOrAppend
  <2>3. Len(front) = n
    BY <2>2
  <2>4. IsStuffed(DotStuff(front, TRUE), front)
    BY <1>2, <2>3
  <2> QED BY <2>2, <2>4, IsStuffedAppend, StuffAppend
<1>3. Nat \subseteq T
  <2> HIDE DEF Reads, T
  <2> QED BY <1>1, <1>2, Induction
<1>4. \A m \in Seq(Bytes) : Reads(m)
  <2> HIDE DEF Reads
  <2> QED BY <1>3, LenProperties
<1> QED BY <1>4

(* What the terminator ends                                                 *)

CrLf == <<"CR", "LF">>

\* Two sequences in one.
LEMMA Joined ==
  ASSUME NEW S, NEW s \in Seq(S), NEW t \in Seq(S)
  PROVE  /\ s \o t \in Seq(S) /\ Len(s \o t) = Len(s) + Len(t)
         /\ \A k \in 1..Len(s) : (s \o t)[k] = s[k]
         /\ \A k \in 1..Len(t) : (s \o t)[Len(s) + k] = t[k]
OBVIOUS

\* A sequence cut in two.
LEMMA Cut ==
  ASSUME NEW S, NEW s \in Seq(S), NEW i \in 0..Len(s)
  PROVE  /\ SubSeq(s, 1, i) \in Seq(S) /\ Len(SubSeq(s, 1, i)) = i
         /\ SubSeq(s, i + 1, Len(s)) \in Seq(S) /\ Len(SubSeq(s, i + 1, Len(s))) = Len(s) - i
         /\ s = SubSeq(s, 1, i) \o SubSeq(s, i + 1, Len(s))
<1> DEFINE a == SubSeq(s, 1, i)
<1> DEFINE b == SubSeq(s, i + 1, Len(s))
<1>1. i \in Nat /\ Len(s) \in Nat /\ i <= Len(s)
  OBVIOUS
<1>2. a \in Seq(S) /\ Len(a) = i /\ \A k \in 1..i : a[k] = s[k]
  BY <1>1
<1>3. b \in Seq(S) /\ Len(b) = Len(s) - i /\ \A k \in 1..(Len(s) - i) : b[k] = s[i + k]
  BY <1>1
<1> HIDE DEF a, b
<1> DEFINE c == a \o b
<1>4. /\ c \in Seq(S) /\ Len(c) = Len(s)
      /\ \A k \in 1..i : c[k] = a[k]
      /\ \A k \in 1..(Len(s) - i) : c[i + k] = b[k]
  BY <1>1, <1>2, <1>3
<1> HIDE DEF c
<1>5. \A k \in 1..Len(s) : c[k] = s[k]
  <2> SUFFICES ASSUME NEW k \in 1..Len(s) PROVE c[k] = s[k]
    OBVIOUS
  <2>1. CASE k \in 1..i
    BY <1>2, <1>4, <2>1
  <2>2. CASE k \notin 1..i
    <3>1. k - i \in 1..(Len(s) - i) /\ i + (k - i) = k
      BY <1>1, <2>2
    <3>2. c[i + (k - i)] = b[k - i] /\ b[k - i] = s[i + (k - i)]
      BY <1>3, <1>4, <3>1
    <3> QED BY ONLY <3>1, <3>2
  <2> QED BY <2>1, <2>2
<1>6. s = c
  BY <1>4, <1>5, SeqEqual
<1> QED BY <1>2, <1>3, <1>6 DEF a, b, c

\* Where no LF lacks its CR, the two kinds of server see the same lines.
LEMMA StrictLines ==
  ASSUME NEW w \in Seq(Bytes)
  PROVE  /\ \A k \in Nat : LineStart(w, k, "strict") => LineStart(w, k, "lenient")
         /\ ~HasBareLf(w) => Kept(w, Len(w) + 1, "strict") = Kept(w, Len(w) + 1, "lenient")
<1>1. \A k \in Nat : LineStart(w, k, "strict") => LineStart(w, k, "lenient")
  BY DEF LineStart
<1>2. ASSUME ~HasBareLf(w) PROVE Kept(w, Len(w) + 1, "strict") = Kept(w, Len(w) + 1, "lenient")
  <2>1. Len(w) \in Nat /\ DOMAIN w = 1..Len(w) /\ (Len(w) + 1) - 1 = Len(w)
    OBVIOUS
  <2>2. \A k \in 1..Len(w) : w[k] = "LF" => k # 1 /\ w[k - 1] = "CR"
    BY <1>2, <2>1 DEF HasBareLf
  <2>3. ASSUME NEW k \in 1..Len(w) PROVE LineStart(w, k, "strict") = LineStart(w, k, "lenient")
    <3>1. CASE k = 1
      BY <3>1 DEF LineStart
    <3>2. CASE k # 1
      <4>1. k - 1 \in 1..Len(w) /\ k > 1 /\ (k - 1 # 1 => k > 2) /\ (k - 1) - 1 = k - 2
        BY <2>1, <3>2
      <4>2. w[k - 1] = "LF" => k > 2 /\ w[k - 2] = "CR"
        <5>1. w[k - 1] = "LF" => k - 1 # 1 /\ w[(k - 1) - 1] = "CR"
          BY <2>2, <4>1
        <5> QED BY ONLY <4>1, <5>1
      <4> QED BY ONLY <3>2, <4>1, <4>2 DEF LineStart
    <3> QED BY <3>1, <3>2
  <2>4. \A k \in 1..Len(w) : Unstuffed(w, "strict", k) = Unstuffed(w, "lenient", k)
    BY <2>3 DEF Unstuffed
  <2>5. [k \in 1..Len(w) |-> Unstuffed(w, "strict", k)] = [k \in 1..Len(w) |-> Unstuffed(w, "lenient", k)]
    BY <2>4
  <2> QED BY <2>1, <2>5 DEF Kept, Unstuffed
<1> QED BY <1>1, <1>2

\* CR LF is not touched.
LEMMA StuffCrLf ==
  ASSUME NEW n \in Seq(Bytes)
  PROVE  DotStuff(n \o CrLf, TRUE) = DotStuff(n, TRUE) \o CrLf
<1> DEFINE next == LineStartAfter(n, TRUE)
<1>1. TRUE \in BOOLEAN /\ next \in BOOLEAN
  BY LineStarts
<1> HIDE DEF next
<1>2. /\ <<"CR">> \in Seq(Bytes) /\ <<"LF">> \in Seq(Bytes) /\ CrLf \in Seq(Bytes)
      /\ CrLf = <<"CR">> \o <<"LF">> /\ "CR" \in Bytes /\ "LF" \in Bytes
  BY DEF Bytes, CrLf
<1>3. LineStartAfter(<<"CR">>, next) \in BOOLEAN
  BY <1>1, <1>2, LineStarts
<1>4. DotStuff(CrLf, next) = DotStuff(<<"CR">>, next) \o DotStuff(<<"LF">>, LineStartAfter(<<"CR">>, next))
  BY <1>1, <1>2, StuffCat
<1>5. DotStuff(<<"CR">>, next) = <<"CR">>
  BY <1>1, <1>2, StuffOne
<1>6. DotStuff(<<"LF">>, LineStartAfter(<<"CR">>, next)) = <<"LF">>
  BY <1>3, <1>2, StuffOne
<1>7. DotStuff(n \o CrLf, TRUE) = DotStuff(n, TRUE) \o DotStuff(CrLf, next)
  BY <1>1, <1>2, StuffCat DEF next
<1> QED BY <1>2, <1>4, <1>5, <1>6, <1>7

\* A message with its last line ended is empty or ends with CR LF, and no LF
\* has come in without its CR.
LEMMA WholeFacts ==
  ASSUME NEW m \in Seq(Bytes)
  PROVE  /\ Whole(m) \in Seq(Bytes)
         /\ Whole(m) = <<>> \/ \E n \in Seq(Bytes) : Whole(m) = n \o CrLf
         /\ HasBareLf(Whole(m)) => HasBareLf(m)
<1>1. "CR" \in Bytes /\ "LF" \in Bytes /\ CrLf \in Seq(Bytes)
  BY DEF Bytes, CrLf
<1>2. CASE EndsLine(m)
  <2>1. Whole(m) = m
    BY <1>2 DEF Whole
  <2>2. CASE m = <<>>
    BY <2>1, <2>2
  <2>3. CASE m # <<>>
    <3> DEFINE n == SubSeq(m, 1, Len(m) - 2)
    <3>1. Len(m) >= 2 /\ SubSeq(m, Len(m) - 1, Len(m)) = CrLf
      BY <1>2, <2>3 DEF EndsLine, CrLf
    <3>2. n \in Seq(Bytes) /\ m = n \o SubSeq(m, Len(m) - 1, Len(m))
      <4>1. Len(m) - 2 \in 0..Len(m) /\ (Len(m) - 2) + 1 = Len(m) - 1
        BY <3>1
      <4>2. n \in Seq(Bytes) /\ m = n \o SubSeq(m, (Len(m) - 2) + 1, Len(m))
        BY <4>1, Cut
      <4> QED BY <4>1, <4>2
    <3> QED BY <2>1, <3>1, <3>2
  <2> QED BY <2>1, <2>2, <2>3
<1>3. CASE ~EndsLine(m)
  <2>1. Whole(m) = m \o CrLf
    BY <1>3 DEF Whole, CrLf
  <2>2. m \o CrLf = Append(Append(m, "CR"), "LF") /\ m \o CrLf \in Seq(Bytes)
    BY <1>1 DEF CrLf
  <2> DEFINE c == Append(m, "CR")
  <2>3. c \in Seq(Bytes) /\ Len(c) # 0 /\ c[Len(c)] = "CR"
    BY <1>1
  <2>4. HasBareLf(c) => HasBareLf(m)
    <3>1. HasBareLf(c) <=> HasBareLf(m) \/ ("CR" = "LF" /\ (Len(m) = 0 \/ m[Len(m)] # "CR"))
      BY <1>1, BareLfAppend
    <3> QED BY ONLY <3>1
  <2> HIDE DEF c
  <2>5. HasBareLf(Append(c, "LF")) => HasBareLf(c)
    <3>1. HasBareLf(Append(c, "LF")) <=> HasBareLf(c) \/ ("LF" = "LF" /\ (Len(c) = 0 \/ c[Len(c)] # "CR"))
      BY <1>1, <2>3, BareLfAppend
    <3> QED BY ONLY <2>3, <3>1
  <2> QED BY <2>1, <2>2, <2>4, <2>5 DEF c
<1> QED BY <1>2, <1>3

Terminator == <<".", "CR", "LF">>

\* What a server makes of the whole: it sees the data end where the terminator
\* is and nowhere else, and un-stuffs what comes before it to the message.
ReadsBack(w, m) ==
  /\ \A server \in Servers : DataEnds(w, server) = {Len(w) - 2}
  /\ Kept(w, Len(w) - 2, "lenient") = Whole(m)
  /\ ~HasBareLf(m) => Kept(w, Len(w) - 2, "strict") = Whole(m)

\* It does so with what ends its last line and is terminated.
LEMMA TerminatedIsReadBack ==
  ASSUME NEW m \in Seq(Bytes), NEW d, IsStuffed(d, Whole(m)),
         d = <<>> \/ \E p \in Seq(Bytes) : d = p \o CrLf
  PROVE  ReadsBack(d \o Terminator, m)
<1> DEFINE w == d \o Terminator
<1>3. /\ Terminator \in Seq(Bytes) /\ Len(Terminator) = 3
      /\ Terminator[1] = "." /\ Terminator[2] = "CR" /\ Terminator[3] = "LF"
  BY DEF Bytes, Terminator
<1>4. d \in Seq(Bytes) /\ Guarded(d) /\ Len(d) \in Nat
  <2>1. d \in Seq(Bytes) /\ Guarded(d)
    BY ONLY IsStuffed(d, Whole(m)) DEF IsStuffed
  <2> QED BY <2>1, LenProperties
<1>6. /\ w \in Seq(Bytes) /\ Len(w) = Len(d) + 3 /\ DOMAIN w = 1..(Len(d) + 3)
      /\ \A k \in 1..Len(d) : w[k] = d[k]
      /\ w[Len(d) + 1] = "." /\ w[Len(d) + 2] = "CR" /\ w[Len(d) + 3] = "LF"
  <2>1. /\ w \in Seq(Bytes) /\ Len(w) = Len(d) + Len(Terminator)
        /\ \A k \in 1..Len(d) : w[k] = d[k]
        /\ \A k \in 1..Len(Terminator) : w[Len(d) + k] = Terminator[k]
    <3>1. d \in Seq(Bytes) /\ Terminator \in Seq(Bytes)
      BY <1>3, <1>4
    <3> QED BY ONLY <3>1, Joined
  <2> HIDE DEF w
  <2>2. DOMAIN w = 1..Len(w)
    BY <2>1
  <2>3. 1 \in 1..3 /\ 2 \in 1..3 /\ 3 \in 1..3
    OBVIOUS
  <2> QED BY ONLY <1>3, <2>1, <2>2, <2>3
<1>8. \A server : \A k \in 1..(Len(d) + 1) : LineStart(w, k, server) = LineStart(d, k, server)
  BY ONLY <1>3, <1>4, ServerLines
<1>11. \A server : Kept(w, Len(d) + 1, server) = Kept(d, Len(d) + 1, server)
  BY ONLY <1>3, <1>4, KeptPrefix
<1> HIDE DEF w
<1>7. Len(w) - 2 = Len(d) + 1
  BY ONLY <1>4, <1>6
<1>9. \A server : LineStart(d, Len(d) + 1, server)
  <2>1. CASE d = <<>>
    <3>1. Len(d) + 1 = 1
      BY <2>1
    <3> QED BY ONLY <3>1 DEF LineStart
  <2>2. CASE d # <<>>
    <3>1. PICK p \in Seq(Bytes) : d = p \o CrLf
      BY <2>2
    <3>2. Len(d) = Len(p) + 2 /\ d[Len(p) + 1] = "CR" /\ d[Len(p) + 2] = "LF" /\ Len(p) \in Nat
      BY <3>1 DEF CrLf
    <3>3. (Len(d) + 1) - 1 = Len(p) + 2 /\ (Len(d) + 1) - 2 = Len(p) + 1 /\ Len(d) + 1 > 2 /\ Len(d) + 1 > 1
      BY <3>2
    <3> QED BY ONLY <3>2, <3>3 DEF LineStart
  <2> QED BY <2>1, <2>2
<1>10. ASSUME NEW server \in Servers PROVE DataEnds(w, server) = {Len(w) - 2}
  <2>1. SubSeq(w, (Len(d) + 1) + 1, (Len(d) + 1) + 2) = CrLf
    <3>1. /\ (Len(d) + 1) + 1 = Len(d) + 2 /\ (Len(d) + 1) + 2 = Len(d) + 3
          /\ Len(d) + 2 \in 1..(Len(w) + 1) /\ Len(d) + 3 \in 1..Len(w)
      BY ONLY <1>4, <1>6
    <3> DEFINE s == SubSeq(w, Len(d) + 2, Len(d) + 3)
    <3>2. s \in Seq(Bytes) /\ Len(s) = 2 /\ s[1] = w[Len(d) + 2] /\ s[2] = w[Len(d) + 3]
      BY ONLY <1>4, <1>6
    <3> HIDE DEF s
    <3>3. s = CrLf
      BY ONLY <1>6, <3>2 DEF CrLf
    <3> QED BY ONLY <3>1, <3>3 DEF s
  <2>2. Len(d) + 1 \in DataEnds(w, server)
    <3>1. Len(d) + 1 \in DOMAIN w /\ Len(d) + 1 \in 1..(Len(d) + 1)
      BY ONLY <1>4, <1>6
    <3>2. LineStart(w, Len(d) + 1, server)
      BY <1>8, <1>9, <3>1
    <3> QED BY <1>6, <2>1, <3>1, <3>2 DEF DataEnds, CrLf
  <2>3. ASSUME NEW k \in DataEnds(w, server) PROVE k = Len(d) + 1
    <3>1. /\ k \in 1..(Len(d) + 3) /\ w[k] = "." /\ LineStart(w, k, server)
          /\ \/ SubSeq(w, k + 1, k + 2) = CrLf
             \/ SubSeq(w, k + 1, k + 1) = <<"LF">>
      BY <1>6, <2>3 DEF DataEnds, CrLf
    <3>2. LineStart(w, k, "lenient")
      <4>1. server = "strict" \/ server = "lenient"
        BY DEF Servers
      <4>2. k \in Nat
        BY <3>1
      <4> QED BY <1>6, <3>1, <4>1, <4>2, StrictLines
    <3>3. k \in 1..Len(d) \/ k = Len(d) + 1 \/ k = Len(d) + 2 \/ k = Len(d) + 3
      BY <1>4, <3>1
    <3>4. k \notin 1..Len(d)
      <4> SUFFICES ASSUME k \in 1..Len(d) PROVE FALSE
        OBVIOUS
      <4>1. k \in 1..(Len(d) + 1)
        BY <1>4
      <4>2. d[k] = "." /\ LineStart(d, k, "lenient")
        BY <1>6, <1>8, <3>1, <3>2, <4>1
      <4>3. k + 1 \in 1..Len(d) /\ d[k + 1] = "."
        BY <1>4, <4>2 DEF Guarded
      <4>4. w[k + 1] = "." /\ k + 1 \in 1..Len(w) /\ k + 2 \in 1..Len(w)
        BY ONLY <1>4, <1>6, <4>3, k \in 1..Len(d)
      <4>5. SubSeq(w, k + 1, k + 2)[1] = w[k + 1] /\ SubSeq(w, k + 1, k + 1)[1] = w[k + 1]
        BY ONLY <1>4, <1>6, <4>4, k \in 1..Len(d)
      <4>6. CrLf[1] = "CR" /\ <<"LF">>[1] = "LF"
        BY DEF CrLf
      <4> QED BY ONLY <3>1, <4>4, <4>5, <4>6
    <3> QED BY ONLY <1>6, <3>1, <3>3, <3>4
  <2> QED BY <1>7, <2>2, <2>3
<1>12. Kept(w, Len(w) - 2, "lenient") = Whole(m)
  BY <1>7, <1>11 DEF IsStuffed
<1>13. ASSUME ~HasBareLf(m) PROVE Kept(w, Len(w) - 2, "strict") = Whole(m)
  <2>1. ~HasBareLf(d)
    BY <1>13, WholeFacts DEF IsStuffed
  <2>2. Kept(d, Len(d) + 1, "strict") = Kept(d, Len(d) + 1, "lenient")
    BY <1>4, <2>1, StrictLines
  <2> QED BY <1>7, <1>11, <1>12, <2>2
<1> QED BY <1>10, <1>12, <1>13 DEF ReadsBack, w

\* That is what sendData() writes.
THEOREM EndedIsReadBack ==
  ASSUME NEW m \in Seq(Bytes)
  PROVE  ReadsBack(DotStuff(Whole(m), TRUE) \o Terminator, m)
<1> DEFINE d == DotStuff(Whole(m), TRUE)
<1>1. IsStuffed(d, Whole(m))
  BY WholeFacts, StuffedIsReadBack
<1>2. d = <<>> \/ \E p \in Seq(Bytes) : d = p \o CrLf
  <2>1. CASE Whole(m) = <<>>
    BY <2>1, StuffOne
  <2>2. CASE Whole(m) # <<>>
    <3>1. PICK n \in Seq(Bytes) : Whole(m) = n \o CrLf
      BY <2>2, WholeFacts
    <3>2. d = DotStuff(n, TRUE) \o CrLf /\ DotStuff(n, TRUE) \in Seq(Bytes)
      BY <3>1, StuffCrLf, StuffedFacts
    <3> QED BY <3>2
  <2> QED BY <2>1, <2>2
<1> QED BY <1>1, <1>2, TerminatedIsReadBack

(* The inductive invariant                                                  *)

Blocks == [bytes : Seq(Bytes), isLast : BOOLEAN]

Typed ==
  /\ message \in Messages /\ transfer \in {"data", "bdat"}
  /\ rest \in Seq(Bytes) /\ wire \in Seq(Bytes) /\ piece \in Seq(Bytes) /\ current \in Seq(Bytes)
  /\ atLineStart \in BOOLEAN /\ wrote \in BOOLEAN /\ done \in BOOLEAN
  /\ previous \in Bytes \cup {"none"} /\ last \in Bytes \cup {"none"}
  /\ blocks \in Seq(Blocks)

\* What the source has yielded, and what it has still to yield.
Sent == SubSeq(message, 1, Len(message) - Len(rest))
SourceInv == Len(rest) <= Len(message) /\ message = Sent \o rest

\* The last bytes of what was written, as sendData() keeps them.
LastOf(s) == IF Len(s) = 0 THEN "none" ELSE s[Len(s)]
PreviousOf(s) == IF Len(s) < 2 THEN "none" ELSE s[Len(s) - 1]

\* DATA: everything kept is told by the bytes sent, wherever they were cut.
DataInv ==
  transfer = "data" =>
    /\ (~done => /\ wire = DotStuff(Sent, TRUE)
                 /\ atLineStart = LineStartAfter(Sent, TRUE)
                 /\ wrote = (Len(Sent) # 0)
                 /\ last = LastOf(Sent) /\ previous = PreviousOf(Sent))
    /\ (done => wire = DotStuff(Whole(message), TRUE) \o Terminator)

\* BDAT: every byte is in a block, read ahead, or still to be read; what is
\* read ahead is a piece of its own, empty only before the first.
Pending == IF done THEN <<>> ELSE current
BlocksInv(bs, dn) ==
  \A k \in 1..Len(bs) :
    /\ Len(bs[k].bytes) <= ChunkSize
    /\ (bs[k].bytes = <<>> => message = <<>>)
    /\ (bs[k].isLast <=> (dn /\ k = Len(bs)))
BdatInv ==
  transfer = "bdat" =>
    /\ message = ((BytesOf(blocks) \o Pending) \o piece) \o rest
    /\ BlocksInv(blocks, done)
    /\ Len(current) <= ChunkSize
    /\ (~done /\ current = <<>> => blocks = <<>>)
    /\ (done => Len(blocks) # 0)

ContentInv == Typed /\ SourceInv /\ DataInv /\ BdatInv

(* Lemmas about one step                                                    *)

\* Concatenation is associative; nothing adds nothing.
LEMMA CatFacts ==
  ASSUME NEW S, NEW a \in Seq(S), NEW b \in Seq(S), NEW c \in Seq(S)
  PROVE  /\ (a \o b) \o c = a \o (b \o c)
         /\ a \o <<>> = a /\ <<>> \o a = a
OBVIOUS

\* The source, which has still r of m to yield, yields n bytes: they come after
\* those sent, and the others are still to come.
Advanced(S, m, r, n, chunk, others) ==
  /\ chunk \in Seq(S) /\ Len(chunk) = n /\ others \in Seq(S) /\ r = chunk \o others
  /\ Len(others) <= Len(m)
  /\ SubSeq(m, 1, Len(m) - Len(others)) = SubSeq(m, 1, Len(m) - Len(r)) \o chunk
  /\ m = SubSeq(m, 1, Len(m) - Len(others)) \o others

LEMMA Advance ==
  ASSUME NEW S, NEW m \in Seq(S), NEW r \in Seq(S), Len(r) <= Len(m),
         m = SubSeq(m, 1, Len(m) - Len(r)) \o r, NEW n \in 0..Len(r)
  PROVE  Advanced(S, m, r, n, SubSeq(r, 1, n), SubSeq(r, n + 1, Len(r)))
<1> DEFINE i == Len(m) - Len(r)
<1> DEFINE a == SubSeq(m, 1, i)
<1> DEFINE chunk == SubSeq(r, 1, n)
<1> DEFINE others == SubSeq(r, n + 1, Len(r))
<1>1. /\ Len(m) \in Nat /\ Len(r) \in Nat /\ i \in 0..Len(m) /\ n \in Nat /\ n <= Len(r)
      /\ i + n \in 0..Len(m) /\ Len(m) - (Len(r) - n) = i + n /\ i + Len(r) = Len(m)
  BY LenProperties
<1>2. /\ chunk \in Seq(S) /\ Len(chunk) = n /\ others \in Seq(S) /\ Len(others) = Len(r) - n
      /\ r = chunk \o others
  BY Cut
<1>3. a \in Seq(S) /\ Len(a) = i /\ \A k \in 1..i : a[k] = m[k]
  <2>1. a \in Seq(S) /\ Len(a) = i
    BY <1>1, Cut
  <2> QED BY <1>1, <2>1
<1>4. \A k \in 1..n : chunk[k] = r[k]
  BY ONLY <1>1, n \in 0..Len(r), r \in Seq(S)
<1>5. m = a \o r
  OBVIOUS
<1> DEFINE b == SubSeq(m, 1, i + n)
<1>6. b \in Seq(S) /\ Len(b) = i + n /\ \A k \in 1..(i + n) : b[k] = m[k]
  <2>1. b \in Seq(S) /\ Len(b) = i + n
    BY <1>1, Cut
  <2> QED BY <1>1, <2>1
<1> HIDE DEF i, a, chunk, others, b
<1>7. \A k \in 1..Len(r) : m[i + k] = r[k]
  BY ONLY <1>3, <1>5, r \in Seq(S), Joined
<1> DEFINE c == a \o chunk
<1>8. /\ c \in Seq(S) /\ Len(c) = i + n
      /\ \A k \in 1..i : c[k] = a[k]
      /\ \A k \in 1..n : c[i + k] = chunk[k]
  <2>1. a \in Seq(S) /\ chunk \in Seq(S)
    BY <1>2, <1>3
  <2> HIDE DEF c
  <2>2. /\ a \o chunk \in Seq(S) /\ Len(a \o chunk) = Len(a) + Len(chunk)
        /\ \A k \in 1..Len(a) : (a \o chunk)[k] = a[k]
        /\ \A k \in 1..Len(chunk) : (a \o chunk)[Len(a) + k] = chunk[k]
    BY ONLY <2>1, Joined
  <2> QED BY ONLY <1>2, <1>3, <2>2 DEF c
<1> HIDE DEF c
<1>9. \A k \in 1..(i + n) : c[k] = b[k]
  <2> SUFFICES ASSUME NEW k \in 1..(i + n) PROVE c[k] = b[k]
    OBVIOUS
  <2>1. CASE k \in 1..i
    BY ONLY <1>3, <1>6, <1>8, <2>1, k \in 1..(i + n)
  <2>2. CASE k \notin 1..i
    <3>1. k - i \in 1..n /\ k - i \in 1..Len(r) /\ i + (k - i) = k
      BY ONLY <1>1, <2>2, k \in 1..(i + n)
    <3>2. c[i + (k - i)] = chunk[k - i] /\ chunk[k - i] = r[k - i] /\ m[i + (k - i)] = r[k - i]
      BY ONLY <1>4, <1>7, <1>8, <3>1
    <3> QED BY ONLY <1>6, <3>1, <3>2, k \in 1..(i + n)
  <2> QED BY <2>1, <2>2
<1>10. b = c
  BY ONLY <1>6, <1>8, <1>9, SeqEqual
<1>11. m = b \o others
  <2>1. m = a \o (chunk \o others)
    BY <1>2, <1>5
  <2>2. (a \o chunk) \o others = a \o (chunk \o others)
    <3>1. a \in Seq(S) /\ chunk \in Seq(S) /\ others \in Seq(S)
      BY <1>2, <1>3
    <3> QED BY ONLY <3>1, CatFacts
  <2> QED BY <1>10, <2>1, <2>2 DEF c
<1>12. Len(m) - Len(others) = i + n /\ Len(others) <= Len(m)
  BY ONLY <1>1, <1>2
<1>13. SubSeq(m, 1, Len(m) - Len(others)) = b
  BY <1>12 DEF b
<1>14. b = a \o chunk
  BY <1>10 DEF c
<1> QED BY ONLY <1>2, <1>11, <1>12, <1>13, <1>14 DEF a, chunk, others, i, Advanced

\* The last two bytes, with a chunk of n bytes more.
LEMMA LastTwo ==
  ASSUME NEW s \in Seq(Bytes), NEW c \in Seq(Bytes)
  PROVE  /\ Len(c) = 0 => s \o c = s
         /\ Len(c) # 0 => /\ LastOf(s \o c) = c[Len(c)] /\ Len(s \o c) # 0
                          /\ PreviousOf(s \o c) = IF Len(c) >= 2 THEN c[Len(c) - 1] ELSE LastOf(s)
<1> DEFINE t == s \o c
<1>1. /\ Len(t) = Len(s) + Len(c) /\ Len(s) \in Nat /\ Len(c) \in Nat
      /\ \A k \in 1..Len(s) : t[k] = s[k]
      /\ \A k \in 1..Len(c) : t[Len(s) + k] = c[k]
  BY Joined
<1>2. Len(c) = 0 => t = s
  OBVIOUS
<1> HIDE DEF t
<1>3. ASSUME Len(c) # 0
      PROVE  /\ LastOf(t) = c[Len(c)] /\ Len(t) # 0
             /\ PreviousOf(t) = IF Len(c) >= 2 THEN c[Len(c) - 1] ELSE LastOf(s)
  <2>1. Len(c) \in 1..Len(c) /\ Len(t) # 0
    BY <1>1, <1>3
  <2>2. t[Len(t)] = c[Len(c)]
    BY <1>1, <2>1
  <2>3. LastOf(t) = c[Len(c)]
    BY <2>1, <2>2 DEF LastOf
  <2>4. CASE Len(c) >= 2
    <3>1. Len(c) - 1 \in 1..Len(c) /\ Len(s) + (Len(c) - 1) = Len(t) - 1 /\ ~(Len(t) < 2)
      BY <1>1, <2>4
    <3>2. t[Len(s) + (Len(c) - 1)] = c[Len(c) - 1]
      BY ONLY <1>1, <3>1
    <3>3. PreviousOf(t) = c[Len(c) - 1]
      BY ONLY <3>1, <3>2 DEF PreviousOf
    <3> QED BY <2>1, <2>3, <2>4, <3>3
  <2>5. CASE ~(Len(c) >= 2)
    <3>1. Len(c) = 1 /\ Len(t) - 1 = Len(s) /\ (Len(t) < 2 <=> Len(s) = 0)
      <4>1. Len(c) \in Nat /\ Len(s) \in Nat /\ Len(t) = Len(s) + Len(c)
        BY <1>1
      <4>2. \A i, j \in Nat : i # 0 /\ ~(i >= 2) => i = 1 /\ (j + i) - 1 = j /\ (j + i < 2 <=> j = 0)
        OBVIOUS
      <4> QED BY <4>1, <4>2, <1>3, <2>5
    <3>2. Len(s) # 0 => t[Len(s)] = s[Len(s)]
      BY <1>1
    <3>3. PreviousOf(t) = LastOf(s)
      BY ONLY <3>1, <3>2 DEF PreviousOf, LastOf
    <3> QED BY <2>1, <2>3, <2>5, <3>3
  <2> QED BY <2>4, <2>5
<1> QED BY <1>2, <1>3 DEF t

\* A message ends its last line as its last two bytes tell.
LEMMA EndsLineIs ==
  ASSUME NEW m \in Seq(Bytes)
  PROVE  EndsLine(m) <=> (Len(m) = 0 \/ <<PreviousOf(m), LastOf(m)>> = CrLf)
<1>1. Len(m) \in Nat /\ (m = <<>> <=> Len(m) = 0)
  OBVIOUS
<1>2. CASE Len(m) < 2
  <2>1. PreviousOf(m) = "none"
    BY <1>2 DEF PreviousOf
  <2>2. <<PreviousOf(m), LastOf(m)>> # CrLf
    BY <2>1 DEF CrLf
  <2> QED BY <1>1, <1>2, <2>2 DEF EndsLine
<1>3. CASE ~(Len(m) < 2)
  <2> DEFINE s == SubSeq(m, Len(m) - 1, Len(m))
  <2>1. s \in Seq(Bytes) /\ Len(s) = 2 /\ s[1] = m[Len(m) - 1] /\ s[2] = m[Len(m)]
    BY <1>1, <1>3
  <2>2. PreviousOf(m) = m[Len(m) - 1] /\ LastOf(m) = m[Len(m)] /\ Len(m) >= 2 /\ Len(m) # 0
    BY <1>1, <1>3 DEF PreviousOf, LastOf
  <2>3. EndsLine(m) <=> s = CrLf
    BY <1>1, <2>2 DEF EndsLine, CrLf
  <2> HIDE DEF s
  <2>4. s = <<PreviousOf(m), LastOf(m)>>
    BY ONLY <2>1, <2>2
  <2> QED BY <2>2, <2>3, <2>4
<1> QED BY <1>2, <1>3

\* One more block carries its bytes.
LEMMA BytesAppend ==
  ASSUME NEW bs \in Seq(Blocks), NEW b \in Blocks
  PROVE  /\ BytesOf(bs) \in Seq(Bytes)
         /\ BytesOf(Append(bs, b)) = BytesOf(bs) \o b.bytes
<1> DEFINE U == Seq(Bytes)
<1> DEFINE front == [k \in DOMAIN bs |-> bs[k].bytes]
<1> DEFINE c == Append(bs, b)
<1> DEFINE all == [k \in DOMAIN c |-> c[k].bytes]
<1>1. \A x \in Blocks : x.bytes \in U
  BY DEF Blocks
<1>2. /\ c \in Seq(Blocks) /\ Len(c) = Len(bs) + 1 /\ Len(bs) \in Nat
      /\ DOMAIN c = 1..(Len(bs) + 1) /\ DOMAIN bs = 1..Len(bs)
      /\ \A k \in 1..Len(bs) : c[k] = bs[k] /\ bs[k] \in Blocks
      /\ c[Len(bs) + 1] = b /\ Len(bs) + 1 \in 1..(Len(bs) + 1)
  OBVIOUS
<1>3. BytesOf(bs) = FlattenSeq(front) /\ BytesOf(c) = FlattenSeq(all)
  BY DEF BytesOf
<1> HIDE DEF U, c
<1>4. front \in Seq(U) /\ Len(front) = Len(bs) /\ \A k \in 1..Len(bs) : front[k] = bs[k].bytes
  BY ONLY <1>1, <1>2
<1>5. b.bytes \in U
  BY <1>1
<1>6. \A k \in 1..(Len(bs) + 1) : c[k].bytes \in U
  <2>1. \A k \in 1..(Len(bs) + 1) : k \in 1..Len(bs) \/ k = Len(bs) + 1
    BY <1>2
  <2> QED BY ONLY <1>1, <1>2, <1>5, <2>1
<1>7. all \in Seq(U) /\ Len(all) = Len(bs) + 1 /\ \A k \in 1..(Len(bs) + 1) : all[k] = c[k].bytes
  BY ONLY <1>2, <1>6
<1> HIDE DEF front, all
<1>8. all = Append(front, b.bytes)
  <2>1. /\ Append(front, b.bytes) \in Seq(U) /\ Len(Append(front, b.bytes)) = Len(bs) + 1
        /\ \A k \in 1..Len(bs) : Append(front, b.bytes)[k] = front[k]
        /\ Append(front, b.bytes)[Len(bs) + 1] = b.bytes
    BY ONLY <1>4, <1>5, Appended
  <2>2. \A k \in 1..(Len(bs) + 1) : k \in 1..Len(bs) \/ k = Len(bs) + 1
    BY <1>2
  <2>3. \A k \in 1..(Len(bs) + 1) : all[k] = Append(front, b.bytes)[k]
    BY ONLY <1>2, <1>4, <1>7, <2>1, <2>2
  <2> QED BY ONLY <1>7, <2>1, <2>3, SeqEqual
<1>9. FlattenSeq(Append(front, b.bytes)) = FlattenSeq(front) \o b.bytes
  BY <1>4, <1>5, FlattenAppend DEF U
<1>10. FlattenSeq(front) \in Seq(Bytes)
  BY <1>4, FlattenTyped DEF U
<1> QED BY <1>3, <1>8, <1>9, <1>10 DEF c

\* No block carries nothing.
LEMMA BytesOfNone == BytesOf(<<>>) = <<>>
<1>1. \A f : f = [k \in DOMAIN <<>> |-> <<>>[k].bytes] => f = <<>>
  OBVIOUS
<1> QED BY <1>1, FlattenEmpty DEF BytesOf

(* The steps                                                                *)

LEMMA InitInv == Init => ContentInv
<1> SUFFICES ASSUME Init PROVE ContentInv
  OBVIOUS
<1>1. /\ message \in Messages /\ rest = message /\ wire = <<>> /\ atLineStart = TRUE
      /\ previous = "none" /\ last = "none" /\ wrote = FALSE
      /\ piece = <<>> /\ current = <<>> /\ blocks = <<>> /\ done = FALSE
      /\ transfer \in {"data", "bdat"}
  BY DEF Init
<1>2. message \in Seq(Bytes)
  BY <1>1, ContentAssumption
<1>3. Len(message) \in Nat /\ Len(message) - Len(rest) = 0
  BY <1>1, <1>2
<1>4. Sent = <<>>
  <2>1. SubSeq(message, 1, 0) = <<>>
    BY <1>2
  <2> QED BY <1>3, <2>1 DEF Sent
<1>5. <<>> \in Seq(Bytes) /\ <<>> \in Seq(Blocks) /\ Len(<<>>) = 0
  OBVIOUS
<1>6. Typed
  BY ONLY <1>1, <1>2, <1>5, TRUE \in BOOLEAN, FALSE \in BOOLEAN DEF Typed
<1>7. SourceInv
  <2>1. Len(rest) <= Len(message)
    BY <1>1, <1>3
  <2>2. message = <<>> \o message
    BY <1>2
  <2> QED BY <1>1, <1>4, <2>1, <2>2 DEF SourceInv
<1>8. DataInv
  <2>1. DotStuff(<<>>, TRUE) = <<>> /\ LineStartAfter(<<>>, TRUE) = TRUE
    <3>1. <<>> \in Seq(Bytes) /\ TRUE \in BOOLEAN
      OBVIOUS
    <3> QED BY <3>1, StuffOne, LineStarts
  <2>2. LastOf(<<>>) = "none" /\ PreviousOf(<<>>) = "none" /\ ~(Len(<<>>) # 0)
    BY <1>5 DEF LastOf, PreviousOf
  <2> QED BY <1>1, <1>4, <2>1, <2>2 DEF DataInv
<1>9. BdatInv
  <2>1. ((<<>> \o <<>>) \o <<>>) \o message = message
    BY <1>2
  <2>2. Len(<<>>) <= ChunkSize
    BY <1>5, ContentAssumption
  <2>3. BlocksInv(<<>>, FALSE)
    BY <1>5 DEF BlocksInv
  <2> QED BY <1>1, <1>5, <2>1, <2>2, <2>3, BytesOfNone DEF BdatInv, Pending
<1> QED BY <1>6, <1>7, <1>8, <1>9 DEF ContentInv

\* What the invariant says of the source, and of a message of Bytes.
LEMMA SourceFacts ==
  ASSUME ContentInv
  PROVE  /\ message \in Seq(Bytes) /\ rest \in Seq(Bytes) /\ Sent \in Seq(Bytes)
         /\ Len(rest) <= Len(message) /\ message = Sent \o rest
         /\ rest = <<>> => Sent = message
<1>1. message \in Seq(Bytes) /\ rest \in Seq(Bytes)
  BY ContentAssumption DEF ContentInv, Typed
<1>2. Len(rest) <= Len(message) /\ message = Sent \o rest
  BY DEF ContentInv, SourceInv
<1>3. Sent \in Seq(Bytes)
  <2>1. Len(message) - Len(rest) \in 0..Len(message)
    BY <1>1, <1>2
  <2> QED BY <1>1, <2>1, Cut DEF Sent
<1>4. rest = <<>> => Sent = message
  <2>1. Sent \o <<>> = Sent
    BY <1>3
  <2> QED BY <1>2, <2>1
<1> QED BY <1>1, <1>2, <1>3, <1>4

\* What the source has yielded after a chunk of n bytes.
LEMMA YieldedFacts ==
  ASSUME ContentInv, NEW n \in 0..Len(rest), Yielded(n)
  PROVE  /\ Yield(n) \in Seq(Bytes) /\ Len(Yield(n)) = n
         /\ rest = Yield(n) \o rest' /\ rest' \in Seq(Bytes)
         /\ Sent' = Sent \o Yield(n)
         /\ SourceInv'
<1>1. /\ message \in Seq(Bytes) /\ rest \in Seq(Bytes)
      /\ Len(rest) <= Len(message) /\ message = SubSeq(message, 1, Len(message) - Len(rest)) \o rest
  BY SourceFacts DEF Sent
<1>2. message' = message /\ rest' = SubSeq(rest, n + 1, Len(rest))
  BY DEF Yielded
<1>3. Advanced(Bytes, message, rest, n, SubSeq(rest, 1, n), SubSeq(rest, n + 1, Len(rest)))
  BY ONLY <1>1, n \in 0..Len(rest), Advance
<1> QED BY ONLY <1>2, <1>3 DEF Yield, Sent, SourceInv, Advanced

LEMMA WriteChunkInv == ContentInv /\ WriteChunk => ContentInv'
<1> SUFFICES ASSUME ContentInv, WriteChunk PROVE ContentInv'
  OBVIOUS
<1>1. PICK n \in 0..Len(rest) :
        /\ Yielded(n)
        /\ wire' = wire \o DotStuff(Yield(n), atLineStart)
        /\ atLineStart' = LineStartAfter(Yield(n), atLineStart)
        /\ IF n = 0 THEN UNCHANGED <<previous, last, wrote>>
           ELSE /\ previous' = IF n >= 2 THEN Yield(n)[n - 1] ELSE last
                /\ last' = Yield(n)[n]
                /\ wrote' = TRUE
  BY DEF WriteChunk
<1>2. /\ transfer = "data" /\ done = FALSE /\ done' = FALSE /\ transfer' = transfer /\ message' = message
      /\ piece' = piece /\ current' = current /\ blocks' = blocks
  BY <1>1 DEF WriteChunk, bdat, Yielded, ContentInv, Typed
<1> DEFINE chunk == Yield(n)
<1>3. /\ chunk \in Seq(Bytes) /\ Len(chunk) = n /\ rest' \in Seq(Bytes)
      /\ Sent' = Sent \o chunk /\ SourceInv'
  BY ONLY ContentInv, n \in 0..Len(rest), <1>1, YieldedFacts
<1>4. Sent \in Seq(Bytes) /\ TRUE \in BOOLEAN
  BY SourceFacts
<1>5. /\ wire = DotStuff(Sent, TRUE) /\ atLineStart = LineStartAfter(Sent, TRUE)
      /\ wrote = (Len(Sent) # 0) /\ last = LastOf(Sent) /\ previous = PreviousOf(Sent)
  BY <1>2 DEF ContentInv, DataInv
<1>6. /\ wire' = wire \o DotStuff(chunk, atLineStart) /\ atLineStart' = LineStartAfter(chunk, atLineStart)
      /\ n = 0 => previous' = previous /\ last' = last /\ wrote' = wrote
      /\ n # 0 => /\ previous' = IF n >= 2 THEN chunk[n - 1] ELSE last
                  /\ last' = chunk[n] /\ wrote' = TRUE
  BY ONLY <1>1
<1> HIDE DEF chunk
<1>7. wire' = DotStuff(Sent \o chunk, TRUE)
  <2>1. DotStuff(Sent \o chunk, TRUE) = DotStuff(Sent, TRUE) \o DotStuff(chunk, LineStartAfter(Sent, TRUE))
    BY ONLY <1>3, <1>4, StuffCat
  <2> QED BY ONLY <1>5, <1>6, <2>1
<1>8. atLineStart' = LineStartAfter(Sent \o chunk, TRUE)
  <2>1. LineStartAfter(Sent \o chunk, TRUE) = LineStartAfter(chunk, LineStartAfter(Sent, TRUE))
    BY ONLY <1>3, <1>4, LineStarts
  <2> QED BY ONLY <1>5, <1>6, <2>1
<1>9. /\ wrote' = (Len(Sent \o chunk) # 0) /\ last' = LastOf(Sent \o chunk)
      /\ previous' = PreviousOf(Sent \o chunk)
  <2>1. /\ Len(chunk) = 0 => Sent \o chunk = Sent
        /\ Len(chunk) # 0 =>
             /\ LastOf(Sent \o chunk) = chunk[Len(chunk)] /\ Len(Sent \o chunk) # 0
             /\ PreviousOf(Sent \o chunk) = IF Len(chunk) >= 2 THEN chunk[Len(chunk) - 1] ELSE LastOf(Sent)
    BY ONLY <1>3, <1>4, LastTwo
  <2>2. CASE n = 0
    BY ONLY <1>3, <1>5, <1>6, <2>1, <2>2
  <2>3. CASE n # 0
    <3>1. /\ LastOf(Sent \o chunk) = chunk[n] /\ Len(Sent \o chunk) # 0
          /\ PreviousOf(Sent \o chunk) = IF n >= 2 THEN chunk[n - 1] ELSE LastOf(Sent)
      BY <1>3, <2>1, <2>3
    <3>2. wrote' = TRUE /\ last' = chunk[n] /\ previous' = IF n >= 2 THEN chunk[n - 1] ELSE last
      BY <1>6, <2>3
    <3> QED BY ONLY <1>5, <3>1, <3>2
  <2> QED BY <2>2, <2>3
<1>10. Sent \o chunk \in Seq(Bytes)
  BY <1>3, <1>4
<1>11. DataInv'
  BY ONLY <1>2, <1>3, <1>7, <1>8, <1>9 DEF DataInv
<1>12. Typed'
  <2>1. /\ message \in Messages /\ transfer \in {"data", "bdat"} /\ piece \in Seq(Bytes)
        /\ current \in Seq(Bytes) /\ blocks \in Seq(Blocks)
    BY DEF ContentInv, Typed
  <2>2. wire' \in Seq(Bytes) /\ atLineStart' \in BOOLEAN
    BY ONLY <1>4, <1>7, <1>8, <1>10, StuffedFacts, LineStarts
  <2>3. \A s \in Seq(Bytes) : LastOf(s) \in Bytes \cup {"none"} /\ PreviousOf(s) \in Bytes \cup {"none"}
    <3> SUFFICES ASSUME NEW s \in Seq(Bytes)
                 PROVE  LastOf(s) \in Bytes \cup {"none"} /\ PreviousOf(s) \in Bytes \cup {"none"}
      OBVIOUS
    <3>1. (Len(s) # 0 => s[Len(s)] \in Bytes) /\ (~(Len(s) < 2) => s[Len(s) - 1] \in Bytes)
      BY LenProperties, ElementOfSeq
    <3> QED BY <3>1 DEF LastOf, PreviousOf
  <2>4. wrote' \in BOOLEAN /\ previous' \in Bytes \cup {"none"} /\ last' \in Bytes \cup {"none"}
    BY ONLY <1>9, <1>10, <2>3
  <2> QED BY ONLY <1>2, <1>3, <2>1, <2>2, <2>4, FALSE \in BOOLEAN DEF Typed
<1>13. BdatInv'
  BY ONLY <1>2 DEF BdatInv
<1> QED BY <1>3, <1>11, <1>12, <1>13 DEF ContentInv

LEMMA EndDataInv == ContentInv /\ EndData => ContentInv'
<1> SUFFICES ASSUME ContentInv, EndData PROVE ContentInv'
  OBVIOUS
<1> DEFINE crlf == IF wrote /\ <<previous, last>> # CrLf THEN CrLf ELSE <<>>
<1>1. /\ transfer = "data" /\ done = FALSE /\ done' = TRUE /\ rest = <<>> /\ rest' = rest
      /\ transfer' = transfer /\ message' = message
      /\ atLineStart' = atLineStart /\ previous' = previous /\ last' = last /\ wrote' = wrote
      /\ piece' = piece /\ current' = current /\ blocks' = blocks
  BY DEF EndData, bdat, ContentInv, Typed
<1>2. wire' = (wire \o crlf) \o Terminator
  BY DEF EndData, CrLf, Terminator
<1>3. message \in Seq(Bytes) /\ Sent = message
  BY <1>1, SourceFacts
<1>4. wire = DotStuff(message, TRUE) /\ wrote = (Len(message) # 0)
      /\ last = LastOf(message) /\ previous = PreviousOf(message)
  BY <1>1, <1>3 DEF ContentInv, DataInv
<1>5. wire \o crlf = DotStuff(Whole(message), TRUE)
  <2>1. EndsLine(message) <=> (Len(message) = 0 \/ <<PreviousOf(message), LastOf(message)>> = CrLf)
    BY <1>3, EndsLineIs
  <2>2. CASE EndsLine(message)
    <3>1. crlf = <<>>
      BY ONLY <1>4, <2>1, <2>2
    <3>2. DotStuff(message, TRUE) \in Seq(Bytes)
      BY <1>3, StuffedFacts
    <3>3. wire \o <<>> = wire
      BY <1>4, <3>2
    <3> QED BY ONLY <1>4, <2>2, <3>1, <3>3 DEF Whole
  <2>3. CASE ~EndsLine(message)
    <3>1. crlf = CrLf
      BY ONLY <1>4, <2>1, <2>3
    <3>2. Whole(message) = message \o CrLf
      BY <2>3 DEF Whole, CrLf
    <3>3. DotStuff(message \o CrLf, TRUE) = DotStuff(message, TRUE) \o CrLf
      BY <1>3, StuffCrLf
    <3> QED BY ONLY <1>4, <3>1, <3>2, <3>3
  <2> QED BY <2>2, <2>3
<1> HIDE DEF crlf
<1>6. wire' = DotStuff(Whole(message), TRUE) \o Terminator
  BY ONLY <1>2, <1>5
<1>7. wire' \in Seq(Bytes)
  <2>1. DotStuff(Whole(message), TRUE) \in Seq(Bytes)
    BY <1>3, WholeFacts, StuffedFacts
  <2>2. Terminator \in Seq(Bytes)
    BY DEF Bytes, Terminator
  <2> QED BY ONLY <1>6, <2>1, <2>2, Joined
<1>8. Typed'
  BY ONLY <1>1, <1>7, ContentInv, TRUE \in BOOLEAN DEF Typed, ContentInv
<1>9. SourceInv'
  BY ONLY <1>1, ContentInv DEF ContentInv, SourceInv, Sent
<1>10. DataInv'
  BY ONLY <1>1, <1>6, (done') = TRUE DEF DataInv
<1>11. BdatInv'
  BY ONLY <1>1 DEF BdatInv
<1> QED BY <1>8, <1>9, <1>10, <1>11 DEF ContentInv

\* What the invariant says of the blocks.
LEMMA BdatFacts ==
  ASSUME ContentInv, transfer = "bdat"
  PROVE  /\ message = ((BytesOf(blocks) \o Pending) \o piece) \o rest
         /\ BlocksInv(blocks, done) /\ Len(current) <= ChunkSize
         /\ (~done /\ current = <<>> => blocks = <<>>)
         /\ blocks \in Seq(Blocks) /\ BytesOf(blocks) \in Seq(Bytes) /\ Pending \in Seq(Bytes)
         /\ current \in Seq(Bytes) /\ piece \in Seq(Bytes)
<1>1. blocks \in Seq(Blocks) /\ current \in Seq(Bytes) /\ piece \in Seq(Bytes)
  BY DEF ContentInv, Typed
<1>2. BytesOf(blocks) \in Seq(Bytes)
  <2>1. [bytes |-> <<>>, isLast |-> FALSE] \in Blocks
    BY DEF Blocks
  <2> QED BY <1>1, <2>1, BytesAppend
<1>3. Pending \in Seq(Bytes)
  <2>1. <<>> \in Seq(Bytes)
    OBVIOUS
  <2> QED BY <1>1, <2>1 DEF Pending
<1> QED BY <1>1, <1>2, <1>3 DEF ContentInv, BdatInv

\* One more block: it is the last one only when all is done.
LEMMA BlocksAppend ==
  ASSUME NEW bs \in Seq(Blocks), BlocksInv(bs, FALSE),
         NEW bytes \in Seq(Bytes), Len(bytes) <= ChunkSize, bytes = <<>> => message = <<>>,
         NEW isLast \in BOOLEAN
  PROVE  /\ Append(bs, Block(bytes, isLast)) \in Seq(Blocks)
         /\ BlocksInv(Append(bs, Block(bytes, isLast)), isLast)
         /\ BytesOf(Append(bs, Block(bytes, isLast))) = BytesOf(bs) \o bytes
         /\ Len(Append(bs, Block(bytes, isLast))) # 0
<1> DEFINE b == Block(bytes, isLast)
<1> DEFINE c == Append(bs, b)
<1>1. b \in Blocks /\ b.bytes = bytes /\ b.isLast = isLast
  BY DEF Block, Blocks
<1> HIDE DEF b
<1>2. /\ c \in Seq(Blocks) /\ Len(c) = Len(bs) + 1 /\ Len(bs) \in Nat
      /\ \A k \in 1..Len(bs) : c[k] = bs[k]
      /\ c[Len(bs) + 1] = b
  BY <1>1, Appended
<1>3. BytesOf(c) = BytesOf(bs) \o bytes
  BY <1>1, BytesAppend
<1> HIDE DEF c
<1>4. BlocksInv(c, isLast)
  <2>1. ASSUME NEW k \in 1..(Len(bs) + 1)
        PROVE  /\ Len(c[k].bytes) <= ChunkSize
               /\ (c[k].bytes = <<>> => message = <<>>)
               /\ (c[k].isLast <=> (isLast /\ k = Len(bs) + 1))
    <3>1. CASE k = Len(bs) + 1
      BY <1>1, <1>2, <3>1
    <3>2. CASE k # Len(bs) + 1
      <4>1. k \in 1..Len(bs)
        BY <1>2, <3>2
      <4>2. /\ Len(bs[k].bytes) <= ChunkSize /\ (bs[k].bytes = <<>> => message = <<>>)
            /\ ~bs[k].isLast
        BY <4>1 DEF BlocksInv
      <4> QED BY <1>2, <3>2, <4>1, <4>2
    <3> QED BY <3>1, <3>2
  <2> QED BY ONLY <1>2, <2>1 DEF BlocksInv
<1> QED BY <1>2, <1>3, <1>4 DEF b, c

LEMMA NextChunkInv == ContentInv /\ NextChunk => ContentInv'
<1> SUFFICES ASSUME ContentInv, NextChunk PROVE ContentInv'
  OBVIOUS
<1>1. PICK n \in 0..Len(rest) : piece' = Yield(n) /\ Yielded(n)
  BY DEF NextChunk
<1>2. /\ transfer = "bdat" /\ done = FALSE /\ piece = <<>> /\ done' = done
      /\ transfer' = transfer /\ message' = message /\ current' = current /\ blocks' = blocks
      /\ wire' = wire /\ atLineStart' = atLineStart /\ previous' = previous /\ last' = last /\ wrote' = wrote
  BY <1>1 DEF NextChunk, data, Yielded, ContentInv, Typed
<1>3. /\ piece' \in Seq(Bytes) /\ rest = piece' \o rest' /\ rest' \in Seq(Bytes) /\ SourceInv'
  BY ONLY ContentInv, <1>1, n \in 0..Len(rest), YieldedFacts
<1>4. /\ message = ((BytesOf(blocks) \o Pending) \o piece) \o rest
      /\ BytesOf(blocks) \in Seq(Bytes) /\ Pending \in Seq(Bytes)
      /\ BlocksInv(blocks, done) /\ Len(current) <= ChunkSize
      /\ (~done /\ current = <<>> => blocks = <<>>)
  BY <1>2, BdatFacts
<1>5. message = ((BytesOf(blocks) \o Pending) \o piece') \o rest'
  <2> DEFINE front == BytesOf(blocks) \o Pending
  <2>1. front \in Seq(Bytes)
    BY <1>4
  <2>2. message = (front \o <<>>) \o (piece' \o rest')
    BY ONLY <1>2, <1>3, <1>4
  <2> HIDE DEF front
  <2>3. front \o <<>> = front /\ (front \o piece') \o rest' = front \o (piece' \o rest')
    BY ONLY <1>3, <2>1, CatFacts
  <2> QED BY ONLY <2>2, <2>3 DEF front
<1>6. Typed'
  BY ONLY <1>2, <1>3, ContentInv DEF Typed, ContentInv
<1>7. DataInv'
  BY ONLY <1>2 DEF DataInv
<1>8. BdatInv'
  <2>1. BlocksInv(blocks, FALSE)
    BY <1>2, <1>4
  <2>2. BlocksInv(blocks, FALSE)'
    BY ONLY <1>2, <2>1 DEF BlocksInv
  <2>3. Pending' = Pending
    BY <1>2 DEF Pending
  <2> QED BY ONLY <1>2, <1>4, <1>5, <2>2, <2>3 DEF BdatInv, BlocksInv
<1> QED BY <1>3, <1>6, <1>7, <1>8 DEF ContentInv

LEMMA NextPieceInv == ContentInv /\ NextPiece => ContentInv'
<1> SUFFICES ASSUME ContentInv, NextPiece PROVE ContentInv'
  OBVIOUS
<1> DEFINE size == IF Len(piece) < ChunkSize THEN Len(piece) ELSE ChunkSize
<1>1. /\ transfer = "bdat" /\ done = FALSE /\ piece # <<>> /\ done' = done
      /\ transfer' = transfer /\ message' = message /\ rest' = rest
      /\ wire' = wire /\ atLineStart' = atLineStart /\ previous' = previous /\ last' = last /\ wrote' = wrote
  BY DEF NextPiece, data, ContentInv, Typed
<1>2. /\ current' = SubSeq(piece, 1, size) /\ piece' = SubSeq(piece, size + 1, Len(piece))
      /\ blocks' = IF current = <<>> THEN blocks ELSE Append(blocks, Block(current, FALSE))
  BY DEF NextPiece
<1>3. /\ message = ((BytesOf(blocks) \o Pending) \o piece) \o rest
      /\ BytesOf(blocks) \in Seq(Bytes) /\ Pending \in Seq(Bytes) /\ piece \in Seq(Bytes)
      /\ blocks \in Seq(Blocks) /\ current \in Seq(Bytes)
      /\ BlocksInv(blocks, done) /\ Len(current) <= ChunkSize
      /\ (~done /\ current = <<>> => blocks = <<>>)
  BY <1>1, BdatFacts
<1>4. Pending = current /\ Pending' = current'
  BY <1>1 DEF Pending
<1>5. size \in 0..Len(piece) /\ size <= ChunkSize /\ size # 0
  <2>1. Len(piece) \in Nat /\ Len(piece) # 0 /\ ChunkSize \in Nat /\ ChunkSize # 0
    BY <1>1, <1>3, ContentAssumption
  <2> QED BY ONLY <2>1
<1> HIDE DEF size
<1>6. /\ current' \in Seq(Bytes) /\ Len(current') = size /\ piece' \in Seq(Bytes)
      /\ piece = current' \o piece'
  BY ONLY <1>2, <1>3, <1>5, Cut
<1>7. /\ blocks' \in Seq(Blocks) /\ BlocksInv(blocks', FALSE)
      /\ BytesOf(blocks') = BytesOf(blocks) \o current
  <2>0. BlocksInv(blocks, FALSE)
    BY <1>1, <1>3
  <2>1. CASE current = <<>>
    <3>1. BytesOf(blocks) \o <<>> = BytesOf(blocks)
      BY <1>3
    <3> QED BY ONLY <1>2, <1>3, <2>0, <2>1, <3>1
  <2>2. CASE current # <<>>
    <3> DEFINE longer == Append(blocks, Block(current, FALSE))
    <3>1. /\ longer \in Seq(Blocks) /\ BlocksInv(longer, FALSE)
          /\ BytesOf(longer) = BytesOf(blocks) \o current
      BY ONLY <1>3, <2>0, <2>2, FALSE \in BOOLEAN, BlocksAppend
    <3>2. blocks' = longer
      BY <1>2, <2>2
    <3> HIDE DEF longer
    <3> QED BY ONLY <3>1, <3>2
  <2> QED BY <2>1, <2>2
<1>8. message = ((BytesOf(blocks') \o current') \o piece') \o rest'
  <2> DEFINE front == BytesOf(blocks) \o current
  <2>1. front \in Seq(Bytes)
    BY <1>3
  <2>2. message = (front \o (current' \o piece')) \o rest
    BY ONLY <1>3, <1>4, <1>6
  <2> HIDE DEF front
  <2>3. (front \o current') \o piece' = front \o (current' \o piece')
    BY ONLY <1>6, <2>1, CatFacts
  <2>4. BytesOf(blocks') = front
    BY <1>7 DEF front
  <2> QED BY ONLY <1>1, <2>2, <2>3, <2>4
<1>9. Typed'
  BY ONLY <1>1, <1>6, <1>7, ContentInv DEF Typed, ContentInv
<1>10. SourceInv'
  BY ONLY <1>1, ContentInv DEF ContentInv, SourceInv, Sent
<1>11. DataInv'
  BY ONLY <1>1 DEF DataInv
<1>12. BdatInv'
  <2>1. current' # <<>>
    BY <1>5, <1>6
  <2>2. BlocksInv(blocks, FALSE)'
    BY ONLY <1>1, <1>7 DEF BlocksInv
  <2>3. Len(current') <= ChunkSize
    BY <1>5, <1>6
  <2> QED BY ONLY <1>1, <1>4, <1>8, <2>1, <2>2, <2>3 DEF BdatInv, BlocksInv
<1> QED BY <1>9, <1>10, <1>11, <1>12 DEF ContentInv

LEMMA EndBdatInv == ContentInv /\ EndBdat => ContentInv'
<1> SUFFICES ASSUME ContentInv, EndBdat PROVE ContentInv'
  OBVIOUS
<1>1. /\ transfer = "bdat" /\ done = FALSE /\ piece = <<>> /\ rest = <<>> /\ done' = TRUE
      /\ transfer' = transfer /\ message' = message /\ rest' = rest /\ piece' = piece /\ current' = current
      /\ wire' = wire /\ atLineStart' = atLineStart /\ previous' = previous /\ last' = last /\ wrote' = wrote
  BY DEF EndBdat, data, ContentInv, Typed
<1>2. blocks' = Append(blocks, Block(current, TRUE))
  BY DEF EndBdat
<1>3. /\ message = ((BytesOf(blocks) \o Pending) \o piece) \o rest
      /\ BytesOf(blocks) \in Seq(Bytes) /\ Pending \in Seq(Bytes) /\ piece \in Seq(Bytes)
      /\ blocks \in Seq(Blocks) /\ current \in Seq(Bytes)
      /\ BlocksInv(blocks, done) /\ Len(current) <= ChunkSize
      /\ (~done /\ current = <<>> => blocks = <<>>)
  BY <1>1, BdatFacts
<1>4. Pending = current /\ Pending' = <<>>
  BY <1>1 DEF Pending
<1>5. message = BytesOf(blocks) \o current /\ BytesOf(blocks) \o current \in Seq(Bytes)
  <2> DEFINE front == BytesOf(blocks) \o current
  <2>1. front \in Seq(Bytes)
    BY <1>3
  <2>2. message = (front \o <<>>) \o <<>>
    BY ONLY <1>1, <1>3, <1>4
  <2> HIDE DEF front
  <2>3. front \o <<>> = front
    BY <2>1
  <2> QED BY ONLY <2>1, <2>2, <2>3 DEF front
<1>6. current = <<>> => message = <<>>
  <2>1. <<>> \o <<>> = <<>>
    OBVIOUS
  <2> QED BY ONLY <1>1, <1>3, <1>5, <2>1, BytesOfNone
<1>7. /\ blocks' \in Seq(Blocks) /\ BlocksInv(blocks', TRUE)
      /\ BytesOf(blocks') = message /\ Len(blocks') # 0
  <2> DEFINE longer == Append(blocks, Block(current, TRUE))
  <2>0. BlocksInv(blocks, FALSE)
    BY <1>1, <1>3
  <2>1. /\ longer \in Seq(Blocks) /\ BlocksInv(longer, TRUE)
        /\ BytesOf(longer) = BytesOf(blocks) \o current /\ Len(longer) # 0
    BY ONLY <1>3, <1>6, <2>0, TRUE \in BOOLEAN, BlocksAppend
  <2>2. blocks' = longer
    BY <1>2
  <2> HIDE DEF longer
  <2> QED BY ONLY <1>5, <2>1, <2>2
<1>8. message = ((message \o <<>>) \o <<>>) \o <<>>
  <2>1. message \in Seq(Bytes)
    BY SourceFacts
  <2> QED BY ONLY <2>1
<1>9. Typed'
  BY ONLY <1>1, <1>7, ContentInv, TRUE \in BOOLEAN DEF Typed, ContentInv
<1>10. SourceInv'
  BY ONLY <1>1, ContentInv DEF ContentInv, SourceInv, Sent
<1>11. DataInv'
  BY ONLY <1>1 DEF DataInv
<1>12. BdatInv'
  <2>1. BlocksInv(blocks, TRUE)'
    BY ONLY <1>1, <1>7 DEF BlocksInv
  <2> QED BY ONLY <1>1, <1>3, <1>4, <1>7, <1>8, <2>1 DEF BdatInv, BlocksInv
<1> QED BY <1>9, <1>10, <1>11, <1>12 DEF ContentInv

(* The theorems                                                             *)

\* At every point, for every message and every way to cut it: what is sent and
\* what is to come make up the message, what is on the wire is told by what is
\* sent, and the blocks hold every byte once.
THEOREM ContentInvariant == Spec => []ContentInv
<1>1. Init => ContentInv
  BY InitInv
<1>2. ContentInv /\ [Next]_vars => ContentInv'
  <2> SUFFICES ASSUME ContentInv, [Next]_vars PROVE ContentInv'
    OBVIOUS
  <2>1. CASE WriteChunk
    BY <2>1, WriteChunkInv
  <2>2. CASE EndData
    BY <2>2, EndDataInv
  <2>3. CASE NextChunk
    BY <2>3, NextChunkInv
  <2>4. CASE NextPiece
    BY <2>4, NextPieceInv
  <2>5. CASE EndBdat
    BY <2>5, EndBdatInv
  <2>6. CASE UNCHANGED vars
    <3>1. /\ message' = message /\ transfer' = transfer /\ rest' = rest /\ done' = done
          /\ wire' = wire /\ atLineStart' = atLineStart
          /\ previous' = previous /\ last' = last /\ wrote' = wrote
          /\ piece' = piece /\ current' = current /\ blocks' = blocks
      BY <2>6 DEF vars, data, bdat
    <3>2. Typed'
      BY ONLY <3>1, ContentInv DEF ContentInv, Typed
    <3>3. SourceInv'
      BY ONLY <3>1, ContentInv DEF ContentInv, SourceInv, Sent
    <3>4. DataInv'
      BY ONLY <3>1, ContentInv DEF ContentInv, DataInv, Sent
    <3>5. BdatInv'
      BY ONLY <3>1, ContentInv DEF ContentInv, BdatInv, Pending, BlocksInv
    <3> QED BY <3>2, <3>3, <3>4, <3>5 DEF ContentInv
  <2> QED BY <2>1, <2>2, <2>3, <2>4, <2>5, <2>6 DEF Next, Terminated
<1> QED BY <1>1, <1>2, PTL DEF Spec

\* Every variable has its type.
THEOREM TypeCorrect == Spec => []TypeOK
<1>1. ContentInv => TypeOK
  <2> SUFFICES ASSUME Typed PROVE TypeOK
    BY DEF ContentInv
  <2>1. message \in Messages /\ transfer \in {"data", "bdat"}
    BY DEF Typed
  <2>2. {rest, wire, piece, current} \subseteq Seq(Bytes)
    BY DEF Typed
  <2>3. {atLineStart, wrote, done} \subseteq BOOLEAN
    BY Zenon DEF Typed
  <2>4. {previous, last} \subseteq Bytes \cup {"none"}
    BY DEF Typed
  <2>5. blocks \in Seq([bytes : Seq(Bytes), isLast : BOOLEAN])
    BY Zenon DEF Typed, Blocks
  <2> QED BY <2>1, <2>2, <2>3, <2>4, <2>5 DEF TypeOK
<1> QED BY <1>1, ContentInvariant, PTL

\* Whatever the message and its chunks, both kinds of server see the data end
\* at the terminator alone and un-stuff it to the message.
THEOREM TransparentToServers == Spec => []DataIsTransparent
<1>1. ContentInv => DataIsTransparent
  <2> SUFFICES ASSUME ContentInv, done, transfer = "data"
               PROVE  /\ \A server \in Servers : DataEnds(wire, server) = {Len(wire) - 2}
                      /\ \A server \in IF HasBareLf(message) THEN {"lenient"} ELSE Servers :
                           Kept(wire, Len(wire) - 2, server) = Whole(message)
    BY DEF DataIsTransparent
  <2>1. ReadsBack(wire, message)
    <3>1. wire = DotStuff(Whole(message), TRUE) \o Terminator
      BY DEF ContentInv, DataInv
    <3>2. message \in Seq(Bytes)
      BY SourceFacts
    <3>3. ReadsBack(DotStuff(Whole(message), TRUE) \o Terminator, message)
      BY ONLY <3>2, EndedIsReadBack
    <3> QED BY ONLY <3>1, <3>3
  <2>2. \A server \in Servers : server = "strict" \/ server = "lenient"
    BY DEF Servers
  <2> QED BY ONLY <2>1, <2>2 DEF ReadsBack
<1> QED BY <1>1, ContentInvariant, PTL

\* What has been written depends on the bytes, not on where chunks were cut.
THEOREM CutsDoNotShow == Spec => []ChunkingInvisible
<1>1. ContentInv => ChunkingInvisible
  <2> SUFFICES ASSUME ContentInv PROVE ChunkingInvisible
    OBVIOUS
  <2>1. ~done /\ transfer = "data" => wire = DotStuff(Sent, TRUE) /\ atLineStart = LineStartAfter(Sent, TRUE)
    BY DEF ContentInv, DataInv
  <2> QED BY ONLY <2>1 DEF ChunkingInvisible, Sent
<1> QED BY <1>1, ContentInvariant, PTL

\* BDAT carries every byte once, in blocks of at most ChunkSize.
THEOREM BlocksAreTheMessage == Spec => []BdatIsComplete
<1>1. ContentInv => BdatIsComplete
  <2> SUFFICES ASSUME ContentInv, transfer = "bdat" PROVE BdatIsComplete
    BY DEF BdatIsComplete
  <2>1. /\ message = ((BytesOf(blocks) \o Pending) \o piece) \o rest
        /\ BlocksInv(blocks, done) /\ blocks \in Seq(Blocks)
    BY BdatFacts
  <2>2. DOMAIN blocks = 1..Len(blocks) /\ (Len(blocks) # 0 => blocks # <<>>)
    BY <2>1
  <2>3. done => Len(blocks) # 0
    BY DEF ContentInv, BdatInv
  <2> QED BY ONLY <2>1, <2>2, <2>3 DEF BdatIsComplete, Pending, BlocksInv
<1> QED BY <1>1, ContentInvariant, PTL
=============================================================================
