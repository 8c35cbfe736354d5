-------------------------- MODULE EngineWireProofs --------------------------
(***************************************************************************)
(* Theorems about EngineWire, for any packets, buffers and sizes.          *)
(*                                                                         *)
(* Induction over numbers is by the least counterexample (Least), for      *)
(* which the library has a theorem without operator parameters.            *)
(***************************************************************************)
EXTENDS EngineWire, SequenceTheorems, WellFoundedInduction, TLAPS

-----------------------------------------------------------------------------
(* Numbers and sequences *)

LEMMA Least ==
    ASSUME NEW T, T \subseteq Nat, T # {}
    PROVE  \E x \in T : \A y \in T : x <= y
<1>1. PICK x \in T : \A y \in T : ~(<<y, x>> \in OpToRel(<, Nat))
    BY WFMin, NatLessThanWellFounded
<1>2. \A y \in T : ~(y < x)
    BY <1>1 DEF OpToRel
<1> QED BY <1>2

\* The first number of a set and the number before it.
LEMMA Induct ==
    ASSUME NEW m \in Nat, NEW n \in Nat, NEW T, T \subseteq m..n, T # {}
    PROVE  \E x \in T : x = m \/ (x - 1 \in m..n /\ x > m /\ x - 1 \notin T)
<1>1. T \subseteq Nat
    OBVIOUS
<1>2. PICK x \in T : \A y \in T : x <= y
    BY <1>1, Least
<1>3. x \in m..n
    BY <1>2
<1>4. CASE x = m
    BY <1>2, <1>4
<1>5. CASE x # m
  <2>1. x - 1 \in m..n /\ x > m
      BY <1>3, <1>5
  <2>2. ~(x <= x - 1)
      BY <1>3
  <2> QED BY <1>2, <2>1, <2>2
<1> QED BY <1>4, <1>5

\* A first element put before a sequence, and taken off again.
LEMMA Put ==
    ASSUME NEW S, NEW x \in S, NEW s \in Seq(S)
    PROVE  /\ <<x>> \o s \in Seq(S)
           /\ Len(<<x>> \o s) = Len(s) + 1
           /\ Head(<<x>> \o s) = x
           /\ Tail(<<x>> \o s) = s
           /\ (<<x>> \o s)[1] = x
           /\ \A i \in 1..Len(s) : (<<x>> \o s)[i + 1] = s[i]
<1> DEFINE t == <<x>> \o s
<1>1. <<x>> \in Seq(S) /\ Len(<<x>>) = 1
    OBVIOUS
<1>2. t \in Seq(S) /\ Len(t) = Len(s) + 1 /\ t[1] = x
    BY <1>1
<1>3. \A i \in 1..Len(s) : t[i + 1] = s[i]
    BY <1>1
<1> HIDE DEF t
<1>4. t # <<>> /\ Head(t) = x
    BY <1>2
<1>5. Tail(t) \in Seq(S) /\ Len(Tail(t)) = Len(s)
    BY <1>2, <1>4
<1>6. \A i \in 1..Len(s) : Tail(t)[i] = s[i]
    BY <1>2, <1>3, <1>4
<1>7. Tail(t) = s
    BY <1>5, <1>6, SeqEqual
<1> QED BY <1>2, <1>3, <1>4, <1>7 DEF t

\* Two sequences, one after the other.
LEMMA Concat ==
    ASSUME NEW S, NEW a \in Seq(S), NEW b \in Seq(S)
    PROVE  /\ a \o b \in Seq(S)
           /\ Len(a) \in Nat /\ Len(b) \in Nat /\ Len(a \o b) = Len(a) + Len(b)
           /\ \A i \in 1..Len(a) : (a \o b)[i] = a[i]
           /\ \A i \in 1..Len(b) : (a \o b)[Len(a) + i] = b[i]
<1>1. /\ a \o b \in Seq(S) /\ Len(a) \in Nat /\ Len(b) \in Nat
      /\ Len(a \o b) = Len(a) + Len(b)
    OBVIOUS
<1>2. \A i \in 1..(Len(a) + Len(b)) :
        (a \o b)[i] = IF i <= Len(a) THEN a[i] ELSE b[i - Len(a)]
    OBVIOUS
<1> DEFINE c == a \o b
<1> HIDE DEF c
<1>3. \A i \in 1..Len(a) : c[i] = a[i]
    BY <1>1, <1>2 DEF c
<1>4. ASSUME NEW i \in 1..Len(b) PROVE c[Len(a) + i] = b[i]
  <2>1. Len(a) + i \in 1..(Len(a) + Len(b)) /\ ~(Len(a) + i <= Len(a))
        /\ Len(a) + i - Len(a) = i
      BY <1>1
  <2> QED BY <1>2, <2>1 DEF c
<1> QED BY <1>1, <1>3, <1>4 DEF c

\* Changing the last element is appending another one.
LEMMA ExceptLast ==
    ASSUME NEW S, NEW L \in Seq(S), NEW x \in S, NEW y \in S
    PROVE  LET b == Append(L, x) IN [b EXCEPT ![Len(b)] = y] = Append(L, y)
<1> DEFINE b == Append(L, x)
           c == [b EXCEPT ![Len(b)] = y]
           d == Append(L, y)
<1>1. /\ b \in Seq(S) /\ Len(b) = Len(L) + 1 /\ Len(L) \in Nat
      /\ \A i \in 1..Len(L) : b[i] = L[i]
    OBVIOUS
<1>2. /\ d \in Seq(S) /\ Len(d) = Len(L) + 1
      /\ d[Len(L) + 1] = y
      /\ \A i \in 1..Len(L) : d[i] = L[i]
    OBVIOUS
<1>3. c \in Seq(S) /\ Len(c) = Len(b)
      /\ \A i \in 1..Len(b) : c[i] = IF i = Len(b) THEN y ELSE b[i]
  <2> HIDE DEF b
  <2> QED BY <1>1
<1>4. \A i \in 1..Len(c) : c[i] = d[i]
  <2> HIDE DEF b, c, d
  <2>1. \A i \in 1..Len(b) : i = Len(b) \/ i \in 1..Len(L)
      BY <1>1
  <2> QED BY <1>1, <1>2, <1>3, <2>1
<1>5. c = d
  <2> HIDE DEF b, c, d
  <2> QED BY <1>1, <1>2, <1>3, <1>4, SeqEqual
<1> QED BY <1>5

\* A longer part of a sequence.
LEMMA SubSeqMore ==
    ASSUME NEW S, NEW s \in Seq(S), NEW m \in 1..Len(s), NEW n \in m..Len(s)
    PROVE  /\ SubSeq(s, m, n - 1) \in Seq(S)
           /\ SubSeq(s, m, n) = Append(SubSeq(s, m, n - 1), s[n])
<1> DEFINE x == SubSeq(s, m, n)
           y == SubSeq(s, m, n - 1)
           z == Append(y, s[n])
<1>0. m \in Nat /\ n \in Nat /\ Len(s) \in Nat /\ 1 <= m /\ m <= n /\ n <= Len(s) /\ s[n] \in S
    OBVIOUS
<1>1. y \in Seq(S) /\ Len(y) = n - m /\ \A i \in 1..(n - m) : y[i] = s[m + i - 1]
  <2>1. \A i \in m..(n - 1) : s[i] \in S
      BY <1>0
  <2>2. y = [i \in 1..(n - m) |-> s[m + i - 1]]
      BY <1>0, n - 1 - m + 1 = n - m
  <2>3. n - m \in Nat /\ \A i \in 1..(n - m) : s[m + i - 1] \in S
      BY <1>0
  <2> HIDE DEF y
  <2> QED BY <2>2, <2>3
<1>2. x \in Seq(S) /\ Len(x) = n - m + 1 /\ \A i \in 1..(n - m + 1) : x[i] = s[m + i - 1]
  <2>2. x = [i \in 1..(n - m + 1) |-> s[m + i - 1]]
      BY <1>0
  <2>3. n - m + 1 \in Nat /\ \A i \in 1..(n - m + 1) : s[m + i - 1] \in S
      BY <1>0
  <2> HIDE DEF x
  <2> QED BY <2>2, <2>3
<1> HIDE DEF x, y
<1>3. z \in Seq(S) /\ Len(z) = n - m + 1
      /\ z[n - m + 1] = s[n] /\ \A i \in 1..(n - m) : z[i] = y[i]
    BY <1>0, <1>1
<1> HIDE DEF z
<1>4. \A i \in 1..Len(x) : x[i] = z[i]
  <2>1. \A i \in 1..(n - m + 1) : i \in 1..(n - m) \/ i = n - m + 1
      BY <1>0
  <2>2. m + (n - m + 1) - 1 = n
      BY <1>0
  <2> QED BY <1>0, <1>1, <1>2, <1>3, <2>1, <2>2
<1>5. x = z
    BY <1>2, <1>3, <1>4, SeqEqual
<1> QED BY <1>1, <1>5 DEF x, y, z

-----------------------------------------------------------------------------
(* Cut: the pieces of a payload *)

\* The recursive function of Cut, as far as m bytes.
CutStep(bs, f, n) ==
    IF n = 0 THEN << <<>> >>
    ELSE LET before == f[n - 1] IN
         IF bs[n] = SEPARATOR THEN Append(before, <<>>)
         ELSE [before EXCEPT ![Len(before)] = Append(@, bs[n])]
IsCut(bs, m, f) == f = [n \in 0..m |-> CutStep(bs, f, n)]

LEMMA CutAt ==
    ASSUME NEW bs, NEW m \in Nat, NEW f, IsCut(bs, m, f), NEW n \in 0..m
    PROVE  f[n] = CutStep(bs, f, n)
<1> DEFINE g == [i \in 0..m |-> CutStep(bs, f, i)]
<1>1. f = g
    BY DEF IsCut
<1>2. g[n] = CutStep(bs, f, n)
    OBVIOUS
<1> QED BY <1>1, <1>2

LEMMA CutExists ==
    ASSUME NEW bs, NEW m \in Nat
    PROVE  \E f : IsCut(bs, m, f)
<1> DEFINE T == {n \in 0..m : ~\E f : IsCut(bs, n, f)}
<1> SUFFICES ASSUME T # {} PROVE FALSE
    OBVIOUS
<1>1. PICK n \in T : n = 0 \/ (n - 1 \in 0..m /\ n > 0 /\ n - 1 \notin T)
  <2>1. T \subseteq 0..m /\ 0 \in Nat
      OBVIOUS
  <2> HIDE DEF T
  <2> QED BY <2>1, Induct
<1>2. CASE n = 0
  <2> DEFINE g == [i \in 0..0 |-> CutStep(bs, <<>>, i)]
  <2>1. \A i \in 0..0 : CutStep(bs, g, i) = CutStep(bs, <<>>, i)
      BY DEF CutStep
  <2>2. IsCut(bs, 0, g)
      BY <2>1 DEF IsCut
  <2> QED BY <1>1, <1>2, <2>2
<1>3. CASE n # 0
  <2>0. n \in Nat /\ n - 1 \in Nat /\ n - 1 \notin T /\ n - 1 \in 0..m
      BY <1>1, <1>3
  <2>1. PICK f : IsCut(bs, n - 1, f)
      BY <2>0
  <2> DEFINE g == [i \in 0..n |-> IF i = n THEN CutStep(bs, f, n) ELSE f[i]]
  <2>2. \A i \in 0..(n - 1) : g[i] = f[i] /\ f[i] = CutStep(bs, f, i)
      BY <2>0, <2>1, CutAt
  <2>3. \A i \in 0..n : CutStep(bs, g, i) = CutStep(bs, f, i)
    <3>1. \A i \in 0..n : i = 0 \/ i - 1 \in 0..(n - 1)
        BY <2>0
    <3> HIDE DEF g
    <3>2. \A i \in 0..n : i = 0 \/ g[i - 1] = f[i - 1]
        BY <2>2, <3>1
    <3> QED BY <3>2 DEF CutStep
  <2>4. \A i \in 0..n : g[i] = CutStep(bs, f, i)
    <3>1. g[n] = CutStep(bs, f, n)
        BY <2>0
    <3>2. \A i \in 0..n : i = n \/ i \in 0..(n - 1)
        BY <2>0
    <3> HIDE DEF g
    <3> QED BY <2>2, <3>1, <3>2
  <2>5. g = [i \in 0..n |-> g[i]]
      OBVIOUS
  <2>6. IsCut(bs, n, g)
    <3> HIDE DEF g
    <3>1. [i \in 0..n |-> g[i]] = [i \in 0..n |-> CutStep(bs, g, i)]
        BY <2>3, <2>4
    <3> QED BY <2>5, <3>1 DEF IsCut
  <2> QED BY <1>1, <2>6
<1> QED BY <1>2, <1>3

LEMMA CutIs ==
    ASSUME NEW bs, Len(bs) \in Nat
    PROVE  \E f : IsCut(bs, Len(bs), f) /\ Cut(bs) = f[Len(bs)]
<1> DEFINE f == CHOOSE Pieces : IsCut(bs, Len(bs), Pieces)
<1>1. \E Pieces : IsCut(bs, Len(bs), Pieces)
    BY CutExists
<1>2. IsCut(bs, Len(bs), f)
    BY <1>1
<1>3. Cut(bs) = f[Len(bs)]
    BY DEF Cut, IsCut, CutStep
<1> QED BY <1>2, <1>3

\* There is always a piece, and all of them are made of bytes.
LEMMA CutType ==
    ASSUME NEW bs \in Seq(Byte)
    PROVE  Cut(bs) \in Seq(Seq(Byte)) /\ Len(Cut(bs)) > 0
<1> DEFINE Good(c) == c \in Seq(Seq(Byte)) /\ Len(c) > 0
<1>0. Len(bs) \in Nat
    OBVIOUS
<1>1. PICK f : IsCut(bs, Len(bs), f) /\ Cut(bs) = f[Len(bs)]
    BY <1>0, CutIs
<1> DEFINE T == {n \in 0..Len(bs) : ~Good(f[n])}
<1>2. ASSUME T # {} PROVE FALSE
  <2>1. PICK n \in T : n = 0 \/ (n - 1 \in 0..Len(bs) /\ n > 0 /\ n - 1 \notin T)
    <3>1. T \subseteq 0..Len(bs) /\ 0 \in Nat
        OBVIOUS
    <3> HIDE DEF T
    <3> QED BY <1>0, <1>2, <3>1, Induct
  <2>2. f[n] = CutStep(bs, f, n) /\ n \in 0..Len(bs) /\ ~Good(f[n])
      BY <1>0, <1>1, <2>1, CutAt
  <2>3. CASE n = 0
    <3>1. f[n] = << <<>> >>
        BY <2>2, <2>3 DEF CutStep
    <3>2. Good(<< <<>> >>)
        OBVIOUS
    <3> QED BY <2>2, <3>1, <3>2
  <2>4. CASE n # 0
    <3> DEFINE b == f[n - 1]
    <3>1. Good(b) /\ bs[n] \in Byte
        BY <1>0, <2>1, <2>2, <2>4
    <3>2. f[n] = IF bs[n] = SEPARATOR THEN Append(b, <<>>)
                 ELSE [b EXCEPT ![Len(b)] = Append(b[Len(b)], bs[n])]
        BY <2>2, <2>4 DEF CutStep
    <3> HIDE DEF b
    <3>3. Good(Append(b, <<>>))
        BY <3>1
    <3>4. Append(b[Len(b)], bs[n]) \in Seq(Byte)
      <4>1. b[Len(b)] \in Seq(Byte)
          BY <3>1
      <4> QED BY <3>1, <4>1
    <3> DEFINE l == Append(b[Len(b)], bs[n])
    <3> HIDE DEF l
    <3>5. Good([b EXCEPT ![Len(b)] = l])
        BY <3>1, <3>4 DEF l
    <3> HIDE DEF Good
    <3> QED BY <2>2, <3>2, <3>3, <3>5 DEF l
  <2> QED BY <2>3, <2>4
<1>3. Len(bs) \in 0..Len(bs)
    BY <1>0
<1> QED BY <1>1, <1>2, <1>3

\* The cut of a payload begins like the cut of what it begins with.
LEMMA CutPrefix ==
    ASSUME NEW a \in Seq(Byte), NEW c \in Seq(Byte), Len(a) <= Len(c),
           \A i \in 1..Len(a) : c[i] = a[i],
           NEW f, IsCut(a, Len(a), f), NEW g, IsCut(c, Len(c), g)
    PROVE  g[Len(a)] = f[Len(a)]
<1>0. Len(a) \in Nat /\ Len(c) \in Nat
    OBVIOUS
<1> DEFINE T == {n \in 0..Len(a) : g[n] # f[n]}
<1>1. ASSUME T # {} PROVE FALSE
  <2>1. PICK n \in T : n = 0 \/ (n - 1 \in 0..Len(a) /\ n > 0 /\ n - 1 \notin T)
    <3>1. T \subseteq 0..Len(a) /\ 0 \in Nat
        OBVIOUS
    <3> HIDE DEF T
    <3> QED BY <1>0, <1>1, <3>1, Induct
  <2>2. n \in 0..Len(a) /\ n \in 0..Len(c) /\ g[n] # f[n]
      BY <1>0, <2>1
  <2>3. f[n] = CutStep(a, f, n)
      BY <1>0, <2>2, CutAt
  <2>4. g[n] = CutStep(c, g, n)
      BY <1>0, <2>2, CutAt
  <2>5. n = 0 \/ (c[n] = a[n] /\ g[n - 1] = f[n - 1])
      BY <1>0, <2>1, <2>2
  <2> QED BY <2>2, <2>3, <2>4, <2>5 DEF CutStep
<1>2. Len(a) \in 0..Len(a)
    BY <1>0
<1> QED BY <1>1, <1>2

\* Bytes without a separator all go into the last piece.
LEMMA CutRun ==
    ASSUME NEW bs \in Seq(Byte), NEW f, IsCut(bs, Len(bs), f),
           NEW m \in 0..Len(bs), NEW L \in Seq(Seq(Byte)), f[m] = Append(L, <<>>),
           \A i \in (m + 1)..Len(bs) : bs[i] # SEPARATOR
    PROVE  f[Len(bs)] = Append(L, SubSeq(bs, m + 1, Len(bs)))
<1>0. Len(bs) \in Nat /\ m \in Nat
    OBVIOUS
<1> DEFINE T == {n \in m..Len(bs) : f[n] # Append(L, SubSeq(bs, m + 1, n))}
<1>1. ASSUME T # {} PROVE FALSE
  <2>1. PICK n \in T : n = m \/ (n - 1 \in m..Len(bs) /\ n > m /\ n - 1 \notin T)
    <3>1. T \subseteq m..Len(bs)
        OBVIOUS
    <3> HIDE DEF T
    <3> QED BY <1>0, <1>1, <3>1, Induct
  <2>2. n \in m..Len(bs) /\ f[n] # Append(L, SubSeq(bs, m + 1, n))
      BY <2>1
  <2>3. CASE n = m
    <3>1. SubSeq(bs, m + 1, m) = <<>>
        BY <1>0
    <3> QED BY <2>2, <2>3, <3>1
  <2>4. CASE n # m
    <3> DEFINE x == SubSeq(bs, m + 1, n - 1)
               b == Append(L, x)
    <3>1. n \in (m + 1)..Len(bs) /\ m + 1 \in 1..Len(bs) /\ n \in 0..Len(bs) /\ n # 0
        BY <1>0, <2>2, <2>4
    <3>2. x \in Seq(Byte) /\ SubSeq(bs, m + 1, n) = Append(x, bs[n])
        BY <3>1, SubSeqMore
    <3>3. f[n - 1] = b
        BY <2>1, <2>4
    <3>4. bs[n] # SEPARATOR /\ bs[n] \in Byte
        BY <3>1
    <3> HIDE DEF x
    <3>5. f[n] = CutStep(bs, f, n)
        BY <1>0, <3>1, CutAt
    <3> HIDE DEF b
    <3>6. f[n] = [b EXCEPT ![Len(b)] = Append(b[Len(b)], bs[n])]
        BY <3>1, <3>3, <3>4, <3>5 DEF CutStep
    <3>7. b[Len(b)] = x
        BY <3>2 DEF b
    <3>8. Append(x, bs[n]) \in Seq(Byte)
        BY <3>2, <3>4
    <3> DEFINE y == Append(x, bs[n])
    <3>9. y \in Seq(Byte)
        BY <3>8
    <3> HIDE DEF y
    <3>10. [b EXCEPT ![Len(b)] = y] = Append(L, y)
        BY <3>2, <3>9, ExceptLast DEF b
    <3> QED BY <2>2, <3>2, <3>6, <3>7, <3>10 DEF y
  <2> QED BY <2>3, <2>4
<1>2. Len(bs) \in m..Len(bs)
    BY <1>0
<1> QED BY <1>1, <1>2

\* The bytes the codec writes.
LEMMA RawByte ==
    /\ SEPARATOR \in Byte /\ Raw("b") \in Byte /\ Raw("byte 4") \in Byte
    /\ \A t \in PacketType : TypeByte(t) \in Byte
<1>1. \A c \in Class : Raw(c) \in Byte
  <2>1. 0 \in Nat
      OBVIOUS
  <2> QED BY <2>1 DEF Raw, Byte
<1>2. "SEP" \in Class /\ "b" \in Class /\ "byte 4" \in Class
    BY DEF Class
<1>3. \A t \in PacketType : t # "MessageBinary" => Digit[t] \in Class
    BY DEF Class, PacketType
<1> QED BY <1>1, <1>2, <1>3 DEF SEPARATOR, TypeByte

LEMMA OneSeparator == <<SEPARATOR>> \in Seq(Byte) /\ Len(<<SEPARATOR>>) = 1
<1>1. SEPARATOR \in Byte
    BY RawByte
<1> QED BY <1>1

NoSeparator(bs) == \A i \in 1..Len(bs) : bs[i] # SEPARATOR

\* A payload without a separator is one piece.
LEMMA CutWhole ==
    ASSUME NEW p \in Seq(Byte), NoSeparator(p)
    PROVE  Cut(p) = <<p>>
<1>0. Len(p) \in Nat /\ 0 \in 0..Len(p)
    OBVIOUS
<1>1. PICK f : IsCut(p, Len(p), f) /\ Cut(p) = f[Len(p)]
    BY <1>0, CutIs
<1>2. f[0] = CutStep(p, f, 0)
    BY <1>0, <1>1, CutAt
<1>3. f[0] = Append(<<>>, <<>>)
    BY <1>2 DEF CutStep
<1>4. \A i \in (0 + 1)..Len(p) : p[i] # SEPARATOR
    BY DEF NoSeparator
<1>5. <<>> \in Seq(Seq(Byte))
    OBVIOUS
<1>6. f[Len(p)] = Append(<<>>, SubSeq(p, 0 + 1, Len(p)))
    BY <1>0, <1>1, <1>3, <1>4, <1>5, CutRun
<1>7. SubSeq(p, 1, Len(p)) = p
    OBVIOUS
<1> QED BY <1>1, <1>6, <1>7

\* A separator and bytes without one add a piece.
LEMMA CutJoin ==
    ASSUME NEW a \in Seq(Byte), NEW p \in Seq(Byte), NoSeparator(p)
    PROVE  Cut(a \o <<SEPARATOR>> \o p) = Append(Cut(a), p)
<1> DEFINE c == a \o <<SEPARATOR>> \o p
           m == Len(a) + 1
<1>0. SEPARATOR \in Byte
    BY RawByte
<1>1. /\ c \in Seq(Byte) /\ Len(c) = m + Len(p) /\ Len(a) \in Nat /\ Len(p) \in Nat
      /\ c[m] = SEPARATOR
      /\ \A i \in 1..Len(a) : c[i] = a[i]
      /\ \A i \in 1..Len(p) : c[m + i] = p[i]
  <2> DEFINE s == <<SEPARATOR>>
  <2>1. s \in Seq(Byte) /\ Len(s) = 1 /\ s[1] = SEPARATOR
      BY <1>0
  <2> HIDE DEF s
  <2> DEFINE h == a \o s
  <2>2. /\ h \in Seq(Byte) /\ Len(h) = Len(a) + Len(s) /\ Len(a) \in Nat
        /\ \A i \in 1..Len(a) : h[i] = a[i]
        /\ \A i \in 1..Len(s) : h[Len(a) + i] = s[i]
    <3>1. s \in Seq(Byte)
        BY <2>1
    <3> QED BY ONLY <3>1, a \in Seq(Byte), Concat
  <2> HIDE DEF h
  <2>3. Len(h) = m /\ h[m] = SEPARATOR
      BY <2>1, <2>2
  <2> DEFINE d == h \o p
  <2>4. /\ d \in Seq(Byte) /\ Len(d) = Len(h) + Len(p) /\ Len(p) \in Nat
        /\ \A i \in 1..Len(h) : d[i] = h[i]
        /\ \A i \in 1..Len(p) : d[Len(h) + i] = p[i]
    <3>1. h \in Seq(Byte)
        BY <2>2
    <3> QED BY ONLY <3>1, p \in Seq(Byte), Concat
  <2> HIDE DEF d
  <2>5. d[m] = SEPARATOR /\ \A i \in 1..Len(a) : d[i] = a[i]
    <3>1. m \in 1..Len(h) /\ \A i \in 1..Len(a) : i \in 1..Len(h)
        BY <2>2, <2>3
    <3> QED BY <2>2, <2>3, <2>4, <3>1
  <2>6. c = d
      BY DEF h, s, d
  <2> QED BY <2>2, <2>3, <2>4, <2>5, <2>6
<1> HIDE DEF m
<1>2. PICK f : IsCut(a, Len(a), f) /\ Cut(a) = f[Len(a)]
    BY <1>1, CutIs
<1> HIDE DEF c
<1>3. PICK g : IsCut(c, Len(c), g) /\ Cut(c) = g[Len(c)]
    BY <1>1, CutIs
<1>4. g[Len(a)] = f[Len(a)]
  <2>1. Len(a) <= Len(c) /\ c \in Seq(Byte) /\ \A i \in 1..Len(a) : c[i] = a[i]
      BY <1>1 DEF m
  <2> QED BY ONLY <1>2, <1>3, <2>1, a \in Seq(Byte), CutPrefix
<1>5. m \in 0..Len(c) /\ Len(c) \in Nat /\ m # 0 /\ m - 1 = Len(a)
    BY <1>1 DEF m
<1>6. g[m] = CutStep(c, g, m)
    BY <1>3, <1>5, CutAt
<1>7. g[m] = Append(Cut(a), <<>>)
    BY <1>1, <1>2, <1>4, <1>5, <1>6 DEF CutStep
<1>8. \A i \in (m + 1)..Len(c) : c[i] # SEPARATOR
  <2>1. \A i \in (m + 1)..Len(c) : i - m \in 1..Len(p) /\ m + (i - m) = i
      BY <1>1 DEF m
  <2> QED BY <1>1, <2>1 DEF NoSeparator
<1>9. Cut(a) \in Seq(Seq(Byte))
    BY CutType
<1>10. g[Len(c)] = Append(Cut(a), SubSeq(c, m + 1, Len(c)))
    BY <1>1, <1>3, <1>5, <1>7, <1>8, <1>9, CutRun
<1>11. SubSeq(c, m + 1, Len(c)) = p
  <2> DEFINE x == SubSeq(c, m + 1, Len(c))
  <2>1. x = [i \in 1..Len(p) |-> c[m + i]]
    <3>1. x = [i \in 1..(Len(c) - (m + 1) + 1) |-> c[(m + 1) + i - 1]]
        BY <1>1 DEF m
    <3>2. Len(c) - (m + 1) + 1 = Len(p) /\ \A i \in 1..Len(p) : (m + 1) + i - 1 = m + i
        BY <1>1 DEF m
    <3> HIDE DEF x
    <3> QED BY <3>1, <3>2
  <2>2. p = [i \in 1..Len(p) |-> p[i]]
      OBVIOUS
  <2> HIDE DEF x
  <2>3. [i \in 1..Len(p) |-> c[m + i]] = [i \in 1..Len(p) |-> p[i]]
      BY <1>1
  <2>4. x = p
      BY <2>1, <2>2, <2>3
  <2> QED BY <2>4 DEF x
<1> QED BY <1>3, <1>10, <1>11 DEF c

-----------------------------------------------------------------------------
(* PollingPayload: the pieces joined by separators *)

\* The recursive function of PollingPayload, as far as m pieces.
JoinStep(q, f, n) ==
    IF n = 0 THEN <<>>
    ELSE IF n = 1 THEN Piece(q[1])
    ELSE f[n - 1] \o <<SEPARATOR>> \o Piece(q[n])
IsJoin(q, m, f) == f = [n \in 0..m |-> JoinStep(q, f, n)]

LEMMA JoinAt ==
    ASSUME NEW q, NEW m \in Nat, NEW f, IsJoin(q, m, f), NEW n \in 0..m
    PROVE  f[n] = JoinStep(q, f, n)
<1> DEFINE g == [i \in 0..m |-> JoinStep(q, f, i)]
<1>1. f = g
    BY DEF IsJoin
<1>2. g[n] = JoinStep(q, f, n)
    OBVIOUS
<1> QED BY <1>1, <1>2

LEMMA JoinExists ==
    ASSUME NEW q, NEW m \in Nat
    PROVE  \E f : IsJoin(q, m, f)
<1> DEFINE T == {n \in 0..m : ~\E f : IsJoin(q, n, f)}
<1> SUFFICES ASSUME T # {} PROVE FALSE
    OBVIOUS
<1>1. PICK n \in T : n = 0 \/ (n - 1 \in 0..m /\ n > 0 /\ n - 1 \notin T)
  <2>1. T \subseteq 0..m /\ 0 \in Nat
      OBVIOUS
  <2> HIDE DEF T
  <2> QED BY <2>1, Induct
<1>2. CASE n = 0
  <2> DEFINE g == [i \in 0..0 |-> JoinStep(q, <<>>, i)]
  <2>1. \A i \in 0..0 : JoinStep(q, g, i) = JoinStep(q, <<>>, i)
      BY DEF JoinStep
  <2>2. IsJoin(q, 0, g)
      BY <2>1 DEF IsJoin
  <2> QED BY <1>1, <1>2, <2>2
<1>3. CASE n # 0
  <2>0. n \in Nat /\ n - 1 \in Nat /\ n - 1 \notin T /\ n - 1 \in 0..m
      BY <1>1, <1>3
  <2>1. PICK f : IsJoin(q, n - 1, f)
      BY <2>0
  <2> DEFINE g == [i \in 0..n |-> IF i = n THEN JoinStep(q, f, n) ELSE f[i]]
  <2>2. \A i \in 0..(n - 1) : g[i] = f[i] /\ f[i] = JoinStep(q, f, i)
      BY <2>0, <2>1, JoinAt
  <2>3. \A i \in 0..n : JoinStep(q, g, i) = JoinStep(q, f, i)
    <3>1. \A i \in 0..n : i = 0 \/ i - 1 \in 0..(n - 1)
        BY <2>0
    <3> HIDE DEF g
    <3>2. \A i \in 0..n : i = 0 \/ g[i - 1] = f[i - 1]
        BY <2>2, <3>1
    <3> QED BY <3>2 DEF JoinStep
  <2>4. \A i \in 0..n : g[i] = JoinStep(q, f, i)
    <3>1. g[n] = JoinStep(q, f, n)
        BY <2>0
    <3>2. \A i \in 0..n : i = n \/ i \in 0..(n - 1)
        BY <2>0
    <3> HIDE DEF g
    <3> QED BY <2>2, <3>1, <3>2
  <2>5. g = [i \in 0..n |-> g[i]]
      OBVIOUS
  <2>6. IsJoin(q, n, g)
    <3> HIDE DEF g
    <3>1. [i \in 0..n |-> g[i]] = [i \in 0..n |-> JoinStep(q, g, i)]
        BY <2>3, <2>4
    <3> QED BY <2>5, <3>1 DEF IsJoin
  <2> QED BY <1>1, <2>6
<1> QED BY <1>2, <1>3

LEMMA JoinIs ==
    ASSUME NEW q, Len(q) \in Nat
    PROVE  \E f : IsJoin(q, Len(q), f) /\ PollingPayload(q) = f[Len(q)]
<1> DEFINE f == CHOOSE Joined : IsJoin(q, Len(q), Joined)
<1>1. \E Joined : IsJoin(q, Len(q), Joined)
    BY JoinExists
<1>2. IsJoin(q, Len(q), f)
    BY <1>1
<1>3. PollingPayload(q) = f[Len(q)]
    BY DEF PollingPayload, IsJoin, JoinStep
<1> QED BY <1>2, <1>3

\* Encoding and decoding keep the bytes in their places.
LEMMA Encode64Type ==
    ASSUME NEW bs \in Seq(Byte)
    PROVE  /\ Encode64(bs) \in Seq(Byte) /\ Len(Encode64(bs)) = Len(bs)
           /\ NoSeparator(Encode64(bs)) /\ IsBase64(Encode64(bs))
           /\ Decode64(Encode64(bs)) = bs
<1> DEFINE e == Encode64(bs)
<1>1. DOMAIN bs = 1..Len(bs) /\ Len(bs) \in Nat
    OBVIOUS
<1>2. \A i \in 1..Len(bs) : bs[i] \in Byte
    OBVIOUS
<1>3. \A b \in Byte : b[1] \in Nat /\ b[2] \in Class /\ b = <<b[1], b[2]>>
    BY DEF Byte
<1>4. \A b \in Byte : <<b[1] + 1, b[2]>> \in Byte
    BY <1>3 DEF Byte
<1>5. e = [i \in 1..Len(bs) |-> <<bs[i][1] + 1, bs[i][2]>>]
    BY <1>1 DEF Encode64
<1>6. e \in Seq(Byte) /\ Len(e) = Len(bs)
  <2>1. \A i \in 1..Len(bs) : <<bs[i][1] + 1, bs[i][2]>> \in Byte
      BY <1>2, <1>4
  <2> HIDE DEF e
  <2>2. e \in [1..Len(bs) -> Byte]
      BY <1>5, <2>1
  <2> QED BY <1>1, <2>2
<1> HIDE DEF e
<1>7. \A i \in 1..Len(bs) : e[i] = <<bs[i][1] + 1, bs[i][2]>>
    BY <1>5
<1>8. \A i \in 1..Len(bs) : e[i][1] = bs[i][1] + 1 /\ e[i][2] = bs[i][2]
    BY <1>7
<1>9. \A i \in 1..Len(bs) : e[i][1] > 0
    BY <1>2, <1>3, <1>8
<1>10. SEPARATOR[1] = 0
    BY DEF SEPARATOR, Raw
<1>11. \A i \in 1..Len(bs) : e[i] # SEPARATOR
    BY <1>9, <1>10
<1>12. DOMAIN e = 1..Len(bs)
    BY <1>5
<1>13. Decode64(e) = [i \in 1..Len(bs) |-> <<e[i][1] - 1, e[i][2]>>]
    BY <1>12 DEF Decode64
<1>14. \A i \in 1..Len(bs) : <<e[i][1] - 1, e[i][2]>> = bs[i]
  <2> SUFFICES ASSUME NEW i \in 1..Len(bs) PROVE <<e[i][1] - 1, e[i][2]>> = bs[i]
      OBVIOUS
  <2>1. e[i][1] - 1 = bs[i][1] /\ e[i][2] = bs[i][2]
    <3>1. bs[i][1] \in Nat
        BY <1>2, <1>3
    <3> QED BY <1>8, <3>1
  <2>2. bs[i] = <<bs[i][1], bs[i][2]>>
      BY <1>2, <1>3
  <2> QED BY <2>1, <2>2
<1>15. Decode64(e) = bs
  <2>1. bs = [i \in 1..Len(bs) |-> bs[i]]
      OBVIOUS
  <2> QED BY <1>13, <1>14, <2>1
<1> QED BY <1>6, <1>9, <1>11, <1>12, <1>15 DEF NoSeparator, IsBase64, e

LEMMA PieceType ==
    ASSUME NEW bs \in Seq(Byte)
    PROVE  Piece(bs) \in Seq(Byte)
<1>1. <<>> \in Seq(Byte)
    OBVIOUS
<1> QED BY <1>1, Encode64Type DEF Piece

\* What one more piece adds.
LEMMA JoinType ==
    ASSUME NEW q \in Seq(Seq(Byte)), NEW f, IsJoin(q, Len(q), f), NEW n0 \in 0..Len(q)
    PROVE  f[n0] \in Seq(Byte)
<1>0. Len(q) \in Nat
    OBVIOUS
<1> DEFINE T == {n \in 0..Len(q) : f[n] \notin Seq(Byte)}
<1>1. ASSUME T # {} PROVE FALSE
  <2>1. PICK n \in T : n = 0 \/ (n - 1 \in 0..Len(q) /\ n > 0 /\ n - 1 \notin T)
    <3>1. T \subseteq 0..Len(q) /\ 0 \in Nat
        OBVIOUS
    <3> HIDE DEF T
    <3> QED BY <1>0, <1>1, <3>1, Induct
  <2>2. n \in 0..Len(q) /\ f[n] \notin Seq(Byte)
      BY <2>1
  <2>3. f[n] = JoinStep(q, f, n)
      BY <1>0, <2>2, JoinAt
  <2>4. n # 0
    <3>1. <<>> \in Seq(Byte)
        OBVIOUS
    <3> QED BY <2>2, <2>3, <3>1 DEF JoinStep
  <2>5. q[n] \in Seq(Byte) /\ f[n - 1] \in Seq(Byte)
      BY <1>0, <2>1, <2>2, <2>4
  <2>6. Piece(q[n]) \in Seq(Byte)
      BY <2>5, PieceType
  <2>7. CASE n = 1
      BY <2>2, <2>3, <2>6, <2>7 DEF JoinStep
  <2>8. CASE n # 1
    <3> DEFINE x == Piece(q[n])
               y == f[n - 1]
               s == <<SEPARATOR>>
    <3>1. s \in Seq(Byte)
        BY OneSeparator
    <3>2. x \in Seq(Byte) /\ y \in Seq(Byte)
        BY <2>5, <2>6
    <3>3. f[n] = y \o s \o x
        BY <2>3, <2>4, <2>8 DEF JoinStep
    <3> HIDE DEF x, y, s
    <3>4. y \o s \in Seq(Byte)
        BY ONLY <3>1, <3>2, Concat
    <3>5. y \o s \o x \in Seq(Byte)
        BY ONLY <3>2, <3>4, Concat
    <3> QED BY <2>2, <3>3, <3>5
  <2> QED BY <2>7, <2>8
<1> QED BY <1>1

LEMMA JoinLen ==
    ASSUME NEW q \in Seq(Seq(Byte)), NEW f, IsJoin(q, Len(q), f), NEW n \in 1..Len(q)
    PROVE  /\ Len(f[n]) \in Nat /\ Len(f[n - 1]) \in Nat /\ Len(Piece(q[n])) \in Nat
           /\ f[0] = <<>>
           /\ n = 1 => f[n] = Piece(q[n]) /\ Len(f[n]) = Len(Piece(q[n]))
           /\ n # 1 => /\ f[n] = f[n - 1] \o <<SEPARATOR>> \o Piece(q[n])
                       /\ Len(f[n]) = Len(f[n - 1]) + 1 + Len(Piece(q[n]))
<1>0. Len(q) \in Nat /\ n \in 0..Len(q) /\ n - 1 \in 0..Len(q) /\ 0 \in 0..Len(q)
    OBVIOUS
<1> DEFINE x == Piece(q[n])
           y == f[n - 1]
           s == <<SEPARATOR>>
<1>1. s \in Seq(Byte) /\ Len(s) = 1
    BY OneSeparator
<1>2. y \in Seq(Byte) /\ f[n] \in Seq(Byte)
    BY <1>0, JoinType
<1>3. x \in Seq(Byte)
    BY PieceType
<1>4. f[n] = JoinStep(q, f, n) /\ f[0] = JoinStep(q, f, 0)
    BY <1>0, JoinAt
<1>5. f[0] = <<>> /\ (n = 1 => f[n] = x) /\ (n # 1 => f[n] = y \o s \o x)
  <2>1. f[0] = <<>>
      BY <1>4 DEF JoinStep
  <2>2. ASSUME n = 1 PROVE f[n] = x
      BY <1>4, <2>2 DEF JoinStep
  <2>3. ASSUME n # 1 PROVE f[n] = y \o s \o x
    <3>1. n # 0
        BY <1>0
    <3> QED BY <1>4, <2>3, <3>1 DEF JoinStep
  <2> QED BY <2>1, <2>2, <2>3
<1>6. Len(y \o s \o x) = Len(y) + 1 + Len(x)
  <2> HIDE DEF x, y, s
  <2>1. y \o s \in Seq(Byte) /\ Len(y \o s) = Len(y) + Len(s)
      BY ONLY <1>1, <1>2, Concat
  <2>2. Len(y \o s \o x) = Len(y \o s) + Len(x)
      BY ONLY <1>3, <2>1, Concat
  <2> QED BY <1>1, <2>1, <2>2
<1>7. Len(f[n]) \in Nat /\ Len(y) \in Nat /\ Len(x) \in Nat
    BY <1>2, <1>3
<1> QED BY <1>5, <1>6, <1>7

\* What is queued comes out of the payload again, piece by piece.
LEMMA CutPayload ==
    ASSUME NEW q \in Seq(Seq(Byte)), q # <<>>,
           \A i \in 1..Len(q) : NoSeparator(Piece(q[i]))
    PROVE  Cut(PollingPayload(q)) = [i \in 1..Len(q) |-> Piece(q[i])]
<1> DEFINE Pieces(n) == [i \in 1..n |-> Piece(q[i])]
<1>0. Len(q) \in Nat /\ 1 \in 1..Len(q) /\ 1 \in Nat
    OBVIOUS
<1>1. PICK f : IsJoin(q, Len(q), f) /\ PollingPayload(q) = f[Len(q)]
    BY <1>0, JoinIs
<1> DEFINE T == {n \in 1..Len(q) : Cut(f[n]) # Pieces(n)}
<1>2. ASSUME T # {} PROVE FALSE
  <2>1. PICK n \in T : n = 1 \/ (n - 1 \in 1..Len(q) /\ n > 1 /\ n - 1 \notin T)
    <3>1. T \subseteq 1..Len(q)
        OBVIOUS
    <3> HIDE DEF T
    <3> QED BY <1>0, <1>2, <3>1, Induct
  <2>2. n \in 1..Len(q) /\ Cut(f[n]) # Pieces(n)
      BY <2>1
  <2>3. q[n] \in Seq(Byte)
      BY <2>2
  <2>4. Piece(q[n]) \in Seq(Byte) /\ NoSeparator(Piece(q[n]))
      BY <2>2, <2>3, PieceType
  <2>5. CASE n = 1
    <3>1. f[n] = Piece(q[n])
        BY <1>1, <2>2, <2>5, JoinLen
    <3>2. Cut(f[n]) = <<Piece(q[n])>>
        BY <2>4, <3>1, CutWhole
    <3>3. <<Piece(q[1])>> = Pieces(1)
      <4> DEFINE x == Piece(q[1])
      <4>1. <<x>> = [i \in 1..1 |-> x]
        <5> HIDE DEF x
        <5> QED OBVIOUS
      <4>2. [i \in 1..1 |-> x] = [i \in 1..1 |-> Piece(q[i])]
        <5>1. \A i \in 1..1 : i = 1
            OBVIOUS
        <5> QED BY <5>1
      <4> QED BY <4>1, <4>2
    <3> HIDE DEF Pieces
    <3> QED BY <2>2, <2>5, <3>2, <3>3
  <2>6. CASE n # 1
    <3>0. n - 1 \in 1..Len(q) /\ Cut(f[n - 1]) = Pieces(n - 1) /\ n - 1 \in Nat
        BY <1>0, <2>1, <2>6
    <3>1. f[n] = f[n - 1] \o <<SEPARATOR>> \o Piece(q[n])
        BY <1>1, <2>2, <2>6, JoinLen
    <3>2. f[n - 1] \in Seq(Byte)
      <4>1. n - 1 \in 0..Len(q)
          BY <1>0, <3>0
      <4> QED BY <1>1, <4>1, JoinType
    <3>3. Cut(f[n]) = Append(Cut(f[n - 1]), Piece(q[n]))
        BY <2>4, <3>1, <3>2, CutJoin
    <3> DEFINE x == Pieces(n - 1)
               y == Piece(q[n])
               z == Pieces(n)
    <3>4. /\ x \in Seq(Seq(Byte)) /\ Len(x) = n - 1
          /\ \A i \in 1..(n - 1) : x[i] = Piece(q[i])
      <4>1. \A i \in 1..(n - 1) : Piece(q[i]) \in Seq(Byte)
        <5>1. \A i \in 1..(n - 1) : q[i] \in Seq(Byte)
            BY <1>0, <2>2
        <5> QED BY <5>1, PieceType
      <4> QED BY <3>0, <4>1
    <3>5. /\ z \in Seq(Seq(Byte)) /\ Len(z) = n
          /\ \A i \in 1..n : z[i] = Piece(q[i])
      <4>1. \A i \in 1..n : Piece(q[i]) \in Seq(Byte)
        <5>1. \A i \in 1..n : q[i] \in Seq(Byte)
            BY <1>0, <2>2
        <5> QED BY <5>1, PieceType
      <4>2. n \in Nat
          BY <1>0, <2>2
      <4> QED BY <4>1, <4>2
    <3> HIDE DEF Pieces, x, z
    <3>6. Append(x, y) \in Seq(Seq(Byte)) /\ Len(Append(x, y)) = n
          /\ \A i \in 1..n : Append(x, y)[i] = Piece(q[i])
      <4>1. y \in Seq(Byte)
          BY <2>4
      <4> HIDE DEF y
      <4>2. /\ Append(x, y) \in Seq(Seq(Byte)) /\ Len(Append(x, y)) = n
            /\ Append(x, y)[n] = y /\ \A i \in 1..(n - 1) : Append(x, y)[i] = x[i]
          BY <2>2, <3>0, <3>4, <4>1
      <4>3. \A i \in 1..n : i = n \/ i \in 1..(n - 1)
          BY <2>2
      <4> QED BY <3>4, <4>2, <4>3 DEF y
    <3>7. Append(x, y) = z
      <4> DEFINE w == Append(x, y)
      <4>1. w \in Seq(Seq(Byte)) /\ Len(w) = Len(z) /\ \A i \in 1..Len(w) : w[i] = z[i]
          BY <3>5, <3>6
      <4> HIDE DEF w
      <4>2. w = z
          BY ONLY <3>5, <4>1, SeqEqual
      <4> QED BY <4>2 DEF w
    <3> QED BY <2>2, <3>0, <3>3, <3>7 DEF x, z
  <2> QED BY <2>5, <2>6
<1>3. Len(q) \in 1..Len(q)
    BY <1>0
<1> QED BY <1>1, <1>2, <1>3

\* The payload of some packets in a row is no longer than the payload of all.
LEMMA PayloadPart ==
    ASSUME NEW q \in Seq(Seq(Byte)), NEW r \in Seq(Seq(Byte)), NEW d \in Nat,
           d + Len(r) <= Len(q), \A i \in 1..Len(r) : r[i] = q[d + i]
    PROVE  Len(PollingPayload(r)) <= Len(PollingPayload(q))
<1>0. Len(q) \in Nat /\ Len(r) \in Nat /\ Len(q) \in 0..Len(q) /\ Len(r) \in 0..Len(r)
    OBVIOUS
<1>1. PICK f : IsJoin(q, Len(q), f) /\ PollingPayload(q) = f[Len(q)]
    BY <1>0, JoinIs
<1>2. PICK g : IsJoin(r, Len(r), g) /\ PollingPayload(r) = g[Len(r)]
    BY <1>0, JoinIs
<1>3. \A n \in 0..Len(q) : f[n] \in Seq(Byte) /\ Len(f[n]) \in Nat
    BY <1>1, JoinType
<1>4. \A n \in 0..Len(r) : g[n] \in Seq(Byte) /\ Len(g[n]) \in Nat
    BY <1>2, JoinType
\* By induction over the pieces of the part.
<1>5. Len(g[Len(r)]) <= Len(f[d + Len(r)])
  <2> DEFINE T == {n \in 0..Len(r) : ~(Len(g[n]) <= Len(f[d + n]))}
  <2>1. ASSUME T # {} PROVE FALSE
    <3>1. PICK n \in T : n = 0 \/ (n - 1 \in 0..Len(r) /\ n > 0 /\ n - 1 \notin T)
      <4>1. T \subseteq 0..Len(r) /\ 0 \in Nat
          OBVIOUS
      <4> HIDE DEF T
      <4> QED BY <1>0, <2>1, <4>1, Induct
    <3>2. n \in 0..Len(r) /\ ~(Len(g[n]) <= Len(f[d + n])) /\ d + n \in 0..Len(q)
        BY <1>0, <3>1
    <3>3. n # 0
      <4>1. ASSUME n = 0 PROVE FALSE
        <5>1. g[0] = JoinStep(r, g, 0)
            BY <1>0, <1>2, JoinAt
        <5>2. Len(g[0]) = 0
            BY <5>1 DEF JoinStep
        <5> QED BY <1>3, <3>2, <4>1, <5>2
      <4> QED BY <4>1
    <3>4. n \in 1..Len(r) /\ d + n \in 1..Len(q) /\ n - 1 \in 0..Len(r)
          /\ d + n - 1 \in 0..Len(q) /\ d + (n - 1) = d + n - 1
        BY <1>0, <3>2, <3>3
    <3>5. Len(g[n - 1]) <= Len(f[d + n - 1])
        BY <3>1, <3>3, <3>4
    <3> DEFINE k == d + n
               l == Len(Piece(r[n]))
    <3>6. r[n] = q[k]
        BY <3>4
    <3>7. /\ l \in Nat /\ Len(g[n]) \in Nat /\ Len(g[n - 1]) \in Nat
          /\ n = 1 => Len(g[n]) = l
          /\ n # 1 => Len(g[n]) = Len(g[n - 1]) + 1 + l
        BY <1>2, <3>4, JoinLen
    <3>8. /\ Len(f[k]) \in Nat /\ Len(f[k - 1]) \in Nat
          /\ k = 1 => Len(f[k]) = l
          /\ k # 1 => Len(f[k]) = Len(f[k - 1]) + 1 + l
      <4>1. k \in 1..Len(q)
          BY <3>4
      <4> HIDE DEF k
      <4>2. /\ Len(f[k]) \in Nat /\ Len(f[k - 1]) \in Nat
            /\ k = 1 => Len(f[k]) = Len(Piece(q[k]))
            /\ k # 1 => Len(f[k]) = Len(f[k - 1]) + 1 + Len(Piece(q[k]))
          BY ONLY q \in Seq(Seq(Byte)), <1>1, <4>1, JoinLen
      <4> QED BY <3>6, <4>2
    <3>9. k = 1 => n = 1
        BY <3>4
    <3>10. ~(Len(g[n]) <= Len(f[k])) /\ Len(g[n - 1]) <= Len(f[k - 1])
        BY <3>2, <3>5
    <3> HIDE DEF k, l
    <3> DEFINE g1 == Len(g[n])
               g0 == Len(g[n - 1])
               f1 == Len(f[k])
               f0 == Len(f[k - 1])
    <3>11. /\ l \in Nat /\ g1 \in Nat /\ g0 \in Nat /\ f1 \in Nat /\ f0 \in Nat
           /\ (n = 1 => g1 = l) /\ (n # 1 => g1 = g0 + 1 + l)
           /\ (k = 1 => f1 = l) /\ (k # 1 => f1 = f0 + 1 + l)
           /\ ~(g1 <= f1) /\ g0 <= f0
        BY <3>7, <3>8, <3>10
    <3> HIDE DEF g1, g0, f1, f0
    <3>12. CASE n = 1
        BY <3>11, <3>12
    <3>13. CASE n # 1
        BY <3>9, <3>11, <3>13
    <3> QED BY <3>12, <3>13
  <2> QED BY <1>0, <2>1
\* And over those after it.
<1>6. Len(f[d + Len(r)]) <= Len(f[Len(q)])
  <2> DEFINE m == d + Len(r)
             T == {n \in m..Len(q) : ~(Len(f[m]) <= Len(f[n]))}
  <2>0. m \in Nat /\ m \in 0..Len(q) /\ Len(q) \in m..Len(q)
      BY <1>0
  <2> HIDE DEF m
  <2>1. ASSUME T # {} PROVE FALSE
    <3>1. PICK n \in T : n = m \/ (n - 1 \in m..Len(q) /\ n > m /\ n - 1 \notin T)
      <4>1. T \subseteq m..Len(q)
          OBVIOUS
      <4> HIDE DEF T
      <4> QED BY <1>0, <2>0, <2>1, <4>1, Induct
    <3>2. n \in m..Len(q) /\ ~(Len(f[m]) <= Len(f[n]))
        BY <3>1
    <3>3. n # m
        BY <1>3, <2>0, <3>2
    <3>4. n \in 1..Len(q) /\ Len(f[m]) <= Len(f[n - 1])
        BY <1>0, <2>0, <3>1, <3>3
    <3>5. /\ Len(f[n]) \in Nat /\ Len(f[n - 1]) \in Nat /\ Len(Piece(q[n])) \in Nat
          /\ f[0] = <<>>
          /\ n # 1 => Len(f[n]) = Len(f[n - 1]) + 1 + Len(Piece(q[n]))
        BY <1>1, <3>4, JoinLen
    <3>6. CASE n = 1
      <4>1. Len(f[n - 1]) = 0
          BY <3>5, <3>6
      <4> QED BY <1>3, <2>0, <3>2, <3>4, <3>5, <4>1
    <3>7. CASE n # 1
      <4> DEFINE f1 == Len(f[n])
                 f0 == Len(f[n - 1])
                 l == Len(Piece(q[n]))
                 fm == Len(f[m])
      <4>1. f1 \in Nat /\ f0 \in Nat /\ l \in Nat /\ fm \in Nat
            /\ f1 = f0 + 1 + l /\ fm <= f0 /\ ~(fm <= f1)
          BY <1>3, <2>0, <3>2, <3>4, <3>5, <3>7
      <4> HIDE DEF f1, f0, l, fm
      <4> QED BY <4>1
    <3> QED BY <3>6, <3>7
  <2> QED BY <2>0, <2>1 DEF m
<1>7. d + Len(r) \in 0..Len(q)
    BY <1>0
<1> DEFINE x == Len(g[Len(r)])
           y == Len(f[d + Len(r)])
           z == Len(f[Len(q)])
<1>8. x \in Nat /\ y \in Nat /\ z \in Nat /\ x <= y /\ y <= z
    BY <1>0, <1>3, <1>4, <1>5, <1>6, <1>7
<1> HIDE DEF x, y, z
<1>9. x <= z
    BY <1>8
<1> QED BY <1>1, <1>2, <1>9 DEF x, z

\* A payload is made of bytes, and is not empty if it begins with a piece that is not.
LEMMA PayloadType ==
    ASSUME NEW q \in Seq(Seq(Byte))
    PROVE  /\ PollingPayload(q) \in Seq(Byte)
           /\ q = <<>> => PollingPayload(q) = <<>>
           /\ q # <<>> /\ Piece(q[1]) # <<>> => PollingPayload(q) # <<>>
<1>0. Len(q) \in Nat /\ Len(q) \in 0..Len(q)
    OBVIOUS
<1>1. PICK f : IsJoin(q, Len(q), f) /\ PollingPayload(q) = f[Len(q)]
    BY <1>0, JoinIs
<1>2. f[Len(q)] \in Seq(Byte)
    BY <1>0, <1>1, JoinType
<1>3. ASSUME q = <<>> PROVE f[Len(q)] = <<>>
  <2>1. Len(q) = 0
      BY <1>3
  <2>2. f[Len(q)] = JoinStep(q, f, Len(q))
      BY <1>0, <1>1, JoinAt
  <2> QED BY <2>1, <2>2 DEF JoinStep
<1>4. ASSUME q # <<>>, Piece(q[1]) # <<>> PROVE f[Len(q)] # <<>>
  <2>1. Len(q) \in 1..Len(q)
      BY <1>4
  <2>2. CASE Len(q) = 1
    <3>1. f[Len(q)] = Piece(q[1])
      <4>1. f[Len(q)] = Piece(q[Len(q)])
          BY <1>1, <2>1, <2>2, JoinLen
      <4> QED BY <2>2, <4>1
    <3> QED BY <1>4, <3>1
  <2>3. CASE Len(q) # 1
    <3>1. /\ Len(f[Len(q)]) = Len(f[Len(q) - 1]) + 1 + Len(Piece(q[Len(q)]))
          /\ Len(f[Len(q) - 1]) \in Nat /\ Len(Piece(q[Len(q)])) \in Nat
        BY <1>1, <2>1, <2>3, JoinLen
    <3> DEFINE x == Len(f[Len(q) - 1])
               y == Len(Piece(q[Len(q)]))
    <3> HIDE DEF x, y
    <3>2. x \in Nat /\ y \in Nat /\ Len(f[Len(q)]) = x + 1 + y
        BY <3>1 DEF x, y
    <3>3. x + 1 + y # 0
        BY <3>2
    <3>4. Len(f[Len(q)]) # 0
        BY <3>2, <3>3
    <3>5. Len(<<>>) = 0
        OBVIOUS
    <3> QED BY <3>4, <3>5
  <2> QED BY <2>2, <2>3
<1> QED BY <1>1, <1>2, <1>3, <1>4

-----------------------------------------------------------------------------
(* Packets *)

Packet == [ptype : PacketType, data : Seq(Byte)]

\* The first bytes of packets tell their types, and are neither the separator nor the
\* mark of a websocket's binary message.
LEMMA TypeBytes ==
    /\ \A t, u \in PacketType : TypeByte(t) = TypeByte(u) => t = u
    /\ \A t \in PacketType : /\ TypeByte(t) # SEPARATOR
                             /\ TypeByte(t) # Raw("byte 4")
                             /\ TypeByte(t) # Raw("not utf8")
                             /\ TypeByte(t) = Raw("b") => t = "MessageBinary"
<1> DEFINE D(t) == IF t = "MessageBinary" THEN "b" ELSE Digit[t]
<1>1. PacketType = {"Open", "Close", "Ping", "Pong", "Message", "Upgrade", "Noop",
                    "MessageBinary"}
    BY DEF PacketType, Digit
<1>2. \A c, d : Raw(c) = Raw(d) => c = d
    BY DEF Raw
<1>3. \A t \in PacketType : TypeByte(t) = Raw(D(t))
    BY DEF TypeByte
<1>4. /\ D("Open") = "0" /\ D("Close") = "1" /\ D("Ping") = "2" /\ D("Pong") = "3"
      /\ D("Message") = "4" /\ D("Upgrade") = "5" /\ D("Noop") = "6"
      /\ D("MessageBinary") = "b"
    BY DEF Digit
<1> HIDE DEF D
<1>5. \A t, u \in PacketType : D(t) = D(u) => t = u
    BY <1>1, <1>4
<1>6. \A t \in PacketType : /\ D(t) # "SEP" /\ D(t) # "byte 4" /\ D(t) # "not utf8"
                            /\ D(t) = "b" => t = "MessageBinary"
    BY <1>1, <1>4
<1> QED BY <1>2, <1>3, <1>5, <1>6 DEF SEPARATOR

LEMMA TypesOfByte ==
    /\ \A t \in PacketType : TypesOf(TypeByte(t)) = {t}
    /\ TypesOf(Raw("byte 4")) = {"Message"}
<1>1. ASSUME NEW t \in PacketType PROVE TypesOf(TypeByte(t)) = {t}
  <2>1. TypesOf(TypeByte(t)) = {u \in PacketType : TypeByte(t) = TypeByte(u)}
      BY TypeBytes DEF TypesOf
  <2> QED BY <2>1, TypeBytes
<1>2. {u \in PacketType : Raw("byte 4") = TypeByte(u)} = {}
    BY TypeBytes
<1>3. TypesOf(Raw("byte 4")) = {"Message"}
    BY <1>2 DEF TypesOf
<1> QED BY <1>1, <1>3

LEMMA TypesOfType == \A b : TypesOf(b) \subseteq PacketType
<1>1. "Message" \in PacketType
    BY DEF PacketType, Digit
<1> QED BY <1>1 DEF TypesOf

LEMMA Bytes ==
    ASSUME NEW p \in Packet
    PROVE  /\ PollingBytes(ToData(p)) = PacketBytes(p)
           /\ PacketBytes(p) \in Seq(Byte) /\ Len(PacketBytes(p)) > 0
           /\ PacketBytes(p) # <<>>
           /\ Head(PacketBytes(p)) = TypeByte(p.ptype)
           /\ Tail(PacketBytes(p)) = IF p.ptype = "MessageBinary"
                                     THEN Encode64(p.data) ELSE p.data
           /\ Len(PacketBytes(p)) = Len(p.data) + 1
           /\ PacketBytes(p)[1] = TypeByte(p.ptype)
           /\ \A i \in 1..Len(p.data) : PacketBytes(p)[i + 1] = Tail(PacketBytes(p))[i]
<1> DEFINE d == IF p.ptype = "MessageBinary" THEN Encode64(p.data) ELSE p.data
           t == TypeByte(p.ptype)
           bs == <<t>> \o d
<1>1. p.ptype \in PacketType /\ p.data \in Seq(Byte)
    BY DEF Packet
<1>2. d \in Seq(Byte) /\ Len(d) = Len(p.data) /\ Len(d) \in Nat
    BY <1>1, Encode64Type
<1>3. t \in Byte
    BY <1>1, RawByte
<1> HIDE DEF d, t
<1>4. /\ bs \in Seq(Byte) /\ Len(bs) = Len(d) + 1 /\ Head(bs) = t /\ Tail(bs) = d
      /\ \A i \in 1..Len(d) : bs[i + 1] = d[i]
    BY <1>2, <1>3, Put
<1>5. PacketBytes(p) = bs
    BY DEF PacketBytes, d, t
<1>6. PollingBytes(ToData(p)) = bs
  <2>1. CASE p.ptype = "MessageBinary"
    <3>1. ToData(p).kind = "Binary" /\ ToData(p).bytes = p.data
        BY <2>1 DEF ToData
    <3>2. t = Raw("b") /\ d = Encode64(p.data)
        BY <2>1 DEF TypeByte, d, t
    <3> QED BY <3>1, <3>2 DEF PollingBytes
  <2>2. CASE p.ptype # "MessageBinary"
    <3>1. ToData(p).kind = "Text" /\ ToData(p).bytes = PacketBytes(p)
        BY <2>2 DEF ToData
    <3> QED BY <1>5, <3>1 DEF PollingBytes
  <2> QED BY <2>1, <2>2
<1> HIDE DEF bs
<1>7. Len(bs) > 0 /\ bs # <<>> /\ bs[1] = t
    BY <1>2, <1>4
<1>8. Tail(bs) = IF p.ptype = "MessageBinary" THEN Encode64(p.data) ELSE p.data
    BY <1>4 DEF d
<1> QED BY <1>2, <1>4, <1>5, <1>6, <1>7, <1>8 DEF t

\* Packet::try_from undoes Bytes::from.
LEMMA ParsePacket ==
    ASSUME NEW p \in Packet, p.ptype = "Message" => p.data # <<>>
    PROVE  TryPacket(PacketBytes(p)) = {p}
<1> DEFINE bs == PacketBytes(p)
           U == {u \in IF bs = <<>> THEN {} ELSE TypesOf(Head(bs)) :
                  /\ u = "Message" => Len(bs) > 1
                  /\ u = "MessageBinary" => IsBase64(Tail(bs))}
           R(t) == [ptype |-> t, data |-> IF t = "MessageBinary" THEN Decode64(Tail(bs))
                                          ELSE Tail(bs)]
<1>0. p.ptype \in PacketType /\ p.data \in Seq(Byte) /\ p = [ptype |-> p.ptype, data |-> p.data]
    BY DEF Packet
<1>1. TryPacket(bs) = {R(t) : t \in U}
    BY DEF TryPacket
<1>2. /\ bs # <<>> /\ Head(bs) = TypeByte(p.ptype) /\ Len(bs) = Len(p.data) + 1
      /\ Tail(bs) = IF p.ptype = "MessageBinary" THEN Encode64(p.data) ELSE p.data
    BY Bytes
<1> HIDE DEF bs
<1>3. TypesOf(Head(bs)) = {p.ptype}
    BY <1>0, <1>2, TypesOfByte
<1>4. p.ptype = "Message" => Len(bs) > 1
  <2>1. p.data # <<>> => Len(p.data) > 0
      BY <1>0
  <2>2. Len(p.data) \in Nat
      BY <1>0
  <2> QED BY <1>2, <2>1, <2>2
<1>5. p.ptype = "MessageBinary" => IsBase64(Tail(bs))
    BY <1>0, <1>2, Encode64Type
<1>6. U = {p.ptype}
    BY <1>2, <1>3, <1>4, <1>5
<1>7. (IF p.ptype = "MessageBinary" THEN Decode64(Tail(bs)) ELSE Tail(bs)) = p.data
    BY <1>0, <1>2, Encode64Type
<1>8. R(p.ptype) = p
    BY <1>0, <1>7
<1> HIDE DEF U, R
<1> QED BY <1>1, <1>6, <1>8 DEF bs

\* A binary message of a websocket is taken for a Message.
LEMMA ParseBinary ==
    ASSUME NEW d \in Seq(Byte), d # <<>>
    PROVE  LET bs == <<Raw("byte 4")>> \o d
           IN  TryPacket(bs) = {[ptype |-> "Message", data |-> d]}
<1> DEFINE bs == <<Raw("byte 4")>> \o d
           U == {u \in IF bs = <<>> THEN {} ELSE TypesOf(Head(bs)) :
                  /\ u = "Message" => Len(bs) > 1
                  /\ u = "MessageBinary" => IsBase64(Tail(bs))}
           R(t) == [ptype |-> t, data |-> IF t = "MessageBinary" THEN Decode64(Tail(bs))
                                          ELSE Tail(bs)]
<1>1. TryPacket(bs) = {R(t) : t \in U}
    BY DEF TryPacket
<1>2. Raw("byte 4") \in Byte
    BY RawByte
<1>3. Len(bs) = Len(d) + 1 /\ Head(bs) = Raw("byte 4") /\ Tail(bs) = d /\ bs \in Seq(Byte)
    BY <1>2, Put
<1> HIDE DEF bs
<1>4. Len(d) \in Nat /\ Len(d) > 0
    OBVIOUS
<1>5. Len(bs) > 1 /\ bs # <<>>
  <2>1. Len(bs) = Len(d) + 1
      BY <1>3
  <2>2. Len(bs) > 1
      BY ONLY <1>4, <2>1
  <2>3. Len(<<>>) = 0
      OBVIOUS
  <2> QED BY ONLY <2>2, <2>3
<1>6. U = {"Message"}
    BY <1>3, <1>5, TypesOfByte
<1>7. R("Message") = [ptype |-> "Message", data |-> d]
    BY <1>3
<1> HIDE DEF U, R
<1> QED BY <1>1, <1>6, <1>7 DEF bs

\* Whatever parses is a packet.
LEMMA TryPacketType ==
    ASSUME NEW bs \in Seq(Byte)
    PROVE  TryPacket(bs) \subseteq Packet
<1> DEFINE U == {u \in IF bs = <<>> THEN {} ELSE TypesOf(Head(bs)) :
                  /\ u = "Message" => Len(bs) > 1
                  /\ u = "MessageBinary" => IsBase64(Tail(bs))}
           R(t) == [ptype |-> t, data |-> IF t = "MessageBinary" THEN Decode64(Tail(bs))
                                          ELSE Tail(bs)]
<1>1. TryPacket(bs) = {R(t) : t \in U}
    BY DEF TryPacket
<1> SUFFICES ASSUME NEW t \in U PROVE R(t) \in Packet
    BY <1>1
<1>2. bs # <<>> /\ t \in PacketType /\ (t = "MessageBinary" => IsBase64(Tail(bs)))
    BY TypesOfType
<1> DEFINE d == Tail(bs)
<1>3. d \in Seq(Byte)
    BY <1>2
<1> HIDE DEF d, U
<1>4. ASSUME IsBase64(d) PROVE Decode64(d) \in Seq(Byte)
  <2>1. DOMAIN d = 1..Len(d) /\ Len(d) \in Nat
      BY <1>3
  <2>2. \A i \in 1..Len(d) : d[i] \in Byte /\ d[i][1] > 0
      BY <1>3, <1>4, <2>1 DEF IsBase64
  <2>3. \A b \in Byte : b[1] \in Nat /\ b[2] \in Class
      BY DEF Byte
  <2>4. ASSUME NEW b \in Byte, b[1] > 0 PROVE <<b[1] - 1, b[2]>> \in Byte
    <3>1. b[1] - 1 \in Nat /\ b[2] \in Class
        BY <2>3, <2>4
    <3> QED BY <3>1 DEF Byte
  <2>5. \A i \in 1..Len(d) : <<d[i][1] - 1, d[i][2]>> \in Byte
      BY <2>2, <2>4
  <2>6. Decode64(d) = [i \in 1..Len(d) |-> <<d[i][1] - 1, d[i][2]>>]
      BY <2>1 DEF Decode64
  <2>7. Decode64(d) \in [1..Len(d) -> Byte]
      BY <2>5, <2>6
  <2> QED BY <2>1, <2>7
<1>5. (IF t = "MessageBinary" THEN Decode64(d) ELSE d) \in Seq(Byte)
    BY <1>2, <1>3, <1>4 DEF d
<1> DEFINE e == IF t = "MessageBinary" THEN Decode64(d) ELSE d
<1>6. R(t) = [ptype |-> t, data |-> e]
    BY DEF d
<1> HIDE DEF e, R
<1> QED BY <1>2, <1>5, <1>6 DEF Packet, e

LEMMA TryPayloadType ==
    ASSUME NEW bs \in Seq(Byte)
    PROVE  TryPayload(bs) \in Seq(Packet)
<1> DEFINE c == Cut(bs)
<1>1. c \in Seq(Seq(Byte))
    BY CutType
<1>2. TryPayload(bs) = IF \E i \in DOMAIN c : TryPacket(c[i]) = {} THEN <<>>
                       ELSE [i \in DOMAIN c |-> CHOOSE p \in TryPacket(c[i]) : TRUE]
    BY DEF TryPayload
<1> HIDE DEF c
<1>3. DOMAIN c = 1..Len(c) /\ Len(c) \in Nat /\ \A i \in 1..Len(c) : c[i] \in Seq(Byte)
    BY <1>1
<1>4. CASE \E i \in DOMAIN c : TryPacket(c[i]) = {}
  <2>1. <<>> \in Seq(Packet)
      OBVIOUS
  <2> QED BY <1>2, <1>4, <2>1
<1>5. CASE \A i \in DOMAIN c : TryPacket(c[i]) # {}
  <2> DEFINE C(i) == CHOOSE p \in TryPacket(c[i]) : TRUE
  <2>1. ASSUME NEW i \in 1..Len(c) PROVE C(i) \in Packet
    <3>1. TryPacket(c[i]) \subseteq Packet /\ TryPacket(c[i]) # {}
        BY <1>3, <1>5, TryPacketType
    <3>2. C(i) \in TryPacket(c[i])
        BY <3>1
    <3> QED BY <3>1, <3>2
  <2>2. TryPayload(bs) = [i \in 1..Len(c) |-> C(i)]
      BY <1>2, <1>3, <1>5
  <2> HIDE DEF C
  <2>3. TryPayload(bs) \in [1..Len(c) -> Packet]
      BY <2>1, <2>2
  <2> QED BY <1>3, <2>3
<1> QED BY <1>4, <1>5

\* Each of n pieces parses as a packet.
Parses(c, P, n) == \A i \in 1..n : TryPacket(c[i]) = {P[i]}

LEMMA ParsePayload ==
    ASSUME NEW bs, NEW n \in Nat, NEW c, DOMAIN c = 1..n, Cut(bs) = c,
           NEW S, NEW P \in [1..n -> S], Parses(c, P, n)
    PROVE  TryPayload(bs) = P
<1>1. \A i \in DOMAIN c : TryPacket(c[i]) # {}
    BY DEF Parses
<1>2. TryPayload(bs) = [i \in 1..n |-> CHOOSE p \in TryPacket(c[i]) : TRUE]
  <2>1. TryPayload(bs) = IF \E i \in DOMAIN c : TryPacket(c[i]) = {} THEN <<>>
                         ELSE [i \in DOMAIN c |-> CHOOSE p \in TryPacket(c[i]) : TRUE]
      BY DEF TryPayload
  <2> QED BY <1>1, <2>1
<1>3. \A i \in 1..n : (CHOOSE p \in TryPacket(c[i]) : TRUE) = P[i]
  <2>1. \A x : (CHOOSE p \in {x} : TRUE) = x
      OBVIOUS
  <2> QED BY <2>1 DEF Parses
<1> QED BY <1>2, <1>3

LEMMA ParseOne ==
    ASSUME NEW bs \in Seq(Byte), NoSeparator(bs), NEW p, TryPacket(bs) = {p}
    PROVE  TryPayload(bs) = <<p>>
<1> DEFINE c == <<bs>>
           P == <<p>>
           n == 1
<1>1. DOMAIN c = 1..1 /\ P \in [1..1 -> {p}] /\ P[1] = p /\ c[1] = bs
    OBVIOUS
<1>2. Cut(bs) = c
    BY CutWhole
<1>3. \A i \in 1..1 : i = 1
    OBVIOUS
<1> HIDE DEF c, P
<1>4. \A i \in 1..1 : TryPacket(c[i]) = {P[i]}
    BY <1>1, <1>3
<1>5. TryPayload(bs) = P
  <2>1. DOMAIN c = 1..n /\ P \in [1..n -> {p}] /\ n \in Nat
      BY <1>1
  <2>2. Parses(c, P, n)
      BY <1>4 DEF Parses
  <2> HIDE DEF n
  <2> QED BY ONLY <1>2, <2>1, <2>2, ParsePayload
<1> QED BY <1>5 DEF P

\* No separator gets into the bytes of a packet but through its data.
LEMMA BytesNoSeparator ==
    ASSUME NEW p \in Packet, p.ptype = "MessageBinary" \/ NoSeparator(p.data)
    PROVE  NoSeparator(PacketBytes(p))
<1> DEFINE bs == PacketBytes(p)
           d == Tail(bs)
<1>0. p.ptype \in PacketType /\ p.data \in Seq(Byte) /\ Len(p.data) \in Nat
    BY DEF Packet
<1>1. /\ d = IF p.ptype = "MessageBinary" THEN Encode64(p.data) ELSE p.data
      /\ Len(bs) = Len(p.data) + 1 /\ bs[1] = TypeByte(p.ptype)
      /\ \A i \in 1..Len(p.data) : bs[i + 1] = d[i]
    BY Bytes
<1>2. NoSeparator(d) /\ Len(d) = Len(p.data)
    BY <1>0, <1>1, Encode64Type
<1> HIDE DEF d, bs
<1>3. bs[1] # SEPARATOR
    BY <1>0, <1>1, TypeBytes
<1>4. ASSUME NEW i \in 1..Len(bs) PROVE bs[i] # SEPARATOR
  <2>1. i = 1 \/ (i - 1 \in 1..Len(p.data) /\ (i - 1) + 1 = i)
      BY <1>0, <1>1
  <2>2. ASSUME i - 1 \in 1..Len(p.data), (i - 1) + 1 = i PROVE bs[i] # SEPARATOR
      BY <1>1, <1>2, <2>2 DEF NoSeparator
  <2> QED BY <1>3, <2>1, <2>2
<1> QED BY <1>4 DEF NoSeparator, bs

-----------------------------------------------------------------------------
(* What the variables hold *)

Emit == [packet : Packets, result : {"wait", "ok", "err"}]
Data == [kind : {"Text", "Binary"}, bytes : Seq(Byte)]

\* The strengthening of TypeOK: what is queued is bytes or websocket messages, and what a
\* stream yields are packets.
Shape ==
    /\ path \in Paths
    /\ sent \in Seq(Emit) /\ Len(sent) <= MaxSent
    /\ \A i \in 1..Len(sent) : sent[i].result = "wait" => path = "post" /\ i = Len(sent)
    /\ path # "ws" => queue \in Seq(Seq(Byte)) /\ Len(queue) <= PollingBuffer
    /\ path = "ws" => queue \in Seq(Data)
    /\ body \in Seq(Byte)
    /\ pending \in Seq(Packet) /\ received \in Seq(Packet)
    /\ stream \in {"open", "lost", "failed"}

\* The emits whose packets were handed on, in order: every one that returned Ok, none
\* that still waits, and on a GET all of them.
Ordered(J) ==
    /\ J \in Seq(1..Len(sent)) /\ Len(J) <= Len(sent)
    /\ \A j, k \in 1..Len(J) : j < k => J[j] < J[k]
    /\ \A i \in 1..Len(sent) : sent[i].result = "ok" => \E j \in 1..Len(J) : J[j] = i
    /\ Waiting => Len(J) < Len(sent) /\ \A j \in 1..Len(J) : J[j] < Len(sent)
    /\ path = "get" => Len(J) = Len(sent) /\ \A j \in 1..Len(J) : J[j] = j

\* The k-th emit's packet on the wire.
Wire(k) == IF path = "ws" THEN ToData(sent[k].packet) ELSE PollingBytes(ToData(sent[k].packet))

\* Where the packets of J are: received, pending, b of them in the body of a response, and
\* the rest in the queue.
Carried(J, b) ==
    /\ b \in Nat
    /\ Len(received) <= Len(J)
    /\ \A i \in 1..Len(received) : received[i] = Arrival(sent[J[i]].packet)
    /\ stream # "failed"
    /\ stream = "lost" => pending = <<>>
    /\ stream = "open" =>
         LET r == Len(received)
             p == Len(received) + Len(pending)
         IN  /\ Len(J) = p + b + Len(queue)
             /\ \A i \in 1..Len(pending) : pending[i] = Arrival(sent[J[r + i]].packet)
             /\ b = 0 => body = <<>>
             /\ b # 0 => /\ path = "get" /\ body # <<>>
                         /\ body = PollingPayload([i \in 1..b |-> Wire(J[p + i])])
             /\ \A i \in 1..Len(queue) : queue[i] = Wire(J[p + b + i])

\* The inductive invariant.
InTransit == Sane => \E J, b : Ordered(J) /\ Carried(J, b)

LEMMA PacketsType == Packets \subseteq Packet
    BY WireAssumption DEF Packet

LEMMA DataType ==
    ASSUME NEW p \in Packet
    PROVE  ToData(p) \in Data
<1>1. PacketBytes(p) \in Seq(Byte) /\ p.data \in Seq(Byte)
    BY Bytes DEF Packet
<1> QED BY <1>1 DEF ToData, Data

LEMMA WebsocketBytesType ==
    ASSUME NEW d \in Data
    PROVE  WebsocketBytes(d) \in Seq(Byte)
<1> DEFINE bs == d.bytes
<1>1. bs \in Seq(Byte)
    BY DEF Data
<1>2. Raw("byte 4") \in Byte
    BY RawByte
<1> HIDE DEF bs
<1>3. <<Raw("byte 4")>> \o bs \in Seq(Byte)
    BY <1>1, <1>2, Put
<1> QED BY <1>1, <1>3 DEF WebsocketBytes, bs

\* Emitting appends to what was sent, an answer changes the last result.
LEMMA EmittedShape ==
    ASSUME Shape, NEW p \in Packets, NEW r \in {"wait", "ok", "err"}, Emitted(p, r)
    PROVE  /\ sent' \in Seq(Emit) /\ Len(sent') = Len(sent) + 1 /\ Len(sent) \in Nat
           /\ \A i \in 1..Len(sent) : sent'[i] = sent[i]
           /\ sent'[Len(sent) + 1] = [packet |-> p, result |-> r]
<1> DEFINE e == [packet |-> p, result |-> r]
<1>1. e \in Emit
    BY DEF Emit
<1>2. sent \in Seq(Emit) /\ sent' = Append(sent, e)
    BY DEF Shape, Emitted
<1> HIDE DEF e
<1>3. /\ sent' \in Seq(Emit) /\ Len(sent') = Len(sent) + 1 /\ Len(sent) \in Nat
      /\ \A i \in 1..Len(sent) : sent'[i] = sent[i]
      /\ sent'[Len(sent) + 1] = e
    BY <1>1, <1>2
<1> QED BY <1>3 DEF e

LEMMA AnsweredShape ==
    ASSUME Shape, Waiting, NEW r \in {"wait", "ok", "err"}, Answered(r)
    PROVE  /\ path = "post" /\ Len(sent) \in Nat /\ Len(sent) > 0
           /\ sent' \in Seq(Emit) /\ Len(sent') = Len(sent)
           /\ \A i \in 1..Len(sent) : i # Len(sent) => sent'[i] = sent[i]
           /\ sent'[Len(sent)].packet = sent[Len(sent)].packet
           /\ sent'[Len(sent)].result = r
<1>1. sent \in Seq(Emit) /\ sent # <<>> /\ sent[Len(sent)].result = "wait"
    BY DEF Shape, Waiting, Last
<1>2. Len(sent) \in Nat /\ Len(sent) > 0 /\ Len(sent) \in 1..Len(sent)
    BY <1>1
<1>3. path = "post"
    BY <1>1, <1>2 DEF Shape
<1> DEFINE n == Len(sent)
           e == [sent[n] EXCEPT !.result = r]
<1>4. sent[n] \in Emit
    BY <1>1, <1>2
<1>5. e \in Emit /\ e.packet = sent[n].packet /\ e.result = r
    BY <1>4 DEF Emit
<1>6. sent' = [sent EXCEPT ![n] = e]
    BY DEF Answered
<1> HIDE DEF e
<1>7. sent' \in Seq(Emit) /\ Len(sent') = n
      /\ \A i \in 1..n : sent'[i] = IF i = n THEN e ELSE sent[i]
    BY <1>1, <1>2, <1>5, <1>6
<1> QED BY <1>2, <1>3, <1>5, <1>7

LEMMA PostBodyIs ==
    ASSUME Shape, Waiting
    PROVE  /\ PostBody = PollingBytes(ToData(sent[Len(sent)].packet))
           /\ PostBody \in Seq(Byte) /\ Len(PostBody) \in Nat
           /\ \A n \in Nat : RequestComplete(n) => SubSeq(PostBody, 1, n - HeadSize) = PostBody
<1>1. sent \in Seq(Emit) /\ sent # <<>>
    BY DEF Shape, Waiting
<1>2. sent[Len(sent)] \in Emit
    BY <1>1
<1>3. sent[Len(sent)].packet \in Packet
    BY <1>2, PacketsType DEF Emit
<1>4. PostBody = PollingBytes(ToData(sent[Len(sent)].packet))
    BY DEF PostBody, Last
<1>5. PostBody \in Seq(Byte)
    BY <1>3, <1>4, Bytes
<1>6. ASSUME NEW n \in Nat, RequestComplete(n)
      PROVE  SubSeq(PostBody, 1, n - HeadSize) = PostBody
  <2>1. Len(PostBody) \in Nat /\ HeadSize \in Nat
      BY <1>5, WireAssumption
  <2>2. n - HeadSize = Len(PostBody)
      BY <1>6, <2>1 DEF RequestComplete
  <2>3. SubSeq(PostBody, 1, Len(PostBody)) = PostBody
      BY <1>5
  <2> QED BY <2>2, <2>3
<1> QED BY <1>4, <1>5, <1>6

\* One lemma per step.
LEMMA ShapeEmit ==
    ASSUME Shape, NEW p \in Packets, Len(sent) < MaxSent,
           ClientEmit(p) \/ ServerEmit(p) \/ WebsocketEmit(p)
    PROVE  Shape'
<1>0. p \in Packet /\ MaxSent \in Nat /\ PollingBuffer \in Nat
    BY PacketsType, WireAssumption
<1>1. PICK r \in {"wait", "ok", "err"} : Emitted(p, r) /\ (r = "wait" => path = "post" /\ ~Waiting)
    BY DEF ClientEmit, ServerEmit, WebsocketEmit
<1>2. UNCHANGED <<path, body, pending, received, stream>>
    BY DEF ClientEmit, ServerEmit, WebsocketEmit
<1>3. /\ sent' \in Seq(Emit) /\ Len(sent') = Len(sent) + 1 /\ Len(sent) \in Nat
      /\ \A i \in 1..Len(sent) : sent'[i] = sent[i]
      /\ sent'[Len(sent) + 1] = [packet |-> p, result |-> r]
    BY <1>1, EmittedShape
<1>4. Len(sent') <= MaxSent
    BY <1>0, <1>3
<1>5. ASSUME NEW i \in 1..Len(sent'), sent'[i].result = "wait"
      PROVE  path' = "post" /\ i = Len(sent')
  <2>1. i \in 1..Len(sent) \/ i = Len(sent) + 1
      BY <1>3
  <2>2. CASE i = Len(sent) + 1
    <3>1. r = "wait"
        BY <1>3, <1>5, <2>2
    <3> QED BY <1>1, <1>2, <1>3, <2>2, <3>1
  <2>3. CASE i \in 1..Len(sent)
    <3>1. sent[i].result = "wait"
        BY <1>3, <1>5, <2>3
    <3>2. path = "post" /\ i = Len(sent)
        BY <2>3, <3>1 DEF Shape
    <3>3. sent # <<>> /\ Last(sent).result = "wait"
        BY <2>3, <3>1, <3>2 DEF Last
    <3>4. Waiting
        BY <3>3 DEF Waiting
    <3>5. FALSE
        BY <3>2, <3>4 DEF ClientEmit, ServerEmit, WebsocketEmit
    <3> QED BY <3>5
  <2> QED BY <2>1, <2>2, <2>3
<1>6. /\ path # "ws" => queue' \in Seq(Seq(Byte)) /\ Len(queue') <= PollingBuffer
      /\ path = "ws" => queue' \in Seq(Data)
  <2>1. CASE ClientEmit(p)
    <3>1. queue' = queue
        BY <2>1 DEF ClientEmit
    <3> QED BY <3>1 DEF Shape
  <2>2. CASE ServerEmit(p)
    <3> DEFINE x == PollingBytes(ToData(p))
    <3>1. path = "get" /\ queue \in Seq(Seq(Byte)) /\ Len(queue) < PollingBuffer
          /\ queue' = Append(queue, x)
        BY <2>2 DEF ServerEmit, Shape
    <3>2. x \in Seq(Byte)
        BY <1>0, Bytes
    <3> HIDE DEF x
    <3>3. queue' \in Seq(Seq(Byte)) /\ Len(queue') = Len(queue) + 1 /\ Len(queue) \in Nat
        BY <3>1, <3>2
    <3>4. Len(queue') <= PollingBuffer
        BY <1>0, <3>1, <3>3
    <3> QED BY <3>1, <3>3, <3>4
  <2>3. CASE WebsocketEmit(p)
    <3> DEFINE x == ToData(p)
    <3>1. path = "ws" /\ queue \in Seq(Data) /\ (queue' = Append(queue, x) \/ queue' = queue)
        BY <2>3 DEF WebsocketEmit, Shape
    <3>2. x \in Data
        BY <1>0, DataType
    <3> HIDE DEF x
    <3>3. queue' \in Seq(Data)
        BY <3>1, <3>2
    <3> QED BY <3>1, <3>3
  <2> QED BY <2>1, <2>2, <2>3
<1> QED BY <1>2, <1>3, <1>4, <1>5, <1>6 DEF Shape

LEMMA ShapeServerReads ==
    ASSUME Shape, ServerReads
    PROVE  Shape'
<1>0. Waiting
    BY DEF ServerReads
<1>1. PICK n \in 1..HeadSize + Len(PostBody) : PostTaken(n) \/ PostIgnored(n) \/ PostRefused(n)
    BY DEF ServerReads
<1>2. UNCHANGED <<path, body, pending, received, stream>>
    BY <1>1 DEF PostTaken, PostIgnored, PostRefused
<1>3. PICK r \in {"ok", "err"} : Answered(r)
    BY <1>1 DEF PostTaken, PostIgnored, PostRefused
<1>4. /\ path = "post" /\ Len(sent) \in Nat /\ Len(sent) > 0
      /\ sent' \in Seq(Emit) /\ Len(sent') = Len(sent)
      /\ \A i \in 1..Len(sent) : i # Len(sent) => sent'[i] = sent[i]
    BY <1>0, <1>3, AnsweredShape
<1>5. Len(sent') <= MaxSent
    BY <1>4 DEF Shape
<1>6. \A i \in 1..Len(sent') : sent'[i].result = "wait" => path' = "post" /\ i = Len(sent')
    BY <1>2, <1>4 DEF Shape
<1>7. queue' \in Seq(Seq(Byte)) /\ Len(queue') <= PollingBuffer
  <2>0. queue \in Seq(Seq(Byte)) /\ Len(queue) <= PollingBuffer
      BY <1>4 DEF Shape
  <2>1. CASE PostIgnored(n) \/ PostRefused(n)
      BY <2>0, <2>1 DEF PostIgnored, PostRefused
  <2>2. CASE PostTaken(n)
    <3>1. n \in Nat
        BY <1>0, PostBodyIs, WireAssumption
    <3>2. Len(queue) < PollingBuffer /\ queue' = Append(queue, PostBody)
        BY <1>0, <2>2, <3>1, PostBodyIs DEF PostTaken
    <3>3. PostBody \in Seq(Byte)
        BY <1>0, PostBodyIs
    <3>4. queue' \in Seq(Seq(Byte)) /\ Len(queue') = Len(queue) + 1 /\ Len(queue) \in Nat
        BY <2>0, <3>2, <3>3
    <3>5. PollingBuffer \in Nat
        BY WireAssumption
    <3> QED BY <3>2, <3>4, <3>5
  <2> QED BY <1>1, <2>1, <2>2
<1> QED BY <1>2, <1>4, <1>5, <1>6, <1>7 DEF Shape

LEMMA ShapeReceive ==
    ASSUME Shape, Receive \/ ConnectionLost
    PROVE  Shape'
<1>0. PollingBuffer \in Nat /\ <<>> \in Seq(Seq(Byte)) /\ <<>> \in Seq(Data) /\ <<>> \in Seq(Byte)
      /\ Len(<<>>) = 0
    BY WireAssumption
<1>1. CASE ReadQueue
  <2> DEFINE bs == IF path = "ws" THEN WebsocketBytes(Head(queue)) ELSE Head(queue)
  <2>1. bs \in Seq(Byte) /\ queue # <<>>
    <3>1. queue # <<>>
        BY <1>1 DEF ReadQueue
    <3>2. CASE path = "ws"
      <4>1. Head(queue) \in Data
          BY <3>1, <3>2 DEF Shape
      <4> QED BY <3>1, <3>2, <4>1, WebsocketBytesType
    <3>3. CASE path # "ws"
      <4>1. queue \in Seq(Seq(Byte))
          BY <3>3 DEF Shape
      <4>2. Head(queue) \in Seq(Byte)
          BY ONLY <3>1, <4>1
      <4> QED BY <3>1, <3>3, <4>2
    <3> QED BY <3>2, <3>3
  <2>2. pending' = TryPayload(bs) /\ stream' \in {"failed", stream} /\ queue' = Tail(queue)
        /\ UNCHANGED <<path, sent, body, received>>
      BY <1>1 DEF ReadQueue, Parse
  <2> HIDE DEF bs
  <2>3. pending' \in Seq(Packet)
      BY <2>1, <2>2, TryPayloadType
  <2>4. CASE path = "ws"
    <3>1. queue' \in Seq(Data)
        BY <2>1, <2>2, <2>4 DEF Shape
    <3> QED BY <2>2, <2>3, <2>4, <3>1 DEF Shape
  <2>5. CASE path # "ws"
    <3>1. queue \in Seq(Seq(Byte)) /\ Len(queue) <= PollingBuffer
        BY <2>5 DEF Shape
    <3>2. queue' \in Seq(Seq(Byte)) /\ Len(queue') <= PollingBuffer
        BY <1>0, <2>1, <2>2, <3>1
    <3> QED BY <2>2, <2>3, <2>5, <3>2 DEF Shape
  <2> QED BY <2>4, <2>5
<1>2. CASE GetAnswer
  <2>1. path = "get" /\ queue \in Seq(Seq(Byte)) /\ body' = PollingPayload(queue) /\ queue' = <<>>
        /\ stream' \in {"failed", stream} /\ UNCHANGED <<path, sent, pending, received>>
      BY <1>2 DEF GetAnswer, Shape
  <2>2. body' \in Seq(Byte)
      BY <2>1, PayloadType
  <2>3. Len(queue') <= PollingBuffer /\ queue' \in Seq(Seq(Byte))
      BY <1>0, <2>1
  <2> QED BY <2>1, <2>2, <2>3 DEF Shape
<1>3. CASE ReadChunk
  <2>1. PICK n \in 1..Len(body) : Parse(SubSeq(body, 1, n))
                                  /\ body' = SubSeq(body, n + 1, Len(body))
    <3>1. body \in Seq(Byte) /\ body # <<>>
        BY <1>3 DEF ReadChunk, Shape
    <3>2. Len(body) \in 1..Len(body)
        BY <3>1
    <3> QED BY <1>3, <3>2 DEF ReadChunk
  <2>2. SubSeq(body, 1, n) \in Seq(Byte) /\ SubSeq(body, n + 1, Len(body)) \in Seq(Byte)
    <3>1. body \in Seq(Byte)
        BY DEF Shape
    <3>2. Len(body) \in Nat /\ \A i \in 1..Len(body) : body[i] \in Byte
        BY <3>1
    <3>3. \A i \in 1..n : body[i] \in Byte
        BY <3>2
    <3>4. \A i \in (n + 1)..Len(body) : body[i] \in Byte
        BY <3>2
    <3> QED BY <3>1, <3>2, <3>3, <3>4
  <2>3. pending' \in Seq(Packet) /\ stream' \in {"failed", stream}
      BY <2>1, <2>2, TryPayloadType DEF Parse
  <2>4. UNCHANGED <<path, sent, queue, received>>
      BY <1>3 DEF ReadChunk
  <2> QED BY <2>1, <2>2, <2>3, <2>4 DEF Shape
<1>4. CASE Yield
  <2>1. pending # <<>> /\ received' = Append(received, Head(pending)) /\ pending' = Tail(pending)
        /\ UNCHANGED <<path, sent, queue, body, stream>>
      BY <1>4 DEF Yield
  <2>2. pending \in Seq(Packet) /\ received \in Seq(Packet)
      BY DEF Shape
  <2>3. received' \in Seq(Packet) /\ pending' \in Seq(Packet)
      BY <2>1, <2>2
  <2> QED BY <2>1, <2>3 DEF Shape
<1>5. CASE ConnectionLost
  <2>1. stream' = "lost" /\ queue' = <<>> /\ body' = <<>> /\ UNCHANGED <<path, sent, pending, received>>
      BY <1>5 DEF ConnectionLost
  <2>2. queue' \in Seq(Seq(Byte)) /\ Len(queue') <= PollingBuffer /\ queue' \in Seq(Data)
        /\ body' \in Seq(Byte)
      BY <1>0, <2>1
  <2> QED BY <2>1, <2>2 DEF Shape
<1> QED BY <1>1, <1>2, <1>3, <1>4, <1>5 DEF Receive

LEMMA ShapeInit == Init => Shape
<1> SUFFICES ASSUME Init PROVE Shape
    OBVIOUS
<1>1. /\ <<>> \in Seq(Seq(Byte)) /\ <<>> \in Seq(Data) /\ <<>> \in Seq(Byte) /\ Len(<<>>) = 0
      /\ <<>> \in Seq(Emit) /\ <<>> \in Seq(Packet)
    OBVIOUS
<1>2. PollingBuffer \in Nat /\ MaxSent \in Nat
    BY WireAssumption
<1>3. \A i \in 1..Len(sent) : FALSE
    BY <1>1 DEF Init
<1> QED BY <1>1, <1>2, <1>3 DEF Init, Shape

LEMMA ShapeNext == Shape /\ [Next]_vars => Shape'
<1> SUFFICES ASSUME Shape, [Next]_vars PROVE Shape'
    OBVIOUS
<1>1. CASE Send
    BY <1>1, ShapeEmit DEF Send
<1>2. CASE ServerReads
    BY <1>2, ShapeServerReads
<1>3. CASE Receive \/ ConnectionLost
    BY <1>3, ShapeReceive
<1>4. CASE UNCHANGED vars
    BY <1>4 DEF vars, Shape
<1> QED BY <1>1, <1>2, <1>3, <1>4 DEF Next

LEMMA ShapeType == Shape => TypeOK
<1> SUFFICES ASSUME Shape PROVE TypeOK
    OBVIOUS
<1>1. DOMAIN sent = 1..Len(sent) /\ DOMAIN received = 1..Len(received)
    BY DEF Shape
<1>2. \A i \in 1..Len(sent) : sent[i] \in Emit
    BY DEF Shape
<1>3. \A i \in 1..Len(received) : received[i] \in Packet
    BY DEF Shape
<1>4. \A i \in 1..Len(sent) : sent[i].packet \in Packets /\ sent[i].result \in {"wait", "ok", "err"}
    BY <1>2 DEF Emit
<1>5. \A i \in 1..Len(received) : received[i].ptype \in PacketType
    BY <1>3 DEF Packet
<1> QED BY <1>1, <1>4, <1>5 DEF Shape, TypeOK

\* TypeOK for any packets and sizes: a polling channel is never filled past its capacity,
\* and a client that polls has at most one POST under way, its last emit.
THEOREM TypeCorrect == Spec => []TypeOK
<1>1. Spec => []Shape
    BY ShapeInit, ShapeNext, PTL DEF Spec
<1> QED BY <1>1, ShapeType, PTL

-----------------------------------------------------------------------------
(* What was emitted stays what it is *)

LEMMA PacketAt ==
    ASSUME Shape, NEW k \in 1..Len(sent)
    PROVE  sent[k].packet \in Packet
<1>1. sent[k] \in Emit
    BY DEF Shape
<1> QED BY <1>1, PacketsType DEF Emit

\* No emit is forgotten and no packet changed.
SamePackets ==
    /\ path' = path /\ Len(sent) <= Len(sent')
    /\ \A k \in 1..Len(sent) : sent'[k].packet = sent[k].packet

LEMMA WireSame ==
    ASSUME SamePackets, NEW k \in 1..Len(sent)
    PROVE  /\ Wire(k)' = Wire(k)
           /\ Arrival(sent[k].packet)' = Arrival(sent[k].packet)
BY DEF SamePackets, Wire, Arrival

Queued(s) == [i \in DOMAIN s |-> PollingBytes(ToData(s[i].packet))]

LEMMA QueuedType ==
    ASSUME NEW s \in Seq(Emit)
    PROVE  /\ Queued(s) \in Seq(Seq(Byte)) /\ Len(Queued(s)) = Len(s)
           /\ \A i \in 1..Len(s) : Queued(s)[i] = PollingBytes(ToData(s[i].packet))
<1>1. DOMAIN s = 1..Len(s) /\ Len(s) \in Nat
    OBVIOUS
<1>2. \A i \in 1..Len(s) : s[i] \in Emit
    OBVIOUS
<1>3. \A i \in 1..Len(s) : s[i].packet \in Packet
    BY <1>2, PacketsType DEF Emit
<1> DEFINE x(i) == PollingBytes(ToData(s[i].packet))
<1>4. \A i \in 1..Len(s) : x(i) \in Seq(Byte)
    BY <1>3, Bytes
<1>5. Queued(s) = [i \in 1..Len(s) |-> x(i)]
    BY <1>1 DEF Queued
<1> HIDE DEF x
<1>6. Queued(s) \in [1..Len(s) -> Seq(Byte)] /\ \A i \in 1..Len(s) : Queued(s)[i] = x(i)
    BY <1>4, <1>5
<1> QED BY <1>1, <1>6 DEF x

\* Later packets do not make the earlier ones sane.
LEMMA SaneBefore ==
    ASSUME Shape, Shape', SamePackets, Sane'
    PROVE  Sane
<1>1. /\ sent \in Seq(Emit) /\ sent' \in Seq(Emit) /\ path' = path
      /\ Len(sent) \in Nat /\ Len(sent') \in Nat /\ Len(sent) <= Len(sent')
    BY DEF Shape, SamePackets
<1>2. DOMAIN sent = 1..Len(sent) /\ DOMAIN sent' = 1..Len(sent')
    BY <1>1
<1>3. \A i \in 1..Len(sent) : Portable(sent[i].packet)
  <2> SUFFICES ASSUME NEW i \in 1..Len(sent) PROVE Portable(sent[i].packet)
      OBVIOUS
  <2>1. i \in DOMAIN sent' /\ sent'[i].packet = sent[i].packet
      BY <1>1, <1>2 DEF SamePackets
  <2>2. Portable(sent[i].packet)'
      BY <2>1 DEF Sane
  <2> QED BY <1>1, <2>1, <2>2 DEF Portable
<1>4. ASSUME path = "get" PROVE Len(PollingPayload(Queued(sent))) <= ChunkSize
  <2> DEFINE r == Queued(sent)
             q == Queued(sent')
  <2>1. Len(PollingPayload(q)) <= ChunkSize
      BY <1>1, <1>4 DEF Sane, Queued
  <2>2. /\ r \in Seq(Seq(Byte)) /\ Len(r) = Len(sent)
        /\ \A i \in 1..Len(sent) : r[i] = PollingBytes(ToData(sent[i].packet))
      BY <1>1, QueuedType
  <2>3. /\ q \in Seq(Seq(Byte)) /\ Len(q) = Len(sent')
        /\ \A i \in 1..Len(sent') : q[i] = PollingBytes(ToData(sent'[i].packet))
      BY <1>1, QueuedType
  <2>4. \A i \in 1..Len(r) : r[i] = q[0 + i]
    <3>1. \A i \in 1..Len(sent) : i \in 1..Len(sent') /\ 0 + i = i
        BY <1>1
    <3> HIDE DEF r, q
    <3> QED BY <2>2, <2>3, <3>1 DEF SamePackets
  <2> HIDE DEF r, q
  <2>5. 0 \in Nat /\ 0 + Len(r) <= Len(q)
      BY <1>1, <2>2, <2>3
  <2>6. Len(PollingPayload(r)) <= Len(PollingPayload(q))
      BY <2>2, <2>3, <2>4, <2>5, PayloadPart
  <2>7. PollingPayload(r) \in Seq(Byte) /\ PollingPayload(q) \in Seq(Byte) /\ ChunkSize \in Nat
      BY <2>2, <2>3, PayloadType, WireAssumption
  <2> DEFINE x == Len(PollingPayload(r))
             y == Len(PollingPayload(q))
  <2>8. x \in Nat /\ y \in Nat /\ x <= y /\ y <= ChunkSize /\ ChunkSize \in Nat
      BY <2>1, <2>6, <2>7
  <2> HIDE DEF x, y
  <2>9. x <= ChunkSize
      BY <2>8
  <2> QED BY <2>9 DEF x, r
<1> QED BY <1>2, <1>3, <1>4 DEF Sane, Queued

LEMMA EmittedSame ==
    ASSUME Shape, NEW p \in Packets, NEW r \in {"wait", "ok", "err"}, Emitted(p, r), path' = path
    PROVE  SamePackets
<1>1. /\ Len(sent') = Len(sent) + 1 /\ Len(sent) \in Nat
      /\ \A i \in 1..Len(sent) : sent'[i] = sent[i]
    BY EmittedShape
<1> QED BY <1>1 DEF SamePackets

LEMMA AnsweredSame ==
    ASSUME Shape, Waiting, NEW r \in {"wait", "ok", "err"}, Answered(r), path' = path
    PROVE  SamePackets
<1>1. /\ Len(sent) \in Nat /\ Len(sent') = Len(sent)
      /\ \A i \in 1..Len(sent) : i # Len(sent) => sent'[i] = sent[i]
      /\ sent'[Len(sent)].packet = sent[Len(sent)].packet
    BY AnsweredShape
<1> QED BY <1>1 DEF SamePackets
-----------------------------------------------------------------------------
(* The emits that were handed on *)

\* One more of them, at the end.
OneMore(J, K, k, m) ==
    /\ K \in Seq(1..m) /\ Len(K) = Len(J) + 1
    /\ \A j \in 1..Len(J) : K[j] = J[j]
    /\ K[Len(J) + 1] = k
    /\ \A i, j \in 1..Len(K) : i < j => K[i] < K[j]

LEMMA AppendOrder ==
    ASSUME NEW n \in Nat, NEW J \in Seq(1..n), NEW m \in Nat, n <= m, NEW k \in 1..m,
           \A j \in 1..Len(J) : J[j] < k,
           \A i, j \in 1..Len(J) : i < j => J[i] < J[j]
    PROVE  OneMore(J, Append(J, k), k, m)
<1> DEFINE K == Append(J, k)
<1>1. J \in Seq(1..m) /\ Len(J) \in Nat
  <2>1. \A i \in 1..Len(J) : J[i] \in 1..m
      OBVIOUS
  <2>2. J = [i \in 1..Len(J) |-> J[i]] /\ Len(J) \in Nat
      OBVIOUS
  <2>3. J \in [1..Len(J) -> 1..m]
      BY <2>1, <2>2
  <2> QED BY <2>2, <2>3
<1>2. /\ K \in Seq(1..m) /\ Len(K) = Len(J) + 1
      /\ \A j \in 1..Len(J) : K[j] = J[j]
      /\ K[Len(J) + 1] = k
    BY <1>1
<1> HIDE DEF K
<1>3. ASSUME NEW i \in 1..Len(K), NEW j \in 1..Len(K), i < j PROVE K[i] < K[j]
  <2>1. i \in 1..Len(J)
      BY <1>1, <1>2, <1>3
  <2>2. j \in 1..Len(J) \/ j = Len(J) + 1
      BY <1>1, <1>2
  <2> QED BY <1>2, <1>3, <2>1, <2>2
<1>4. OneMore(J, K, k, m)
    BY <1>2, <1>3 DEF OneMore
<1> QED BY <1>4 DEF K

LEMMA OrderedEmitted ==
    ASSUME Shape, NEW J, Ordered(J), path' = path, NEW n, n = Len(sent),
           NEW p \in Packets, NEW r \in {"wait", "ok", "err"}, Emitted(p, r)
    PROVE  /\ r # "ok" /\ path # "get" => Ordered(J)'
           /\ r # "wait" => Ordered(Append(J, n + 1))'
<1> DEFINE K == Append(J, n + 1)
<1>1. /\ sent' \in Seq(Emit) /\ Len(sent') = n + 1 /\ n \in Nat
      /\ \A i \in 1..n : sent'[i] = sent[i]
      /\ sent'[n + 1].result = r
  <2>1. /\ sent' \in Seq(Emit) /\ Len(sent') = Len(sent) + 1 /\ Len(sent) \in Nat
        /\ \A i \in 1..Len(sent) : sent'[i] = sent[i]
        /\ sent'[Len(sent) + 1] = [packet |-> p, result |-> r]
      BY EmittedShape
  <2>2. sent'[Len(sent) + 1].result = r
      BY <2>1
  <2> QED BY <2>1, <2>2
<1>2. /\ J \in Seq(1..n) /\ Len(J) <= n /\ Len(J) \in Nat
      /\ \A j, k \in 1..Len(J) : j < k => J[j] < J[k]
      /\ \A i \in 1..n : sent[i].result = "ok" => \E j \in 1..Len(J) : J[j] = i
      /\ path = "get" => Len(J) = n /\ \A j \in 1..Len(J) : J[j] = j
  <2>1. J \in Seq(1..n)
      BY DEF Ordered
  <2>2. Len(J) \in Nat
      BY <2>1
  <2> QED BY <2>1, <2>2 DEF Ordered
<1>3. \A j \in 1..Len(J) : J[j] \in 1..n /\ J[j] < n + 1
    BY <1>1, <1>2
<1>4. /\ K \in Seq(1..(n + 1)) /\ Len(K) = Len(J) + 1
      /\ \A j \in 1..Len(J) : K[j] = J[j]
      /\ K[Len(J) + 1] = n + 1
      /\ \A i, j \in 1..Len(K) : i < j => K[i] < K[j]
  <2>1. n + 1 \in Nat /\ n <= n + 1 /\ n + 1 \in 1..(n + 1)
      BY <1>1
  <2> DEFINE m == n + 1
  <2>2. m \in Nat /\ n <= m /\ m \in 1..m /\ \A j \in 1..Len(J) : J[j] < m
      BY <1>3, <2>1
  <2> HIDE DEF m
  <2>3. OneMore(J, Append(J, m), m, m)
      BY ONLY <1>1, <1>2, <2>2, AppendOrder
  <2> QED BY <2>3 DEF OneMore, m
<1>5. Waiting' => r = "wait"
    BY <1>1 DEF Waiting, Last
<1>6. \A i \in 1..(n + 1) : i \in 1..n \/ i = n + 1
    BY <1>1
<1>7. ASSUME r # "ok", path # "get" PROVE Ordered(J)'
  <2>1. J \in Seq(1..(n + 1))
    <3>1. \A i \in 1..Len(J) : J[i] \in 1..(n + 1)
        BY <1>1, <1>3
    <3>2. J = [i \in 1..Len(J) |-> J[i]]
        BY <1>2
    <3>3. J \in [1..Len(J) -> 1..(n + 1)]
        BY <3>1, <3>2
    <3> QED BY <1>2, <3>3
  <2>2. Len(J) < n + 1 /\ Len(J) <= n + 1
      BY <1>1, <1>2
  <2>3. \A i \in 1..(n + 1) : sent'[i].result = "ok" => \E j \in 1..Len(J) : J[j] = i
      BY <1>1, <1>2, <1>6, <1>7
  <2> QED BY <1>1, <1>2, <1>3, <1>7, <2>1, <2>2, <2>3 DEF Ordered
<1>8. ASSUME r # "wait" PROVE Ordered(K)'
  <2> HIDE DEF K
  <2>0. Len(J) + 1 \in 1..Len(K) /\ \A j \in 1..Len(J) : j \in 1..Len(K)
      BY <1>2, <1>4
  <2>1. \A i \in 1..(n + 1) : sent'[i].result = "ok" => \E j \in 1..Len(K) : K[j] = i
    <3> SUFFICES ASSUME NEW i \in 1..(n + 1), sent'[i].result = "ok"
                 PROVE  \E j \in 1..Len(K) : K[j] = i
        OBVIOUS
    <3>1. CASE i = n + 1
        BY <1>4, <2>0, <3>1
    <3>2. CASE i \in 1..n
      <4>1. PICK j \in 1..Len(J) : J[j] = i
          BY <1>1, <1>2, <3>2
      <4> QED BY <1>4, <2>0, <4>1
    <3> QED BY <1>6, <3>1, <3>2
  <2>2. Len(K) <= n + 1
      BY <1>1, <1>2, <1>4
  <2>3. ASSUME path = "get" PROVE Len(K) = n + 1 /\ \A j \in 1..Len(K) : K[j] = j
    <3>1. Len(J) = n /\ \A j \in 1..Len(J) : J[j] = j
        BY <1>2, <2>3
    <3>2. \A j \in 1..Len(K) : j \in 1..Len(J) \/ j = Len(J) + 1
        BY <1>2, <1>4
    <3> QED BY <1>4, <3>1, <3>2
  <2>4. ~Waiting'
      BY <1>5, <1>8
  <2> QED BY <1>1, <1>4, <2>1, <2>2, <2>3, <2>4 DEF Ordered
<1> QED BY <1>7, <1>8

LEMMA OrderedAnswered ==
    ASSUME Shape, NEW J, Ordered(J), path' = path, Waiting, NEW n, n = Len(sent),
           NEW r \in {"ok", "err"}, Answered(r)
    PROVE  /\ r = "err" => Ordered(J)'
           /\ Ordered(Append(J, n))'
<1> DEFINE K == Append(J, n)
<1>1. /\ path = "post" /\ n \in Nat /\ n > 0 /\ sent' \in Seq(Emit) /\ Len(sent') = n
      /\ \A i \in 1..n : i # n => sent'[i] = sent[i]
      /\ sent'[n].result = r
    BY AnsweredShape
<1>2. /\ J \in Seq(1..n) /\ Len(J) <= n /\ Len(J) \in Nat
      /\ \A j, k \in 1..Len(J) : j < k => J[j] < J[k]
      /\ \A i \in 1..n : sent[i].result = "ok" => \E j \in 1..Len(J) : J[j] = i
      /\ Len(J) < n /\ \A j \in 1..Len(J) : J[j] < n
    BY DEF Ordered
<1>4. /\ K \in Seq(1..n) /\ Len(K) = Len(J) + 1
      /\ \A j \in 1..Len(J) : K[j] = J[j]
      /\ K[Len(J) + 1] = n
      /\ \A i, j \in 1..Len(K) : i < j => K[i] < K[j]
  <2>1. n <= n /\ n \in 1..n
      BY <1>1
  <2>2. OneMore(J, Append(J, n), n, n)
      BY ONLY <1>1, <1>2, <2>1, AppendOrder
  <2> QED BY <2>2 DEF OneMore
<1>5. ~Waiting'
    BY <1>1 DEF Waiting, Last
<1>6. ASSUME r = "err" PROVE Ordered(J)'
  <2>1. \A i \in 1..n : sent'[i].result = "ok" => \E j \in 1..Len(J) : J[j] = i
      BY <1>1, <1>2, <1>6
  <2> QED BY <1>1, <1>2, <1>5, <2>1 DEF Ordered
<1>7. Ordered(K)'
  <2> HIDE DEF K
  <2>0. Len(J) + 1 \in 1..Len(K) /\ \A j \in 1..Len(J) : j \in 1..Len(K)
      BY <1>2, <1>4
  <2>1. \A i \in 1..n : sent'[i].result = "ok" => \E j \in 1..Len(K) : K[j] = i
    <3> SUFFICES ASSUME NEW i \in 1..n, sent'[i].result = "ok"
                 PROVE  \E j \in 1..Len(K) : K[j] = i
        OBVIOUS
    <3>1. CASE i = n
        BY <1>4, <2>0, <3>1
    <3>2. CASE i # n
      <4>1. PICK j \in 1..Len(J) : J[j] = i
          BY <1>1, <1>2, <3>2
      <4> QED BY <1>4, <2>0, <4>1
    <3> QED BY <3>1, <3>2
  <2>2. Len(K) <= n
      BY <1>1, <1>2, <1>4
  <2> QED BY <1>1, <1>4, <1>5, <2>1, <2>2 DEF Ordered
<1> QED BY <1>6, <1>7

-----------------------------------------------------------------------------
(* Where their packets are *)

\* The number of packets on their way.
LEMMA CarriedLen ==
    ASSUME Shape, NEW J, Ordered(J), NEW b, Carried(J, b), stream = "open"
    PROVE  /\ b \in Nat /\ Len(J) \in Nat /\ Len(received) \in Nat /\ Len(pending) \in Nat
           /\ Len(queue) \in Nat
           /\ Len(J) = Len(received) + Len(pending) + b + Len(queue)
           /\ \A j \in 1..Len(J) : J[j] \in 1..Len(sent)
<1>1. J \in Seq(1..Len(sent))
    BY DEF Ordered
<1>2. Len(received) \in Nat /\ Len(pending) \in Nat
    BY DEF Shape
<1>3. Len(queue) \in Nat
  <2>1. CASE path = "ws"
      BY <2>1 DEF Shape
  <2>2. CASE path # "ws"
    <3>1. queue \in Seq(Seq(Byte))
        BY <2>2 DEF Shape
    <3> QED BY ONLY <3>1
  <2> QED BY <2>1, <2>2
<1>4. Len(J) = Len(received) + Len(pending) + b + Len(queue) /\ b \in Nat
    BY DEF Carried
<1> QED BY <1>1, <1>2, <1>3, <1>4

\* Nothing moves but that packets may join the end of the queue.
LEMMA CarriedOn ==
    ASSUME Shape, NEW J, Ordered(J), NEW b, Carried(J, b), SamePackets,
           UNCHANGED <<body, pending, received, stream>>,
           NEW K, Len(K) \in Nat, Len(J) <= Len(K), \A j \in 1..Len(J) : K[j] = J[j],
           Len(queue') = Len(queue) + (Len(K) - Len(J)),
           \A i \in 1..Len(queue) : queue'[i] = queue[i],
           \A i \in 1..(Len(K) - Len(J)) : queue'[Len(queue) + i] = Wire(K[Len(J) + i])'
    PROVE  Carried(K, b)'
<1>0. J \in Seq(1..Len(sent)) /\ path' = path
    BY DEF Ordered, SamePackets
<1>1. Len(J) \in Nat /\ \A j \in 1..Len(J) : J[j] \in 1..Len(sent)
    BY <1>0
<1>2. /\ b \in Nat /\ Len(received) <= Len(J) /\ stream # "failed"
      /\ \A i \in 1..Len(received) : received[i] = Arrival(sent[J[i]].packet)
      /\ stream = "lost" => pending = <<>>
    BY DEF Carried
<1>3. Len(received) \in Nat
    BY DEF Shape
<1>4. Len(received) <= Len(K)
    BY <1>1, <1>2, <1>3
<1>5. \A j \in 1..Len(J) : Arrival(sent[K[j]].packet)' = Arrival(sent[J[j]].packet)
  <2> SUFFICES ASSUME NEW j \in 1..Len(J)
               PROVE  Arrival(sent[K[j]].packet)' = Arrival(sent[J[j]].packet)
      OBVIOUS
  <2>1. J[j] \in 1..Len(sent) /\ K[j] = J[j]
      BY <1>1
  <2> QED BY <2>1, WireSame
<1>6. \A j \in 1..Len(J) : Wire(K[j])' = Wire(J[j])
  <2> SUFFICES ASSUME NEW j \in 1..Len(J) PROVE Wire(K[j])' = Wire(J[j])
      OBVIOUS
  <2>1. J[j] \in 1..Len(sent) /\ K[j] = J[j]
      BY <1>1
  <2> QED BY <2>1, WireSame
<1>7. \A i \in 1..Len(received) : received[i] = Arrival(sent[K[i]].packet)'
  <2>1. \A i \in 1..Len(received) : i \in 1..Len(J)
      BY <1>1, <1>2, <1>3
  <2> QED BY <1>2, <1>5, <2>1
<1>8. CASE stream # "open"
    BY <1>2, <1>4, <1>7, <1>8 DEF Carried
<1>9. CASE stream = "open"
  <2>0. PICK r, p, q : r = Len(received) /\ p = Len(received) + Len(pending) /\ q = Len(queue)
      OBVIOUS
  <2>1. /\ r \in Nat /\ p \in Nat /\ q \in Nat /\ b \in Nat /\ r <= p
        /\ Len(J) = p + b + q /\ Len(pending) \in Nat /\ p = r + Len(pending)
      BY <1>9, <2>0, CarriedLen
  <2>2. /\ \A i \in 1..Len(pending) : pending[i] = Arrival(sent[J[r + i]].packet)
        /\ b = 0 => body = <<>>
        /\ b # 0 => /\ path = "get" /\ body # <<>>
                    /\ body = PollingPayload([i \in 1..b |-> Wire(J[p + i])])
        /\ \A i \in 1..q : queue[i] = Wire(J[p + b + i])
      BY <1>9, <2>0 DEF Carried
  <2>3. Len(K) = p + b + Len(queue')
      BY <1>1, <2>0, <2>1
  <2>4. \A i \in 1..Len(pending) : pending[i] = Arrival(sent[K[r + i]].packet)'
    <3>1. \A i \in 1..Len(pending) : r + i \in 1..Len(J)
        BY <2>1
    <3> QED BY <1>5, <2>2, <3>1
  <2>5. [i \in 1..b |-> Wire(K[p + i])'] = [i \in 1..b |-> Wire(J[p + i])]
    <3>1. \A i \in 1..b : p + i \in 1..Len(J)
        BY <2>1
    <3> QED BY <1>6, <3>1
  <2>6. ASSUME NEW i \in 1..Len(queue') PROVE queue'[i] = Wire(K[p + b + i])'
    <3>1. CASE i <= q
      <4>1. i \in 1..q /\ p + b + i \in 1..Len(J)
          BY <2>1, <3>1
      <4>2. queue'[i] = queue[i] /\ queue[i] = Wire(J[p + b + i])
          BY <2>0, <2>2, <4>1
      <4> QED BY <1>6, <4>1, <4>2
    <3>2. CASE ~(i <= q)
      <4> DEFINE k == i - q
      <4>1. k \in 1..(Len(K) - Len(J)) /\ q + k = i /\ Len(J) + k = p + b + i
          BY <1>1, <2>0, <2>1, <3>2
      <4>2. queue'[q + k] = Wire(K[Len(J) + k])'
        <5> HIDE DEF k
        <5> QED BY <2>0, <4>1
      <4> QED BY <4>1, <4>2
    <3> QED BY <3>1, <3>2
  <2> DEFINE f == [i \in 1..b |-> Wire(K[p + i])']
  <2>7. b # 0 => path' = "get" /\ body' # <<>> /\ body' = PollingPayload(f)
      BY <1>0, <2>2, <2>5
  <2>8. b = 0 => body' = <<>>
      BY <2>2
  <2>9. r = Len(received') /\ p = Len(received') + Len(pending')
      BY <2>0
  <2>10. f = [i \in 1..b |-> Wire(K[Len(received) + Len(pending) + i])]'
      BY <2>9
  <2> HIDE DEF f
  <2>11. b # 0 => /\ path' = "get" /\ body' # <<>>
                  /\ (body = PollingPayload([i \in 1..b |-> Wire(K[Len(received) + Len(pending) + i])]))'
      BY <2>7, <2>10
  <2>12. \A i \in 1..Len(pending') : (pending[i] = Arrival(sent[K[Len(received) + i]].packet))'
      BY <2>4, <2>9
  <2>13. \A i \in 1..Len(queue') : (queue[i] = Wire(K[Len(received) + Len(pending) + b + i]))'
      BY <2>6, <2>9
  <2>14. Len(K) = Len(received') + Len(pending') + b + Len(queue')
      BY <2>3, <2>9
  <2>15. stream' = "open" /\ Len(received') <= Len(K)
         /\ \A i \in 1..Len(received') : received'[i] = Arrival(sent[K[i]].packet)'
      BY <1>4, <1>7, <1>9
  <2> QED BY <2>1, <2>8, <2>11, <2>12, <2>13, <2>14, <2>15 DEF Carried
<1> QED BY <1>8, <1>9

LEMMA CarriedSame ==
    ASSUME Shape, NEW J, Ordered(J), NEW b, Carried(J, b), SamePackets,
           UNCHANGED <<queue, body, pending, received, stream>>
    PROVE  Carried(J, b)'
<1>1. J \in Seq(1..Len(sent))
    BY DEF Ordered
<1>2. Len(J) \in Nat /\ Len(J) <= Len(J) /\ Len(J) - Len(J) = 0
    BY <1>1
<1>3. Len(queue) \in Nat
  <2>1. CASE path = "ws"
      BY <2>1 DEF Shape
  <2>2. CASE path # "ws"
    <3>1. queue \in Seq(Seq(Byte))
        BY <2>2 DEF Shape
    <3> QED BY ONLY <3>1
  <2> QED BY <2>1, <2>2
<1>4. Len(queue') = Len(queue) + (Len(J) - Len(J))
    BY <1>2, <1>3
<1>5. \A i \in 1..(Len(J) - Len(J)) : FALSE
    BY <1>2
<1> QED BY <1>2, <1>4, <1>5, CarriedOn

LEMMA CarriedMore ==
    ASSUME Shape, NEW J, Ordered(J), NEW b, Carried(J, b), SamePackets,
           UNCHANGED <<body, pending, received, stream>>,
           NEW k, NEW S, queue \in Seq(S), Wire(k)' \in S, queue' = Append(queue, Wire(k)'),
           NEW K, Len(K) = Len(J) + 1, \A j \in 1..Len(J) : K[j] = J[j], K[Len(J) + 1] = k
    PROVE  Carried(K, b)'
<1>1. J \in Seq(1..Len(sent))
    BY DEF Ordered
<1>2. Len(J) \in Nat
    BY <1>1
<1>3. Len(K) \in Nat /\ Len(J) <= Len(K) /\ Len(K) - Len(J) = 1
    BY <1>2
<1> DEFINE w == Wire(k)'
<1>4. w \in S /\ queue' = Append(queue, w)
    OBVIOUS
<1> HIDE DEF w
<1>5. /\ Len(queue) \in Nat /\ Len(queue') = Len(queue) + 1
      /\ \A i \in 1..Len(queue) : queue'[i] = queue[i]
      /\ queue'[Len(queue) + 1] = w
    BY <1>4
<1>6. Len(queue') = Len(queue) + (Len(K) - Len(J))
    BY <1>3, <1>5
<1>7. \A i \in 1..(Len(K) - Len(J)) : queue'[Len(queue) + i] = Wire(K[Len(J) + i])'
  <2>1. \A i \in 1..(Len(K) - Len(J)) : i = 1
      BY <1>3
  <2> QED BY <1>5, <2>1 DEF w
<1> QED BY <1>3, <1>5, <1>6, <1>7, CarriedOn

-----------------------------------------------------------------------------
(* What a transport can carry *)

\* Over a POST the bytes are one piece and parse as the packet.
LEMMA PortablePost ==
    ASSUME path = "post", NEW p \in Packet, Portable(p)
    PROVE  TryPayload(PollingBytes(ToData(p))) = <<Arrival(p)>>
<1>1. p.ptype = "MessageBinary" \/ NoSeparator(p.data)
    BY DEF Portable, Contains, NoSeparator
<1>2. p.ptype = "Message" => p.data # <<>>
    BY DEF Portable
<1>3. NoSeparator(PacketBytes(p))
    BY <1>1, BytesNoSeparator
<1>4. TryPacket(PacketBytes(p)) = {p}
    BY <1>2, ParsePacket
<1>5. PacketBytes(p) \in Seq(Byte) /\ PollingBytes(ToData(p)) = PacketBytes(p)
    BY Bytes
<1>6. TryPayload(PacketBytes(p)) = <<p>>
    BY <1>3, <1>4, <1>5, ParseOne
<1>7. Arrival(p) = p
    BY DEF Arrival
<1> QED BY <1>5, <1>6, <1>7

\* So they are as a websocket's message, which turns MessageBinary into Message.
LEMMA PortableWebsocket ==
    ASSUME path = "ws", NEW p \in Packet, Portable(p)
    PROVE  TryPayload(WebsocketBytes(ToData(p))) = <<Arrival(p)>>
<1>0. p.data \in Seq(Byte) /\ p = [ptype |-> p.ptype, data |-> p.data]
    BY DEF Packet
<1>1. NoSeparator(p.data)
    BY DEF Portable, Contains, NoSeparator
<1>2. CASE p.ptype = "MessageBinary"
  <2> DEFINE d == p.data
             m == [ptype |-> "Message", data |-> d]
             bs == <<Raw("byte 4")>> \o d
  <2>1. d # <<>>
      BY <1>2 DEF Portable
  <2>2. ToData(p).kind = "Binary" /\ ToData(p).bytes = d
      BY <1>2 DEF ToData
  <2>3. WebsocketBytes(ToData(p)) = bs
      BY <2>2 DEF WebsocketBytes
  <2>4. TryPacket(bs) = {m}
    <3>1. d \in Seq(Byte)
        BY <1>0
    <3> HIDE DEF d
    <3> QED BY <2>1, <3>1, ParseBinary
  <2>5. Raw("byte 4") \in Byte /\ Raw("byte 4") # SEPARATOR
    <3>1. Raw("byte 4") # SEPARATOR
        BY DEF Raw, SEPARATOR
    <3> QED BY <3>1, RawByte
  <2>6. bs \in Seq(Byte) /\ Len(bs) = Len(d) + 1 /\ bs[1] = Raw("byte 4")
        /\ \A i \in 1..Len(d) : bs[i + 1] = d[i]
    <3>1. d \in Seq(Byte)
        BY <1>0
    <3> HIDE DEF d
    <3> DEFINE x == Raw("byte 4")
    <3>2. x \in Byte
        BY <2>5
    <3> HIDE DEF x
    <3>3. /\ <<x>> \o d \in Seq(Byte) /\ Len(<<x>> \o d) = Len(d) + 1 /\ (<<x>> \o d)[1] = x
          /\ \A i \in 1..Len(d) : (<<x>> \o d)[i + 1] = d[i]
        BY ONLY <3>1, <3>2, Put
    <3> QED BY <3>3 DEF x
  <2> HIDE DEF bs, d, m
  <2>7. NoSeparator(bs)
    <3>1. Len(d) \in Nat /\ NoSeparator(d)
        BY <1>0, <1>1 DEF d
    <3>2. bs[1] = Raw("byte 4")
        BY <2>6
    <3>3. ASSUME NEW i \in 1..Len(bs) PROVE bs[i] # SEPARATOR
      <4>1. i = 1 \/ (i - 1 \in 1..Len(d) /\ (i - 1) + 1 = i)
        <5>1. Len(bs) = Len(d) + 1 /\ Len(d) \in Nat
            BY <2>6, <3>1
        <5> QED BY ONLY <5>1, i \in 1..Len(bs)
      <4>2. ASSUME i - 1 \in 1..Len(d), (i - 1) + 1 = i PROVE bs[i] # SEPARATOR
          BY <2>6, <3>1, <4>2 DEF NoSeparator
      <4> QED BY <2>5, <3>2, <4>1, <4>2
    <3> QED BY <3>3 DEF NoSeparator
  <2>8. TryPayload(bs) = <<m>>
      BY <2>4, <2>6, <2>7, ParseOne
  <2>9. Arrival(p) = m
    <3>1. Arrival(p) = [p EXCEPT !.ptype = "Message"]
        BY <1>2 DEF Arrival
    <3>2. [p EXCEPT !.ptype = "Message"] = m
        BY <1>0 DEF m, d
    <3> QED BY <3>1, <3>2
  <2> QED BY <2>3, <2>8, <2>9
<1>3. CASE p.ptype # "MessageBinary"
  <2>1. ToData(p).kind = "Text" /\ ToData(p).bytes = PacketBytes(p)
      BY <1>3 DEF ToData
  <2>2. WebsocketBytes(ToData(p)) = PacketBytes(p)
      BY <2>1 DEF WebsocketBytes
  <2>3. p.ptype = "Message" => p.data # <<>>
      BY DEF Portable
  <2>4. NoSeparator(PacketBytes(p))
      BY <1>1, BytesNoSeparator
  <2>5. TryPacket(PacketBytes(p)) = {p}
      BY <2>3, ParsePacket
  <2>6. PacketBytes(p) \in Seq(Byte)
      BY Bytes
  <2>7. TryPayload(PacketBytes(p)) = <<p>>
      BY <2>4, <2>5, <2>6, ParseOne
  <2>8. Arrival(p) = p
      BY <1>3 DEF Arrival
  <2> QED BY <2>2, <2>7, <2>8
<1> QED BY <1>2, <1>3

\* And they are a piece of a GET's payload as they stand.
LEMMA PortableGet ==
    ASSUME path = "get", NEW p \in Packet, Portable(p)
    PROVE  LET bs == PollingBytes(ToData(p)) IN
           /\ bs \in Seq(Byte) /\ Piece(bs) = bs /\ bs # <<>>
           /\ NoSeparator(bs) /\ TryPacket(bs) = {Arrival(p)}
<1> DEFINE bs == PacketBytes(p)
<1>0. p.ptype \in PacketType /\ p.data \in Seq(Byte) /\ Len(p.data) \in Nat
    BY DEF Packet
<1>1. /\ p.ptype = "Message" => p.data # <<>>
      /\ p.ptype # "MessageBinary" /\ IsUtf8(p.data) /\ NoSeparator(p.data)
    BY DEF Portable, Contains, NoSeparator
<1>2. /\ PollingBytes(ToData(p)) = bs /\ bs \in Seq(Byte) /\ bs # <<>>
      /\ Head(bs) = TypeByte(p.ptype) /\ Len(bs) = Len(p.data) + 1
      /\ bs[1] = TypeByte(p.ptype)
      /\ \A i \in 1..Len(p.data) : bs[i + 1] = p.data[i]
    BY <1>1, Bytes
<1>3. NoSeparator(bs)
    BY <1>1, BytesNoSeparator
<1>4. TryPacket(bs) = {p}
    BY <1>1, ParsePacket
<1> HIDE DEF bs
<1>5. Head(bs) # Raw("b")
    BY <1>0, <1>1, <1>2, TypeBytes
<1>6. IsUtf8(bs)
  <2>1. DOMAIN bs = 1..Len(bs) /\ DOMAIN p.data = 1..Len(p.data)
      BY <1>0, <1>2
  <2>2. bs[1] # Raw("not utf8")
      BY <1>0, <1>2, TypeBytes
  <2>3. ASSUME NEW i \in 1..Len(bs) PROVE bs[i] # Raw("not utf8")
    <3>1. i = 1 \/ (i - 1 \in 1..Len(p.data) /\ (i - 1) + 1 = i)
        BY <1>0, <1>2
    <3>2. ASSUME i - 1 \in 1..Len(p.data), (i - 1) + 1 = i PROVE bs[i] # Raw("not utf8")
        BY <1>1, <1>2, <2>1, <3>2 DEF IsUtf8
    <3> QED BY <2>2, <3>1, <3>2
  <2> QED BY <2>1, <2>3 DEF IsUtf8
<1>7. Piece(bs) = bs
    BY <1>5, <1>6 DEF Piece
<1>8. Arrival(p) = p
    BY DEF Arrival
<1> QED BY <1>2, <1>3, <1>4, <1>7, <1>8
-----------------------------------------------------------------------------
(* InTransit is inductive *)

LEMMA OrderedSame ==
    ASSUME NEW J, Ordered(J), UNCHANGED <<path, sent>>
    PROVE  Ordered(J)'
BY DEF Ordered, Waiting

LEMMA SaneSame ==
    ASSUME UNCHANGED <<path, sent>>, Sane'
    PROVE  Sane
BY DEF Sane, Portable

LEMMA TransitInit == Init => InTransit
<1> SUFFICES ASSUME Init PROVE InTransit
    OBVIOUS
<1>1. /\ sent = <<>> /\ queue = <<>> /\ body = <<>> /\ pending = <<>> /\ received = <<>>
      /\ stream = "open"
    BY DEF Init
<1>2. Len(<<>>) = 0 /\ 1..0 = {} /\ 0 \in Nat /\ 0 + 0 + 0 + 0 = 0
    OBVIOUS
<1>3. <<>> \in Seq(1..Len(sent))
    OBVIOUS
<1>4. Ordered(<<>>)
    BY <1>1, <1>2, <1>3 DEF Ordered, Waiting
<1>5. Carried(<<>>, 0)
    BY <1>1, <1>2 DEF Carried
<1> QED BY <1>4, <1>5 DEF InTransit

LEMMA TransitEmit ==
    ASSUME Shape, Shape', InTransit, NEW p \in Packets,
           ClientEmit(p) \/ ServerEmit(p) \/ WebsocketEmit(p)
    PROVE  InTransit'
<1> SUFFICES ASSUME Sane' PROVE (\E J, b : Ordered(J) /\ Carried(J, b))'
    BY DEF InTransit
<1>0. p \in Packet /\ path' = path /\ UNCHANGED <<body, pending, received, stream>>
    BY PacketsType DEF ClientEmit, ServerEmit, WebsocketEmit
<1>1. PICK r \in {"wait", "ok", "err"} : Emitted(p, r)
                /\ \/ r # "ok" /\ path # "get" /\ queue' = queue
                   \/ /\ r = "ok"
                      /\ queue' = Append(queue, IF path = "ws" THEN ToData(p)
                                                ELSE PollingBytes(ToData(p)))
    BY DEF ClientEmit, ServerEmit, WebsocketEmit
<1>2. SamePackets
    BY <1>0, <1>1, EmittedSame
<1>3. Sane
    BY <1>2, SaneBefore
<1>4. PICK J, b : Ordered(J) /\ Carried(J, b)
    BY <1>3 DEF InTransit
<1>5. PICK n : n = Len(sent)
    OBVIOUS
<1>6. CASE r # "ok" /\ path # "get" /\ queue' = queue
  <2>1. Ordered(J)'
      BY <1>0, <1>1, <1>4, <1>5, <1>6, OrderedEmitted
  <2>2. Carried(J, b)'
      BY <1>0, <1>2, <1>4, <1>6, CarriedSame
  <2> QED BY <2>1, <2>2
<1>7. CASE /\ r = "ok"
           /\ queue' = Append(queue, IF path = "ws" THEN ToData(p) ELSE PollingBytes(ToData(p)))
  <2>1. PICK K : K = Append(J, n + 1)
      OBVIOUS
  <2>2. Ordered(K)'
      BY <1>0, <1>1, <1>4, <1>5, <1>7, <2>1, OrderedEmitted
  <2>3. PICK k : k = n + 1
      OBVIOUS
  <2>4. sent'[k].packet = p
    <3>1. sent'[Len(sent) + 1] = [packet |-> p, result |-> r]
        BY <1>1, EmittedShape
    <3> QED BY <1>5, <2>3, <3>1
  <2>5. Wire(k)' = IF path = "ws" THEN ToData(p) ELSE PollingBytes(ToData(p))
      BY <1>0, <2>4 DEF Wire
  <2>6. queue' = Append(queue, Wire(k)')
      BY <1>7, <2>5
  <2>7. PICK S : queue \in Seq(S) /\ Wire(k)' \in S
    <3>1. CASE path = "ws"
      <4>1. queue \in Seq(Data) /\ Wire(k)' \in Data
          BY <1>0, <2>5, <3>1, DataType DEF Shape
      <4> QED BY <4>1
    <3>2. CASE path # "ws"
      <4>1. queue \in Seq(Seq(Byte)) /\ Wire(k)' \in Seq(Byte)
          BY <1>0, <2>5, <3>2, Bytes DEF Shape
      <4> QED BY <4>1
    <3> QED BY <3>1, <3>2
  <2>8. Len(K) = Len(J) + 1 /\ (\A j \in 1..Len(J) : K[j] = J[j]) /\ K[Len(J) + 1] = k
    <3>1. J \in Seq(1..n) /\ n \in Nat
        BY <1>4, <1>5 DEF Ordered, Shape
    <3>2. J \in Seq(Nat)
      <4>1. \A i \in 1..Len(J) : J[i] \in Nat
          BY <3>1
      <4>2. J = [i \in 1..Len(J) |-> J[i]] /\ Len(J) \in Nat
          BY <3>1
      <4>3. J \in [1..Len(J) -> Nat]
          BY <4>1, <4>2
      <4> QED BY <4>2, <4>3
    <3>3. k \in Nat /\ K = Append(J, k)
        BY <2>1, <2>3, <3>1
    <3> QED BY ONLY <3>2, <3>3
  <2>9. Carried(K, b)'
      BY <1>0, <1>2, <1>4, <2>6, <2>7, <2>8, CarriedMore
  <2> QED BY <2>2, <2>9
<1> QED BY <1>1, <1>6, <1>7

LEMMA TransitServerReads ==
    ASSUME Shape, Shape', InTransit, ServerReads
    PROVE  InTransit'
<1> SUFFICES ASSUME Sane' PROVE (\E J, b : Ordered(J) /\ Carried(J, b))'
    BY DEF InTransit
<1>0. Waiting
    BY DEF ServerReads
<1>1. PICK m \in 1..HeadSize + Len(PostBody) : PostTaken(m) \/ PostIgnored(m) \/ PostRefused(m)
    BY DEF ServerReads
<1>2. path' = path /\ UNCHANGED <<body, pending, received, stream>>
    BY <1>1 DEF PostTaken, PostIgnored, PostRefused
<1>3. PICK r \in {"ok", "err"} : Answered(r) /\ (PostRefused(m) => r = "err")
  <2>1. CASE PostRefused(m)
      BY <2>1 DEF PostRefused
  <2>2. CASE PostTaken(m) \/ PostIgnored(m)
    <3>1. ~PostRefused(m)
        BY <2>2 DEF PostTaken, PostIgnored, PostRefused
    <3> QED BY <2>2, <3>1 DEF PostTaken, PostIgnored
  <2> QED BY <1>1, <2>1, <2>2
<1>4. SamePackets
    BY <1>0, <1>2, <1>3, AnsweredSame
<1>5. Sane
    BY <1>4, SaneBefore
<1>6. PICK J, b : Ordered(J) /\ Carried(J, b)
    BY <1>5 DEF InTransit
<1>7. PICK n : n = Len(sent)
    OBVIOUS
<1>8. CASE PostRefused(m)
  <2>1. queue' = queue /\ r = "err"
      BY <1>3, <1>8 DEF PostRefused
  <2>2. Ordered(J)'
      BY <1>0, <1>2, <1>3, <1>6, <1>7, <2>1, OrderedAnswered
  <2>3. Carried(J, b)'
      BY <1>2, <1>4, <1>6, <2>1, CarriedSame
  <2> QED BY <2>2, <2>3
<1>9. CASE PostTaken(m)
  <2>0. path = "post" /\ n \in Nat /\ n > 0 /\ sent'[n].packet = sent[n].packet
      BY <1>0, <1>3, <1>7, AnsweredShape
  <2>1. PICK K : K = Append(J, n)
      OBVIOUS
  <2>2. Ordered(K)'
      BY <1>0, <1>2, <1>3, <1>6, <1>7, <2>1, OrderedAnswered
  <2>3. m \in Nat
      BY <1>0, PostBodyIs, WireAssumption
  <2>4. queue' = Append(queue, PostBody) /\ PostBody \in Seq(Byte)
        /\ PostBody = PollingBytes(ToData(sent[n].packet))
    <3>1. RequestComplete(m) /\ queue' = Append(queue, SubSeq(PostBody, 1, m - HeadSize))
        BY <1>9 DEF PostTaken
    <3> QED BY <1>0, <1>7, <2>3, <3>1, PostBodyIs
  <2>5. Wire(n)' = PostBody
      BY <1>2, <2>0, <2>4 DEF Wire
  <2>6. queue \in Seq(Seq(Byte)) /\ Wire(n)' \in Seq(Byte) /\ queue' = Append(queue, Wire(n)')
      BY <2>0, <2>4, <2>5 DEF Shape
  <2>7. Len(K) = Len(J) + 1 /\ (\A j \in 1..Len(J) : K[j] = J[j]) /\ K[Len(J) + 1] = n
    <3>1. J \in Seq(1..n) /\ n \in 1..n
        BY <1>6, <1>7, <2>0 DEF Ordered
    <3> QED BY ONLY <2>1, <3>1
  <2>8. Carried(K, b)'
      BY <1>2, <1>4, <1>6, <2>6, <2>7, CarriedMore
  <2> QED BY <2>2, <2>8
<1>10. CASE PostIgnored(m)
  <2>1. stream # "open" /\ queue' = queue /\ n \in Nat /\ n > 0
      BY <1>0, <1>3, <1>7, <1>10, AnsweredShape DEF PostIgnored
  <2>2. PICK K : K = Append(J, n)
      OBVIOUS
  <2>3. Ordered(K)'
      BY <1>0, <1>2, <1>3, <1>6, <1>7, <2>2, OrderedAnswered
  <2>4. Carried(J, b)'
      BY <1>2, <1>4, <1>6, <2>1, CarriedSame
  <2>5. Len(J) \in Nat /\ Len(K) = Len(J) + 1 /\ \A j \in 1..Len(J) : K[j] = J[j]
    <3>1. J \in Seq(1..n) /\ n \in 1..n
        BY <1>6, <1>7, <2>1 DEF Ordered
    <3> QED BY ONLY <2>2, <3>1
  <2>6. Len(received') <= Len(J) /\ Len(received') \in Nat
        /\ \A i \in 1..Len(received') : received'[i] = Arrival(sent[J[i]].packet)'
    <3>1. received' \in Seq(Packet)
        BY DEF Shape
    <3> QED BY <2>4, <3>1 DEF Carried
  <2>7. Len(received') <= Len(K)
        /\ \A i \in 1..Len(received') : received'[i] = Arrival(sent[K[i]].packet)'
    <3>1. \A i \in 1..Len(received') : i \in 1..Len(J)
        BY <2>5, <2>6
    <3> QED BY <2>5, <2>6, <3>1
  <2> QED BY <1>2, <2>1, <2>3, <2>4, <2>7 DEF Carried
<1> QED BY <1>1, <1>8, <1>9, <1>10

\* A sane packet is portable.
LEMMA SanePacket ==
    ASSUME Shape, Sane, NEW k \in 1..Len(sent)
    PROVE  sent[k].packet \in Packet /\ Portable(sent[k].packet)
<1>1. DOMAIN sent = 1..Len(sent)
    BY DEF Shape
<1> QED BY <1>1, PacketAt DEF Sane

LEMMA TransitReadQueue ==
    ASSUME Shape, Shape', InTransit, ReadQueue
    PROVE  InTransit'
<1> SUFFICES ASSUME Sane' PROVE (\E J, b : Ordered(J) /\ Carried(J, b))'
    BY DEF InTransit
<1>0. /\ path \in {"post", "ws"} /\ stream = "open" /\ pending = <<>> /\ queue # <<>>
      /\ Parse(IF path = "ws" THEN WebsocketBytes(Head(queue)) ELSE Head(queue))
      /\ queue' = Tail(queue) /\ UNCHANGED <<path, sent, body, received>>
    BY DEF ReadQueue, Idle
<1>1. Sane
    BY <1>0, SaneSame
<1>2. PICK J, b : Ordered(J) /\ Carried(J, b)
    BY <1>1 DEF InTransit
<1>3. Ordered(J)'
    BY <1>0, <1>2, OrderedSame
<1>4. PICK r : r = Len(received)
    OBVIOUS
<1>5. PICK S : queue \in Seq(S)
    BY DEF Shape
<1>6. b = 0 /\ body = <<>> /\ Len(pending) = 0
    BY <1>0, <1>2 DEF Carried
<1>7. /\ r \in Nat /\ Len(J) \in Nat /\ Len(queue) \in Nat /\ Len(J) = r + Len(queue)
      /\ \A j \in 1..Len(J) : J[j] \in 1..Len(sent)
  <2>1. /\ Len(J) \in Nat /\ Len(received) \in Nat /\ Len(queue) \in Nat
        /\ Len(J) = Len(received) + Len(pending) + b + Len(queue)
        /\ \A j \in 1..Len(J) : J[j] \in 1..Len(sent)
      BY <1>0, <1>2, CarriedLen
  <2> QED BY <1>4, <1>6, <2>1
<1>8. \A i \in 1..Len(queue) : queue[i] = Wire(J[r + i])
  <2>1. \A i \in 1..Len(queue) : queue[i] = Wire(J[Len(received) + Len(pending) + b + i])
      BY <1>0, <1>2 DEF Carried
  <2>2. \A i \in 1..Len(queue) : Len(received) + Len(pending) + b + i = r + i
      BY <1>4, <1>6, <1>7
  <2> QED BY <2>1, <2>2
<1>9. Len(queue) > 0 /\ 1 \in 1..Len(queue) /\ r + 1 \in 1..Len(J)
  <2>1. Len(queue) > 0
      BY <1>0, <1>5
  <2> QED BY <1>7, <2>1
<1>10. /\ Len(queue') = Len(queue) - 1 /\ Head(queue) = queue[1]
       /\ \A i \in 1..(Len(queue) - 1) : queue'[i] = queue[i + 1]
    BY <1>0, <1>5
<1>11. PICK k : k = J[r + 1] /\ k \in 1..Len(sent)
    BY <1>7, <1>9
<1>12. sent[k].packet \in Packet /\ Portable(sent[k].packet)
    BY <1>1, <1>11, SanePacket
<1>13. pending' = <<Arrival(sent[k].packet)>> /\ stream' = "open"
  <2> DEFINE bs == IF path = "ws" THEN WebsocketBytes(Head(queue)) ELSE Head(queue)
  <2>1. Head(queue) = Wire(k)
      BY <1>8, <1>9, <1>10, <1>11
  <2>2. TryPayload(bs) = <<Arrival(sent[k].packet)>>
    <3>1. CASE path = "ws"
      <4>1. bs = WebsocketBytes(ToData(sent[k].packet))
          BY <2>1, <3>1 DEF Wire
      <4> QED BY <1>12, <3>1, <4>1, PortableWebsocket
    <3>2. CASE path = "post"
      <4>1. bs = PollingBytes(ToData(sent[k].packet))
          BY <2>1, <3>2 DEF Wire
      <4> QED BY <1>12, <3>2, <4>1, PortablePost
    <3> QED BY <1>0, <3>1, <3>2
  <2>3. Parse(bs)
      BY <1>0
  <2> HIDE DEF bs
  <2> DEFINE x == Arrival(sent[k].packet)
  <2> HIDE DEF x
  <2>4. TryPayload(bs) = <<x>>
      BY <2>2 DEF x
  <2>5. <<x>> # <<>>
      OBVIOUS
  <2>6. pending' = <<x>> /\ stream' = stream
      BY <2>3, <2>4, <2>5 DEF Parse
  <2> QED BY <1>0, <2>6 DEF x
<1>14. Carried(J, 0)'
  <2>0. path' = path /\ sent' = sent /\ received' = received /\ body' = <<>> /\ r = Len(received')
        /\ stream' = "open"
      BY <1>0, <1>4, <1>6, <1>13
  <2>1. /\ Len(received') <= Len(J)
        /\ \A i \in 1..Len(received') : (received[i] = Arrival(sent[J[i]].packet))'
      BY <1>2, <2>0 DEF Carried, Arrival
  <2>2. Len(pending') = 1 /\ pending'[1] = Arrival(sent[k].packet)
      BY <1>13
  <2>3. \A i \in 1..Len(pending') : (pending[i] = Arrival(sent[J[Len(received) + i]].packet))'
    <3>1. \A i \in 1..Len(pending') : i = 1
        BY <2>2
    <3>2. pending'[1] = Arrival(sent[J[r + 1]].packet)'
        BY <1>11, <2>0, <2>2 DEF Arrival
    <3> QED BY <2>0, <3>1, <3>2
  <2>4. Len(J) = Len(received') + Len(pending') + 0 + Len(queue')
      BY <1>7, <1>10, <2>0, <2>2
  <2>5. \A i \in 1..Len(queue') : (queue[i] = Wire(J[Len(received) + Len(pending) + 0 + i]))'
    <3> SUFFICES ASSUME NEW i \in 1..Len(queue')
                 PROVE  queue'[i] = Wire(J[Len(received) + Len(pending) + 0 + i])'
        OBVIOUS
    <3>1. i \in 1..(Len(queue) - 1) /\ i + 1 \in 1..Len(queue)
        BY <1>7, <1>10
    <3>2. queue'[i] = Wire(J[r + (i + 1)])
        BY <1>8, <1>10, <3>1
    <3>3. Len(received') + Len(pending') + 0 + i = r + (i + 1)
        BY <1>7, <2>0, <2>2, <3>1
    <3>4. Wire(J[r + (i + 1)])' = Wire(J[r + (i + 1)])
      <4>1. PICK j : j = J[r + (i + 1)]
          OBVIOUS
      <4>2. Wire(j)' = Wire(j)
          BY <2>0 DEF Wire
      <4> QED BY <4>1, <4>2
    <3> QED BY <3>2, <3>3, <3>4
  <2> QED BY <2>0, <2>1, <2>3, <2>4, <2>5 DEF Carried
<1> QED BY <1>3, <1>14

LEMMA TransitGetAnswer ==
    ASSUME Shape, Shape', InTransit, GetAnswer
    PROVE  InTransit'
<1> SUFFICES ASSUME Sane' PROVE (\E J, b : Ordered(J) /\ Carried(J, b))'
    BY DEF InTransit
<1>0. /\ path = "get" /\ stream = "open" /\ pending = <<>> /\ queue # <<>> /\ body = <<>>
      /\ body' = PollingPayload(queue) /\ stream' = (IF Framed(body') THEN stream ELSE "failed")
      /\ queue' = <<>> /\ UNCHANGED <<path, sent, pending, received>>
    BY DEF GetAnswer, Idle
<1>1. Sane
    BY <1>0, SaneSame
<1>2. PICK J, b : Ordered(J) /\ Carried(J, b)
    BY <1>1 DEF InTransit
<1>3. Ordered(J)'
    BY <1>0, <1>2, OrderedSame
<1>4. PICK r, n, q : r = Len(received) /\ n = Len(queue) /\ q = queue
    OBVIOUS
<1>5. q \in Seq(Seq(Byte)) /\ q # <<>> /\ n = Len(q)
    BY <1>0, <1>4 DEF Shape
<1>6. b = 0 /\ Len(pending) = 0
    BY <1>0, <1>2 DEF Carried
<1>7. /\ r \in Nat /\ Len(J) \in Nat /\ n \in Nat /\ Len(J) = r + n
      /\ \A j \in 1..Len(J) : J[j] \in 1..Len(sent)
  <2>1. /\ Len(J) \in Nat /\ Len(received) \in Nat /\ Len(queue) \in Nat
        /\ Len(J) = Len(received) + Len(pending) + b + Len(queue)
        /\ \A j \in 1..Len(J) : J[j] \in 1..Len(sent)
      BY <1>0, <1>2, CarriedLen
  <2> QED BY <1>4, <1>6, <2>1
<1>8. \A i \in 1..n : q[i] = Wire(J[r + i])
  <2>1. \A i \in 1..Len(queue) : queue[i] = Wire(J[Len(received) + Len(pending) + b + i])
      BY <1>0, <1>2 DEF Carried
  <2>2. \A i \in 1..Len(queue) : Len(received) + Len(pending) + b + i = r + i
      BY <1>4, <1>6, <1>7
  <2> QED BY <1>4, <2>1, <2>2
<1>9. n > 0 /\ 1 \in 1..n /\ r + 1 \in 1..Len(J)
  <2>1. Len(q) > 0
      BY <1>5
  <2> QED BY <1>5, <1>7, <2>1
<1>10. PICK k : k = J[r + 1] /\ k \in 1..Len(sent)
    BY <1>7, <1>9
<1>11. Piece(q[1]) # <<>>
  <2>1. sent[k].packet \in Packet /\ Portable(sent[k].packet)
      BY <1>1, <1>10, SanePacket
  <2>2. q[1] = PollingBytes(ToData(sent[k].packet))
      BY <1>0, <1>8, <1>9, <1>10 DEF Wire
  <2> QED BY <1>0, <2>1, <2>2, PortableGet
<1>12. body' # <<>>
    BY <1>0, <1>4, <1>5, <1>11, PayloadType
<1>13. q = [i \in 1..n |-> Wire(J[r + i])]
  <2>1. q = [i \in 1..n |-> q[i]]
      BY <1>5
  <2> QED BY <1>8, <2>1
<1>14. Carried(J, n)'
  <2>0. path' = "get" /\ path' = path /\ sent' = sent /\ received' = received /\ pending' = <<>>
        /\ Len(pending') = 0 /\ queue' = <<>> /\ Len(queue') = 0 /\ r = Len(received')
        /\ stream' = "open"
      BY <1>0, <1>4, <1>6, <1>12 DEF Framed
  <2>1. /\ Len(received') <= Len(J)
        /\ \A i \in 1..Len(received') : (received[i] = Arrival(sent[J[i]].packet))'
      BY <1>2, <2>0 DEF Carried, Arrival
  <2>2. \A i \in 1..Len(pending') : FALSE
      BY <2>0
  <2>3. \A i \in 1..Len(queue') : FALSE
      BY <2>0
  <2>4. Len(J) = Len(received') + Len(pending') + n + Len(queue') /\ n # 0 /\ n \in Nat
      BY <1>7, <1>9, <2>0
  <2>5. [i \in 1..n |-> Wire(J[Len(received) + Len(pending) + i])]' = q
    <3>1. \A j : Wire(j)' = Wire(j)
        BY <2>0 DEF Wire
    <3>2. \A i \in 1..n : Len(received') + Len(pending') + i = r + i
        BY <1>7, <2>0
    <3>3. \A i \in 1..n : Wire(J[Len(received) + Len(pending) + i])' = Wire(J[r + i])
      <4> SUFFICES ASSUME NEW i \in 1..n
                   PROVE  Wire(J[Len(received) + Len(pending) + i])' = Wire(J[r + i])
          OBVIOUS
      <4>1. PICK j : j = J[r + i]
          OBVIOUS
      <4>2. Wire(j)' = Wire(j)
          BY <3>1
      <4> QED BY <3>2, <4>1, <4>2
    <3> QED BY <1>13, <3>3
  <2>6. body' = PollingPayload(q)
      BY <1>0, <1>4
  <2>7. (body = PollingPayload([i \in 1..n |-> Wire(J[Len(received) + Len(pending) + i])]))'
      BY <2>5, <2>6
  <2> QED BY <1>12, <2>0, <2>1, <2>2, <2>3, <2>4, <2>7 DEF Carried
<1> QED BY <1>3, <1>14

LEMMA TransitReadChunk ==
    ASSUME Shape, Shape', InTransit, ReadChunk
    PROVE  InTransit'
<1> SUFFICES ASSUME Sane' PROVE (\E J, b : Ordered(J) /\ Carried(J, b))'
    BY DEF InTransit
<1>0. /\ path = "get" /\ stream = "open" /\ pending = <<>> /\ body # <<>>
      /\ UNCHANGED <<path, sent, queue, received>>
    BY DEF ReadChunk, Idle
<1>1. Sane
    BY <1>0, SaneSame
<1>2. PICK J, b : Ordered(J) /\ Carried(J, b)
    BY <1>1 DEF InTransit
<1>3. Ordered(J)'
    BY <1>0, <1>2, OrderedSame
<1>4. PICK r, n : r = Len(received) /\ n = Len(sent)
    OBVIOUS
<1>5. b # 0 /\ Len(pending) = 0
    BY <1>0, <1>2 DEF Carried
<1>6. /\ r \in Nat /\ Len(J) \in Nat /\ b \in Nat /\ Len(queue) \in Nat
      /\ Len(J) = r + b + Len(queue)
      /\ \A j \in 1..Len(J) : J[j] \in 1..n
  <2>1. /\ Len(J) \in Nat /\ Len(received) \in Nat /\ Len(queue) \in Nat /\ b \in Nat
        /\ Len(J) = Len(received) + Len(pending) + b + Len(queue)
        /\ \A j \in 1..Len(J) : J[j] \in 1..Len(sent)
      BY <1>0, <1>2, CarriedLen
  <2> QED BY <1>4, <1>5, <2>1
<1>7. PICK q : q = [i \in 1..b |-> Wire(J[r + i])]
    OBVIOUS
<1>8. body = PollingPayload(q)
  <2>1. body = PollingPayload([i \in 1..b |-> Wire(J[Len(received) + Len(pending) + i])])
      BY <1>0, <1>2, <1>5 DEF Carried
  <2>2. \A i \in 1..b : Len(received) + Len(pending) + i = r + i
      BY <1>4, <1>5, <1>6
  <2>3. [i \in 1..b |-> Wire(J[Len(received) + Len(pending) + i])] = q
      BY <1>7, <2>2
  <2> QED BY <2>1, <2>3
\* The packets of the body follow each other in sent.
<1>9. Len(J) = n /\ \A i \in 1..b : r + i \in 1..n /\ J[r + i] = r + i
  <2>1. Len(J) = n /\ \A j \in 1..Len(J) : J[j] = j
      BY <1>0, <1>2, <1>4 DEF Ordered
  <2>2. \A i \in 1..b : r + i \in 1..Len(J)
      BY <1>6
  <2> QED BY <2>1, <2>2
<1>10. \A i \in 1..b : /\ sent[r + i].packet \in Packet
                       /\ Portable(sent[r + i].packet)
                       /\ q[i] = PollingBytes(ToData(sent[r + i].packet))
  <2>1. \A i \in 1..b : q[i] = PollingBytes(ToData(sent[r + i].packet))
      BY <1>0, <1>7, <1>9 DEF Wire
  <2> QED BY <1>1, <1>4, <1>9, <2>1, SanePacket
<1>11. \A i \in 1..b : /\ q[i] \in Seq(Byte) /\ Piece(q[i]) = q[i] /\ NoSeparator(q[i])
                       /\ TryPacket(q[i]) = {Arrival(sent[r + i].packet)}
    BY <1>0, <1>10, PortableGet
<1>12. q \in Seq(Seq(Byte)) /\ Len(q) = b /\ q # <<>>
  <2>1. q \in [1..b -> Seq(Byte)]
      BY <1>7, <1>11
  <2>2. q \in Seq(Seq(Byte)) /\ Len(q) = b
      BY <1>6, <2>1
  <2> QED BY <1>5, <2>2
<1>13. Len(body) <= ChunkSize
  <2> DEFINE Q == Queued(sent)
  <2>1. Len(PollingPayload(Q)) <= ChunkSize
      BY <1>0, <1>1 DEF Sane, Queued
  <2>2. /\ Q \in Seq(Seq(Byte)) /\ Len(Q) = n
        /\ \A i \in 1..n : Q[i] = PollingBytes(ToData(sent[i].packet))
    <3>1. sent \in Seq(Emit)
        BY DEF Shape
    <3> QED BY <1>4, <3>1, QueuedType
  <2> HIDE DEF Q
  <2>3. r + Len(q) <= Len(Q) /\ \A i \in 1..Len(q) : q[i] = Q[r + i]
      BY <1>6, <1>9, <1>10, <1>12, <2>2
  <2>4. Len(PollingPayload(q)) <= Len(PollingPayload(Q))
      BY <1>6, <1>12, <2>2, <2>3, PayloadPart
  <2>5. PollingPayload(q) \in Seq(Byte) /\ PollingPayload(Q) \in Seq(Byte) /\ ChunkSize \in Nat
      BY <1>12, <2>2, PayloadType, WireAssumption
  <2> DEFINE x == Len(PollingPayload(q))
             y == Len(PollingPayload(Q))
  <2>6. x \in Nat /\ y \in Nat /\ x <= y /\ y <= ChunkSize /\ ChunkSize \in Nat
      BY <2>1, <2>4, <2>5
  <2> HIDE DEF x, y
  <2>7. x <= ChunkSize
      BY <2>6
  <2> QED BY <1>8, <2>7 DEF x
<1>14. Parse(body) /\ body' = <<>>
  <2>1. Parse(SubSeq(body, 1, Len(body))) /\ body' = SubSeq(body, Len(body) + 1, Len(body))
      BY <1>13 DEF ReadChunk
  <2>2. body \in Seq(Byte)
      BY DEF Shape
  <2>3. SubSeq(body, 1, Len(body)) = body /\ SubSeq(body, Len(body) + 1, Len(body)) = <<>>
      BY ONLY <2>2
  <2> QED BY <2>1, <2>3
<1>15. PICK P : P = [i \in 1..b |-> Arrival(sent[r + i].packet)]
    OBVIOUS
<1>16. TryPayload(body) = P
  <2> DEFINE c == [i \in 1..Len(q) |-> Piece(q[i])]
             S == {Arrival(sent[r + i].packet) : i \in 1..b}
  <2>1. Cut(body) = c
    <3>1. \A i \in 1..Len(q) : NoSeparator(Piece(q[i]))
        BY <1>11, <1>12
    <3> QED BY <1>8, <1>12, <3>1, CutPayload
  <2>2. DOMAIN c = 1..b /\ \A i \in 1..b : c[i] = q[i]
      BY <1>11, <1>12
  <2>3. P \in [1..b -> S]
      BY <1>15
  <2>4. Parses(c, P, b)
      BY <1>11, <1>15, <2>2 DEF Parses
  <2> HIDE DEF c, S
  <2>5. DOMAIN c = 1..b /\ b \in Nat
      BY <1>6, <2>2
  <2> QED BY ONLY <2>1, <2>3, <2>4, <2>5, ParsePayload
<1>17. pending' = P /\ stream' = "open" /\ Len(P) = b
  <2>1. Len(P) = b /\ P # <<>>
    <3>1. DOMAIN P = 1..b
        BY <1>15
    <3>2. Len(P) = b
        BY <1>6, <1>15
    <3>3. Len(<<>>) = 0
        OBVIOUS
    <3> QED BY <1>5, <3>2, <3>3
  <2> QED BY <1>0, <1>14, <1>16, <2>1 DEF Parse
<1>18. Carried(J, 0)'
  <2>0. path' = path /\ sent' = sent /\ received' = received /\ queue' = queue /\ body' = <<>>
        /\ r = Len(received') /\ stream' = "open" /\ pending' = P /\ Len(pending') = b
      BY <1>0, <1>4, <1>14, <1>17
  <2>1. /\ Len(received') <= Len(J)
        /\ \A i \in 1..Len(received') : (received[i] = Arrival(sent[J[i]].packet))'
      BY <1>2, <2>0 DEF Carried, Arrival
  <2>2. \A i \in 1..Len(pending') : (pending[i] = Arrival(sent[J[Len(received) + i]].packet))'
      BY <1>9, <1>15, <2>0 DEF Arrival
  <2>3. Len(J) = Len(received') + Len(pending') + 0 + Len(queue')
      BY <1>6, <2>0
  <2>4. \A i \in 1..Len(queue') : (queue[i] = Wire(J[Len(received) + Len(pending) + 0 + i]))'
    <3> SUFFICES ASSUME NEW i \in 1..Len(queue)
                 PROVE  queue'[i] = Wire(J[Len(received) + Len(pending) + 0 + i])'
        BY <2>0
    <3>1. PICK j : j = J[r + b + i]
        OBVIOUS
    <3>2. queue[i] = Wire(J[Len(received) + Len(pending) + b + i])
        BY <1>0, <1>2 DEF Carried
    <3>3. Len(received) + Len(pending) + b + i = r + b + i
        BY <1>4, <1>5, <1>6
    <3>4. Len(received') + Len(pending') + 0 + i = r + b + i
        BY <1>6, <2>0
    <3>5. queue'[i] = Wire(j) /\ Wire(j)' = Wire(j)
        BY <2>0, <3>1, <3>2, <3>3 DEF Wire
    <3> QED BY <3>1, <3>4, <3>5
  <2> QED BY <2>0, <2>1, <2>2, <2>3, <2>4 DEF Carried
<1> QED BY <1>3, <1>18

LEMMA TransitYield ==
    ASSUME Shape, Shape', InTransit, Yield
    PROVE  InTransit'
<1> SUFFICES ASSUME Sane' PROVE (\E J, b : Ordered(J) /\ Carried(J, b))'
    BY DEF InTransit
<1>0. /\ pending # <<>> /\ received' = Append(received, Head(pending)) /\ pending' = Tail(pending)
      /\ UNCHANGED <<path, sent, queue, body, stream>>
    BY DEF Yield
<1>1. Sane
    BY <1>0, SaneSame
<1>2. PICK J, b : Ordered(J) /\ Carried(J, b)
    BY <1>1 DEF InTransit
<1>3. Ordered(J)'
    BY <1>0, <1>2, OrderedSame
<1>4. stream = "open"
    BY <1>0, <1>2 DEF Carried, Shape
<1>5. PICK r, m, n : r = Len(received) /\ m = Len(pending) /\ n = Len(queue)
    OBVIOUS
<1>6. /\ r \in Nat /\ m \in Nat /\ n \in Nat /\ b \in Nat /\ Len(J) \in Nat
      /\ Len(J) = r + m + b + n
    BY <1>2, <1>4, <1>5, CarriedLen
<1>7. pending \in Seq(Packet) /\ received \in Seq(Packet)
    BY DEF Shape
<1>8. m > 0
    BY <1>0, <1>5, <1>7
<1>9. /\ Len(received') = r + 1 /\ received'[r + 1] = pending[1]
      /\ \A i \in 1..r : received'[i] = received[i]
  <2> DEFINE x == Head(pending)
  <2>1. x \in Packet /\ x = pending[1]
      BY <1>0, <1>7
  <2> HIDE DEF x
  <2>2. received' = Append(received, x)
      BY <1>0 DEF x
  <2> QED BY <1>5, <1>7, <2>1, <2>2
<1>10. Len(pending') = m - 1 /\ \A i \in 1..(m - 1) : pending'[i] = pending[i + 1]
    BY <1>0, <1>5, <1>7
<1>11. /\ \A i \in 1..r : received[i] = Arrival(sent[J[i]].packet)
       /\ \A i \in 1..m : pending[i] = Arrival(sent[J[r + i]].packet)
       /\ b = 0 => body = <<>>
       /\ b # 0 => /\ path = "get" /\ body # <<>>
                   /\ body = PollingPayload([i \in 1..b |-> Wire(J[r + m + i])])
       /\ \A i \in 1..n : queue[i] = Wire(J[r + m + b + i])
    BY <1>2, <1>4, <1>5 DEF Carried
<1>12. \A j : Wire(j)' = Wire(j) /\ Arrival(sent[j].packet)' = Arrival(sent[j].packet)
    BY <1>0 DEF Wire, Arrival
<1>13. Len(received') + Len(pending') = r + m
    BY <1>6, <1>9, <1>10
<1>14. Carried(J, b)'
  <2>1. Len(received') <= Len(J)
      BY <1>6, <1>8, <1>9
  <2>2. \A i \in 1..Len(received') : (received[i] = Arrival(sent[J[i]].packet))'
    <3> SUFFICES ASSUME NEW i \in 1..(r + 1)
                 PROVE  received'[i] = Arrival(sent[J[i]].packet)'
        BY <1>9
    <3>1. PICK j : j = J[i]
        OBVIOUS
    <3>2. i \in 1..r \/ i = r + 1
        BY <1>6
    <3>3. CASE i \in 1..r
        BY <1>9, <1>11, <1>12, <3>1, <3>3
    <3>4. CASE i = r + 1
      <4>1. 1 \in 1..m
          BY <1>6, <1>8
      <4> QED BY <1>9, <1>11, <1>12, <3>1, <3>4, <4>1
    <3> QED BY <3>2, <3>3, <3>4
  <2>3. \A i \in 1..Len(pending') : (pending[i] = Arrival(sent[J[Len(received) + i]].packet))'
    <3> SUFFICES ASSUME NEW i \in 1..(m - 1)
                 PROVE  pending'[i] = Arrival(sent[J[Len(received) + i]].packet)'
        BY <1>10
    <3>1. PICK j : j = J[r + (i + 1)]
        OBVIOUS
    <3>2. i + 1 \in 1..m /\ (r + 1) + i = r + (i + 1)
        BY <1>6
    <3>3. pending'[i] = Arrival(sent[j].packet)
        BY <1>10, <1>11, <3>1, <3>2
    <3>4. J[Len(received') + i] = j
        BY <1>9, <3>1, <3>2
    <3> QED BY <1>12, <3>3, <3>4
  <2>4. \A i \in 1..Len(queue') : (queue[i] = Wire(J[Len(received) + Len(pending) + b + i]))'
    <3> SUFFICES ASSUME NEW i \in 1..n
                 PROVE  queue[i] = Wire(J[Len(received) + Len(pending) + b + i])'
        BY <1>0, <1>5
    <3>1. PICK j : j = J[r + m + b + i]
        OBVIOUS
    <3>2. J[Len(received') + Len(pending') + b + i] = j
        BY <1>13, <3>1
    <3> QED BY <1>11, <1>12, <3>1, <3>2
  <2>5. ASSUME b # 0
        PROVE  (body = PollingPayload([i \in 1..b |-> Wire(J[Len(received) + Len(pending) + i])]))'
    <3>1. \A i \in 1..b : Wire(J[Len(received) + Len(pending) + i])' = Wire(J[r + m + i])
      <4> SUFFICES ASSUME NEW i \in 1..b
                   PROVE  Wire(J[Len(received) + Len(pending) + i])' = Wire(J[r + m + i])
          OBVIOUS
      <4>1. PICK j : j = J[r + m + i]
          OBVIOUS
      <4>2. J[Len(received') + Len(pending') + i] = j
          BY <1>13, <4>1
      <4> QED BY <1>12, <4>1, <4>2
    <3>2. [i \in 1..b |-> Wire(J[Len(received) + Len(pending) + i])]'
            = [i \in 1..b |-> Wire(J[r + m + i])]
        BY <3>1
    <3> QED BY <1>0, <1>11, <2>5, <3>2
  <2>6. Len(J) = Len(received') + Len(pending') + b + Len(queue')
      BY <1>0, <1>5, <1>6, <1>13
  <2>7. b \in Nat /\ stream' = "open" /\ (b = 0 => body' = <<>>)
        /\ (b # 0 => path' = "get" /\ body' # <<>>)
      BY <1>0, <1>4, <1>6, <1>11
  <2> QED BY <2>1, <2>2, <2>3, <2>4, <2>5, <2>6, <2>7 DEF Carried
<1> QED BY <1>3, <1>14

LEMMA TransitLost ==
    ASSUME Shape, InTransit, ConnectionLost
    PROVE  InTransit'
<1> SUFFICES ASSUME Sane' PROVE (\E J, b : Ordered(J) /\ Carried(J, b))'
    BY DEF InTransit
<1>0. pending = <<>> /\ stream' = "lost" /\ UNCHANGED <<path, sent, pending, received>>
    BY DEF ConnectionLost, Idle
<1>1. Sane
    BY <1>0, SaneSame
<1>2. PICK J, b : Ordered(J) /\ Carried(J, b)
    BY <1>1 DEF InTransit
<1>3. Ordered(J)'
    BY <1>0, <1>2, OrderedSame
<1>4. Carried(J, b)'
    BY <1>0, <1>2 DEF Carried, Arrival
<1> QED BY <1>3, <1>4

LEMMA TransitNext == Shape /\ Shape' /\ InTransit /\ [Next]_vars => InTransit'
<1> SUFFICES ASSUME Shape, Shape', InTransit, [Next]_vars PROVE InTransit'
    OBVIOUS
<1>1. CASE Send
    BY <1>1, TransitEmit DEF Send
<1>2. CASE ServerReads
    BY <1>2, TransitServerReads
<1>3. CASE Receive
    BY <1>3, TransitReadQueue, TransitGetAnswer, TransitReadChunk, TransitYield DEF Receive
<1>4. CASE ConnectionLost
    BY <1>4, TransitLost
<1>5. CASE UNCHANGED vars
  <2> SUFFICES ASSUME Sane' PROVE (\E J, b : Ordered(J) /\ Carried(J, b))'
      BY DEF InTransit
  <2>1. UNCHANGED <<path, sent>> /\ UNCHANGED <<queue, body, pending, received, stream>>
      BY <1>5 DEF vars
  <2>2. Sane
      BY <2>1, SaneSame
  <2>3. PICK J, b : Ordered(J) /\ Carried(J, b)
      BY <2>2 DEF InTransit
  <2>4. Ordered(J)'
      BY <2>1, <2>3, OrderedSame
  <2>5. SamePackets
    <3>1. Len(sent) \in Nat
        BY DEF Shape
    <3> QED BY <2>1, <3>1 DEF SamePackets
  <2>6. Carried(J, b)'
      BY <2>1, <2>3, <2>5, CarriedSame
  <2> QED BY <2>4, <2>6
<1> QED BY <1>1, <1>2, <1>3, <1>4, <1>5 DEF Next

LEMMA TransitAlways == Spec => [](Shape /\ InTransit)
<1>1. Init => Shape /\ InTransit
    BY ShapeInit, TransitInit
<1>2. (Shape /\ InTransit) /\ [Next]_vars => (Shape /\ InTransit)'
    BY ShapeNext, TransitNext
<1> QED BY <1>1, <1>2, PTL DEF Spec

\* NeverChokes for any packets and sizes: whatever portable packets are emitted, however
\* they are grouped into payloads, queued and polled, the pieces of every payload that
\* parse_payload is given are the packets that were put into it.
THEOREM NeverChokesAlways == Spec => []NeverChokes
<1>1. InTransit => NeverChokes
    BY DEF InTransit, NeverChokes, Carried
<1> QED BY <1>1, TransitAlways, PTL

\* The emits that were handed on are some of the emits in order.
LEMMA OrderedOrders ==
    ASSUME Shape, NEW J, Ordered(J)
    PROVE  /\ J \in Orders /\ Len(J) \in Nat
           /\ Arriving(J) = [j \in 1..Len(J) |-> Arrival(sent[J[j]].packet)]
<1>1. DOMAIN sent = 1..Len(sent) /\ Len(sent) \in Nat
    BY DEF Shape
<1>2. J \in Seq(1..Len(sent)) /\ Len(J) <= Len(sent)
    BY DEF Ordered
<1>3. DOMAIN J = 1..Len(J) /\ Len(J) \in Nat /\ J \in [1..Len(J) -> 1..Len(sent)]
    BY <1>2
<1>4. J \in BoundedSeq(DOMAIN sent, Len(sent))
  <2>1. Len(J) \in 0..Len(sent)
      BY <1>1, <1>2, <1>3
  <2> QED BY <1>1, <1>3, <2>1 DEF BoundedSeq, SeqOf
<1>5. \A j, k \in DOMAIN J : j < k => J[j] < J[k]
    BY <1>3 DEF Ordered
<1>6. \A i \in Accepted : Contains(J, i)
    BY <1>1 DEF Ordered, Accepted, Contains
<1>7. J \in Orders
    BY <1>4, <1>5, <1>6 DEF Orders
<1>8. Arriving(J) = [j \in 1..Len(J) |-> Arrival(sent[J[j]].packet)]
    BY <1>3 DEF Arriving
<1> QED BY <1>3, <1>7, <1>8

\* ArrivesAsSent for any packets and sizes: the receiving stream yields the packets of
\* some of the emits, all that returned Ok among them, in order, whole and once.
THEOREM ArrivesAsSentAlways == Spec => []ArrivesAsSent
<1>1. Shape /\ InTransit => ArrivesAsSent
  <2> SUFFICES ASSUME Shape, InTransit, Sane
               PROVE  \E J \in Orders : IsPrefix(received, Arriving(J))
      BY DEF ArrivesAsSent
  <2>1. PICK J, b : Ordered(J) /\ Carried(J, b)
      BY DEF InTransit
  <2> DEFINE t == Arriving(J)
  <2>2. J \in Orders /\ Len(J) \in Nat /\ t = [j \in 1..Len(J) |-> Arrival(sent[J[j]].packet)]
      BY <2>1, OrderedOrders
  <2> HIDE DEF t
  <2>3. Len(t) = Len(J) /\ \A j \in 1..Len(J) : t[j] = Arrival(sent[J[j]].packet)
      BY <2>2
  <2>4. /\ received \in Seq(Packet) /\ Len(received) <= Len(J)
        /\ \A i \in 1..Len(received) : received[i] = Arrival(sent[J[i]].packet)
      BY <2>1 DEF Carried, Shape
  <2>5. SubSeq(received, 1, Len(received)) = SubSeq(t, 1, Len(received))
    <3>1. Len(received) \in Nat
        BY <2>4
    <3>2. \A i \in 1..Len(received) : i \in 1..Len(J) /\ 1 + i - 1 = i
        BY <2>2, <2>4, <3>1
    <3>3. \A i \in 1..Len(received) : received[i] = t[i]
        BY <2>3, <2>4, <3>2
    <3>4. SubSeq(received, 1, Len(received)) = [i \in 1..Len(received) |-> received[1 + i - 1]]
        BY <3>1
    <3>5. SubSeq(t, 1, Len(received)) = [i \in 1..Len(received) |-> t[1 + i - 1]]
        BY <3>1
    <3>6. [i \in 1..Len(received) |-> received[1 + i - 1]]
            = [i \in 1..Len(received) |-> t[1 + i - 1]]
        BY <3>2, <3>3
    <3> QED BY <3>4, <3>5, <3>6
  <2>6. IsPrefix(received, t)
      BY <2>3, <2>4, <2>5 DEF IsPrefix
  <2> QED BY <2>2, <2>6 DEF t
<1> QED BY <1>1, TransitAlways, PTL

\* With nothing on its way over an open connection, nothing is missing.
NothingMissing ==
    Sane /\ stream = "open" /\ queue = <<>> /\ body = <<>> /\ pending = <<>>
      => \E J \in Orders : received = Arriving(J)

\* The safety half of AcceptedArrives: once the queue is empty, the response read and its
\* packets yielded, every packet whose emit returned Ok has been received, and in order.
\* No packet can be dropped between channel, response, payload and stream.
THEOREM NothingMissingAlways == Spec => []NothingMissing
<1>1. Shape /\ InTransit => NothingMissing
  <2> SUFFICES ASSUME Shape, InTransit, Sane, stream = "open", queue = <<>>, body = <<>>,
                      pending = <<>>
               PROVE  \E J \in Orders : received = Arriving(J)
      BY DEF NothingMissing
  <2>1. PICK J, b : Ordered(J) /\ Carried(J, b)
      BY DEF InTransit
  <2>2. J \in Orders /\ Arriving(J) = [j \in 1..Len(J) |-> Arrival(sent[J[j]].packet)]
      BY <2>1, OrderedOrders
  <2>3. b = 0
      BY <2>1 DEF Carried
  <2>4. Len(J) = Len(received)
    <3>1. /\ Len(J) = Len(received) + Len(pending) + b + Len(queue) /\ Len(received) \in Nat
        BY <2>1, CarriedLen
    <3>2. Len(pending) = 0 /\ Len(queue) = 0
        OBVIOUS
    <3> QED BY <2>3, <3>1, <3>2
  <2>5. received = [j \in 1..Len(received) |-> received[j]]
      BY DEF Shape
  <2>6. \A j \in 1..Len(received) : received[j] = Arrival(sent[J[j]].packet)
      BY <2>1 DEF Carried
  <2>7. received = Arriving(J)
      BY <2>2, <2>4, <2>5, <2>6
  <2> QED BY <2>2, <2>7
<1> QED BY <1>1, TransitAlways, PTL

=============================================================================
