-------------------------- MODULE WireFormatProofs --------------------------
(***************************************************************************)
(* Proofs about the texts of packet.c and message.c, for names, data and   *)
(* sizes of any length: where the separators of a text are, and that what  *)
(* is parsed is what was printed, whatever the data hold, if the name      *)
(* holds no separator.                                                     *)
(***************************************************************************)
EXTENDS PacketFormat, MessageFormat, SequenceTheorems, WellFoundedInduction, TLAPS

\* The loops stop where the first separator is.
LEMMA FirstAt ==
  ASSUME NEW s, NEW c, NEW k \in Nat, NEW p \in k..Len(s), Len(s) \in Nat,
         s[p] = c, \A j \in k..(p - 1) : s[j] # c
  PROVE  First(s, c, k) = p
<1> DEFINE P(q) == s[q] = c /\ \A j \in k..(q - 1) : s[j] # c
<1>1. \A q \in k..Len(s) : P(q) => q = p
  <2> SUFFICES ASSUME NEW q \in k..Len(s), P(q), q # p PROVE FALSE
    OBVIOUS
  <2>1. CASE q < p
    BY <2>1
  <2>2. CASE p < q
    BY <2>2
  <2> QED BY <2>1, <2>2
<1>2. P(p)
  OBVIOUS
<1> QED BY <1>1, <1>2 DEF First

\* s begins with r.
Begins(s, r) == Len(r) <= Len(s) /\ \A k \in 1..Len(r) : s[k] = r[k]

\* What follows a text in the buffer leaves it as it is.
LEMMA Followed ==
  ASSUME NEW S, NEW r \in Seq(S), NEW rest \in Seq(S)
  PROVE  r \o rest \in Seq(S) /\ Begins(r \o rest, r)
<1>1. /\ r \o rest \in Seq(S) /\ Len(r \o rest) = Len(r) + Len(rest)
      /\ \A i \in 1..Len(r) + Len(rest) : (r \o rest)[i] = IF i <= Len(r) THEN r[i] ELSE rest[i - Len(r)]
  BY ConcatProperties
<1>2. Len(r) \in Nat /\ Len(rest) \in Nat
  OBVIOUS
<1> QED BY <1>1, <1>2 DEF Begins

\* A field is its text and a separator.
LEMMA FieldText ==
  ASSUME NEW S, Colon \in S, NEW x \in Seq(S)
  PROVE  /\ Field(x) \in Seq(S) /\ Len(Field(x)) = Len(x) + 1
         /\ Field(x)[Len(x) + 1] = Colon
         /\ \A k \in 1..Len(x) : Field(x)[k] = x[k]
BY DEF Field

\* The numbers t and n, with their separators.
IsHeader(h, t, n) == Len(h) = 4 /\ h[1] = t /\ h[2] = Colon /\ h[3] = n /\ h[4] = Colon

\* Two fields that are numbers.
LEMMA TwoNumbers ==
  ASSUME NEW S, Colon \in S, Nat \subseteq S, NEW t \in Nat, NEW n \in Nat
  PROVE  /\ Field(<<t>>) \o Field(<<n>>) \in Seq(S)
         /\ IsHeader(Field(<<t>>) \o Field(<<n>>), t, n)
<1> DEFINE f == Field(<<t>>)
           g == Field(<<n>>)
<1>1. <<t>> \in Seq(S) /\ <<n>> \in Seq(S)
  OBVIOUS
<1>2. /\ f \in Seq(S) /\ Len(f) = 2 /\ f[1] = t /\ f[2] = Colon
      /\ g \in Seq(S) /\ Len(g) = 2 /\ g[1] = n /\ g[2] = Colon
  BY <1>1 DEF Field
<1> HIDE DEF f, g
<1>3. /\ f \o g \in Seq(S) /\ Len(f \o g) = 4
      /\ \A i \in 1..4 : (f \o g)[i] = IF i <= 2 THEN f[i] ELSE g[i - 2]
  BY <1>2, ConcatProperties
<1>4. f \o g \in Seq(S) /\ IsHeader(f \o g, t, n)
  BY <1>2, <1>3 DEF IsHeader
<1> QED BY <1>4 DEF f, g

\* The numbers t, i and n, with their separators.
IsLongHeader(h, t, i, n) ==
  /\ Len(h) = 6
  /\ h[1] = t /\ h[2] = Colon /\ h[3] = i /\ h[4] = Colon /\ h[5] = n /\ h[6] = Colon

\* One number more.
LEMMA LongHeader ==
  ASSUME NEW S, NEW f \in Seq(S), NEW g \in Seq(S), NEW t, NEW i, NEW n,
         IsHeader(f, t, i), Len(g) = 2, g[1] = n, g[2] = Colon
  PROVE  f \o g \in Seq(S) /\ IsLongHeader(f \o g, t, i, n)
<1>1. /\ f \o g \in Seq(S) /\ Len(f \o g) = 6
      /\ \A k \in 1..6 : (f \o g)[k] = IF k <= 4 THEN f[k] ELSE g[k - 4]
  <2>1. /\ f \o g \in Seq(S) /\ Len(f \o g) = Len(f) + Len(g)
        /\ \A k \in 1..(Len(f) + Len(g)) :
             (f \o g)[k] = IF k <= Len(f) THEN f[k] ELSE g[k - Len(f)]
    BY ConcatProperties
  <2>2. Len(f) = 4 /\ Len(g) = 2
    BY DEF IsHeader
  <2> QED BY <2>1, <2>2
<1> QED BY <1>1 DEF IsHeader, IsLongHeader

\* Three fields that are numbers.
LEMMA ThreeNumbers ==
  ASSUME NEW S, Colon \in S, Nat \subseteq S, NEW t \in Nat, NEW i \in Nat, NEW n \in Nat
  PROVE  /\ Field(<<t>>) \o Field(<<i>>) \o Field(<<n>>) \in Seq(S)
         /\ IsLongHeader(Field(<<t>>) \o Field(<<i>>) \o Field(<<n>>), t, i, n)
<1> DEFINE f == Field(<<t>>) \o Field(<<i>>)
           g == Field(<<n>>)
<1>1. f \in Seq(S) /\ IsHeader(f, t, i)
  BY TwoNumbers, Zenon
<1>2. g \in Seq(S) /\ Len(g) = 2 /\ g[1] = n /\ g[2] = Colon
  BY DEF Field
<1> HIDE DEF f, g
<1>3. f \o g \in Seq(S) /\ IsLongHeader(f \o g, t, i, n)
  BY <1>1, <1>2, LongHeader, Zenon
<1> QED BY <1>3 DEF f, g

\* r is s, a field with x, and y.
IsExtended(r, s, x, y) ==
  /\ Len(r) = Len(s) + Len(x) + 1 + Len(y)
  /\ \A k \in 1..Len(s) : r[k] = s[k]
  /\ \A k \in 1..Len(x) : r[Len(s) + k] = x[k]
  /\ r[Len(s) + Len(x) + 1] = Colon
  /\ \A k \in 1..Len(y) : r[Len(s) + Len(x) + 1 + k] = y[k]

\* A text with a field behind it, and then anything.
LEMMA Extended ==
  ASSUME NEW S, Colon \in S, NEW s \in Seq(S), NEW x \in Seq(S), NEW y \in Seq(S)
  PROVE  s \o Field(x) \o y \in Seq(S) /\ IsExtended(s \o Field(x) \o y, s, x, y)
<1> DEFINE f == Field(x)
           q == s \o f
<1>1. /\ f \in Seq(S) /\ Len(f) = Len(x) + 1 /\ f[Len(x) + 1] = Colon
      /\ \A k \in 1..Len(x) : f[k] = x[k]
  BY FieldText
<1>2. Len(s) \in Nat /\ Len(x) \in Nat /\ Len(y) \in Nat
  OBVIOUS
<1> HIDE DEF f
<1>3. /\ q \in Seq(S) /\ Len(q) = Len(s) + Len(f)
      /\ \A i \in 1..Len(s) + Len(f) : q[i] = IF i <= Len(s) THEN s[i] ELSE f[i - Len(s)]
  BY <1>1, ConcatProperties
<1> HIDE DEF q
<1>4. /\ q \o y \in Seq(S) /\ Len(q \o y) = Len(q) + Len(y)
      /\ \A i \in 1..Len(q) + Len(y) : (q \o y)[i] = IF i <= Len(q) THEN q[i] ELSE y[i - Len(q)]
  <2>1. q \in Seq(S)
    BY <1>3
  <2> HIDE <1>3
  <2> QED BY <2>1, ConcatProperties
<1>5. \A k \in 1..Len(q) : (q \o y)[k] = q[k]
  BY <1>1, <1>2, <1>3, <1>4
<1>6. \A k \in 1..Len(y) : (q \o y)[Len(q) + k] = y[k]
  BY <1>1, <1>2, <1>3, <1>4
<1>7. \A k \in 1..Len(s) : q[k] = s[k]
  BY <1>1, <1>2, <1>3
<1>8. \A k \in 1..Len(f) : q[Len(s) + k] = f[k]
  BY <1>1, <1>2, <1>3
<1>9. \A k \in 1..Len(s) : (q \o y)[k] = s[k]
  BY <1>1, <1>2, <1>3, <1>5, <1>7
<1>10. \A k \in 1..Len(f) : (q \o y)[Len(s) + k] = f[k]
  BY <1>1, <1>2, <1>3, <1>5, <1>8
<1>11. \A k \in 1..Len(x) : (q \o y)[Len(s) + k] = x[k]
  <2> SUFFICES ASSUME NEW k \in 1..Len(x) PROVE (q \o y)[Len(s) + k] = x[k]
    OBVIOUS
  <2>1. k \in 1..Len(f) /\ f[k] = x[k]
    BY <1>1, <1>2
  <2> QED BY <2>1, <1>10
<1>12. (q \o y)[Len(s) + Len(x) + 1] = Colon
  <2>1. Len(x) + 1 \in 1..Len(f) /\ f[Len(x) + 1] = Colon
    BY <1>1, <1>2
  <2>2. (q \o y)[Len(s) + (Len(x) + 1)] = Colon
    BY <2>1, <1>10
  <2>3. Len(s) + (Len(x) + 1) = Len(s) + Len(x) + 1
    BY <1>2
  <2> QED BY <2>2, <2>3, Zenon
<1>13. /\ q \o y \in Seq(S) /\ Len(q \o y) = Len(s) + Len(x) + 1 + Len(y)
       /\ \A k \in 1..Len(y) : (q \o y)[Len(s) + Len(x) + 1 + k] = y[k]
  <2>1. Len(q) = Len(s) + Len(x) + 1
    BY <1>1, <1>2, <1>3
  <2> QED BY <2>1, <1>4, <1>6
<1> DEFINE r == q \o y
<1>14. r \in Seq(S) /\ IsExtended(r, s, x, y)
  BY <1>9, <1>11, <1>12, <1>13 DEF IsExtended
<1> QED BY <1>14 DEF q, f, r

\* One character that is a number.
LEMMA OneNumber ==
  ASSUME NEW S, NEW s \in Seq(S), NEW p \in 1..Len(s), s[p] \in Nat
  PROVE  Atoi(SubSeq(s, p, p)) = s[p]
<1>1. Len(SubSeq(s, p, p)) = 1 /\ SubSeq(s, p, p)[1] = s[p]
  OBVIOUS
<1> QED BY <1>1 DEF Atoi

\* A part of a text that is a given sequence.
LEMMA Part ==
  ASSUME NEW S, NEW s \in Seq(S), NEW x \in Seq(S), NEW p \in Nat,
         p + Len(x) <= Len(s), \A k \in 1..Len(x) : s[p + k] = x[k]
  PROVE  SubSeq(s, p + 1, p + Len(x)) = x
<1> DEFINE r == SubSeq(s, p + 1, p + Len(x))
<1>1. Len(x) \in Nat /\ Len(s) \in Nat
  OBVIOUS
<1>2. \A i \in (p + 1)..(p + Len(x)) : s[i] \in S
  BY <1>1
<1>3. /\ r \in Seq(S) /\ Len(r) = IF p + 1 <= p + Len(x) THEN p + Len(x) - (p + 1) + 1 ELSE 0
      /\ \A i \in 1..p + Len(x) - (p + 1) + 1 : r[i] = s[p + 1 + i - 1]
  BY <1>1, <1>2, SubSeqProperties
<1> HIDE DEF r
<1>4. Len(r) = Len(x) /\ \A i \in 1..Len(x) : r[i] = s[p + i]
  BY <1>1, <1>3
<1>5. \A i \in 1..Len(r) : r[i] = x[i]
  BY <1>4
<1>6. r = x
  BY <1>3, <1>4, <1>5, SeqEqual
<1> QED BY <1>6 DEF r

\* The same part as the parsers copy it out of their buffer.
LEMMA TakePart ==
  ASSUME NEW S, NEW s \in Seq(S), NEW x \in Seq(S), NEW p \in Nat,
         p + Len(x) <= Len(s), \A k \in 1..Len(x) : s[p + k] = x[k]
  PROVE  Take(s, p + 1, Len(x)) = x
<1>1. Len(x) \in Nat /\ Len(s) \in Nat
  OBVIOUS
<1>2. p + 1 + Len(x) - 1 = p + Len(x)
  BY <1>1
<1> QED BY <1>1, <1>2, Part DEF Take

\* In the buffer s, x and y are found behind the l tokens of h.
IsFound(s, h, l, x, y) ==
  /\ Len(s) \in Nat /\ l <= Len(s) /\ \A k \in 1..l : s[k] = h[k]
  /\ First(s, Colon, l + 1) = l + 1 + Len(x)
  /\ SubSeq(s, l + 1, l + Len(x)) = x
  /\ Take(s, l + 2 + Len(x), Len(y)) = y

\* What the parsers make of a buffer that begins with numbers h, a field with a
\* name x that holds no separator, and data y.
LEMMA NameAndData ==
  ASSUME NEW S, NEW x \in Seq(S), NEW y \in Seq(S), ~ Has(x, Colon), NEW h \in Seq(S),
         NEW r \in Seq(S), IsExtended(r, h, x, y), NEW s \in Seq(S), Begins(s, r),
         NEW l \in Nat, Len(h) = l
  PROVE  IsFound(s, h, l, x, y)
<1> DEFINE n == Len(y)
<1>1. n \in Nat /\ Len(x) \in Nat /\ Len(s) \in Nat
  OBVIOUS
<1> HIDE DEF n
<1>2. /\ Len(r) = l + Len(x) + 1 + n
      /\ \A k \in 1..l : r[k] = h[k]
      /\ \A k \in 1..Len(x) : r[l + k] = x[k]
      /\ r[l + Len(x) + 1] = Colon
      /\ \A k \in 1..n : r[l + Len(x) + 1 + k] = y[k]
  BY DEF IsExtended, n
<1>3. /\ l + Len(x) + 1 + n <= Len(s)
      /\ \A k \in 1..(l + Len(x) + 1 + n) : s[k] = r[k]
  BY <1>2 DEF Begins
<1>4. /\ \A k \in 1..l : k \in 1..(l + Len(x) + 1 + n)
      /\ \A k \in 1..Len(x) : l + k \in 1..(l + Len(x) + 1 + n)
      /\ l + Len(x) + 1 \in 1..(l + Len(x) + 1 + n)
      /\ \A k \in 1..n : l + Len(x) + 1 + k \in 1..(l + Len(x) + 1 + n)
  BY <1>1
<1>5. /\ \A k \in 1..l : s[k] = h[k]
      /\ \A k \in 1..Len(x) : s[l + k] = x[k]
      /\ s[l + Len(x) + 1] = Colon
      /\ \A k \in 1..n : s[l + Len(x) + 1 + k] = y[k]
  BY <1>2, <1>3, <1>4, Zenon
<1>6. First(s, Colon, l + 1) = l + 1 + Len(x)
  <2>1. \A j \in (l + 1)..(l + 1 + Len(x) - 1) : s[j] # Colon
    <3> SUFFICES ASSUME NEW j \in (l + 1)..(l + 1 + Len(x) - 1) PROVE s[j] # Colon
      OBVIOUS
    <3>1. j - l \in 1..Len(x) /\ j = l + (j - l)
      BY <1>1
    <3>2. s[j] = x[j - l]
      BY <3>1, <1>5
    <3> QED BY <3>1, <3>2 DEF Has
  <2>2. /\ l + 1 \in Nat /\ l + 1 + Len(x) \in (l + 1)..Len(s) /\ Len(s) \in Nat
    BY <1>1, <1>3
  <2>3. l + Len(x) + 1 = l + 1 + Len(x)
    BY <1>1
  <2>4. s[l + 1 + Len(x)] = Colon
    BY <2>3, <1>5
  <2> QED BY <2>1, <2>2, <2>4, FirstAt
<1>7. SubSeq(s, l + 1, l + Len(x)) = x
  <2>1. l + Len(x) <= Len(s)
    BY <1>1, <1>3
  <2> QED BY <2>1, <1>5, Part
<1>8. Take(s, l + 2 + Len(x), n) = y
  <2> DEFINE p == l + Len(x) + 1
  <2>1. p \in Nat /\ p + n <= Len(s) /\ p + 1 = l + 2 + Len(x)
    BY <1>1, <1>3
  <2>2. \A k \in 1..n : s[p + k] = y[k]
    BY <1>5
  <2> HIDE DEF p
  <2>3. Take(s, p + 1, Len(y)) = y
    BY <2>1, <2>2, TakePart DEF n
  <2> QED BY <2>1, <2>3 DEF n
<1>9. l <= Len(s)
  BY <1>1, <1>3
<1> QED BY <1>1, <1>5, <1>6, <1>7, <1>8, <1>9 DEF IsFound, n

\* A loop that looks for a character that is there finds the first one.
LEMMA FirstFound ==
  ASSUME NEW S, NEW s \in Seq(S), NEW c, Has(s, c)
  PROVE  /\ First(s, c, 1) \in 1..Len(s) /\ s[First(s, c, 1)] = c
         /\ \A j \in 1..(First(s, c, 1) - 1) : s[j] # c
<1> DEFINE T == {k \in 1..Len(s) : s[k] = c}
           R == OpToRel(<, Nat)
<1>1. Len(s) \in Nat
  OBVIOUS
<1>2. T \subseteq Nat /\ T # {}
  BY <1>1 DEF Has
<1>3. IsWellFoundedOn(R, Nat)
  BY NatLessThanWellFounded
<1> HIDE DEF R
<1>4. PICK p \in T : \A q \in T : ~ (<<q, p>> \in R)
  BY <1>2, <1>3, WFMin
<1>5. \A a, b \in Nat : a < b => <<a, b>> \in R
  BY DEF OpToRel, R
<1>6. ASSUME NEW j \in 1..(p - 1) PROVE s[j] # c
  <2>1. p \in Nat /\ p \in 1..Len(s)
    BY <1>2, <1>4
  <2>2. j \in Nat /\ j < p /\ j \in 1..Len(s)
    BY <1>1, <2>1
  <2>3. j \notin T
    BY <1>4, <1>5, <2>1, <2>2, Zenon
  <2> QED BY <2>2, <2>3
<1>7. 1 \in Nat /\ p \in 1..Len(s) /\ s[p] = c
  BY <1>4
<1>8. First(s, c, 1) = p
  BY <1>1, <1>6, <1>7, FirstAt
<1> QED BY <1>6, <1>7, <1>8

\* Any name x ends at its first separator, or at the one behind it.
NameEnd(x) == First(Field(x), Colon, 1)

LEMMA NameEndType ==
  ASSUME NEW S, Colon \in S, NEW x \in Seq(S)
  PROVE  /\ NameEnd(x) \in 1..(Len(x) + 1) /\ Field(x)[NameEnd(x)] = Colon
         /\ \A j \in 1..(NameEnd(x) - 1) : x[j] # Colon
<1>1. Len(x) \in Nat
  OBVIOUS
<1>2. /\ Field(x) \in Seq(S) /\ Len(Field(x)) = Len(x) + 1 /\ Field(x)[Len(x) + 1] = Colon
      /\ \A k \in 1..Len(x) : Field(x)[k] = x[k]
  BY FieldText
<1>3. Has(Field(x), Colon)
  BY <1>1, <1>2 DEF Has
<1>4. /\ NameEnd(x) \in 1..(Len(x) + 1) /\ Field(x)[NameEnd(x)] = Colon
      /\ \A j \in 1..(NameEnd(x) - 1) : Field(x)[j] # Colon
  BY <1>2, <1>3, FirstFound DEF NameEnd
<1> QED BY <1>1, <1>2, <1>4

\* In the buffer r, behind l tokens, x is read up to its first separator, and n
\* characters are taken behind that.
IsCut(S, r, l, x, n) ==
  /\ First(r, Colon, l + 1) = l + NameEnd(x)
  /\ SubSeq(r, l + 1, l + NameEnd(x) - 1) = SubSeq(x, 1, NameEnd(x) - 1)
  /\ Take(r, l + NameEnd(x) + 1, n) \in Seq(S)
  /\ Len(Take(r, l + NameEnd(x) + 1, n)) = n

\* The text in front of it is the name that is read, and as many characters
\* are taken behind it as were announced.
LEMMA CutName ==
  ASSUME NEW S, Colon \in S, NEW x \in Seq(S), NEW y \in Seq(S), NEW h \in Seq(S),
         NEW r \in Seq(S), IsExtended(r, h, x, y), NEW l \in Nat, Len(h) = l
  PROVE  IsCut(S, r, l, x, Len(y))
<1> DEFINE n == Len(y)
           q == NameEnd(x)
<1>1. n \in Nat /\ Len(x) \in Nat /\ Len(r) \in Nat
  OBVIOUS
<1> HIDE DEF n
<1>2. /\ Len(r) = l + Len(x) + 1 + n
      /\ \A k \in 1..Len(x) : r[l + k] = x[k]
      /\ r[l + Len(x) + 1] = Colon
  BY DEF IsExtended, n
<1>3. /\ q \in 1..(Len(x) + 1) /\ Field(x)[q] = Colon
      /\ \A j \in 1..(q - 1) : x[j] # Colon
  BY NameEndType
<1>4. \A k \in 1..Len(x) : Field(x)[k] = x[k]
  BY FieldText
<1> HIDE DEF q
<1>5. r[l + q] = Colon
  <2>1. CASE q = Len(x) + 1
    BY <2>1, <1>1, <1>2
  <2>2. CASE q # Len(x) + 1
    <3>1. q \in 1..Len(x)
      BY <2>2, <1>1, <1>3
    <3> QED BY <3>1, <1>2, <1>3, <1>4
  <2> QED BY <2>1, <2>2
<1>6. First(r, Colon, l + 1) = l + q
  <2>1. ASSUME NEW j \in (l + 1)..(l + q - 1) PROVE r[j] # Colon
    <3>1. j - l \in 1..(q - 1) /\ j - l \in 1..Len(x) /\ j = l + (j - l)
      BY <1>1, <1>3
    <3> QED BY <3>1, <1>2, <1>3
  <2>2. l + 1 \in Nat /\ l + q \in (l + 1)..Len(r)
    BY <1>1, <1>2, <1>3
  <2>3. \A j \in (l + 1)..((l + q) - 1) : r[j] # Colon
    BY <1>1, <1>3, <2>1
  <2> QED BY <1>1, <1>5, <2>2, <2>3, FirstAt, Zenon
<1>7. SubSeq(r, l + 1, l + q - 1) = SubSeq(x, 1, q - 1)
  <2> DEFINE z == SubSeq(x, 1, q - 1)
  <2>1. z \in Seq(S) /\ Len(z) = q - 1 /\ \A k \in 1..(q - 1) : z[k] = x[k]
    <3>1. q - 1 \in Nat /\ \A k \in 1..(q - 1) : k \in 1..Len(x) /\ x[k] \in S
      BY <1>1, <1>3
    <3> DEFINE m == q - 1
    <3> HIDE DEF m
    <3>2. /\ SubSeq(x, 1, m) \in Seq(S) /\ Len(SubSeq(x, 1, m)) = m
          /\ \A k \in 1..m : SubSeq(x, 1, m)[k] = x[k]
      BY <1>1, <3>1 DEF m
    <3> QED BY <3>2 DEF m
  <2> HIDE DEF z
  <2>2. l + Len(z) <= Len(r) /\ \A k \in 1..Len(z) : r[l + k] = z[k]
    <3>1. \A k \in 1..(q - 1) : k \in 1..Len(x)
      BY <1>1, <1>3
    <3>2. l + (q - 1) <= Len(r)
      BY <1>1, <1>2, <1>3
    <3>3. \A k \in 1..(q - 1) : r[l + k] = z[k]
      BY <3>1, <2>1, <1>2
    <3> QED BY <3>2, <3>3, <2>1
  <2>3. SubSeq(r, l + 1, l + Len(z)) = z
    BY <2>1, <2>2, Part
  <2>4. l + Len(z) = l + q - 1
    BY <2>1, <1>3
  <2> QED BY <2>3, <2>4 DEF z
<1>8. Take(r, l + q + 1, n) \in Seq(S) /\ Len(Take(r, l + q + 1, n)) = n
  <2>1. /\ l + q + 1 \in Nat /\ l + q + 1 >= 1 /\ l + q + 1 + n - 1 <= Len(r)
        /\ l + q + 1 + n - 1 \in Int
    BY <1>1, <1>2, <1>3
  <2> DEFINE a == l + q + 1
             b == l + q + 1 + n - 1
  <2>2. Take(r, a, n) = SubSeq(r, a, b)
    BY <2>1 DEF Take
  <2>3. \A k \in a..b : r[k] \in S
    BY <2>1
  <2>4. a \in Int /\ b \in Int /\ b - a + 1 = n
    BY <2>1, <1>1, <1>3
  <2> HIDE DEF a, b
  <2>5. SubSeq(r, a, b) \in Seq(S) /\ Len(SubSeq(r, a, b)) = IF a <= b THEN b - a + 1 ELSE 0
    BY <2>3, <2>4, SubSeqProperties
  <2>6. n > 0 => a <= b
    BY <2>4
  <2>7. Len(SubSeq(r, a, b)) = n
    BY <2>4, <2>5, <2>6, <1>1
  <2> QED BY <2>2, <2>5, <2>7 DEF a
<1> QED BY <1>6, <1>7, <1>8 DEF n, q, IsCut

\* s is read as a message of type t and size n, with the name x and data that
\* begin with y.
IsReadAs(s, t, n, x, y) ==
  /\ string_to_message(s) = [type |-> t, size |-> n, source |-> x,
                             data |-> Take(s, Len(x) + 6, n)]
  /\ Len(s) \in Nat /\ Len(x) + 5 + Len(y) <= Len(s)
  /\ Take(s, Len(x) + 6, Len(y)) = y
  /\ \A k \in 1..Len(y) : s[Len(x) + 5 + k] = y[k]

\* What string_to_message makes of a text that begins with two numbers, a name
\* and data, not necessarily as many as the second number says.
LEMMA ParsedMessage ==
  ASSUME NEW S, NEW t \in Nat, NEW n \in Nat, NEW x \in Seq(S), NEW y \in Seq(S),
         ~ Has(x, Colon), NEW h \in Seq(S), IsHeader(h, t, n),
         NEW r \in Seq(S), IsExtended(r, h, x, y), NEW s \in Seq(S), Begins(s, r)
  PROVE  IsReadAs(s, t, n, x, y)
<1>1. n \in Nat /\ Len(x) \in Nat /\ Len(y) \in Nat
  OBVIOUS
<1>2. Len(h) = 4 /\ h[1] = t /\ h[2] = Colon /\ h[3] = n /\ h[4] = Colon
  BY DEF IsHeader
<1>9. IsFound(s, h, 4, x, y)
  BY <1>2, NameAndData, Zenon
<1>3. /\ Len(s) \in Nat /\ 4 <= Len(s) /\ \A k \in 1..4 : s[k] = h[k]
      /\ First(s, Colon, 4 + 1) = 4 + 1 + Len(x)
      /\ SubSeq(s, 4 + 1, 4 + Len(x)) = x
      /\ Take(s, 4 + 2 + Len(x), Len(y)) = y
  BY <1>9 DEF IsFound
<1>4. s[1] = t /\ s[2] = Colon /\ s[3] = n /\ s[4] = Colon
  BY <1>2, <1>3
<1>5. First(s, Colon, 1) = 2 /\ First(s, Colon, 3) = 4
  <2>1. /\ 1 \in Nat /\ 2 \in 1..Len(s) /\ \A j \in 1..(2 - 1) : s[j] # Colon
        /\ 3 \in Nat /\ 4 \in 3..Len(s) /\ \A j \in 3..(4 - 1) : s[j] # Colon
    BY <1>1, <1>3, <1>4, CharacterAssumption
  <2> QED BY <2>1, <1>3, <1>4, FirstAt
<1>6. Atoi(SubSeq(s, 1, 1)) = t /\ Atoi(SubSeq(s, 3, 3)) = n
  <2>1. 1 \in 1..Len(s) /\ 3 \in 1..Len(s)
    BY <1>3
  <2> QED BY <2>1, <1>1, <1>4, OneNumber
<1>7. /\ 2 - 1 = 1 /\ 2 + 1 = 3 /\ 4 - 1 = 3 /\ 4 + 1 = 5
      /\ (5 + Len(x)) - 1 = 4 + Len(x) /\ (5 + Len(x)) + 1 = Len(x) + 6
      /\ 4 + 2 + Len(x) = Len(x) + 6
  BY <1>1
<1>8. string_to_message(s) = [type |-> t, size |-> n, source |-> x,
                              data |-> Take(s, Len(x) + 6, n)]
  BY <1>3, <1>5, <1>6, <1>7, Zenon DEF string_to_message
<1>10. Len(x) + 5 + Len(y) <= Len(s) /\ \A k \in 1..Len(y) : s[Len(x) + 5 + k] = y[k]
  <2>1. /\ Len(r) = 4 + Len(x) + 1 + Len(y) /\ Len(r) <= Len(s)
        /\ \A k \in 1..Len(y) : r[4 + Len(x) + 1 + k] = y[k]
        /\ \A k \in 1..Len(r) : s[k] = r[k]
    BY <1>2 DEF IsExtended, Begins
  <2>2. \A k \in 1..Len(y) : 4 + Len(x) + 1 + k = Len(x) + 5 + k /\ Len(x) + 5 + k \in 1..Len(r)
    BY <1>1, <2>1
  <2>3. \A k \in 1..Len(y) : s[Len(x) + 5 + k] = y[k]
    BY <2>1, <2>2
  <2> QED BY <1>1, <1>3, <2>1, <2>3
<1>11. Take(s, Len(x) + 6, Len(y)) = y
  BY <1>3, <1>7, Zenon
<1> QED BY <1>3, <1>8, <1>10, <1>11 DEF IsReadAs

\* A message is parsed as it was printed, whatever its data hold and whatever
\* follows it in the buffer, if the name of the user holds no separator.
THEOREM MessageRoundTrip ==
  ASSUME NEW S, Colon \in S, Nat \subseteq S, NEW rest \in Seq(S),
         NEW type \in Nat, NEW source \in Seq(S), NEW data \in Seq(S), ~ Has(source, Colon)
  PROVE  LET m == [type |-> type, size |-> Len(data), source |-> source, data |-> data]
         IN  string_to_message(message_to_string(m) \o rest) = m
<1> DEFINE m == [type |-> type, size |-> Len(data), source |-> source, data |-> data]
           h == Field(<<type>>) \o Field(<<Len(data)>>)
           r == h \o Field(source) \o data
<1>1. Len(data) \in Nat
  OBVIOUS
<1>2. h \in Seq(S) /\ IsHeader(h, type, Len(data))
  BY <1>1, TwoNumbers
<1>3. message_to_string(m) = r
  BY DEF message_to_string
<1> HIDE DEF h
<1>4. r \in Seq(S) /\ IsExtended(r, h, source, data)
  BY <1>2, Extended
<1> HIDE DEF r
<1>5. r \o rest \in Seq(S) /\ Begins(r \o rest, r)
  BY <1>4, Followed
<1>6. IsReadAs(r \o rest, type, Len(data), source, data)
  BY <1>1, <1>2, <1>4, <1>5, ParsedMessage
<1> QED BY <1>3, <1>6 DEF IsReadAs

\* A fragment is parsed as it was printed, whatever its data hold, if the name
\* of its file holds no separator.
THEOREM PacketRoundTrip ==
  ASSUME NEW S, Colon \in S, Nat \subseteq S, NEW total \in Nat, NEW number \in Nat,
         NEW name \in Seq(S), NEW data \in Seq(S), ~ Has(name, Colon)
  PROVE  LET p == write_packets(total, number, name, data)
         IN  buffer_to_packet(convert_to_string(p)) = p
<1> DEFINE n == Len(data)
           p == [total_frag |-> total, frag_no |-> number, size |-> n,
                 filename |-> name, filedata |-> data]
           h == Field(<<total>>) \o Field(<<number>>) \o Field(<<n>>)
           s == h \o Field(name) \o data
<1>1. n \in Nat /\ Len(name) \in Nat
  OBVIOUS
<1>2. h \in Seq(S) /\ IsLongHeader(h, total, number, n)
  BY <1>1, ThreeNumbers, Zenon
<1>3. write_packets(total, number, name, data) = p /\ convert_to_string(p) = s
  BY DEF write_packets, convert_to_string
<1> HIDE DEF h
<1>4. s \in Seq(S) /\ IsExtended(s, h, name, data)
  BY <1>2, Extended
<1> HIDE DEF s
<1>5. Begins(s, s)
  BY <1>4 DEF Begins
<1> Len(h) = 6
  BY <1>2 DEF IsLongHeader
<1>6. IsFound(s, h, 6, name, data)
  BY <1>2, <1>4, <1>5, NameAndData, Zenon
<1>7. /\ Len(s) \in Nat /\ 6 <= Len(s) /\ \A k \in 1..6 : s[k] = h[k]
      /\ First(s, Colon, 6 + 1) = 6 + 1 + Len(name)
      /\ SubSeq(s, 6 + 1, 6 + Len(name)) = name
      /\ Take(s, 6 + 2 + Len(name), n) = data
  BY <1>6 DEF IsFound
<1> HIDE DEF n
<1>8. s[1] = total /\ s[2] = Colon /\ s[3] = number /\ s[4] = Colon /\ s[5] = n /\ s[6] = Colon
  BY <1>2, <1>7 DEF IsLongHeader
<1>9. First(s, Colon, 1) = 2 /\ First(s, Colon, 3) = 4 /\ First(s, Colon, 5) = 6
  <2>1. /\ 1 \in Nat /\ 2 \in 1..Len(s) /\ \A j \in 1..(2 - 1) : s[j] # Colon
        /\ 3 \in Nat /\ 4 \in 3..Len(s) /\ \A j \in 3..(4 - 1) : s[j] # Colon
        /\ 5 \in Nat /\ 6 \in 5..Len(s) /\ \A j \in 5..(6 - 1) : s[j] # Colon
    BY <1>1, <1>7, <1>8, CharacterAssumption
  <2> QED BY <2>1, <1>7, <1>8, FirstAt
<1>10. /\ Atoi(SubSeq(s, 1, 1)) = total /\ Atoi(SubSeq(s, 3, 3)) = number
       /\ Atoi(SubSeq(s, 5, 5)) = n
  <2>1. 1 \in 1..Len(s) /\ 3 \in 1..Len(s) /\ 5 \in 1..Len(s)
    BY <1>7
  <2> QED BY <2>1, <1>1, <1>4, <1>8, OneNumber
<1> DEFINE p1 == First(s, Colon, 1)
           p2 == First(s, Colon, p1 + 1)
           p3 == First(s, Colon, p2 + 1)
           p4 == First(s, Colon, p3 + 1)
<1>11. p1 = 2 /\ p2 = 4 /\ p3 = 6 /\ p4 = 7 + Len(name)
  BY <1>7, <1>9
<1>12. buffer_to_packet(s) =
         [total_frag |-> Atoi(SubSeq(s, 1, p1 - 1)), frag_no |-> Atoi(SubSeq(s, p1 + 1, p2 - 1)),
          size |-> Atoi(SubSeq(s, p2 + 1, p3 - 1)), filename |-> SubSeq(s, p3 + 1, p4 - 1),
          filedata |-> Take(s, p4 + 1, Atoi(SubSeq(s, p2 + 1, p3 - 1)))]
  BY Zenon DEF buffer_to_packet
<1> HIDE DEF p1, p2, p3, p4
<1>13. /\ p1 - 1 = 1 /\ p1 + 1 = 3 /\ p2 - 1 = 3 /\ p2 + 1 = 5 /\ p3 - 1 = 5 /\ p3 + 1 = 6 + 1
       /\ p4 - 1 = 6 + Len(name) /\ p4 + 1 = 6 + 2 + Len(name)
  BY <1>1, <1>11
<1>14. buffer_to_packet(s) = p
  BY <1>7, <1>10, <1>12, <1>13, Zenon
<1> QED BY <1>3, <1>14
=============================================================================
