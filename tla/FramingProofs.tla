---------------------------- MODULE FramingProofs ----------------------------
(***************************************************************************)
(* That a buffer of the conference is read as the message it begins with,  *)
(* for any messages that the programs send, however many are on their way  *)
(* and wherever recv() cuts the stream.  Laid says where in the stream the *)
(* messages are, as long as no recv() has ended inside one.                *)
(***************************************************************************)
EXTENDS MessageFraming, WireFormatProofs, FunctionTheorems, FiniteSetTheorems

\* Texts are made of the tokens of S, and messages are those that fill_message
\* makes: of C strings, except that strtok() has put zeros in a line of chat.
Sends(S) ==
  /\ Nat \cup {Colon, Nul, Space} \subseteq S
  /\ Space # Nul /\ MESSAGE \in Nat
  /\ \A m \in Traffic : \E t \in Nat : \E x, raw \in Seq(S) :
       /\ m = fill_message(t, x, raw)
       /\ ~ Has(x, Nul) /\ (t # MESSAGE => ~ Has(raw, Nul))

-----------------------------------------------------------------------------
(* What is sent of a message.                                              *)

\* A message that is sent up to its end, and one that ends with its only zero.
Unterminated(m) == ~ Has(m.data, Nul) /\ (m.type = MESSAGE => Len(m.data) = 0)
Line(m) ==
  /\ m.type = MESSAGE /\ Len(m.data) > 0
  /\ \A k \in 1..Len(m.data) : m.data[k] = Nul <=> k = Len(m.data)

IsMessage(S, m) ==
  /\ m.type \in Nat /\ m.source \in Seq(S) /\ m.data \in Seq(S) /\ m.size = Len(m.data)
  /\ m = [type |-> m.type, size |-> m.size, source |-> m.source, data |-> m.data]
  /\ ~ Has(m.source, Nul)
  /\ Unterminated(m) \/ Line(m)

LEMMA MessageTypes ==
  ASSUME NEW S, Sends(S), NEW m \in Traffic
  PROVE  IsMessage(S, m)
<1>1. PICK t \in Nat, x \in Seq(S), raw \in Seq(S) :
        /\ m = fill_message(t, x, raw)
        /\ ~ Has(x, Nul) /\ (t # MESSAGE => ~ Has(raw, Nul))
  BY DEF Sends
<1> DEFINE n == Len(raw)
           c(k) == IF t # MESSAGE THEN raw[k]
                   ELSE IF k = n THEN Nul
                   ELSE IF raw[k] = Nul THEN Space ELSE raw[k]
           d == [k \in 1..n |-> c(k)]
<1>2. n \in Nat /\ Nul \in S /\ Space \in S /\ Space # Nul /\ \A k \in 1..n : raw[k] \in S
  BY DEF Sends
<1>3. m = [type |-> t, size |-> n, source |-> x, data |-> d]
  BY <1>1 DEF fill_message
<1>4. \A k \in 1..n : c(k) \in S
  BY <1>2
<1>5. \A k \in 1..n : d[k] = c(k)
  OBVIOUS
<1>6. d \in Seq(S) /\ Len(d) = n
  <2> HIDE DEF c
  <2>1. d \in [1..n -> S]
    BY <1>4
  <2> QED BY <1>2, <2>1
<1>7. CASE t # MESSAGE
  <2>1. ~ Has(d, Nul)
    BY <1>1, <1>5, <1>6, <1>7 DEF Has
  <2> HIDE DEF d, n, c
  <2>2. Unterminated(m)
    BY <1>3, <1>7, <2>1 DEF Unterminated
  <2> QED BY <1>1, <1>3, <1>6, <2>2 DEF IsMessage
<1>8. CASE t = MESSAGE /\ n = 0
  <2>1. ~ Has(d, Nul)
    BY <1>6, <1>8 DEF Has
  <2> HIDE DEF d, n, c
  <2>2. Unterminated(m)
    BY <1>3, <1>6, <1>8, <2>1 DEF Unterminated
  <2> QED BY <1>1, <1>3, <1>6, <2>2 DEF IsMessage
<1>9. CASE t = MESSAGE /\ n # 0
  <2>1. \A k \in 1..n : d[k] = Nul <=> k = n
    BY <1>2, <1>5, <1>9
  <2> HIDE DEF d, n, c
  <2>2. Line(m)
    BY <1>2, <1>3, <1>6, <1>9, <2>1 DEF Line
  <2> QED BY <1>1, <1>3, <1>6, <2>2 DEF IsMessage
<1> QED BY <1>7, <1>8, <1>9

\* strlen() of a text without a zero, and of one that ends with its only zero.
LEMMA WholeString ==
  ASSUME NEW w, ~ Has(w, Nul)
  PROVE  CString(w) = w
BY DEF CString

LEMMA LastCut ==
  ASSUME NEW S, NEW w \in Seq(S), Len(w) > 0,
         \A k \in 1..Len(w) : w[k] = Nul <=> k = Len(w)
  PROVE  /\ CString(w) \in Seq(S) /\ Len(CString(w)) = Len(w) - 1
         /\ \A k \in 1..(Len(w) - 1) : CString(w)[k] = w[k]
<1> DEFINE n == Len(w)
<1>1. n \in Nat /\ n \in 1..n
  OBVIOUS
<1>2. Has(w, Nul)
  BY <1>1 DEF Has
<1>3. First(w, Nul, 1) = n
  <2>1. /\ 1 \in Nat /\ n \in 1..Len(w) /\ Len(w) \in Nat
        /\ w[n] = Nul /\ \A j \in 1..(n - 1) : w[j] # Nul
    BY <1>1
  <2> QED BY <2>1, FirstAt, Zenon
<1>4. CString(w) = SubSeq(w, 1, n - 1)
  BY <1>2, <1>3 DEF CString
<1>5. \A k \in 1..(n - 1) : w[k] \in S
  BY <1>1
<1> HIDE DEF n
<1>6. /\ SubSeq(w, 1, n - 1) \in Seq(S) /\ Len(SubSeq(w, 1, n - 1)) = n - 1
      /\ \A k \in 1..(n - 1) : SubSeq(w, 1, n - 1)[k] = w[k]
  BY <1>1, <1>5, SubSeqProperties
<1> QED BY <1>4, <1>6 DEF n

\* The characters that are sent of a message.
Text(m) == CString(message_to_string(m))

\* They are two numbers, the source, and z of the data.
IsText(S, m, z) ==
  /\ Text(m) \in Seq(S) /\ z \in Seq(S)
  /\ \E h \in Seq(S) : IsHeader(h, m.type, m.size) /\ IsExtended(Text(m), h, m.source, z)

\* Where the zeros of a printed message are: only in its data.
LEMMA Printed ==
  ASSUME NEW S, Sends(S), NEW m, IsMessage(S, m)
  PROVE  \E h \in Seq(S) :
           /\ IsHeader(h, m.type, m.size)
           /\ message_to_string(m) \in Seq(S)
           /\ IsExtended(message_to_string(m), h, m.source, m.data)
           /\ \A k \in 1..(Len(m.source) + 5) : message_to_string(m)[k] # Nul
<1> DEFINE h == Field(<<m.type>>) \o Field(<<m.size>>)
           w == h \o Field(m.source) \o m.data
           x == m.source
           y == m.data
<1>1. /\ m.type \in Nat /\ m.size \in Nat /\ x \in Seq(S) /\ y \in Seq(S)
      /\ Len(x) \in Nat /\ Len(y) \in Nat /\ ~ Has(x, Nul)
  BY DEF IsMessage
<1>2. Colon \in S /\ Nat \subseteq S
  BY DEF Sends
<1>3. h \in Seq(S) /\ IsHeader(h, m.type, m.size)
  BY <1>1, <1>2, TwoNumbers
<1>4. message_to_string(m) = w
  BY DEF message_to_string
<1> HIDE DEF h, x, y
<1>5. w \in Seq(S) /\ IsExtended(w, h, x, y)
  BY <1>1, <1>2, <1>3, Extended DEF x, y
<1> HIDE DEF w
<1>6. ASSUME NEW k \in 1..(Len(x) + 5) PROVE w[k] # Nul
  <2>1. CASE k \in 1..4
    <3>1. w[k] = h[k]
      BY <1>3, <1>5, <2>1 DEF IsExtended, IsHeader
    <3>2. h[k] \in Nat \/ h[k] = Colon
      BY <1>1, <1>3, <2>1 DEF IsHeader
    <3> QED BY <3>1, <3>2, CharacterAssumption
  <2>2. CASE k \in 5..(Len(x) + 4)
    <3>1. k - 4 \in 1..Len(x) /\ k = 4 + (k - 4)
      BY <1>1, <2>2
    <3>2. w[k] = x[k - 4]
      BY <1>3, <1>5, <3>1 DEF IsExtended, IsHeader
    <3> QED BY <1>1, <3>1, <3>2 DEF Has
  <2>3. CASE k = Len(x) + 5
    <3>1. 4 + Len(x) + 1 = k
      BY <1>1, <2>3
    <3>2. w[k] = Colon
      BY <1>3, <1>5, <3>1 DEF IsExtended, IsHeader
    <3> QED BY <3>2, CharacterAssumption
  <2> QED BY <1>1, <2>1, <2>2, <2>3
<1> QED BY <1>3, <1>4, <1>5, <1>6 DEF x, y

\* A text without a zero is sent as it is.
LEMMA UnterminatedText ==
  ASSUME NEW S, Sends(S), NEW m, IsMessage(S, m), Unterminated(m)
  PROVE  IsText(S, m, m.data)
<1> DEFINE w == message_to_string(m)
<1>1. PICK h \in Seq(S) :
        /\ IsHeader(h, m.type, m.size) /\ w \in Seq(S) /\ IsExtended(w, h, m.source, m.data)
        /\ \A k \in 1..(Len(m.source) + 5) : w[k] # Nul
  BY Printed
<1> HIDE DEF w
<1>2. Len(m.source) \in Nat /\ Len(m.data) \in Nat /\ m.data \in Seq(S)
  BY DEF IsMessage
<1>3. PICK a \in Nat, b \in Nat : a = Len(m.source) /\ b = Len(m.data)
  BY <1>2
<1>5. /\ Len(w) = a + 5 + b /\ \A k \in 1..(a + 5) : w[k] # Nul
      /\ \A k \in 1..b : w[4 + a + 1 + k] = m.data[k] /\ m.data[k] # Nul
  <2>1. \A k \in 1..b : m.data[k] # Nul
    BY <1>3 DEF Unterminated, Has
  <2>2. Len(h) = 4
    BY <1>1 DEF IsHeader
  <2>3. Len(w) = 4 + a + 1 + b /\ \A k \in 1..b : w[4 + a + 1 + k] = m.data[k]
    BY <1>1, <1>3, <2>2, Zenon DEF IsExtended
  <2>4. \A k \in 1..(a + 5) : w[k] # Nul
    BY <1>1, <1>3, Zenon
  <2>5. 4 + a + 1 + b = a + 5 + b
    OBVIOUS
  <2> QED BY <2>1, <2>3, <2>4, <2>5
<1>6. ~ Has(w, Nul)
  <2> SUFFICES ASSUME NEW k \in 1..(a + 5 + b) PROVE w[k] # Nul
    BY <1>5 DEF Has
  <2>1. CASE k <= a + 5
    BY <1>5, <2>1
  <2>2. CASE ~ (k <= a + 5)
    <3>1. k - (a + 5) \in 1..b /\ 4 + a + 1 + (k - (a + 5)) = k
      BY <2>2
    <3> QED BY <1>5, <3>1
  <2> QED BY <2>1, <2>2
<1>4. Text(m) = w
  BY <1>6, WholeString DEF Text, w
<1> QED BY <1>1, <1>2, <1>4 DEF IsText

\* z is y without its last token.
IsShortened(z, y) == Len(z) = Len(y) - 1 /\ \A k \in 1..(Len(y) - 1) : z[k] = y[k]

LEMMA Shortened ==
  ASSUME NEW S, NEW y \in Seq(S), Len(y) > 0
  PROVE  \E z \in Seq(S) : IsShortened(z, y)
<1> DEFINE n == Len(y) - 1
<1>1. n \in Nat /\ \A k \in 1..n : y[k] \in S
  OBVIOUS
<1> HIDE DEF n
<1>2. /\ SubSeq(y, 1, n) \in Seq(S) /\ Len(SubSeq(y, 1, n)) = n
      /\ \A k \in 1..n : SubSeq(y, 1, n)[k] = y[k]
  BY <1>1, SubSeqProperties
<1> QED BY <1>2 DEF IsShortened, n

\* A line of chat is sent without the zero that ends it.
LEMMA LineText ==
  ASSUME NEW S, Sends(S), NEW m, IsMessage(S, m), Line(m)
  PROVE  \E z \in Seq(S) : IsText(S, m, z) /\ IsShortened(z, m.data)
<1> DEFINE w == message_to_string(m)
           x == m.source
           y == m.data
<1>1. PICK h \in Seq(S) :
        /\ IsHeader(h, m.type, m.size) /\ w \in Seq(S) /\ IsExtended(w, h, x, y)
        /\ \A k \in 1..(Len(x) + 5) : w[k] # Nul
  BY Printed
<1>2. x \in Seq(S) /\ y \in Seq(S) /\ Len(y) > 0 /\ \A k \in 1..Len(y) : y[k] = Nul <=> k = Len(y)
  BY DEF IsMessage, Line
<1>3. Text(m) = CString(w)
  BY DEF Text
<1> HIDE DEF w, x, y
<1>4. PICK a \in Nat, b \in Nat : a = Len(x) /\ b = Len(y) /\ b > 0
  BY <1>2
<1>5. Len(h) = 4
  BY <1>1 DEF IsHeader
<1>6. /\ Len(w) = 4 + a + 1 + b
      /\ \A k \in 1..4 : w[k] = h[k]
      /\ \A k \in 1..a : w[4 + k] = x[k]
      /\ w[4 + a + 1] = Colon
      /\ \A k \in 1..b : w[4 + a + 1 + k] = y[k]
  BY <1>1, <1>4, <1>5, Zenon DEF IsExtended
<1>7. \A k \in 1..(a + 5) : w[k] # Nul
  BY <1>1, <1>4, Zenon
<1>8. \A k \in 1..b : y[k] = Nul <=> k = b
  BY <1>2, <1>4, Zenon
<1>9. \A k \in 1..Len(w) : w[k] = Nul <=> k = Len(w)
  <2> SUFFICES ASSUME NEW k \in 1..(a + 5 + b) PROVE w[k] = Nul <=> k = a + 5 + b
    BY <1>6
  <2>1. CASE k <= a + 5
    BY <1>4, <1>7, <2>1
  <2>2. CASE ~ (k <= a + 5)
    <3>1. k - (a + 5) \in 1..b /\ 4 + a + 1 + (k - (a + 5)) = k
      BY <2>2
    <3> QED BY <1>6, <1>8, <3>1
  <2> QED BY <2>1, <2>2
<1> DEFINE t == CString(w)
<1>10. /\ t \in Seq(S) /\ Len(t) = a + 4 + b
       /\ \A k \in 1..(a + 4 + b) : t[k] = w[k]
  <2>1. Len(w) > 0 /\ Len(w) - 1 = a + 4 + b
    BY <1>6
  <2> QED BY <1>1, <1>9, <2>1, LastCut
<1> HIDE DEF t
<1>11. PICK z \in Seq(S) : IsShortened(z, y)
  BY <1>2, Shortened
<1>12. Len(z) = b - 1 /\ \A k \in 1..(b - 1) : z[k] = y[k]
  BY <1>4, <1>11 DEF IsShortened
<1>13. /\ Len(t) = 4 + a + 1 + (b - 1)
       /\ \A k \in 1..4 : t[k] = h[k]
       /\ \A k \in 1..a : t[4 + k] = x[k]
       /\ t[4 + a + 1] = Colon
       /\ \A k \in 1..(b - 1) : t[4 + a + 1 + k] = z[k]
  <2>1. Len(t) = 4 + a + 1 + (b - 1) /\ t[4 + a + 1] = Colon
    BY <1>4, <1>6, <1>10
  <2>2. \A k \in 1..4 : t[k] = h[k]
    BY <1>4, <1>6, <1>10
  <2>3. \A k \in 1..a : t[4 + k] = x[k]
    BY <1>4, <1>6, <1>10
  <2>4. \A k \in 1..(b - 1) : t[4 + a + 1 + k] = z[k]
    <3> SUFFICES ASSUME NEW k \in 1..(b - 1) PROVE t[4 + a + 1 + k] = z[k]
      OBVIOUS
    <3>1. k \in 1..b /\ 4 + a + 1 + k \in 1..(a + 4 + b)
      BY <1>4
    <3>2. w[4 + a + 1 + k] = y[k] /\ z[k] = y[k]
      BY <1>6, <1>12, <3>1
    <3> QED BY <1>10, <3>1, <3>2
  <2> QED BY <2>1, <2>2, <2>3, <2>4
<1>14. IsExtended(t, h, x, z)
  BY <1>4, <1>5, <1>12, <1>13, Zenon DEF IsExtended
<1>15. IsText(S, m, z)
  BY <1>1, <1>3, <1>10, <1>14, Zenon DEF IsText, t, x
<1> QED BY <1>11, <1>15 DEF y

\* No text is empty.
LEMMA TextLength ==
  ASSUME NEW S, NEW m, IsMessage(S, m), NEW z, IsText(S, m, z)
  PROVE  Text(m) \in Seq(S) /\ Len(Text(m)) \in Nat \ {0}
<1>1. PICK h \in Seq(S) : IsHeader(h, m.type, m.size) /\ IsExtended(Text(m), h, m.source, z)
  BY DEF IsText
<1>2. Text(m) \in Seq(S) /\ Len(Text(m)) \in Nat /\ Len(z) \in Nat /\ Len(m.source) \in Nat
  BY DEF IsText, IsMessage
<1>3. PICK a \in Nat, b \in Nat : a = Len(m.source) /\ b = Len(z)
  BY <1>2
<1>4. Len(h) = 4
  BY <1>1 DEF IsHeader
<1>5. Len(Text(m)) = 4 + a + 1 + b
  BY <1>1, <1>3, <1>4, Zenon DEF IsExtended
<1> QED BY <1>2, <1>5

LEMMA TextTypes ==
  ASSUME NEW S, Sends(S), NEW m \in Traffic
  PROVE  Text(m) \in Seq(S) /\ Len(Text(m)) \in Nat \ {0}
<1>1. IsMessage(S, m) /\ (Unterminated(m) \/ Line(m))
  BY MessageTypes DEF IsMessage
<1>2. \E z : IsText(S, m, z)
  BY <1>1, UnterminatedText, LineText
<1> QED BY <1>1, <1>2, TextLength

-----------------------------------------------------------------------------
(* What is read of it.                                                     *)

\* What is parsed from a buffer that begins with the text of m.
Faithful(got, m, joined) ==
  /\ got.type = m.type /\ got.size = m.size /\ got.source = m.source
  /\ Len(got.data) = m.size
  /\ \A k \in 1..m.size : got.data[k] # m.data[k] =>
       m.type = MESSAGE /\ k = m.size /\ joined
  /\ m.type = MESSAGE => fill_message(MESSAGE, got.source, got.data) = m

\* The parser finds the numbers and the source, and begins the data with z.
LEMMA HeaderRead ==
  ASSUME NEW S, NEW m, IsMessage(S, m), ~ Has(m.source, Colon), NEW z \in Seq(S), IsText(S, m, z),
         NEW s \in Seq(S), Begins(s, Text(m))
  PROVE  /\ IsReadAs(s, m.type, m.size, m.source, z)
         /\ Len(Text(m)) = Len(m.source) + 5 + Len(z)
<1>1. PICK h \in Seq(S) : IsHeader(h, m.type, m.size) /\ IsExtended(Text(m), h, m.source, z)
  BY DEF IsText
<1>2. Text(m) \in Seq(S) /\ m.source \in Seq(S) /\ m.type \in Nat /\ m.size \in Nat
  BY DEF IsText, IsMessage
<1>3. PICK r \in Seq(S) : r = Text(m)
  BY <1>2
<1>4. PICK x \in Seq(S) : x = m.source
  BY <1>2
<1>5. IsExtended(r, h, x, z) /\ ~ Has(x, Colon) /\ Begins(s, r)
  BY <1>1, <1>3, <1>4
<1>6. IsReadAs(s, m.type, m.size, x, z)
  BY <1>1, <1>2, <1>5, ParsedMessage
<1>7. PICK a \in Nat, b \in Nat : a = Len(x) /\ b = Len(z)
  OBVIOUS
<1>8. Len(h) = 4
  BY <1>1 DEF IsHeader
<1>9. Len(r) = 4 + a + 1 + b
  BY <1>5, <1>7, <1>8, Zenon DEF IsExtended
<1>10. Len(r) = a + 5 + b
  BY <1>9
<1> QED BY <1>3, <1>4, <1>6, <1>7, <1>10

\* A line that is put together again from all but its last character.
LEMMA Refilled ==
  ASSUME NEW S, NEW m, IsMessage(S, m), m.type = MESSAGE, Unterminated(m) \/ Line(m),
         NEW d, Len(d) = m.size, \A k \in 1..(m.size - 1) : d[k] = m.data[k]
  PROVE  fill_message(MESSAGE, m.source, d) = m
<1> DEFINE e(n) == [k \in 1..n |-> IF k = n THEN Nul
                                   ELSE IF d[k] = Nul THEN Space ELSE d[k]]
<1>1. PICK n \in Nat, y \in Seq(S) : n = m.size /\ y = m.data /\ n = Len(y)
  BY DEF IsMessage
<1>2. \A k \in 1..n : y[k] = Nul <=> k = n
  <2>1. CASE Unterminated(m)
    BY <1>1, <2>1 DEF Unterminated
  <2>2. CASE Line(m)
    BY <1>1, <2>2 DEF Line
  <2> QED BY <2>1, <2>2
<1>3. e(n) = y
  <2>1. y = [k \in 1..n |-> y[k]]
    BY <1>1
  <2>2. ASSUME NEW k \in 1..n
        PROVE (IF k = n THEN Nul ELSE IF d[k] = Nul THEN Space ELSE d[k]) = y[k]
    <3>1. CASE k = n
      BY <1>2, <3>1
    <3>2. CASE k # n
      <4>1. k \in 1..(n - 1)
        BY <3>2
      <4>2. d[k] = y[k] /\ y[k] # Nul
        BY <1>1, <1>2, <3>2, <4>1
      <4> QED BY <3>2, <4>2
    <3> QED BY <3>1, <3>2
  <2> QED BY <2>1, <2>2, Zenon
<1>4. fill_message(MESSAGE, m.source, d)
        = [type |-> MESSAGE, size |-> n, source |-> m.source, data |-> e(n)]
  BY <1>1 DEF fill_message
<1>5. m = [type |-> m.type, size |-> m.size, source |-> m.source, data |-> m.data]
  BY DEF IsMessage
<1> HIDE DEF e
<1> QED BY <1>1, <1>3, <1>4, <1>5, Zenon

LEMMA UnterminatedRead ==
  ASSUME NEW S, Sends(S), NEW m, IsMessage(S, m), Unterminated(m), ~ Has(m.source, Colon),
         NEW s \in Seq(S), Begins(s, Text(m)), NEW joined
  PROVE  Faithful(string_to_message(s), m, joined)
<1>1. PICK y \in Seq(S) : y = m.data
  BY DEF IsMessage
<1>2. IsReadAs(s, m.type, m.size, m.source, y)
  BY <1>1, UnterminatedText, HeaderRead
<1>3. m.size = Len(y) /\ Len(y) \in Nat
  BY <1>1 DEF IsMessage
<1>4. string_to_message(s) = [type |-> m.type, size |-> m.size, source |-> m.source, data |-> y]
  BY <1>2, <1>3, Zenon DEF IsReadAs
<1>5. m.type = MESSAGE => fill_message(MESSAGE, m.source, y) = m
  BY <1>1, <1>3, Refilled
<1> QED BY <1>1, <1>3, <1>4, <1>5 DEF Faithful

\* d is z and the character behind it, or a zero where s ends.
IsTaken(d, s, p, z) ==
  /\ Len(d) = Len(z) + 1 /\ \A k \in 1..Len(z) : d[k] = z[k]
  /\ Len(s) = p + Len(z) => d[Len(z) + 1] = Nul

LEMMA LineTaken ==
  ASSUME NEW S, Nul \in S, NEW s \in Seq(S), NEW z \in Seq(S), NEW p \in Nat,
         p + Len(z) <= Len(s), \A k \in 1..Len(z) : s[p + k] = z[k]
  PROVE  IsTaken(Take(s, p + 1, Len(z) + 1), s, p, z)
<1> DEFINE d == Take(s, p + 1, Len(z) + 1)
<1>1. PICK l \in Nat, n \in Nat : l = Len(s) /\ n = Len(z)
  OBVIOUS
<1>2. p + 1 + (n + 1) - 1 = p + 1 + n /\ p + n <= l /\ \A k \in 1..n : s[p + k] = z[k]
  BY <1>1
<1>3. CASE p + 1 + n <= l
  <2>1. d = SubSeq(s, p + 1, p + 1 + n)
    BY <1>1, <1>2, <1>3 DEF Take
  <2>2. \A i \in (p + 1)..(p + 1 + n) : s[i] \in S
    BY <1>1, <1>3
  <2>3. Len(d) = n + 1 /\ \A i \in 1..(n + 1) : d[i] = s[p + 1 + i - 1]
    <3>1. p + 1 \in Int /\ p + 1 + n \in Int /\ p + 1 <= p + 1 + n
          /\ p + 1 + n - (p + 1) + 1 = n + 1
      OBVIOUS
    <3> HIDE DEF d
    <3>2. /\ Len(SubSeq(s, p + 1, p + 1 + n)) = IF p + 1 <= p + 1 + n THEN p + 1 + n - (p + 1) + 1 ELSE 0
          /\ \A i \in 1..(p + 1 + n - (p + 1) + 1) : SubSeq(s, p + 1, p + 1 + n)[i] = s[p + 1 + i - 1]
      BY <2>2, <3>1, SubSeqProperties
    <3> QED BY <2>1, <3>1, <3>2
  <2> HIDE DEF d
  <2>4. \A k \in 1..n : d[k] = z[k]
    <3> SUFFICES ASSUME NEW k \in 1..n PROVE d[k] = z[k]
      OBVIOUS
    <3>1. k \in 1..(n + 1) /\ p + 1 + k - 1 = p + k
      OBVIOUS
    <3> QED BY <1>2, <2>3, <3>1
  <2> QED BY <1>1, <1>3, <2>3, <2>4 DEF d, IsTaken
<1>4. CASE ~ (p + 1 + n <= l)
  <2>1. d = [j \in 1..(n + 1) |-> IF p + 1 + j - 1 <= l THEN s[p + 1 + j - 1] ELSE Nul]
    BY <1>1, <1>2, <1>4 DEF Take
  <2>2. l = p + n
    BY <1>2, <1>4
  <2> HIDE DEF d
  <2>3. Len(d) = n + 1
    BY <2>1
  <2>4. \A k \in 1..n : d[k] = z[k]
    <3> SUFFICES ASSUME NEW k \in 1..n PROVE d[k] = z[k]
      OBVIOUS
    <3>1. k \in 1..(n + 1) /\ p + 1 + k - 1 = p + k /\ p + k <= l
      BY <2>2
    <3> QED BY <1>2, <2>1, <3>1
  <2>5. d[n + 1] = Nul
    <3>1. n + 1 \in 1..(n + 1) /\ ~ (p + 1 + (n + 1) - 1 <= l)
      BY <2>2
    <3> QED BY <2>1, <3>1
  <2> QED BY <1>1, <2>3, <2>4, <2>5 DEF d, IsTaken
<1> QED BY <1>3, <1>4

LEMMA LineRead ==
  ASSUME NEW S, Sends(S), NEW m, IsMessage(S, m), Line(m), ~ Has(m.source, Colon),
         NEW s \in Seq(S), Begins(s, Text(m)),
         NEW joined, Len(s) > Len(Text(m)) => joined
  PROVE  Faithful(string_to_message(s), m, joined)
<1>1. PICK z \in Seq(S) : IsText(S, m, z) /\ IsShortened(z, m.data)
  BY LineText
<1>2. PICK y \in Seq(S), x \in Seq(S) : y = m.data /\ x = m.source
  BY DEF IsMessage
<1>3. IsReadAs(s, m.type, m.size, x, z) /\ Len(Text(m)) = Len(x) + 5 + Len(z)
  BY <1>1, <1>2, HeaderRead
<1>4. PICK a \in Nat, n \in Nat : a = Len(x) /\ n = Len(z) /\ n + 1 = Len(y) /\ m.size = n + 1
  <2>1. Len(z) = Len(y) - 1 /\ m.size = Len(y)
    BY <1>1, <1>2 DEF IsShortened, IsMessage
  <2> QED BY <2>1
<1>5. \A k \in 1..n : z[k] = y[k]
  BY <1>1, <1>2, <1>4 DEF IsShortened
<1>6. y[n + 1] = Nul /\ m.type = MESSAGE
  BY <1>2, <1>4 DEF Line
<1> DEFINE d == Take(s, a + 6, n + 1)
<1>7. /\ string_to_message(s) = [type |-> m.type, size |-> m.size, source |-> x, data |-> d]
      /\ Len(s) \in Nat /\ a + 5 + n <= Len(s)
      /\ \A k \in 1..n : s[a + 5 + k] = z[k]
  BY <1>3, <1>4, Zenon DEF IsReadAs
<1>8. /\ Len(d) = n + 1 /\ \A k \in 1..n : d[k] = z[k]
      /\ Len(s) = a + 5 + n => d[n + 1] = Nul
  <2> DEFINE p == a + 5
  <2>1. p \in Nat /\ p + 1 = a + 6
    OBVIOUS
  <2>2. p + Len(z) <= Len(s) /\ \A k \in 1..Len(z) : s[p + k] = z[k]
    BY <1>4, <1>7
  <2>3. Nul \in S
    BY DEF Sends
  <2> HIDE DEF p
  <2> HIDE DEF d
  <2>4. IsTaken(Take(s, p + 1, Len(z) + 1), s, p, z)
    BY <2>1, <2>2, <2>3, LineTaken
  <2>5. IsTaken(d, s, p, z)
    BY <1>4, <2>1, <2>4, Zenon DEF d
  <2> QED BY <1>4, <2>5, Zenon DEF p, IsTaken
<1> HIDE DEF d
<1>9. \A k \in 1..n : d[k] = y[k]
  BY <1>5, <1>8
<1>10. ASSUME NEW k \in 1..(n + 1), d[k] # y[k]
       PROVE  k = n + 1 /\ joined
  <2>1. k = n + 1
    BY <1>9, <1>10
  <2>2. Len(s) # a + 5 + n
    BY <1>6, <1>8, <1>10, <2>1
  <2>3. Len(s) > Len(Text(m))
    BY <1>3, <1>4, <1>7, <2>2
  <2> QED BY <2>1, <2>3
<1>11. fill_message(MESSAGE, x, d) = m
  <2>1. Len(d) = m.size /\ \A k \in 1..(m.size - 1) : d[k] = m.data[k]
    BY <1>2, <1>4, <1>8, <1>9
  <2>2. fill_message(MESSAGE, m.source, d) = m
    BY <1>6, <2>1, Refilled
  <2> QED BY <1>2, <2>2
<1>12. \A k \in 1..m.size : d[k] # m.data[k] => m.type = MESSAGE /\ k = m.size /\ joined
  BY <1>2, <1>4, <1>6, <1>10
<1> QED BY <1>2, <1>4, <1>7, <1>8, <1>11, <1>12 DEF Faithful

\* A buffer that begins with the text of a message is read as that message.
LEMMA ReadBack ==
  ASSUME NEW S, Sends(S), NEW m \in Traffic, ~ Has(m.source, Colon),
         NEW s \in Seq(S), Begins(s, Text(m)),
         NEW joined, Len(s) > Len(Text(m)) => joined
  PROVE  Faithful(string_to_message(s), m, joined)
<1>1. IsMessage(S, m) /\ (Unterminated(m) \/ Line(m))
  BY MessageTypes DEF IsMessage
<1> QED BY <1>1, UnterminatedRead, LineRead

-----------------------------------------------------------------------------
(* Where the messages are in the stream.                                   *)

\* The text t lies in s from p to q.
Lies(s, p, q, t) == q = p + Len(t) /\ \A k \in 1..Len(t) : s[p + k] = t[k]

\* at[i] is where the message u[i] ends in s, and e is the set of these ends.
Laid(s, u, e, at) ==
  /\ u \in Seq(Traffic)
  /\ at \in [0..Len(u) -> Nat] /\ at[0] = 0 /\ at[Len(u)] = Len(s)
  /\ e = {at[i] : i \in 1..Len(u)}
  /\ \A i, j \in 0..Len(u) : i < j => at[i] < at[j]
  /\ \A i \in 1..Len(u) : Lies(s, at[i - 1], at[i], Text(u[i]))

\* c messages end up to where the message c ends.
LEMMA Counted ==
  ASSUME NEW n \in Nat, NEW at \in [0..n -> Nat],
         \A i, j \in 0..n : i < j => at[i] < at[j], NEW c \in 1..n
  PROVE  Cardinality({e \in {at[i] : i \in 1..n} : e <= at[c]}) = c
<1> DEFINE T == {e \in {at[i] : i \in 1..n} : e <= at[c]}
           f == [i \in 1..c |-> at[i]]
<1>1. \A i \in 1..c : at[i] \in Nat /\ at[i] <= at[c]
  <2> SUFFICES ASSUME NEW i \in 1..c PROVE at[i] \in Nat /\ at[i] <= at[c]
    OBVIOUS
  <2>1. i \in 0..n /\ c \in 0..n /\ (i < c \/ i = c)
    OBVIOUS
  <2> QED BY <2>1
<1>2. \A i \in 1..n : at[i] <= at[c] => i \in 1..c
  <2> SUFFICES ASSUME NEW i \in 1..n, at[i] <= at[c], ~ (i <= c) PROVE FALSE
    OBVIOUS
  <2>1. i \in 0..n /\ c \in 0..n /\ c < i
    OBVIOUS
  <2> QED BY <2>1
<1>3. f \in [1..c -> T]
  <2>1. \A i \in 1..c : at[i] \in T
    BY <1>1
  <2> HIDE DEF T
  <2> QED BY <2>1
<1>4. \A e \in T : \E i \in 1..c : f[i] = e
  BY <1>2
<1>5. \A i, j \in 1..c : f[i] = f[j] => i = j
  <2> SUFFICES ASSUME NEW i \in 1..c, NEW j \in 1..c, i # j PROVE at[i] # at[j]
    OBVIOUS
  <2>1. i \in 0..n /\ j \in 0..n /\ (i < j \/ j < i) /\ at[i] \in Nat /\ at[j] \in Nat
    BY <1>1
  <2> QED BY <2>1
<1> HIDE DEF T, f
<1>6. f \in Bijection(1..c, T)
  BY <1>3, <1>4, <1>5, Fun_IsBij, Zenon
<1>7. ExistsBijection(1..c, T)
  BY <1>6 DEF ExistsBijection
<1>8. Cardinality(T) = c
  BY <1>7, FS_CountingElements
<1> QED BY <1>8 DEF T

\* Every message ends within s.
LEMMA EndsWithin ==
  ASSUME NEW s, NEW u, NEW e, NEW at, Laid(s, u, e, at)
  PROVE  /\ Len(u) \in Nat
         /\ \A i \in 0..Len(u) : at[i] \in Nat /\ at[i] <= Len(s)
<1>1. Len(u) \in Nat /\ at \in [0..Len(u) -> Nat] /\ at[Len(u)] = Len(s)
  BY DEF Laid
<1>2. \A i, j \in 0..Len(u) : i < j => at[i] < at[j]
  BY DEF Laid
<1>3. ASSUME NEW i \in 0..Len(u) PROVE at[i] \in Nat /\ at[i] <= Len(s)
  <2>1. Len(u) \in 0..Len(u) /\ (i < Len(u) \/ i = Len(u))
    BY <1>1
  <2> QED BY <1>1, <1>2, <2>1
<1> QED BY <1>1, <1>3

\* A text that is appended lies behind the others.
LEMMA SentLaid ==
  ASSUME NEW S, NEW s \in Seq(S), NEW u, NEW e, NEW at, Laid(s, u, e, at),
         NEW m \in Traffic, \A x \in Traffic : Text(x) \in Seq(S) /\ Len(Text(x)) \in Nat \ {0}
  PROVE  \E b : Laid(s \o Text(m), Append(u, m), e \cup {Len(s) + Len(Text(m))}, b)
<1>1. PICK t \in Seq(S), l \in Nat, n \in Nat, k \in Nat :
        t = Text(m) /\ l = Len(s) /\ n = Len(u) /\ k = Len(t) /\ k > 0
  BY EndsWithin
<1>2. /\ u \in Seq(Traffic)
      /\ at \in [0..n -> Nat] /\ at[0] = 0 /\ at[n] = l
      /\ e = {at[i] : i \in 1..n}
      /\ \A i, j \in 0..n : i < j => at[i] < at[j]
      /\ \A i \in 1..n : Lies(s, at[i - 1], at[i], Text(u[i]))
  BY <1>1 DEF Laid
<1> DEFINE w == s \o t
           v == Append(u, m)
           b == [i \in 0..(n + 1) |-> IF i <= n THEN at[i] ELSE l + k]
<1>3. Len(w) = l + k /\ \A i \in 1..(l + k) : w[i] = IF i <= l THEN s[i] ELSE t[i - l]
  BY <1>1, ConcatProperties
<1>4. v \in Seq(Traffic) /\ Len(v) = n + 1 /\ v[n + 1] = m /\ \A i \in 1..n : v[i] = u[i]
  BY <1>1, <1>2, AppendProperties
<1>5. \A i \in 0..n : b[i] = at[i] /\ at[i] \in Nat /\ at[i] <= l
  BY <1>1, EndsWithin
<1>6. b[n + 1] = l + k /\ b \in [0..(n + 1) -> Nat]
  <2>1. ASSUME NEW i \in 0..(n + 1) PROVE (IF i <= n THEN at[i] ELSE l + k) \in Nat
    <3>1. CASE i <= n
      <4>1. i \in 0..n
        BY <3>1
      <4> QED BY <1>5, <3>1, <4>1
    <3>2. CASE ~ (i <= n)
      BY <3>2
    <3> QED BY <3>1, <3>2
  <2>2. n + 1 \in 0..(n + 1) /\ ~ (n + 1 <= n)
    OBVIOUS
  <2> QED BY <2>1, <2>2
<1> HIDE DEF w, v, b
<1>7. \A i, j \in 0..(n + 1) : i < j => b[i] < b[j]
  <2> SUFFICES ASSUME NEW i \in 0..(n + 1), NEW j \in 0..(n + 1), i < j PROVE b[i] < b[j]
    OBVIOUS
  <2>1. i \in 0..n /\ b[i] = at[i] /\ at[i] \in Nat /\ at[i] <= l
    BY <1>5
  <2>2. CASE j = n + 1
    BY <1>1, <1>6, <2>1, <2>2
  <2>3. CASE j # n + 1
    <3>1. j \in 0..n
      BY <2>3
    <3> QED BY <1>2, <1>5, <2>1, <3>1
  <2> QED BY <2>2, <2>3
<1>8. e \cup {l + k} = {b[i] : i \in 1..(n + 1)}
  <2>1. ASSUME NEW x \in e \cup {l + k} PROVE \E i \in 1..(n + 1) : b[i] = x
    <3>1. CASE x = l + k
      BY <1>6, <3>1
    <3>2. CASE x \in e
      <4>1. PICK i \in 1..n : x = at[i]
        BY <1>2, <3>2
      <4>2. i \in 0..n /\ i \in 1..(n + 1)
        OBVIOUS
      <4> QED BY <1>5, <4>1, <4>2
    <3> QED BY <3>1, <3>2
  <2>2. ASSUME NEW i \in 1..(n + 1) PROVE b[i] \in e \cup {l + k}
    <3>1. CASE i = n + 1
      BY <1>6, <3>1
    <3>2. CASE i # n + 1
      <4>1. i \in 0..n /\ i \in 1..n
        BY <3>2
      <4> QED BY <1>2, <1>5, <4>1
    <3> QED BY <3>1, <3>2
  <2> QED BY <2>1, <2>2
<1>9. ASSUME NEW i \in 1..(n + 1) PROVE Lies(w, b[i - 1], b[i], Text(v[i]))
  <2>1. i - 1 \in 0..n /\ b[i - 1] = at[i - 1] /\ at[i - 1] \in Nat
    BY <1>5
  <2>2. CASE i = n + 1
    <3>1. b[i - 1] = l /\ b[i] = l + k /\ v[i] = m
      BY <1>2, <1>4, <1>6, <2>1, <2>2
    <3>2. \A j \in 1..k : w[l + j] = t[j]
      <4> SUFFICES ASSUME NEW j \in 1..k PROVE w[l + j] = t[j]
        OBVIOUS
      <4>1. l + j \in 1..(l + k) /\ ~ (l + j <= l) /\ l + j - l = j
        OBVIOUS
      <4> QED BY <1>3, <4>1
    <3> QED BY <1>1, <3>1, <3>2 DEF Lies
  <2>3. CASE i # n + 1
    <3>1. i \in 1..n /\ i \in 0..n
      BY <2>3
    <3>2. Lies(s, at[i - 1], at[i], Text(u[i])) /\ b[i] = at[i] /\ v[i] = u[i]
          /\ at[i] \in Nat /\ at[i] <= l
      BY <1>2, <1>4, <1>5, <3>1
    <3>3. PICK p \in Nat : p = at[i - 1]
      BY <2>1
    <3>4. u[i] \in Traffic
      BY <1>1, <1>2, <3>1
    <3>5. PICK r \in Seq(S) : r = Text(u[i])
      BY <3>4
    <3>6. at[i] = p + Len(r) /\ \A j \in 1..Len(r) : s[p + j] = r[j]
      BY <3>2, <3>3, <3>5 DEF Lies
    <3>7. ASSUME NEW j \in 1..Len(r) PROVE w[p + j] = r[j]
      <4>1. p + j \in 1..(l + k) /\ p + j <= l
        BY <3>2, <3>6
      <4> QED BY <1>3, <3>6, <4>1
    <3> QED BY <2>1, <3>2, <3>3, <3>5, <3>6, <3>7 DEF Lies
  <2> QED BY <2>2, <2>3
<1>10. b[0] = 0
  BY <1>2, <1>5
<1>11. Laid(w, v, e \cup {l + k}, b)
  BY <1>3, <1>4, <1>6, <1>7, <1>8, <1>9, <1>10 DEF Laid
<1>12. Laid(s \o Text(m), Append(u, m), e \cup {Len(s) + Len(Text(m))}, b)
  BY <1>1, <1>11, Zenon DEF w, v
<1> QED BY <1>12

\* What is left of x behind n.
IsRest(y, x, n) == Len(y) = Len(x) - n /\ \A k \in 1..Len(y) : y[k] = x[n + k]

LEMMA Rest ==
  ASSUME NEW T, NEW x \in Seq(T), NEW n \in 0..Len(x)
  PROVE  SubSeq(x, n + 1, Len(x)) \in Seq(T) /\ IsRest(SubSeq(x, n + 1, Len(x)), x, n)
<1>1. PICK l \in Nat : l = Len(x)
  OBVIOUS
<1>2. n + 1 \in Int /\ l \in Int /\ \A i \in (n + 1)..l : x[i] \in T
  BY <1>1
<1> DEFINE y == SubSeq(x, n + 1, l)
<1>3. /\ y \in Seq(T) /\ Len(y) = IF n + 1 <= l THEN l - (n + 1) + 1 ELSE 0
      /\ \A i \in 1..(l - (n + 1) + 1) : y[i] = x[n + 1 + i - 1]
  BY <1>2, SubSeqProperties
<1> HIDE DEF y
<1>4. Len(y) = l - n
  BY <1>1, <1>3
<1>5. ASSUME NEW i \in 1..Len(y) PROVE y[i] = x[n + i]
  <2>1. i \in 1..(l - (n + 1) + 1) /\ n + 1 + i - 1 = n + i
    BY <1>1, <1>4
  <2> QED BY <1>3, <2>1
<1> QED BY <1>1, <1>3, <1>4, <1>5 DEF y, IsRest

\* What is left behind the end of the message c.
LeftBehind(S, s, u, e, at, c, w, v, f) ==
  /\ Laid(s, u, e, at)
  /\ c \in 1..Len(u)
  /\ w \in Seq(S) /\ IsRest(w, s, at[c])
  /\ v \in Seq(Traffic) /\ IsRest(v, u, c)
  /\ f = {x - at[c] : x \in {y \in e : y > at[c]}}

\* There, the other messages lie as they did.
LEMMA ReadLaid ==
  ASSUME NEW S, \A x \in Traffic : Text(x) \in Seq(S) /\ Len(Text(x)) \in Nat \ {0},
         NEW s \in Seq(S), NEW u, NEW e, NEW at, NEW c, NEW w, NEW v, NEW f,
         LeftBehind(S, s, u, e, at, c, w, v, f)
  PROVE  \E b : Laid(w, v, f, b)
<1>0. /\ Laid(s, u, e, at) /\ c \in 1..Len(u)
      /\ w \in Seq(S) /\ IsRest(w, s, at[c])
      /\ v \in Seq(Traffic) /\ IsRest(v, u, c)
  BY DEF LeftBehind
<1>1. PICK l \in Nat, n \in Nat, p \in Nat :
        l = Len(s) /\ n = Len(u) /\ p = at[c] /\ p <= l /\ c \in 1..n
  BY <1>0, EndsWithin
<1>2. /\ at \in [0..n -> Nat] /\ at[n] = l
      /\ e = {at[i] : i \in 1..n}
      /\ \A i, j \in 0..n : i < j => at[i] < at[j]
      /\ \A i \in 1..n : u[i] \in Traffic /\ Lies(s, at[i - 1], at[i], Text(u[i]))
  BY <1>0, <1>1 DEF Laid
<1> DEFINE b == [i \in 0..(n - c) |-> at[c + i] - p]
<1>3. Len(w) = l - p /\ \A k \in 1..(l - p) : w[k] = s[p + k]
  BY <1>0, <1>1 DEF IsRest
<1>4. Len(v) = n - c /\ \A k \in 1..(n - c) : v[k] = u[c + k]
  BY <1>0, <1>1 DEF IsRest
<1>5. ASSUME NEW i \in 0..(n - c)
      PROVE  /\ c + i \in 0..n /\ at[c + i] \in Nat /\ b[i] = at[c + i] - p
             /\ at[c + i] >= p /\ at[c + i] <= l /\ (i > 0 => at[c + i] > p)
  <2>1. c + i \in 0..n /\ c \in 0..n
    BY <1>1
  <2>2. at[c + i] \in Nat /\ at[c + i] <= l
    BY <1>0, <1>1, <2>1, EndsWithin
  <2>3. i > 0 => at[c] < at[c + i]
    BY <1>2, <2>1
  <2>4. i = 0 => c + i = c
    BY <1>1
  <2>5. b[i] = at[c + i] - p
    OBVIOUS
  <2> HIDE DEF b
  <2>6. PICK a \in Nat : a = at[c + i] /\ a <= l
    BY <2>2
  <2>7. i > 0 => p < a
    BY <1>1, <2>3, <2>6
  <2>8. i = 0 => p = a
    BY <1>1, <2>4, <2>6
  <2>9. a >= p /\ (i > 0 => a > p)
    BY <1>1, <2>6, <2>7, <2>8
  <2> QED BY <2>1, <2>5, <2>6, <2>9
<1>6. b \in [0..(n - c) -> Nat]
  <2>1. ASSUME NEW i \in 0..(n - c) PROVE at[c + i] - p \in Nat
    <3>1. PICK a \in Nat : a = at[c + i] /\ a >= p
      BY <1>5
    <3> QED BY <1>1, <3>1
  <2> QED BY <2>1
<1> HIDE DEF b
<1>7. b[0] = 0 /\ b[n - c] = l - p
  <2>1. 0 \in 0..(n - c) /\ n - c \in 0..(n - c) /\ c + 0 = c /\ c + (n - c) = n
    BY <1>1
  <2>2. b[0] = at[c] - p /\ b[n - c] = at[n] - p
    BY <1>5, <2>1
  <2> QED BY <1>1, <1>2, <2>2
<1>8. \A i, j \in 0..(n - c) : i < j => b[i] < b[j]
  <2> SUFFICES ASSUME NEW i \in 0..(n - c), NEW j \in 0..(n - c), i < j PROVE b[i] < b[j]
    OBVIOUS
  <2>1. at[c + i] < at[c + j]
    BY <1>1, <1>2, <1>5
  <2> QED BY <1>5, <2>1
<1>9. f = {x - p : x \in {y \in e : y > p}}
  BY <1>1 DEF LeftBehind
<1>10. f = {b[i] : i \in 1..(n - c)}
  <2>1. ASSUME NEW x \in f PROVE \E i \in 1..(n - c) : b[i] = x
    <3>1. PICK i \in 1..n : at[i] > p /\ x = at[i] - p
      BY <1>2, <1>9
    <3>2. i \in 0..n /\ c \in 0..n /\ at[i] \in Nat
      <4>1. i \in 0..n /\ c \in 0..n
        BY <1>1
      <4> QED BY <1>2, <4>1
    <3>3. ~ (i <= c)
      <4>1. i < c => at[i] < at[c]
        BY <1>2, <3>2
      <4> QED BY <1>1, <3>1, <3>2, <4>1
    <3>4. i - c \in 1..(n - c) /\ i - c \in 0..(n - c) /\ c + (i - c) = i
      BY <1>1, <3>3
    <3>5. b[i - c] = x
      BY <1>5, <3>1, <3>4
    <3> QED BY <3>4, <3>5
  <2>2. ASSUME NEW i \in 1..(n - c) PROVE b[i] \in f
    <3>1. i \in 0..(n - c) /\ i > 0 /\ c + i \in 1..n
      BY <1>1
    <3>2. at[c + i] \in e /\ at[c + i] > p /\ b[i] = at[c + i] - p
      BY <1>2, <1>5, <3>1
    <3> QED BY <1>9, <3>2
  <2> QED BY <2>1, <2>2
<1>11. ASSUME NEW i \in 1..(n - c) PROVE Lies(w, b[i - 1], b[i], Text(v[i]))
  <2>1. i - 1 \in 0..(n - c) /\ i \in 0..(n - c) /\ c + i \in 1..n
    BY <1>1
  <2>2. PICK q \in Nat : q = at[c + (i - 1)] /\ b[i - 1] = q - p /\ q >= p
    BY <1>5, <2>1
  <2>3. b[i] = at[c + i] - p /\ at[c + i] \in Nat /\ at[c + i] <= l /\ v[i] = u[c + i]
    BY <1>4, <1>5, <2>1
  <2>4. u[c + i] \in Traffic /\ Lies(s, at[c + (i - 1)], at[c + i], Text(u[c + i]))
    <3>1. u[c + i] \in Traffic /\ Lies(s, at[(c + i) - 1], at[c + i], Text(u[c + i]))
      BY <1>2, <2>1, Zenon
    <3>2. (c + i) - 1 = c + (i - 1)
      BY <1>1
    <3> QED BY <3>1, <3>2, Zenon
  <2>5. PICK r \in Seq(S) : r = Text(u[c + i])
    BY <2>4
  <2>6. at[c + i] = q + Len(r) /\ \A j \in 1..Len(r) : s[q + j] = r[j]
    BY <2>2, <2>4, <2>5 DEF Lies
  <2>7. ASSUME NEW j \in 1..Len(r) PROVE w[q - p + j] = r[j]
    <3>1. PICK k \in Nat, a \in Nat : k = Len(r) /\ a = at[c + i] /\ a = q + k /\ a <= l
      BY <2>3, <2>6
    <3>2. j \in Nat /\ j >= 1 /\ j <= k
      BY <3>1
    <3>3. q >= p /\ p <= l
      BY <1>1, <2>2
    <3>4. q - p + j \in 1..(l - p) /\ p + (q - p + j) = q + j
      BY <3>1, <3>2, <3>3
    <3> QED BY <1>3, <2>6, <3>4
  <2>8. b[i] = q - p + Len(r)
    BY <1>1, <2>3, <2>6
  <2> QED BY <2>2, <2>3, <2>5, <2>7, <2>8 DEF Lies
<1>12. Laid(w, v, f, b)
  BY <1>0, <1>3, <1>4, <1>6, <1>7, <1>8, <1>10, <1>11 DEF Laid
<1> QED BY <1>12

\* A buffer in which a message ends begins with the text of the first, and it
\* holds more than that unless exactly one message ends in it, where it ends.
LEMMA FirstInBuffer ==
  ASSUME NEW S, NEW s \in Seq(S), NEW u, NEW e, NEW at, Laid(s, u, e, at),
         \A x \in Traffic : Text(x) \in Seq(S) /\ Len(Text(x)) \in Nat \ {0},
         NEW n \in 1..Len(s), NEW count, count = Cardinality({x \in e : x <= n}), count # 0
  PROVE  /\ u[1] \in Traffic /\ SubSeq(s, 1, n) \in Seq(S)
         /\ Begins(SubSeq(s, 1, n), Text(u[1]))
         /\ Len(SubSeq(s, 1, n)) > Len(Text(u[1])) => count > 1 \/ n \notin e
<1>1. PICK l \in Nat, k \in Nat : l = Len(s) /\ k = Len(u) /\ n \in 1..l
  BY EndsWithin
<1>2. /\ at \in [0..k -> Nat] /\ at[0] = 0
      /\ e = {at[i] : i \in 1..k}
      /\ \A i, j \in 0..k : i < j => at[i] < at[j]
      /\ \A i \in 1..k : u[i] \in Traffic /\ Lies(s, at[i - 1], at[i], Text(u[i]))
  BY <1>1 DEF Laid
<1>3. {x \in e : x <= n} # {}
  BY FS_EmptySet
<1>4. PICK c \in 1..k : at[c] <= n
  BY <1>2, <1>3
<1>5. 1 \in 1..k /\ 1 \in 0..k /\ c \in 0..k /\ (1 < c \/ c = 1)
  BY <1>1
<1>6. PICK a \in Nat, r \in Seq(S) : a = at[1] /\ r = Text(u[1]) /\ u[1] \in Traffic
  BY <1>2, <1>5
<1>7. a <= n
  <2>1. PICK b \in Nat : b = at[c] /\ b <= n
    BY <1>2, <1>4, <1>5
  <2>2. 1 < c => a < b
    BY <1>2, <1>5, <1>6, <2>1
  <2> QED BY <1>5, <1>6, <2>1, <2>2
<1>8. a = Len(r) /\ \A j \in 1..a : s[j] = r[j]
  <2>1. Lies(s, at[0], at[1], r)
    BY <1>2, <1>5, <1>6
  <2>2. a = 0 + Len(r) /\ \A j \in 1..Len(r) : s[0 + j] = r[j]
    BY <1>2, <1>6, <2>1, Zenon DEF Lies
  <2> QED BY <2>2
<1> DEFINE w == SubSeq(s, 1, n)
<1>9. w \in Seq(S) /\ Len(w) = n /\ \A i \in 1..n : w[i] = s[i]
  <2>1. 1 \in Int /\ n \in Int /\ \A i \in 1..n : s[i] \in S
    BY <1>1
  <2>2. /\ w \in Seq(S) /\ Len(w) = IF 1 <= n THEN n - 1 + 1 ELSE 0
        /\ \A i \in 1..(n - 1 + 1) : w[i] = s[1 + i - 1]
    BY <2>1, SubSeqProperties
  <2> QED BY <2>2
<1> HIDE DEF w
<1>10. Begins(w, r)
  <2>1. \A j \in 1..a : w[j] = r[j]
    BY <1>7, <1>8, <1>9
  <2> QED BY <1>7, <1>8, <1>9, <2>1 DEF Begins
<1>11. ASSUME n > a, n \in e PROVE count > 1
  <2>1. PICK d \in 1..k : n = at[d]
    BY <1>2, <1>11
  <2>2. count = d
    <3>1. Cardinality({x \in {at[i] : i \in 1..k} : x <= at[d]}) = d
      BY <1>2, Counted, Zenon
    <3> QED BY <1>2, <2>1, <3>1, Zenon
  <2>3. d # 1
    BY <1>6, <1>11, <2>1
  <2> QED BY <2>2, <2>3
<1>12. Len(w) > Len(r) => count > 1 \/ n \notin e
  BY <1>8, <1>9, <1>11
<1> QED BY <1>6, <1>9, <1>10, <1>12 DEF w

-----------------------------------------------------------------------------
(* Every recv() that comes before one ends inside a message.               *)

\* The messages are in the stream, one behind the other.
InOrder(S) == stream \in Seq(S) /\ (~ torn => \E at : Laid(stream, unread, ends, at))

LEMMA FramingStarts ==
  ASSUME NEW S, FramingInit
  PROVE  InOrder(S) /\ ReadAsSent
<1> DEFINE at == [i \in 0..0 |-> 0]
<1>1. stream = <<>> /\ unread = <<>> /\ ends = {} /\ read = Nothing
  BY DEF FramingInit
<1>2. unread \in Seq(Traffic) /\ Len(unread) = 0 /\ Len(stream) = 0 /\ stream \in Seq(S)
  BY <1>1
<1>3. at \in [0..0 -> Nat] /\ at[0] = 0
  OBVIOUS
<1> HIDE DEF at
<1>4. ends = {at[i] : i \in 1..0}
  BY <1>1
<1>5. Laid(stream, unread, ends, at)
  BY <1>2, <1>3, <1>4 DEF Laid
<1> QED BY <1>1, <1>2, <1>5 DEF InOrder, ReadAsSent, Whole

LEMMA SendKeeps ==
  ASSUME NEW S, Sends(S), InOrder(S), ReadAsSent, NEW m \in Traffic, SendMessage(m)
  PROVE  InOrder(S)' /\ ReadAsSent'
<1>1. /\ stream' = stream \o Text(m) /\ unread' = Append(unread, m)
      /\ ends' = ends \cup {Len(stream) + Len(Text(m))}
      /\ torn' = torn /\ read' = read
  BY DEF SendMessage, Text
<1>2. \A x \in Traffic : Text(x) \in Seq(S) /\ Len(Text(x)) \in Nat \ {0}
  BY TextTypes
<1>3. stream' \in Seq(S)
  BY <1>1, <1>2, ConcatProperties DEF InOrder
<1>4. ASSUME ~ torn' PROVE \E at : Laid(stream', unread', ends', at)
  <2>1. PICK at : Laid(stream, unread, ends, at)
    BY <1>1, <1>4 DEF InOrder
  <2>2. stream \in Seq(S)
    BY DEF InOrder
  <2>3. \E b : Laid(stream \o Text(m), Append(unread, m), ends \cup {Len(stream) + Len(Text(m))}, b)
    BY <1>2, <2>1, <2>2, SentLaid
  <2> QED BY <1>1, <2>3
<1>5. ReadAsSent'
  BY <1>1 DEF ReadAsSent, Whole
<1> QED BY <1>3, <1>4, <1>5 DEF InOrder

LEMMA ReceiveLays ==
  ASSUME NEW S, Sends(S), InOrder(S), NEW n \in 1..Len(stream), ReceiveMessage(n)
  PROVE  InOrder(S)'
<1> DEFINE count == Cardinality({x \in ends : x <= n})
<1>1. /\ stream' = SubSeq(stream, n + 1, Len(stream))
      /\ unread' = SubSeq(unread, count + 1, Len(unread))
      /\ ends' = {x - n : x \in {y \in ends : y > n}}
      /\ torn' = (torn \/ n \notin ends)
  BY DEF ReceiveMessage
<1>2. \A x \in Traffic : Text(x) \in Seq(S) /\ Len(Text(x)) \in Nat \ {0}
  BY TextTypes
<1>3. stream \in Seq(S)
  BY DEF InOrder
<1>4. n \in 0..Len(stream)
  BY <1>3
<1>5. stream' \in Seq(S) /\ IsRest(stream', stream, n)
  BY <1>1, <1>3, <1>4, Rest
<1>6. ASSUME ~ torn' PROVE \E b : Laid(stream', unread', ends', b)
  <2>1. n \in ends /\ ~ torn
    BY <1>1, <1>6
  <2>2. PICK at : Laid(stream, unread, ends, at)
    BY <2>1 DEF InOrder
  <2>3. PICK k \in Nat : k = Len(unread)
    BY <2>2, EndsWithin
  <2>4. /\ unread \in Seq(Traffic) /\ at \in [0..k -> Nat]
        /\ ends = {at[i] : i \in 1..k}
        /\ \A i, j \in 0..k : i < j => at[i] < at[j]
    BY <2>2, <2>3 DEF Laid
  <2>5. PICK c \in 1..k : n = at[c]
    BY <2>1, <2>4
  <2>6. count = c
    <3>1. Cardinality({x \in {at[i] : i \in 1..k} : x <= at[c]}) = c
      BY <2>4, Counted, Zenon
    <3> QED BY <2>4, <2>5, <3>1, Zenon
  <2> HIDE DEF count
  <2>7. c \in 0..Len(unread) /\ c \in 1..Len(unread)
    BY <2>3
  <2>8. unread' \in Seq(Traffic) /\ IsRest(unread', unread, c)
    BY <1>1, <2>4, <2>6, <2>7, Rest
  <2>9. ends' = {x - at[c] : x \in {y \in ends : y > at[c]}} /\ IsRest(stream', stream, at[c])
    BY <1>1, <1>5, <2>5
  <2>10. LeftBehind(S, stream, unread, ends, at, c, stream', unread', ends')
    BY <1>5, <2>2, <2>7, <2>8, <2>9, Zenon DEF LeftBehind
  <2> QED BY <1>2, <1>3, <2>10, ReadLaid, Zenon
<1> QED BY <1>5, <1>6 DEF InOrder

LEMMA ReceiveReads ==
  ASSUME NEW S, Sends(S), InOrder(S), NEW n \in 1..Len(stream), ReceiveMessage(n)
  PROVE  ReadAsSent'
<1> DEFINE buffer == SubSeq(stream, 1, n)
           count == Cardinality({x \in ends : x <= n})
           first == unread[1]
           joined == count > 1 \/ n \notin ends
<1>1. read' = IF torn \/ count = 0 THEN Nothing
              ELSE [got |-> string_to_message(buffer), first |-> first, joined |-> joined]
  BY DEF ReceiveMessage
<1>2. CASE torn \/ count = 0
  <2>1. read' = Nothing
    BY <1>1, <1>2
  <2> QED BY <2>1 DEF ReadAsSent, Whole
<1>3. CASE ~ (torn \/ count = 0)
  <2>1. PICK at : Laid(stream, unread, ends, at)
    BY <1>3 DEF InOrder
  <2>2. \A x \in Traffic : Text(x) \in Seq(S) /\ Len(Text(x)) \in Nat \ {0}
    BY TextTypes
  <2>3. stream \in Seq(S) /\ count # 0
    BY <1>3 DEF InOrder
  <2>4. /\ first \in Traffic /\ buffer \in Seq(S) /\ Begins(buffer, Text(first))
        /\ Len(buffer) > Len(Text(first)) => joined
    BY <2>1, <2>2, <2>3, FirstInBuffer
  <2>5. /\ read'.got = string_to_message(buffer) /\ read'.first = first
        /\ read'.joined = joined
    BY <1>1, <1>3
  <2> HIDE DEF buffer, count, first, joined
  <2>6. ~ Has(first.source, Colon) => Faithful(string_to_message(buffer), first, joined)
    BY <2>4, ReadBack
  <2>7. Whole' => Faithful(read'.got, read'.first, read'.joined)
    BY <2>5, <2>6 DEF Whole
  <2> QED BY <2>7 DEF ReadAsSent, Faithful
<1> QED BY <1>2, <1>3

\* What is parsed is the message that the buffer begins with (message.c:43),
\* for all messages that fill_message() makes, any number of them on their
\* way, and wherever recv() cuts the stream, up to the first cut that leaves
\* a message torn.
THEOREM AlwaysReadAsSent ==
  ASSUME NEW S, Sends(S)
  PROVE  FramingSpec => []ReadAsSent
<1> DEFINE I == InOrder(S) /\ ReadAsSent
<1>1. FramingInit => I
  BY FramingStarts
<1>2. I /\ [FramingNext]_framing => I'
  <2> SUFFICES ASSUME I, [FramingNext]_framing PROVE I'
    OBVIOUS
  <2>1. ASSUME NEW m \in Traffic, SendMessage(m) PROVE I'
    BY <2>1, SendKeeps
  <2>2. ASSUME NEW n \in 1..Len(stream), ReceiveMessage(n) PROVE I'
    BY <2>2, ReceiveLays, ReceiveReads
  <2>3. CASE UNCHANGED framing
    BY <2>3 DEF framing, InOrder, ReadAsSent, Whole
  <2> QED BY <2>1, <2>2, <2>3 DEF FramingNext
<1> QED BY <1>1, <1>2, PTL DEF FramingSpec
=============================================================================
