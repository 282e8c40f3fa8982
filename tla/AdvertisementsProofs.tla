------------------------ MODULE AdvertisementsProofs ------------------------
(***************************************************************************)
(* Proofs about Advertisements, for every body that Freddie may send and    *)
(* every way in which it is cut into chunks.                                *)
(***************************************************************************)
EXTENDS Advertisements, FiniteSetTheorems, SequenceTheorems, WellFoundedInduction, TLAPS

\* A set of numbers that is not empty has a minimum.
LEMMA MinIsLeast ==
  ASSUME NEW S, S \subseteq Nat, S # {}
  PROVE  Min(S) \in S /\ \A n \in S : Min(S) <= n
<1> DEFINE less == {pair \in Nat \X Nat : pair[1] < pair[2]}
<1>1. IsWellFoundedOn(less, Nat)
  BY NatLessThanWellFounded DEF OpToRel
<1>2. \A m, n \in S : m < n => <<m, n>> \in less
  OBVIOUS
<1> HIDE DEF less
<1>3. PICK m \in S : \A n \in S : <<n, m>> \notin less
  BY <1>1, WFMin, Zenon
<1>4. ASSUME NEW n \in S PROVE m <= n
  <2>1. ~(n < m)
    BY <1>2, <1>3, Zenon
  <2> QED BY <2>1, SMT
<1> QED BY <1>4, Zenon DEF Min

-----------------------------------------------------------------------------
(* The lines of a text.                                                    *)

\* The ends of a text are the numbers of some of its places.
LEMMA EndsInText ==
  ASSUME NEW text \in Seq(Symbols)
  PROVE  /\ Ends(text) \subseteq 1 .. Len(text) + 1
         /\ MessageEnds(text) \subseteq Ends(text)
         /\ IsFiniteSet(MessageEnds(text))
<1>1. Ends(text) \subseteq 1 .. Len(text) + 1
  BY DEF Ends, Newlines
<1>2. MessageEnds(text) \subseteq Ends(text)
  BY DEF MessageEnds
<1>3. IsFiniteSet(1 .. Len(text) + 1)
  BY FS_Interval
<1>4. MessageEnds(text) \subseteq 1 .. Len(text) + 1
  BY <1>1, <1>2
<1>5. IsFiniteSet(MessageEnds(text))
  BY <1>3, <1>4, FS_Subset, Zenon
<1> QED BY <1>1, <1>2, <1>5

\* A line of the text begins behind p and ends at e.
Consecutive(text, p, e) ==
  /\ p \in {0} \cup Ends(text) /\ e \in Ends(text) /\ p < e
  /\ \A d \in Ends(text) : d <= p \/ e <= d

\* The messages of the lines up to p.
UpTo(text, p) == {e \in MessageEnds(text) : e <= p}

\* It is the line that ends at e.
LEMMA NextLine ==
  ASSUME NEW text \in Seq(Symbols), NEW p, NEW e, Consecutive(text, p, e)
  PROVE  LineTo(text, e) = SubSeq(text, p + 1, e - 1)
<1> DEFINE S == {0} \cup {d \in Ends(text) : d < e}
<1>1. Ends(text) \subseteq Nat /\ p \in Nat /\ e \in Nat
  BY EndsInText DEF Consecutive
<1>2. p \in S /\ S \subseteq Nat /\ \A d \in S : p >= d
  BY <1>1 DEF Consecutive
<1> HIDE DEF S
<1>3. Max(S) = p
  <2>1. \A x \in S : (\A y \in S : x >= y) => x = p
    BY <1>2
  <2> QED BY <1>2, <2>1, Zenon DEF Max
<1>4. LineTo(text, e) = SubSeq(text, Max(S) + 1, e - 1)
  BY DEF LineTo, S
<1> QED BY <1>3, <1>4

\* With it the messages grow by one or by none.
LEMMA NextMessage ==
  ASSUME NEW text \in Seq(Symbols), NEW p, NEW e, Consecutive(text, p, e)
  PROVE  /\ Before(text, e) = UpTo(text, p)
         /\ Blank(LineTo(text, e)) => UpTo(text, e) = UpTo(text, p)
         /\ ~Blank(LineTo(text, e)) => e \in MessageEnds(text) /\ UpTo(text, e) = UpTo(text, p) \cup {e}
<1>1. Ends(text) \subseteq Nat /\ p \in Nat /\ e \in Nat /\ MessageEnds(text) \subseteq Ends(text)
  BY EndsInText DEF Consecutive
<1> DEFINE line == LineTo(text, e)
<1>2. e \in MessageEnds(text) <=> ~Blank(line)
  BY DEF MessageEnds, Consecutive
<1>3. \A d \in MessageEnds(text) : d < e <=> d <= p
  BY <1>1 DEF Consecutive
<1>4. \A d \in MessageEnds(text) : d <= e <=> d <= p \/ d = e
  BY <1>1 DEF Consecutive
<1>5. Before(text, e) = UpTo(text, p)
  BY <1>3 DEF Before, UpTo
<1>6. ASSUME Blank(line) PROVE UpTo(text, e) = UpTo(text, p)
  BY <1>2, <1>4, <1>6 DEF UpTo
<1>7. ASSUME ~Blank(line) PROVE UpTo(text, e) = UpTo(text, p) \cup {e}
  BY <1>2, <1>4, <1>7 DEF UpTo
<1> QED BY <1>2, <1>5, <1>6, <1>7

\* No two messages have as many before them.
LEMMA PlaceOfMessage ==
  ASSUME NEW text \in Seq(Symbols), NEW d \in MessageEnds(text), NEW e \in MessageEnds(text),
         Cardinality(Before(text, d)) = Cardinality(Before(text, e))
  PROVE  d = e
<1>1. ASSUME NEW a \in MessageEnds(text), NEW b \in MessageEnds(text), a < b
      PROVE  Cardinality(Before(text, a)) # Cardinality(Before(text, b))
  <2>1. MessageEnds(text) \subseteq Nat /\ IsFiniteSet(MessageEnds(text))
    BY EndsInText
  <2>2. Before(text, b) \subseteq MessageEnds(text)
    BY DEF Before
  <2>3. IsFiniteSet(Before(text, b))
    BY <2>1, <2>2, FS_Subset, Zenon
  <2>4. Before(text, a) \subseteq Before(text, b)
    BY <1>1, <2>1 DEF Before
  <2>5. a \in Before(text, b) /\ a \notin Before(text, a)
    BY <1>1, <2>1 DEF Before
  <2>6. Cardinality(Before(text, b)) = Cardinality(Before(text, a)) => Before(text, b) = Before(text, a)
    BY <2>3, <2>4, FS_Subset, Zenon
  <2> QED BY <2>5, <2>6
<1>2. d \in Nat /\ e \in Nat
  BY EndsInText
<1>3. ~(d < e) /\ ~(e < d)
  BY <1>1
<1> QED BY <1>2, <1>3

-----------------------------------------------------------------------------
(* What next has returned once the lines up to p are taken.                *)

Decoded == Envelopes \cup {"invalid"}

Yielded(text, p, y) ==
  /\ y \in Seq(Decoded)
  /\ Len(y) = Cardinality(UpTo(text, p))
  /\ \A k \in 1..Len(y) : \E e \in UpTo(text, p) :
       Cardinality(Before(text, e)) = k - 1 /\ y[k] = Decode(LineTo(text, e))

\* No Genesis is among the messages up to p.
Silent(text, p) == \A e \in UpTo(text, p) : Decode(LineTo(text, e)) \notin Geneses

LEMMA DecodeType == ASSUME NEW text PROVE Decode(text) \in Decoded
  BY DEF Decode, Decoded

\* A blank line changes neither.
LEMMA YieldBlank ==
  ASSUME NEW text \in Seq(Symbols), NEW p, NEW e, Consecutive(text, p, e),
         Blank(LineTo(text, e)), NEW y, Yielded(text, p, y)
  PROVE  Yielded(text, e, y) /\ (Silent(text, p) => Silent(text, e))
<1>1. UpTo(text, e) = UpTo(text, p)
  BY NextMessage
<1> QED BY <1>1, Zenon DEF Yielded, Silent

\* Another line is returned.
LEMMA YieldLine ==
  ASSUME NEW text \in Seq(Symbols), NEW p, NEW e, Consecutive(text, p, e),
         ~Blank(LineTo(text, e)), NEW y, Yielded(text, p, y)
  PROVE  /\ Yielded(text, e, Append(y, Decode(LineTo(text, e))))
         /\ Silent(text, p) /\ Decode(LineTo(text, e)) \notin Geneses => Silent(text, e)
<1> DEFINE m == Decode(LineTo(text, e))
           z == Append(y, m)
<1>1. /\ Before(text, e) = UpTo(text, p)
      /\ e \in MessageEnds(text) /\ UpTo(text, e) = UpTo(text, p) \cup {e}
  BY NextMessage
<1>2. e \in Nat /\ p \in Nat /\ p < e /\ e \notin UpTo(text, p)
  BY EndsInText DEF Consecutive, UpTo
<1>3. IsFiniteSet(UpTo(text, p))
  <2>1. IsFiniteSet(MessageEnds(text)) /\ UpTo(text, p) \subseteq MessageEnds(text)
    BY EndsInText DEF UpTo
  <2> QED BY <2>1, FS_Subset, Zenon
<1>4. Cardinality(UpTo(text, e)) = Cardinality(UpTo(text, p)) + 1
  BY <1>1, <1>2, <1>3, FS_AddElement, Zenon
<1>5. y \in Seq(Decoded) /\ Len(y) = Cardinality(UpTo(text, p)) /\ m \in Decoded
  BY DecodeType DEF Yielded
<1> HIDE DEF m
<1>6. /\ z \in Seq(Decoded) /\ Len(z) = Len(y) + 1 /\ z[Len(z)] = m
      /\ \A k \in 1..Len(y) : z[k] = y[k]
  BY <1>5
<1> HIDE DEF z
<1>7. ASSUME NEW k \in 1..Len(z)
      PROVE  \E d \in UpTo(text, e) :
               Cardinality(Before(text, d)) = k - 1 /\ z[k] = Decode(LineTo(text, d))
  <2>1. Len(y) \in Nat
    BY <1>5
  <2>2. CASE k \in 1..Len(y)
    <3>1. PICK d \in UpTo(text, p) :
            Cardinality(Before(text, d)) = k - 1 /\ y[k] = Decode(LineTo(text, d))
      BY <2>2 DEF Yielded
    <3> QED BY <1>1, <1>6, <2>2, <3>1
  <2>3. CASE k = Len(y) + 1
    <3>1. Cardinality(Before(text, e)) = k - 1
      BY <1>1, <1>5, <2>1, <2>3
    <3>2. z[k] = Decode(LineTo(text, e))
      BY <1>6, <2>3 DEF m
    <3> QED BY <1>1, <3>1, <3>2
  <2> QED BY <1>6, <2>1, <2>2, <2>3
<1>8. Yielded(text, e, z)
  <2>1. Len(z) = Cardinality(UpTo(text, e))
    BY <1>4, <1>5, <1>6
  <2> QED BY <1>6, <1>7, <2>1, Zenon DEF Yielded
<1>9. ASSUME Silent(text, p), m \notin Geneses PROVE Silent(text, e)
  BY <1>1, <1>9, Zenon DEF Silent, m
<1> QED BY <1>1, <1>8, <1>9 DEF z, m

\* What has been returned is a prefix of the messages.
LEMMA YieldedPrefix ==
  ASSUME NEW text \in Seq(Symbols), NEW p, NEW y, Yielded(text, p, y)
  PROVE  \E n \in 0 .. Len(Messages(text)) : y = SubSeq(Messages(text), 1, n)
<1> DEFINE M == MessageEnds(text)
           n == Cardinality(M)
           t == Messages(text)
<1>1. IsFiniteSet(M) /\ UpTo(text, p) \in SUBSET M
  BY EndsInText DEF UpTo
<1>2. n \in Nat /\ Cardinality(UpTo(text, p)) <= n
  BY <1>1, FS_Subset, FS_CardinalityType, Zenon
<1>3. y \in Seq(Decoded) /\ Len(y) \in Nat /\ Len(y) <= n
  BY <1>2 DEF Yielded
<1>4. t = [k \in 1..n |-> Decode(LineTo(text, CHOOSE e \in M : Cardinality(Before(text, e)) = k - 1))]
  BY DEF Messages
<1> HIDE DEF n, M, t
<1>5. t \in Seq(Decoded) /\ Len(t) = n
  <2>1. \A k \in 1..n : Decode(LineTo(text, CHOOSE e \in M : Cardinality(Before(text, e)) = k - 1)) \in Decoded
    BY DecodeType
  <2>2. t \in [1..n -> Decoded]
    BY <1>4, <2>1, Zenon
  <2> QED BY <1>2, <2>2
<1>6. ASSUME NEW k \in 1..Len(y) PROVE y[k] = t[k]
  <2>1. PICK e \in UpTo(text, p) :
          Cardinality(Before(text, e)) = k - 1 /\ y[k] = Decode(LineTo(text, e))
    BY DEF Yielded
  <2>2. e \in M /\ \A d \in M : Cardinality(Before(text, d)) = k - 1 => d = e
    BY <2>1, PlaceOfMessage, Zenon DEF UpTo, M
  <2>3. (CHOOSE d \in M : Cardinality(Before(text, d)) = k - 1) = e
    BY <2>1, <2>2, Zenon
  <2>4. k \in 1..n
    BY <1>2, <1>3
  <2> QED BY <1>4, <2>1, <2>3, <2>4, Zenon
<1>7. y = SubSeq(t, 1, Len(y))
  <2> DEFINE front == SubSeq(t, 1, Len(y))
  <2>1. front \in Seq(Decoded) /\ Len(front) = Len(y) /\ \A k \in 1..Len(y) : front[k] = t[k]
    BY <1>2, <1>3, <1>5
  <2> HIDE DEF front
  <2>2. \A k \in 1..Len(y) : y[k] = front[k]
    BY <1>6, <2>1
  <2>3. y = front
    BY <1>3, <2>1, <2>2, SeqEqual
  <2> QED BY <2>3 DEF front
<1>8. Len(y) \in 0..Len(t)
  BY <1>2, <1>3, <1>5
<1> QED BY <1>7, <1>8, Zenon DEF t

-----------------------------------------------------------------------------
(* What is buffered: the text behind p, as far as it has arrived.           *)

\* What a part of a text is.
LEMMA Part ==
  ASSUME NEW text \in Seq(Symbols), NEW k \in Nat, NEW a \in 0..Len(text), k <= a
  PROVE  /\ SubSeq(text, k + 1, a) \in Seq(Symbols)
         /\ Len(SubSeq(text, k + 1, a)) = a - k
         /\ \A j \in 1 .. a - k : SubSeq(text, k + 1, a)[j] = text[k + j]
OBVIOUS

\* Parts of a part of a text, and two parts that meet.
LEMMA PartOfPart ==
  ASSUME NEW text \in Seq(Symbols), NEW p \in Nat, NEW a \in 0..Len(text), p <= a,
         NEW i \in 1 .. a - p, NEW b, b = SubSeq(text, p + 1, a)
  PROVE  /\ SubSeq(b, 1, i - 1) = SubSeq(text, p + 1, p + i - 1)
         /\ SubSeq(b, i + 1, Len(b)) = SubSeq(text, p + i + 1, a)
<1>1. b \in Seq(Symbols) /\ Len(b) = a - p /\ \A j \in 1 .. a - p : b[j] = text[p + j]
  OBVIOUS
<1>2. SubSeq(b, 1, i - 1) = SubSeq(text, p + 1, p + i - 1)
  <2> DEFINE u == SubSeq(b, 1, i - 1)
             v == SubSeq(text, p + 1, p + i - 1)
  <2>1. u \in Seq(Symbols) /\ Len(u) = i - 1 /\ \A j \in 1 .. i - 1 : u[j] = b[j]
    BY <1>1
  <2>2. v \in Seq(Symbols) /\ Len(v) = i - 1 /\ \A j \in 1 .. i - 1 : v[j] = text[p + j]
    OBVIOUS
  <2> HIDE DEF u, v
  <2>3. \A j \in 1..Len(u) : u[j] = v[j]
    BY <1>1, <2>1, <2>2
  <2>4. u = v
    BY <2>1, <2>2, <2>3, SeqEqual
  <2> QED BY <2>4 DEF u, v
<1>3. SubSeq(b, i + 1, Len(b)) = SubSeq(text, p + i + 1, a)
  <2> DEFINE u == SubSeq(b, i + 1, Len(b))
             v == SubSeq(text, p + i + 1, a)
  <2>1. u \in Seq(Symbols) /\ Len(u) = a - p - i /\ \A j \in 1 .. a - p - i : u[j] = b[i + j]
    BY <1>1
  <2>2. v \in Seq(Symbols) /\ Len(v) = a - p - i /\ \A j \in 1 .. a - p - i : v[j] = text[p + i + j]
    <3>1. PICK k : k = p + i
      OBVIOUS
    <3>2. k \in Nat /\ k <= a /\ a - p - i = a - k
      BY <3>1
    <3>3. /\ SubSeq(text, k + 1, a) \in Seq(Symbols)
          /\ Len(SubSeq(text, k + 1, a)) = a - k
          /\ \A j \in 1 .. a - k : SubSeq(text, k + 1, a)[j] = text[k + j]
      BY <3>2, Part, Zenon
    <3> QED BY <3>1, <3>2, <3>3
  <2> HIDE DEF u, v
  <2>3. \A j \in 1..Len(u) : u[j] = v[j]
    BY <1>1, <2>1, <2>2
  <2>4. u = v
    BY <2>1, <2>2, <2>3, SeqEqual
  <2> QED BY <2>4 DEF u, v
<1> QED BY <1>2, <1>3

LEMMA PartsJoined ==
  ASSUME NEW text \in Seq(Symbols), NEW p \in Nat, NEW a \in Nat, NEW n \in 0..Len(text), p <= a, a <= n
  PROVE  SubSeq(text, p + 1, a) \o SubSeq(text, a + 1, n) = SubSeq(text, p + 1, n)
<1> DEFINE b == SubSeq(text, p + 1, a)
           c == SubSeq(text, a + 1, n)
           u == b \o c
           v == SubSeq(text, p + 1, n)
<1>1. b \in Seq(Symbols) /\ Len(b) = a - p /\ \A j \in 1 .. a - p : b[j] = text[p + j]
  OBVIOUS
<1>2. c \in Seq(Symbols) /\ Len(c) = n - a /\ \A j \in 1 .. n - a : c[j] = text[a + j]
  OBVIOUS
<1>3. v \in Seq(Symbols) /\ Len(v) = n - p /\ \A j \in 1 .. n - p : v[j] = text[p + j]
  OBVIOUS
<1> HIDE DEF b, c, v
<1>4. /\ u \in Seq(Symbols) /\ Len(u) = n - p
      /\ \A j \in 1 .. n - p : u[j] = IF j <= a - p THEN b[j] ELSE c[j - (a - p)]
  <2>1. /\ u \in Seq(Symbols) /\ Len(u) = Len(b) + Len(c)
        /\ \A j \in 1 .. Len(b) + Len(c) : u[j] = IF j <= Len(b) THEN b[j] ELSE c[j - Len(b)]
    BY <1>1, <1>2, ConcatProperties, Zenon
  <2> QED BY <1>1, <1>2, <2>1
<1> HIDE DEF u
<1>5. \A j \in 1..Len(u) : u[j] = v[j]
  BY <1>1, <1>2, <1>3, <1>4
<1>6. u = v
  BY <1>3, <1>4, <1>5, SeqEqual
<1> QED BY <1>6 DEF u, v, b, c

\* The lines up to p have been taken.
Position(p) ==
  /\ p \in {0} \cup Ends(body)
  /\ p <= arrived \/ arrived = Len(body)
  /\ buffered = SubSeq(body, p + 1, arrived)

Reached == body \in Seq(Symbols) /\ arrived \in 0..Len(body)

\* What has arrived behind p.
LEMMA Behind ==
  ASSUME Reached, NEW p, Position(p)
  PROVE  /\ p \in Nat /\ buffered \in Seq(Symbols)
         /\ p <= arrived => Len(buffered) = arrived - p
         /\ p > arrived => p = Len(body) + 1 /\ arrived = Len(body) /\ buffered = <<>>
         /\ \A i \in DOMAIN buffered : p + i <= arrived /\ buffered[i] = body[p + i]
<1>1. p \in 0 .. Len(body) + 1 /\ body \in Seq(Symbols) /\ arrived \in 0..Len(body)
  BY EndsInText DEF Position, Reached
<1>2. CASE p <= arrived
  BY <1>1, <1>2 DEF Position
<1>3. CASE p > arrived
  <2>1. p = Len(body) + 1 /\ arrived = Len(body)
    BY <1>1, <1>3 DEF Position
  <2>2. buffered \in Seq(Symbols) /\ Len(buffered) = 0
    BY <1>1, <2>1 DEF Position
  <2> QED BY <1>1, <1>3, <2>1, <2>2
<1> QED BY <1>1, <1>2, <1>3

\* The first line break that is buffered ends the line behind p.
LEMMA LineBehind ==
  ASSUME Reached, NEW p, Position(p), HasLine
  PROVE  \E e : /\ Consecutive(body, p, e) /\ e <= arrived
                /\ Line = SubSeq(body, p + 1, e - 1)
                /\ Rest = SubSeq(body, e + 1, arrived)
<1> DEFINE S == Newlines(buffered)
           i == Newline
           e == p + i
<1>1. /\ p \in Nat /\ buffered \in Seq(Symbols)
      /\ p <= arrived => Len(buffered) = arrived - p
      /\ p > arrived => p = Len(body) + 1 /\ arrived = Len(body) /\ buffered = <<>>
      /\ \A j \in DOMAIN buffered : p + j <= arrived /\ buffered[j] = body[p + j]
  BY Behind
<1>2. body \in Seq(Symbols) /\ arrived \in 0..Len(body)
  BY DEF Reached
<1>3. S # {} /\ S \subseteq 1..Len(buffered) /\ \A j \in S : buffered[j] = "nl"
  BY <1>1 DEF HasLine, Newlines
<1>4. i \in S /\ \A j \in S : i <= j
  <2>1. S \subseteq Nat
    BY <1>1, <1>3
  <2> HIDE DEF S
  <2>2. Min(S) \in S /\ \A j \in S : Min(S) <= j
    BY <1>3, <2>1, MinIsLeast, Zenon
  <2>3. i = Min(S)
    BY DEF Newline, S
  <2> QED BY <2>2, <2>3, Zenon
<1> HIDE DEF S, i
<1>5. i \in 1..Len(buffered) /\ buffered[i] = "nl"
  BY <1>3, <1>4
<1>6. p <= arrived /\ Len(buffered) = arrived - p
  BY <1>1, <1>2, <1>5
<1>7. e \in 1..arrived /\ body[e] = "nl"
  BY <1>1, <1>2, <1>5, <1>6
<1>8. e \in Ends(body)
  BY <1>2, <1>7 DEF Ends, Newlines
<1>9. ASSUME NEW d \in Ends(body), ~(d <= p), ~(e <= d) PROVE FALSE
  <2>1. d \in Nat /\ p < d /\ d < e
    BY <1>1, <1>2, <1>5, <1>9, EndsInText
  <2>2. d # Len(body) + 1
    BY <1>2, <1>7, <2>1
  <2>3. body[d] = "nl"
    BY <2>2 DEF Ends, Newlines
  <2>4. d - p \in 1..Len(buffered) /\ d - p < i
    BY <1>1, <1>2, <1>5, <2>1
  <2>5. buffered[d - p] = "nl"
    BY <1>1, <2>1, <2>3, <2>4
  <2>6. d - p \in S
    BY <1>1, <2>4, <2>5 DEF S, Newlines
  <2> QED BY <1>1, <1>4, <1>5, <2>1, <2>4, <2>6
<1>10. Consecutive(body, p, e)
  <2>1. p < e
    BY <1>1, <1>5
  <2> QED BY <1>8, <1>9, <2>1 DEF Consecutive, Position
<1>11. Line = SubSeq(body, p + 1, p + i - 1) /\ Rest = SubSeq(body, p + i + 1, arrived)
  <2>1. i \in 1 .. arrived - p /\ buffered = SubSeq(body, p + 1, arrived)
    BY <1>5, <1>6, Zenon DEF Position
  <2>2. /\ SubSeq(buffered, 1, i - 1) = SubSeq(body, p + 1, p + i - 1)
        /\ SubSeq(buffered, i + 1, Len(buffered)) = SubSeq(body, p + i + 1, arrived)
    BY <1>1, <1>2, <1>6, <2>1, PartOfPart
  <2> QED BY <2>2, Zenon DEF Line, Rest, i
<1>12. e <= arrived
  BY <1>2, <1>7
<1>13. Line = SubSeq(body, p + 1, e - 1) /\ Rest = SubSeq(body, e + 1, arrived)
  <2>1. e - 1 = p + i - 1 /\ e + 1 = p + i + 1
    BY <1>1, <1>5
  <2> QED BY <1>11, <2>1, Zenon
<1> HIDE DEF e
<1> QED BY <1>10, <1>12, <1>13, Zenon

\* When all has arrived, what is left behind p is the last line.
LEMMA LastBehind ==
  ASSUME Reached, NEW p, Position(p), ~HasLine, arrived = Len(body), p <= arrived
  PROVE  /\ Consecutive(body, p, Len(body) + 1)
         /\ buffered = SubSeq(body, p + 1, (Len(body) + 1) - 1)
<1>1. /\ p \in Nat /\ buffered \in Seq(Symbols) /\ Len(buffered) = arrived - p
      /\ \A j \in DOMAIN buffered : p + j <= arrived /\ buffered[j] = body[p + j]
  BY Behind
<1>2. body \in Seq(Symbols) /\ Len(body) \in Nat
  BY DEF Reached
<1>3. ASSUME NEW d \in Ends(body), ~(d <= p), ~(Len(body) + 1 <= d) PROVE FALSE
  <2>1. d \in Nat /\ p < d /\ d <= Len(body)
    BY <1>1, <1>2, <1>3, EndsInText
  <2>2. body[d] = "nl"
    BY <1>2, <2>1 DEF Ends, Newlines
  <2>3. d - p \in DOMAIN buffered /\ buffered[d - p] = "nl"
    BY <1>1, <1>2, <2>1, <2>2
  <2> QED BY <2>3 DEF HasLine, Newlines
<1>4. Consecutive(body, p, Len(body) + 1)
  <2>1. p < Len(body) + 1
    BY <1>1, <1>2
  <2> QED BY <1>3, <2>1 DEF Consecutive, Position, Ends
<1>5. (Len(body) + 1) - 1 = arrived
  BY <1>2
<1> QED BY <1>4, <1>5 DEF Position

-----------------------------------------------------------------------------
(* The selection.                                                          *)

\* Where the stream stands.
Stands(p) ==
  /\ Position(p)
  /\ Yielded(body, p, yielded)
  /\ at \in {"open", "first"} => Silent(body, p)

\* What has been found, and what is returned.
ChoiceInv ==
  /\ at \in {"open", "first", "collect", "done"}
  /\ at # "done" => result = "none"
  /\ candidates \in Seq(Advertised)
  /\ ChoiceIsAdvertised

\* The inductive invariant: the stream has taken the lines up to some end of the
\* body, has returned their messages, and no Genesis is among them unless the
\* selection is past its first loop.
SelectionInv ==
  /\ Reached
  /\ \E p \in {0} \cup Ends(body) : Stands(p)
  /\ ChoiceInv

\* A step that leaves the stream alone.
LEMMA StandsQuiet ==
  ASSUME NEW p, Stands(p), UNCHANGED <<body, arrived, buffered, yielded>>,
         at' \in {"open", "first"} => at \in {"open", "first"}
  PROVE  Stands(p)'
<1>1. body' = body /\ arrived' = arrived /\ buffered' = buffered /\ yielded' = yielded
  OBVIOUS
<1>2. Position(p)'
  BY <1>1 DEF Stands, Position
<1>3. Yielded(body, p, yielded)'
  BY <1>1 DEF Stands
<1>4. ASSUME at' \in {"open", "first"} PROVE Silent(body, p)'
  BY <1>1, <1>4 DEF Stands
<1> QED BY <1>2, <1>3, <1>4 DEF Stands

\* A step that takes a line.
LEMMA StandsMoves ==
  ASSUME Reached, NEW p, Stands(p), NEW e, Consecutive(body, p, e),
         body' = body, arrived' = arrived, buffered' = SubSeq(body, e + 1, arrived),
         e <= arrived \/ arrived = Len(body),
         at' \in {"open", "first"} => at \in {"open", "first"},
         \/ Blank(LineTo(body, e)) /\ yielded' = yielded
         \/ /\ ~Blank(LineTo(body, e)) /\ yielded' = Append(yielded, Decode(LineTo(body, e)))
            /\ at' \in {"open", "first"} => Decode(LineTo(body, e)) \notin Geneses
  PROVE  Stands(e)'
<1>1. body \in Seq(Symbols)
  BY DEF Reached
<1>2. Position(e)'
  BY DEF Position, Consecutive
<1>3. Yielded(body, e, yielded') /\ (at' \in {"open", "first"} => Silent(body, e))
  <2>1. Yielded(body, p, yielded) /\ (at' \in {"open", "first"} => Silent(body, p))
    BY DEF Stands
  <2>2. CASE Blank(LineTo(body, e)) /\ yielded' = yielded
    <3>1. Yielded(body, e, yielded) /\ (Silent(body, p) => Silent(body, e))
      BY <1>1, <2>1, <2>2, YieldBlank
    <3> QED BY <2>1, <2>2, <3>1
  <2>3. CASE /\ ~Blank(LineTo(body, e)) /\ yielded' = Append(yielded, Decode(LineTo(body, e)))
             /\ at' \in {"open", "first"} => Decode(LineTo(body, e)) \notin Geneses
    <3>1. /\ Yielded(body, e, Append(yielded, Decode(LineTo(body, e))))
          /\ Silent(body, p) /\ Decode(LineTo(body, e)) \notin Geneses => Silent(body, e)
      BY <1>1, <2>1, <2>3, YieldLine, Zenon
    <3> QED BY <2>1, <2>3, <3>1
  <2> QED BY <2>2, <2>3
<1> QED BY <1>2, <1>3, Zenon DEF Stands

\* What the selection does with a message.
LEMMA Received ==
  ASSUME ChoiceInv, at \in {"first", "collect"}, body' = body,
         NEW d \in MessageEnds(body), NEW m, m = Decode(LineTo(body, d)), Receive(m)
  PROVE  /\ ChoiceInv'
         /\ yielded' = Append(yielded, m)
         /\ at' \in {"open", "first"} => at \in {"open", "first"} /\ m \notin Geneses
<1>1. m \in Decoded
  BY DecodeType
<1>2. m # "end" /\ (m = "invalid" => m \notin Envelopes)
  BY <1>1, AdvertisementsAssumption DEF Decoded
<1>3. yielded' = Append(yielded, m)
  BY <1>2 DEF Receive
<1>4. Advertised' = Advertised
  BY DEF Advertised
<1>5. result = "none" /\ candidates \in Seq(Advertised) /\ "Decode" \in Errors
  BY DEF ChoiceInv, Errors
<1>6. CASE m = "invalid" /\ Return("Decode") /\ UNCHANGED candidates
  <2>1. at' = "done" /\ result' = "Decode" /\ candidates' = candidates
    BY <1>6 DEF Return
  <2> QED BY <1>3, <1>4, <1>5, <2>1 DEF ChoiceInv, ChoiceIsAdvertised
<1>7. CASE IsGenesis(m) /\ at' = "collect" /\ candidates' = Append(candidates, m) /\ UNCHANGED result
  <2>1. m \in Advertised
    BY <1>7 DEF IsGenesis, Advertised
  <2>2. candidates' \in Seq(Advertised)
    BY <1>5, <1>7, <2>1
  <2> QED BY <1>3, <1>4, <1>5, <1>7, <2>2 DEF ChoiceInv, ChoiceIsAdvertised
<1>8. CASE m \in Envelopes /\ ~IsGenesis(m) /\ UNCHANGED <<at, result, candidates>>
  BY <1>3, <1>4, <1>5, <1>8 DEF ChoiceInv, ChoiceIsAdvertised, IsGenesis
<1> QED BY <1>2, <1>6, <1>7, <1>8 DEF Receive

\* A return that is not NoGenesis.
LEMMA Returned ==
  ASSUME ChoiceInv, body' = body, candidates' = candidates, NEW r, Return(r),
         r \in Advertised \cup (Errors \ {"NoGenesis"})
  PROVE  ChoiceInv'
<1>1. Advertised' = Advertised
  BY DEF Advertised
<1>2. "NoGenesis" \notin Advertised
  BY AdvertisementsAssumption DEF Advertised, Errors
<1>3. at' = "done" /\ result' = r /\ r # "NoGenesis"
  BY <1>2 DEF Return
<1> QED BY <1>1, <1>3 DEF ChoiceInv, ChoiceIsAdvertised

\* A candidate was advertised.
LEMMA Candidates == ASSUME ChoiceInv, NEW i \in DOMAIN candidates PROVE candidates[i] \in Advertised
  BY DEF ChoiceInv

\* TakeLine takes the next line, and skips or returns it.
LEMMA TakeLineStep == SelectionInv /\ TakeLine => SelectionInv'
<1> SUFFICES ASSUME SelectionInv, TakeLine PROVE SelectionInv'
  OBVIOUS
<1>1. /\ Reached /\ ChoiceInv /\ HasLine /\ at \in {"first", "collect"}
      /\ body' = body /\ arrived' = arrived /\ buffered' = Rest
  BY DEF SelectionInv, TakeLine, Reading
<1>2. PICK p \in {0} \cup Ends(body) : Stands(p)
  BY DEF SelectionInv
<1>3. PICK e : /\ Consecutive(body, p, e) /\ e <= arrived
               /\ Line = SubSeq(body, p + 1, e - 1)
               /\ Rest = SubSeq(body, e + 1, arrived)
  BY <1>1, <1>2, LineBehind DEF Stands
<1>4. body \in Seq(Symbols) /\ Reached'
  BY <1>1 DEF Reached
<1>5. Line = LineTo(body, e)
  BY <1>3, <1>4, NextLine
<1>6. CASE Blank(Line) /\ UNCHANGED <<at, result, candidates, yielded>>
  <2>1. Stands(e)'
    BY <1>1, <1>2, <1>3, <1>5, <1>6, StandsMoves, Zenon
  <2>2. ChoiceInv'
    BY <1>1, <1>6 DEF ChoiceInv, ChoiceIsAdvertised, Advertised
  <2> QED BY <1>1, <1>3, <1>4, <2>1, <2>2, Zenon DEF SelectionInv, Consecutive
<1>7. CASE ~Blank(Line) /\ Receive(Decode(Line))
  <2>1. e \in MessageEnds(body)
    BY <1>3, <1>5, <1>7, Zenon DEF MessageEnds, Consecutive
  <2>2. /\ ChoiceInv'
        /\ yielded' = Append(yielded, Decode(Line))
        /\ at' \in {"open", "first"} => at \in {"open", "first"} /\ Decode(Line) \notin Geneses
    BY <1>1, <1>5, <1>7, <2>1, Received
  <2>3. Stands(e)'
    BY <1>1, <1>2, <1>3, <1>5, <1>7, <2>2, StandsMoves, Zenon
  <2> QED BY <1>1, <1>3, <1>4, <2>2, <2>3, Zenon DEF SelectionInv, Consecutive
<1> QED BY <1>6, <1>7 DEF TakeLine

\* ReadChunk appends what follows in the body.
LEMMA ReadChunkStep == SelectionInv /\ ReadChunk => SelectionInv'
<1> SUFFICES ASSUME SelectionInv, ReadChunk PROVE SelectionInv'
  OBVIOUS
<1>1. Reached /\ ChoiceInv /\ UNCHANGED <<at, result, cancelled, candidates, body, response, yielded>>
  BY DEF SelectionInv, ReadChunk
<1>2. PICK n \in arrived + 1 .. Len(body) :
        buffered' = buffered \o SubSeq(body, arrived + 1, n) /\ arrived' = n
  BY Zenon DEF ReadChunk
<1>3. PICK p \in {0} \cup Ends(body) : Stands(p)
  BY DEF SelectionInv
<1>4. body \in Seq(Symbols) /\ arrived \in 0..Len(body) /\ Position(p) /\ p \in Nat
  BY <1>1, <1>3, Behind DEF Reached, Stands
<1>5. arrived \in Nat /\ n \in 0..Len(body) /\ arrived <= n /\ p <= arrived /\ p <= n
  BY <1>2, <1>4 DEF Position
<1>6. buffered' = SubSeq(body, p + 1, n)
  <2>1. buffered = SubSeq(body, p + 1, arrived)
    BY <1>4 DEF Position
  <2>2. SubSeq(body, p + 1, arrived) \o SubSeq(body, arrived + 1, n) = SubSeq(body, p + 1, n)
    BY <1>4, <1>5, PartsJoined
  <2> QED BY <1>2, <2>1, <2>2, Zenon
<1>7. Position(p)'
  BY <1>1, <1>2, <1>4, <1>5, <1>6, Zenon DEF Position
<1>8. Stands(p)'
  BY <1>1, <1>3, <1>7 DEF Stands
<1>9. Reached' /\ ChoiceInv'
  BY <1>1, <1>2, <1>4, <1>5 DEF Reached, ChoiceInv, ChoiceIsAdvertised, Advertised
<1> QED BY <1>1, <1>3, <1>8, <1>9 DEF SelectionInv

\* A step that touches neither the stream nor its selection's findings.
LEMMA QuietStep ==
  ASSUME SelectionInv, UNCHANGED <<body, arrived, buffered, yielded>>,
         at' \in {"open", "first"} => at \in {"open", "first"}, ChoiceInv'
  PROVE  SelectionInv'
<1>1. PICK p \in {0} \cup Ends(body) : Stands(p)
  BY DEF SelectionInv
<1>2. Stands(p)'
  BY <1>1, StandsQuiet
<1>3. body' = body /\ arrived' = arrived /\ Reached'
  BY DEF SelectionInv, Reached
<1> QED BY <1>1, <1>2, <1>3 DEF SelectionInv

\* ReadEnd returns the rest as a last line, and after that the end; a stream
\* that ends in the first loop had no Genesis.
LEMMA ReadEndStep == SelectionInv /\ ReadEnd => SelectionInv'
<1> SUFFICES ASSUME SelectionInv, ReadEnd PROVE SelectionInv'
  OBVIOUS
<1>0. PICK e : e = Len(body) + 1
  OBVIOUS
<1>1. /\ Reached /\ ChoiceInv /\ ~HasLine /\ at \in {"first", "collect"} /\ arrived = Len(body)
      /\ body' = body /\ arrived' = arrived /\ Receive(LastLine)
      /\ buffered' = IF Blank(buffered) THEN buffered ELSE <<>>
  BY DEF SelectionInv, ReadEnd, Reading
<1>2. PICK p \in {0} \cup Ends(body) : Stands(p)
  BY DEF SelectionInv
<1>3. Position(p) /\ body \in Seq(Symbols) /\ Len(body) \in Nat
  BY <1>1, <1>2 DEF Stands, Reached
<1>4. ASSUME p <= arrived
      PROVE  Consecutive(body, p, e) /\ buffered = LineTo(body, e)
  <2>1. Consecutive(body, p, e) /\ buffered = SubSeq(body, p + 1, e - 1)
    BY <1>0, <1>1, <1>3, <1>4, LastBehind, Zenon
  <2> QED BY <1>3, <2>1, NextLine
<1>5. CASE Blank(buffered)
  <2>1. LastLine = "end" /\ AfterEnd /\ yielded' = yielded /\ buffered' = buffered
    <3>1. LastLine = "end"
      BY <1>5 DEF LastLine
    <3>2. "end" # "invalid" /\ "end" \notin Envelopes /\ "end" \notin Geneses
      BY AdvertisementsAssumption
    <3> QED BY <1>1, <1>5, <3>1, <3>2 DEF Receive, IsGenesis
  <2>2. at' = "done" /\ candidates' = candidates
    BY <2>1 DEF AfterEnd, Return
  <2>3. CASE at = "first" /\ Return("NoGenesis")
    <3>1. MessageEnds(body) \subseteq UpTo(body, p)
      <4> SUFFICES ASSUME NEW d \in MessageEnds(body) PROVE d <= p
        BY DEF UpTo
      <4>1. d \in Ends(body) /\ Ends(body) \subseteq 1 .. Len(body) + 1 /\ p \in Nat
        BY <1>2, <1>3, EndsInText
      <4>2. CASE p <= arrived
        <5>1. d # e
          BY <1>4, <1>5, <4>2 DEF MessageEnds
        <5> QED BY <1>0, <1>3, <1>4, <4>1, <4>2, <5>1 DEF Consecutive
      <4>3. CASE ~(p <= arrived)
        BY <1>1, <1>3, <4>1, <4>3
      <4> QED BY <4>2, <4>3
    <3>2. Silent(body, p)
      BY <1>2, <2>3 DEF Stands
    <3>3. Advertised = {}
      BY <3>1, <3>2 DEF Silent, Advertised
    <3>4. result' = "NoGenesis" /\ Advertised' = Advertised /\ "NoGenesis" \in Errors
      BY <1>1, <2>3 DEF Return, Advertised, Errors
    <3>5. ChoiceInv'
      BY <1>1, <2>2, <3>3, <3>4 DEF ChoiceInv, ChoiceIsAdvertised
    <3> QED BY <1>1, <2>1, <2>2, <3>5, QuietStep
  <2>4. CASE \E i \in DOMAIN candidates : Return(candidates[i])
    <3>1. PICK i \in DOMAIN candidates : Return(candidates[i])
      BY <2>4
    <3>2. candidates[i] \in Advertised
      BY <1>1, Candidates
    <3>3. ChoiceInv'
      BY <1>1, <2>2, <3>1, <3>2, Returned
    <3> QED BY <1>1, <2>1, <2>2, <3>3, QuietStep
  <2> QED BY <2>1, <2>3, <2>4 DEF AfterEnd
<1>6. CASE ~Blank(buffered)
  <2>1. LastLine = Decode(buffered) /\ buffered' = <<>>
    BY <1>1, <1>6 DEF LastLine
  <2>2. p <= arrived
    <3>1. Blank(<<>>)
      BY DEF Blank
    <3>2. ~(p <= arrived) => buffered = <<>>
      BY <1>1, <1>3, Behind DEF Position
    <3> QED BY <1>6, <3>1, <3>2
  <2>3. Consecutive(body, p, e) /\ buffered = LineTo(body, e)
    BY <1>4, <2>2
  <2>4. e \in MessageEnds(body)
    BY <1>6, <2>3 DEF MessageEnds, Consecutive
  <2>5. /\ ChoiceInv'
        /\ yielded' = Append(yielded, Decode(LineTo(body, e)))
        /\ at' \in {"open", "first"} => at \in {"open", "first"} /\ Decode(LineTo(body, e)) \notin Geneses
    BY <1>1, <2>1, <2>3, <2>4, Received
  <2>6. buffered' = SubSeq(body, e + 1, arrived)
    <3> DEFINE rest == SubSeq(body, e + 1, arrived)
    <3>1. rest \in Seq(Symbols) /\ Len(rest) = 0
      BY <1>0, <1>1, <1>3
    <3> HIDE DEF rest
    <3>2. rest = <<>>
      BY <3>1
    <3> QED BY <2>1, <3>2, Zenon DEF rest
  <2>7. Stands(e)'
    <3>1. ~Blank(LineTo(body, e))
      BY <1>6, <2>3
    <3> QED BY <1>1, <1>2, <2>3, <2>5, <2>6, <3>1, StandsMoves, Zenon
  <2>8. Reached' /\ e \in Ends(body)
    BY <1>1, <2>3 DEF Reached, Consecutive
  <2> QED BY <1>1, <2>5, <2>7, <2>8, Zenon DEF SelectionInv
<1> QED BY <1>5, <1>6

\* Every step keeps the invariant.
LEMMA NextSelectionInv == SelectionInv /\ [Next]_vars => SelectionInv'
<1> SUFFICES ASSUME SelectionInv, [Next]_vars PROVE SelectionInv'
  OBVIOUS
<1>1. ChoiceInv
  BY DEF SelectionInv
<1>2. ASSUME UNCHANGED <<at, result, candidates, body, arrived, buffered, yielded>> PROVE SelectionInv'
  <2>1. ChoiceInv'
    BY <1>1, <1>2 DEF ChoiceInv, ChoiceIsAdvertised, Advertised
  <2> QED BY <1>2, <2>1, QuietStep
<1>3. ASSUME NEW r \in Advertised \cup (Errors \ {"NoGenesis"}), Return(r),
             UNCHANGED <<candidates, body, arrived, buffered, yielded>>
      PROVE  SelectionInv'
  <2>1. ChoiceInv'
    BY <1>1, <1>3, Returned
  <2>2. at' = "done"
    BY <1>3 DEF Return
  <2> QED BY <1>3, <2>1, <2>2, QuietStep
<1>4. CASE OpenStream
  <2>1. UNCHANGED <<candidates, body, arrived, buffered, yielded>> /\ at = "open"
    BY <1>4 DEF OpenStream
  <2>2. CASE at' = "first" /\ UNCHANGED result
    <3>1. ChoiceInv'
      BY <1>1, <2>1, <2>2 DEF ChoiceInv, ChoiceIsAdvertised, Advertised
    <3> QED BY <2>1, <3>1, QuietStep
  <2>3. CASE \E error \in {"Transport", "ProtocolVersion", "Http"} : Return(error)
    <3>1. {"Transport", "ProtocolVersion", "Http"} \subseteq Errors \ {"NoGenesis"}
      BY DEF Errors
    <3> QED BY <1>3, <2>1, <2>3, <3>1
  <2> QED BY <1>4, <2>2, <2>3 DEF OpenStream
<1>5. CASE TakeLine
  BY <1>5, TakeLineStep
<1>6. CASE ReadChunk
  BY <1>6, ReadChunkStep
<1>7. CASE ReadEnd
  BY <1>7, ReadEndStep
<1>8. CASE ReadFails
  <2>1. "Transport" \in Errors \ {"NoGenesis"}
    BY DEF Errors
  <2> QED BY <1>3, <1>8, <2>1 DEF ReadFails
<1>9. CASE PatienceEnds
  <2>1. PICK i \in DOMAIN candidates : Return(candidates[i])
    BY <1>9 DEF PatienceEnds
  <2>2. candidates[i] \in Advertised
    BY <1>1, Candidates
  <2> QED BY <1>3, <1>9, <2>1, <2>2 DEF PatienceEnds
<1>10. CASE CancelSelection
  <2>1. "Cancelled" \in Errors \ {"NoGenesis"}
    BY DEF Errors
  <2> QED BY <1>3, <1>10, <2>1 DEF CancelSelection
<1>11. CASE Cancel
  BY <1>2, <1>11 DEF Cancel
<1>12. CASE ResponseEnds
  BY <1>2, <1>12 DEF ResponseEnds
<1>13. CASE UNCHANGED vars
  BY <1>2, <1>13 DEF vars
<1> QED
  BY <1>4, <1>5, <1>6, <1>7, <1>8, <1>9, <1>10, <1>11, <1>12, <1>13 DEF Next, Selection

LEMMA InitSelectionInv == Init => SelectionInv
<1> SUFFICES ASSUME Init PROVE SelectionInv
  OBVIOUS
<1>1. /\ at = "open" /\ result = "none" /\ candidates = <<>> /\ body \in Bodies
      /\ arrived = 0 /\ buffered = <<>> /\ yielded = <<>>
  BY DEF Init
<1>2. body \in Seq(Symbols) /\ Reached
  BY <1>1, AdvertisementsAssumption DEF Reached
<1>3. UpTo(body, 0) = {}
  <2>1. MessageEnds(body) \subseteq 1 .. Len(body) + 1 /\ Len(body) \in Nat
    BY <1>2, EndsInText
  <2> QED BY <2>1 DEF UpTo
<1>4. Position(0)
  <2> DEFINE rest == SubSeq(body, 1, 0)
  <2>1. rest \in Seq(Symbols) /\ Len(rest) = 0
    BY <1>2
  <2> HIDE DEF rest
  <2>2. rest = <<>>
    BY <2>1
  <2>3. SubSeq(body, 0 + 1, 0) = <<>>
    BY <2>2 DEF rest
  <2> QED BY <1>1, <2>3 DEF Position
<1>5. Yielded(body, 0, yielded)
  BY <1>1, <1>3, FS_EmptySet DEF Yielded
<1>6. Stands(0)
  BY <1>3, <1>4, <1>5 DEF Stands, Silent
<1>7. ChoiceInv
  BY <1>1 DEF ChoiceInv, ChoiceIsAdvertised
<1> QED BY <1>2, <1>6, <1>7 DEF SelectionInv

\* The messages that AdvertisementStream::next returns are those of the body, one
\* by one and in order, however its bytes were cut into chunks.
THEOREM MessagesCorrect == Spec => []ChunkingInvisible
<1>1. SelectionInv => ChunkingInvisible
  <2> SUFFICES ASSUME SelectionInv PROVE ChunkingInvisible
    OBVIOUS
  <2>1. PICK p \in {0} \cup Ends(body) : Stands(p)
    BY DEF SelectionInv
  <2>2. body \in Seq(Symbols) /\ Yielded(body, p, yielded)
    BY <2>1 DEF SelectionInv, Reached, Stands
  <2> QED BY <2>2, YieldedPrefix DEF ChunkingInvisible
<1> QED BY <1>1, InitSelectionInv, NextSelectionInv, PTL DEF Spec

\* select_genesis succeeds only with a peer that was advertised in the stream it
\* read, and reports NoGenesis only when the stream advertised none.
THEOREM ChoiceCorrect == Spec => []ChoiceIsAdvertised
<1>1. SelectionInv => ChoiceIsAdvertised
  BY DEF SelectionInv, ChoiceInv
<1> QED BY <1>1, InitSelectionInv, NextSelectionInv, PTL DEF Spec
=============================================================================
