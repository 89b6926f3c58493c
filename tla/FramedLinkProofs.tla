---------------------------- MODULE FramedLinkProofs ----------------------------
(***************************************************************************)
(* FramedLink implements MessageLink, for any messages and replies and       *)
(* wherever the stream cuts them.                                            *)
(***************************************************************************)
EXTENDS FramedLink, Integers, SequenceTheorems, WellFoundedInduction, TLAPS

------------------------------------------------------------------------------
(* Induction, by the least number for which something fails *)

\* A non-empty set of natural numbers has a least one.
LEMMA LeastNumber ==
  ASSUME NEW T \in SUBSET Nat, T # {}
  PROVE  \E x \in T : \A y \in T : x <= y
<1> DEFINE R == OpToRel(<, Nat)
<1>1. R = {p \in Nat \X Nat : p[1] < p[2]}
  BY DEF OpToRel
<1>2. IsWellFoundedOn(R, Nat)
  BY NatLessThanWellFounded
<1> HIDE DEF R
<1>3. PICK x \in T : \A y \in T : ~(<<y, x>> \in R)
  BY <1>2, WFMin
<1>4. ASSUME NEW y \in T
      PROVE  x <= y
  <2>1. x \in Nat /\ y \in Nat
    OBVIOUS
  <2>2. ~(y < x)
    BY <1>1, <1>3, <2>1
  <2>3. QED
    BY <2>1, <2>2
<1>5. QED
  BY <1>4

\* A set of places that has the first and with each place the next has them all.
LEMMA AllPlaces ==
  ASSUME NEW a \in Nat, NEW b \in Nat, NEW P \in SUBSET (a..b), a <= b, a \in P,
         \A k \in (a + 1)..b : k - 1 \in P => k \in P
  PROVE  P = a..b
<1> DEFINE T == (a..b) \ P
<1>1. SUFFICES ASSUME T # {}
               PROVE  FALSE
  OBVIOUS
<1>2. T \in SUBSET Nat
  OBVIOUS
<1>3. PICK k \in T : \A y \in T : k <= y
  BY <1>1, <1>2, LeastNumber
<1>4. k \in (a + 1)..b /\ k - 1 \in a..b /\ ~(k <= k - 1)
  OBVIOUS
<1>5. k - 1 \in P
  BY <1>3, <1>4
<1>6. QED
  BY <1>4, <1>5

\* Function f is c at 0, and at each further place up to n what g makes of the place before.
Solves(f, n, S, c, g) ==
  /\ f \in [0..n -> S] /\ f[0] = c
  /\ \A k \in 1..n : f[k] = g[<<k, f[k - 1]>>]

\* A recursion over the places up to n has a solution.
LEMMA Recursion ==
  ASSUME NEW n \in Nat, NEW S, NEW c \in S, NEW g \in [(1..n) \X S -> S]
  PROVE  \E f : Solves(f, n, S, c, g)
<1> DEFINE P == {m \in 0..n : \E f : Solves(f, m, S, c, g)}
<1>1. 0 \in P
  <2> DEFINE f == [k \in 0..0 |-> c]
  <2>1. Solves(f, 0, S, c, g)
    BY DEF Solves
  <2>2. QED
    BY <2>1
<1>2. ASSUME NEW m \in (0 + 1)..n, m - 1 \in P
      PROVE  m \in P
  <2>1. PICK f : Solves(f, m - 1, S, c, g)
    BY <1>2
  <2> DEFINE h == [k \in 0..m |-> IF k = m THEN g[<<m, f[m - 1]>>] ELSE f[k]]
  <2>2. m \in 1..n /\ m - 1 \in 0..(m - 1) /\ f \in [0..(m - 1) -> S] /\ f[m - 1] \in S
    BY <2>1 DEF Solves
  <2>3. g[<<m, f[m - 1]>>] \in S
    BY <2>2
  <2>4. h \in [0..m -> S]
    BY <2>2, <2>3
  <2>5. h[m] = g[<<m, f[m - 1]>>] /\ \A k \in 0..(m - 1) : h[k] = f[k]
    OBVIOUS
  <2>6. \A k \in 1..m : h[k] = g[<<k, h[k - 1]>>]
    <3>1. ASSUME NEW k \in 1..m
          PROVE  h[k] = g[<<k, h[k - 1]>>]
      <4>1. k - 1 \in 0..(m - 1)
        OBVIOUS
      <4>2. CASE k = m
        BY <2>5, <4>1, <4>2
      <4>3. CASE k # m
        <5>1. k \in 1..(m - 1) /\ k \in 0..(m - 1)
          BY <4>3
        <5>2. QED
          BY <2>1, <2>5, <4>1, <5>1 DEF Solves
      <4>4. QED
        BY <4>2, <4>3
    <3>2. QED
      BY <3>1
  <2>7. h[0] = c
    BY <2>1, <2>5 DEF Solves
  <2>8. Solves(h, m, S, c, g)
    BY <2>4, <2>6, <2>7 DEF Solves
  <2>9. QED
    BY <2>8
<1> HIDE DEF P
<1>3. P = 0..n
  <2>1. P \in SUBSET (0..n)
    BY DEF P
  <2>2. \A m \in (0 + 1)..n : m - 1 \in P => m \in P
    BY <1>2
  <2>3. QED
    BY <1>1, <2>1, <2>2, AllPlaces
<1>4. n \in P
  BY <1>3
<1>5. QED
  BY <1>4 DEF P

------------------------------------------------------------------------------
(* Streams and frames *)

\* Two pieces of a stream joined.
LEMMA JoinBytes ==
  ASSUME NEW s \in Seq(Bytes), NEW t \in Seq(Bytes)
  PROVE  /\ s \o t \in Seq(Bytes) /\ Len(s) \in Nat /\ Len(t) \in Nat
         /\ Len(s \o t) = Len(s) + Len(t)
         /\ \A i \in 1..Len(s) : (s \o t)[i] = s[i]
         /\ \A i \in 1..Len(t) : (s \o t)[Len(s) + i] = t[i]
<1>1. Len(s) \in Nat /\ Len(t) \in Nat
  OBVIOUS
<1>2. s \o t \in Seq(Bytes) /\ Len(s \o t) = Len(s) + Len(t)
  BY ConcatProperties, Zenon
<1>3. \A i \in 1..(Len(s) + Len(t)) :
        (s \o t)[i] = IF i <= Len(s) THEN s[i] ELSE t[i - Len(s)]
  BY ConcatProperties, Zenon
<1>4. ASSUME NEW i \in 1..Len(s)
      PROVE  (s \o t)[i] = s[i]
  <2>1. i \in 1..(Len(s) + Len(t)) /\ i <= Len(s)
    BY <1>1
  <2>2. QED
    BY <1>3, <2>1
<1>5. ASSUME NEW i \in 1..Len(t)
      PROVE  (s \o t)[Len(s) + i] = t[i]
  <2>1. /\ Len(s) + i \in 1..(Len(s) + Len(t)) /\ ~(Len(s) + i <= Len(s))
        /\ (Len(s) + i) - Len(s) = i
    BY <1>1
  <2>2. QED
    BY <1>3, <2>1
<1>6. QED
  BY <1>1, <1>2, <1>4, <1>5

\* The largest int has its top byte below 128.
LEMMA MaxIntValue == MaxInt \in Nat /\ MaxInt < 128 * (256 * (256 * 256))
<1>1. MaxInt \in Nat
  BY SMT DEF MaxInt
<1>2. MaxInt < 128 * (256 * (256 * 256))
  BY SMT DEF MaxInt
<1>3. QED
  BY <1>1, <1>2

\* readInt reads what writeInt wrote.
LEMMA IntRoundTrip ==
  ASSUME NEW n \in 0..MaxInt
  PROVE  /\ WriteInt(n) \in Seq(Bytes) /\ Len(WriteInt(n)) = 4
         /\ ReadInt(WriteInt(n)) = n
<1> DEFINE a == n \div 256
           b == a \div 256
           c == b \div 256
<1>1. n \in Nat /\ n < 128 * (256 * (256 * 256))
  BY MaxIntValue, SMT
<1>2. a \in Nat /\ n = 256 * a + (n % 256) /\ n % 256 \in 0..255
  BY <1>1, SMT
<1>3. b \in Nat /\ a = 256 * b + (a % 256) /\ a % 256 \in 0..255
  BY <1>2, SMT
<1>4. c \in Nat /\ b = 256 * c + (b % 256) /\ b % 256 \in 0..255
  BY <1>3, SMT
<1> HIDE DEF a, b, c
<1>5. c \in 0..255
  BY <1>1, <1>2, <1>3, <1>4, SMT
<1>6. WriteInt(n) = <<c, b % 256, a % 256, n % 256>>
  BY DEF WriteInt, a, b, c
<1>7. WriteInt(n) \in Seq(Bytes) /\ Len(WriteInt(n)) = 4
  BY <1>2, <1>3, <1>4, <1>5, <1>6 DEF Bytes
<1>8. ReadInt(WriteInt(n)) = n
  BY <1>2, <1>3, <1>4, <1>6 DEF ReadInt
<1>9. QED
  BY <1>7, <1>8

\* A frame: four bytes of length, then the content.
LEMMA EncodeShape ==
  ASSUME NEW m \in Seq(Bytes), Len(m) <= MaxInt
  PROVE  /\ Encode(m) \in Seq(Bytes) /\ Len(Encode(m)) = 4 + Len(m)
         /\ \A i \in 1..4 : Encode(m)[i] = WriteInt(Len(m))[i]
         /\ \A i \in 1..Len(m) : Encode(m)[4 + i] = m[i]
<1> DEFINE w == WriteInt(Len(m))
<1>1. Len(m) \in 0..MaxInt /\ Len(m) \in Nat
  BY MaxIntValue
<1>2. w \in Seq(Bytes) /\ Len(w) = 4
  BY <1>1, IntRoundTrip
<1> HIDE DEF w
<1>3. Encode(m) = w \o m
  BY DEF Encode, w
<1>4. /\ w \o m \in Seq(Bytes) /\ Len(w \o m) = Len(w) + Len(m)
      /\ \A i \in 1..Len(w) : (w \o m)[i] = w[i]
      /\ \A i \in 1..Len(m) : (w \o m)[Len(w) + i] = m[i]
  BY <1>2, JoinBytes, Zenon
<1>5. /\ Encode(m) \in Seq(Bytes) /\ Len(Encode(m)) = 4 + Len(m)
      /\ \A i \in 1..4 : Encode(m)[i] = w[i]
      /\ \A i \in 1..Len(m) : Encode(m)[4 + i] = m[i]
  BY <1>2, <1>3, <1>4, Zenon
<1>6. QED
  BY <1>5 DEF w

------------------------------------------------------------------------------
(* Streams of frames *)

\* Messages that can be encoded.
Encodable(M) == M \in Seq(Seq(Bytes)) /\ \A n \in 1..Len(M) : Len(M[n]) <= MaxInt

\* Stream s is the frames of the messages after the a-th up to the b-th: cut[k] is the place
\* where the k-th ends.
Cuts(cut, s, M, a, b) ==
  /\ cut[a] = 0 /\ cut[b] = Len(s)
  /\ \A j \in a..b : \A k \in a..b : j <= k => cut[j] <= cut[k]
  /\ \A k \in (a + 1)..b :
       /\ cut[k] = cut[k - 1] + (4 + Len(M[k]))
       /\ \A i \in 1..(4 + Len(M[k])) : s[cut[k - 1] + i] = Encode(M[k])[i]

Carries(s, M, a, b) == \E cut \in [a..b -> 0..Len(s)] : Cuts(cut, s, M, a, b)

\* Nothing under way carries no message.
LEMMA CarriesNothing ==
  ASSUME NEW M, NEW a \in Nat
  PROVE  Carries(<<>> \o <<>>, M, a, a)
<1> DEFINE cut == [k \in a..a |-> 0]
<1>1. <<>> \o <<>> = <<>> /\ Len(<<>>) = 0
  OBVIOUS
<1>2. cut \in [a..a -> 0..0] /\ a \in a..a /\ cut[a] = 0
  OBVIOUS
<1>3. (a + 1)..a = {} /\ \A j \in a..a : j = a
  OBVIOUS
<1> HIDE DEF cut
<1>4. Cuts(cut, <<>>, M, a, a)
  BY <1>1, <1>2, <1>3 DEF Cuts
<1>5. QED
  BY <1>1, <1>2, <1>4 DEF Carries

\* Three pieces of a stream joined.
LEMMA BytesAssociate == \A x, y, z \in Seq(Bytes) : (x \o y) \o z = x \o (y \o z)
BY ConcatAssociative, SMTT(60)

\* The places of a part of a sequence are places of the whole.
LEMMA PlacesWithin ==
  ASSUME NEW x \in Nat, NEW y \in Nat, NEW z \in Nat, x + y <= z
  PROVE  \A i \in 1..y : x + i \in 1..z
OBVIOUS

\* A frame that is written lengthens the stream by one message.
LEMMA CarriesOneMore ==
  ASSUME NEW M, Encodable(M), NEW s \in Seq(Bytes), NEW a \in Nat, NEW b \in Nat, a <= b,
         b + 1 <= Len(M), Carries(s, M, a, b)
  PROVE  /\ s \o Encode(M[b + 1]) \in Seq(Bytes)
         /\ Carries(s \o Encode(M[b + 1]), M, a, b + 1)
<1> DEFINE m == M[b + 1]
           t == s \o Encode(m)
<1>1. m \in Seq(Bytes) /\ Len(m) <= MaxInt /\ Len(m) \in Nat
  BY DEF Encodable
<1>2. Encode(m) \in Seq(Bytes) /\ Len(Encode(m)) = 4 + Len(m)
  BY <1>1, EncodeShape
<1>3. /\ t \in Seq(Bytes) /\ Len(t) = Len(s) + (4 + Len(m)) /\ Len(s) \in Nat
      /\ \A i \in 1..Len(s) : t[i] = s[i]
      /\ \A i \in 1..(4 + Len(m)) : t[Len(s) + i] = Encode(m)[i]
  <2> DEFINE f == Encode(m)
  <2>1. f \in Seq(Bytes) /\ Len(f) = 4 + Len(m)
    BY <1>2
  <2> HIDE DEF f
  <2>2. /\ s \o f \in Seq(Bytes) /\ Len(s) \in Nat
        /\ Len(s \o f) = Len(s) + Len(f)
        /\ \A i \in 1..Len(s) : (s \o f)[i] = s[i]
        /\ \A i \in 1..Len(f) : (s \o f)[Len(s) + i] = f[i]
    BY <2>1, JoinBytes, Zenon
  <2>3. t = s \o f
    BY DEF f
  <2> HIDE DEF t
  <2>4. /\ t \in Seq(Bytes) /\ Len(t) = Len(s) + (4 + Len(m)) /\ Len(s) \in Nat
        /\ \A i \in 1..Len(s) : t[i] = s[i]
        /\ \A i \in 1..(4 + Len(m)) : t[Len(s) + i] = f[i]
    BY <2>1, <2>2, <2>3, Zenon
  <2>5. QED
    BY <2>4 DEF f
<1>4. PICK cut \in [a..b -> 0..Len(s)] : Cuts(cut, s, M, a, b)
  BY DEF Carries
<1> DEFINE new == [k \in a..(b + 1) |-> IF k = b + 1 THEN Len(t) ELSE cut[k]]
<1>5. /\ new[b + 1] = Len(t)
      /\ \A k \in a..b : new[k] = cut[k] /\ cut[k] \in 0..Len(s)
      /\ a \in a..b /\ b \in a..b /\ a..(b + 1) = (a..b) \cup {b + 1}
  OBVIOUS
<1>6. new \in [a..(b + 1) -> 0..Len(t)]
  <2>1. \A k \in a..(b + 1) : (IF k = b + 1 THEN Len(t) ELSE cut[k]) \in 0..Len(t)
    BY <1>1, <1>3, <1>5
  <2>2. QED
    BY <2>1
<1> HIDE DEF new, t, m
<1>7. new[a] = 0
  BY <1>4, <1>5 DEF Cuts
<1>8. ASSUME NEW j \in a..(b + 1), NEW k \in a..(b + 1), j <= k
       PROVE  new[j] <= new[k]
  <2>1. CASE k = b + 1
    BY <1>3, <1>5, <1>6, <2>1
  <2>2. CASE k \in a..b
    <3>1. j \in a..b
      BY <1>8, <2>2
    <3>2. QED
      BY <1>4, <1>5, <1>8, <2>2, <3>1 DEF Cuts
  <2>3. QED
    BY <1>5, <2>1, <2>2
<1>9. ASSUME NEW k \in (a + 1)..(b + 1)
       PROVE  /\ new[k] = new[k - 1] + (4 + Len(M[k]))
              /\ \A i \in 1..(4 + Len(M[k])) : t[new[k - 1] + i] = Encode(M[k])[i]
  <2>1. CASE k = b + 1
    <3>1. new[k - 1] = Len(s)
      BY <1>4, <1>5, <2>1 DEF Cuts
    <3>2. QED
      BY <1>3, <1>5, <2>1, <3>1 DEF m
  <2>2. CASE k \in (a + 1)..b
    <3>1. k \in a..b /\ k - 1 \in a..b /\ k \in 1..Len(M)
      BY <2>2
    <3>2. new[k] = cut[k] /\ new[k - 1] = cut[k - 1] /\ cut[k] \in 0..Len(s)
          /\ cut[k - 1] \in 0..Len(s)
      BY <1>5, <3>1
    <3>3. /\ cut[k] = cut[k - 1] + (4 + Len(M[k]))
          /\ \A i \in 1..(4 + Len(M[k])) : s[cut[k - 1] + i] = Encode(M[k])[i]
      BY <1>4, <2>2 DEF Cuts
    <3>4. Len(M[k]) \in Nat
      BY <3>1 DEF Encodable
    <3>5. cut[k - 1] \in Nat /\ cut[k - 1] + (4 + Len(M[k])) <= Len(s)
      BY <1>3, <3>2, <3>3
    <3>6. \A i \in 1..(4 + Len(M[k])) : cut[k - 1] + i \in 1..Len(s)
      <4>1. 4 + Len(M[k]) \in Nat
        BY <3>4
      <4>2. QED
        BY <1>3, <3>5, <4>1, PlacesWithin, Zenon
    <3>7. QED
      BY <1>3, <3>2, <3>3, <3>6
  <2>3. QED
    BY <1>9, <2>1, <2>2
<1>10. Cuts(new, t, M, a, b + 1)
  BY <1>5, <1>7, <1>8, <1>9 DEF Cuts
<1>11. QED
  BY <1>3, <1>6, <1>10 DEF Carries, t, m

------------------------------------------------------------------------------
(* What a decoder takes from a stream *)

\* A piece of a stream.
LEMMA PieceOfBytes ==
  ASSUME NEW s \in Seq(Bytes), NEW j \in Nat, NEW k \in Nat, j <= k, k <= Len(s)
  PROVE  /\ SubSeq(s, j + 1, k) \in Seq(Bytes) /\ Len(SubSeq(s, j + 1, k)) = k - j
         /\ \A i \in 1..(k - j) : SubSeq(s, j + 1, k)[i] = s[j + i]
<1>1. \A i \in (j + 1)..k : s[i] \in Bytes
  <2>1. \A i \in (j + 1)..k : i \in 1..Len(s)
    OBVIOUS
  <2>2. QED
    BY <2>1, ElementOfSeq
<1> DEFINE f == j + 1
           p == SubSeq(s, f, k)
<1>2. f \in Int /\ k \in Int /\ \A i \in f..k : s[i] \in Bytes
  BY <1>1
<1> HIDE DEF f
<1>3. /\ p \in Seq(Bytes)
      /\ Len(p) = IF f <= k THEN k - f + 1 ELSE 0
      /\ \A i \in 1..(k - f + 1) : p[i] = s[f + i - 1]
  BY <1>2, SubSeqProperties
<1> HIDE DEF p
<1>4. /\ p \in Seq(Bytes) /\ Len(p) = k - j
      /\ \A i \in 1..(k - j) : p[i] = s[j + i]
  BY <1>3 DEF f
<1>5. QED
  BY <1>4 DEF p, f

\* Bytes that arrive leave the stream as it is.
LEMMA ReadKeepsStream ==
  ASSUME NEW in \in Seq(Bytes), NEW q \in Seq(Bytes), NEW n \in 1..Len(q)
  PROVE  /\ in \o SubSeq(q, 1, n) \in Seq(Bytes) /\ SubSeq(q, n + 1, Len(q)) \in Seq(Bytes)
         /\ (in \o SubSeq(q, 1, n)) \o SubSeq(q, n + 1, Len(q)) = in \o q
<1> DEFINE u == SubSeq(q, 1, n)
           v == SubSeq(q, n + 1, Len(q))
<1>1. n \in Nat /\ Len(q) \in Nat /\ n <= Len(q) /\ 0 <= n /\ 0 + 1 = 1
  OBVIOUS
<1>2. u \in Seq(Bytes)
  BY <1>1, PieceOfBytes
<1>3. v \in Seq(Bytes)
  BY <1>1, PieceOfBytes
<1>4. 1 \in 1..(Len(q) + 1) /\ n \in (1 - 1)..Len(q) /\ Len(q) \in n..Len(q)
  BY <1>1
<1>5. u \o v = q
  BY <1>4, ConcatAdjacentSubSeq, SubSeqFull, Zenon
<1> HIDE DEF u, v
<1>6. in \o u \in Seq(Bytes)
  BY <1>2, JoinBytes, Zenon
<1>7. (in \o u) \o v = in \o (u \o v)
  BY <1>2, <1>3, BytesAssociate, Zenon
<1>8. QED
  BY <1>3, <1>5, <1>6, <1>7 DEF u, v

\* What a decoder that is able to run to its end takes is the oldest message under way,
\* and it leaves the frames of the others.
LEMMA CarriesFirst ==
  ASSUME NEW M, Encodable(M), NEW in \in Seq(Bytes), NEW rest \in Seq(Bytes),
         NEW a \in Nat, NEW b \in Nat, a <= b, b <= Len(M),
         Carries(in \o rest, M, a, b), Complete(in)
  PROVE  /\ a < b /\ Content(in) = M[a + 1] /\ Rest(in) \in Seq(Bytes)
         /\ Carries(Rest(in) \o rest, M, a + 1, b)
<1> DEFINE s == in \o rest
           m == M[a + 1]
<1>1. /\ s \in Seq(Bytes) /\ Len(in) \in Nat /\ Len(rest) \in Nat
      /\ Len(s) = Len(in) + Len(rest)
      /\ \A i \in 1..Len(in) : s[i] = in[i]
      /\ \A i \in 1..Len(rest) : s[Len(in) + i] = rest[i]
  BY JoinBytes, Zenon
<1>2. PICK cut \in [a..b -> 0..Len(s)] : Cuts(cut, s, M, a, b)
  BY DEF Carries
<1> HIDE DEF s
<1>3. Len(in) >= 4 /\ Len(in) >= 4 + ReadInt(in)
  BY DEF Complete, IntBytes
<1>4. a < b
  BY <1>1, <1>2, <1>3 DEF Cuts
<1>5. m \in Seq(Bytes) /\ Len(m) \in 0..MaxInt /\ Len(m) \in Nat /\ Len(m) <= MaxInt
  <2>1. a + 1 \in 1..Len(M)
    BY <1>4 DEF Encodable
  <2>2. m \in Seq(Bytes) /\ Len(m) <= MaxInt
    BY <2>1 DEF Encodable
  <2>3. QED
    BY <2>2, MaxIntValue
<1>6. /\ cut[a] = 0 /\ cut[a + 1] = 4 + Len(m)
      /\ \A i \in 1..(4 + Len(m)) : s[i] = Encode(m)[i]
  <2>1. a + 1 \in (a + 1)..b /\ (a + 1) - 1 = a
    BY <1>4
  <2>2. /\ cut[a] = 0 /\ cut[a + 1] = cut[a] + (4 + Len(m))
        /\ \A i \in 1..(4 + Len(m)) : s[cut[a] + i] = Encode(m)[i]
    BY <1>2, <2>1 DEF Cuts
  <2>3. QED
    BY <1>5, <2>2
<1>7. /\ \A i \in 1..4 : Encode(m)[i] = WriteInt(Len(m))[i]
      /\ \A i \in 1..Len(m) : Encode(m)[4 + i] = m[i]
  BY <1>5, EncodeShape
<1>8. ReadInt(WriteInt(Len(m))) = Len(m)
  BY <1>5, IntRoundTrip
<1> HIDE DEF m
<1>9. \A i \in 1..4 : in[i] = WriteInt(Len(m))[i]
  <2>1. \A i \in 1..4 : i \in 1..Len(in) /\ i \in 1..(4 + Len(m))
    BY <1>1, <1>3, <1>5
  <2>2. QED
    BY <1>1, <1>6, <1>7, <2>1
<1>10. ReadInt(in) = Len(m)
  <2>1. 1 \in 1..4 /\ 2 \in 1..4 /\ 3 \in 1..4 /\ 4 \in 1..4
    OBVIOUS
  <2>2. ReadInt(in) = ReadInt(WriteInt(Len(m)))
    BY <1>9, <2>1, Zenon DEF ReadInt
  <2>3. QED
    BY <1>8, <2>2
<1> DEFINE L == 4 + Len(m)
<1>11. L \in Nat /\ L <= Len(in) /\ 4 <= L
  BY <1>1, <1>3, <1>5, <1>10
<1>12. Content(in) = m
  <2> DEFINE c == SubSeq(in, 4 + 1, L)
  <2>1. c \in Seq(Bytes) /\ Len(c) = L - 4 /\ \A i \in 1..(L - 4) : c[i] = in[4 + i]
    BY <1>11, PieceOfBytes
  <2>2. Content(in) = c
    BY <1>10 DEF Content, IntBytes
  <2> HIDE DEF c
  <2>3. Len(c) = Len(m)
    BY <1>5, <2>1
  <2>4. \A i \in 1..Len(c) : c[i] = m[i]
    <3>1. \A i \in 1..Len(m) : 4 + i \in 1..Len(in) /\ 4 + i \in 1..(4 + Len(m))
      BY <1>1, <1>5, <1>11
    <3>2. \A i \in 1..Len(m) : in[4 + i] = m[i]
      BY <1>1, <1>6, <1>7, <3>1
    <3>3. QED
      BY <1>5, <2>1, <2>3, <3>2
  <2>5. c = m
    BY <1>5, <2>1, <2>3, <2>4, SeqEqual, Zenon
  <2>6. QED
    BY <2>2, <2>5
<1> DEFINE r == Rest(in)
           t == r \o rest
<1>13. /\ r \in Seq(Bytes) /\ Len(r) = Len(in) - L
       /\ \A i \in 1..(Len(in) - L) : r[i] = in[L + i]
  <2>1. r = SubSeq(in, L + 1, Len(in))
    BY <1>10 DEF Rest, IntBytes
  <2> HIDE DEF r
  <2>2. QED
    BY <1>1, <1>11, <2>1, PieceOfBytes
<1> HIDE DEF r
<1>14. /\ t \in Seq(Bytes) /\ Len(r) \in Nat /\ Len(t) = Len(r) + Len(rest)
       /\ \A i \in 1..Len(r) : t[i] = r[i]
       /\ \A i \in 1..Len(rest) : t[Len(r) + i] = rest[i]
  BY <1>13, JoinBytes, Zenon
<1> HIDE DEF t
<1>15. Len(t) = Len(s) - L /\ Len(s) \in Nat
  BY <1>1, <1>11, <1>13, <1>14
<1>16. ASSUME NEW i \in 1..Len(t)
       PROVE  t[i] = s[L + i]
  <2>1. CASE i <= Len(r)
    <3>1. i \in 1..Len(r) /\ L + i \in 1..Len(in) /\ i \in 1..(Len(in) - L)
      BY <1>1, <1>11, <1>13, <1>14, <2>1
    <3>2. QED
      BY <1>1, <1>13, <1>14, <3>1
  <2>2. CASE ~(i <= Len(r))
    <3>1. /\ i - Len(r) \in 1..Len(rest) /\ Len(r) + (i - Len(r)) = i
          /\ Len(in) + (i - Len(r)) = L + i
      BY <1>1, <1>11, <1>13, <1>14, <2>2
    <3>2. QED
      BY <1>1, <1>14, <3>1
  <2>3. QED
    BY <2>1, <2>2
<1> DEFINE new == [k \in (a + 1)..b |-> cut[k] - L]
<1>17. /\ cut[a + 1] = L
       /\ \A k \in (a + 1)..b : /\ k \in a..b /\ cut[k] \in 0..Len(s) /\ L <= cut[k]
                                /\ new[k] = cut[k] - L
  <2>1. cut[a + 1] = L
    BY <1>6
  <2>2. \A k \in (a + 1)..b : k \in a..b /\ cut[k] \in 0..Len(s) /\ new[k] = cut[k] - L
    BY <1>4
  <2>3. a + 1 \in a..b
    BY <1>4
  <2>4. \A k \in (a + 1)..b : cut[a + 1] <= cut[k]
    BY <1>2, <2>2, <2>3 DEF Cuts
  <2>5. QED
    BY <2>1, <2>2, <2>4
<1>18. new \in [(a + 1)..b -> 0..Len(t)]
  <2>1. \A k \in (a + 1)..b : cut[k] - L \in 0..Len(t)
    BY <1>11, <1>15, <1>17
  <2>2. QED
    BY <2>1
<1> HIDE DEF new, L
<1>19. new[a + 1] = 0 /\ new[b] = Len(t)
  <2>1. a + 1 \in (a + 1)..b /\ b \in (a + 1)..b /\ cut[b] = Len(s)
    BY <1>2, <1>4 DEF Cuts
  <2>2. QED
    BY <1>11, <1>15, <1>17, <2>1
<1>20. ASSUME NEW j \in (a + 1)..b, NEW k \in (a + 1)..b, j <= k
       PROVE  new[j] <= new[k]
  <2>1. cut[j] <= cut[k]
    BY <1>2, <1>17, <1>20 DEF Cuts
  <2>2. QED
    BY <1>11, <1>17, <2>1
<1>21. ASSUME NEW k \in (a + 2)..b
       PROVE  /\ new[k] = new[k - 1] + (4 + Len(M[k]))
              /\ \A i \in 1..(4 + Len(M[k])) : t[new[k - 1] + i] = Encode(M[k])[i]
  <2>1. k \in (a + 1)..b /\ k - 1 \in (a + 1)..b /\ k \in 1..Len(M)
    OBVIOUS
  <2>2. /\ cut[k] = cut[k - 1] + (4 + Len(M[k]))
        /\ \A i \in 1..(4 + Len(M[k])) : s[cut[k - 1] + i] = Encode(M[k])[i]
    BY <1>2, <2>1 DEF Cuts
  <2>3. Len(M[k]) \in Nat
    BY <2>1 DEF Encodable
  <2>4. /\ new[k] = cut[k] - L /\ new[k - 1] = cut[k - 1] - L
        /\ cut[k] \in 0..Len(s) /\ cut[k - 1] \in 0..Len(s) /\ L <= cut[k - 1]
    BY <1>17, <2>1
  <2> DEFINE x == cut[k]
             y == cut[k - 1]
             l == 4 + Len(M[k])
  <2>10. x \in Nat /\ y \in Nat /\ l \in Nat /\ x <= Len(s) /\ x = y + l /\ L <= y
    BY <1>15, <2>2, <2>3, <2>4
  <2>11. new[k] = x - L /\ new[k - 1] = y - L
    BY <2>4
  <2> HIDE DEF x, y, l
  <2>5. x - L = (y - L) + l
    BY <1>11, <2>10
  <2>6. \A i \in 1..l : (y - L) + i \in 1..Len(t) /\ L + ((y - L) + i) = y + i
    BY <1>11, <1>15, <2>10
  <2>7. QED
    <3>1. \A i \in 1..l : t[(y - L) + i] = s[y + i]
      BY <1>16, <2>6
    <3>2. \A i \in 1..l : s[y + i] = Encode(M[k])[i]
      BY <2>2 DEF y, l
    <3>3. new[k] = new[k - 1] + l
      BY <2>11, <2>5
    <3>4. \A i \in 1..l : t[new[k - 1] + i] = Encode(M[k])[i]
      BY <2>11, <3>1, <3>2
    <3>5. QED
      BY <3>3, <3>4 DEF l
<1>22. Cuts(new, t, M, a + 1, b)
  <2>1. (a + 1) + 1 = a + 2
    OBVIOUS
  <2>2. QED
    BY <1>19, <1>20, <1>21, <2>1 DEF Cuts
<1>23. Carries(t, M, a + 1, b)
  BY <1>18, <1>22 DEF Carries
<1>24. QED
  BY <1>4, <1>12, <1>13, <1>23 DEF m, r, t

\* A decoder that has all that is under way, and some message is, runs to its end.
LEMMA CarriesWhole ==
  ASSUME NEW M, Encodable(M), NEW in \in Seq(Bytes), NEW a \in Nat, NEW b \in Nat, a < b,
         b <= Len(M), Carries(in \o <<>>, M, a, b)
  PROVE  Complete(in)
<1> DEFINE m == M[a + 1]
<1>1. in \o <<>> = in /\ Len(in) \in Nat
  BY ConcatEmptySeq
<1>2. PICK cut \in [a..b -> 0..Len(in)] : Cuts(cut, in, M, a, b)
  BY <1>1 DEF Carries
<1>3. m \in Seq(Bytes) /\ Len(m) \in 0..MaxInt /\ Len(m) \in Nat /\ Len(m) <= MaxInt
  <2>1. a + 1 \in 1..Len(M)
    BY DEF Encodable
  <2>2. m \in Seq(Bytes) /\ Len(m) <= MaxInt
    BY <2>1 DEF Encodable
  <2>3. QED
    BY <2>2, MaxIntValue
<1>4. /\ cut[a + 1] = 4 + Len(m) /\ cut[a + 1] <= Len(in)
      /\ \A i \in 1..(4 + Len(m)) : in[i] = Encode(m)[i]
  <2>1. a + 1 \in (a + 1)..b /\ (a + 1) - 1 = a /\ a + 1 \in a..b
    OBVIOUS
  <2>2. /\ cut[a] = 0 /\ cut[a + 1] = cut[a] + (4 + Len(m))
        /\ \A i \in 1..(4 + Len(m)) : in[cut[a] + i] = Encode(m)[i]
    BY <1>2, <2>1 DEF Cuts
  <2>3. cut[a + 1] \in 0..Len(in)
    BY <2>1
  <2>4. QED
    BY <1>1, <1>3, <2>2, <2>3
<1>5. \A i \in 1..4 : Encode(m)[i] = WriteInt(Len(m))[i]
  BY <1>3, EncodeShape
<1>6. ReadInt(WriteInt(Len(m))) = Len(m)
  BY <1>3, IntRoundTrip
<1> HIDE DEF m
<1>7. \A i \in 1..4 : in[i] = WriteInt(Len(m))[i]
  <2>1. \A i \in 1..4 : i \in 1..(4 + Len(m))
    BY <1>3
  <2>2. QED
    BY <1>4, <1>5, <2>1
<1>8. ReadInt(in) = Len(m)
  <2>1. 1 \in 1..4 /\ 2 \in 1..4 /\ 3 \in 1..4 /\ 4 \in 1..4
    OBVIOUS
  <2>2. ReadInt(in) = ReadInt(WriteInt(Len(m)))
    BY <1>7, <2>1, Zenon DEF ReadInt
  <2>3. QED
    BY <1>6, <2>2
<1>9. QED
  BY <1>1, <1>3, <1>4, <1>8 DEF Complete, IntBytes

------------------------------------------------------------------------------
(* The invariant *)

\* The replies as one sequence.
Replies == [n \in 1..Len(Requests) |-> ReplyTo(n)]

\* The frames under way to the server are those of the messages sent and not yet served, the
\* frames under way to the client those of the replies not yet received.
Streams ==
  /\ Carries(serverIn \o c2s, Requests, Len(served), sent)
  /\ Carries(clientIn \o s2c, Replies, Len(answers), Len(served))

FInv ==
  /\ TypeOK
  /\ Len(served) <= sent /\ Len(answers) <= Len(served)
  /\ open => Streams

\* The assumptions on the constants, as the lemmas on streams need them.
LEMMA BothEncodable ==
  /\ Encodable(Requests) /\ Encodable(Replies)
  /\ Len(Requests) \in Nat /\ Len(Replies) = Len(Requests)
  /\ \A n \in 1..Len(Requests) : Replies[n] = ReplyTo(n)
<1>1. Requests \in Seq(Seq(Bytes)) /\ Len(Requests) \in Nat
  BY RequestAssumption
<1>2. Replies \in Seq(Seq(Bytes)) /\ Len(Replies) = Len(Requests)
      /\ \A n \in 1..Len(Requests) : Replies[n] = ReplyTo(n)
  BY <1>1, ReplyAssumption DEF Replies
<1>3. Encodable(Requests)
  BY RequestAssumption DEF Encodable
<1>4. Encodable(Replies)
  BY <1>2, ReplyAssumption DEF Encodable
<1>5. QED
  BY <1>1, <1>2, <1>3, <1>4

\* Bytes written at the end of what is under way.
LEMMA WriteLengthensStream ==
  ASSUME NEW in \in Seq(Bytes), NEW q \in Seq(Bytes), NEW f \in Seq(Bytes)
  PROVE  /\ in \o q \in Seq(Bytes) /\ q \o f \in Seq(Bytes)
         /\ in \o (q \o f) = (in \o q) \o f
<1>1. in \o q \in Seq(Bytes) /\ q \o f \in Seq(Bytes)
  BY JoinBytes, Zenon
<1>2. QED
  BY <1>1, BytesAssociate, Zenon

\* The types the steps below use.
LEMMA FInvTypes ==
  ASSUME FInv
  PROVE  /\ sent \in Nat /\ sent <= Len(Requests)
         /\ c2s \in Seq(Bytes) /\ s2c \in Seq(Bytes)
         /\ serverIn \in Seq(Bytes) /\ clientIn \in Seq(Bytes)
         /\ served \in Seq(Seq(Bytes)) /\ answers \in Seq(Seq(Bytes))
         /\ Len(served) \in Nat /\ Len(answers) \in Nat /\ open \in BOOLEAN
         /\ Len(served) <= sent /\ Len(answers) <= Len(served)
         /\ (open => Streams)
<1>1. Len(Requests) \in Nat
  BY BothEncodable
<1>2. QED
  BY <1>1 DEF FInv, TypeOK

\* Nothing is under way at first.
LEMMA FInvInit ==
  ASSUME Init
  PROVE  FInv
<1>1. Len(Requests) \in Nat /\ <<>> \in Seq(Bytes) /\ <<>> \in Seq(Seq(Bytes))
  BY BothEncodable
<1>2. Len(served) = 0 /\ Len(answers) = 0 /\ sent = 0
  BY DEF Init
<1>3. Carries(<<>> \o <<>>, Requests, 0, 0) /\ Carries(<<>> \o <<>>, Replies, 0, 0)
  BY CarriesNothing
<1>4. Streams
  BY <1>2, <1>3 DEF Init, Streams
<1>5. TypeOK
  BY <1>1 DEF Init, TypeOK
<1>6. QED
  BY <1>2, <1>4, <1>5 DEF FInv

\* channelActive sends a message of the link.
LEMMA SendStep ==
  ASSUME FInv, ClientSend
  PROVE  FInv' /\ Link!Send
<1> DEFINE f == Encode(Requests[sent + 1])
<1>1. sent + 1 \in 1..Len(Requests) /\ sent + 1 <= Len(Requests) /\ sent + 1 \in 0..Len(Requests)
  BY FInvTypes, BothEncodable DEF ClientSend
<1>2. Requests[sent + 1] \in Seq(Bytes) /\ Len(Requests[sent + 1]) <= MaxInt
  BY <1>1, RequestAssumption
<1>3. f \in Seq(Bytes)
  BY <1>2, EncodeShape
<1>4. /\ serverIn \o c2s \in Seq(Bytes) /\ c2s \o f \in Seq(Bytes)
      /\ serverIn \o (c2s \o f) = (serverIn \o c2s) \o f
  <2> HIDE DEF f
  <2>1. QED
    BY <1>3, FInvTypes, WriteLengthensStream, SMTT(30)
<1>5. Carries((serverIn \o c2s) \o f, Requests, Len(served), sent + 1)
  BY <1>1, <1>4, FInvTypes, BothEncodable, CarriesOneMore DEF ClientSend, Streams
<1> HIDE DEF f
<1>6. c2s' = c2s \o f /\ sent' = sent + 1
  BY DEF ClientSend, f
<1>7. Streams'
  BY <1>4, <1>5, <1>6, FInvTypes DEF ClientSend, Streams
<1>8. TypeOK'
  BY <1>1, <1>4, <1>6, FInvTypes DEF ClientSend, TypeOK
<1>9. Len(served') <= sent' /\ Len(answers') <= Len(served')
  BY <1>6, FInvTypes DEF ClientSend
<1>10. Link!Send
  BY DEF ClientSend, Link!Send
<1>11. QED
  BY <1>7, <1>8, <1>9, <1>10 DEF FInv

\* A channelRead at the server changes nothing of the link.
LEMMA ServerReadStep ==
  ASSUME FInv, ServerRead
  PROVE  FInv' /\ UNCHANGED <<sent, served, answers, open>>
<1>1. PICK n \in 1..Len(c2s) : /\ serverIn' = serverIn \o SubSeq(c2s, 1, n)
                               /\ c2s' = SubSeq(c2s, n + 1, Len(c2s))
  BY DEF ServerRead
<1>2. serverIn' \in Seq(Bytes) /\ c2s' \in Seq(Bytes) /\ serverIn' \o c2s' = serverIn \o c2s
  BY <1>1, FInvTypes, ReadKeepsStream
<1>3. UNCHANGED <<sent, s2c, clientIn, served, answers, open>>
  BY DEF ServerRead
<1>4. open /\ Streams'
  BY <1>2, <1>3, FInvTypes DEF ServerRead, Streams
<1>5. TypeOK'
  BY <1>2, <1>3 DEF FInv, TypeOK
<1>6. QED
  BY <1>3, <1>4, <1>5 DEF FInv

\* Nor does one at the client.
LEMMA ClientReadStep ==
  ASSUME FInv, ClientRead
  PROVE  FInv' /\ UNCHANGED <<sent, served, answers, open>>
<1>1. PICK n \in 1..Len(s2c) : /\ clientIn' = clientIn \o SubSeq(s2c, 1, n)
                               /\ s2c' = SubSeq(s2c, n + 1, Len(s2c))
  BY DEF ClientRead
<1>2. clientIn' \in Seq(Bytes) /\ s2c' \in Seq(Bytes) /\ clientIn' \o s2c' = clientIn \o s2c
  BY <1>1, FInvTypes, ReadKeepsStream
<1>3. UNCHANGED <<sent, c2s, serverIn, served, answers, open>>
  BY DEF ClientRead
<1>4. open /\ Streams'
  BY <1>2, <1>3, FInvTypes DEF ClientRead, Streams
<1>5. TypeOK'
  BY <1>2, <1>3 DEF FInv, TypeOK
<1>6. QED
  BY <1>3, <1>4, <1>5 DEF FInv

\* What the server decodes is the next message of the link, and its reply goes under way.
LEMMA ServerDecodeStep ==
  ASSUME FInv, ServerDecode
  PROVE  FInv' /\ Link!Serve
<1> DEFINE k == Len(served)
           f == Encode(Replies[k + 1])
<1>1. /\ k < sent /\ Content(serverIn) = Requests[k + 1] /\ Rest(serverIn) \in Seq(Bytes)
      /\ Carries(Rest(serverIn) \o c2s, Requests, k + 1, sent)
  BY FInvTypes, BothEncodable, CarriesFirst DEF ServerDecode, Streams
<1>2. k \in Nat /\ k + 1 \in 1..Len(Requests) /\ k + 1 <= Len(Replies)
  BY <1>1, FInvTypes, BothEncodable
<1>3. Replies[k + 1] = ReplyTo(k + 1) /\ ReplyTo(k + 1) \in Seq(Bytes)
      /\ Len(ReplyTo(k + 1)) <= MaxInt
  BY <1>2, BothEncodable, ReplyAssumption
<1>4. f \in Seq(Bytes)
  BY <1>3, EncodeShape
<1>5. /\ clientIn \o s2c \in Seq(Bytes) /\ s2c \o f \in Seq(Bytes)
      /\ clientIn \o (s2c \o f) = (clientIn \o s2c) \o f
  <2> HIDE DEF f
  <2>1. QED
    BY <1>4, FInvTypes, WriteLengthensStream, SMTT(30)
<1>6. Carries((clientIn \o s2c) \o f, Replies, Len(answers), k + 1)
  BY <1>2, <1>5, FInvTypes, BothEncodable, CarriesOneMore DEF ServerDecode, Streams
<1>7. Requests[k + 1] \in Seq(Bytes)
  BY <1>2, RequestAssumption
<1>8. served' = Append(served, Requests[k + 1]) /\ s2c' = s2c \o f
  BY <1>1, <1>3 DEF ServerDecode
<1>9. served' \in Seq(Seq(Bytes)) /\ Len(served') = k + 1
  BY <1>7, <1>8, FInvTypes, AppendProperties
<1>10. /\ serverIn' = Rest(serverIn) /\ UNCHANGED <<sent, c2s, clientIn, answers, open>>
       /\ open
  BY DEF ServerDecode
<1> HIDE DEF f
<1>11. Streams'
  BY <1>1, <1>5, <1>6, <1>8, <1>9, <1>10 DEF Streams
<1>12. TypeOK'
  BY <1>1, <1>5, <1>8, <1>9, <1>10 DEF FInv, TypeOK
<1>13. Len(served') <= sent' /\ Len(answers') <= Len(served')
  BY <1>1, <1>2, <1>9, <1>10, FInvTypes
<1>14. Link!Serve
  BY <1>1, <1>8, <1>10 DEF Link!Serve
<1>15. QED
  BY <1>11, <1>12, <1>13, <1>14 DEF FInv

\* What the client decodes is the reply to the next message.
LEMMA ClientDecodeStep ==
  ASSUME FInv, ClientDecode
  PROVE  FInv' /\ Link!Answer
<1> DEFINE k == Len(answers)
<1>1. /\ k < Len(served) /\ Content(clientIn) = Replies[k + 1] /\ Rest(clientIn) \in Seq(Bytes)
      /\ Carries(Rest(clientIn) \o s2c, Replies, k + 1, Len(served))
  <2>1. Len(served) <= Len(Replies)
    BY FInvTypes, BothEncodable
  <2>2. QED
    BY <2>1, FInvTypes, BothEncodable, CarriesFirst DEF ClientDecode, Streams
<1>2. k \in Nat /\ k + 1 \in 1..Len(Requests)
  BY <1>1, FInvTypes, BothEncodable
<1>3. Replies[k + 1] = ReplyTo(k + 1) /\ ReplyTo(k + 1) \in Seq(Bytes)
  BY <1>2, BothEncodable, ReplyAssumption
<1>4. answers' = Append(answers, ReplyTo(k + 1))
  BY <1>1, <1>3 DEF ClientDecode
<1>5. answers' \in Seq(Seq(Bytes)) /\ Len(answers') = k + 1
  BY <1>3, <1>4, FInvTypes, AppendProperties
<1>6. /\ clientIn' = Rest(clientIn) /\ UNCHANGED <<sent, c2s, s2c, serverIn, served, open>>
      /\ open
  BY DEF ClientDecode
<1>7. Streams'
  BY <1>1, <1>5, <1>6, FInvTypes DEF Streams
<1>8. TypeOK'
  BY <1>1, <1>5, <1>6 DEF FInv, TypeOK
<1>9. Len(served') <= sent' /\ Len(answers') <= Len(served')
  BY <1>1, <1>2, <1>5, <1>6, FInvTypes
<1>10. Link!Answer
  BY <1>1, <1>4, <1>6 DEF Link!Answer
<1>11. QED
  BY <1>7, <1>8, <1>9, <1>10 DEF FInv

\* A lost connection leaves nothing under way.
LEMMA CloseStep ==
  ASSUME FInv, Close
  PROVE  FInv' /\ Link!Break
<1>1. open' = FALSE /\ UNCHANGED <<sent, served, answers>>
  BY DEF Close
<1>2. <<>> \in Seq(Bytes) /\ FALSE \in BOOLEAN
  OBVIOUS
<1>3. TypeOK /\ Len(served) <= sent /\ Len(answers) <= Len(served)
  BY DEF FInv
<1>4. TypeOK'
  BY <1>1, <1>2, <1>3 DEF TypeOK, Close
<1>5. QED
  BY <1>1, <1>3, <1>4 DEF FInv, Link!Break

\* Every step keeps the invariant and is a step of the link, or leaves the link as it is.
LEMMA StepOK ==
  ASSUME FInv, [Next]_vars
  PROVE  FInv' /\ [Link!Next]_(Link!mlvars)
<1>1. CASE ClientSend
  BY <1>1, SendStep DEF Link!Next
<1>2. CASE ServerRead
  BY <1>2, ServerReadStep DEF Link!mlvars
<1>3. CASE ServerDecode
  BY <1>3, ServerDecodeStep DEF Link!Next
<1>4. CASE ClientRead
  BY <1>4, ClientReadStep DEF Link!mlvars
<1>5. CASE ClientDecode
  BY <1>5, ClientDecodeStep DEF Link!Next
<1>6. CASE Close
  BY <1>6, CloseStep DEF Link!Next
<1>7. CASE UNCHANGED vars
  BY <1>7 DEF vars, FInv, TypeOK, Streams, Link!mlvars
<1>8. QED
  BY <1>1, <1>2, <1>3, <1>4, <1>5, <1>6, <1>7 DEF Next, Progress

------------------------------------------------------------------------------
(* The bytes of the messages between two *)

\* FrameEnd is what its recursion says.
LEMMA FrameEndRecursion ==
  /\ FrameEnd \in [0..Len(Requests) -> Nat] /\ FrameEnd[0] = 0
  /\ \A k \in 1..Len(Requests) : FrameEnd[k] = FrameEnd[k - 1] + (4 + Len(Requests[k]))
<1> DEFINE n == Len(Requests)
           size == [k \in 1..n |-> Len(Encode(Requests[k]))]
           g == [p \in (1..n) \X Nat |-> p[2] + size[p[1]]]
<1>1. n \in Nat /\ \A k \in 1..n : Requests[k] \in Seq(Bytes) /\ Len(Requests[k]) <= MaxInt
  BY RequestAssumption
<1>2. \A k \in 1..n : Len(Encode(Requests[k])) = 4 + Len(Requests[k])
                      /\ 4 + Len(Requests[k]) \in Nat
  <2>1. ASSUME NEW k \in 1..n
        PROVE  Len(Encode(Requests[k])) = 4 + Len(Requests[k]) /\ Len(Requests[k]) \in Nat
    BY <1>1, EncodeShape
  <2>2. QED
    BY <2>1
<1>3. \A k \in 1..n : size[k] = Len(Encode(Requests[k])) /\ size[k] = 4 + Len(Requests[k])
                      /\ size[k] \in Nat
  BY <1>2
<1> HIDE DEF size
<1>4. g \in [(1..n) \X Nat -> Nat]
  BY <1>3
<1>5. PICK f \in [0..n -> Nat] : f[0] = 0 /\ \A k \in 1..n : f[k] = g[<<k, f[k - 1]>>]
  <2> DEFINE S == Nat
             c == 0
  <2>1. c \in S /\ n \in Nat /\ g \in [(1..n) \X S -> S]
    BY <1>1, <1>4
  <2> HIDE DEF g, n, S, c
  <2>2. \E f : Solves(f, n, S, c, g)
    BY <2>1, Recursion
  <2>3. QED
    BY <2>2 DEF S, c, Solves
<1>6. \A k \in 1..n : k - 1 \in 0..n /\ f[k] = f[k - 1] + size[k]
  <2>1. \A k \in 1..n : k - 1 \in 0..n
    BY <1>1
  <2>2. \A k \in 1..n : f[k - 1] \in Nat
    BY <2>1
  <2>3. \A k \in 1..n : g[<<k, f[k - 1]>>] = f[k - 1] + size[k]
    BY <2>2
  <2>4. QED
    BY <1>5, <2>1, <2>3
<1>7. f = [k \in 0..n |-> IF k = 0 THEN 0 ELSE f[k - 1] + Len(Encode(Requests[k]))]
  <2>1. ASSUME NEW k \in 0..n
        PROVE  f[k] = IF k = 0 THEN 0 ELSE f[k - 1] + Len(Encode(Requests[k]))
    <3>1. CASE k = 0
      BY <1>5, <3>1
    <3>2. CASE k # 0
      <4>1. k \in 1..n
        BY <1>1, <3>2
      <4>2. QED
        BY <1>3, <1>6, <3>2, <4>1
    <3>3. QED
      BY <3>1, <3>2
  <2>2. QED
    BY <2>1
<1>8. FrameEnd = [k \in 0..n |->
                    IF k = 0 THEN 0 ELSE FrameEnd[k - 1] + Len(Encode(Requests[k]))]
  BY <1>7, Zenon DEF FrameEnd
<1>9. \A k \in 1..n : FrameEnd[k] = FrameEnd[k - 1] + size[k]
  <2>1. \A k \in 1..n : k \in 0..n /\ k # 0
    BY <1>1
  <2>2. QED
    BY <1>3, <1>8, <2>1
<1>10. FrameEnd[0] = 0 /\ DOMAIN FrameEnd = 0..n /\ 0 \in 0..n
  BY <1>1, <1>8
<1>11. \A k \in 0..n : FrameEnd[k] \in Nat
  <2> DEFINE P == {k \in 0..n : FrameEnd[k] \in Nat}
  <2>1. \A k \in (0 + 1)..n : k - 1 \in P => k \in P
    BY <1>1, <1>3, <1>9
  <2>2. 0 \in P /\ P \in SUBSET (0..n) /\ 0 <= n
    BY <1>1, <1>10
  <2> HIDE DEF P
  <2>3. P = 0..n
    BY <1>1, <2>1, <2>2, AllPlaces
  <2>4. QED
    BY <2>3 DEF P
<1>12. QED
  BY <1>3, <1>8, <1>9, <1>10, <1>11

\* A stream of frames is as long as its messages' frames together.
LEMMA CarriesLength ==
  ASSUME NEW s \in Seq(Bytes), NEW a \in Nat, NEW b \in Nat, a <= b, b <= Len(Requests),
         Carries(s, Requests, a, b)
  PROVE  FrameEnd[a] + Len(s) = FrameEnd[b]
<1>1. PICK cut \in [a..b -> 0..Len(s)] : Cuts(cut, s, Requests, a, b)
  BY DEF Carries
<1>2. Len(Requests) \in Nat /\ \A k \in 0..Len(Requests) : FrameEnd[k] \in Nat
  BY BothEncodable, FrameEndRecursion
<1>3. \A k \in (a + 1)..b : /\ k \in 1..Len(Requests) /\ k - 1 \in a..b /\ k \in a..b
                            /\ cut[k] \in Nat /\ cut[k - 1] \in Nat
                            /\ Len(Requests[k]) \in Nat
  BY <1>2, RequestAssumption
<1> DEFINE P == {k \in a..b : FrameEnd[a] + cut[k] = FrameEnd[k]}
<1>4. a \in P
  BY <1>1, <1>2 DEF Cuts
<1>5. ASSUME NEW k \in (a + 1)..b, k - 1 \in P
      PROVE  k \in P
  <2>1. cut[k] = cut[k - 1] + (4 + Len(Requests[k]))
    BY <1>1 DEF Cuts
  <2>2. FrameEnd[k] = FrameEnd[k - 1] + (4 + Len(Requests[k]))
    BY <1>3, FrameEndRecursion
  <2>3. FrameEnd[a] + cut[k - 1] = FrameEnd[k - 1] /\ FrameEnd[a] \in Nat
    BY <1>2, <1>5
  <2>4. QED
    BY <1>3, <2>1, <2>2, <2>3
<1>6. P \in SUBSET (a..b)
  OBVIOUS
<1> HIDE DEF P
<1>7. P = a..b
  BY <1>4, <1>5, <1>6, AllPlaces
<1>8. b \in P
  BY <1>7
<1>9. QED
  BY <1>1, <1>8 DEF P, Cuts

------------------------------------------------------------------------------
(* Theorems *)

\* What is under way in each direction is whole frames of the messages not yet received, wherever
\* the pieces the decoders were given begin and end.
THEOREM StreamsAreFrames == Spec => []FInv
<1>1. Init => FInv
  BY FInvInit
<1>2. FInv /\ [Next]_vars => FInv'
  BY StepOK
<1>3. QED
  BY <1>1, <1>2, PTL DEF Spec

\* The streams and buffers hold bytes, the handlers' messages are byte sequences.
THEOREM TypeCorrect == Spec => []TypeOK
<1>1. FInv => TypeOK
  BY DEF FInv
<1>2. QED
  BY <1>1, StreamsAreFrames, PTL

\* Encoder, stream and decoder implement the message link: MyServerHandler.channelRead0 gets the
\* client's messages whole, in order and once, and the client one reply to each.
THEOREM ImplementsLink == Spec => LinkSpec
<1>1. Init => Link!Init
  BY DEF Init, Link!Init
<1>2. FInv /\ [Next]_vars => [Link!Next]_(Link!mlvars)
  BY StepOK
<1>3. QED
  BY <1>1, <1>2, StreamsAreFrames, PTL DEF Spec, LinkSpec, Link!Spec

\* The bytes between the server's handler and the client's are those of whole messages: as many
\* as the frames of the messages sent and not yet served.
THEOREM StaysInStep == Spec => []InStep
<1>1. FInv => InStep
  <2>1. SUFFICES ASSUME FInv, open
                 PROVE  FrameEnd[Len(served)] + Len(serverIn) + Len(c2s) = FrameEnd[sent]
    BY DEF InStep
  <2> DEFINE s == serverIn \o c2s
  <2>2. s \in Seq(Bytes) /\ Len(s) = Len(serverIn) + Len(c2s)
        /\ Len(serverIn) \in Nat /\ Len(c2s) \in Nat
    BY <2>1, FInvTypes, JoinBytes, Zenon
  <2>3. Carries(s, Requests, Len(served), sent)
    BY <2>1, FInvTypes DEF Streams
  <2> HIDE DEF s
  <2>4. FrameEnd[Len(served)] + Len(s) = FrameEnd[sent]
    BY <2>1, <2>2, <2>3, FInvTypes, CarriesLength
  <2>5. FrameEnd[Len(served)] \in Nat
    BY <2>1, FInvTypes, BothEncodable, FrameEndRecursion
  <2>6. QED
    BY <2>2, <2>4, <2>5
<1>2. QED
  BY <1>1, StreamsAreFrames, PTL

\* Somebody can go on: a message to send, a whole one to decode, or bytes to read for an event loop
\* that is ready to read.
MayGoOn ==
  \/ sent < Len(Requests)
  \/ Complete(serverIn) \/ Complete(clientIn)
  \/ c2s # <<>>
  \/ sent = Len(Requests) /\ s2c # <<>>

\* Client and server never wait for each other: while the connection stands and a reply is missing,
\* no decoder holds the last bytes of a message and asks for more, and nobody is out of step (the
\* part of AllAnswered that needs no fairness).
NeverStuck == open /\ Len(answers) < Len(Requests) => MayGoOn

\* MyMessageDecoder and the two handlers go on until every message has its reply, wherever the
\* stream is cut and whatever the messages are, the empty one included.
THEOREM NobodyWaits == Spec => []NeverStuck
<1>1. FInv => NeverStuck
  <2>1. SUFFICES ASSUME FInv, open, Len(answers) < Len(Requests), ~MayGoOn
                 PROVE  FALSE
    BY DEF NeverStuck
  <2>2. /\ sent = Len(Requests) /\ c2s = <<>> /\ s2c = <<>>
        /\ ~Complete(serverIn) /\ ~Complete(clientIn)
    BY <2>1, FInvTypes, BothEncodable DEF MayGoOn
  <2>3. ~(Len(served) < sent)
    <3>1. Carries(serverIn \o <<>>, Requests, Len(served), sent)
      BY <2>1, <2>2, FInvTypes DEF Streams
    <3>2. QED
      BY <2>1, <2>2, <3>1, FInvTypes, BothEncodable, CarriesWhole
  <2>4. Len(served) = Len(Requests) /\ Len(answers) < Len(served)
    BY <2>1, <2>2, <2>3, FInvTypes, BothEncodable
  <2>5. Carries(clientIn \o <<>>, Replies, Len(answers), Len(served))
    BY <2>1, <2>2, FInvTypes DEF Streams
  <2>6. QED
    BY <2>1, <2>2, <2>4, <2>5, FInvTypes, BothEncodable, CarriesWhole
<1>2. QED
  BY <1>1, StreamsAreFrames, PTL

\* Both handlers have been called with what the other side wrote and nothing else: with the first
\* messages and the first replies, in order.
AsSent ==
  /\ Len(answers) <= Len(served) /\ Len(served) <= sent
  /\ \A n \in 1..Len(served) : served[n] = Requests[n]
  /\ \A n \in 1..Len(answers) : answers[n] = ReplyTo(n)

\* A further message at the end.
LEMMA OneMore ==
  ASSUME NEW S, NEW q \in Seq(S), NEW e \in S
  PROVE  /\ Len(Append(q, e)) = Len(q) + 1
         /\ \A n \in 1..Len(Append(q, e)) :
              Append(q, e)[n] = IF n = Len(q) + 1 THEN e ELSE q[n]
         /\ \A n \in 1..Len(Append(q, e)) : n # Len(q) + 1 => n \in 1..Len(q)
OBVIOUS

\* A step of the link keeps it.
LEMMA AsSentStep ==
  ASSUME FInv, FInv', AsSent, [Link!Next]_(Link!mlvars)
  PROVE  AsSent'
<1>1. /\ served \in Seq(Seq(Bytes)) /\ answers \in Seq(Seq(Bytes))
      /\ Len(served) \in Nat /\ Len(answers) \in Nat
  BY FInvTypes
<1>2. (Len(answers) <= Len(served) /\ Len(served) <= sent)'
  BY DEF FInv
<1>3. CASE served' = served /\ answers' = answers
  BY <1>2, <1>3 DEF AsSent
<1>4. CASE Link!Serve
  <2>1. served' = Append(served, Requests[Len(served) + 1]) /\ answers' = answers
    BY <1>4 DEF Link!Serve
  <2>2. Len(served) < sent /\ Requests[Len(served) + 1] \in Seq(Bytes)
    <3>1. Len(served) < sent
      BY <1>4 DEF Link!Serve
    <3>2. Len(served) + 1 \in 1..Len(Requests)
      BY <1>1, <3>1, FInvTypes, BothEncodable
    <3>3. QED
      BY <3>1, <3>2, BothEncodable DEF Encodable
  <2>3. \A n \in 1..Len(served') : served'[n] = Requests[n]
    <3>1. \A n \in 1..Len(served') :
            /\ served'[n] = IF n = Len(served) + 1 THEN Requests[Len(served) + 1] ELSE served[n]
            /\ n # Len(served) + 1 => n \in 1..Len(served)
      BY <1>1, <2>1, <2>2, OneMore
    <3>2. QED
      BY <3>1 DEF AsSent
  <2>4. QED
    BY <1>2, <2>1, <2>3 DEF AsSent
<1>5. CASE Link!Answer
  <2>1. answers' = Append(answers, ReplyTo(Len(answers) + 1)) /\ served' = served
    BY <1>5 DEF Link!Answer
  <2>2. \A n \in 1..Len(answers') : answers'[n] = ReplyTo(n)
    <3>1. Len(answers) + 1 \in 1..Len(Requests)
      <4>1. Len(answers) < Len(served)
        BY <1>5 DEF Link!Answer
      <4>2. QED
        BY <1>1, <4>1, FInvTypes, BothEncodable
    <3>2. ReplyTo(Len(answers) + 1) \in Seq(Bytes)
      BY <3>1, ReplyAssumption
    <3>3. \A n \in 1..Len(answers') :
            /\ answers'[n] = IF n = Len(answers) + 1 THEN ReplyTo(Len(answers) + 1) ELSE answers[n]
            /\ n # Len(answers) + 1 => n \in 1..Len(answers)
      BY <1>1, <2>1, <3>2, OneMore
    <3>4. QED
      BY <3>3 DEF AsSent
  <2>3. QED
    BY <1>2, <2>1, <2>2 DEF AsSent
<1>6. QED
  BY <1>3, <1>4, <1>5 DEF Link!Next, Link!Send, Link!Break, Link!mlvars

\* What MyServerHandler and MyClientHandler get is what was sent, byte for byte, never a part of a
\* message or two in one, however often the connection hands over less than a whole one, and also
\* when it breaks.
THEOREM ReceivedAsSent == Spec => []AsSent
<1>1. Init => AsSent
  BY DEF Init, AsSent
<1>2. FInv /\ FInv' /\ AsSent /\ [Next]_vars => AsSent'
  BY StepOK, AsSentStep
<1>3. QED
  BY <1>1, <1>2, StreamsAreFrames, PTL DEF Spec
================================================================================
