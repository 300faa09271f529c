-------------------------- MODULE RspFraming_proofs --------------------------
(***************************************************************************)
(* Safety of the framing, for all bodies, chunks and windows and wherever  *)
(* the streams are cut.                                                    *)
(***************************************************************************)
EXTENDS RspFraming, Subsequences_proofs, SequenceTheorems, WellFoundedInduction

(* Induction over the natural numbers, for a set in place of a predicate.  *)

LessThan == { p \in Nat \X Nat : p[1] < p[2] }

LEMMA SetInduction ==
  ASSUME NEW T, 0 \in T, \A n \in Nat : n \in T => n + 1 \in T
  PROVE  \A n \in Nat : n \in T
<1> SUFFICES ASSUME Nat \ T # {}
             PROVE  FALSE
  OBVIOUS
<1> DEFINE U == Nat \ T
<1>1. U \subseteq Nat /\ U # {}
  OBVIOUS
<1>2. IsWellFoundedOn(LessThan, Nat)
  BY NatLessThanWellFounded DEF OpToRel, LessThan
<1>3. \E x \in U : \A y \in U : ~(<<y, x>> \in LessThan)
  <2> HIDE DEF U
  <2> QED
    BY <1>1, <1>2, WFMin
<1>4. PICK x \in U : \A y \in U : ~(<<y, x>> \in LessThan)
  BY <1>3
<1>5. x \in Nat /\ x # 0
  OBVIOUS
<1>6. x - 1 \in U
  <2>1. x - 1 \in Nat /\ (x - 1) + 1 = x
    BY <1>5
  <2> QED
    BY <2>1
<1>7. <<x - 1, x>> \in LessThan
  BY <1>5, <1>6 DEF LessThan
<1> QED
  BY <1>4, <1>6, <1>7

(* A recursion over 0 .. N: f[0] is the base and each next value comes     *)
(* from its number and the value before.                                   *)
Solves(f, V, base, N, g) ==
  /\ f \in [0 .. N -> V]
  /\ f[0] = base
  /\ \A n \in 1 .. N : f[n] = g[<<n, f[n - 1]>>]

LEMMA Recursion ==
  ASSUME NEW V, NEW base \in V, NEW N \in Nat, NEW g \in [(1 .. N) \X V -> V]
  PROVE  \E f : Solves(f, V, base, N, g)
<1> USE DEF Solves
<1> DEFINE To(n, f) == Solves(f, V, base, n, g)
           T == { n \in Nat : n <= N => \E f : To(n, f) }
<1>1. 0 \in T
  <2>1. To(0, [i \in 0 .. 0 |-> base])
    OBVIOUS
  <2> QED
    BY <2>1
<1>2. ASSUME NEW n \in Nat, n \in T
      PROVE  n + 1 \in T
  <2> SUFFICES ASSUME n + 1 <= N
               PROVE  \E f : To(n + 1, f)
    OBVIOUS
  <2>1. PICK f : To(n, f)
    BY <1>2
  <2> DEFINE h == [i \in 0 .. n + 1 |-> IF i = n + 1 THEN g[<<n + 1, f[n]>>] ELSE f[i]]
  <2>2. g[<<n + 1, f[n]>>] \in V
    BY <2>1
  <2>3. h \in [0 .. n + 1 -> V] /\ h[0] = base
    BY <2>1, <2>2
  <2>4. ASSUME NEW i \in 1 .. n + 1
        PROVE  h[i] = g[<<i, h[i - 1]>>]
    <3>1. h[i - 1] = f[i - 1]
      OBVIOUS
    <3>2. CASE i = n + 1
      <4>1. h[i] = g[<<n + 1, f[n]>>] /\ i - 1 = n
        BY <3>2
      <4> QED
        BY <3>1, <3>2, <4>1
    <3>3. CASE i # n + 1
      <4>1. i \in 1 .. n /\ h[i] = f[i]
        BY <3>3
      <4> QED
        BY <2>1, <3>1, <4>1
    <3> QED
      BY <3>2, <3>3
  <2> HIDE DEF h
  <2>5. To(n + 1, h)
    BY <2>3, <2>4
  <2> QED
    BY <2>5
<1>3. N \in T
  <2> HIDE DEF T
  <2> QED
    BY <1>1, <1>2, SetInduction
<1>4. PICK f : To(N, f)
  BY <1>3
<1> QED
  BY <1>4

-----------------------------------------------------------------------------
(* Checksums and packets.                                                  *)

Byte == 0 .. 255

LEMMA Mod256 ==
  ASSUME NEW k \in Nat, NEW l \in Nat
  PROVE  (k + l) % 256 \in Byte
<1>1. k + l \in Nat
  OBVIOUS
<1> QED
  BY <1>1 DEF Byte

LEMMA SumsType ==
  ASSUME NEW body \in Seq(Char)
  PROVE  \A n \in 0 .. Len(body) : Sums(body)[n] \in Byte
<1> DEFINE N == Len(body)
           Is(f) == f = [n \in 0 .. N |-> IF n = 0 THEN 0 ELSE (f[n - 1] + body[n]) % 256]
           g == [p \in (1 .. N) \X Byte |-> (p[2] + body[p[1]]) % 256]
<1>1. N \in Nat /\ \A n \in 1 .. N : body[n] \in Nat
  <2>1. Char \subseteq Nat
    BY DEF Char
  <2>2. N \in Nat /\ \A n \in 1 .. N : body[n] \in Char
    OBVIOUS
  <2> HIDE DEF N
  <2> QED
    BY <2>1, <2>2
<1>2. Byte \subseteq Nat /\ 0 \in Byte
  BY DEF Byte
<1>3. \A s \in Byte, n \in 1 .. N : (s + body[n]) % 256 \in Byte
  BY <1>1, <1>2, Mod256
<1>4. /\ g \in [(1 .. N) \X Byte -> Byte]
      /\ \A n \in 1 .. N, s \in Byte : g[<<n, s>>] = (s + body[n]) % 256
  <2> HIDE DEF N
  <2>1. \A p \in (1 .. N) \X Byte : (p[2] + body[p[1]]) % 256 \in Byte
    BY <1>3
  <2>2. \A n \in 1 .. N, s \in Byte : <<n, s>> \in (1 .. N) \X Byte
    OBVIOUS
  <2> QED
    BY <2>1, <2>2
<1>5. \E f : Is(f)
  <2>1. PICK f : Solves(f, Byte, 0, N, g)
    <3> HIDE DEF g, N, Is
    <3> QED
      BY <1>1, <1>2, <1>4, Recursion
  <2> HIDE DEF g, N
  <2>2. ASSUME NEW n \in 1 .. N
        PROVE  f[n] = (f[n - 1] + body[n]) % 256
    <3>1. n - 1 \in 0 .. N
      BY <1>1
    <3>2. f[n - 1] \in Byte /\ f[n] = g[<<n, f[n - 1]>>]
      BY <2>1, <3>1 DEF Solves
    <3> QED
      BY <1>4, <3>2
  <2>3. \A n \in 0 .. N : f[n] = IF n = 0 THEN 0 ELSE (f[n - 1] + body[n]) % 256
    <3> TAKE n \in 0 .. N
    <3>1. n = 0 \/ (n # 0 /\ n \in 1 .. N)
      BY <1>1
    <3> QED
      BY <2>1, <2>2, <3>1 DEF Solves
  <2>4. Is(f)
    <3>1. f = [n \in 0 .. N |-> f[n]]
      BY <2>1 DEF Solves
    <3>2. [n \in 0 .. N |-> f[n]] = [n \in 0 .. N |-> IF n = 0 THEN 0 ELSE (f[n - 1] + body[n]) % 256]
      BY <2>3
    <3> QED
      BY <3>1, <3>2
  <2> QED
    BY <2>4
<1>6. Is(Sums(body))
  <2>1. Sums(body) = CHOOSE f : Is(f)
    BY DEF Sums
  <2> HIDE DEF Is
  <2> QED
    BY <1>5, <2>1
<1>7. Sums(body)[0] = 0 /\ \A n \in 1 .. N : Sums(body)[n] = (Sums(body)[n - 1] + body[n]) % 256
  <2> HIDE DEF N
  <2>1. 0 \in 0 .. N /\ \A n \in 1 .. N : n \in 0 .. N /\ n # 0
    BY <1>1
  <2> QED
    BY <1>6, <2>1
<1> HIDE DEF Is, g
<1>8. \A n \in Nat : n <= N => Sums(body)[n] \in Byte
  <2> HIDE DEF N
  <2> DEFINE T == { n \in Nat : n <= N => Sums(body)[n] \in Byte }
  <2>1. 0 \in T
    BY <1>2, <1>7
  <2>2. ASSUME NEW n \in Nat, n \in T
        PROVE  n + 1 \in T
    <3> SUFFICES ASSUME n + 1 <= N
                 PROVE  Sums(body)[n + 1] \in Byte
      OBVIOUS
    <3>1. n <= N /\ n + 1 \in 1 .. N /\ (n + 1) - 1 = n
      BY <1>1
    <3>2. Sums(body)[n] \in Byte
      BY <2>2, <3>1
    <3>3. Sums(body)[n + 1] = (Sums(body)[n] + body[n + 1]) % 256
      BY <1>7, <3>1
    <3> QED
      BY <1>3, <3>1, <3>2, <3>3
  <2> HIDE DEF T
  <2>3. \A n \in Nat : n \in T
    BY <2>1, <2>2, SetInduction
  <2> QED
    BY <2>3 DEF T
<1> QED
  BY <1>1, <1>8

LEMMA DigitsType ==
  ASSUME NEW n \in Byte
  PROVE  Digits(n) \in Seq(Alphanumeric) /\ Len(Digits(n)) = 2
<1>1. n \div 16 \in 0 .. 15 /\ n % 16 \in 0 .. 15
  BY DEF Byte
<1>2. \A d \in 0 .. 15 : HexDigit(d) \in Alphanumeric
  BY DEF HexDigit, Alphanumeric
<1> QED
  BY <1>1, <1>2 DEF Digits

Plain == Char \ {Dollar, Hash}

LEMMA BodyType ==
  ASSUME NEW body \in Bodies
  PROVE  /\ body \in Seq(Plain) /\ body \in Seq(Char) /\ Len(body) \in Nat
         /\ \A i \in 1 .. Len(body) : body[i] \in Plain
<1>1. body \in Seq(Plain)
  BY FramingAssumption DEF Plain
<1>2. Plain \subseteq Char
  BY DEF Plain
<1> QED
  BY <1>1, <1>2, SeqMonotonic

(* What a packet looks like: a dollar, the body, a hash, and two digits,   *)
(* none of them a dollar, a hash or a plus but for a plus in the body.     *)
LEMMA PacketShape ==
  ASSUME NEW body \in Bodies
  PROVE  /\ Packet(body) \in Seq(Char)
         /\ Len(Packet(body)) = Len(body) + 4
         /\ Packet(body)[1] = Dollar
         /\ \A i \in 1 .. Len(body) : Packet(body)[i + 1] = body[i]
         /\ Packet(body)[Len(body) + 2] = Hash
         /\ Packet(body)[Len(body) + 3] = Digits(Checksum(body))[1]
         /\ Packet(body)[Len(body) + 4] = Digits(Checksum(body))[2]
         /\ \A i \in 2 .. Len(body) + 4 : Packet(body)[i] # Dollar
         /\ \A i \in 2 .. Len(body) + 1 : Packet(body)[i] # Hash
         /\ {Packet(body)[Len(body) + 3], Packet(body)[Len(body) + 4]} \subseteq Alphanumeric
<1> DEFINE D == Digits(Checksum(body))
           n == Len(body)
<1>1. body \in Seq(Char) /\ n \in Nat /\ \A i \in 1 .. n : body[i] \in Plain
  BY BodyType
<1>2. D \in Seq(Alphanumeric) /\ Len(D) = 2
  BY <1>1, SumsType, DigitsType DEF Checksum
<1>3. Alphanumeric \subseteq Char /\ Dollar \notin Alphanumeric /\ Dollar # Hash
      /\ Dollar \in Char /\ Hash \in Char
  BY DEF Alphanumeric, Char, Dollar, Hash
<1>4. D \in Seq(Char) /\ D[1] \in Alphanumeric /\ D[2] \in Alphanumeric
  BY <1>2, <1>3, SeqMonotonic
<1> HIDE DEF D
<1> DEFINE a == <<Dollar>> \o body
           b == a \o <<Hash>>
<1>5. <<Dollar>> \in Seq(Char) /\ <<Hash>> \in Seq(Char) /\ Len(<<Dollar>>) = 1 /\ Len(<<Hash>>) = 1
      /\ <<Dollar>>[1] = Dollar /\ <<Hash>>[1] = Hash
  BY <1>3
<1>6. a \in Seq(Char) /\ Len(a) = n + 1 /\ a[1] = Dollar
      /\ \A i \in 1 .. n : a[i + 1] = body[i]
  BY <1>1, <1>5, ConcatProperties
<1> HIDE DEF a
<1>7. b \in Seq(Char) /\ Len(b) = n + 2 /\ b[n + 2] = Hash
      /\ \A i \in 1 .. n + 1 : b[i] = a[i]
  BY <1>1, <1>5, <1>6, ConcatProperties
<1> HIDE DEF b
<1> DEFINE p == b \o D
<1>8. p \in Seq(Char) /\ Len(p) = n + 4 /\ p[n + 3] = D[1] /\ p[n + 4] = D[2]
      /\ \A i \in 1 .. n + 2 : p[i] = b[i]
  <2>1. p \in Seq(Char) /\ Len(p) = Len(b) + Len(D)
        /\ \A i \in 1 .. Len(b) + Len(D) : p[i] = IF i <= Len(b) THEN b[i] ELSE D[i - Len(b)]
    BY <1>4, <1>7, ConcatProperties
  <2>2. p \in Seq(Char) /\ Len(p) = n + 4
        /\ \A i \in 1 .. n + 4 : p[i] = IF i <= n + 2 THEN b[i] ELSE D[i - (n + 2)]
    BY <1>1, <1>2, <1>7, <2>1
  <2> HIDE DEF p
  <2>3. (n + 3) - (n + 2) = 1 /\ (n + 4) - (n + 2) = 2 /\ n + 3 \in 1 .. n + 4 /\ n + 4 \in 1 .. n + 4
        /\ ~(n + 3 <= n + 2) /\ ~(n + 4 <= n + 2)
    BY <1>1
  <2>4. \A i \in 1 .. n + 2 : i \in 1 .. n + 4 /\ i <= n + 2
    BY <1>1
  <2> QED
    BY <2>2, <2>3, <2>4
<1>9. Packet(body) = p
  BY DEF Packet, p, b, a, D
<1> HIDE DEF p
<1>10. p[1] = Dollar /\ p[n + 2] = Hash /\ \A i \in 1 .. n : p[i + 1] = body[i]
  <2>1. 1 \in 1 .. n + 1 /\ 1 \in 1 .. n + 2 /\ n + 2 \in 1 .. n + 2
    BY <1>1
  <2>2. \A i \in 1 .. n : i + 1 \in 1 .. n + 1 /\ i + 1 \in 1 .. n + 2
    BY <1>1
  <2> QED
    BY <1>6, <1>7, <1>8, <2>1, <2>2
<1>11. \A i \in 2 .. n + 1 : p[i] \in Plain
  <2> TAKE i \in 2 .. n + 1
  <2>1. i - 1 \in 1 .. n /\ (i - 1) + 1 = i
    BY <1>1
  <2> QED
    BY <1>1, <1>10, <2>1
<1>12. \A i \in 2 .. n + 4 : p[i] # Dollar
  <2> TAKE i \in 2 .. n + 4
  <2>1. i \in 2 .. n + 1 \/ i = n + 2 \/ i = n + 3 \/ i = n + 4
    BY <1>1
  <2> QED
    BY <1>3, <1>4, <1>8, <1>10, <1>11, <2>1 DEF Plain
<1>13. \A i \in 2 .. n + 1 : p[i] # Hash
  BY <1>11 DEF Plain
<1> QED
  BY <1>4, <1>8, <1>9, <1>10, <1>12, <1>13 DEF D

-----------------------------------------------------------------------------
(* The bytes of several packets.                                           *)

LEMMA Regroup ==
  ASSUME NEW x \in Seq(Char), NEW y \in Seq(Char), NEW z \in Seq(Char)
  PROVE  (x \o y) \o z = x \o (y \o z)
BY ConcatAssociative

LEMMA StreamsStep ==
  ASSUME NEW s \in Seq(Bodies)
  PROVE  /\ Streams(s)[0] = <<>>
         /\ \A n \in 1 .. Len(s) : Streams(s)[n] = Streams(s)[n - 1] \o Packet(s[n])
         /\ \A n \in 0 .. Len(s) : Streams(s)[n] \in Seq(Char)
<1> DEFINE N == Len(s)
           V == Seq(Char)
           Is(f) == f = [n \in 0 .. N |-> IF n = 0 THEN <<>> ELSE f[n - 1] \o Packet(s[n])]
           g == [p \in (1 .. N) \X V |-> p[2] \o Packet(s[p[1]])]
<1>1. N \in Nat /\ \A n \in 1 .. N : Packet(s[n]) \in V
  <2>1. N \in Nat /\ \A n \in 1 .. N : s[n] \in Bodies
    OBVIOUS
  <2> HIDE DEF N
  <2> QED
    BY <2>1, PacketShape
<1>2. <<>> \in V
  OBVIOUS
<1>3. \A v \in V, n \in 1 .. N : v \o Packet(s[n]) \in V
  BY <1>1, ConcatProperties
<1>4. /\ g \in [(1 .. N) \X V -> V]
      /\ \A n \in 1 .. N, v \in V : g[<<n, v>>] = v \o Packet(s[n])
  <2> HIDE DEF N, V
  <2>1. \A p \in (1 .. N) \X V : p[2] \o Packet(s[p[1]]) \in V
    BY <1>3
  <2>2. \A n \in 1 .. N, v \in V : <<n, v>> \in (1 .. N) \X V
    OBVIOUS
  <2> QED
    BY <2>1, <2>2
<1>5. \E f : Is(f)
  <2>1. PICK f : Solves(f, V, <<>>, N, g)
    <3> HIDE DEF g, N, V, Is
    <3> QED
      BY <1>1, <1>2, <1>4, Recursion
  <2> HIDE DEF g, N, V
  <2>2. ASSUME NEW n \in 1 .. N
        PROVE  f[n] = f[n - 1] \o Packet(s[n])
    <3>1. n - 1 \in 0 .. N
      BY <1>1
    <3> QED
      BY <1>4, <2>1, <3>1 DEF Solves
  <2>3. \A n \in 0 .. N : f[n] = IF n = 0 THEN <<>> ELSE f[n - 1] \o Packet(s[n])
    <3> TAKE n \in 0 .. N
    <3>1. n = 0 \/ (n # 0 /\ n \in 1 .. N)
      BY <1>1
    <3> QED
      BY <2>1, <2>2, <3>1 DEF Solves
  <2>4. Is(f)
    BY <2>1, <2>3 DEF Solves
  <2> QED
    BY <2>4
<1>6. Is(Streams(s))
  <2>1. Streams(s) = CHOOSE f : Is(f)
    BY DEF Streams
  <2> HIDE DEF Is
  <2> QED
    BY <1>5, <2>1
<1>7. Streams(s)[0] = <<>> /\ \A n \in 1 .. N : Streams(s)[n] = Streams(s)[n - 1] \o Packet(s[n])
  <2> HIDE DEF N
  <2>1. 0 \in 0 .. N /\ \A n \in 1 .. N : n \in 0 .. N /\ n # 0
    BY <1>1
  <2> QED
    BY <1>6, <2>1
<1> HIDE DEF Is, g, V
<1>8. \A n \in Nat : n <= N => Streams(s)[n] \in V
  <2> HIDE DEF N
  <2> DEFINE T == { n \in Nat : n <= N => Streams(s)[n] \in V }
  <2>1. 0 \in T
    BY <1>2, <1>7
  <2>2. ASSUME NEW n \in Nat, n \in T
        PROVE  n + 1 \in T
    <3> SUFFICES ASSUME n + 1 <= N
                 PROVE  Streams(s)[n + 1] \in V
      OBVIOUS
    <3>1. n <= N /\ n + 1 \in 1 .. N /\ (n + 1) - 1 = n
      BY <1>1
    <3>2. Streams(s)[n] \in V
      BY <2>2, <3>1
    <3>3. Streams(s)[n + 1] = Streams(s)[n] \o Packet(s[n + 1])
      BY <1>7, <3>1
    <3> QED
      BY <1>3, <3>1, <3>2, <3>3
  <2> HIDE DEF T
  <2>3. \A n \in Nat : n \in T
    BY <2>1, <2>2, SetInduction
  <2> QED
    BY <2>3 DEF T
<1>9. \A n \in 0 .. N : Streams(s)[n] \in V
  <2> HIDE DEF N
  <2> QED
    BY <1>1, <1>8
<1> QED
  BY <1>7, <1>9 DEF V

LEMMA StreamType ==
  ASSUME NEW s \in Seq(Bodies)
  PROVE  Stream(s) \in Seq(Char)
<1>1. Len(s) \in 0 .. Len(s)
  OBVIOUS
<1> QED
  BY <1>1, StreamsStep DEF Stream

LEMMA StreamEmpty ==
  Stream(<<>>) = <<>>
<1>1. <<>> \in Seq(Bodies) /\ Len(<<>>) = 0
  OBVIOUS
<1> QED
  BY <1>1, StreamsStep DEF Stream

(* The next packet comes behind the others ...                             *)
LEMMA StreamAppend ==
  ASSUME NEW s \in Seq(Bodies), NEW body \in Bodies
  PROVE  Stream(Append(s, body)) = Stream(s) \o Packet(body)
<1> DEFINE t == Append(s, body)
           N == Len(s)
           T == { n \in Nat : n <= N => Streams(t)[n] = Streams(s)[n] }
<1>1. t \in Seq(Bodies) /\ N \in Nat /\ Len(t) = N + 1 /\ t[N + 1] = body
      /\ \A n \in 1 .. N : t[n] = s[n]
  BY AppendProperties
<1>2. /\ Streams(t)[0] = <<>>
      /\ \A n \in 1 .. N + 1 : Streams(t)[n] = Streams(t)[n - 1] \o Packet(t[n])
  BY <1>1, StreamsStep
<1>3. /\ Streams(s)[0] = <<>>
      /\ \A n \in 1 .. N : Streams(s)[n] = Streams(s)[n - 1] \o Packet(s[n])
  BY StreamsStep
<1> HIDE DEF t, N
<1>4. 0 \in T
  BY <1>2, <1>3
<1>5. ASSUME NEW n \in Nat, n \in T
      PROVE  n + 1 \in T
  <2> SUFFICES ASSUME n + 1 <= N
               PROVE  Streams(t)[n + 1] = Streams(s)[n + 1]
    OBVIOUS
  <2>1. n <= N /\ n + 1 \in 1 .. N /\ n + 1 \in 1 .. N + 1 /\ (n + 1) - 1 = n
    BY <1>1
  <2>2. Streams(t)[n] = Streams(s)[n] /\ t[n + 1] = s[n + 1]
    BY <1>1, <1>5, <2>1
  <2>3. Streams(t)[n + 1] = Streams(t)[n] \o Packet(t[n + 1])
    BY <1>2, <2>1
  <2>4. Streams(s)[n + 1] = Streams(s)[n] \o Packet(s[n + 1])
    BY <1>3, <2>1
  <2> QED
    BY <2>2, <2>3, <2>4
<1>6. N \in T
  <2> HIDE DEF T
  <2> QED
    BY <1>1, <1>4, <1>5, SetInduction
<1>7. Streams(t)[N + 1] = Streams(s)[N] \o Packet(body)
  <2>1. N + 1 \in 1 .. N + 1 /\ (N + 1) - 1 = N /\ Streams(t)[N] = Streams(s)[N]
    BY <1>1, <1>6
  <2> QED
    BY <1>1, <1>2, <2>1
<1> QED
  BY <1>1, <1>7 DEF Stream, t, N

(* ... and the first comes off in front.                                   *)
LEMMA StreamHead ==
  ASSUME NEW s \in Seq(Bodies), s # <<>>
  PROVE  Stream(s) = Packet(Head(s)) \o Stream(Tail(s))
<1> DEFINE t == Tail(s)
           N == Len(t)
           p == Packet(s[1])
           T == { n \in Nat : n <= N => Streams(s)[n + 1] = p \o Streams(t)[n] }
<1>1. t \in Seq(Bodies) /\ N \in Nat /\ Len(s) = N + 1 /\ \A n \in 1 .. N : t[n] = s[n + 1]
  BY HeadTailProperties
<1>2. s[1] \in Bodies /\ Head(s) = s[1]
  OBVIOUS
<1>3. p \in Seq(Char)
  BY <1>2, PacketShape
<1>4. /\ Streams(t)[0] = <<>>
      /\ \A n \in 1 .. N : Streams(t)[n] = Streams(t)[n - 1] \o Packet(t[n])
      /\ \A n \in 0 .. N : Streams(t)[n] \in Seq(Char)
  BY <1>1, StreamsStep
<1>5. /\ Streams(s)[0] = <<>>
      /\ \A n \in 1 .. N + 1 : Streams(s)[n] = Streams(s)[n - 1] \o Packet(s[n])
  BY <1>1, StreamsStep
<1>6. \A n \in 1 .. N : Packet(t[n]) \in Seq(Char)
  <2>1. \A n \in 1 .. N : t[n] \in Bodies
    BY <1>1
  <2> QED
    BY <2>1, PacketShape
<1> HIDE DEF t, N
<1>7. 0 \in T
  <2>1. Streams(s)[0 + 1] = Streams(s)[0] \o p
    <3>1. 0 + 1 = 1 /\ 1 \in 1 .. N + 1 /\ 1 - 1 = 0
      BY <1>1
    <3> QED
      BY <1>5, <3>1
  <2> HIDE DEF p
  <2>2. <<>> \o p = p /\ p \o <<>> = p
    BY <1>3, ConcatEmptySeq
  <2> QED
    BY <1>4, <1>5, <2>1, <2>2
<1>8. ASSUME NEW n \in Nat, n \in T
      PROVE  n + 1 \in T
  <2> HIDE DEF p
  <2> SUFFICES ASSUME n + 1 <= N
               PROVE  Streams(s)[(n + 1) + 1] = p \o Streams(t)[n + 1]
    OBVIOUS
  <2>1. n <= N /\ n \in 0 .. N /\ n + 1 \in 1 .. N /\ (n + 1) + 1 \in 1 .. N + 1
        /\ (n + 1) - 1 = n /\ ((n + 1) + 1) - 1 = n + 1
    BY <1>1
  <2>2. Streams(s)[n + 1] = p \o Streams(t)[n] /\ t[n + 1] = s[(n + 1) + 1]
    BY <1>1, <1>8, <2>1
  <2>3. Streams(t)[n + 1] = Streams(t)[n] \o Packet(t[n + 1])
    BY <1>4, <2>1
  <2>4. Streams(s)[(n + 1) + 1] = Streams(s)[n + 1] \o Packet(t[n + 1])
    BY <1>5, <2>1, <2>2
  <2>5. Streams(t)[n] \in Seq(Char) /\ Packet(t[n + 1]) \in Seq(Char)
    BY <1>4, <1>6, <2>1
  <2>6. (p \o Streams(t)[n]) \o Packet(t[n + 1]) = p \o (Streams(t)[n] \o Packet(t[n + 1]))
    BY <1>3, <2>5, Regroup
  <2> QED
    BY <2>2, <2>3, <2>4, <2>6
<1>9. N \in T
  <2> HIDE DEF T
  <2> QED
    BY <1>1, <1>7, <1>8, SetInduction
<1> QED
  BY <1>1, <1>2, <1>9 DEF Stream, t, N

-----------------------------------------------------------------------------
(* A stream of packets with acknowledgements between them.                 *)

LEMMA ConcatAppend ==
  ASSUME NEW T, NEW s \in Seq(T), NEW t \in Seq(T), NEW e \in T
  PROVE  s \o Append(t, e) = Append(s \o t, e)
<1>1. <<e>> \in Seq(T) /\ s \o t \in Seq(T)
  BY ConcatProperties
<1>2. Append(t, e) = t \o <<e>> /\ Append(s \o t, e) = (s \o t) \o <<e>>
  BY <1>1, AppendIsConcat
<1> QED
  BY <1>1, <1>2, ConcatAssociative

LEMMA OnlyConcat ==
  ASSUME NEW T, NEW S, NEW s \in Seq(T), NEW t \in Seq(T)
  PROVE  Only(s \o t, S) = Only(s, S) \o Only(t, S)
<1> DEFINE U == { n \in Nat : \A u \in Seq(T) :
                    Len(u) = n => Only(s \o u, S) = Only(s, S) \o Only(u, S) }
<1>1. 0 \in U
  <2> SUFFICES ASSUME NEW u \in Seq(T), Len(u) = 0
               PROVE  Only(s \o u, S) = Only(s, S) \o Only(u, S)
    OBVIOUS
  <2>1. u = <<>>
    BY EmptySeq
  <2>2. s \o <<>> = s /\ Only(s, S) \in Seq(T)
    BY OnlyType, ConcatEmptySeq
  <2>3. Only(s, S) \o <<>> = Only(s, S)
    BY <2>2, ConcatEmptySeq
  <2> QED
    BY <2>1, <2>2, <2>3, OnlyEmpty
<1>2. ASSUME NEW n \in Nat, n \in U
      PROVE  n + 1 \in U
  <2> SUFFICES ASSUME NEW u \in Seq(T), Len(u) = n + 1
               PROVE  Only(s \o u, S) = Only(s, S) \o Only(u, S)
    OBVIOUS
  <2>1. u # <<>>
    BY EmptySeq
  <2>2. PICK v \in Seq(T), e \in T : u = Append(v, e)
    BY <2>1, SequenceEmptyOrAppend
  <2>3. Len(v) = n
    BY <2>2, AppendProperties
  <2>4. Only(s \o v, S) = Only(s, S) \o Only(v, S)
    BY <1>2, <2>3
  <2>5. s \o v \in Seq(T) /\ s \o u = Append(s \o v, e)
    BY <2>2, ConcatProperties, ConcatAppend
  <2>6. Only(s, S) \in Seq(T) /\ Only(v, S) \in Seq(T)
    BY OnlyType
  <2>7. CASE e \in S
    <3>1. Only(Append(v, e), S) = Append(Only(v, S), e)
      BY <2>7, OnlyAppend
    <3>2. Only(Append(s \o v, e), S) = Append(Only(s \o v, S), e)
      BY <2>5, <2>7, OnlyAppend
    <3>3. Only(s, S) \o Append(Only(v, S), e) = Append(Only(s, S) \o Only(v, S), e)
      BY <2>6, ConcatAppend
    <3> QED
      BY <2>2, <2>4, <2>5, <3>1, <3>2, <3>3
  <2>8. CASE e \notin S
    <3>1. Only(Append(v, e), S) = Only(v, S)
      BY <2>8, OnlyAppend
    <3>2. Only(Append(s \o v, e), S) = Only(s \o v, S)
      BY <2>5, <2>8, OnlyAppend
    <3> QED
      BY <2>2, <2>4, <2>5, <3>1, <3>2
  <2> QED
    BY <2>7, <2>8
<1> HIDE DEF U
<1>3. Len(t) \in Nat /\ \A n \in Nat : n \in U
  BY <1>1, <1>2, SetInduction
<1> QED
  BY <1>3 DEF U

Laying == Seq(Char) \X Seq(Bodies)

Closed(C) ==
  /\ <<<<>>, <<>>>> \in C
  /\ \A p \in C : <<Append(p[1], Plus), p[2]>> \in C
  /\ \A p \in C, body \in Bodies : <<p[1] \o Packet(body), Append(p[2], body)>> \in C

(* The streams that grow by acknowledgements and whole packets, each with  *)
(* the bodies of its packets.                                              *)
Carried == { p \in Laying : \A C \in SUBSET Laying : Closed(C) => p \in C }

Carries(stream, bodies) == <<stream, bodies>> \in Carried

LEMMA LayingClosed ==
  Closed(Laying)
<1>1. <<<<>>, <<>>>> \in Laying
  <2>1. <<>> \in Seq(Char) /\ <<>> \in Seq(Bodies)
    BY EmptySeq
  <2> QED
    BY <2>1 DEF Laying
<1>2. ASSUME NEW p \in Laying
      PROVE  <<Append(p[1], Plus), p[2]>> \in Laying
  <2>1. Plus \in Char
    BY DEF Plus, Char
  <2>2. p[1] \in Seq(Char) /\ p[2] \in Seq(Bodies)
    BY DEF Laying
  <2>3. Append(p[1], Plus) \in Seq(Char)
    BY <2>1, <2>2, AppendProperties
  <2> QED
    BY <2>2, <2>3 DEF Laying
<1>3. ASSUME NEW p \in Laying, NEW body \in Bodies
      PROVE  <<p[1] \o Packet(body), Append(p[2], body)>> \in Laying
  <2>1. p[1] \in Seq(Char) /\ p[2] \in Seq(Bodies) /\ Packet(body) \in Seq(Char)
    BY <1>3, PacketShape DEF Laying
  <2>2. p[1] \o Packet(body) \in Seq(Char)
    BY <2>1, ConcatProperties
  <2>3. Append(p[2], body) \in Seq(Bodies)
    BY <2>1, AppendProperties
  <2> QED
    BY <2>2, <2>3 DEF Laying
<1> QED
  BY <1>1, <1>2, <1>3 DEF Closed

LEMMA CarriedClosed ==
  Closed(Carried)
<1>1. <<<<>>, <<>>>> \in Carried
  BY LayingClosed DEF Carried, Closed
<1>2. ASSUME NEW p \in Carried
      PROVE  <<Append(p[1], Plus), p[2]>> \in Carried
  BY LayingClosed DEF Carried, Closed
<1>3. ASSUME NEW p \in Carried, NEW body \in Bodies
      PROVE  <<p[1] \o Packet(body), Append(p[2], body)>> \in Carried
  BY LayingClosed DEF Carried, Closed
<1> QED
  BY <1>1, <1>2, <1>3 DEF Closed

(* Induction: what is closed holds of every stream of packets.             *)
LEMMA CarriedLeast ==
  ASSUME NEW C, C \subseteq Laying, Closed(C)
  PROVE  \A p \in Carried : p \in C
BY DEF Carried

LEMMA CarriesType ==
  ASSUME NEW x, NEW s, Carries(x, s)
  PROVE  x \in Seq(Char) /\ s \in Seq(Bodies)
BY DEF Carries, Carried, Laying

LEMMA CarriesNothing ==
  Carries(<<>>, <<>>)
BY CarriedClosed DEF Closed, Carries

LEMMA CarriesPlus ==
  ASSUME NEW x, NEW s, Carries(x, s)
  PROVE  Carries(Append(x, Plus), s)
<1>1. <<Append(<<x, s>>[1], Plus), <<x, s>>[2]>> \in Carried
  BY CarriedClosed DEF Closed, Carries
<1> QED
  BY <1>1 DEF Carries

LEMMA CarriesPacket ==
  ASSUME NEW x, NEW s, Carries(x, s), NEW body \in Bodies
  PROVE  Carries(x \o Packet(body), Append(s, body))
<1>1. <<<<x, s>>[1] \o Packet(body), Append(<<x, s>>[2], body)>> \in Carried
  BY CarriedClosed DEF Closed, Carries
<1> QED
  BY <1>1 DEF Carries

(* Without the acknowledgements the packets are left.                      *)
LEMMA PlusBehind ==
  ASSUME NEW s \in Seq(Char), NEW t \in Seq(Char)
  PROVE  Append(s \o t, Plus) = s \o Append(t, Plus)
<1>1. <<Plus>> \in Seq(Char) /\ s \o t \in Seq(Char) /\ Plus \in Char
  BY ConcatProperties DEF Plus, Char
<1> HIDE DEF Plus
<1>2. Append(t, Plus) = t \o <<Plus>> /\ Append(s \o t, Plus) = (s \o t) \o <<Plus>>
  BY <1>1, AppendIsConcat
<1> QED
  BY <1>1, <1>2, ConcatAssociative

LEMMA CarriesOnly ==
  ASSUME NEW x, NEW s, Carries(x, s)
  PROVE  WithoutAcks(x) = WithoutAcks(Stream(s))
<1> DEFINE C == { p \in Laying : WithoutAcks(p[1]) = WithoutAcks(Stream(p[2])) }
<1>1. <<<<>>, <<>>>> \in C
  BY LayingClosed, StreamEmpty DEF Closed
<1>2. ASSUME NEW p \in C
      PROVE  <<Append(p[1], Plus), p[2]>> \in C
  <2>1. <<Append(p[1], Plus), p[2]>> \in Laying
    BY LayingClosed DEF Closed
  <2>2. p[1] \in Seq(Char) /\ Plus \in Char /\ Plus \notin Char \ {Plus}
    BY DEF Laying, Plus, Char
  <2>3. WithoutAcks(Append(p[1], Plus)) = WithoutAcks(p[1])
    BY <2>2, OnlyAppend DEF WithoutAcks
  <2> QED
    BY <2>1, <2>3
<1>3. ASSUME NEW p \in C, NEW body \in Bodies
      PROVE  <<p[1] \o Packet(body), Append(p[2], body)>> \in C
  <2>1. <<p[1] \o Packet(body), Append(p[2], body)>> \in Laying
    BY LayingClosed DEF Closed
  <2>2. p[1] \in Seq(Char) /\ p[2] \in Seq(Bodies)
    BY DEF Laying
  <2>3. Packet(body) \in Seq(Char) /\ Stream(p[2]) \in Seq(Char)
    BY <2>2, PacketShape, StreamType
  <2>4. WithoutAcks(p[1] \o Packet(body)) = WithoutAcks(p[1]) \o WithoutAcks(Packet(body))
    BY <2>2, <2>3, OnlyConcat DEF WithoutAcks
  <2>5. WithoutAcks(Stream(p[2]) \o Packet(body))
          = WithoutAcks(Stream(p[2])) \o WithoutAcks(Packet(body))
    BY <2>3, OnlyConcat DEF WithoutAcks
  <2>6. Stream(Append(p[2], body)) = Stream(p[2]) \o Packet(body)
    BY <2>2, StreamAppend
  <2> QED
    BY <2>1, <2>4, <2>5, <2>6
<1>4. C \subseteq Laying /\ Closed(C)
  BY <1>1, <1>2, <1>3 DEF Closed
<1>5. <<x, s>> \in C
  <2> HIDE DEF C
  <2> QED
    BY <1>4, CarriedLeast DEF Carries
<1> QED
  BY <1>5

LEMMA HeadTailConcat ==
  ASSUME NEW T, NEW s \in Seq(T), s # <<>>, NEW t \in Seq(T)
  PROVE  s \o t # <<>> /\ Head(s \o t) = Head(s) /\ Tail(s \o t) = Tail(s) \o t
<1> DEFINE c == s \o t
           n == Len(s)
           k == Len(t)
<1>1. n \in Nat /\ n >= 1 /\ k \in Nat
  BY EmptySeq, LenProperties
<1>2. /\ c \in Seq(T) /\ Len(c) = n + k
      /\ \A i \in 1 .. n + k : c[i] = IF i <= n THEN s[i] ELSE t[i - n]
  BY ConcatProperties
<1>3. c # <<>>
  BY <1>1, <1>2, EmptySeq
<1>4. Head(c) = Head(s)
  <2>1. c[1] = s[1]
    <3> HIDE DEF c, n, k
    <3> QED
      BY <1>1, <1>2
  <2> QED
    BY <1>2, <1>3, <2>1
<1>5. /\ Tail(s) \in Seq(T) /\ Len(Tail(s)) = n - 1
      /\ \A i \in 1 .. n - 1 : Tail(s)[i] = s[i + 1]
  BY HeadTailProperties
<1>6. /\ Tail(c) \in Seq(T) /\ Len(Tail(c)) = n + k - 1
      /\ \A i \in 1 .. n + k - 1 : Tail(c)[i] = c[i + 1]
  <2> HIDE DEF c
  <2> QED
    BY <1>2, <1>3, HeadTailProperties
<1> DEFINE d == Tail(s) \o t
<1>7. /\ d \in Seq(T) /\ Len(d) = n - 1 + k
      /\ \A i \in 1 .. n - 1 + k : d[i] = IF i <= n - 1 THEN Tail(s)[i] ELSE t[i - (n - 1)]
  <2> DEFINE z == Tail(s)
  <2>1. z \in Seq(T) /\ Len(z) = n - 1
    BY <1>5
  <2> HIDE DEF z
  <2>2. /\ z \o t \in Seq(T) /\ Len(z \o t) = Len(z) + Len(t)
        /\ \A i \in 1 .. Len(z) + Len(t) : (z \o t)[i] = IF i <= Len(z) THEN z[i] ELSE t[i - Len(z)]
    BY <2>1, ConcatProperties
  <2> QED
    BY <2>1, <2>2 DEF z
<1>8. Tail(c) = d
  <2> HIDE DEF c, d, n, k
  <2>1. Len(Tail(c)) = Len(d)
    BY <1>1, <1>6, <1>7
  <2>2. ASSUME NEW i \in 1 .. Len(d)
        PROVE  Tail(c)[i] = d[i]
    <3>1. i \in 1 .. n + k - 1 /\ i \in 1 .. n - 1 + k /\ i + 1 \in 1 .. n + k
          /\ (i + 1 <= n <=> i <= n - 1) /\ (i + 1) - n = i - (n - 1)
      BY <1>1, <1>7
    <3>2. i <= n - 1 => i \in 1 .. n - 1
      BY <1>1, <3>1
    <3> QED
      BY <1>2, <1>5, <1>6, <1>7, <3>1, <3>2
  <2> QED
    BY <1>6, <1>7, <2>1, <2>2, SeqEqual
<1> QED
  BY <1>3, <1>4, <1>8

(* What comes first in a stream of packets: an acknowledgement, or the     *)
(* first packet, whole.                                                    *)
Starts(x, s) ==
  IF x = <<>>
  THEN s = <<>>
  ELSE \/ Head(x) = Plus /\ Carries(Tail(x), s)
       \/ /\ s # <<>>
          /\ \E y \in Seq(Char) : x = Packet(Head(s)) \o y /\ Carries(y, Tail(s))

LEMMA CarriesStarts ==
  ASSUME NEW x, NEW s, Carries(x, s)
  PROVE  Starts(x, s)
<1> DEFINE C == { p \in Carried : Starts(p[1], p[2]) }
<1>1. <<<<>>, <<>>>> \in C
  BY CarriedClosed DEF Closed, Starts
<1>2. ASSUME NEW p \in C
      PROVE  <<Append(p[1], Plus), p[2]>> \in C
  <2> DEFINE a == p[1]
             b == p[2]
  <2>1. Carries(a, b) /\ Starts(a, b)
    <3>1. p \in Carried /\ Starts(p[1], p[2])
      OBVIOUS
    <3>2. p \in Seq(Char) \X Seq(Bodies)
      BY <3>1 DEF Carried, Laying
    <3>3. p = <<p[1], p[2]>>
      BY <3>2
    <3> QED
      BY <3>1, <3>3 DEF Carries
  <2> HIDE DEF a, b
  <2>2. Carries(Append(a, Plus), b) /\ a \in Seq(Char) /\ Append(a, Plus) # <<>> /\ Plus \in Char
    <3>1. a \in Seq(Char) /\ Plus \in Char
      BY <2>1, CarriesType DEF Plus, Char
    <3> QED
      BY <2>1, <3>1, CarriesPlus, AppendProperties
  <2>3. CASE a = <<>>
    <3>1. b = <<>> /\ Head(Append(a, Plus)) = Plus /\ Tail(Append(a, Plus)) = <<>>
      BY <2>1, <2>2, <2>3, HeadTailAppend DEF Starts
    <3> QED
      BY <2>2, <3>1, CarriesNothing DEF Starts, Carries, a, b
  <2>4. CASE a # <<>> /\ Head(a) = Plus /\ Carries(Tail(a), b)
    <3>1. Head(Append(a, Plus)) = Plus /\ Tail(Append(a, Plus)) = Append(Tail(a), Plus)
      BY <2>2, <2>4, HeadTailAppend
    <3>2. Carries(Append(Tail(a), Plus), b)
      BY <2>4, CarriesPlus
    <3> QED
      BY <2>2, <3>1, <3>2 DEF Starts, Carries, a, b
  <2>5. CASE /\ a # <<>> /\ b # <<>>
             /\ \E y \in Seq(Char) : a = Packet(Head(b)) \o y /\ Carries(y, Tail(b))
    <3>1. PICK y \in Seq(Char) : a = Packet(Head(b)) \o y /\ Carries(y, Tail(b))
      BY <2>5
    <3>2. Packet(Head(b)) \in Seq(Char)
      <4>1. Head(b) \in Bodies
        BY <2>1, <2>5, CarriesType, HeadTailProperties
      <4> QED
        BY <4>1, PacketShape
    <3>3. Append(a, Plus) = Packet(Head(b)) \o Append(y, Plus)
      <4>1. Append(Packet(Head(b)) \o y, Plus) = Packet(Head(b)) \o Append(y, Plus)
        BY <3>2, PlusBehind
      <4> QED
        BY <3>1, <4>1
    <3>4. Carries(Append(y, Plus), Tail(b)) /\ Append(y, Plus) \in Seq(Char)
      BY <2>2, <3>1, CarriesPlus, AppendProperties
    <3> QED
      BY <2>2, <2>5, <3>3, <3>4 DEF Starts, Carries, a, b
  <2> QED
    BY <2>1, <2>3, <2>4, <2>5 DEF Starts
<1>3. ASSUME NEW p \in C, NEW body \in Bodies
      PROVE  <<p[1] \o Packet(body), Append(p[2], body)>> \in C
  <2> DEFINE a == p[1]
             b == p[2]
             P == Packet(body)
  <2>1. Carries(a, b) /\ Starts(a, b)
    <3>1. p \in Carried /\ Starts(p[1], p[2])
      OBVIOUS
    <3>2. p \in Seq(Char) \X Seq(Bodies)
      BY <3>1 DEF Carried, Laying
    <3>3. p = <<p[1], p[2]>>
      BY <3>2
    <3> QED
      BY <3>1, <3>3 DEF Carries
  <2>2. P \in Seq(Char) /\ P # <<>>
    <3>1. P \in Seq(Char) /\ Len(P) = Len(body) + 4 /\ Len(body) \in Nat
      BY PacketShape, BodyType
    <3> QED
      BY <3>1, EmptySeq
  <2> HIDE DEF a, b
  <2>3. Carries(a \o P, Append(b, body))
    BY <2>1, CarriesPacket
  <2>4. a \in Seq(Char) /\ b \in Seq(Bodies) /\ Append(b, body) # <<>>
    <3>1. a \in Seq(Char) /\ b \in Seq(Bodies)
      BY <2>1, CarriesType
    <3> QED
      BY <3>1, AppendProperties
  <2> HIDE DEF P
  <2>5. a \o P # <<>>
    BY <2>2, <2>4, ConcatEqualIffEmpty
  <2>6. CASE a = <<>>
    <3>1. b = <<>>
      BY <2>1, <2>6 DEF Starts
    <3>2. a \o P = P \o <<>>
      BY <2>2, <2>6, ConcatEmptySeq
    <3>3. Head(Append(b, body)) = body /\ Tail(Append(b, body)) = <<>>
      BY <2>4, <3>1, HeadTailAppend
    <3>4. a \o P = Packet(Head(Append(b, body))) \o <<>> /\ <<>> \in Seq(Char)
      BY <3>2, <3>3, EmptySeq DEF P
    <3>5. Starts(a \o P, Append(b, body))
      BY <2>4, <2>5, <3>3, <3>4, CarriesNothing DEF Starts
    <3> QED
      BY <2>3, <3>5 DEF Carries, a, b, P
  <2>7. CASE a # <<>> /\ Head(a) = Plus /\ Carries(Tail(a), b)
    <3>1. Head(a \o P) = Plus /\ Tail(a \o P) = Tail(a) \o P
      BY <2>2, <2>4, <2>7, HeadTailConcat
    <3>2. Carries(Tail(a) \o P, Append(b, body))
      BY <2>7, CarriesPacket DEF P
    <3>3. Starts(a \o P, Append(b, body))
      BY <2>5, <3>1, <3>2 DEF Starts
    <3> QED
      BY <2>3, <3>3 DEF Carries, a, b, P
  <2>8. CASE /\ a # <<>> /\ b # <<>>
             /\ \E y \in Seq(Char) : a = Packet(Head(b)) \o y /\ Carries(y, Tail(b))
    <3>1. PICK y \in Seq(Char) : a = Packet(Head(b)) \o y /\ Carries(y, Tail(b))
      BY <2>8
    <3>2. Packet(Head(b)) \in Seq(Char)
      <4>1. Head(b) \in Bodies
        BY <2>4, <2>8, HeadTailProperties
      <4> QED
        BY <4>1, PacketShape
    <3>3. a \o P = Packet(Head(b)) \o (y \o P)
      BY <2>2, <3>1, <3>2, Regroup
    <3>4. Head(Append(b, body)) = Head(b) /\ Tail(Append(b, body)) = Append(Tail(b), body)
      BY <2>4, <2>8, HeadTailAppend
    <3>5. Carries(y \o P, Append(Tail(b), body)) /\ y \o P \in Seq(Char)
      <4>1. Carries(y \o P, Append(Tail(b), body))
        BY <3>1, CarriesPacket DEF P
      <4> QED
        BY <4>1, CarriesType
    <3>6. Starts(a \o P, Append(b, body))
      BY <2>4, <2>5, <3>3, <3>4, <3>5 DEF Starts
    <3> QED
      BY <2>3, <3>6 DEF Carries, a, b, P
  <2> QED
    BY <2>1, <2>6, <2>7, <2>8 DEF Starts
<1>4. C \subseteq Laying /\ Closed(C)
  <2>1. C \subseteq Laying
    BY DEF Carried
  <2> HIDE DEF C
  <2> QED
    BY <1>1, <1>2, <1>3, <2>1 DEF Closed
<1>5. <<x, s>> \in C
  <2> HIDE DEF C
  <2> QED
    BY <1>4, CarriedLeast DEF Carries
<1> QED
  BY <1>5

-----------------------------------------------------------------------------
(* What a match of the pattern is, where packets are.                      *)

(* A packet in front matches, and its checksum is right.                   *)
LEMMA PacketMatches ==
  ASSUME NEW body \in Bodies, NEW y \in Seq(Char)
  PROVE  /\ Len(body) + 2 \in Matches(Packet(body) \o y)
         /\ Intact(Packet(body) \o y, Len(body) + 2)
         /\ SubSeq(Packet(body) \o y, 2, Len(body) + 1) = body
<1> DEFINE p == Packet(body)
           n == Len(body)
           s == p \o y
           k == Len(y)
<1>1. n \in Nat /\ k \in Nat /\ body \in Seq(Char)
  BY BodyType
<1>2. /\ p \in Seq(Char) /\ Len(p) = n + 4 /\ p[1] = Dollar /\ p[n + 2] = Hash
      /\ \A i \in 1 .. n : p[i + 1] = body[i]
      /\ p[n + 3] = Digits(Checksum(body))[1] /\ p[n + 4] = Digits(Checksum(body))[2]
      /\ \A i \in 2 .. n + 1 : p[i] # Hash
      /\ {p[n + 3], p[n + 4]} \subseteq Alphanumeric
  BY PacketShape
<1> HIDE DEF p
<1>3. s \in Seq(Char) /\ Len(s) = n + 4 + k /\ \A i \in 1 .. n + 4 : s[i] = p[i]
  <2>1. s \in Seq(Char) /\ Len(s) = Len(p) + Len(y)
        /\ \A i \in 1 .. Len(p) + Len(y) : s[i] = IF i <= Len(p) THEN p[i] ELSE y[i - Len(p)]
    BY <1>2, ConcatProperties
  <2> HIDE DEF s
  <2> QED
    BY <1>1, <1>2, <2>1
<1> HIDE DEF s, n, k
<1>4. /\ 1 \in 1 .. n + 4 /\ n + 2 \in 1 .. n + 4 /\ n + 3 \in 1 .. n + 4 /\ n + 4 \in 1 .. n + 4
      /\ \A i \in 2 .. n + 1 : i \in 1 .. n + 4
      /\ (n + 2) - 1 = n + 1 /\ (n + 2) + 1 = n + 3 /\ (n + 2) + 2 = n + 4
      /\ n + 2 \in 2 .. Len(s) - 2
  BY <1>1, <1>3
<1>5. n + 2 \in Matches(s)
  <2>1. s[1] = Dollar /\ s[n + 2] = Hash
    BY <1>2, <1>3, <1>4
  <2>2. \A i \in 2 .. (n + 2) - 1 : s[i] # Hash
    BY <1>2, <1>3, <1>4
  <2>3. {s[(n + 2) + 1], s[(n + 2) + 2]} \subseteq Alphanumeric
    BY <1>2, <1>3, <1>4
  <2> QED
    BY <1>4, <2>1, <2>2, <2>3 DEF Matches
<1>6. SubSeq(s, 2, n + 1) = body
  <2>1. \A i \in 2 .. n + 1 : i \in 1 .. Len(s)
    BY <1>1, <1>3
  <2>2. \A i \in 2 .. n + 1 : s[i] \in Char
    BY <1>3, <2>1, ElementOfSeq
  <2>3. /\ SubSeq(s, 2, n + 1) \in Seq(Char)
        /\ Len(SubSeq(s, 2, n + 1)) = n
        /\ \A i \in 1 .. n : SubSeq(s, 2, n + 1)[i] = s[i + 1]
    <3>1. 2 \in Int /\ n + 1 \in Int
      BY <1>1
    <3>2. /\ SubSeq(s, 2, n + 1) \in Seq(Char)
          /\ Len(SubSeq(s, 2, n + 1)) = IF 2 <= n + 1 THEN (n + 1) - 2 + 1 ELSE 0
          /\ \A i \in 1 .. (n + 1) - 2 + 1 : SubSeq(s, 2, n + 1)[i] = s[2 + i - 1]
      BY <2>2, <3>1, SubSeqProperties
    <3>3. (n + 1) - 2 + 1 = n /\ \A i \in 1 .. n : 2 + i - 1 = i + 1
      BY <1>1
    <3>4. ~(2 <= n + 1) => n = 0
      BY <1>1
    <3> QED
      BY <3>2, <3>3, <3>4
  <2>4. Len(body) = n
    BY DEF n
  <2>5. \A i \in 1 .. n : s[i + 1] = body[i]
    <3>1. \A i \in 1 .. n : i + 1 \in 1 .. n + 4
      BY <1>1
    <3> QED
      BY <1>2, <1>3, <3>1
  <2> QED
    BY <1>1, <2>3, <2>4, <2>5, SeqEqual
<1>7. SubSeq(s, n + 3, n + 4) = Digits(Checksum(body))
  <2> DEFINE D == Digits(Checksum(body))
  <2>1. D \in Seq(Alphanumeric) /\ Len(D) = 2
    <3>1. Checksum(body) \in Byte
      BY <1>1, SumsType DEF Checksum, n
    <3> QED
      BY <3>1, DigitsType
  <2>2. s[n + 3] = D[1] /\ s[n + 4] = D[2]
    BY <1>2, <1>3, <1>4
  <2>3. s[n + 3] \in Alphanumeric /\ s[n + 4] \in Alphanumeric
    BY <1>2, <1>3, <1>4
  <2> HIDE DEF D
  <2>4. \A i \in n + 3 .. n + 4 : s[i] \in Alphanumeric
    <3>1. \A i \in n + 3 .. n + 4 : i = n + 3 \/ i = n + 4
      BY <1>1
    <3> QED
      BY <2>3, <3>1
  <2>5. /\ SubSeq(s, n + 3, n + 4) \in Seq(Alphanumeric)
        /\ Len(SubSeq(s, n + 3, n + 4)) = IF n + 3 <= n + 4 THEN (n + 4) - (n + 3) + 1 ELSE 0
        /\ \A i \in 1 .. (n + 4) - (n + 3) + 1 : SubSeq(s, n + 3, n + 4)[i] = s[(n + 3) + i - 1]
    <3> DEFINE a == n + 3
               b == n + 4
    <3>1. a \in Int /\ b \in Int /\ \A i \in a .. b : s[i] \in Alphanumeric
      BY <1>1, <2>4
    <3> HIDE DEF a, b
    <3>2. /\ SubSeq(s, a, b) \in Seq(Alphanumeric)
          /\ Len(SubSeq(s, a, b)) = IF a <= b THEN b - a + 1 ELSE 0
          /\ \A i \in 1 .. b - a + 1 : SubSeq(s, a, b)[i] = s[a + i - 1]
      BY <3>1, SubSeqProperties
    <3> QED
      BY <3>2 DEF a, b
  <2>6. n + 3 <= n + 4 /\ (n + 4) - (n + 3) + 1 = 2 /\ (n + 3) + 1 - 1 = n + 3 /\ (n + 3) + 2 - 1 = n + 4
    BY <1>1
  <2>7. \A i \in 1 .. 2 : SubSeq(s, n + 3, n + 4)[i] = D[i]
    <3>1. \A i \in 1 .. 2 : i = 1 \/ i = 2
      OBVIOUS
    <3> QED
      BY <2>2, <2>5, <2>6, <3>1
  <2>8. Len(SubSeq(s, n + 3, n + 4)) = 2
    BY <2>5, <2>6
  <2>9. SubSeq(s, n + 3, n + 4) = D
    <3> DEFINE u == SubSeq(s, n + 3, n + 4)
    <3>1. u \in Seq(Alphanumeric) /\ Len(u) = 2 /\ \A i \in 1 .. 2 : u[i] = D[i]
      BY <2>5, <2>7, <2>8
    <3> HIDE DEF u
    <3>2. u = D
      BY <2>1, <3>1, SeqEqual
    <3> QED
      BY <3>2 DEF u
  <2> QED
    BY <2>9 DEF D
<1>8. Intact(s, n + 2)
  BY <1>4, <1>6, <1>7 DEF Intact
<1> QED
  BY <1>5, <1>6, <1>8 DEF s, p, n

(* Two streams in a row are two others in a row.                           *)
Same(s, r, p, y) == s \o r = p \o y

LEMMA BehindPrefix ==
  ASSUME NEW s \in Seq(Char), NEW p \in Seq(Char), NEW z \in Seq(Char),
         NEW r \in Seq(Char), NEW y \in Seq(Char),
         Same(s, <<>>, p, z), Same(s, r, p, y)
  PROVE  z \o r = y
<1>1. (p \o z) \o r = p \o (z \o r)
  BY Regroup
<1>2. s = p \o z
  BY ConcatEmptySeq DEF Same
<1>3. s \o r = p \o y
  BY DEF Same
<1>4. p \o (z \o r) = p \o y
  BY <1>1, <1>2, <1>3
<1>5. z \o r \in Seq(Char)
  BY ConcatProperties
<1>6. \A u, v, w \in Seq(Char) : u \o v = u \o w => v = w
  BY ConcatSimplifications
<1> QED
  BY <1>4, <1>5, <1>6

LEMMA SplitAt ==
  ASSUME NEW s \in Seq(Char), NEW r \in Seq(Char), NEW p \in Seq(Char), NEW y \in Seq(Char),
         Same(s, r, p, y), Len(p) \in 1 .. Len(s)
  PROVE  /\ Rest(s, Len(p)) \in Seq(Char)
         /\ Same(s, <<>>, p, Rest(s, Len(p)))
         /\ Same(Rest(s, Len(p)), r, <<>>, y)
<1> DEFINE n == Len(p)
           k == Len(s)
           z == SubSeq(s, n + 1, k)
<1>1. n \in Nat /\ k \in Nat /\ 1 <= n /\ n <= k
  BY LenProperties
<1>2. z \in Seq(Char)
  <2> HIDE DEF n, k
  <2>1. \A i \in n + 1 .. k : s[i] \in Char
    <3>1. \A i \in n + 1 .. k : i \in 1 .. k
      BY <1>1
    <3> QED
      BY <3>1, ElementOfSeq DEF k
  <2>2. n + 1 \in Int /\ k \in Int
    BY <1>1
  <2> QED
    BY <2>1, <2>2, SubSeqProperties
<1>3. SubSeq(s, 1, n) = p
  <2>0. s \o r = p \o y
    BY DEF Same
  <2>1. SubSeq(s \o r, 1, n) = SubSeq(s, 1, n)
    <3>1. 1 \in 1 .. Len(s) /\ n \in 1 .. Len(s)
      BY <1>1
    <3> HIDE DEF n
    <3> QED
      BY <3>1, SubSeqOfConcat1
  <2>2. SubSeq(p \o y, 1, n) = SubSeq(p, 1, n)
    <3>1. 1 \in 1 .. Len(p) /\ n \in 1 .. Len(p)
      BY <1>1
    <3> HIDE DEF n
    <3> QED
      BY <3>1, SubSeqOfConcat1
  <2>3. SubSeq(p, 1, n) = p
    BY SubSeqFull
  <2> QED
    BY <2>0, <2>1, <2>2, <2>3
<1>4. s = p \o z
  <2>1. SubSeq(s, 1, n) \o SubSeq(s, n + 1, k) = SubSeq(s, 1, k)
    <3>1. 1 \in 1 .. Len(s) + 1 /\ n \in 1 - 1 .. Len(s) /\ k \in n .. Len(s)
      BY <1>1
    <3> HIDE DEF n, k
    <3> QED
      BY <3>1, ConcatAdjacentSubSeq
  <2>2. SubSeq(s, 1, k) = s
    BY SubSeqFull
  <2> QED
    BY <1>3, <2>1, <2>2
<1>5. z \o r = y
  <2> HIDE DEF z, n, k
  <2>1. Same(s, <<>>, p, z)
    BY <1>4, ConcatEmptySeq DEF Same
  <2> QED
    BY <1>2, <2>1, BehindPrefix
<1>6. s \o <<>> = s /\ <<>> \o y = y
  BY ConcatEmptySeq
<1>7. Same(s, <<>>, p, z) /\ Same(z, r, <<>>, y)
  <2> HIDE DEF z
  <2> QED
    BY <1>4, <1>5, <1>6 DEF Same
<1>8. Rest(s, Len(p)) = z
  BY DEF Rest
<1> HIDE DEF z
<1> QED
  BY <1>2, <1>7, <1>8

(* What matches is the packet, however much of what follows is there.      *)
LEMMA MatchIsPacket ==
  ASSUME NEW s \in Seq(Char), NEW r \in Seq(Char), NEW body \in Bodies, NEW y \in Seq(Char),
         Same(s, r, Packet(body), y), NEW h \in Matches(s)
  PROVE  /\ h = Len(body) + 2
         /\ SubSeq(s, 2, h - 1) = body
         /\ Intact(s, h)
         /\ After(s, h) \in Seq(Char)
         /\ Same(After(s, h), r, <<>>, y)
<1> DEFINE p == Packet(body)
           n == Len(body)
           c == s \o r
           k == Len(s)
<1>1. n \in Nat /\ k \in Nat /\ Len(r) \in Nat /\ Len(y) \in Nat
  BY BodyType, LenProperties
<1>2. /\ p \in Seq(Char) /\ Len(p) = n + 4 /\ p[n + 2] = Hash
      /\ \A i \in 2 .. n + 1 : p[i] # Hash
  BY PacketShape
<1> HIDE DEF p, n
<1>3. h \in 2 .. k - 2 /\ s[h] = Hash /\ \A i \in 2 .. h - 1 : s[i] # Hash
  BY DEF Matches
<1>4. \A i \in 1 .. k : c[i] = s[i]
  <2>1. \A i \in 1 .. Len(s) + Len(r) : c[i] = IF i <= Len(s) THEN s[i] ELSE r[i - Len(s)]
    BY ConcatProperties
  <2> HIDE DEF c
  <2> QED
    BY <1>1, <2>1
<1>5. \A i \in 1 .. n + 4 : c[i] = p[i]
  <2>1. \A i \in 1 .. Len(p) + Len(y) : (p \o y)[i] = IF i <= Len(p) THEN p[i] ELSE y[i - Len(p)]
    BY <1>2, ConcatProperties
  <2>2. c = p \o y
    BY DEF p, Same
  <2> HIDE DEF c
  <2> QED
    BY <1>1, <1>2, <2>1, <2>2
<1> HIDE DEF c, k
<1>6. h = n + 2
  <2>1. h \in Int /\ h >= 2 /\ h <= k - 2
    BY <1>1, <1>3
  <2>2. ~(h < n + 2)
    <3> SUFFICES ASSUME h < n + 2
                 PROVE  FALSE
      OBVIOUS
    <3>1. h \in 2 .. n + 1 /\ h \in 1 .. k /\ h \in 1 .. n + 4
      BY <1>1, <2>1
    <3> QED
      BY <1>2, <1>3, <1>4, <1>5, <3>1
  <2>3. ~(h > n + 2)
    <3> SUFFICES ASSUME h > n + 2
                 PROVE  FALSE
      OBVIOUS
    <3>1. n + 2 \in 2 .. h - 1 /\ n + 2 \in 1 .. k /\ n + 2 \in 1 .. n + 4
      BY <1>1, <2>1
    <3> QED
      BY <1>2, <1>3, <1>4, <1>5, <3>1
  <2> QED
    BY <1>1, <2>1, <2>2, <2>3
<1>7. Len(p) \in 1 .. Len(s) /\ Same(s, r, p, y) /\ Len(p) + 1 = h + 3
  <2>1. Same(s, r, p, y) /\ Len(s) = k
    BY DEF p, k
  <2> QED
    BY <1>1, <1>2, <1>3, <1>6, <2>1
<1>8. After(s, h) \in Seq(Char) /\ Same(s, <<>>, p, After(s, h)) /\ Same(After(s, h), r, <<>>, y)
  <2>1. After(s, h) = Rest(s, Len(p))
    BY <1>7 DEF After, Rest
  <2> QED
    BY <1>2, <1>7, <2>1, SplitAt
<1>9. Intact(s, n + 2) /\ SubSeq(s, 2, n + 1) = body
  <2>1. s = p \o After(s, h)
    BY <1>8, ConcatEmptySeq DEF Same
  <2> QED
    BY <1>8, <2>1, PacketMatches DEF p, n
<1>10. h - 1 = n + 1
  BY <1>1, <1>6
<1> QED
  BY <1>6, <1>8, <1>9, <1>10 DEF n

(* Neither a plus nor the rest of a packet is taken for a packet.          *)
LEMMA MatchStarts ==
  ASSUME NEW s \in Seq(Char), NEW h \in Matches(s)
  PROVE  s # <<>> /\ Head(s) = Dollar /\ Head(s) # Plus
<1>1. h \in 2 .. Len(s) - 2 /\ s[1] = Dollar /\ Len(s) \in Nat
  BY DEF Matches
<1>2. s # <<>>
  BY <1>1, EmptySeq
<1> QED
  BY <1>1, <1>2 DEF Dollar, Plus

-----------------------------------------------------------------------------
(* Beginnings and rests.                                                   *)

LEMMA RestType ==
  ASSUME NEW T, NEW s \in Seq(T), NEW m \in 0 .. Len(s)
  PROVE  /\ Rest(s, m) \in Seq(T)
         /\ Len(Rest(s, m)) = Len(s) - m
         /\ \A i \in 1 .. Len(s) - m : Rest(s, m)[i] = s[m + i]
<1> DEFINE k == Len(s)
           a == m + 1
<1>1. k \in Nat /\ m \in Nat /\ m <= k /\ a \in Int /\ k \in Int /\ a = m + 1
  BY LenProperties
<1>2. \A i \in a .. k : s[i] \in T
  <2>1. \A i \in a .. k : i \in 1 .. Len(s)
    BY <1>1
  <2> QED
    BY <2>1, ElementOfSeq
<1>3. Rest(s, m) = SubSeq(s, a, k)
  BY DEF Rest
<1> HIDE DEF a, k
<1>4. /\ SubSeq(s, a, k) \in Seq(T)
      /\ Len(SubSeq(s, a, k)) = IF a <= k THEN k - a + 1 ELSE 0
      /\ \A i \in 1 .. k - a + 1 : SubSeq(s, a, k)[i] = s[a + i - 1]
  BY <1>1, <1>2, SubSeqProperties
<1> DEFINE u == SubSeq(s, a, k)
<1> HIDE DEF u
<1>5. /\ u \in Seq(T) /\ Len(u) = k - m
      /\ \A i \in 1 .. k - m : u[i] = s[m + i]
  <2>1. k - a + 1 = k - m /\ (~(a <= k) => k - m = 0) /\ \A i \in 1 .. k - m : a + i - 1 = m + i
    BY <1>1
  <2> QED
    BY <1>4, <2>1 DEF u
<1> QED
  BY <1>3, <1>5 DEF u, k

LEMMA RestEnds ==
  ASSUME NEW T, NEW s \in Seq(T)
  PROVE  Rest(s, 0) = s /\ Rest(s, Len(s)) = <<>>
<1>1. Len(s) \in Nat /\ 0 \in 0 .. Len(s) /\ Len(s) \in 0 .. Len(s)
  BY LenProperties
<1>2. Rest(s, Len(s)) = <<>>
  <2>1. Rest(s, Len(s)) \in Seq(T) /\ Len(Rest(s, Len(s))) = Len(s) - Len(s)
    BY <1>1, RestType
  <2>2. Len(Rest(s, Len(s))) = 0
    BY <1>1, <2>1
  <2> QED
    BY <2>1, <2>2, EmptySeq
<1>3. Rest(s, 0) = s
  <2>1. Rest(s, 0) = SubSeq(s, 1, Len(s))
    BY DEF Rest
  <2> QED
    BY <2>1, SubSeqFull
<1> QED
  BY <1>2, <1>3

LEMMA RestAppend ==
  ASSUME NEW T, NEW s \in Seq(T), NEW e \in T, NEW m \in 0 .. Len(s)
  PROVE  Rest(Append(s, e), m) = Append(Rest(s, m), e)
<1> DEFINE k == Len(s)
           t == Append(s, e)
           u == Rest(s, m)
           v == Rest(t, m)
           w == Append(u, e)
<1>1. k \in Nat /\ m \in Nat /\ m <= k
  BY LenProperties
<1>2. t \in Seq(T) /\ Len(t) = k + 1 /\ t[k + 1] = e /\ \A i \in 1 .. k : t[i] = s[i]
  BY AppendProperties
<1>3. u \in Seq(T) /\ Len(u) = k - m /\ \A i \in 1 .. k - m : u[i] = s[m + i]
  BY RestType
<1>4. v \in Seq(T) /\ Len(v) = k + 1 - m /\ \A i \in 1 .. k + 1 - m : v[i] = t[m + i]
  <2>1. m \in 0 .. Len(t)
    BY <1>1, <1>2
  <2> HIDE DEF t
  <2>2. v \in Seq(T) /\ Len(v) = Len(t) - m /\ \A i \in 1 .. Len(t) - m : v[i] = t[m + i]
    BY <1>2, <2>1, RestType
  <2> QED
    BY <1>2, <2>2
<1> HIDE DEF t, u, v
<1>5. w \in Seq(T) /\ Len(w) = Len(u) + 1 /\ w[Len(u) + 1] = e /\ \A i \in 1 .. Len(u) : w[i] = u[i]
  BY <1>3, AppendProperties
<1> HIDE DEF w, k
<1>6. Len(v) = Len(w)
  BY <1>1, <1>3, <1>4, <1>5
<1>7. ASSUME NEW i \in 1 .. Len(v)
      PROVE  v[i] = w[i]
  <2>1. i \in 1 .. k + 1 - m
    BY <1>4
  <2>2. CASE i \in 1 .. k - m
    <3>1. m + i \in 1 .. k
      BY <1>1, <2>2
    <3> QED
      BY <1>2, <1>3, <1>4, <1>5, <2>1, <2>2, <3>1
  <2>3. CASE i = k - m + 1
    <3>1. m + i = k + 1 /\ i = Len(u) + 1
      BY <1>1, <1>3, <2>3
    <3> QED
      BY <1>2, <1>4, <1>5, <2>1, <3>1
  <2> QED
    BY <1>1, <2>1, <2>2, <2>3
<1>8. v = w
  BY <1>4, <1>5, <1>6, <1>7, SeqEqual
<1> QED
  BY <1>8 DEF v, w, t, u

LEMMA RestHead ==
  ASSUME NEW T, NEW s \in Seq(T), NEW m \in 0 .. Len(s) - 1
  PROVE  /\ m \in 0 .. Len(s) /\ m + 1 \in 0 .. Len(s) /\ m + 1 \in 1 .. Len(s)
         /\ Rest(s, m) # <<>>
         /\ Head(Rest(s, m)) = s[m + 1]
         /\ Tail(Rest(s, m)) = Rest(s, m + 1)
<1> DEFINE k == Len(s)
           u == Rest(s, m)
           v == Rest(s, m + 1)
<1>1. k \in Nat /\ m \in Nat /\ m < k
  BY LenProperties
<1>2. m \in 0 .. Len(s) /\ m + 1 \in 0 .. Len(s) /\ m + 1 \in 1 .. Len(s)
  BY <1>1
<1>3. u \in Seq(T) /\ Len(u) = k - m /\ \A i \in 1 .. k - m : u[i] = s[m + i]
  BY <1>2, RestType
<1>4. v \in Seq(T) /\ Len(v) = k - (m + 1) /\ \A i \in 1 .. k - (m + 1) : v[i] = s[(m + 1) + i]
  BY <1>2, RestType
<1> HIDE DEF u, v, k
<1>5. u # <<>> /\ u[1] = s[m + 1]
  <2>1. k - m # 0 /\ 1 \in 1 .. k - m
    BY <1>1
  <2> QED
    BY <1>3, <2>1, EmptySeq
<1>6. Head(u) = u[1]
  BY <1>3, <1>5
<1>7. Tail(u) \in Seq(T) /\ Len(Tail(u)) = Len(u) - 1 /\ \A i \in 1 .. Len(Tail(u)) : Tail(u)[i] = u[i + 1]
  BY <1>3, <1>5, HeadTailProperties
<1>8. Len(Tail(u)) = Len(v)
  BY <1>1, <1>3, <1>4, <1>7
<1>9. ASSUME NEW i \in 1 .. Len(v)
      PROVE  Tail(u)[i] = v[i]
  <2>1. i \in 1 .. k - (m + 1) /\ i + 1 \in 1 .. k - m /\ m + (i + 1) = (m + 1) + i
    BY <1>1, <1>4
  <2> QED
    BY <1>3, <1>4, <1>7, <1>8, <2>1
<1>10. Tail(u) = v
  BY <1>4, <1>7, <1>8, <1>9, SeqEqual
<1> QED
  BY <1>2, <1>5, <1>6, <1>10 DEF u, v

(* What recv returns, and what it leaves.                                  *)
LEMMA RestJoin ==
  ASSUME NEW T, NEW s \in Seq(T), NEW n \in 1 .. Len(s)
  PROVE  /\ SubSeq(s, 1, n) \in Seq(T) /\ Rest(s, n) \in Seq(T)
         /\ SubSeq(s, 1, n) \o Rest(s, n) = s
<1>1. /\ 1 \in 1 .. Len(s) + 1 /\ n \in 1 - 1 .. Len(s) /\ Len(s) \in n .. Len(s) /\ n \in 0 .. Len(s)
      /\ 1 \in Int /\ n \in Int
  BY LenProperties
<1>2. SubSeq(s, 1, n) \o SubSeq(s, n + 1, Len(s)) = SubSeq(s, 1, Len(s))
  BY <1>1, ConcatAdjacentSubSeq
<1>3. SubSeq(s, 1, Len(s)) = s
  BY SubSeqFull
<1>4. \A i \in 1 .. n : s[i] \in T
  <2>1. \A i \in 1 .. n : i \in 1 .. Len(s)
    BY <1>1
  <2> QED
    BY <2>1, ElementOfSeq
<1>5. SubSeq(s, 1, n) \in Seq(T)
  BY <1>1, <1>4, SubSeqProperties
<1>6. Rest(s, n) \in Seq(T)
  BY <1>1, RestType
<1> QED
  BY <1>2, <1>3, <1>5, <1>6 DEF Rest

-----------------------------------------------------------------------------
(* Part of a sequence.                                                     *)

(* a is what s begins with, up to m, with some of its elements left out.   *)
Upto(a, s, m) ==
  \E at \in [1 .. Len(a) -> 1 .. m] :
    /\ \A i \in 1 .. Len(a) : a[i] = s[at[i]]
    /\ \A i, j \in 1 .. Len(a) : i < j => at[i] < at[j]

LEMMA UptoWithin ==
  ASSUME NEW T, NEW a \in Seq(T), NEW s \in Seq(T), NEW m \in 0 .. Len(s), Upto(a, s, m)
  PROVE  Within(a, s)
<1>1. PICK at \in [1 .. Len(a) -> 1 .. m] :
        /\ \A i \in 1 .. Len(a) : a[i] = s[at[i]]
        /\ \A i, j \in 1 .. Len(a) : i < j => at[i] < at[j]
  BY DEF Upto
<1>2. 1 .. m \subseteq 1 .. Len(s)
  BY LenProperties
<1>3. at \in [1 .. Len(a) -> 1 .. Len(s)]
  BY <1>2
<1> QED
  BY <1>1, <1>3 DEF Within

LEMMA UptoGrows ==
  ASSUME NEW a, NEW s, NEW m \in Nat, NEW n \in Nat, m <= n, Upto(a, s, m)
  PROVE  Upto(a, s, n)
<1>1. PICK at \in [1 .. Len(a) -> 1 .. m] :
        /\ \A i \in 1 .. Len(a) : a[i] = s[at[i]]
        /\ \A i, j \in 1 .. Len(a) : i < j => at[i] < at[j]
  BY DEF Upto
<1>2. 1 .. m \subseteq 1 .. n
  OBVIOUS
<1>3. at \in [1 .. Len(a) -> 1 .. n]
  BY <1>2
<1> QED
  BY <1>1, <1>3 DEF Upto

LEMMA UptoAppend ==
  ASSUME NEW T, NEW a, NEW s \in Seq(T), NEW e \in T, NEW m \in 0 .. Len(s), Upto(a, s, m)
  PROVE  Upto(a, Append(s, e), m)
<1>1. PICK at \in [1 .. Len(a) -> 1 .. m] :
        /\ \A i \in 1 .. Len(a) : a[i] = s[at[i]]
        /\ \A i, j \in 1 .. Len(a) : i < j => at[i] < at[j]
  BY DEF Upto
<1>2. \A k \in 1 .. m : Append(s, e)[k] = s[k]
  <2>1. \A k \in 1 .. m : k \in 1 .. Len(s)
    BY LenProperties
  <2> QED
    BY <2>1, AppendProperties
<1>3. \A i \in 1 .. Len(a) : at[i] \in 1 .. m
  BY <1>1
<1>4. \A i \in 1 .. Len(a) : a[i] = Append(s, e)[at[i]]
  BY <1>1, <1>2, <1>3
<1> QED
  BY <1>1, <1>4 DEF Upto

LEMMA UptoNext ==
  ASSUME NEW T, NEW a \in Seq(T), NEW s \in Seq(T), NEW m \in Nat, m + 1 \in 1 .. Len(s),
         Upto(a, s, m)
  PROVE  Upto(Append(a, s[m + 1]), s, m + 1)
<1> DEFINE e == s[m + 1]
           n == Len(a)
           b == Append(a, e)
<1>1. PICK at \in [1 .. n -> 1 .. m] :
        /\ \A i \in 1 .. n : a[i] = s[at[i]]
        /\ \A i, j \in 1 .. n : i < j => at[i] < at[j]
  BY DEF Upto
<1>2. n \in Nat /\ e \in T
  BY LenProperties, ElementOfSeq
<1>3. Len(b) = n + 1 /\ b[n + 1] = e /\ \A i \in 1 .. n : b[i] = a[i]
  <2> HIDE DEF e
  <2> QED
    BY <1>2, AppendProperties
<1> DEFINE up == [i \in 1 .. n + 1 |-> IF i = n + 1 THEN m + 1 ELSE at[i]]
<1> HIDE DEF n, b
<1>4. \A i \in 1 .. n : at[i] \in 1 .. m
  BY <1>1
<1>5. up \in [1 .. n + 1 -> 1 .. m + 1]
  <2> SUFFICES ASSUME NEW i \in 1 .. n + 1
               PROVE  (IF i = n + 1 THEN m + 1 ELSE at[i]) \in 1 .. m + 1
    OBVIOUS
  <2>1. i = n + 1 \/ (i # n + 1 /\ i \in 1 .. n)
    BY <1>2
  <2> QED
    BY <1>4, <2>1
<1>6. up[n + 1] = m + 1 /\ \A i \in 1 .. n : up[i] = at[i]
  <2>1. n + 1 \in 1 .. n + 1 /\ \A i \in 1 .. n : i \in 1 .. n + 1 /\ i # n + 1
    BY <1>2
  <2> QED
    BY <2>1
<1> HIDE DEF up
<1>7. \A i \in 1 .. n + 1 : b[i] = s[up[i]]
  <2> TAKE i \in 1 .. n + 1
  <2>1. i = n + 1 \/ i \in 1 .. n
    BY <1>2
  <2> QED
    BY <1>1, <1>3, <1>6, <2>1
<1>8. \A i, j \in 1 .. n + 1 : i < j => up[i] < up[j]
  <2> SUFFICES ASSUME NEW i \in 1 .. n + 1, NEW j \in 1 .. n + 1, i < j
               PROVE  up[i] < up[j]
    OBVIOUS
  <2>1. i \in 1 .. n /\ (j = n + 1 \/ j \in 1 .. n)
    BY <1>2
  <2>2. CASE j \in 1 .. n
    BY <1>1, <1>6, <2>1, <2>2
  <2>3. CASE j = n + 1
    <3>1. at[i] \in 1 .. m
      BY <1>4, <2>1
    <3> QED
      BY <1>6, <2>1, <2>3, <3>1
  <2> QED
    BY <2>1, <2>2, <2>3
<1>9. Upto(b, s, m + 1)
  BY <1>3, <1>5, <1>7, <1>8 DEF Upto
<1> QED
  BY <1>9 DEF b, n

(* What s begins with is within s.                                         *)
Begins(a, s) == Len(a) <= Len(s) /\ \A i \in 1 .. Len(a) : a[i] = s[i]

LEMMA BeginsWithin ==
  ASSUME NEW T, NEW a \in Seq(T), NEW s \in Seq(T), Begins(a, s)
  PROVE  Within(a, s)
<1> DEFINE at == [i \in 1 .. Len(a) |-> i]
<1>1. Len(a) \in Nat /\ Len(s) \in Nat /\ Len(a) <= Len(s)
  BY LenProperties DEF Begins
<1>2. at \in [1 .. Len(a) -> 1 .. Len(s)]
  BY <1>1
<1>3. \A i \in 1 .. Len(a) : at[i] = i /\ a[i] = s[i]
  BY DEF Begins
<1> HIDE DEF at
<1>4. \A i \in 1 .. Len(a) : a[i] = s[at[i]]
  BY <1>3
<1>5. \A i, j \in 1 .. Len(a) : i < j => at[i] < at[j]
  BY <1>3
<1> QED
  BY <1>2, <1>4, <1>5 DEF Within

LEMMA BeginsAppend ==
  ASSUME NEW T, NEW a \in Seq(T), NEW s \in Seq(T), NEW e \in T, Begins(a, s)
  PROVE  Begins(a, Append(s, e))
<1>1. Len(a) \in Nat /\ Len(s) \in Nat /\ Len(a) <= Len(s)
  BY LenProperties DEF Begins
<1>2. Len(Append(s, e)) = Len(s) + 1 /\ \A i \in 1 .. Len(s) : Append(s, e)[i] = s[i]
  BY AppendProperties
<1>3. \A i \in 1 .. Len(a) : i \in 1 .. Len(s)
  BY <1>1
<1> QED
  BY <1>1, <1>2, <1>3 DEF Begins

LEMMA BeginsNext ==
  ASSUME NEW T, NEW a \in Seq(T), NEW s \in Seq(T), Begins(a, s), Len(a) + 1 \in 1 .. Len(s)
  PROVE  Begins(Append(a, s[Len(a) + 1]), s)
<1> DEFINE e == s[Len(a) + 1]
           b == Append(a, e)
           n == Len(a)
<1>1. n \in Nat /\ Len(s) \in Nat /\ e \in T
  BY LenProperties, ElementOfSeq
<1>2. Len(b) = n + 1 /\ b[n + 1] = e /\ \A i \in 1 .. n : b[i] = a[i]
  <2> HIDE DEF e
  <2> QED
    BY <1>1, AppendProperties
<1> HIDE DEF b
<1>3. \A i \in 1 .. n + 1 : b[i] = s[i]
  <2> TAKE i \in 1 .. n + 1
  <2>1. i = n + 1 \/ i \in 1 .. n
    BY <1>1
  <2> QED
    BY <1>2, <2>1 DEF Begins
<1>4. Begins(b, s)
  BY <1>1, <1>2, <1>3 DEF Begins
<1> QED
  BY <1>4 DEF b

-----------------------------------------------------------------------------
(* What the stub has before it: what is left of a packet, or nothing, and  *)
(* then the packets behind the first m of s, whole.  Of those m it has     *)
(* handled a.                                                              *)

NoDollar == Char \ {Dollar}

Lays(line, t, s, m) == line = t \o Stream(Rest(s, m))

Reads(line, s, a) ==
  \E m \in Len(a) .. Len(s), t \in Seq(NoDollar) : Lays(line, t, s, m) /\ Upto(a, s, m)

LEMMA RestStream ==
  ASSUME NEW s \in Seq(Bodies), NEW m \in 0 .. Len(s)
  PROVE  Stream(Rest(s, m)) \in Seq(Char) /\ Rest(s, m) \in Seq(Bodies)
BY RestType, StreamType

LEMMA RestStreamHead ==
  ASSUME NEW s \in Seq(Bodies), NEW m \in 0 .. Len(s) - 1
  PROVE  /\ Stream(Rest(s, m)) = Packet(s[m + 1]) \o Stream(Rest(s, m + 1))
         /\ s[m + 1] \in Bodies
<1>1. /\ m \in 0 .. Len(s) /\ m + 1 \in 1 .. Len(s)
      /\ Rest(s, m) # <<>>
      /\ Head(Rest(s, m)) = s[m + 1]
      /\ Tail(Rest(s, m)) = Rest(s, m + 1)
  BY RestHead
<1>2. Rest(s, m) \in Seq(Bodies)
  BY <1>1, RestType
<1>3. Stream(Rest(s, m)) = Packet(Head(Rest(s, m))) \o Stream(Tail(Rest(s, m)))
  BY <1>1, <1>2, StreamHead
<1>4. s[m + 1] \in Bodies
  BY <1>1, ElementOfSeq
<1> QED
  BY <1>1, <1>3, <1>4

LEMMA NoDollarType ==
  ASSUME NEW t \in Seq(NoDollar)
  PROVE  t \in Seq(Char)
<1>1. NoDollar \subseteq Char
  BY DEF NoDollar
<1> QED
  BY <1>1, SeqMonotonic

(* A packet without its dollar.                                            *)
LEMMA PacketTail ==
  ASSUME NEW body \in Bodies
  PROVE  Packet(body) # <<>> /\ Head(Packet(body)) = Dollar /\ Tail(Packet(body)) \in Seq(NoDollar)
<1> DEFINE p == Packet(body)
           n == Len(body) + 3
<1>1. /\ p \in Seq(Char) /\ Len(p) = n + 1 /\ p[1] = Dollar /\ n \in Nat
      /\ \A i \in 2 .. n + 1 : p[i] # Dollar
  <2>1. /\ p \in Seq(Char) /\ Len(p) = Len(body) + 4 /\ p[1] = Dollar
        /\ \A i \in 2 .. Len(body) + 4 : p[i] # Dollar
    BY PacketShape
  <2>2. Len(body) \in Nat
    BY BodyType
  <2> HIDE DEF p
  <2>3. n \in Nat /\ Len(body) + 4 = n + 1
    BY <2>2
  <2> QED
    BY <2>1, <2>3
<1> HIDE DEF p, n
<1>2. p # <<>>
  BY <1>1, EmptySeq
<1>3. Head(p) = Dollar
  BY <1>1, <1>2
<1>4. /\ Tail(p) \in Seq(Char) /\ Len(Tail(p)) = n
      /\ \A i \in 1 .. n : Tail(p)[i] = p[i + 1]
  BY <1>1, <1>2, HeadTailProperties
<1> DEFINE t == Tail(p)
<1>5. \A i \in 1 .. n : t[i] \in NoDollar
  <2> TAKE i \in 1 .. n
  <2>1. i + 1 \in 2 .. n + 1 /\ i + 1 \in 1 .. Len(p)
    BY <1>1
  <2>2. p[i + 1] \in Char
    BY <1>1, <2>1, ElementOfSeq
  <2> QED
    BY <1>1, <1>4, <2>1, <2>2 DEF NoDollar
<1>6. t \in Seq(Char) /\ Len(t) = n
  BY <1>4
<1> HIDE DEF t
<1>7. t \in Seq(NoDollar)
  <2>1. t = [i \in 1 .. n |-> t[i]]
    BY <1>6, LenProperties
  <2>2. t \in [1 .. n -> NoDollar]
    BY <1>5, <2>1
  <2> QED
    BY <1>1, <2>2, SeqDef
<1> QED
  BY <1>2, <1>3, <1>7 DEF p, t

LEMMA ReadsDropOne ==
  ASSUME NEW line \in Seq(Char), line # <<>>,
         NEW s \in Seq(Bodies), NEW a \in Seq(Bodies), Reads(line, s, a)
  PROVE  Reads(Tail(line), s, a)
<1>1. PICK m \in Len(a) .. Len(s), t \in Seq(NoDollar) : Lays(line, t, s, m) /\ Upto(a, s, m)
  BY DEF Reads
<1>2. Len(a) \in Nat /\ Len(s) \in Nat /\ m \in Nat /\ m \in 0 .. Len(s)
  BY LenProperties
<1> DEFINE S == Stream(Rest(s, m))
<1>3. S \in Seq(Char) /\ t \in Seq(Char) /\ line = t \o S
  BY <1>1, <1>2, RestStream, NoDollarType DEF Lays
<1>4. CASE t # <<>>
  <2>1. Tail(line) = Tail(t) \o S
    <3> HIDE DEF S
    <3> QED
      BY <1>3, <1>4, HeadTailConcat
  <2>2. Tail(t) \in Seq(NoDollar)
    BY <1>4, HeadTailProperties
  <2>3. Lays(Tail(line), Tail(t), s, m)
    BY <2>1 DEF Lays
  <2> QED
    BY <1>1, <2>2, <2>3 DEF Reads
<1>5. CASE t = <<>>
  <2>1. line = S
    <3> HIDE DEF S
    <3> QED
      BY <1>3, <1>5, ConcatEmptySeq
  <2>2. m \in 0 .. Len(s) - 1
    <3>1. m # Len(s)
      BY <2>1, RestEnds, StreamEmpty
    <3> QED
      BY <1>2, <3>1
  <2> DEFINE P == Packet(s[m + 1])
             R == Stream(Rest(s, m + 1))
  <2>3. S = P \o R /\ s[m + 1] \in Bodies
    BY <2>2, RestStreamHead
  <2>4. P # <<>> /\ P \in Seq(Char) /\ Tail(P) \in Seq(NoDollar)
    BY <2>3, PacketShape, PacketTail
  <2>5. R \in Seq(Char)
    <3>1. m + 1 \in 0 .. Len(s)
      BY <1>2, <2>2
    <3> QED
      BY <3>1, RestStream
  <2>6. Tail(line) = Tail(P) \o R
    <3> HIDE DEF P, R, S
    <3> QED
      BY <2>1, <2>3, <2>4, <2>5, HeadTailConcat
  <2>7. Lays(Tail(line), Tail(P), s, m + 1)
    BY <2>6 DEF Lays
  <2>8. m + 1 \in Len(a) .. Len(s) /\ m + 1 \in Nat /\ m <= m + 1
    BY <1>2, <2>2
  <2>9. Upto(a, s, m + 1)
    BY <1>1, <1>2, <2>8, UptoGrows
  <2> HIDE DEF P, R, S
  <2> QED
    BY <2>4, <2>7, <2>8, <2>9 DEF Reads
<1> QED
  BY <1>4, <1>5

(* Whatever onData throws away, what it reads next is the rest of a packet *)
(* and then packets.                                                       *)
LEMMA ReadsDrop ==
  ASSUME NEW u \in Seq(Char), NEW v \in Seq(Char),
         NEW s \in Seq(Bodies), NEW a \in Seq(Bodies), Reads(u \o v, s, a)
  PROVE  Reads(v, s, a)
<1> DEFINE T == { n \in Nat : \A w \in Seq(Char) :
                    Len(w) = n /\ Reads(w \o v, s, a) => Reads(v, s, a) }
<1>1. 0 \in T
  <2> SUFFICES ASSUME NEW w \in Seq(Char), Len(w) = 0, Reads(w \o v, s, a)
               PROVE  Reads(v, s, a)
    OBVIOUS
  <2>1. w = <<>>
    BY EmptySeq
  <2>2. w \o v = v
    BY <2>1, ConcatEmptySeq
  <2> QED
    BY <2>2
<1>2. ASSUME NEW n \in Nat, n \in T
      PROVE  n + 1 \in T
  <2> SUFFICES ASSUME NEW w \in Seq(Char), Len(w) = n + 1, Reads(w \o v, s, a)
               PROVE  Reads(v, s, a)
    OBVIOUS
  <2>1. w # <<>>
    BY EmptySeq
  <2>2. w \o v \in Seq(Char) /\ w \o v # <<>> /\ Tail(w \o v) = Tail(w) \o v
    BY <2>1, ConcatProperties, HeadTailConcat
  <2>3. Reads(Tail(w) \o v, s, a)
    <3> DEFINE c == w \o v
    <3>1. c \in Seq(Char) /\ c # <<>> /\ Reads(c, s, a) /\ Tail(c) = Tail(w) \o v
      BY <2>2
    <3> HIDE DEF c
    <3>2. Reads(Tail(c), s, a)
      BY <3>1, ReadsDropOne
    <3> QED
      BY <3>1, <3>2
  <2>4. Tail(w) \in Seq(Char) /\ Len(Tail(w)) = n
    BY <2>1, HeadTailProperties
  <2> QED
    BY <1>2, <2>3, <2>4
<1> HIDE DEF T
<1>3. Len(u) \in Nat /\ Len(u) \in T
  BY <1>1, <1>2, SetInduction, LenProperties
<1> QED
  BY <1>3 DEF T

(* A request is put behind what is there.                                  *)
LEMMA LaysAppend ==
  ASSUME NEW line \in Seq(Char), NEW t \in Seq(NoDollar), NEW s \in Seq(Bodies),
         NEW m \in 0 .. Len(s), Lays(line, t, s, m), NEW body \in Bodies
  PROVE  Lays(line \o Packet(body), t, Append(s, body), m)
<1> DEFINE S == Stream(Rest(s, m))
           P == Packet(body)
<1>1. S \in Seq(Char) /\ t \in Seq(Char) /\ P \in Seq(Char) /\ line = t \o S
  BY RestStream, NoDollarType, PacketShape DEF Lays
<1>2. Stream(Rest(Append(s, body), m)) = S \o P
  <2>1. Rest(Append(s, body), m) = Append(Rest(s, m), body)
    BY RestAppend
  <2>2. Rest(s, m) \in Seq(Bodies)
    BY RestStream
  <2> QED
    BY <2>1, <2>2, StreamAppend
<1>3. line \o P = t \o (S \o P)
  <2> HIDE DEF S, P
  <2> QED
    BY <1>1, Regroup
<1> HIDE DEF S
<1> QED
  BY <1>2, <1>3 DEF Lays

LEMMA ReadsAppend ==
  ASSUME NEW line \in Seq(Char), NEW s \in Seq(Bodies), NEW a \in Seq(Bodies),
         Reads(line, s, a), NEW body \in Bodies
  PROVE  Reads(line \o Packet(body), Append(s, body), a)
<1>1. PICK m \in Len(a) .. Len(s), t \in Seq(NoDollar) : Lays(line, t, s, m) /\ Upto(a, s, m)
  BY DEF Reads
<1>2. m \in 0 .. Len(s) /\ m \in Len(a) .. Len(Append(s, body))
  <2>1. Len(a) \in Nat /\ Len(s) \in Nat /\ Len(Append(s, body)) = Len(s) + 1
    BY LenProperties, AppendProperties
  <2> QED
    BY <2>1
<1>3. Lays(line \o Packet(body), t, Append(s, body), m)
  BY <1>1, <1>2, LaysAppend
<1>4. Upto(a, Append(s, body), m)
  BY <1>1, <1>2, UptoAppend
<1> QED
  BY <1>2, <1>3, <1>4 DEF Reads

(* What matches where a packet begins is that packet, and the next one     *)
(* comes then.                                                             *)
LEMMA StreamMatch ==
  ASSUME NEW u \in Seq(Char), NEW v \in Seq(Char), NEW s \in Seq(Bodies),
         NEW m \in 0 .. Len(s), Lays(u \o v, <<>>, s, m), NEW h \in Matches(u)
  PROVE  /\ m \in 0 .. Len(s) - 1 /\ m + 1 \in 1 .. Len(s)
         /\ SubSeq(u, 2, h - 1) = s[m + 1]
         /\ Intact(u, h)
         /\ After(u, h) \in Seq(Char)
         /\ Lays(After(u, h) \o v, <<>>, s, m + 1)
<1> DEFINE S == Stream(Rest(s, m))
           P == Packet(s[m + 1])
           R == Stream(Rest(s, m + 1))
<1>1. u # <<>>
  BY MatchStarts
<1>2. u \o v = S /\ u \o v # <<>>
  <2>1. S \in Seq(Char)
    BY RestStream
  <2>2. u \o v = <<>> \o S
    BY DEF Lays
  <2> HIDE DEF S
  <2> QED
    BY <1>1, <2>1, <2>2, ConcatEmptySeq, HeadTailConcat
<1>3. m \in 0 .. Len(s) - 1 /\ m + 1 \in 1 .. Len(s) /\ m + 1 \in 0 .. Len(s)
  <2>1. m # Len(s)
    BY <1>2, RestEnds, StreamEmpty
  <2> QED
    BY <2>1, LenProperties
<1>4. S = P \o R /\ s[m + 1] \in Bodies /\ R \in Seq(Char)
  BY <1>3, RestStreamHead, RestStream
<1>5. Same(u, v, P, R)
  <2> HIDE DEF S, P, R
  <2> QED
    BY <1>2, <1>4 DEF Same
<1>6. /\ SubSeq(u, 2, h - 1) = s[m + 1]
      /\ Intact(u, h)
      /\ After(u, h) \in Seq(Char)
      /\ Same(After(u, h), v, <<>>, R)
  <2> HIDE DEF R
  <2> QED
    BY <1>4, <1>5, MatchIsPacket
<1>7. Lays(After(u, h) \o v, <<>>, s, m + 1)
  BY <1>6 DEF Same, Lays
<1> QED
  BY <1>3, <1>6, <1>7

LEMMA ReadsMatch ==
  ASSUME NEW u \in Seq(Char), NEW v \in Seq(Char),
         NEW s \in Seq(Bodies), NEW a \in Seq(Bodies), Reads(u \o v, s, a), NEW h \in Matches(u)
  PROVE  /\ \E k \in 1 .. Len(s) : SubSeq(u, 2, h - 1) = s[k]
         /\ Intact(u, h)
         /\ After(u, h) \in Seq(Char)
         /\ Reads(After(u, h) \o v, s, Append(a, SubSeq(u, 2, h - 1)))
<1>1. PICK m \in Len(a) .. Len(s), t \in Seq(NoDollar) : Lays(u \o v, t, s, m) /\ Upto(a, s, m)
  BY DEF Reads
<1>2. Len(a) \in Nat /\ Len(s) \in Nat /\ m \in Nat /\ m \in 0 .. Len(s) /\ Len(a) <= m
  BY LenProperties
<1>3. t = <<>>
  <2> SUFFICES ASSUME t # <<>>
               PROVE  FALSE
    OBVIOUS
  <2> DEFINE S == Stream(Rest(s, m))
  <2>1. u \o v = t \o S /\ S \in Seq(Char) /\ t \in Seq(Char)
    BY <1>1, <1>2, RestStream, NoDollarType DEF Lays
  <2> HIDE DEF S
  <2>2. Head(u \o v) = Head(t)
    BY <2>1, HeadTailConcat
  <2>3. Head(u \o v) = Dollar
    BY MatchStarts, HeadTailConcat
  <2>4. Head(t) \in NoDollar
    BY HeadTailProperties
  <2> QED
    BY <2>2, <2>3, <2>4 DEF NoDollar
<1>4. /\ m \in 0 .. Len(s) - 1 /\ m + 1 \in 1 .. Len(s)
      /\ SubSeq(u, 2, h - 1) = s[m + 1]
      /\ Intact(u, h)
      /\ After(u, h) \in Seq(Char)
      /\ Lays(After(u, h) \o v, <<>>, s, m + 1)
  BY <1>1, <1>2, <1>3, StreamMatch
<1> DEFINE b == Append(a, s[m + 1])
<1>5. Upto(b, s, m + 1)
  BY <1>1, <1>2, <1>4, UptoNext
<1>6. m + 1 \in Len(b) .. Len(s) /\ <<>> \in Seq(NoDollar)
  <2>1. s[m + 1] \in Bodies
    BY <1>4, ElementOfSeq
  <2>2. Len(b) = Len(a) + 1
    BY <2>1, AppendProperties
  <2> HIDE DEF b
  <2> QED
    BY <1>2, <1>4, <2>2, EmptySeq
<1> HIDE DEF b
<1>7. Reads(After(u, h) \o v, s, b)
  BY <1>4, <1>5, <1>6 DEF Reads
<1> QED
  BY <1>4, <1>7 DEF b

(* Where whole packets are, one matches.                                   *)
LEMMA StreamMatches ==
  ASSUME NEW s \in Seq(Bodies), Stream(s) # <<>>
  PROVE  /\ Head(Stream(s)) # Plus
         /\ \E h \in Matches(Stream(s)) : Intact(Stream(s), h)
<1>1. s # <<>>
  BY StreamEmpty
<1>2. Head(s) \in Bodies /\ Tail(s) \in Seq(Bodies)
  BY <1>1, HeadTailProperties
<1> DEFINE P == Packet(Head(s))
           R == Stream(Tail(s))
           h == Len(Head(s)) + 2
<1>3. Stream(s) = P \o R /\ R \in Seq(Char)
  BY <1>1, <1>2, StreamHead, StreamType
<1>4. h \in Matches(P \o R) /\ Intact(P \o R, h)
  <2> HIDE DEF R
  <2> QED
    BY <1>2, <1>3, PacketMatches
<1>5. Head(P \o R) = Dollar
  <2>1. P \in Seq(Char) /\ P # <<>> /\ Head(P) = Dollar
    BY <1>2, PacketShape, PacketTail
  <2> HIDE DEF P, R
  <2> QED
    BY <1>3, <2>1, HeadTailConcat
<1> HIDE DEF P, R, h
<1> QED
  BY <1>3, <1>4, <1>5 DEF Dollar, Plus

-----------------------------------------------------------------------------
(* What the client has before it.                                          *)

LEMMA CarriesAck ==
  ASSUME NEW u \in Seq(Char), NEW v \in Seq(Char), NEW s, Carries(u \o v, s),
         u # <<>>, Head(u) = Plus
  PROVE  Carries(Tail(u) \o v, s)
<1> DEFINE x == u \o v
<1>1. x # <<>> /\ Head(x) = Plus /\ Tail(x) = Tail(u) \o v
  BY HeadTailConcat
<1>2. Starts(x, s)
  BY CarriesStarts
<1> HIDE DEF x
<1>3. CASE Carries(Tail(x), s)
  BY <1>1, <1>3
<1>4. CASE /\ s # <<>>
           /\ \E y \in Seq(Char) : x = Packet(Head(s)) \o y /\ Carries(y, Tail(s))
  <2>1. PICK y \in Seq(Char) : x = Packet(Head(s)) \o y
    BY <1>4
  <2>2. Head(s) \in Bodies
    <3>1. s \in Seq(Bodies)
      BY CarriesType
    <3> QED
      BY <1>4, <3>1, HeadTailProperties
  <2> DEFINE P == Packet(Head(s))
  <2>3. P \in Seq(Char) /\ P # <<>> /\ Head(P) = Dollar
    BY <2>2, PacketShape, PacketTail
  <2>4. Head(x) = Dollar
    <3>1. x = P \o y
      BY <2>1
    <3> HIDE DEF P
    <3> QED
      BY <2>3, <3>1, HeadTailConcat
  <2> QED
    BY <1>1, <2>4 DEF Dollar, Plus
<1> QED
  BY <1>1, <1>2, <1>3, <1>4 DEF Starts

LEMMA CarriesMatch ==
  ASSUME NEW u \in Seq(Char), NEW v \in Seq(Char), NEW s, Carries(u \o v, s),
         NEW h \in Matches(u)
  PROVE  /\ s # <<>>
         /\ SubSeq(u, 2, h - 1) = Head(s)
         /\ Intact(u, h)
         /\ After(u, h) \in Seq(Char)
         /\ Carries(After(u, h) \o v, Tail(s))
<1> DEFINE x == u \o v
<1>1. x # <<>> /\ Head(x) # Plus
  BY MatchStarts, HeadTailConcat
<1>2. Starts(x, s)
  BY CarriesStarts
<1>3. s # <<>> /\ \E y \in Seq(Char) : x = Packet(Head(s)) \o y /\ Carries(y, Tail(s))
  <2> HIDE DEF x
  <2> QED
    BY <1>1, <1>2 DEF Starts
<1>4. PICK y \in Seq(Char) : x = Packet(Head(s)) \o y /\ Carries(y, Tail(s))
  BY <1>3
<1>5. Head(s) \in Bodies
  <2>1. s \in Seq(Bodies)
    BY CarriesType
  <2> QED
    BY <1>3, <2>1, HeadTailProperties
<1>6. Same(u, v, Packet(Head(s)), y)
  BY <1>4 DEF Same
<1>7. /\ SubSeq(u, 2, h - 1) = Head(s)
      /\ Intact(u, h)
      /\ After(u, h) \in Seq(Char)
      /\ Same(After(u, h), v, <<>>, y)
  BY <1>5, <1>6, MatchIsPacket
<1>8. After(u, h) \o v = y
  <2>1. <<>> \o y = y
    BY ConcatEmptySeq
  <2> QED
    BY <1>7, <2>1 DEF Same
<1> QED
  BY <1>3, <1>4, <1>7, <1>8

LEMMA CarriesMatches ==
  ASSUME NEW x, NEW s, Carries(x, s), x # <<>>, Head(x) # Plus
  PROVE  \E h \in Matches(x) : Intact(x, h)
<1>1. s # <<>> /\ \E y \in Seq(Char) : x = Packet(Head(s)) \o y /\ Carries(y, Tail(s))
  BY CarriesStarts DEF Starts
<1>2. PICK y \in Seq(Char) : x = Packet(Head(s)) \o y
  BY <1>1
<1>3. Head(s) \in Bodies
  <2>1. s \in Seq(Bodies)
    BY CarriesType
  <2> QED
    BY <1>1, <2>1, HeadTailProperties
<1> DEFINE h == Len(Head(s)) + 2
<1>4. h \in Matches(Packet(Head(s)) \o y) /\ Intact(Packet(Head(s)) \o y, h)
  BY <1>3, PacketMatches
<1> HIDE DEF h
<1> QED
  BY <1>2, <1>4

-----------------------------------------------------------------------------
(* Counting, and what recv returns.                                        *)

LEMMA CountAppend ==
  ASSUME NEW T, NEW s \in Seq(T), NEW e \in T, NEW S
  PROVE  /\ Cardinality(Places(s, S)) \in Nat
         /\ Cardinality(Places(Append(s, e), S))
              = Cardinality(Places(s, S)) + (IF e \in S THEN 1 ELSE 0)
<1> DEFINE t == Append(s, e)
<1>1. t \in Seq(T)
  BY AppendProperties
<1>2. Only(t, S) = IF e \in S THEN Append(Only(s, S), e) ELSE Only(s, S)
  BY OnlyAppend
<1> HIDE DEF t
<1>3. Len(Only(t, S)) = Cardinality(Places(t, S))
  BY <1>1, OnlyType
<1>4. Len(Only(s, S)) = Cardinality(Places(s, S)) /\ Only(s, S) \in Seq(T)
  BY OnlyType
<1>5. Cardinality(Places(s, S)) \in Nat
  BY <1>4, LenProperties
<1>6. Cardinality(Places(t, S)) = Cardinality(Places(s, S)) + (IF e \in S THEN 1 ELSE 0)
  <2>1. CASE e \in S
    <3>1. Len(Append(Only(s, S), e)) = Len(Only(s, S)) + 1
      BY <1>4, AppendProperties
    <3> QED
      BY <1>2, <1>3, <1>4, <2>1, <3>1
  <2>2. CASE e \notin S
    BY <1>2, <1>3, <1>4, <1>5, <2>2
  <2> QED
    BY <2>1, <2>2
<1> QED
  BY <1>5, <1>6 DEF t

LEMMA CountBegins ==
  ASSUME NEW T, NEW a \in Seq(T), NEW s \in Seq(T), Begins(a, s), NEW S
  PROVE  Cardinality(Places(a, S)) <= Cardinality(Places(s, S))
<1>1. IsFiniteSet(Places(s, S))
  BY PlacesType
<1>2. Places(a, S) \in SUBSET Places(s, S)
  <2>1. Len(a) \in Nat /\ Len(s) \in Nat /\ Len(a) <= Len(s)
    BY LenProperties DEF Begins
  <2>2. \A i \in 1 .. Len(a) : i \in 1 .. Len(s) /\ a[i] = s[i]
    BY <2>1 DEF Begins
  <2> QED
    BY <2>2 DEF Places
<1> QED
  BY <1>1, <1>2, FS_Subset

LEMMA RecvType ==
  ASSUME NEW s \in Seq(Char), s # <<>>, NEW n \in Returned(s)
  PROVE  /\ n \in 1 .. Len(s)
         /\ SubSeq(s, 1, n) \in Seq(Char) /\ Rest(s, n) \in Seq(Char)
         /\ SubSeq(s, 1, n) \o Rest(s, n) = s
         /\ ~(n < Len(s)) => SubSeq(s, 1, n) = s /\ Rest(s, n) = <<>>
<1> DEFINE k == Len(s)
           most == IF k < Chunk THEN k ELSE Chunk
<1>1. k \in Nat /\ k # 0 /\ Chunk \in Nat /\ Chunk # 0
  BY LenProperties, EmptySeq, FramingAssumption
<1>2. n \in 1 .. most \/ n = most
  BY DEF Returned
<1>3. n \in 1 .. k
  BY <1>1, <1>2
<1>4. ~(n < k) => n = k
  BY <1>1, <1>3
<1>5. SubSeq(s, 1, k) = s /\ Rest(s, k) = <<>>
  BY SubSeqFull, RestEnds
<1> QED
  BY <1>3, <1>4, <1>5, RestJoin

-----------------------------------------------------------------------------
(* The invariant.                                                          *)

(* The stub is where a packet begins, or in what a cut has left of one.    *)
StubReads == Reads(inp \o toServer, asked, handled)

(* The client never is in a packet: it stops rather than go on from there. *)
ClientReads ==
  /\ Begins(taken, replied)
  /\ cli = "up" => Carries(receiveBuffer \o toClient, Rest(replied, Len(taken)))

Counts ==
  /\ waiting = Len(asked) - Cardinality(Places(taken, Replies))
  /\ Len(handled) = Cardinality(Places(replied, Replies)) + (IF srv = "reply" THEN 1 ELSE 0)

(* As long as recv has returned all there was, both are where a packet     *)
(* begins and have only whole packets before them.                         *)
StubWhole ==
  /\ Lays(inp \o toServer, <<>>, asked, Len(handled))
  /\ \E s \in Seq(Bodies) : inp = Stream(s)

ClientWhole == cli = "up" /\ \E s : Carries(receiveBuffer, s)

Stages == srv # "down" /\ (srv = "select" => inp = <<>>)

IInv ==
  /\ FramingTypeOK
  /\ Stages
  /\ StubReads
  /\ ClientReads
  /\ Counts
  /\ ~split => StubWhole
  /\ ~split => ClientWhole

Types ==
  /\ cuts \in BOOLEAN /\ noAckMode \in BOOLEAN /\ split \in BOOLEAN
  /\ toServer \in Seq(Char) /\ toClient \in Seq(Char)
  /\ inp \in Seq(Char) /\ receiveBuffer \in Seq(Char)
  /\ srv \in {"select", "data", "reply", "down"} /\ cli \in {"up", "down"}
  /\ waiting \in 0 .. Window
  /\ asked \in Seq(Requests) /\ handled \in Seq(Requests)
  /\ replied \in Seq(Replies \cup {Report}) /\ taken \in Seq(Replies \cup {Report})

LEMMA TypesSame ==
  (FramingTypeOK <=> Types) /\ (FramingTypeOK' <=> Types')
BY DEF FramingTypeOK, Types

LEMMA TypesBodies ==
  ASSUME Types
  PROVE  /\ asked \in Seq(Bodies) /\ handled \in Seq(Bodies)
         /\ replied \in Seq(Bodies) /\ taken \in Seq(Bodies)
         /\ Requests \subseteq Bodies /\ Replies \subseteq Bodies /\ Report \in Bodies
<1>1. Requests \subseteq Bodies /\ Replies \cup {Report} \subseteq Bodies
  BY DEF Bodies
<1> QED
  BY <1>1, SeqMonotonic DEF Types

LEMMA InitInv ==
  Init => IInv
<1> SUFFICES ASSUME Init
             PROVE  IInv
  OBVIOUS
<1>1. \A T : <<>> \in Seq(T) /\ Len(<<>>) = 0
  BY EmptySeq
<1>2. Types
  <2>1. 0 \in 0 .. Window
    BY FramingAssumption
  <2> QED
    BY <1>1, <2>1 DEF Init, Types
<1>3. Stages
  BY DEF Init, Stages
<1>4. <<>> \o <<>> = <<>> /\ Rest(<<>>, 0) = <<>>
  <2>1. <<>> \in Seq(Char)
    BY <1>1
  <2> QED
    BY <1>1, <2>1, ConcatEmptySeq, RestEnds
<1>5. Lays(<<>>, <<>>, <<>>, 0)
  BY <1>4, StreamEmpty DEF Lays
<1>6. StubReads
  <2>1. Upto(<<>>, <<>>, 0)
    <3> DEFINE at == [i \in 1 .. 0 |-> i]
    <3>1. at \in [1 .. Len(<<>>) -> 1 .. 0] /\ \A i \in 1 .. Len(<<>>) : FALSE
      <4>1. Len(<<>>) = 0 /\ 1 .. 0 = {}
        BY <1>1
      <4> QED
        BY <4>1
    <3> HIDE DEF at
    <3> QED
      BY <3>1 DEF Upto
  <2>2. 0 \in 0 .. 0
    OBVIOUS
  <2>3. Reads(<<>>, <<>>, <<>>)
    BY <1>1, <1>5, <2>1, <2>2 DEF Reads
  <2> QED
    BY <1>4, <2>3 DEF Init, StubReads
<1>7. ClientReads
  <2>1. Begins(<<>>, <<>>)
    BY <1>1 DEF Begins
  <2> QED
    BY <1>1, <1>4, <2>1, CarriesNothing DEF Init, ClientReads
<1>8. Counts
  <2>1. Places(<<>>, Replies) = {}
    <3>1. 1 .. 0 = {}
      OBVIOUS
    <3> QED
      BY <1>1, <3>1 DEF Places
  <2>2. Cardinality({}) = 0
    BY FS_EmptySet
  <2> QED
    BY <1>1, <2>1, <2>2 DEF Init, Counts
<1>9. StubWhole
  <2>1. <<>> \in Seq(Bodies) /\ <<>> = Stream(<<>>)
    BY <1>1, StreamEmpty
  <2> QED
    BY <1>1, <1>4, <1>5, <2>1 DEF Init, StubWhole
<1>10. ClientWhole
  BY CarriesNothing DEF Init, ClientWhole
<1> QED
  BY <1>2, <1>3, <1>6, <1>7, <1>8, <1>9, <1>10, TypesSame DEF IInv

LEMMA ClientSendInv ==
  ASSUME IInv, ClientSend
  PROVE  IInv'
<1> USE DEF clientVars, stubVars
<1>1. Types
  BY TypesSame DEF IInv
<1>2. PICK body \in Requests : /\ toServer' = toServer \o Packet(body)
                              /\ asked' = Append(asked, body)
  BY DEF ClientSend
<1> DEFINE P == Packet(body)
<1>3. body \in Bodies /\ P \in Seq(Char) /\ asked \in Seq(Bodies) /\ handled \in Seq(Bodies)
  BY <1>1, <1>2, TypesBodies, PacketShape
<1>4. UNCHANGED <<cuts, noAckMode, toClient, srv, inp, handled, replied, cli, receiveBuffer, split, taken>>
  BY DEF ClientSend
<1>5. inp \in Seq(Char) /\ toServer \in Seq(Char) /\ inp \o toServer \in Seq(Char)
  BY <1>1, ConcatProperties DEF Types
<1> HIDE DEF P
<1>6. (inp \o toServer)' = (inp \o toServer) \o P
  BY <1>2, <1>3, <1>4, <1>5, Regroup DEF P
<1>7. Types'
  <2>1. toServer' \in Seq(Char)
    BY <1>2, <1>3, <1>5, ConcatProperties DEF P
  <2>2. asked' \in Seq(Requests)
    BY <1>1, <1>2, AppendProperties DEF Types
  <2>3. waiting' \in 0 .. Window
    <3>1. waiting' = waiting + 1 /\ waiting < Window /\ Window \in Nat
      BY FramingAssumption DEF ClientSend
    <3> QED
      BY <1>1, <3>1 DEF Types
  <2> QED
    BY <1>1, <1>4, <2>1, <2>2, <2>3 DEF Types
<1>8. Stages'
  BY <1>4 DEF IInv, Stages
<1>9. StubReads'
  <2>1. Reads((inp \o toServer) \o P, Append(asked, body), handled)
    BY <1>3, <1>5, ReadsAppend DEF IInv, StubReads, P
  <2> QED
    BY <1>2, <1>4, <1>6, <2>1 DEF StubReads
<1>10. ClientReads'
  BY <1>4 DEF IInv, ClientReads
<1>11. Counts'
  <2>1. Len(asked') = Len(asked) + 1 /\ Len(asked) \in Nat
    BY <1>2, <1>3, AppendProperties, LenProperties
  <2>2. Cardinality(Places(taken, Replies)) \in Nat
    BY <1>1, PlacesType DEF Types
  <2>3. waiting' = waiting + 1
    BY DEF ClientSend
  <2> QED
    BY <1>4, <2>1, <2>2, <2>3 DEF IInv, Counts
<1>12. ~split' => StubWhole'
  <2> SUFFICES ASSUME ~split
               PROVE  StubWhole'
    BY <1>4
  <2>1. Lays(inp \o toServer, <<>>, asked, Len(handled)) /\ Len(handled) \in 0 .. Len(asked)
    <3>1. Len(handled) \in Nat /\ Len(asked) \in Nat
      BY <1>3, LenProperties
    <3> QED
      BY <3>1 DEF IInv, StubWhole, StubReads, Reads
  <2>2. Lays((inp \o toServer) \o P, <<>>, Append(asked, body), Len(handled))
    <3>1. <<>> \in Seq(NoDollar)
      BY EmptySeq
    <3> QED
      BY <1>3, <1>5, <2>1, <3>1, LaysAppend DEF P
  <2> QED
    BY <1>2, <1>4, <1>6, <2>2 DEF IInv, StubWhole
<1>13. ~split' => ClientWhole'
  BY <1>4 DEF IInv, ClientWhole
<1> QED
  BY <1>7, <1>8, <1>9, <1>10, <1>11, <1>12, <1>13, TypesSame DEF IInv

LEMMA ClientRecvInv ==
  ASSUME IInv, ClientRecv
  PROVE  IInv'
<1> USE DEF clientVars, stubVars
<1>1. Types
  BY TypesSame DEF IInv
<1>2. PICK n \in Returned(toClient) :
        /\ receiveBuffer' = SubSeq(toClient, 1, n)
        /\ toClient' = Rest(toClient, n)
        /\ split' = (split \/ n < Len(toClient))
  BY DEF ClientRecv
<1>3. toClient \in Seq(Char) /\ toClient # <<>> /\ receiveBuffer = <<>> /\ cli = "up"
  BY <1>1 DEF Types, ClientRecv
<1>4. UNCHANGED <<cuts, noAckMode, toServer, srv, inp, handled, replied, cli, waiting, asked, taken>>
  BY DEF ClientRecv
<1>5. /\ receiveBuffer' \in Seq(Char) /\ toClient' \in Seq(Char)
      /\ (receiveBuffer \o toClient)' = toClient
      /\ ~split' => receiveBuffer' = toClient
  BY <1>2, <1>3, RecvType
<1>6. Types'
  <2>1. split' \in BOOLEAN
    BY <1>2
  <2> QED
    BY <1>1, <1>4, <1>5, <2>1 DEF Types
<1>7. Stages' /\ StubReads' /\ Counts'
  BY <1>4 DEF IInv, Stages, StubReads, Counts
<1>8. ClientReads'
  <2>1. receiveBuffer \o toClient = toClient
    BY <1>3, ConcatEmptySeq
  <2> QED
    BY <1>3, <1>4, <1>5, <2>1 DEF IInv, ClientReads
<1>9. ~split' => StubWhole'
  BY <1>2, <1>4 DEF IInv, StubWhole
<1>10. ~split' => ClientWhole'
  <2> SUFFICES ASSUME ~split'
               PROVE  ClientWhole'
    OBVIOUS
  <2>1. receiveBuffer \o toClient = receiveBuffer'
    BY <1>3, <1>5, ConcatEmptySeq
  <2>2. Carries(receiveBuffer', Rest(replied, Len(taken)))
    BY <1>3, <2>1 DEF IInv, ClientReads
  <2> QED
    BY <1>3, <1>4, <2>2 DEF ClientWhole
<1> QED
  BY <1>6, <1>7, <1>8, <1>9, <1>10, TypesSame DEF IInv

LEMMA ClientAckInv ==
  ASSUME IInv, ClientAck
  PROVE  IInv'
<1> USE DEF clientVars, stubVars
<1>1. Types
  BY TypesSame DEF IInv
<1>2. /\ receiveBuffer \in Seq(Char) /\ toClient \in Seq(Char) /\ receiveBuffer # <<>>
      /\ Head(receiveBuffer) = Plus /\ cli = "up" /\ receiveBuffer' = Tail(receiveBuffer)
  BY <1>1 DEF Types, ClientAck, Looking
<1>3. UNCHANGED <<cuts, noAckMode, toServer, toClient, srv, inp, handled, replied, cli, waiting, split, asked, taken>>
  BY DEF ClientAck
<1>4. Types'
  <2>1. receiveBuffer' \in Seq(Char)
    BY <1>2, HeadTailProperties
  <2> QED
    BY <1>1, <1>3, <2>1 DEF Types
<1>5. Stages' /\ StubReads' /\ Counts'
  BY <1>3 DEF IInv, Stages, StubReads, Counts
<1>6. ClientReads'
  <2>1. Carries(Tail(receiveBuffer) \o toClient, Rest(replied, Len(taken)))
    BY <1>2, CarriesAck DEF IInv, ClientReads
  <2> QED
    BY <1>2, <1>3, <2>1 DEF IInv, ClientReads
<1>7. ~split' => StubWhole'
  BY <1>3 DEF IInv, StubWhole
<1>8. ~split' => ClientWhole'
  <2> SUFFICES ASSUME ~split
               PROVE  ClientWhole'
    BY <1>3
  <2>1. PICK s : Carries(receiveBuffer, s)
    BY DEF IInv, ClientWhole
  <2>2. receiveBuffer \o <<>> = receiveBuffer /\ <<>> \in Seq(Char) /\ Tail(receiveBuffer) \in Seq(Char)
    BY <1>2, ConcatEmptySeq, EmptySeq, HeadTailProperties
  <2>3. Tail(receiveBuffer) \o <<>> = Tail(receiveBuffer)
    BY <2>2, ConcatEmptySeq
  <2>4. Carries(Tail(receiveBuffer) \o <<>>, s)
    BY <1>2, <2>1, <2>2, CarriesAck
  <2> QED
    BY <1>2, <1>3, <2>3, <2>4 DEF ClientWhole
<1> QED
  BY <1>4, <1>5, <1>6, <1>7, <1>8, TypesSame DEF IInv

(* No more calls have been answered than requests were sent.               *)
LEMMA AnsweredBound ==
  ASSUME Types, StubReads, Counts, NEW s \in Seq(Replies \cup {Report}), Begins(s, replied)
  PROVE  /\ Cardinality(Places(s, Replies)) \in Nat
         /\ Cardinality(Places(s, Replies)) <= Len(asked)
         /\ Len(asked) \in Nat
<1>1. replied \in Seq(Replies \cup {Report})
  BY DEF Types
<1>2. Cardinality(Places(s, Replies)) <= Cardinality(Places(replied, Replies))
  BY <1>1, CountBegins
<1>3. Cardinality(Places(s, Replies)) \in Nat /\ Cardinality(Places(replied, Replies)) \in Nat
  BY <1>1, PlacesType
<1>4. Len(asked) \in Nat /\ Len(handled) \in Nat
  BY LenProperties DEF Types
<1>5. Len(handled) <= Len(asked)
  BY <1>4 DEF StubReads, Reads
<1>6. Cardinality(Places(replied, Replies)) <= Len(handled)
  BY <1>3, <1>4 DEF Counts
<1> QED
  BY <1>2, <1>3, <1>4, <1>5, <1>6

LEMMA ClientPacketInv ==
  ASSUME IInv, ClientPacket
  PROVE  IInv'
<1> USE DEF clientVars, stubVars
<1>1. Types
  BY TypesSame DEF IInv
<1>2. PICK h \in Matches(receiveBuffer) :
        /\ taken' = Append(taken, SubSeq(receiveBuffer, 2, h - 1))
        /\ waiting' = IF SubSeq(receiveBuffer, 2, h - 1) = Report THEN waiting ELSE waiting - 1
        /\ receiveBuffer' = After(receiveBuffer, h)
  BY DEF ClientPacket
<1>3. UNCHANGED <<cuts, noAckMode, toServer, toClient, srv, inp, handled, replied, cli, split, asked>>
  BY DEF ClientPacket
<1>4. /\ receiveBuffer \in Seq(Char) /\ toClient \in Seq(Char) /\ cli = "up"
      /\ replied \in Seq(Replies \cup {Report}) /\ taken \in Seq(Replies \cup {Report})
      /\ Begins(taken, replied)
  BY <1>1 DEF Types, ClientPacket, Looking, IInv, ClientReads
<1> DEFINE n == Len(taken)
           body == SubSeq(receiveBuffer, 2, h - 1)
           R == Rest(replied, n)
<1>5. Carries(receiveBuffer \o toClient, R)
  BY <1>4 DEF IInv, ClientReads
<1>6. /\ R # <<>>
      /\ body = Head(R)
      /\ After(receiveBuffer, h) \in Seq(Char)
      /\ Carries(After(receiveBuffer, h) \o toClient, Tail(R))
  <2> HIDE DEF R
  <2> QED
    BY <1>4, <1>5, CarriesMatch
<1>7. n \in 0 .. Len(replied) - 1 /\ n + 1 \in 1 .. Len(replied)
  <2>1. n \in Nat /\ Len(replied) \in Nat /\ n <= Len(replied)
    BY <1>4, LenProperties DEF Begins
  <2>2. n # Len(replied)
    BY <1>4, <1>6, RestEnds
  <2> QED
    BY <2>1, <2>2
<1>8. body = replied[n + 1] /\ Tail(R) = Rest(replied, n + 1)
  BY <1>4, <1>6, <1>7, RestHead
<1>9. /\ body \in Replies \cup {Report}
      /\ taken' = Append(taken, body) /\ Len(taken') = n + 1
      /\ taken' \in Seq(Replies \cup {Report})
      /\ Begins(taken', replied)
  <2>1. body \in Replies \cup {Report}
    BY <1>4, <1>7, <1>8, ElementOfSeq
  <2>2. Begins(Append(taken, replied[n + 1]), replied)
    BY <1>4, <1>7, BeginsNext
  <2>3. taken' = Append(taken, body)
    BY <1>2
  <2> HIDE DEF body
  <2> QED
    BY <1>4, <1>8, <2>1, <2>2, <2>3, AppendProperties
<1>10. waiting' = Len(asked) - Cardinality(Places(taken', Replies))
  <2>1. /\ Cardinality(Places(taken, Replies)) \in Nat
        /\ Cardinality(Places(taken', Replies))
              = Cardinality(Places(taken, Replies)) + (IF body \in Replies THEN 1 ELSE 0)
    <3> HIDE DEF body
    <3> QED
      BY <1>4, <1>9, CountAppend
  <2>2. waiting' = IF body = Report THEN waiting ELSE waiting - 1
    BY <1>2
  <2>3. body = Report <=> body \notin Replies
    BY <1>9, FramingAssumption
  <2>4. waiting = Len(asked) - Cardinality(Places(taken, Replies)) /\ Len(asked) \in Nat
    BY <1>1, LenProperties DEF IInv, Counts, Types
  <2> HIDE DEF body
  <2> QED
    BY <2>1, <2>2, <2>3, <2>4
<1>11. waiting' \in 0 .. Window
  <2>1. /\ Cardinality(Places(taken', Replies)) \in Nat
        /\ Cardinality(Places(taken', Replies)) <= Len(asked) /\ Len(asked) \in Nat
    BY <1>1, <1>9, AnsweredBound DEF IInv
  <2>2. waiting' <= waiting /\ waiting \in 0 .. Window /\ Window \in Nat
    <3>1. waiting \in 0 .. Window /\ Window \in Nat
      BY <1>1, FramingAssumption DEF Types
    <3>2. waiting' = waiting \/ waiting' = waiting - 1
      BY <1>2
    <3> QED
      BY <3>1, <3>2
  <2> QED
    BY <1>10, <2>1, <2>2
<1>12. Types'
  BY <1>1, <1>2, <1>3, <1>6, <1>9, <1>11 DEF Types
<1>13. Stages' /\ StubReads'
  BY <1>3 DEF IInv, Stages, StubReads
<1>14. Counts'
  BY <1>3, <1>10 DEF IInv, Counts
<1>15. ClientReads'
  <2>1. Carries((receiveBuffer \o toClient)', Rest(replied', Len(taken')))
    BY <1>2, <1>3, <1>6, <1>8, <1>9
  <2> QED
    BY <1>3, <1>9, <2>1 DEF ClientReads
<1>16. ~split' => StubWhole'
  BY <1>3 DEF IInv, StubWhole
<1>17. ~split' => ClientWhole'
  <2> SUFFICES ASSUME ~split
               PROVE  ClientWhole'
    BY <1>3
  <2>1. PICK s : Carries(receiveBuffer, s)
    BY DEF IInv, ClientWhole
  <2>2. receiveBuffer \o <<>> = receiveBuffer /\ <<>> \in Seq(Char)
    BY <1>4, ConcatEmptySeq, EmptySeq
  <2>3. Carries(After(receiveBuffer, h) \o <<>>, Tail(s))
    BY <1>4, <2>1, <2>2, CarriesMatch
  <2>4. After(receiveBuffer, h) \o <<>> = After(receiveBuffer, h)
    BY <1>6, ConcatEmptySeq
  <2> QED
    BY <1>2, <1>3, <1>4, <2>3, <2>4 DEF ClientWhole
<1> QED
  BY <1>12, <1>13, <1>14, <1>15, <1>16, <1>17, TypesSame DEF IInv

LEMMA ClientFailsInv ==
  ASSUME IInv, ClientFails
  PROVE  IInv'
<1> USE DEF clientVars, stubVars
<1>1. Types
  BY TypesSame DEF IInv
<1>2. UNCHANGED <<cuts, noAckMode, toServer, toClient, srv, inp, handled, replied, receiveBuffer,
                  waiting, split, asked, taken>>
      /\ cli' = "down"
  BY DEF ClientFails
<1>3. Types'
  BY <1>1, <1>2 DEF Types
<1>4. Stages' /\ StubReads' /\ Counts'
  BY <1>2 DEF IInv, Stages, StubReads, Counts
<1>5. ClientReads'
  BY <1>2 DEF IInv, ClientReads
<1>6. ~split' => StubWhole'
  BY <1>2 DEF IInv, StubWhole
<1>7. split
  <2> SUFFICES ASSUME ~split
               PROVE  FALSE
    BY <1>1 DEF Types
  <2>1. PICK s : Carries(receiveBuffer, s)
    BY DEF IInv, ClientWhole
  <2> QED
    BY <2>1, CarriesMatches DEF ClientFails, Looking
<1> QED
  BY <1>2, <1>3, <1>4, <1>5, <1>6, <1>7, TypesSame DEF IInv

LEMMA StubRecvInv ==
  ASSUME IInv, StubRecv
  PROVE  IInv'
<1> USE DEF clientVars, stubVars
<1>1. Types
  BY TypesSame DEF IInv
<1>2. PICK n \in Returned(toServer) :
        /\ inp' = SubSeq(toServer, 1, n)
        /\ toServer' = Rest(toServer, n)
        /\ split' = (split \/ n < Len(toServer))
  BY DEF StubRecv
<1>3. toServer \in Seq(Char) /\ toServer # <<>> /\ inp = <<>> /\ srv = "select" /\ srv' = "data"
  BY <1>1 DEF Types, StubRecv, IInv, Stages
<1>4. UNCHANGED <<cuts, noAckMode, toClient, cli, receiveBuffer, waiting, asked, taken, handled, replied>>
  BY DEF StubRecv
<1>5. /\ inp' \in Seq(Char) /\ toServer' \in Seq(Char)
      /\ (inp \o toServer)' = toServer
      /\ ~split' => inp' = toServer
  BY <1>2, <1>3, RecvType
<1>6. Types'
  <2>1. split' \in BOOLEAN
    BY <1>2
  <2> QED
    BY <1>1, <1>3, <1>4, <1>5, <2>1 DEF Types
<1>7. Stages'
  BY <1>3 DEF Stages
<1>8. (inp \o toServer)' = inp \o toServer
  BY <1>3, <1>5, ConcatEmptySeq
<1>9. StubReads'
  BY <1>4, <1>8 DEF IInv, StubReads
<1>10. ClientReads' /\ Counts'
  BY <1>3, <1>4 DEF IInv, ClientReads, Counts
<1>11. ~split' => StubWhole'
  <2> SUFFICES ASSUME ~split'
               PROVE  StubWhole'
    OBVIOUS
  <2>1. ~split /\ inp' = toServer
    BY <1>2, <1>5
  <2>2. Lays(inp \o toServer, <<>>, asked, Len(handled))
    BY <2>1 DEF IInv, StubWhole
  <2>3. \E s \in Seq(Bodies) : inp' = Stream(s)
    <3> DEFINE R == Rest(asked, Len(handled))
    <3>1. Len(handled) \in 0 .. Len(asked) /\ asked \in Seq(Bodies)
      <4>1. Len(handled) \in Nat /\ Len(asked) \in Nat /\ asked \in Seq(Bodies)
        BY <1>1, TypesBodies, LenProperties
      <4> QED
        BY <4>1 DEF IInv, StubReads, Reads
    <3>2. R \in Seq(Bodies) /\ Stream(R) \in Seq(Char)
      BY <3>1, RestStream
    <3>3. toServer = Stream(R)
      <4>1. <<>> \o toServer = toServer /\ <<>> \o Stream(R) = Stream(R)
        BY <1>3, <3>2, ConcatEmptySeq
      <4> QED
        BY <1>3, <2>2, <4>1 DEF Lays
    <3> HIDE DEF R
    <3> QED
      BY <2>1, <3>2, <3>3
  <2> QED
    BY <1>4, <1>8, <2>2, <2>3 DEF StubWhole
<1>12. ~split' => ClientWhole'
  BY <1>2, <1>4 DEF IInv, ClientWhole
<1> QED
  BY <1>6, <1>7, <1>9, <1>10, <1>11, <1>12, TypesSame DEF IInv

LEMMA OnDataAckInv ==
  ASSUME IInv, OnDataAck
  PROVE  IInv'
<1> USE DEF clientVars, stubVars
<1>1. Types
  BY TypesSame DEF IInv
<1>2. /\ inp \in Seq(Char) /\ toServer \in Seq(Char) /\ inp # <<>> /\ srv = "data"
      /\ Head(inp) = Plus /\ inp' = Tail(inp)
      /\ asked \in Seq(Bodies) /\ handled \in Seq(Bodies)
  BY <1>1, TypesBodies DEF Types, OnDataAck, InData
<1>3. UNCHANGED <<cuts, noAckMode, toServer, toClient, srv, cli, receiveBuffer, waiting, asked, taken,
                  split, handled, replied>>
  BY DEF OnDataAck
<1>4. Types'
  <2>1. inp' \in Seq(Char)
    BY <1>2, HeadTailProperties
  <2> QED
    BY <1>1, <1>3, <2>1 DEF Types
<1>5. Stages'
  BY <1>2, <1>3 DEF Stages
<1>6. StubReads'
  <2> DEFINE line == inp \o toServer
  <2>1. line \in Seq(Char) /\ line # <<>> /\ Tail(line) = Tail(inp) \o toServer
    BY <1>2, ConcatProperties, HeadTailConcat
  <2>2. Reads(line, asked, handled)
    BY DEF IInv, StubReads
  <2> HIDE DEF line
  <2>3. Reads(Tail(line), asked, handled)
    BY <1>2, <2>1, <2>2, ReadsDropOne
  <2> QED
    BY <1>2, <1>3, <2>1, <2>3 DEF StubReads
<1>7. ClientReads' /\ Counts'
  BY <1>3 DEF IInv, ClientReads, Counts
<1>8. split
  <2> SUFFICES ASSUME ~split
               PROVE  FALSE
    BY <1>1 DEF Types
  <2>1. PICK s \in Seq(Bodies) : inp = Stream(s)
    BY DEF IInv, StubWhole
  <2> QED
    BY <1>2, <2>1, StreamMatches
<1> QED
  BY <1>3, <1>4, <1>5, <1>6, <1>7, <1>8, TypesSame DEF IInv

LEMMA OnDataPacketInv ==
  ASSUME IInv, OnDataPacket
  PROVE  IInv'
<1> USE DEF clientVars, stubVars
<1>1. Types
  BY TypesSame DEF IInv
<1>2. PICK h \in Matches(inp) :
        /\ handled' = Append(handled, SubSeq(inp, 2, h - 1))
        /\ inp' = After(inp, h)
  BY DEF OnDataPacket
<1>3. UNCHANGED <<cuts, noAckMode, toServer, cli, receiveBuffer, waiting, asked, taken, split, replied>>
      /\ srv' = "reply" /\ srv = "data"
  BY DEF OnDataPacket, InData
<1>4. /\ inp \in Seq(Char) /\ toServer \in Seq(Char)
      /\ asked \in Seq(Bodies) /\ handled \in Seq(Bodies)
      /\ asked \in Seq(Requests) /\ handled \in Seq(Requests)
  BY <1>1, TypesBodies DEF Types
<1> DEFINE body == SubSeq(inp, 2, h - 1)
<1>5. /\ \E k \in 1 .. Len(asked) : body = asked[k]
      /\ After(inp, h) \in Seq(Char)
      /\ Reads(After(inp, h) \o toServer, asked, Append(handled, body))
  BY <1>4, ReadsMatch DEF IInv, StubReads
<1>6. /\ body \in Requests /\ handled' = Append(handled, body)
      /\ handled' \in Seq(Requests) /\ Len(handled') = Len(handled) + 1
  <2>1. body \in Requests
    BY <1>4, <1>5, ElementOfSeq
  <2>2. handled' = Append(handled, body)
    BY <1>2
  <2> HIDE DEF body
  <2> QED
    BY <1>4, <2>1, <2>2, AppendProperties
<1>7. toClient' \in Seq(Char) /\ (toClient' = toClient \/ toClient' = Append(toClient, Plus))
  <2>1. Plus \in Char /\ toClient \in Seq(Char)
    BY <1>1 DEF Plus, Char, Types
  <2>2. toClient' = toClient \/ toClient' = Append(toClient, Plus)
    BY DEF OnDataPacket, Acked
  <2> QED
    BY <2>1, <2>2, AppendProperties
<1>8. Types'
  BY <1>1, <1>2, <1>3, <1>5, <1>6, <1>7 DEF Types
<1>9. Stages'
  BY <1>3 DEF Stages
<1>10. StubReads'
  BY <1>2, <1>3, <1>5 DEF StubReads
<1>11. ClientReads'
  <2> SUFFICES ASSUME cli = "up"
               PROVE  Carries((receiveBuffer \o toClient)', Rest(replied, Len(taken)))
    BY <1>3 DEF IInv, ClientReads
  <2>1. Carries(receiveBuffer \o toClient, Rest(replied, Len(taken)))
    BY DEF IInv, ClientReads
  <2>2. CASE toClient' = toClient
    BY <1>3, <2>1, <2>2
  <2>3. CASE toClient' = Append(toClient, Plus)
    <3>1. receiveBuffer \o Append(toClient, Plus) = Append(receiveBuffer \o toClient, Plus)
      <4>1. receiveBuffer \in Seq(Char) /\ toClient \in Seq(Char) /\ Plus \in Char
        BY <1>1 DEF Plus, Char, Types
      <4> QED
        BY <4>1, ConcatAppend
    <3> QED
      BY <1>3, <2>1, <2>3, <3>1, CarriesPlus
  <2> QED
    BY <1>7, <2>2, <2>3
<1>12. Counts'
  <2>1. Cardinality(Places(replied, Replies)) \in Nat
    BY <1>1, PlacesType DEF Types
  <2> QED
    BY <1>3, <1>6, <2>1 DEF IInv, Counts
<1>13. ~split' => StubWhole'
  <2> SUFFICES ASSUME ~split
               PROVE  StubWhole'
    BY <1>3
  <2>1. Len(handled) \in 0 .. Len(asked)
    <3>1. Len(handled) \in Nat /\ Len(asked) \in Nat
      BY <1>4, LenProperties
    <3> QED
      BY <3>1 DEF IInv, StubReads, Reads
  <2>2. Lays(inp \o toServer, <<>>, asked, Len(handled))
    BY DEF IInv, StubWhole
  <2>3. Lays(After(inp, h) \o toServer, <<>>, asked, Len(handled) + 1)
    BY <1>4, <2>1, <2>2, StreamMatch
  <2>4. PICK s \in Seq(Bodies) : inp = Stream(s)
    BY DEF IInv, StubWhole
  <2>5. Lays(inp \o <<>>, <<>>, s, 0) /\ <<>> \in Seq(Char) /\ 0 \in 0 .. Len(s)
    <3>1. Rest(s, 0) = s /\ inp \o <<>> = inp /\ <<>> \o inp = inp
      BY <1>4, RestEnds, ConcatEmptySeq
    <3>2. Len(s) \in Nat
      BY LenProperties
    <3> QED
      BY <2>4, <3>1, <3>2, EmptySeq DEF Lays
  <2>6. Lays(After(inp, h) \o <<>>, <<>>, s, 0 + 1) /\ 0 + 1 \in 1 .. Len(s)
    BY <1>4, <2>5, StreamMatch
  <2>7. \E r \in Seq(Bodies) : After(inp, h) = Stream(r)
    <3> DEFINE r == Rest(s, 1)
    <3>1. r \in Seq(Bodies) /\ Stream(r) \in Seq(Char)
      <4>1. 1 \in 0 .. Len(s)
        BY <2>6, LenProperties
      <4> QED
        BY <4>1, RestStream
    <3>2. After(inp, h) \o <<>> = After(inp, h) /\ <<>> \o Stream(r) = Stream(r)
      BY <1>5, <3>1, ConcatEmptySeq
    <3>3. After(inp, h) \o <<>> = <<>> \o Stream(r)
      BY <2>6 DEF Lays
    <3> HIDE DEF r
    <3> QED
      BY <3>1, <3>2, <3>3
  <2> QED
    BY <1>2, <1>3, <1>6, <2>3, <2>7 DEF StubWhole
<1>14. ~split' => ClientWhole'
  BY <1>3 DEF IInv, ClientWhole
<1> QED
  BY <1>8, <1>9, <1>10, <1>11, <1>12, <1>13, <1>14, TypesSame DEF IInv

(* A packet to the client is put behind what is there.                     *)
LEMMA SentReads ==
  ASSUME Types, ClientReads, NEW body \in Replies \cup {Report}, SendPacket(body),
         UNCHANGED <<cli, receiveBuffer, taken>>
  PROVE  /\ toClient' \in Seq(Char) /\ replied' \in Seq(Replies \cup {Report})
         /\ ClientReads'
         /\ Cardinality(Places(replied', Replies))
              = Cardinality(Places(replied, Replies)) + (IF body \in Replies THEN 1 ELSE 0)
         /\ Cardinality(Places(replied, Replies)) \in Nat
<1> DEFINE P == Packet(body)
<1>1. /\ toClient' = toClient \o P /\ replied' = Append(replied, body)
      /\ toClient \in Seq(Char) /\ receiveBuffer \in Seq(Char)
      /\ replied \in Seq(Replies \cup {Report}) /\ taken \in Seq(Replies \cup {Report})
  BY DEF Types, SendPacket
<1>2. body \in Bodies /\ P \in Seq(Char)
  BY PacketShape DEF Bodies
<1> HIDE DEF P
<1>3. toClient' \in Seq(Char) /\ replied' \in Seq(Replies \cup {Report})
  BY <1>1, <1>2, ConcatProperties, AppendProperties
<1>4. Begins(taken, replied')
  BY <1>1, BeginsAppend DEF ClientReads
<1>5. cli = "up" => Carries(receiveBuffer \o toClient', Rest(replied', Len(taken)))
  <2> SUFFICES ASSUME cli = "up"
               PROVE  Carries(receiveBuffer \o toClient', Rest(replied', Len(taken)))
    OBVIOUS
  <2>1. receiveBuffer \o toClient' = (receiveBuffer \o toClient) \o P
    BY <1>1, <1>2, Regroup
  <2>2. Len(taken) \in 0 .. Len(replied)
    BY <1>1, LenProperties DEF ClientReads, Begins
  <2>3. Rest(replied', Len(taken)) = Append(Rest(replied, Len(taken)), body)
    BY <1>1, <2>2, RestAppend
  <2>4. Carries(receiveBuffer \o toClient, Rest(replied, Len(taken)))
    BY DEF ClientReads
  <2>5. Carries((receiveBuffer \o toClient) \o P, Append(Rest(replied, Len(taken)), body))
    BY <1>2, <2>4, CarriesPacket DEF P
  <2> QED
    BY <2>1, <2>3, <2>5
<1>6. ClientReads'
  BY <1>4, <1>5 DEF ClientReads
<1>7. /\ Cardinality(Places(replied, Replies)) \in Nat
      /\ Cardinality(Places(Append(replied, body), Replies))
           = Cardinality(Places(replied, Replies)) + (IF body \in Replies THEN 1 ELSE 0)
  <2>1. \A s \in Seq(Replies \cup {Report}), e \in Replies \cup {Report} :
          /\ Cardinality(Places(s, Replies)) \in Nat
          /\ Cardinality(Places(Append(s, e), Replies))
               = Cardinality(Places(s, Replies)) + (IF e \in Replies THEN 1 ELSE 0)
    BY CountAppend
  <2> QED
    BY <1>1, <2>1
<1> QED
  BY <1>1, <1>3, <1>6, <1>7

LEMMA StubReplyInv ==
  ASSUME IInv, StubReply
  PROVE  IInv'
<1> USE DEF clientVars, stubVars
<1>1. Types
  BY TypesSame DEF IInv
<1>2. PICK body \in Replies : SendPacket(body)
  BY DEF StubReply
<1>3. UNCHANGED <<cuts, noAckMode, toServer, cli, receiveBuffer, waiting, asked, taken, inp, split, handled>>
      /\ srv' = "data" /\ srv = "reply"
  BY DEF StubReply
<1>4. /\ toClient' \in Seq(Char) /\ replied' \in Seq(Replies \cup {Report})
      /\ ClientReads'
      /\ Cardinality(Places(replied', Replies)) = Cardinality(Places(replied, Replies)) + 1
      /\ Cardinality(Places(replied, Replies)) \in Nat
  BY <1>1, <1>2, <1>3, SentReads DEF IInv
<1>5. Types'
  BY <1>1, <1>3, <1>4 DEF Types
<1>6. Stages' /\ StubReads'
  BY <1>3 DEF IInv, Stages, StubReads
<1>7. Counts'
  BY <1>3, <1>4 DEF IInv, Counts
<1>8. ~split' => StubWhole'
  BY <1>3 DEF IInv, StubWhole
<1>9. ~split' => ClientWhole'
  BY <1>3 DEF IInv, ClientWhole
<1> QED
  BY <1>4, <1>5, <1>6, <1>7, <1>8, <1>9, TypesSame DEF IInv

LEMMA OnDataUnknownInv ==
  ASSUME IInv, OnDataUnknown
  PROVE  IInv'
<1> USE DEF clientVars, stubVars
<1>1. Types
  BY TypesSame DEF IInv
<1>2. /\ inp \in Seq(Char) /\ toServer \in Seq(Char) /\ inp # <<>> /\ srv = "data"
      /\ asked \in Seq(Bodies) /\ handled \in Seq(Bodies)
  BY <1>1, TypesBodies DEF Types, OnDataUnknown, InData
<1>3. Matches(inp) = {}
  <2> SUFFICES ASSUME NEW h \in Matches(inp)
               PROVE  FALSE
    OBVIOUS
  <2>1. Intact(inp, h)
    BY <1>2, ReadsMatch DEF IInv, StubReads
  <2> QED
    BY <2>1 DEF OnDataUnknown
<1>4. UNCHANGED <<cuts, noAckMode, toServer, toClient, srv, cli, receiveBuffer, waiting, asked, taken,
                  split, handled, replied>>
      /\ inp' = <<>>
  BY <1>3 DEF OnDataUnknown
<1>5. Types'
  <2>1. <<>> \in Seq(Char)
    BY EmptySeq
  <2> QED
    BY <1>1, <1>4, <2>1 DEF Types
<1>6. Stages'
  BY <1>2, <1>4 DEF Stages
<1>7. StubReads'
  <2>1. Reads(toServer, asked, handled)
    BY <1>2, ReadsDrop DEF IInv, StubReads
  <2>2. <<>> \o toServer = toServer
    BY <1>2, ConcatEmptySeq
  <2> QED
    BY <1>4, <2>1, <2>2 DEF StubReads
<1>8. ClientReads' /\ Counts'
  BY <1>4 DEF IInv, ClientReads, Counts
<1>9. split
  <2> SUFFICES ASSUME ~split
               PROVE  FALSE
    BY <1>1 DEF Types
  <2>1. PICK s \in Seq(Bodies) : inp = Stream(s)
    BY DEF IInv, StubWhole
  <2> QED
    BY <1>2, <1>3, <2>1, StreamMatches
<1> QED
  BY <1>4, <1>5, <1>6, <1>7, <1>8, <1>9, TypesSame DEF IInv

LEMMA OnDataDoneInv ==
  ASSUME IInv, OnDataDone
  PROVE  IInv'
<1> USE DEF clientVars, stubVars
<1>1. Types
  BY TypesSame DEF IInv
<1>2. UNCHANGED <<cuts, noAckMode, toServer, cli, receiveBuffer, waiting, asked, taken, inp, split, handled>>
      /\ srv' = "select" /\ srv = "data" /\ inp = <<>>
  BY DEF OnDataDone
<1>3. /\ toClient' \in Seq(Char) /\ replied' \in Seq(Replies \cup {Report})
      /\ ClientReads'
      /\ Cardinality(Places(replied', Replies)) = Cardinality(Places(replied, Replies))
  <2>1. CASE UNCHANGED <<toClient, replied>>
    BY <1>1, <1>2, <2>1 DEF IInv, ClientReads, Types
  <2>2. CASE SendPacket(Report)
    <3>1. Report \in Replies \cup {Report} /\ Report \notin Replies
      BY FramingAssumption
    <3>2. /\ toClient' \in Seq(Char) /\ replied' \in Seq(Replies \cup {Report})
          /\ ClientReads'
          /\ Cardinality(Places(replied', Replies))
               = Cardinality(Places(replied, Replies)) + (IF Report \in Replies THEN 1 ELSE 0)
          /\ Cardinality(Places(replied, Replies)) \in Nat
      BY <1>1, <1>2, <2>2, <3>1, SentReads DEF IInv
    <3> QED
      BY <3>1, <3>2
  <2> QED
    BY <2>1, <2>2 DEF OnDataDone
<1>4. Types'
  BY <1>1, <1>2, <1>3 DEF Types
<1>5. Stages' /\ StubReads'
  BY <1>2 DEF IInv, Stages, StubReads
<1>6. Counts'
  BY <1>2, <1>3 DEF IInv, Counts
<1>7. ~split' => StubWhole'
  BY <1>2 DEF IInv, StubWhole
<1>8. ~split' => ClientWhole'
  BY <1>2 DEF IInv, ClientWhole
<1> QED
  BY <1>3, <1>4, <1>5, <1>6, <1>7, <1>8, TypesSame DEF IInv

LEMMA StutterInv ==
  ASSUME IInv, UNCHANGED vars
  PROVE  IInv'
<1> USE DEF vars
<1>1. Types'
  BY TypesSame DEF IInv, Types
<1>2. Stages' /\ StubReads' /\ ClientReads' /\ Counts'
  BY DEF IInv, Stages, StubReads, ClientReads, Counts
<1>3. (~split' => StubWhole') /\ (~split' => ClientWhole')
  BY DEF IInv, StubWhole, ClientWhole
<1> QED
  BY <1>1, <1>2, <1>3, TypesSame DEF IInv

LEMMA NextInv ==
  IInv /\ [Next]_vars => IInv'
<1> SUFFICES ASSUME IInv, [Next]_vars
             PROVE  IInv'
  OBVIOUS
<1> QED
  BY ClientSendInv, ClientRecvInv, ClientAckInv, ClientPacketInv, ClientFailsInv, StubRecvInv,
     OnDataAckInv, OnDataPacketInv, StubReplyInv, OnDataUnknownInv, OnDataDoneInv, StutterInv
  DEF Next, Client, Stub

LEMMA FramingInvariant ==
  Spec => []IInv
BY InitInv, NextInv, PTL DEF Spec

-----------------------------------------------------------------------------
(* The connection's variables keep their types: what recv returns is put   *)
(* back together from whole characters, and no more calls wait than there  *)
(* are answers to come.                                                    *)
THEOREM FramingTypeCorrect ==
  Spec => []FramingTypeOK
<1>1. IInv => FramingTypeOK
  BY DEF IInv
<1> QED
  BY FramingInvariant, <1>1, PTL

(* Wherever recv cuts the streams, what the stub handles was asked and     *)
(* what the client takes was answered, in that order and once each.        *)
THEOREM NoneInvented ==
  Spec => []NothingInvented
<1>1. IInv => NothingInvented
  <2> SUFFICES ASSUME IInv
               PROVE  NothingInvented
    OBVIOUS
  <2>1. /\ asked \in Seq(Bodies) /\ handled \in Seq(Bodies)
        /\ replied \in Seq(Bodies) /\ taken \in Seq(Bodies)
    BY TypesSame, TypesBodies DEF IInv
  <2>2. Within(taken, replied)
    BY <2>1, BeginsWithin DEF IInv, ClientReads
  <2>3. PICK m \in Len(handled) .. Len(asked) : Upto(handled, asked, m)
    BY DEF IInv, StubReads, Reads
  <2>4. m \in 0 .. Len(asked)
    BY <2>1, LenProperties
  <2>5. Within(handled, asked)
    BY <2>1, <2>3, <2>4, UptoWithin
  <2> QED
    BY <2>2, <2>5 DEF NothingInvented
<1> QED
  BY FramingInvariant, <1>1, PTL

(* No cut makes onData fail: what is left of a packet never is a packet    *)
(* with a wrong checksum.                                                  *)
THEOREM StubAlive ==
  Spec => []StubSurvives
<1>1. IInv => StubSurvives
  BY DEF IInv, Stages, StubSurvives
<1> QED
  BY FramingInvariant, <1>1, PTL

(* As long as recv has returned all there was, every request is handled or *)
(* on its way, and every answer and report taken or on its way.            *)
THEOREM NoneLost ==
  Spec => []NothingLost
<1>1. IInv => NothingLost
  <2> SUFFICES ASSUME IInv, ~split
               PROVE  /\ Stream(Rest(asked, Len(handled))) = inp \o toServer
                      /\ WithoutAcks(receiveBuffer \o toClient)
                           = WithoutAcks(Stream(Rest(replied, Len(taken))))
                      /\ cli = "up"
    BY DEF NothingLost, Rest
  <2>1. cli = "up"
    BY DEF IInv, ClientWhole
  <2>2. WithoutAcks(receiveBuffer \o toClient) = WithoutAcks(Stream(Rest(replied, Len(taken))))
    BY <2>1, CarriesOnly DEF IInv, ClientReads
  <2> DEFINE S == Stream(Rest(asked, Len(handled)))
  <2>3. inp \o toServer = <<>> \o S
    BY DEF IInv, StubWhole, Lays
  <2>4. S \in Seq(Char)
    <3>1. asked \in Seq(Bodies) /\ Len(handled) \in Nat /\ Len(asked) \in Nat
      BY TypesSame, TypesBodies, LenProperties DEF IInv
    <3>2. Len(handled) \in 0 .. Len(asked)
      BY <3>1 DEF IInv, StubReads, Reads
    <3> QED
      BY <3>1, <3>2, RestStream
  <2>5. S = inp \o toServer
    <3> HIDE DEF S
    <3> QED
      BY <2>3, <2>4, ConcatEmptySeq
  <2> QED
    BY <2>1, <2>2, <2>5
<1> QED
  BY FramingInvariant, <1>1, PTL

=============================================================================
