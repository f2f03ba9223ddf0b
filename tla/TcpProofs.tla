------------------------------- MODULE TcpProofs -------------------------------
(***************************************************************************)
(* Theorems about TcpFraming and TcpSession.                               *)
(*                                                                         *)
(* The parser is a recursive function on buffers and the stream a          *)
(* concatenation of any number of packets, so their facts need induction.  *)
(* It is had from the well-foundedness of < on the naturals, which is a    *)
(* fact of first order: a set of naturals that is not empty has a least    *)
(* member, so a set that has 0 and with n also n + 1 has all (Induct).     *)
(* From it come what FlattenSeq computes (FlattenIs, FlattenAppend), that  *)
(* the CRC is a word (CrcType), that the parser's loop ends on every       *)
(* buffer and is what its definition says (LoopIs), and the heart of the   *)
(* matter: however the stream is cut, the loop reads every packet that is  *)
(* whole and stops in front of the first that is not (ParseReads).         *)
(*                                                                         *)
(* FInv says how far a connection has got: the first k packets are         *)
(* dispatched, and their bytes, the buffer and the bytes under way are the *)
(* stream, with less than a packet in the buffer.  SInv adds what the last *)
(* signal or the label says of the connection and that the user's          *)
(* disconnect is marked.                                                   *)
(*                                                                         *)
(* On the client's later connections none of that is left.  What holds     *)
(* there is that a turn of its parser is the same with more bytes behind   *)
(* (TurnOfMore), so that reads join (CutsJoin).                            *)
(***************************************************************************)
EXTENDS TcpSession, SequenceTheorems, WellFoundedInduction, TLAPS
-----------------------------------------------------------------------------
(***************************************************************************)
(* Induction over the naturals.                                            *)
(***************************************************************************)
LEMMA MinOf ==
  ASSUME NEW R, NEW S, IsWellFoundedOn(R, S), NEW T, T \subseteq S, T # {}
  PROVE  \E x \in T : \A y \in T : ~ (<<y, x>> \in R)
BY WFMin

LEMMA NatOrder ==
  \E R : IsWellFoundedOn(R, Nat) /\ \A x, y \in Nat : <<y, x>> \in R <=> y < x
<1>1. IsWellFoundedOn(OpToRel(<, Nat), Nat)
  BY NatLessThanWellFounded
<1>2. \A x, y \in Nat : <<y, x>> \in OpToRel(<, Nat) <=> y < x
  BY DEF OpToRel
<1> QED BY <1>1, <1>2

LEMMA Least ==
  ASSUME NEW T, T \subseteq Nat, T # {}
  PROVE  \E x \in T : \A y \in T : x <= y
<1>1. PICK R : IsWellFoundedOn(R, Nat) /\ \A x, y \in Nat : <<y, x>> \in R <=> y < x
  BY NatOrder
<1>2. PICK x \in T : \A y \in T : ~ (<<y, x>> \in R)
  BY <1>1, MinOf
<1>3. \A y \in T : x \in Nat /\ y \in Nat /\ ~(y < x)
  BY <1>1, <1>2
<1>4. \A y \in T : x <= y
  BY <1>3
<1> QED BY <1>2, <1>4

LEMMA Induct ==
  ASSUME NEW S, 0 \in S, \A n \in Nat : n \in S => n + 1 \in S
  PROVE  \A n \in Nat : n \in S
<1> SUFFICES ASSUME Nat \ S # {} PROVE FALSE
  OBVIOUS
<1>1. PICK x \in Nat \ S : \A y \in Nat \ S : x <= y
  BY Least
<1>2. x # 0 /\ x - 1 \in Nat /\ x - 1 < x
  BY <1>1
<1>3. x - 1 \in S
  BY <1>1, <1>2
<1>4. (x - 1) + 1 \in S
  BY <1>2, <1>3
<1> QED BY <1>1, <1>4

(* A function that is computed from the value before it exists: base at 0, *)
(* step[i] applied to the value at i - 1.                                  *)
Iterates(f, n, base, step) ==
  f[0] = base /\ \A i \in 1..n : f[i] = step[i][f[i - 1]]

LEMMA IterationExists ==
  ASSUME NEW n \in Nat, NEW V, NEW base \in V, NEW step \in [1..n -> [V -> V]]
  PROVE  \E f : f \in [0..n -> V] /\ Iterates(f, n, base, step)
<1> USE DEF Iterates
<1> DEFINE E(m) == \E f : f \in [0..m -> V] /\ Iterates(f, m, base, step)
           S == {m \in Nat : m <= n => E(m)}
<1>1. 0 \in S
  <2> DEFINE g == [i \in 0..0 |-> base]
  <2>1. g \in [0..0 -> V] /\ g[0] = base
    OBVIOUS
  <2>2. \A i \in 1..0 : FALSE
    OBVIOUS
  <2>3. g[0] = base /\ \A i \in 1..0 : g[i] = step[i][g[i - 1]]
    BY <2>1, <2>2
  <2> HIDE DEF g
  <2>4. E(0)
    BY <2>1, <2>3
  <2> QED BY <2>4
<1>2. ASSUME NEW m \in Nat, m \in S PROVE m + 1 \in S
  <2> SUFFICES ASSUME m + 1 <= n PROVE E(m + 1)
    OBVIOUS
  <2>1. PICK f \in [0..m -> V] :
          f[0] = base /\ \A i \in 1..m : f[i] = step[i][f[i - 1]]
    BY <1>2
  <2> DEFINE g == [i \in 0..(m + 1) |-> IF i = m + 1 THEN step[m + 1][f[m]] ELSE f[i]]
  <2>2. step[m + 1] \in [V -> V] /\ f[m] \in V
    OBVIOUS
  <2>3. g \in [0..(m + 1) -> V]
    BY <2>2
  <2>4. ASSUME NEW i \in 1..(m + 1)
        PROVE  g[i] = step[i][g[i - 1]]
    <3>1. CASE i = m + 1
      BY <3>1
    <3>2. CASE i # m + 1
      <4>1. i \in 1..m /\ i - 1 \in 0..m
        BY <3>2
      <4>2. f[i] = step[i][f[i - 1]]
        BY <2>1, <4>1
      <4> QED BY <4>1, <4>2, <3>2
    <3> QED BY <3>1, <3>2
  <2>5. g[0] = base
    BY <2>1
  <2> QED BY <2>3, <2>4, <2>5
<1>3. n \in S
  <2> HIDE DEF S
  <2> QED BY <1>1, <1>2, Induct
<1> QED BY <1>3
-----------------------------------------------------------------------------
(***************************************************************************)
(* Concatenations of any number of sequences.                              *)
(***************************************************************************)
(* The function FlattenSeq is computed with.                               *)
Flattens(f, n, seqs) ==
  \A i \in 1..n : f[i] = IF i = 1 THEN seqs[i] ELSE f[i - 1] \o seqs[i]

LEMMA FlattenIs ==
  ASSUME NEW S, NEW seqs \in Seq(Seq(S)), seqs # <<>>
  PROVE  \E f : /\ f \in [1..Len(seqs) -> Seq(S)] /\ Flattens(f, Len(seqs), seqs)
               /\ FlattenSeq(seqs) = f[Len(seqs)]
<1> DEFINE n == Len(seqs)
<1>0. n \in Nat /\ n # 0
  BY EmptySeq, LenProperties
<1>1. \A i \in 1..n : seqs[i] \in Seq(S)
  BY ElementOfSeq
<1> DEFINE step == [i \in 1..n |-> [s \in Seq(S) |-> s \o seqs[i]]]
<1>2. step \in [1..n -> [Seq(S) -> Seq(S)]]
  BY <1>1
<1>3. PICK g : g \in [0..n -> Seq(S)] /\ Iterates(g, n, <<>>, step)
  <2>1. <<>> \in Seq(S)
    OBVIOUS
  <2> HIDE DEF step, n
  <2> QED BY <1>0, <2>1, <1>2, IterationExists
<1> HIDE DEF n
<1>g. ASSUME NEW i \in 1..n PROVE g[i] = g[i - 1] \o seqs[i]
  <2>1. i - 1 \in 0..n
    BY <1>0
  <2>2. g[i - 1] \in Seq(S)
    BY <2>1, <1>3
  <2>3. g[i] = step[i][g[i - 1]]
    BY <1>3 DEF Iterates
  <2> QED BY <2>2, <2>3
<1> DEFINE f == [i \in 1..n |-> g[i]]
<1>5. ASSUME NEW i \in 1..n
      PROVE  f[i] = IF i = 1 THEN seqs[i] ELSE f[i - 1] \o seqs[i]
  <2>3. g[i] = g[i - 1] \o seqs[i]
    BY <1>g
  <2>4. CASE i = 1
    <3>1. g[0] = <<>> /\ i - 1 = 0
      BY <1>3, <2>4 DEF Iterates
    <3>2. g[i] = <<>> \o seqs[i]
      BY <2>3, <3>1
    <3> QED BY <3>2, <2>4, <1>1, ConcatEmptySeq
  <2>5. CASE i # 1
    <3>1. i - 1 \in 1..n
      BY <2>5, <1>0
    <3> QED BY <2>3, <2>5, <3>1
  <2> QED BY <2>4, <2>5
<1>6. f = [i \in 1..n |-> IF i = 1 THEN seqs[i] ELSE f[i - 1] \o seqs[i]]
  BY <1>5
<1> DEFINE IsFlatten(h) == h = [i \in 1..n |-> IF i = 1 THEN seqs[i] ELSE h[i - 1] \o seqs[i]]
<1>7. \E h : IsFlatten(h)
  BY <1>6
<1>8. PICK h : h = (CHOOSE k : IsFlatten(k))
  OBVIOUS
<1>9. IsFlatten(h)
  BY <1>7, <1>8
<1>10. FlattenSeq(seqs) = h[Len(seqs)]
  BY <1>8, <1>0 DEF FlattenSeq, n

<1>11. h \in [1..n -> Seq(S)]
  <2> DEFINE T == {i \in Nat : i + 1 \in 1..n => h[i + 1] \in Seq(S)}
  <2>1. \A i \in 1..n : h[i] = IF i = 1 THEN seqs[i] ELSE h[i - 1] \o seqs[i]
    BY <1>9
  <2>2. 0 \in T
    BY <2>1, <1>1
  <2>3. ASSUME NEW i \in Nat, i \in T PROVE i + 1 \in T
    <3> SUFFICES ASSUME i + 2 \in 1..n PROVE h[i + 2] \in Seq(S)
      OBVIOUS
    <3>1. (i + 2) - 1 = i + 1 /\ i + 2 # 1
      OBVIOUS
    <3>3. h[i + 2] = h[(i + 2) - 1] \o seqs[i + 2]
      BY <2>1, <3>1
    <3>2. h[i + 1] \in Seq(S) /\ seqs[i + 2] \in Seq(S)
      BY <2>3, <1>1, <1>0
    <3> QED BY <3>1, <3>2, <3>3, ConcatProperties
  <2>4. \A i \in Nat : i \in T
    <3> HIDE DEF T
    <3> QED BY <2>2, <2>3, Induct
  <2>5. ASSUME NEW i \in 1..n PROVE h[i] \in Seq(S)
    <3>1. i - 1 \in Nat /\ (i - 1) + 1 = i
      BY <1>0
    <3> QED BY <3>1, <2>4
  <2>6. DOMAIN h = 1..n /\ h = [i \in 1..n |-> h[i]]
    BY <1>9
  <2> QED BY <2>5, <2>6
<1>12. Flattens(h, n, seqs)
  BY <1>9 DEF Flattens
<1> QED BY <1>10, <1>11, <1>12 DEF n

LEMMA FlattenEmpty == FlattenSeq(<<>>) = <<>>
BY DEF FlattenSeq

LEMMA FlattenType ==
  ASSUME NEW S, NEW seqs \in Seq(Seq(S))
  PROVE  FlattenSeq(seqs) \in Seq(S)
<1>1. CASE seqs = <<>>
  <2>1. FlattenSeq(seqs) = <<>>
    BY <1>1, FlattenEmpty
  <2> QED BY <2>1, EmptySeq
<1>2. CASE seqs # <<>>
  <2>1. PICK f : /\ f \in [1..Len(seqs) -> Seq(S)] /\ Flattens(f, Len(seqs), seqs)
                 /\ FlattenSeq(seqs) = f[Len(seqs)]
    BY <1>2, FlattenIs
  <2>2. Len(seqs) \in 1..Len(seqs)
    BY <1>2, EmptySeq
  <2> QED BY <2>1, <2>2
<1> QED BY <1>1, <1>2

LEMMA FlattenAppend ==
  ASSUME NEW S, NEW seqs \in Seq(Seq(S)), NEW s \in Seq(S)
  PROVE  FlattenSeq(Append(seqs, s)) = FlattenSeq(seqs) \o s
<1>0. PICK n \in Nat : n = Len(seqs)
  BY LenProperties
<1>1. PICK longer \in Seq(Seq(S)) :
        /\ longer = Append(seqs, s) /\ Len(longer) = n + 1
        /\ \A i \in 1..n : longer[i] = seqs[i]
        /\ longer[n + 1] = s /\ longer # <<>>
  BY <1>0, AppendProperties
<1>2. PICK f : Flattens(f, n + 1, longer) /\ FlattenSeq(longer) = f[n + 1]
  BY <1>1, FlattenIs
<1>3. \A i \in 1..(n + 1) : f[i] = IF i = 1 THEN longer[i] ELSE f[i - 1] \o longer[i]
  BY <1>2 DEF Flattens
<1>4. CASE seqs = <<>>
  <2>1. n = 0
    BY <1>4, <1>0
  <2>2. f[1] = s
    BY <2>1, <1>1, <1>3
  <2>3. <<>> \o s = s
    BY ConcatEmptySeq
  <2> QED BY <2>1, <2>2, <2>3, <1>1, <1>2, <1>4, FlattenEmpty
<1>5. CASE seqs # <<>>
  <2>1. PICK g : Flattens(g, n, seqs) /\ FlattenSeq(seqs) = g[n]
    BY <1>5, <1>0, FlattenIs
  <2>2. \A i \in 1..n : g[i] = IF i = 1 THEN seqs[i] ELSE g[i - 1] \o seqs[i]
    BY <2>1 DEF Flattens
  <2> DEFINE T == {i \in Nat : i + 1 <= n => f[i + 1] = g[i + 1]}
  <2>3. n # 0
    BY <1>5, <1>0, EmptySeq
  <2>4. 0 \in T
    BY <1>1, <1>3, <2>2
  <2>5. ASSUME NEW i \in Nat, i \in T PROVE i + 1 \in T
    <3> SUFFICES ASSUME i + 2 <= n PROVE f[i + 2] = g[i + 2]
      OBVIOUS
    <3>1. (i + 2) - 1 = i + 1 /\ i + 2 # 1 /\ i + 2 \in 1..n /\ i + 2 \in 1..(n + 1)
      OBVIOUS
    <3>2. f[i + 2] = f[i + 1] \o longer[i + 2]
      BY <3>1, <1>3
    <3>3. g[i + 2] = g[i + 1] \o seqs[i + 2]
      BY <3>1, <2>2
    <3>4. f[i + 1] = g[i + 1]
      BY <3>1, <2>5
    <3>5. longer[i + 2] = seqs[i + 2]
      BY <3>1, <1>1
    <3> QED BY <3>2, <3>3, <3>4, <3>5
  <2>6. \A i \in Nat : i \in T
    <3> HIDE DEF T
    <3> QED BY <2>4, <2>5, Induct
  <2>7. f[n] = g[n]
    <3>1. n - 1 \in Nat /\ (n - 1) + 1 = n
      BY <2>3
    <3> HIDE DEF T
    <3>2. n - 1 \in T
      BY <3>1, <2>6
    <3> QED BY <3>1, <3>2 DEF T
  <2>8. f[n + 1] = f[n] \o s
    <3>1. n + 1 \in 1..(n + 1) /\ n + 1 # 1 /\ (n + 1) - 1 = n
      BY <2>3
    <3> QED BY <3>1, <1>1, <1>3
  <2> QED BY <2>1, <2>7, <2>8, <1>1, <1>2
<1> QED BY <1>4, <1>5

(* What holds of no sequence and of one element more holds of all.         *)
LEMMA AppendInduct ==
  ASSUME NEW S, NEW T, <<>> \in T,
         \A q \in Seq(S), e \in S : q \in T => Append(q, e) \in T
  PROVE  \A q \in Seq(S) : q \in T
<1> DEFINE N == {n \in Nat : \A q \in Seq(S) : Len(q) = n => q \in T}
<1>1. 0 \in N
  BY EmptySeq
<1>2. ASSUME NEW n \in Nat, n \in N PROVE n + 1 \in N
  <2> SUFFICES ASSUME NEW q \in Seq(S), Len(q) = n + 1 PROVE q \in T
    OBVIOUS
  <2>1. q # <<>>
    BY EmptySeq
  <2>2. PICK p \in Seq(S), e \in S : q = Append(p, e)
    BY <2>1, SequenceEmptyOrAppend
  <2>3. Len(p) = n
    BY <2>2, LenProperties, AppendProperties
  <2> QED BY <1>2, <2>2, <2>3
<1>3. \A n \in Nat : n \in N
  <2> HIDE DEF N
  <2> QED BY <1>1, <1>2, Induct
<1> QED BY <1>3, LenProperties
-----------------------------------------------------------------------------
(***************************************************************************)
(* Bytes, words and the CRC.                                               *)
(***************************************************************************)
Uint16 == {n \in Nat : n < 65536}

LEMMA XorByteType == \A a, b \in Byte : XorByte[a][b] \in Byte
<1> SUFFICES ASSUME NEW a \in Byte, NEW b \in Byte PROVE XorByte[a][b] \in Byte
  OBVIOUS
<1>1. \A p \in {1, 2, 4, 8, 16, 32, 64, 128} : XorBit(a, b, p) \in {0, p}
  BY DEF XorBit, Byte
<1>2. /\ XorBit(a, b, 1) \in {0, 1} /\ XorBit(a, b, 2) \in {0, 2}
      /\ XorBit(a, b, 4) \in {0, 4} /\ XorBit(a, b, 8) \in {0, 8}
      /\ XorBit(a, b, 16) \in {0, 16} /\ XorBit(a, b, 32) \in {0, 32}
      /\ XorBit(a, b, 64) \in {0, 64} /\ XorBit(a, b, 128) \in {0, 128}
  BY <1>1
<1>3. XorByte[a][b] = XorBit(a, b, 1) + XorBit(a, b, 2) + XorBit(a, b, 4)
        + XorBit(a, b, 8) + XorBit(a, b, 16) + XorBit(a, b, 32)
        + XorBit(a, b, 64) + XorBit(a, b, 128)
  BY Zenon DEF XorByte
<1> QED BY <1>2, <1>3 DEF Byte

LEMMA Uint16Type == Uint16 \subseteq Nat
BY SMT DEF Uint16

LEMMA WordType ==
  ASSUME NEW low \in Byte, NEW high \in Byte
  PROVE  Word(low, high) \in Uint16
BY SMTT(60) DEF Word, Byte, Uint16

LEMMA Bytewise ==
  ASSUME NEW n \in Uint16
  PROVE  n % 256 \in Byte /\ n \div 256 \in Byte
<1>1. n \in Int /\ 0 <= n /\ n < 65536
  BY SMTT(60) DEF Uint16
<1>2. n % 256 \in Int /\ 0 <= n % 256 /\ n % 256 < 256
  BY <1>1, SMTT(60)
<1>3. n \div 256 \in Int /\ 0 <= n \div 256 /\ n \div 256 < 256
  BY <1>1, SMTT(60)
<1> QED BY <1>2, <1>3, SMTT(60) DEF Byte

(* What LittleEndian takes apart, Word puts together.                       *)
LEMMA WordOfLittleEndian ==
  ASSUME NEW n \in Uint16
  PROVE  /\ LittleEndian(n) = <<n % 256, n \div 256>>
         /\ Word(n % 256, n \div 256) = n
<1>1. n \div 256 \in Byte
  BY Bytewise
<1>2. (n \div 256) % 256 = n \div 256
  BY <1>1, SMTT(60) DEF Byte
<1>3. Word(n % 256, n \div 256) = n
  BY SMTT(60) DEF Word, Uint16
<1> QED BY <1>2, <1>3 DEF LittleEndian

LEMMA ShiftType == \A crc \in Uint16 : Shift(crc) \in Uint16
<1> SUFFICES ASSUME NEW crc \in Uint16 PROVE Shift(crc) \in Uint16
  OBVIOUS
<1>1. crc \div 2 \in Uint16
  BY SMTT(60) DEF Uint16
<1>2. (crc \div 2) % 256 \in Byte /\ (crc \div 2) \div 256 \in Byte
  BY <1>1, Bytewise
<1>3. 1 \in Byte /\ 160 \in Byte
  BY SMTT(60) DEF Byte
<1>4. Word(XorByte[(crc \div 2) % 256][1], XorByte[(crc \div 2) \div 256][160]) \in Uint16
  BY <1>2, <1>3, XorByteType, WordType
<1> QED BY <1>1, <1>4 DEF Shift

LEMMA CrcByteType ==
  ASSUME NEW crc \in Uint16, NEW byte \in Byte
  PROVE  CrcByte(crc, byte) \in Uint16
<1>1. crc % 256 \in Byte /\ crc \div 256 \in Byte
  BY Bytewise
<1>2. XorByte[crc % 256][byte] \in Byte
  BY <1>1, XorByteType
<1>3. \A low \in Byte : EightShifts[low] \in Uint16
  <2> SUFFICES ASSUME NEW low \in Byte PROVE EightShifts[low] \in Uint16
    OBVIOUS
  <2>1. low \in Uint16
    BY SMTT(60) DEF Byte, Uint16
  <2>2. \A c \in Uint16 : TwoShifts(c) \in Uint16
    BY ShiftType DEF TwoShifts
  <2> QED BY <2>1, <2>2 DEF EightShifts
<1>4. PICK shifted \in Uint16 : shifted = EightShifts[XorByte[crc % 256][byte]]
  BY <1>2, <1>3
<1>5. shifted % 256 \in Byte /\ shifted \div 256 \in Byte
  BY Bytewise
<1>6. XorByte[crc \div 256][shifted % 256] \in Byte
  BY <1>1, <1>5, XorByteType
<1> QED BY <1>4, <1>5, <1>6, WordType DEF CrcByte

LEMMA CrcType ==
  ASSUME NEW payload \in Seq(Byte)
  PROVE  calculate(payload) \in Uint16
<1> DEFINE IsCrc(f) ==
      f = [i \in 0..Len(payload) |-> IF i = 0 THEN 65535 ELSE CrcByte(f[i - 1], payload[i])]
<1>0. PICK n \in Nat : n = Len(payload)
  BY LenProperties
<1>1. \A i \in 1..n : payload[i] \in Byte
  BY <1>0
<1> DEFINE step == [i \in 1..n |-> [c \in Uint16 |-> CrcByte(c, payload[i])]]
<1>2. step \in [1..n -> [Uint16 -> Uint16]]
  BY <1>1, CrcByteType
<1>3. PICK g : g \in [0..n -> Uint16] /\ Iterates(g, n, 65535, step)
  <2> HIDE DEF step
  <2>1. 65535 \in Uint16
    BY SMTT(60) DEF Uint16
  <2> QED BY <1>2, <2>1, IterationExists
<1>4. ASSUME NEW i \in 0..n
      PROVE  g[i] = IF i = 0 THEN 65535 ELSE CrcByte(g[i - 1], payload[i])
  <2>1. CASE i = 0
    BY <2>1, <1>3 DEF Iterates
  <2>2. CASE i # 0
    <3>1. i \in 1..n /\ i - 1 \in 0..n
      BY <2>2
    <3>2. g[i] = step[i][g[i - 1]] /\ g[i - 1] \in Uint16
      BY <3>1, <1>3 DEF Iterates
    <3> QED BY <2>2, <3>1, <3>2
  <2> QED BY <2>1, <2>2
<1>5. IsCrc(g)
  BY <1>0, <1>3, <1>4
<1>6. PICK h : h = (CHOOSE f : IsCrc(f))
  OBVIOUS
<1>7. IsCrc(h)
  BY <1>5, <1>6
<1>8. calculate(payload) = h[n]
  BY <1>0, <1>6 DEF calculate
<1> DEFINE T == {i \in Nat : i <= n => h[i] \in Uint16}
<1>9. \A i \in 0..n : h[i] = IF i = 0 THEN 65535 ELSE CrcByte(h[i - 1], payload[i])
  BY <1>0, <1>7, SMTT(30)
<1>10. 0 \in T
  <2>1. 65535 \in Uint16
    BY SMTT(60) DEF Uint16
  <2>2. h[0] = 65535
    BY <1>9
  <2> QED BY <2>1, <2>2
<1>11. ASSUME NEW i \in Nat, i \in T PROVE i + 1 \in T
  <2> SUFFICES ASSUME i + 1 <= n PROVE h[i + 1] \in Uint16
    OBVIOUS
  <2>1. h[i + 1] = CrcByte(h[i], payload[i + 1])
    BY <1>9
  <2> QED BY <2>1, <1>1, <1>11, CrcByteType
<1>12. \A i \in Nat : i \in T
  <2> HIDE DEF T
  <2> QED BY <1>10, <1>11, Induct
<1> QED BY <1>8, <1>12
-----------------------------------------------------------------------------
(***************************************************************************)
(* The parser's loop.                                                      *)
(***************************************************************************)
Rest(b) == SubSeq(b, Taken(b) + 1, Len(b))
Found(b) == IF IsUds(b) THEN <<Payload(b)>> ELSE <<>>
Result == [rest : Seq(Byte), payloads : Seq(Seq(Byte))]
Turn(b, f) ==
  IF Waits(b) THEN [rest |-> b, payloads |-> <<>>]
  ELSE [rest |-> f[Rest(b)].rest, payloads |-> Found(b) \o f[Rest(b)].payloads]

LEMMA LengthType ==
  ASSUME NEW b \in Seq(Byte), Len(b) >= 5
  PROVE  Length(b) \in Nat /\ TotalLen(b) = Length(b) + 7 /\ TotalLen(b) \in Nat \ {0}
<1>1. b[4] \in Byte /\ b[5] \in Byte
  BY ElementOfSeq
<1>2. Length(b) \in Nat
  <2>1. Word(b[4], b[5]) \in Uint16
    BY <1>1, WordType
  <2>2. Length(b) \in Uint16
    BY <2>1, Zenon DEF Length
  <2> QED BY <2>2, Uint16Type
<1>3. TotalLen(b) = Length(b) + 7
  BY <1>2, SMTT(60) DEF TotalLen
<1> QED BY <1>2, <1>3

LEMMA PayloadType ==
  ASSUME NEW b \in Seq(Byte), Len(b) >= 5, Len(b) >= TotalLen(b)
  PROVE  /\ Payload(b) \in Seq(Byte) /\ Len(Payload(b)) = Length(b)
         /\ \A i \in 1..Length(b) : Payload(b)[i] = b[5 + i]
<1>0. PICK n \in Nat : n = Len(b)
  BY LenProperties
<1>1. PICK k \in Nat : k = Length(b) /\ k + 7 <= n
  BY LengthType, <1>0
<1>2. \A i \in 6..(5 + k) : b[i] \in Byte
  BY <1>0, <1>1, ElementOfSeq
<1>3. /\ SubSeq(b, 6, 5 + k) \in Seq(Byte)
      /\ Len(SubSeq(b, 6, 5 + k)) = IF 6 <= 5 + k THEN 5 + k - 6 + 1 ELSE 0
      /\ \A i \in 1..(5 + k - 6 + 1) : SubSeq(b, 6, 5 + k)[i] = b[6 + i - 1]
  BY <1>2, SubSeqProperties
<1> QED BY <1>1, <1>3 DEF Payload

LEMMA TurnMoves ==
  ASSUME receiver \in {"server", "client"}, NEW b \in Seq(Byte), ~Waits(b)
  PROVE  /\ Rest(b) \in Seq(Byte) /\ Len(Rest(b)) < Len(b)
         /\ Found(b) \in Seq(Seq(Byte))
<1>0. PICK n \in Nat : n = Len(b)
  BY LenProperties
<1>1. n >= 5
  BY <1>0 DEF Waits, HeaderSize
<1>2. PICK k \in Nat \ {0} : k = Taken(b)
  BY <1>0, <1>1, LengthType DEF Taken
<1>3. \A i \in (k + 1)..n : b[i] \in Byte
  BY <1>0, ElementOfSeq
<1>4. /\ Rest(b) \in Seq(Byte)
      /\ Len(Rest(b)) = IF k + 1 <= n THEN n - (k + 1) + 1 ELSE 0
  BY <1>0, <1>2, <1>3, SubSeqProperties DEF Rest
<1>5. Found(b) \in Seq(Seq(Byte))
  <2>1. CASE IsUds(b)
    <3>1. Payload(b) \in Seq(Byte)
      BY <2>1, <1>0, <1>1, LengthType, PayloadType DEF IsUds, Waits
    <3> QED BY <2>1, <3>1 DEF Found
  <2>2. CASE ~IsUds(b)
    BY <2>2 DEF Found
  <2> QED BY <2>1, <2>2
<1> QED BY <1>0, <1>1, <1>4, <1>5

(* g is the parser's function on the buffers of at most n bytes.           *)
Parses(g, n) ==
  \A b \in Seq(Byte) : Len(b) <= n => g[b] = Turn(b, g) /\ g[b] \in Result

LEMMA TurnType ==
  ASSUME receiver \in {"server", "client"}, NEW b \in Seq(Byte), NEW f,
         ~Waits(b) => f[Rest(b)] \in Result
  PROVE  Turn(b, f) \in Result
<1>1. CASE Waits(b)
  BY <1>1 DEF Turn, Result
<1>2. CASE ~Waits(b)
  <2>1. PICK r \in Result : r = f[Rest(b)]
    BY <1>2
  <2>2. r.rest \in Seq(Byte) /\ r.payloads \in Seq(Seq(Byte))
    BY DEF Result
  <2>3. Found(b) \o r.payloads \in Seq(Seq(Byte))
    BY <1>2, <2>2, TurnMoves, ConcatProperties
  <2> QED BY <1>2, <2>1, <2>2, <2>3 DEF Turn, Result
<1> QED BY <1>1, <1>2

LEMMA TurnSame ==
  ASSUME receiver \in {"server", "client"}, NEW b \in Seq(Byte), NEW f, NEW g,
         ~Waits(b) => f[Rest(b)] = g[Rest(b)]
  PROVE  Turn(b, f) = Turn(b, g)
BY DEF Turn

LEMMA ParsesExists ==
  ASSUME receiver \in {"server", "client"}
  PROVE  \A n \in Nat : \E g : Parses(g, n)
<1> DEFINE N == {n \in Nat : \E g : Parses(g, n)}
           Stay == [b \in Seq(Byte) |-> [rest |-> b, payloads |-> <<>>]]
<1>1. 0 \in N
  <2>1. ASSUME NEW b \in Seq(Byte), Len(b) <= 0
        PROVE  Stay[b] = Turn(b, Stay) /\ Stay[b] \in Result
    <3>1. b = <<>> /\ Len(b) = 0
      BY <2>1, EmptySeq
    <3>2. Waits(b)
      BY <3>1 DEF Waits, HeaderSize
    <3> QED BY <3>1, <3>2 DEF Turn, Result
  <2>2. Parses(Stay, 0)
    BY <2>1 DEF Parses
  <2> QED BY <2>2
<1>2. ASSUME NEW n \in Nat, n \in N PROVE n + 1 \in N
  <2>1. PICK g : Parses(g, n)
    BY <1>2
  <2> DEFINE h == [b \in Seq(Byte) |-> IF Len(b) <= n THEN g[b] ELSE Turn(b, g)]
  <2>2. ASSUME NEW b \in Seq(Byte), Len(b) <= n + 1
        PROVE  h[b] = Turn(b, h) /\ h[b] \in Result
    <3>0. Len(b) \in Nat
      BY LenProperties
    <3>1. ASSUME ~Waits(b) PROVE /\ Rest(b) \in Seq(Byte) /\ Len(Rest(b)) <= n
                                 /\ h[Rest(b)] = g[Rest(b)] /\ g[Rest(b)] \in Result
      <4>1. /\ Rest(b) \in Seq(Byte) /\ Len(Rest(b)) < Len(b)
            /\ Len(Rest(b)) \in Nat
        BY <3>1, TurnMoves, LenProperties
      <4>2. Len(Rest(b)) <= n
        BY <4>1, <3>0, <2>2
      <4> QED BY <4>1, <4>2, <2>1 DEF Parses
    <3>2. Turn(b, h) = Turn(b, g)
      BY <3>1, TurnSame
    <3>3. Turn(b, g) \in Result
      BY <3>1, TurnType
    <3>4. h[b] = Turn(b, g)
      <4>1. CASE Len(b) <= n
        BY <4>1, <2>1 DEF Parses
      <4>2. CASE ~(Len(b) <= n)
        BY <4>2
      <4> QED BY <4>1, <4>2
    <3> QED BY <3>2, <3>3, <3>4
  <2> HIDE DEF h
  <2>3. Parses(h, n + 1)
    BY <2>2 DEF Parses
  <2> QED BY <2>3
<1> HIDE DEF N
<1>3. \A n \in Nat : n \in N
  BY <1>1, <1>2, Induct
<1> QED BY <1>3 DEF N

LEMMA ParsesUnique ==
  ASSUME receiver \in {"server", "client"}, NEW f, NEW g, NEW n \in Nat,
         Parses(f, n), Parses(g, n)
  PROVE  \A b \in Seq(Byte) : Len(b) <= n => f[b] = g[b]
<1> DEFINE M == {k \in Nat : \A c \in Seq(Byte) : Len(c) <= k /\ k <= n => f[c] = g[c]}
<1>1. 0 \in M
  <2> SUFFICES ASSUME NEW c \in Seq(Byte), Len(c) <= 0 PROVE f[c] = g[c]
    OBVIOUS
  <2>1. c = <<>> /\ Len(c) = 0
    BY EmptySeq
  <2>2. Waits(c)
    BY <2>1 DEF Waits, HeaderSize
  <2>3. f[c] = Turn(c, f) /\ g[c] = Turn(c, g)
    <3>1. Len(c) <= n
      BY <2>1
    <3> QED BY <3>1 DEF Parses
  <2> QED BY <2>2, <2>3 DEF Turn
<1>2. ASSUME NEW k \in Nat, k \in M PROVE k + 1 \in M
  <2> SUFFICES ASSUME NEW c \in Seq(Byte), Len(c) <= k + 1, k + 1 <= n PROVE f[c] = g[c]
    OBVIOUS
  <2>0. Len(c) \in Nat /\ Len(c) <= n
    BY LenProperties
  <2>1. f[c] = Turn(c, f) /\ g[c] = Turn(c, g)
    BY <2>0 DEF Parses
  <2>2. ASSUME ~Waits(c) PROVE f[Rest(c)] = g[Rest(c)]
    <3>1. Rest(c) \in Seq(Byte) /\ Len(Rest(c)) < Len(c) /\ Len(Rest(c)) \in Nat
      BY <2>2, TurnMoves, LenProperties
    <3>2. Len(Rest(c)) <= k /\ k <= n
      BY <3>1, <2>0
    <3> QED BY <3>1, <3>2, <1>2
  <2> QED BY <2>1, <2>2, TurnSame
<1>3. n \in M
  <2> HIDE DEF M
  <2> QED BY <1>1, <1>2, Induct
<1> QED BY <1>3

(* The parser's loop ends on every buffer, and is what one turn and the    *)
(* loop on the rest make of it.                                            *)
LEMMA LoopIs ==
  ASSUME receiver \in {"server", "client"}, NEW b \in Seq(Byte)
  PROVE  ParseLoop[b] = Turn(b, ParseLoop) /\ ParseLoop[b] \in Result
<1> DEFINE G == [n \in Nat |-> CHOOSE g : Parses(g, n)]
           loop == [c \in Seq(Byte) |-> G[Len(c)][c]]
<1>1. \A n \in Nat : Parses(G[n], n)
  BY ParsesExists
<1> HIDE DEF G
<1>2. ASSUME NEW c \in Seq(Byte) PROVE loop[c] = Turn(c, loop)
  <2>0. Len(c) \in Nat
    BY LenProperties
  <2>1. loop[c] = Turn(c, G[Len(c)])
    BY <1>1, <2>0 DEF Parses
  <2>2. ASSUME ~Waits(c) PROVE G[Len(c)][Rest(c)] = loop[Rest(c)]
    <3>1. Rest(c) \in Seq(Byte) /\ Len(Rest(c)) < Len(c) /\ Len(Rest(c)) \in Nat
      BY <2>2, TurnMoves, LenProperties
    <3>2. Parses(G[Len(c)], Len(Rest(c)))
      <4>1. \A d \in Seq(Byte) : Len(d) <= Len(Rest(c)) => Len(d) <= Len(c)
        BY <2>0, <3>1, LenProperties
      <4> QED BY <4>1, <1>1, <2>0 DEF Parses
    <3>3. Parses(G[Len(Rest(c))], Len(Rest(c)))
      BY <1>1, <3>1
    <3>4. Len(Rest(c)) <= Len(Rest(c))
      BY <3>1
    <3> QED BY <3>1, <3>2, <3>3, <3>4, ParsesUnique
  <2> QED BY <2>1, <2>2, TurnSame
<1>3. \A c \in Seq(Byte) : Turn(c, loop) =
        IF Waits(c) THEN [rest |-> c, payloads |-> <<>>]
        ELSE LET turn == loop[SubSeq(c, Taken(c) + 1, Len(c))] IN
             [rest |-> turn.rest,
              payloads |-> (IF IsUds(c) THEN <<Payload(c)>> ELSE <<>>) \o turn.payloads]
  BY Zenon DEF Turn, Rest, Found
<1> DEFINE IsLoop(g) == g =
        [c \in Seq(Byte) |->
           IF Waits(c) THEN [rest |-> c, payloads |-> <<>>]
           ELSE LET turn == g[SubSeq(c, Taken(c) + 1, Len(c))] IN
                [rest |-> turn.rest,
                 payloads |-> (IF IsUds(c) THEN <<Payload(c)>> ELSE <<>>) \o turn.payloads]]
<1>4. \E g : IsLoop(g)
  <2>1. IsLoop(loop)
    BY <1>2, <1>3, Zenon
  <2> QED BY <2>1
<1>5. IsLoop(ParseLoop)
  BY <1>4, Zenon DEF ParseLoop
<1>6. \A c \in Seq(Byte) : ParseLoop[c] = Turn(c, ParseLoop)
  BY <1>5, Zenon DEF Turn, Rest, Found
<1>7. Parses(ParseLoop, Len(b))
  <2> DEFINE M == {n \in Nat : Parses(ParseLoop, n)}
  <2>1. 0 \in M
    <3> SUFFICES ASSUME NEW c \in Seq(Byte), Len(c) <= 0 PROVE ParseLoop[c] \in Result
      BY <1>6 DEF Parses
    <3>1. c = <<>> /\ Len(c) = 0
      BY EmptySeq
    <3>2. Waits(c)
      BY <3>1 DEF Waits, HeaderSize
    <3>3. ParseLoop[c] = Turn(c, ParseLoop)
      BY <1>6
    <3> QED BY <3>2, <3>3, TurnType
  <2>2. ASSUME NEW n \in Nat, n \in M PROVE n + 1 \in M
    <3> SUFFICES ASSUME NEW c \in Seq(Byte), Len(c) <= n + 1 PROVE ParseLoop[c] \in Result
      BY <1>6 DEF Parses
    <3>1. ASSUME ~Waits(c) PROVE ParseLoop[Rest(c)] \in Result
      <4>1. Rest(c) \in Seq(Byte) /\ Len(Rest(c)) < Len(c) /\ Len(Rest(c)) \in Nat
            /\ Len(c) \in Nat
        BY <3>1, TurnMoves, LenProperties
      <4>2. Len(Rest(c)) <= n
        BY <4>1
      <4> QED BY <4>1, <4>2, <2>2 DEF Parses
    <3>2. Turn(c, ParseLoop) \in Result
      BY <3>1, TurnType
    <3> QED BY <3>2, <1>6
  <2>3. \A n \in Nat : n \in M
    <3> HIDE DEF M
    <3> QED BY <2>1, <2>2, Induct
  <2> QED BY <2>3, LenProperties
<1>8. Len(b) \in Nat
  BY LenProperties
<1> QED BY <1>6, <1>7, <1>8 DEF Parses
-----------------------------------------------------------------------------
(***************************************************************************)
(* The bytes of a packet, and what a turn of the loop makes of them.       *)
(***************************************************************************)
Packet == FromClient \union FromServer

LEMMA PacketType ==
  ASSUME NEW p \in Packet
  PROVE  /\ p.type \in Byte /\ p.payload \in Seq(Byte)
         /\ Len(p.payload) \in Uint16 /\ Len(p.payload) \in Nat
<1>1. p \in [type : Byte, payload : Seq(Byte)]
  BY FramingAssumption DEF Packet
<1>2. p.type \in Byte /\ p.payload \in Seq(Byte)
  BY <1>1
<1>3. Len(p.payload) \in Nat
  BY <1>2, LenProperties
<1>4. Len(p.payload) < 65536
  <2>1. CASE p \in FromServer
    BY <2>1, FramingAssumption
  <2>2. CASE p \in FromClient
    BY <2>2, <1>3, FramingAssumption
  <2> QED BY <2>1, <2>2 DEF Packet
<1>5. \A n \in Nat : n < 65536 => n \in Uint16
  BY SMT DEF Uint16
<1> QED BY <1>2, <1>3, <1>4, <1>5

(* Concatenation, part by part.                                            *)
Joins(q, s, t) ==
  /\ Len(q) = Len(s) + Len(t)
  /\ \A i \in 1..Len(s) : q[i] = s[i]
  /\ \A i \in 1..Len(t) : q[Len(s) + i] = t[i]

LEMMA ConcatIs ==
  ASSUME NEW S, NEW s \in Seq(S), NEW t \in Seq(S), NEW q, q = s \o t
  PROVE  q \in Seq(S) /\ Joins(q, s, t)
<1>0. PICK m \in Nat, n \in Nat : m = Len(s) /\ n = Len(t)
  BY LenProperties
<1>1. /\ q \in Seq(S) /\ Len(q) = m + n
      /\ \A i \in 1..(m + n) : q[i] = IF i <= m THEN s[i] ELSE t[i - m]
  BY <1>0, ConcatProperties
<1>2. ASSUME NEW i \in 1..m PROVE q[i] = s[i]
  BY <1>1
<1>3. ASSUME NEW i \in 1..n PROVE q[m + i] = t[i]
  <2>1. m + i \in 1..(m + n) /\ ~(m + i <= m) /\ (m + i) - m = i
    OBVIOUS
  <2> QED BY <2>1, <1>1
<1> QED BY <1>0, <1>1, <1>2, <1>3 DEF Joins

LEMMA TupleOf5 ==
  ASSUME NEW S, NEW a \in S, NEW b \in S, NEW c \in S, NEW d \in S, NEW e \in S,
         NEW s, s = <<a, b, c, d, e>>
  PROVE  /\ s \in Seq(S) /\ Len(s) = 5
         /\ s[1] = a /\ s[2] = b /\ s[3] = c /\ s[4] = d /\ s[5] = e
OBVIOUS

LEMMA TupleOf2 ==
  ASSUME NEW S, NEW a \in S, NEW b \in S, NEW s, s = <<a, b>>
  PROVE  s \in Seq(S) /\ Len(s) = 2 /\ s[1] = a /\ s[2] = b
OBVIOUS

LEMMA TupleOf1 ==
  ASSUME NEW S, NEW a \in S, NEW s, s = <<a>>
  PROVE  s \in Seq(S) /\ Len(s) = 1 /\ s[1] = a
OBVIOUS

LEMMA TuplesJoined ==
  ASSUME NEW S, NEW a \in S, NEW b \in S, NEW c \in S, NEW d \in S, NEW e \in S,
         NEW s, s = (<<a, b>> \o <<c>>) \o <<d, e>>
  PROVE  /\ s \in Seq(S) /\ Len(s) = 5
         /\ s[1] = a /\ s[2] = b /\ s[3] = c /\ s[4] = d /\ s[5] = e
<1>1. PICK ab : ab = <<a, b>>
  OBVIOUS
<1>2. PICK cc : cc = <<c>>
  OBVIOUS
<1>3. PICK de : de = <<d, e>>
  OBVIOUS
<1>4. /\ ab \in Seq(S) /\ Len(ab) = 2 /\ ab[1] = a /\ ab[2] = b
      /\ cc \in Seq(S) /\ Len(cc) = 1 /\ cc[1] = c
      /\ de \in Seq(S) /\ Len(de) = 2 /\ de[1] = d /\ de[2] = e
  BY <1>1, <1>2, <1>3, TupleOf1, TupleOf2
<1>5. PICK q : q = ab \o cc
  OBVIOUS
<1>6. q \in Seq(S) /\ Joins(q, ab, cc)
  BY <1>4, <1>5, ConcatIs
<1>7. s = q \o de
  BY <1>1, <1>2, <1>3, <1>5, Zenon
<1>8. s \in Seq(S) /\ Joins(s, q, de)
  BY <1>4, <1>6, <1>7, ConcatIs
<1>9. Len(q) = 3 /\ q[1] = a /\ q[2] = b /\ q[3] = c
  BY <1>4, <1>6 DEF Joins
<1> QED BY <1>4, <1>8, <1>9 DEF Joins

(* The bytes of a packet, one by one.                                      *)
Encodes(bytes, p, n, crc) ==
  /\ Len(bytes) = n + 7
  /\ bytes[1] = 205 /\ bytes[2] = 171 /\ bytes[3] = p.type
  /\ bytes[4] = n % 256 /\ bytes[5] = n \div 256
  /\ \A i \in 1..n : bytes[5 + i] = p.payload[i]
  /\ bytes[n + 6] = crc % 256 /\ bytes[n + 7] = crc \div 256

LEMMA BytesAre ==
  ASSUME NEW p \in Packet, NEW n \in Nat, n = Len(p.payload),
         NEW crc, crc = calculate(p.payload)
  PROVE  Bytes[p] \in Seq(Byte) /\ Encodes(Bytes[p], p, n, crc)
<1>1. crc \in Uint16
  BY PacketType, CrcType
<1>2. PICK lo \in Byte, hi \in Byte : lo = n % 256 /\ hi = n \div 256
  BY PacketType, Bytewise
<1>3. PICK crcLo \in Byte, crcHi \in Byte : crcLo = crc % 256 /\ crcHi = crc \div 256
  BY <1>1, Bytewise
<1>4. LittleEndian(n) = <<lo, hi>> /\ LittleEndian(crc) = <<crcLo, crcHi>>
  <2>1. n \in Uint16
    BY PacketType
  <2>2. LittleEndian(n) = <<n % 256, n \div 256>>
    BY <2>1, WordOfLittleEndian, Zenon
  <2>3. LittleEndian(crc) = <<crc % 256, crc \div 256>>
    BY <1>1, WordOfLittleEndian, Zenon
  <2> QED BY <1>2, <1>3, <2>2, <2>3, Zenon
<1>5. PICK m1 \in Byte, m2 \in Byte : m1 = 205 /\ m2 = 171
  BY SMT DEF Byte
<1>6. PICK header : header = (<<m1, m2>> \o <<p.type>>) \o <<lo, hi>>
  OBVIOUS
<1>7. /\ header \in Seq(Byte) /\ Len(header) = 5
      /\ header[1] = m1 /\ header[2] = m2 /\ header[3] = p.type
      /\ header[4] = lo /\ header[5] = hi
  BY <1>6, PacketType, TuplesJoined
<1>8. PICK tail : tail = <<crcLo, crcHi>>
  OBVIOUS
<1>9. tail \in Seq(Byte) /\ Len(tail) = 2 /\ tail[1] = crcLo /\ tail[2] = crcHi
  BY <1>8, TupleOf2
<1>10. Bytes[p] = (header \o p.payload) \o tail
  <2>1. Bytes[p] = Magic \o <<p.type>> \o LittleEndian(Len(p.payload)) \o p.payload
                     \o LittleEndian(calculate(p.payload))
    BY Zenon DEF Bytes, Packet
  <2>2. Magic = <<m1, m2>>
    BY <1>5, Zenon DEF Magic
  <2> QED BY <2>1, <2>2, <1>4, <1>6, <1>8, Zenon
<1>11. PICK body : body = header \o p.payload
  OBVIOUS
<1>12. /\ body \in Seq(Byte) /\ Len(body) = 5 + n
       /\ \A i \in 1..5 : body[i] = header[i]
       /\ \A i \in 1..n : body[5 + i] = p.payload[i]
  <2>1. body \in Seq(Byte) /\ Joins(body, header, p.payload)
    BY <1>7, <1>11, PacketType, ConcatIs
  <2> QED BY <2>1, <1>7 DEF Joins
<1>13. Bytes[p] = body \o tail
  BY <1>10, <1>11, Zenon
<1>14. /\ Bytes[p] \in Seq(Byte) /\ Len(Bytes[p]) = (5 + n) + 2
       /\ \A i \in 1..(5 + n) : Bytes[p][i] = body[i]
       /\ \A i \in 1..2 : Bytes[p][(5 + n) + i] = tail[i]
  <2>1. Bytes[p] \in Seq(Byte) /\ Joins(Bytes[p], body, tail)
    BY <1>9, <1>12, <1>13, ConcatIs
  <2> QED BY <2>1, <1>9, <1>12 DEF Joins
<1>15. Len(Bytes[p]) = n + 7
  BY <1>14
<1>16. \A i \in 1..5 : Bytes[p][i] = header[i]
  <2>1. TAKE i \in 1..5
  <2>2. i \in 1..(5 + n)
    OBVIOUS
  <2>3. Bytes[p][i] = body[i]
    BY <2>2, <1>14, Zenon
  <2>4. body[i] = header[i]
    BY <1>12, Zenon
  <2> QED BY <2>3, <2>4, Zenon
<1>17. \A i \in 1..n : Bytes[p][5 + i] = p.payload[i]
  <2>1. TAKE i \in 1..n
  <2>2. 5 + i \in 1..(5 + n)
    OBVIOUS
  <2>3. Bytes[p][5 + i] = body[5 + i]
    BY <2>2, <1>14, Zenon
  <2>4. body[5 + i] = p.payload[i]
    BY <1>12, Zenon
  <2> QED BY <2>3, <2>4, Zenon
<1>18. Bytes[p][n + 6] = crcLo /\ Bytes[p][n + 7] = crcHi
  <2>1. (5 + n) + 1 = n + 6 /\ (5 + n) + 2 = n + 7
    OBVIOUS
  <2> QED BY <2>1, <1>9, <1>14
<1>19. /\ Bytes[p][1] = 205 /\ Bytes[p][2] = 171 /\ Bytes[p][3] = p.type
       /\ Bytes[p][4] = lo /\ Bytes[p][5] = hi
  BY <1>5, <1>7, <1>16
<1> QED BY <1>2, <1>3, <1>14, <1>15, <1>17, <1>18, <1>19 DEF Encodes

(* The buffer starts with the packet p, as far as it goes.                 *)
StartsWith(b, p) ==
  \A i \in 1..Len(b) : i <= Len(Bytes[p]) => b[i] = Bytes[p][i]

LEMMA MagicOf ==
  ASSUME NEW b \in Seq(Byte), Len(b) >= 2
  PROVE  IsMagic(b) <=> b[1] = 205 /\ b[2] = 171
<1>1. SubSeq(b, 1, 2) = <<b[1], b[2]>>
  <2>1. 1 \in 1..Len(b) /\ 2 \in 1..Len(b)
    BY LenProperties
  <2>2. b[1] \in Byte /\ b[2] \in Byte
    BY <2>1, ElementOfSeq
  <2>3. PICK s : s = SubSeq(b, 1, 2)
    OBVIOUS
  <2>4. PICK t : t = <<b[1], b[2]>>
    OBVIOUS
  <2>5. s \in Seq(Byte) /\ Len(s) = 2 /\ \A i \in 1..2 : s[i] = b[i]
    <3>1. \A i \in 1..2 : b[i] \in Byte
      BY <2>2
    <3>2. /\ s \in Seq(Byte) /\ Len(s) = IF 1 <= 2 THEN 2 - 1 + 1 ELSE 0
          /\ \A i \in 1..(2 - 1 + 1) : s[i] = b[1 + i - 1]
      BY <3>1, <2>3, SubSeqProperties
    <3> QED BY <3>2
  <2>6. t \in Seq(Byte) /\ Len(t) = 2 /\ t[1] = b[1] /\ t[2] = b[2]
    BY <2>2, <2>4, TupleOf2
  <2>7. \A i \in 1..2 : s[i] = t[i]
    BY <2>5, <2>6
  <2> QED BY <2>3, <2>4, <2>5, <2>6, <2>7, SeqEqual
<1> QED BY <1>1 DEF IsMagic, Magic

LEMMA HeaderReads ==
  ASSUME receiver \in {"server", "client"}, NEW p \in Packets, NEW b \in Seq(Byte),
         StartsWith(b, p), Len(b) >= 5
  PROVE  /\ IsMagic(b) /\ ~Oversized(b) /\ b[3] = p.type
         /\ Length(b) = Len(p.payload) /\ TotalLen(b) = Len(Bytes[p])
<1>0. p \in Packet
  BY DEF Packets, Packet
<1>1. PICK n \in Nat : n = Len(p.payload)
  BY <1>0, PacketType
<1>2. /\ Len(Bytes[p]) = n + 7
      /\ b[1] = 205 /\ b[2] = 171 /\ b[3] = p.type /\ b[4] = n % 256 /\ b[5] = n \div 256
  <2>1. Len(Bytes[p]) = n + 7
    BY <1>0, <1>1, BytesAre DEF Encodes
  <2>2. \A i \in 1..5 : i \in 1..Len(b) /\ i <= n + 7
    BY LenProperties
  <2>3. \A i \in 1..5 : b[i] = Bytes[p][i]
    BY <2>1, <2>2 DEF StartsWith
  <2>4. /\ Bytes[p][1] = 205 /\ Bytes[p][2] = 171 /\ Bytes[p][3] = p.type
        /\ Bytes[p][4] = n % 256 /\ Bytes[p][5] = n \div 256
    <3>1. PICK crc : crc = calculate(p.payload)
      OBVIOUS
    <3>2. Encodes(Bytes[p], p, n, crc)
      BY <3>1, <1>0, <1>1, BytesAre
    <3> QED BY <3>2 DEF Encodes
  <2> QED BY <2>1, <2>3, <2>4
<1>3. IsMagic(b)
  BY <1>2, MagicOf
<1>4. Length(b) = n
  BY <1>0, <1>1, <1>2, PacketType, WordOfLittleEndian DEF Length
<1>5. ~Oversized(b)
  BY <1>1, <1>4, FramingAssumption DEF Oversized, Packets
<1> QED BY <1>1, <1>2, <1>3, <1>4, <1>5, LengthType

LEMMA WaitsForRest ==
  ASSUME receiver \in {"server", "client"}, NEW p \in Packets, NEW b \in Seq(Byte),
         StartsWith(b, p), Len(b) < Len(Bytes[p])
  PROVE  Waits(b)
<1>1. CASE Len(b) >= 5
  BY <1>1, HeaderReads DEF Waits
<1>2. CASE ~(Len(b) >= 5)
  <2>1. Len(b) \in Nat
    BY LenProperties
  <2> QED BY <2>1, <1>2 DEF Waits, HeaderSize
<1> QED BY <1>1, <1>2

LEMMA ReadsPacket ==
  ASSUME receiver \in {"server", "client"}, NEW p \in Packets, NEW b \in Seq(Byte),
         StartsWith(b, p), Len(b) >= Len(Bytes[p])
  PROVE  /\ ~Waits(b) /\ Taken(b) = Len(Bytes[p])
         /\ Found(b) = UdsPayload(p)
<1>0. p \in Packet
  BY DEF Packets, Packet
<1>1. PICK n \in Nat : n = Len(p.payload)
  BY <1>0, PacketType
<1>2. PICK crc \in Uint16 : crc = calculate(p.payload)
  BY <1>0, PacketType, CrcType
<1>3. PICK m \in Nat : m = Len(b)
  BY LenProperties
<1>4. Len(Bytes[p]) = n + 7 /\ m >= n + 7
  BY <1>0, <1>1, <1>3, BytesAre DEF Encodes
<1>5. /\ IsMagic(b) /\ ~Oversized(b) /\ b[3] = p.type
      /\ Length(b) = n /\ TotalLen(b) = n + 7
  BY <1>1, <1>3, <1>4, HeaderReads
<1>6. Payload(b) = p.payload
  <2>1. /\ Payload(b) \in Seq(Byte) /\ Len(Payload(b)) = n
        /\ \A i \in 1..n : Payload(b)[i] = b[5 + i]
    BY <1>3, <1>4, <1>5, PayloadType, SMTT(30)
  <2>2. \A i \in 1..n : 5 + i \in 1..m /\ 5 + i <= n + 7
    BY <1>4
  <2>3. \A i \in 1..n : b[5 + i] = Bytes[p][5 + i]
    BY <2>2, <1>3, <1>4 DEF StartsWith
  <2>4. \A i \in 1..n : Payload(b)[i] = p.payload[i]
    BY <2>1, <2>3, <1>0, <1>1, BytesAre DEF Encodes
  <2> QED BY <2>1, <2>4, <1>0, <1>1, PacketType, SeqEqual
<1>7. CrcMatches(b)
  <2>1. n + 6 \in 1..m /\ n + 7 \in 1..m /\ n + 6 <= n + 7 /\ n + 7 <= n + 7
    BY <1>4
  <2>2. \A i \in 1..m : i <= n + 7 => b[i] = Bytes[p][i]
    BY <1>3, <1>4, Zenon DEF StartsWith
  <2>3. b[n + 6] = crc % 256 /\ b[n + 7] = crc \div 256
    <3>1. Encodes(Bytes[p], p, n, crc)
      BY <1>0, <1>1, <1>2, BytesAre
    <3>2. b[n + 6] = Bytes[p][n + 6] /\ b[n + 7] = Bytes[p][n + 7]
      BY <2>1, <2>2, Zenon
    <3> QED BY <3>1, <3>2, Zenon DEF Encodes
  <2>4. Word(b[n + 6], b[n + 7]) = crc
    BY <2>3, WordOfLittleEndian
  <2>5. TotalLen(b) - 1 = n + 6
    BY <1>5
  <2> QED BY <2>4, <2>5, <1>2, <1>5, <1>6 DEF CrcMatches
<1>8. ~Waits(b)
  BY <1>3, <1>4, <1>5 DEF Waits, HeaderSize
<1>9. Taken(b) = Len(Bytes[p])
  BY <1>4, <1>5, <1>7 DEF Taken
<1>10. IsUds(b) <=> p.type = UDS
  <2>1. receiver = "server" /\ p.type = UDS => p.payload # <<>>
    BY FramingAssumption DEF Packets
  <2> QED BY <2>1, <1>5, <1>6, <1>7 DEF IsUds
<1> QED BY <1>6, <1>8, <1>9, <1>10 DEF Found, UdsPayload
-----------------------------------------------------------------------------
(***************************************************************************)
(* The stream of the packets sent.                                         *)
(***************************************************************************)
(* r is q and e after it; s is the first k elements of q.                  *)
Appends(r, q, e) ==
  /\ Len(r) = Len(q) + 1
  /\ \A i \in 1..Len(q) : r[i] = q[i]
  /\ r[Len(q) + 1] = e
Begins(s, q, k) == Len(s) = k /\ \A i \in 1..k : s[i] = q[i]

LEMMA AppendIs ==
  ASSUME NEW S, NEW q \in Seq(S), NEW e \in S, NEW r, r = Append(q, e)
  PROVE  r \in Seq(S) /\ Appends(r, q, e)
BY AppendProperties DEF Appends

(* What F makes of the elements of q, and the concatenation of that.       *)
MapOf(q, F) == [i \in DOMAIN q |-> F[q[i]]]
Mapped(q, F) == FlattenSeq(MapOf(q, F))

Maps(m, q, F) == Len(m) = Len(q) /\ \A i \in 1..Len(q) : m[i] = F[q[i]]

LEMMA MapType ==
  ASSUME NEW S, NEW T, NEW F \in [S -> T], NEW q \in Seq(S), NEW m, m = MapOf(q, F)
  PROVE  m \in Seq(T) /\ Maps(m, q, F)
<1>1. PICK n \in Nat : n = Len(q) /\ DOMAIN q = 1..n
  BY LenProperties
<1>2. \A i \in 1..n : F[q[i]] \in T
  BY <1>1, ElementOfSeq
<1>3. m = [i \in 1..n |-> F[q[i]]]
  BY <1>1 DEF MapOf
<1>4. m \in Seq(T)
  BY <1>2, <1>3
<1> QED BY <1>1, <1>3, <1>4 DEF Maps

LEMMA MapAppend ==
  ASSUME NEW S, NEW T, NEW F \in [S -> T], NEW q \in Seq(S), NEW e \in S
  PROVE  MapOf(Append(q, e), F) = Append(MapOf(q, F), F[e])
<1>1. PICK n \in Nat : n = Len(q)
  BY LenProperties
<1>2. PICK r : r = Append(q, e)
  OBVIOUS
<1>3. PICK a : a = MapOf(q, F)
  OBVIOUS
<1>4. PICK b : b = MapOf(r, F)
  OBVIOUS
<1>5. PICK c : c = Append(a, F[e])
  OBVIOUS
<1>6. r \in Seq(S) /\ Appends(r, q, e)
  BY <1>2, AppendIs
<1>7. a \in Seq(T) /\ Maps(a, q, F)
  BY <1>3, MapType
<1>8. b \in Seq(T) /\ Maps(b, r, F)
  BY <1>4, <1>6, MapType
<1>9. F[e] \in T
  OBVIOUS
<1>10. c \in Seq(T) /\ Appends(c, a, F[e])
  BY <1>5, <1>7, <1>9, AppendIs
<1>11. Len(r) = n + 1 /\ Len(b) = n + 1 /\ Len(c) = n + 1
  BY <1>1, <1>6, <1>7, <1>8, <1>10 DEF Appends, Maps
<1>12. ASSUME NEW i \in 1..(n + 1) PROVE b[i] = c[i]
  <2>1. b[i] = F[r[i]]
    BY <1>8, <1>11 DEF Maps
  <2>2. CASE i = n + 1
    <3>1. r[i] = e /\ c[i] = F[e]
      BY <2>2, <1>1, <1>6, <1>7, <1>10 DEF Appends, Maps
    <3> QED BY <2>1, <3>1
  <2>3. CASE i # n + 1
    <3>1. i \in 1..n
      BY <2>3
    <3>2. c[i] = a[i] /\ r[i] = q[i] /\ a[i] = F[q[i]]
      BY <3>1, <1>1, <1>6, <1>7, <1>10 DEF Appends, Maps
    <3> QED BY <2>1, <3>2
  <2> QED BY <2>2, <2>3
<1>13. b = c
  BY <1>8, <1>10, <1>11, <1>12, SeqEqual
<1> QED BY <1>2, <1>3, <1>4, <1>5, <1>13, Zenon

LEMMA MappedType ==
  ASSUME NEW S, NEW T, NEW F \in [S -> Seq(T)], NEW q \in Seq(S)
  PROVE  Mapped(q, F) \in Seq(T)
<1>1. MapOf(q, F) \in Seq(Seq(T))
  BY MapType
<1> QED BY <1>1, FlattenType DEF Mapped

LEMMA MappedEmpty ==
  ASSUME NEW F
  PROVE  Mapped(<<>>, F) = <<>>
<1>1. MapOf(<<>>, F) = <<>>
  BY DEF MapOf
<1> QED BY <1>1, FlattenEmpty, Zenon DEF Mapped

LEMMA MappedAppend ==
  ASSUME NEW S, NEW T, NEW F \in [S -> Seq(T)], NEW q \in Seq(S), NEW e \in S
  PROVE  Mapped(Append(q, e), F) = Mapped(q, F) \o F[e]
<1>1. MapOf(q, F) \in Seq(Seq(T)) /\ F[e] \in Seq(T)
  BY MapType
<1>2. FlattenSeq(Append(MapOf(q, F), F[e])) = FlattenSeq(MapOf(q, F)) \o F[e]
  BY <1>1, FlattenAppend
<1>3. MapOf(Append(q, e), F) = Append(MapOf(q, F), F[e])
  BY MapAppend, Zenon
<1> QED BY <1>2, <1>3, Zenon DEF Mapped

LEMMA FirstK ==
  ASSUME NEW S, NEW q \in Seq(S), NEW k \in 0..Len(q), NEW s, s = SubSeq(q, 1, k)
  PROVE  s \in Seq(S) /\ Begins(s, q, k)
<1>1. Len(q) \in Nat
  BY LenProperties
<1>2. \A i \in 1..k : q[i] \in S
  BY <1>1, ElementOfSeq
<1>3. /\ SubSeq(q, 1, k) \in Seq(S)
      /\ Len(SubSeq(q, 1, k)) = IF 1 <= k THEN k - 1 + 1 ELSE 0
      /\ \A i \in 1..(k - 1 + 1) : SubSeq(q, 1, k)[i] = q[1 + i - 1]
  BY <1>1, <1>2, SubSeqProperties
<1>4. Len(SubSeq(q, 1, k)) = k /\ \A i \in 1..k : SubSeq(q, 1, k)[i] = q[i]
  BY <1>1, <1>3
<1> QED BY <1>3, <1>4 DEF Begins

LEMMA SameBeginning ==
  ASSUME NEW S, NEW a \in Seq(S), NEW b \in Seq(S), NEW k, Len(a) = k, Len(b) = k,
         \A i \in 1..k : a[i] = b[i]
  PROVE  a = b
BY SeqEqual

LEMMA FirstKAppend ==
  ASSUME NEW S, NEW q \in Seq(S), NEW e \in S, NEW k \in 0..Len(q)
  PROVE  SubSeq(Append(q, e), 1, k) = SubSeq(q, 1, k)
<1>0. PICK n \in Nat : n = Len(q)
  BY LenProperties
<1>1. PICK r : r = Append(q, e)
  OBVIOUS
<1>2. r \in Seq(S) /\ Appends(r, q, e)
  BY <1>1, AppendIs
<1>3. PICK a : a = SubSeq(r, 1, k)
  OBVIOUS
<1>4. PICK b : b = SubSeq(q, 1, k)
  OBVIOUS
<1>5. k \in 0..Len(r) /\ \A i \in 1..k : r[i] = q[i]
  BY <1>0, <1>2 DEF Appends
<1>6. a \in Seq(S) /\ Begins(a, r, k)
  BY <1>2, <1>3, <1>5, FirstK
<1>7. b \in Seq(S) /\ Begins(b, q, k)
  BY <1>4, FirstK
<1>8. Len(a) = k /\ Len(b) = k /\ \A i \in 1..k : a[i] = b[i]
  BY <1>5, <1>6, <1>7 DEF Begins
<1>9. a = b
  BY <1>6, <1>7, <1>8, SameBeginning
<1> QED BY <1>1, <1>3, <1>4, <1>9, Zenon

LEMMA NextK ==
  ASSUME NEW S, NEW q \in Seq(S), NEW k \in Nat, k < Len(q)
  PROVE  SubSeq(q, 1, k + 1) = Append(SubSeq(q, 1, k), q[k + 1])
<1>1. Len(q) \in Nat /\ k + 1 \in 1..Len(q) /\ k \in 0..Len(q) /\ k + 1 \in 0..Len(q)
  BY LenProperties
<1>2. PICK e \in S : e = q[k + 1]
  BY <1>1, ElementOfSeq
<1>3. PICK a : a = SubSeq(q, 1, k)
  OBVIOUS
<1>4. PICK b : b = SubSeq(q, 1, k + 1)
  OBVIOUS
<1>5. PICK c : c = Append(a, e)
  OBVIOUS
<1>6. a \in Seq(S) /\ Begins(a, q, k)
  BY <1>1, <1>3, FirstK
<1>7. b \in Seq(S) /\ Begins(b, q, k + 1)
  BY <1>1, <1>4, FirstK
<1>8. c \in Seq(S) /\ Appends(c, a, e)
  BY <1>5, <1>6, AppendIs
<1>9. \A i \in 1..(k + 1) : i \in 1..k \/ i = k + 1
  OBVIOUS
<1>10. Len(b) = k + 1 /\ Len(c) = k + 1 /\ \A i \in 1..(k + 1) : b[i] = c[i]
  BY <1>2, <1>6, <1>7, <1>8, <1>9 DEF Begins, Appends
<1>11. b = c
  BY <1>7, <1>8, <1>10, SameBeginning
<1> QED BY <1>2, <1>3, <1>4, <1>5, <1>11, Zenon

(* Every prefix of q is mapped to a prefix.                                *)
First(q, k) == SubSeq(q, 1, k)
Splits(q, k, F, T) == \E t \in Seq(T) : Mapped(q, F) = Mapped(First(q, k), F) \o t

LEMMA MappedSplit ==
  ASSUME NEW S, NEW T, NEW F \in [S -> Seq(T)]
  PROVE  \A q \in Seq(S) : \A k \in 0..Len(q) : Splits(q, k, F, T)
<1> DEFINE Split(q, k) == Splits(q, k, F, T)
           Q == {q \in Seq(S) : \A k \in 0..Len(q) : Split(q, k)}
<1>0. ASSUME NEW q \in Seq(S), NEW k, k = Len(q) PROVE Split(q, k)
  <2>1. SubSeq(q, 1, k) = q
    BY <1>0, SubSeqFull
  <2>2. Mapped(q, F) \in Seq(T) /\ <<>> \in Seq(T)
    BY MappedType
  <2>3. Mapped(q, F) = Mapped(q, F) \o <<>>
    BY <2>2, ConcatEmptySeq
  <2> QED BY <2>1, <2>2, <2>3 DEF Splits, First
<1>1. <<>> \in Q
  <2>1. <<>> \in Seq(S) /\ Len(<<>>) = 0
    OBVIOUS
  <2>2. \A k \in 0..Len(<<>>) : k = Len(<<>>)
    BY <2>1
  <2> HIDE DEF Split
  <2>3. \A k \in 0..Len(<<>>) : Split(<<>>, k)
    BY <1>0, <2>1, <2>2
  <2> QED BY <2>1, <2>3
<1>2. ASSUME NEW q \in Seq(S), NEW e \in S, q \in Q PROVE Append(q, e) \in Q
  <2>1. Append(q, e) \in Seq(S) /\ Len(Append(q, e)) = Len(q) + 1
    BY AppendProperties
  <2>2. ASSUME NEW k \in 0..(Len(q) + 1) PROVE Split(Append(q, e), k)
    <3>1. CASE k = Len(q) + 1
      BY <3>1, <2>1, <1>0
    <3>2. CASE k # Len(q) + 1
      <4>1. k \in 0..Len(q)
        BY <3>2, LenProperties
      <4>2. PICK t \in Seq(T) : Mapped(q, F) = Mapped(SubSeq(q, 1, k), F) \o t
        BY <1>2, <4>1 DEF Splits, First
      <4>3. SubSeq(Append(q, e), 1, k) = SubSeq(q, 1, k)
        BY <4>1, FirstKAppend
      <4>4. PICK m \in Seq(T) : m = Mapped(SubSeq(q, 1, k), F)
        BY <4>1, FirstK, MappedType
      <4>5. F[e] \in Seq(T) /\ t \o F[e] \in Seq(T)
        BY ConcatProperties
      <4>6. Mapped(Append(q, e), F) = (m \o t) \o F[e]
        BY <4>2, <4>4, MappedAppend
      <4>7. (m \o t) \o F[e] = m \o (t \o F[e])
        BY <4>5, ConcatAssociative
      <4>8. Mapped(Append(q, e), F) = Mapped(SubSeq(Append(q, e), 1, k), F) \o (t \o F[e])
        BY <4>3, <4>4, <4>6, <4>7
      <4> QED BY <4>5, <4>8 DEF Splits, First
    <3> QED BY <3>1, <3>2
  <2> HIDE DEF Split
  <2> QED BY <2>1, <2>2
<1>3. \A q \in Seq(S) : q \in Q
  <2> HIDE DEF Q
  <2> QED BY <1>1, <1>2, AppendInduct
<1> QED BY <1>3

Uds == [p \in Packet |-> UdsPayload(p)]

LEMMA BytesType == Bytes \in [Packet -> Seq(Byte)]
<1>1. ASSUME NEW p \in Packet PROVE Bytes[p] \in Seq(Byte)
  <2>1. PICK n, crc : n \in Nat /\ n = Len(p.payload) /\ crc = calculate(p.payload)
    BY PacketType
  <2> QED BY <2>1, BytesAre
<1>2. DOMAIN Bytes = Packet /\ Bytes = [p \in Packet |-> Bytes[p]]
  BY DEF Bytes, Packet
<1> QED BY <1>1, <1>2

LEMMA BytesLength ==
  ASSUME NEW p \in Packet
  PROVE  Len(Bytes[p]) \in Nat /\ Len(Bytes[p]) >= 7
<1>1. PICK n \in Nat : n = Len(p.payload)
  BY PacketType
<1>2. Len(Bytes[p]) = n + 7
  BY <1>1, BytesAre DEF Encodes
<1> QED BY <1>2

LEMMA UdsType == Uds \in [Packet -> Seq(Seq(Byte))]
<1>1. ASSUME NEW p \in Packet PROVE UdsPayload(p) \in Seq(Seq(Byte))
  <2>1. p.payload \in Seq(Byte)
    BY PacketType
  <2> QED BY <2>1 DEF UdsPayload
<1> QED BY <1>1 DEF Uds

LEMMA StreamIs == \A q : Stream(q) = Mapped(q, Bytes)
BY DEF Stream, Mapped, MapOf

LEMMA PayloadsAre == \A q \in Seq(Packet) : UdsPayloads(q) = Mapped(q, Uds)
<1> SUFFICES ASSUME NEW q \in Seq(Packet) PROVE UdsPayloads(q) = Mapped(q, Uds)
  OBVIOUS
<1>1. \A i \in DOMAIN q : q[i] \in Packet
  BY LenProperties, ElementOfSeq
<1>2. [i \in DOMAIN q |-> UdsPayload(q[i])] = [i \in DOMAIN q |-> Uds[q[i]]]
  BY <1>1 DEF Uds
<1> QED BY <1>2, Zenon DEF UdsPayloads, Mapped, MapOf

LEMMA StreamType ==
  ASSUME NEW q \in Seq(Packet)
  PROVE  Stream(q) \in Seq(Byte) /\ UdsPayloads(q) \in Seq(Seq(Byte))
<1>1. Mapped(q, Bytes) \in Seq(Byte)
  BY BytesType, MappedType
<1>2. Mapped(q, Uds) \in Seq(Seq(Byte))
  BY UdsType, MappedType
<1> QED BY <1>1, <1>2, StreamIs, PayloadsAre

LEMMA StreamEmpty == Stream(<<>>) = <<>> /\ UdsPayloads(<<>>) = <<>>
<1>1. <<>> \in Seq(Packet)
  OBVIOUS
<1> QED BY <1>1, StreamIs, PayloadsAre, MappedEmpty

LEMMA StreamAppend ==
  ASSUME NEW q \in Seq(Packet), NEW p \in Packet
  PROVE  /\ Stream(Append(q, p)) = Stream(q) \o Bytes[p]
         /\ UdsPayloads(Append(q, p)) = UdsPayloads(q) \o UdsPayload(p)
<1>1. Append(q, p) \in Seq(Packet)
  BY AppendProperties
<1>2. Mapped(Append(q, p), Bytes) = Mapped(q, Bytes) \o Bytes[p]
  BY BytesType, MappedAppend
<1>3. Mapped(Append(q, p), Uds) = Mapped(q, Uds) \o Uds[p]
  BY UdsType, MappedAppend
<1>4. Uds[p] = UdsPayload(p)
  BY DEF Uds
<1> QED BY <1>1, <1>2, <1>3, <1>4, StreamIs, PayloadsAre

LEMMA FirstType ==
  ASSUME NEW S, NEW q \in Seq(S), NEW k \in 0..Len(q)
  PROVE  First(q, k) \in Seq(S)
BY FirstK DEF First

LEMMA StreamSplit ==
  ASSUME NEW q \in Seq(Packet), NEW k \in 0..Len(q)
  PROVE  \E t \in Seq(Byte) : Stream(q) = Stream(First(q, k)) \o t
<1>1. Splits(q, k, Bytes, Byte)
  BY BytesType, MappedSplit
<1> QED BY <1>1, StreamIs DEF Splits

LEMMA StreamNext ==
  ASSUME NEW q \in Seq(Packet), NEW k \in Nat, k < Len(q)
  PROVE  /\ q[k + 1] \in Packet
         /\ Stream(First(q, k + 1)) = Stream(First(q, k)) \o Bytes[q[k + 1]]
         /\ UdsPayloads(First(q, k + 1)) = UdsPayloads(First(q, k)) \o UdsPayload(q[k + 1])
<1>1. k + 1 \in 1..Len(q) /\ k \in 0..Len(q)
  BY LenProperties
<1>2. q[k + 1] \in Packet
  BY <1>1, ElementOfSeq
<1>3. First(q, k) \in Seq(Packet)
  BY <1>1, FirstType
<1>4. First(q, k + 1) = Append(First(q, k), q[k + 1])
  BY NextK DEF First
<1> QED BY <1>2, <1>3, <1>4, StreamAppend

LEMMA FirstAll ==
  ASSUME NEW S, NEW q \in Seq(S)
  PROVE  First(q, Len(q)) = q
BY SubSeqFull DEF First

(* What is left of b w after m, when b is as long.                         *)
LEMMA SplitFront ==
  ASSUME NEW b \in Seq(Byte), NEW w \in Seq(Byte), NEW m \in Seq(Byte), NEW t \in Seq(Byte),
         b \o w = m \o t
  PROVE  /\ \A i \in 1..Len(b) : i <= Len(m) => b[i] = m[i]
         /\ Len(b) >= Len(m) => t = SubSeq(b, Len(m) + 1, Len(b)) \o w
<1>1. PICK x : x = b \o w
  OBVIOUS
<1>2. Joins(x, b, w)
  BY <1>1, ConcatIs
<1>3. x = m \o t
  BY <1>1
<1>4. Joins(x, m, t)
  BY <1>3, ConcatIs
<1>5. PICK lb \in Nat, lw \in Nat, lm \in Nat, lt \in Nat :
        lb = Len(b) /\ lw = Len(w) /\ lm = Len(m) /\ lt = Len(t)
  BY LenProperties
<1>6. lb + lw = lm + lt
  BY <1>2, <1>4, <1>5 DEF Joins
<1>7. \A i \in 1..Len(b) : i <= Len(m) => b[i] = m[i]
  BY <1>2, <1>4, <1>5 DEF Joins
<1>8. ASSUME lb >= lm PROVE t = SubSeq(b, lm + 1, lb) \o w
  <2>1. PICK r : r = SubSeq(b, lm + 1, lb)
    OBVIOUS
  <2>2. \A i \in (lm + 1)..lb : b[i] \in Byte
    BY <1>5, ElementOfSeq
  <2>3. /\ r \in Seq(Byte)
        /\ Len(r) = IF lm + 1 <= lb THEN lb - (lm + 1) + 1 ELSE 0
        /\ \A i \in 1..(lb - (lm + 1) + 1) : r[i] = b[(lm + 1) + i - 1]
    BY <2>1, <2>2, SubSeqProperties
  <2>4. Len(r) = lb - lm /\ \A i \in 1..(lb - lm) : r[i] = b[lm + i]
    BY <2>3, <1>8
  <2>5. PICK y : y = r \o w
    OBVIOUS
  <2>6. y \in Seq(Byte) /\ Joins(y, r, w)
    BY <2>3, <2>5, ConcatIs
  <2>7. Len(y) = lt
    BY <2>4, <2>6, <1>5, <1>6, <1>8 DEF Joins
  <2>8. ASSUME NEW i \in 1..lt PROVE t[i] = y[i]
    <3>0. t[i] = x[lm + i]
      BY <1>4, <1>5 DEF Joins
    <3>1. CASE i <= lb - lm
      <4>1. i \in 1..(lb - lm) /\ lm + i \in 1..lb
        BY <3>1, <1>8
      <4>2. y[i] = r[i] /\ r[i] = b[lm + i] /\ x[lm + i] = b[lm + i]
        BY <4>1, <2>4, <2>6, <1>2, <1>5 DEF Joins
      <4> QED BY <4>2, <3>0
    <3>2. CASE ~(i <= lb - lm)
      <4>1. PICK j \in 1..lw : i = (lb - lm) + j
        <5>1. i - (lb - lm) \in 1..lw
          BY <3>2, <1>6, <1>8
        <5>2. i = (lb - lm) + (i - (lb - lm))
          OBVIOUS
        <5> QED BY <5>1, <5>2
      <4>2. y[(lb - lm) + j] = w[j]
        BY <2>4, <2>6, <1>5 DEF Joins
      <4>3. x[lb + j] = w[j]
        BY <1>2, <1>5 DEF Joins
      <4>4. lm + i = lb + j
        BY <4>1
      <4> QED BY <4>1, <4>2, <4>3, <4>4, <3>0
    <3> QED BY <3>1, <3>2
  <2>9. t = y
    BY <2>6, <2>7, <2>8, <1>5, SeqEqual
  <2> QED BY <2>1, <2>5, <2>9
<1> QED BY <1>5, <1>7, <1>8
-----------------------------------------------------------------------------
(***************************************************************************)
(* The loop on a part of the stream.                                       *)
(***************************************************************************)
(* Of the stream of q all but b and w has been read, and k packets of it   *)
(* are done with.                                                          *)
Fits(q, k, b, w) == Stream(q) = Stream(First(q, k)) \o (b \o w)
Shorter(q, k, b) == k < Len(q) => Len(b) < Len(Bytes[q[k + 1]])
ReadTo(q, k, b, w, j) ==
  /\ Fits(q, j, ParseLoop[b].rest, w)
  /\ UdsPayloads(First(q, j)) = UdsPayloads(First(q, k)) \o ParseLoop[b].payloads
  /\ Shorter(q, j, ParseLoop[b].rest)

LEMMA PacketsType == Packets \subseteq Packet
BY DEF Packets, Packet

LEMMA CancelLeft ==
  ASSUME NEW S, NEW s \in Seq(S), NEW t \in Seq(S), NEW v \in Seq(S), s \o t = s \o v
  PROVE  t = v
BY ConcatSimplifications

LEMMA PayloadsJoin ==
  ASSUME NEW s \in Seq(Seq(Byte)), NEW u \in Seq(Seq(Byte)), NEW v \in Seq(Seq(Byte))
  PROVE  (s \o u) \o v = s \o (u \o v)
<1> DEFINE S == Seq(Byte)
<1>1. s \in Seq(S) /\ u \in Seq(S) /\ v \in Seq(S)
  OBVIOUS
<1> HIDE DEF S
<1> QED BY <1>1, ConcatAssociative, SMTT(30)

LEMMA NextPacket ==
  ASSUME NEW q \in Seq(Packet), NEW k \in Nat, k < Len(q),
         NEW b \in Seq(Byte), NEW w \in Seq(Byte), Fits(q, k, b, w)
  PROVE  /\ q[k + 1] \in Packet
         /\ StartsWith(b, q[k + 1])
         /\ LET n == Len(Bytes[q[k + 1]]) IN
            Len(b) >= n => Fits(q, k + 1, SubSeq(b, n + 1, Len(b)), w)
<1>1. k \in 0..Len(q) /\ k + 1 \in 0..Len(q)
  BY LenProperties
<1>2. /\ q[k + 1] \in Packet
      /\ Stream(First(q, k + 1)) = Stream(First(q, k)) \o Bytes[q[k + 1]]
  BY StreamNext
<1>3. PICK m \in Seq(Byte) : m = Bytes[q[k + 1]]
  BY <1>2, BytesType
<1>4. PICK s \in Seq(Byte) : s = Stream(First(q, k))
  BY <1>1, FirstType, StreamType
<1>5. PICK t \in Seq(Byte) : Stream(q) = Stream(First(q, k + 1)) \o t
  BY <1>1, StreamSplit
<1>6. Stream(q) = s \o (m \o t)
  <2>1. Stream(q) = (s \o m) \o t
    BY <1>2, <1>3, <1>4, <1>5
  <2>2. (s \o m) \o t = s \o (m \o t)
    BY ConcatAssociative, SMTT(30)
  <2> QED BY <2>1, <2>2
<1>7. Stream(q) = s \o (b \o w)
  BY <1>4 DEF Fits
<1>8. b \o w = m \o t
  <2>1. b \o w \in Seq(Byte) /\ m \o t \in Seq(Byte)
    BY ConcatProperties
  <2> QED BY <2>1, <1>6, <1>7, CancelLeft
<1>9. /\ \A i \in 1..Len(b) : i <= Len(m) => b[i] = m[i]
      /\ Len(b) >= Len(m) => t = SubSeq(b, Len(m) + 1, Len(b)) \o w
  BY <1>8, SplitFront
<1>10. StartsWith(b, q[k + 1])
  BY <1>3, <1>9 DEF StartsWith
<1>11. Len(b) >= Len(m) => Fits(q, k + 1, SubSeq(b, Len(m) + 1, Len(b)), w)
  BY <1>5, <1>9 DEF Fits
<1> QED BY <1>2, <1>3, <1>10, <1>11

LEMMA AllDone ==
  ASSUME NEW q \in Seq(Packet), NEW b \in Seq(Byte), NEW w \in Seq(Byte),
         Fits(q, Len(q), b, w)
  PROVE  b = <<>> /\ w = <<>>
<1>1. PICK s \in Seq(Byte) : s = Stream(q)
  BY StreamType
<1>2. s = s \o (b \o w)
  BY <1>1, FirstAll DEF Fits
<1>3. b \o w \in Seq(Byte)
  BY ConcatProperties
<1>4. b \o w = <<>>
  BY <1>2, <1>3, ConcatEqualIffEmpty
<1> QED BY <1>4, ConcatEqualIffEmpty

(* However the stream is cut, the parser reads every packet that is whole  *)
(* and stops in front of the first that is not.                            *)
LEMMA ParseReads ==
  ASSUME receiver \in {"server", "client"}, NEW q \in Seq(Packets), NEW w \in Seq(Byte)
  PROVE  \A b \in Seq(Byte), k \in 0..Len(q) :
           Fits(q, k, b, w) => \E j \in k..Len(q) : ReadTo(q, k, b, w, j)
<1> DEFINE Reads(b, k) == Fits(q, k, b, w) => \E j \in k..Len(q) : ReadTo(q, k, b, w, j)
           N == {n \in Nat : \A b \in Seq(Byte), k \in 0..Len(q) : Len(b) <= n => Reads(b, k)}
<1>0. q \in Seq(Packet) /\ Len(q) \in Nat
  BY PacketsType, SeqMonotonic, LenProperties
<1>1. ASSUME NEW b \in Seq(Byte), NEW k \in 0..Len(q), Fits(q, k, b, w),
             Waits(b), Shorter(q, k, b)
      PROVE  \E j \in k..Len(q) : ReadTo(q, k, b, w, j)
  <2>1. ParseLoop[b] = [rest |-> b, payloads |-> <<>>]
    BY <1>1, LoopIs DEF Turn
  <2>2. ParseLoop[b].rest = b /\ ParseLoop[b].payloads = <<>>
    BY <2>1
  <2>3. UdsPayloads(First(q, k)) \in Seq(Seq(Byte))
    BY <1>0, FirstType, StreamType
  <2>4. UdsPayloads(First(q, k)) = UdsPayloads(First(q, k)) \o <<>>
    BY <2>3, ConcatEmptySeq
  <2>5. ReadTo(q, k, b, w, k)
    BY <1>1, <2>2, <2>4 DEF ReadTo
  <2>6. k \in k..Len(q)
    BY <1>0
  <2> QED BY <2>5, <2>6
<1>2. ASSUME NEW b \in Seq(Byte), NEW k \in 0..Len(q), Fits(q, k, b, w),
             k = Len(q) \/ Len(b) < Len(Bytes[q[k + 1]])
      PROVE  Waits(b) /\ Shorter(q, k, b)
  <2>1. CASE k = Len(q)
    <3>1. b = <<>> /\ Len(b) = 0
      BY <2>1, <1>0, <1>2, AllDone
    <3> QED BY <3>1, <2>1, <1>0 DEF Waits, HeaderSize, Shorter
  <2>2. CASE k # Len(q)
    <3>1. k \in Nat /\ k < Len(q) /\ k + 1 \in 1..Len(q)
      BY <2>2, <1>0
    <3>2. q[k + 1] \in Packets
      BY <3>1, ElementOfSeq
    <3>3. StartsWith(b, q[k + 1])
      BY <3>1, <1>0, <1>2, NextPacket
    <3>4. Waits(b)
      BY <3>2, <3>3, <2>2, <1>2, WaitsForRest
    <3> QED BY <3>4, <2>2, <1>2 DEF Shorter
  <2> QED BY <2>1, <2>2
<1>3. 0 \in N
  <2> SUFFICES ASSUME NEW b \in Seq(Byte), NEW k \in 0..Len(q), Len(b) <= 0, Fits(q, k, b, w)
               PROVE  \E j \in k..Len(q) : ReadTo(q, k, b, w, j)
    OBVIOUS
  <2>1. Len(b) \in Nat
    BY LenProperties
  <2>2. k = Len(q) \/ Len(b) < Len(Bytes[q[k + 1]])
    <3> SUFFICES ASSUME k # Len(q) PROVE Len(b) < Len(Bytes[q[k + 1]])
      OBVIOUS
    <3>1. k + 1 \in 1..Len(q)
      BY <1>0
    <3>2. q[k + 1] \in Packet
      BY <3>1, <1>0, ElementOfSeq
    <3> QED BY <3>2, <2>1, BytesLength
  <2>3. Waits(b) /\ Shorter(q, k, b)
    BY <2>2, <1>2
  <2> QED BY <2>3, <1>1
<1>4. ASSUME NEW n \in Nat, n \in N PROVE n + 1 \in N
  <2> SUFFICES ASSUME NEW b \in Seq(Byte), NEW k \in 0..Len(q), Len(b) <= n + 1, Fits(q, k, b, w)
               PROVE  \E j \in k..Len(q) : ReadTo(q, k, b, w, j)
    OBVIOUS
  <2>0. Len(b) \in Nat
    BY LenProperties
  <2>1. CASE k = Len(q) \/ Len(b) < Len(Bytes[q[k + 1]])
    BY <2>1, <1>1, <1>2
  <2>2. CASE ~(k = Len(q) \/ Len(b) < Len(Bytes[q[k + 1]]))
    <3>1. k \in Nat /\ k < Len(q) /\ k + 1 \in 1..Len(q) /\ k + 1 \in 0..Len(q)
      BY <2>2, <1>0
    <3>2. PICK p \in Packets : p = q[k + 1]
      BY <3>1, ElementOfSeq
    <3>3. p \in Packet
      BY PacketsType
    <3>4. PICK m \in Nat : m = Len(Bytes[p]) /\ m >= 7
      BY <3>3, BytesLength
    <3>5. StartsWith(b, p) /\ Len(b) >= m
      BY <3>1, <3>2, <3>4, <2>0, <2>2, <1>0, NextPacket
    <3>6. PICK r : r = Rest(b)
      OBVIOUS
    <3>7. ~Waits(b) /\ Taken(b) = m /\ Found(b) = UdsPayload(p)
      BY <3>4, <3>5, ReadsPacket
    <3>8. r = SubSeq(b, m + 1, Len(b))
      BY <3>6, <3>7 DEF Rest
    <3>9. Fits(q, k + 1, r, w)
      BY <3>1, <3>2, <3>4, <3>5, <3>8, <1>0, NextPacket
    <3>10. r \in Seq(Byte) /\ Len(r) < Len(b) /\ Len(r) \in Nat
      BY <3>6, <3>7, TurnMoves, LenProperties
    <3>11. Len(r) <= n
      BY <3>10, <2>0
    <3>12. PICK j \in (k + 1)..Len(q) : ReadTo(q, k + 1, r, w, j)
      BY <3>1, <3>9, <3>10, <3>11, <1>4
    <3>13. /\ ParseLoop[b].rest = ParseLoop[r].rest
           /\ ParseLoop[b].payloads = UdsPayload(p) \o ParseLoop[r].payloads
      <4>1. ParseLoop[b] = Turn(b, ParseLoop)
        BY LoopIs
      <4> QED BY <4>1, <3>6, <3>7, SMTT(30) DEF Turn
    <3>14. ParseLoop[r].payloads \in Seq(Seq(Byte))
      BY <3>10, LoopIs DEF Result
    <3>15. UdsPayloads(First(q, j)) = UdsPayloads(First(q, k)) \o ParseLoop[b].payloads
      <4>1. PICK s \in Seq(Seq(Byte)) : s = UdsPayloads(First(q, k))
        BY <1>0, FirstType, StreamType
      <4>2. PICK u \in Seq(Seq(Byte)) : u = UdsPayload(p)
        BY <3>3, UdsType DEF Uds
      <4>3. UdsPayloads(First(q, k + 1)) = UdsPayloads(First(q, k)) \o UdsPayload(p)
        BY <3>1, <3>2, <1>0, StreamNext
      <4>4. UdsPayloads(First(q, j)) = UdsPayloads(First(q, k + 1)) \o ParseLoop[r].payloads
        BY <3>12 DEF ReadTo
      <4>5. PICK v \in Seq(Seq(Byte)) : v = ParseLoop[r].payloads
        BY <3>14
      <4>6. (s \o u) \o v = s \o (u \o v)
        BY PayloadsJoin
      <4> QED BY <4>1, <4>2, <4>3, <4>4, <4>5, <4>6, <3>13
    <3>16. ReadTo(q, k, b, w, j)
      BY <3>12, <3>13, <3>15 DEF ReadTo
    <3>17. j \in k..Len(q)
      BY <3>1
    <3> QED BY <3>16, <3>17
  <2> QED BY <2>1, <2>2
<1>5. \A n \in Nat : n \in N
  <2> HIDE DEF N
  <2> QED BY <1>3, <1>4, Induct
<1> SUFFICES ASSUME NEW b \in Seq(Byte), NEW k \in 0..Len(q) PROVE Reads(b, k)
  OBVIOUS
<1>6. Len(b) \in Nat /\ Len(b) <= Len(b)
  BY LenProperties
<1> HIDE DEF Reads
<1> QED BY <1>5, <1>6

(* The parser leaves no whole packet, of whatever it is given.             *)
LEMMA RestWaits ==
  ASSUME receiver \in {"server", "client"}
  PROVE  \A b \in Seq(Byte) : Waits(ParseLoop[b].rest)
<1> DEFINE N == {n \in Nat : \A b \in Seq(Byte) : Len(b) <= n => Waits(ParseLoop[b].rest)}
<1>1. ASSUME NEW b \in Seq(Byte), Waits(b) PROVE Waits(ParseLoop[b].rest)
  <2>1. ParseLoop[b] = [rest |-> b, payloads |-> <<>>]
    BY <1>1, LoopIs DEF Turn
  <2>2. ParseLoop[b].rest = b
    BY <2>1
  <2> QED BY <2>2, <1>1
<1>2. 0 \in N
  <2> SUFFICES ASSUME NEW b \in Seq(Byte), Len(b) <= 0 PROVE Waits(b)
    BY <1>1
  <2>1. Len(b) = 0
    BY LenProperties
  <2> QED BY <2>1 DEF Waits, HeaderSize
<1>3. ASSUME NEW n \in Nat, n \in N PROVE n + 1 \in N
  <2> SUFFICES ASSUME NEW b \in Seq(Byte), Len(b) <= n + 1, ~Waits(b)
               PROVE  Waits(ParseLoop[b].rest)
    BY <1>1
  <2>1. /\ Rest(b) \in Seq(Byte) /\ Len(Rest(b)) < Len(b)
        /\ Len(Rest(b)) \in Nat /\ Len(b) \in Nat
    BY TurnMoves, LenProperties
  <2>2. Len(Rest(b)) <= n
    BY <2>1
  <2>3. ParseLoop[b].rest = ParseLoop[Rest(b)].rest
    <3>1. ParseLoop[b] = Turn(b, ParseLoop)
      BY LoopIs
    <3> QED BY <3>1 DEF Turn
  <2> QED BY <2>1, <2>2, <2>3, <1>3
<1>4. \A n \in Nat : n \in N
  <2> HIDE DEF N
  <2> QED BY <1>2, <1>3, Induct
<1> SUFFICES ASSUME NEW b \in Seq(Byte) PROVE Waits(ParseLoop[b].rest)
  OBVIOUS
<1>5. Len(b) \in Nat /\ Len(b) <= Len(b)
  BY LenProperties
<1> QED BY <1>4, <1>5

LEMMA NoWholePacket ==
  ASSUME receiver \in {"server", "client"}, NEW b \in Seq(Byte), Waits(b), NEW p \in Packets
  PROVE  ~IsPrefix(Bytes[p], b)
<1> SUFFICES ASSUME IsPrefix(Bytes[p], b) PROVE FALSE
  OBVIOUS
<1>1. p \in Packet
  BY PacketsType
<1>2. PICK m \in Seq(Byte) : m = Bytes[p]
  BY <1>1, BytesType
<1>3. Len(m) \in Nat /\ Len(b) \in Nat
  BY LenProperties
<1>4. Len(m) <= Len(b) /\ SubSeq(m, 1, Len(m)) = SubSeq(b, 1, Len(m))
  BY <1>2 DEF IsPrefix
<1>5. PICK s : s = SubSeq(b, 1, Len(m))
  OBVIOUS
<1>6. Len(m) \in 0..Len(b)
  BY <1>3, <1>4
<1>7. Begins(s, b, Len(m))
  BY <1>5, <1>6, FirstK
<1>8. s = m
  BY <1>4, <1>5, SubSeqFull
<1>9. StartsWith(b, p)
  BY <1>2, <1>3, <1>7, <1>8 DEF Begins, StartsWith
<1> QED BY <1>2, <1>3, <1>4, <1>9, ReadsPacket

(* Every payload of q comes from a UDS packet of q.                        *)
Comes(payload, q) == \E j \in DOMAIN q : q[j].type = UDS /\ q[j].payload = payload

LEMMA PayloadsCome ==
  \A q \in Seq(Packet) : \A i \in DOMAIN UdsPayloads(q) : Comes(UdsPayloads(q)[i], q)
<1> DEFINE Q == {q \in Seq(Packet) : \A i \in DOMAIN UdsPayloads(q) : Comes(UdsPayloads(q)[i], q)}
<1>1. <<>> \in Q
  <2>1. <<>> \in Seq(Packet)
    OBVIOUS
  <2>2. UdsPayloads(<<>>) = <<>>
    BY StreamEmpty
  <2>3. DOMAIN <<>> = {}
    OBVIOUS
  <2> QED BY <2>1, <2>2, <2>3
<1>2. ASSUME NEW q \in Seq(Packet), NEW p \in Packet, q \in Q PROVE Append(q, p) \in Q
  <2>1. PICK r : r = Append(q, p)
    OBVIOUS
  <2>2. r \in Seq(Packet) /\ Appends(r, q, p)
    BY <2>1, AppendIs
  <2>3. PICK u : u = UdsPayloads(q)
    OBVIOUS
  <2>4. PICK v : v = UdsPayload(p)
    OBVIOUS
  <2>5. u \in Seq(Seq(Byte)) /\ v \in Seq(Seq(Byte))
    <3>1. v \in Seq(Seq(Byte))
      BY <2>4, UdsType DEF Uds
    <3> QED BY <3>1, <2>3, StreamType
  <2>6. PICK x : x = u \o v
    OBVIOUS
  <2>7. x \in Seq(Seq(Byte)) /\ Joins(x, u, v)
    <3> DEFINE S == Seq(Byte)
    <3>1. u \in Seq(S) /\ v \in Seq(S)
      BY <2>5
    <3> HIDE DEF S
    <3>2. x \in Seq(S) /\ Joins(x, u, v)
      BY <3>1, <2>6, ConcatIs
    <3> QED BY <3>2 DEF S
  <2>8. UdsPayloads(r) = x
    BY <2>1, <2>3, <2>4, <2>6, StreamAppend
  <2>9. PICK lu \in Nat, lv \in Nat, lq \in Nat :
          lu = Len(u) /\ lv = Len(v) /\ lq = Len(q)
    BY <2>5, LenProperties
  <2>10. DOMAIN x = 1..(lu + lv) /\ DOMAIN u = 1..lu /\ DOMAIN q = 1..lq /\ DOMAIN r = 1..(lq + 1)
    <3>1. Len(x) = lu + lv /\ Len(r) = lq + 1
      BY <2>2, <2>7, <2>9 DEF Joins, Appends
    <3> QED BY <3>1, <2>2, <2>5, <2>7, <2>9, LenProperties
  <2>11. ASSUME NEW i \in 1..(lu + lv) PROVE Comes(x[i], r)
    <3>1. CASE i \in 1..lu
      <4>1. x[i] = u[i]
        BY <3>1, <2>7, <2>9 DEF Joins
      <4>2. Comes(u[i], q)
        BY <3>1, <2>3, <2>10, <1>2
      <4>3. PICK j \in 1..lq : q[j].type = UDS /\ q[j].payload = u[i]
        BY <4>2, <2>10 DEF Comes
      <4>4. r[j] = q[j] /\ j \in 1..(lq + 1)
        BY <2>2, <2>9 DEF Appends
      <4> QED BY <4>1, <4>3, <4>4, <2>10 DEF Comes
    <3>2. CASE i \notin 1..lu
      <4>1. PICK j \in 1..lv : i = lu + j
        <5>1. i - lu \in 1..lv /\ i = lu + (i - lu)
          BY <3>2
        <5> QED BY <5>1
      <4>2. x[i] = v[j]
        BY <4>1, <2>7, <2>9 DEF Joins
      <4>3. p.type = UDS
        <5> SUFFICES ASSUME p.type # UDS PROVE FALSE
          OBVIOUS
        <5>1. v = <<>>
          BY <2>4 DEF UdsPayload
        <5>2. lv = 0
          BY <5>1, <2>9
        <5> QED BY <5>2
      <4>4. v = <<p.payload>>
        BY <4>3, <2>4 DEF UdsPayload
      <4>5. lv = 1 /\ v[1] = p.payload
        BY <4>4, <2>9
      <4>6. x[i] = p.payload
        BY <4>2, <4>5
      <4>7. r[lq + 1] = p /\ lq + 1 \in DOMAIN r
        BY <2>2, <2>9, <2>10 DEF Appends
      <4> QED BY <4>3, <4>6, <4>7 DEF Comes
    <3> QED BY <3>1, <3>2
  <2> QED BY <2>1, <2>2, <2>8, <2>10, <2>11
<1>3. \A q \in Seq(Packet) : q \in Q
  <2> HIDE DEF Q
  <2> QED BY <1>1, <1>2, AppendInduct
<1> QED BY <1>3

LEMMA FirstFirst ==
  ASSUME NEW S, NEW q \in Seq(S), NEW j \in 0..Len(q), NEW k \in 0..j
  PROVE  First(First(q, j), k) = First(q, k) /\ Len(First(q, j)) = j
<1>0. PICK n \in Nat : n = Len(q)
  BY LenProperties
<1>1. PICK f : f = First(q, j)
  OBVIOUS
<1>2. f \in Seq(S) /\ Begins(f, q, j)
  BY <1>1, FirstK DEF First
<1>3. k \in 0..Len(f) /\ k \in 0..Len(q)
  BY <1>0, <1>2 DEF Begins
<1>4. PICK g : g = First(f, k)
  OBVIOUS
<1>5. g \in Seq(S) /\ Begins(g, f, k)
  BY <1>2, <1>3, <1>4, FirstK DEF First
<1>6. PICK h : h = First(q, k)
  OBVIOUS
<1>7. h \in Seq(S) /\ Begins(h, q, k)
  BY <1>3, <1>6, FirstK DEF First
<1>8. Len(g) = k /\ Len(h) = k /\ \A i \in 1..k : g[i] = h[i]
  BY <1>2, <1>5, <1>7 DEF Begins
<1>9. g = h
  BY <1>5, <1>7, <1>8, SameBeginning
<1> QED BY <1>1, <1>2, <1>4, <1>6, <1>9 DEF Begins

LEMMA StreamGrows ==
  ASSUME NEW q \in Seq(Packet), NEW j \in 0..Len(q), NEW k \in 0..j
  PROVE  /\ Len(Stream(First(q, k))) <= Len(Stream(First(q, j)))
         /\ Len(Stream(First(q, k))) \in Nat /\ Len(Stream(First(q, j))) \in Nat
<1>1. First(q, j) \in Seq(Packet)
  BY FirstType
<1>2. First(First(q, j), k) = First(q, k) /\ Len(First(q, j)) = j
  BY FirstFirst
<1>3. PICK t \in Seq(Byte) : Stream(First(q, j)) = Stream(First(q, k)) \o t
  BY <1>1, <1>2, StreamSplit
<1>4. k \in 0..Len(q)
  BY LenProperties
<1>5. PICK s \in Seq(Byte) : s = Stream(First(q, k))
  BY <1>4, FirstType, StreamType
<1>6. Len(s \o t) = Len(s) + Len(t) /\ Len(s) \in Nat /\ Len(t) \in Nat
  BY ConcatProperties, LenProperties
<1> QED BY <1>3, <1>5, <1>6

(* The packets that have been read to their end are those that have been   *)
(* done with.                                                              *)
LEMMA ReadIsDone ==
  ASSUME sent \in Seq(Packet), wire \in Seq(Byte), m_buffer \in Seq(Byte),
         NEW k \in 0..Len(sent), Fits(sent, k, m_buffer, wire), Shorter(sent, k, m_buffer)
  PROVE  Max(WhollyRead) = k
<1>0. Len(sent) \in Nat
  BY LenProperties
<1>1. PICK s \in Seq(Byte) : s = Stream(First(sent, k))
  BY FirstType, StreamType
<1>2. PICK ls \in Nat, lb \in Nat, lw \in Nat :
        ls = Len(s) /\ lb = Len(m_buffer) /\ lw = Len(wire)
  BY LenProperties
<1>3. NumRead = ls + lb
  <2>1. Stream(sent) = s \o (m_buffer \o wire)
    BY <1>1 DEF Fits
  <2>2. m_buffer \o wire \in Seq(Byte) /\ Len(m_buffer \o wire) = lb + lw
    BY <1>2, ConcatProperties
  <2>3. Len(s \o (m_buffer \o wire)) = ls + (lb + lw)
    BY <2>2, <1>2, ConcatProperties
  <2>4. NumRead = (ls + (lb + lw)) - lw
    BY <2>1, <2>3, <1>2 DEF NumRead
  <2> QED BY <2>4
<1>4. k \in WhollyRead
  <2>1. Len(Stream(SubSeq(sent, 1, k))) = ls
    BY <1>1, <1>2 DEF First
  <2> QED BY <2>1, <1>3 DEF WhollyRead
<1>5. ASSUME NEW j \in WhollyRead PROVE j <= k
  <2> SUFFICES ASSUME k < j PROVE FALSE
    BY DEF WhollyRead
  <2>1. j \in 0..Len(sent) /\ Len(Stream(First(sent, j))) <= ls + lb
    BY <1>3 DEF WhollyRead, First
  <2>2. k \in Nat /\ k < Len(sent) /\ k + 1 \in 0..j
    BY <2>1, <1>0
  <2>3. /\ Len(Stream(First(sent, k + 1))) <= Len(Stream(First(sent, j)))
        /\ Len(Stream(First(sent, k + 1))) \in Nat /\ Len(Stream(First(sent, j))) \in Nat
    BY <2>1, <2>2, StreamGrows
  <2>4. /\ sent[k + 1] \in Packet
        /\ Stream(First(sent, k + 1)) = s \o Bytes[sent[k + 1]]
    BY <2>2, <1>1, StreamNext
  <2>5. PICK m \in Seq(Byte) : m = Bytes[sent[k + 1]]
    BY <2>4, BytesType
  <2>6. Len(s \o m) = ls + Len(m) /\ Len(m) \in Nat
    BY <1>2, ConcatProperties, LenProperties
  <2>7. lb < Len(m)
    BY <2>2, <2>5, <1>2 DEF Shorter
  <2> QED BY <2>1, <2>3, <2>4, <2>5, <2>6, <2>7, SMTT(30)
<1>6. WhollyRead \subseteq Nat
  BY <1>0 DEF WhollyRead
<1>7. \A j \in WhollyRead : k >= j
  BY <1>5, <1>6
<1>8. PICK x : x = Max(WhollyRead)
  OBVIOUS
<1>9. x \in WhollyRead /\ \A y \in WhollyRead : x >= y
  BY <1>4, <1>7, <1>8 DEF Max
<1>10. x >= k /\ k >= x
  BY <1>4, <1>7, <1>9
<1> QED BY <1>4, <1>6, <1>8, <1>9, <1>10
-----------------------------------------------------------------------------
(***************************************************************************)
(* The invariant of the framing.                                           *)
(***************************************************************************)
(* How far the connection has got: k packets are done with.                *)
Progress(k) ==
  /\ Fits(sent, k, m_buffer, wire) /\ Shorter(sent, k, m_buffer)
  /\ dispatched = UdsPayloads(First(sent, k))

FTypes ==
  /\ receiver \in {"server", "client"}
  /\ connections \in 0..MaxConnections /\ earlier \in Nat
  /\ earlier + Len(sent) <= MaxPackets /\ sent \in Seq(Packets)
  /\ wire \in Seq(Byte) /\ m_buffer \in Seq(Byte) /\ dispatched \in Seq(Seq(Byte))
  /\ open \in BOOLEAN /\ fresh \in BOOLEAN

FInv ==
  /\ FTypes
  /\ ~open => wire = <<>>
  /\ receiver = "server" => fresh
  /\ fresh => Waits(m_buffer)
  /\ fresh => \E k \in 0..Len(sent) : dispatched = UdsPayloads(First(sent, k))
  /\ fresh /\ open => \E k \in 0..Len(sent) : Progress(k)

LEMMA SentType ==
  ASSUME FTypes
  PROVE  sent \in Seq(Packet) /\ Len(sent) \in Nat
BY PacketsType, SeqMonotonic, LenProperties DEF FTypes

LEMMA EmptyWaits == receiver \in {"server", "client"} => Waits(<<>>)
<1>1. Len(<<>>) = 0
  OBVIOUS
<1> QED BY <1>1 DEF Waits, HeaderSize

LEMMA NothingSent ==
  ASSUME NEW q, q = <<>>
  PROVE  /\ UdsPayloads(First(q, 0)) = <<>> /\ Len(q) = 0
         /\ Fits(q, 0, <<>>, <<>>)
<1>1. First(<<>>, 0) = <<>>
  BY SubSeqEmpty DEF First
<1>2. Stream(<<>>) = <<>> /\ UdsPayloads(<<>>) = <<>>
  BY StreamEmpty
<1>3. <<>> \o (<<>> \o <<>>) = <<>>
  OBVIOUS
<1>4. Fits(<<>>, 0, <<>>, <<>>)
  BY <1>1, <1>2, <1>3, Zenon DEF Fits
<1> QED BY <1>1, <1>2, <1>4

LEMMA FInit == Init => FInv
<1> SUFFICES ASSUME Init PROVE FInv
  OBVIOUS
<1>1. sent = <<>> /\ Len(sent) = 0
  BY DEF Init
<1>2. FTypes
  <2>1. /\ 0 \in 0..MaxConnections /\ 0 <= MaxPackets /\ 0 \in Nat
    BY FramingAssumption
  <2>2. connections \in 0..MaxConnections /\ earlier \in Nat /\ earlier + Len(sent) <= MaxPackets
    BY <2>1, <1>1 DEF Init
  <2>3. /\ sent \in Seq(Packets) /\ wire \in Seq(Byte) /\ m_buffer \in Seq(Byte)
        /\ dispatched \in Seq(Seq(Byte))
    BY DEF Init
  <2> QED BY <2>2, <2>3 DEF Init, FTypes
<1>3. Waits(m_buffer)
  BY EmptyWaits DEF Init
<1>4. dispatched = UdsPayloads(First(sent, 0)) /\ 0 \in 0..Len(sent)
  BY <1>1, NothingSent DEF Init
<1> QED BY <1>2, <1>3, <1>4 DEF FInv, Init

LEMMA SameParser ==
  ASSUME receiver' = receiver
  PROVE  /\ Packets' = Packets
         /\ \A b : Waits(b)' <=> Waits(b)
BY DEF Packets, Waits, HeaderSize, Oversized, IsMagic, Length, TotalLen

LEMMA FConnect ==
  ASSUME FInv, Connect
  PROVE  FInv'
<1>0. receiver' = receiver /\ receiver \in {"server", "client"}
  BY DEF Connect, FInv, FTypes
<1>1. wire = <<>> /\ wire' = <<>> /\ sent' = <<>> /\ dispatched' = <<>>
  BY DEF Connect, FInv
<1>2. m_buffer' \in Seq(Byte) /\ (fresh' <=> m_buffer' = <<>>) /\ (receiver = "server" => fresh')
  BY DEF Connect, NewBuffer, FInv, FTypes
<1>3. FTypes'
  <2>1. sent' \in Seq(Packets') /\ Len(sent') = 0
    BY <1>1
  <2>2. earlier' \in Nat /\ earlier' + Len(sent') <= MaxPackets
    BY <2>1, SentType DEF FInv, FTypes, Connect
  <2>3. connections' \in 0..MaxConnections
    BY FramingAssumption DEF FInv, FTypes, Connect
  <2>4. open' \in BOOLEAN /\ fresh' \in BOOLEAN
    BY DEF Connect
  <2>5. wire' \in Seq(Byte) /\ dispatched' \in Seq(Seq(Byte))
    BY <1>1
  <2> QED BY <2>1, <2>2, <2>3, <2>4, <2>5, <1>0, <1>2 DEF FTypes
<1>4. Len(sent') = 0 /\ dispatched' = UdsPayloads(First(sent', 0))
  BY <1>1, NothingSent
<1>5. ASSUME fresh' PROVE Waits(m_buffer)' /\ Progress(0)'
  <2>1. m_buffer' = <<>>
    BY <1>2, <1>5
  <2>2. Waits(m_buffer)'
    BY <2>1, <1>0, EmptyWaits DEF Waits, HeaderSize, Oversized, IsMagic, Length, TotalLen
  <2>3. Fits(sent', 0, m_buffer', wire')
    BY <2>1, <1>1, NothingSent
  <2>4. Shorter(sent', 0, m_buffer')
    BY <1>4 DEF Shorter
  <2> QED BY <2>2, <2>3, <2>4, <1>4 DEF Progress
<1>6. 0 \in 0..Len(sent')
  BY <1>4
<1> QED BY <1>0, <1>1, <1>2, <1>3, <1>4, <1>5, <1>6 DEF FInv, Connect

Regroups(s, b, w, m) == (s \o (b \o w)) \o m = s \o (b \o (w \o m))

LEMMA MoreBytes ==
  ASSUME NEW s \in Seq(Byte), NEW b \in Seq(Byte), NEW w \in Seq(Byte), NEW m \in Seq(Byte)
  PROVE  Regroups(s, b, w, m)
<1>1. PICK bw \in Seq(Byte) : bw = b \o w
  BY ConcatProperties
<1>2. (s \o bw) \o m = s \o (bw \o m)
  BY ConcatAssociative, SMTT(30)
<1>3. (b \o w) \o m = b \o (w \o m)
  BY ConcatAssociative, SMTT(30)
<1> QED BY <1>1, <1>2, <1>3 DEF Regroups

LEMMA FSendPacket ==
  ASSUME FInv, NEW p \in Packets, SendPacket(p)
  PROVE  FInv'
<1>0. receiver' = receiver /\ Packets' = Packets
  BY DEF SendPacket, Packets
<1>1. p \in Packet
  BY PacketsType
<1>2. PICK m \in Seq(Byte) : m = Bytes[p]
  BY <1>1, BytesType
<1>3. sent \in Seq(Packet) /\ Len(sent) \in Nat /\ sent \in Seq(Packets)
  BY SentType DEF FInv, FTypes
<1>4. /\ sent' \in Seq(Packets) /\ Appends(sent', sent, p)
  BY <1>3, AppendIs DEF SendPacket
<1>5. wire \in Seq(Byte) /\ wire' = wire \o m /\ wire' \in Seq(Byte)
  BY <1>2, ConcatProperties DEF SendPacket, FInv, FTypes
<1>6. m_buffer' = m_buffer /\ m_buffer \in Seq(Byte)
  BY DEF SendPacket, FInv, FTypes
<1>7. FTypes'
  <2>1. earlier' + Len(sent') <= MaxPackets /\ earlier' \in Nat
    BY <1>3, <1>4, FramingAssumption DEF SendPacket, FInv, FTypes, Appends
  <2> QED BY <2>1, <1>0, <1>4, <1>5 DEF SendPacket, FInv, FTypes
<1>8. ASSUME NEW k \in 0..Len(sent)
      PROVE  First(sent', k) = First(sent, k) /\ k \in 0..Len(sent')
  <2>1. First(sent', k) = First(sent, k)
    BY <1>1, <1>3, FirstKAppend DEF SendPacket, First
  <2> QED BY <2>1, <1>3, <1>4 DEF Appends
<1>9. ASSUME NEW k \in 0..Len(sent), Progress(k) PROVE Progress(k)'
  <2>1. PICK s \in Seq(Byte) : s = Stream(First(sent, k))
    BY <1>3, FirstType, StreamType
  <2>2. Stream(sent') = Stream(sent) \o m
    BY <1>1, <1>2, <1>3, StreamAppend DEF SendPacket
  <2>3. Stream(sent) = s \o (m_buffer \o wire)
    BY <2>1, <1>9 DEF Progress, Fits
  <2>4. (s \o (m_buffer \o wire)) \o m = s \o (m_buffer \o (wire \o m))
    <3>1. Regroups(s, m_buffer, wire, m)
      BY <1>5, <1>6, MoreBytes
    <3> QED BY <3>1, Zenon DEF Regroups
  <2>5. Fits(sent', k, m_buffer', wire')
    BY <2>1, <2>2, <2>3, <2>4, <1>5, <1>6, <1>8 DEF Fits
  <2>6. Shorter(sent', k, m_buffer')
    <3>1. CASE k < Len(sent)
      <4>1. k + 1 \in 1..Len(sent)
        BY <3>1, <1>3
      <4>2. sent'[k + 1] = sent[k + 1]
        BY <4>1, <1>4 DEF Appends
      <4> QED BY <4>2, <3>1, <1>6, <1>9 DEF Progress, Shorter
    <3>2. CASE ~(k < Len(sent))
      <4>1. k = Len(sent)
        BY <3>2, <1>3
      <4>2. m_buffer = <<>>
        BY <4>1, <1>3, <1>5, <1>6, <1>9, AllDone DEF Progress
      <4>3. sent'[k + 1] = p
        BY <4>1, <1>4 DEF Appends
      <4>4. Len(m_buffer') = 0 /\ Len(Bytes[p]) >= 7 /\ Len(Bytes[p]) \in Nat
        BY <4>2, <1>1, <1>6, BytesLength
      <4> QED BY <4>3, <4>4 DEF Shorter
    <3> QED BY <3>1, <3>2
  <2>7. dispatched' = UdsPayloads(First(sent', k))
    BY <1>8, <1>9 DEF Progress, SendPacket
  <2> QED BY <2>5, <2>6, <2>7 DEF Progress
<1>10. Waits(m_buffer)' <=> Waits(m_buffer)
  BY <1>0, <1>6 DEF Waits, HeaderSize, Oversized, IsMagic, Length, TotalLen
<1>11. fresh' => Waits(m_buffer)'
  BY <1>10 DEF SendPacket, FInv
<1>12. ASSUME fresh' PROVE \E k \in 0..Len(sent') : dispatched' = UdsPayloads(First(sent', k))
  <2>1. PICK k \in 0..Len(sent) : dispatched = UdsPayloads(First(sent, k))
    BY <1>12 DEF SendPacket, FInv
  <2> QED BY <2>1, <1>8 DEF SendPacket
<1>13. ASSUME fresh', open' PROVE \E k \in 0..Len(sent') : Progress(k)'
  <2>1. PICK k \in 0..Len(sent) : Progress(k)
    BY <1>13 DEF SendPacket, FInv
  <2> QED BY <2>1, <1>8, <1>9
<1>14. (~open' => wire' = <<>>) /\ (receiver' = "server" => fresh')
  BY DEF SendPacket, FInv
<1> QED BY <1>7, <1>11, <1>12, <1>13, <1>14 DEF FInv

LEMMA FReadyRead ==
  ASSUME FInv, NEW n, ReadyRead(n)
  PROVE  FInv'
<1>0. receiver' = receiver /\ Packets' = Packets /\ receiver \in {"server", "client"}
  BY DEF ReadyRead, Packets, FInv, FTypes
<1>1. sent' = sent /\ sent \in Seq(Packets) /\ sent \in Seq(Packet) /\ Len(sent) \in Nat
  BY SentType DEF ReadyRead, FInv, FTypes
<1>2. wire \in Seq(Byte) /\ m_buffer \in Seq(Byte) /\ dispatched \in Seq(Seq(Byte))
  BY DEF FInv, FTypes
<1>3. n \in 1..Len(wire) /\ Len(wire) \in Nat
  BY <1>2, LenProperties DEF ReadyRead
<1>4. PICK a : a = SubSeq(wire, 1, n)
  OBVIOUS
<1>5. PICK w : w = SubSeq(wire, n + 1, Len(wire))
  OBVIOUS
<1>6. a \in Seq(Byte) /\ w \in Seq(Byte)
  <2>1. n \in 0..Len(wire)
    BY <1>3
  <2>2. a \in Seq(Byte)
    BY <2>1, <1>2, <1>4, FirstK
  <2>3. \A i \in (n + 1)..Len(wire) : wire[i] \in Byte
    BY <1>2, <1>3, ElementOfSeq
  <2>4. w \in Seq(Byte)
    BY <2>3, <1>3, <1>5, SubSeqProperties
  <2> QED BY <2>2, <2>4
<1>7. wire = a \o w
  <2>1. 1 \in 1..(Len(wire) + 1) /\ n \in (1 - 1)..Len(wire) /\ Len(wire) \in n..Len(wire)
    BY <1>3
  <2>2. SubSeq(wire, 1, n) \o SubSeq(wire, n + 1, Len(wire)) = SubSeq(wire, 1, Len(wire))
    BY <2>1, <1>2, ConcatAdjacentSubSeq
  <2> QED BY <2>2, <1>2, <1>4, <1>5, SubSeqFull
<1>8. PICK b \in Seq(Byte) : b = m_buffer \o a
  BY <1>2, <1>6, ConcatProperties
<1>9. PICK r : r = ParseLoop[b]
  OBVIOUS
<1>10. r.rest \in Seq(Byte) /\ r.payloads \in Seq(Seq(Byte))
  BY <1>0, <1>9, LoopIs DEF Result
<1>11. m_buffer' = r.rest /\ dispatched' = dispatched \o r.payloads /\ wire' = w
  BY <1>4, <1>5, <1>8, <1>9 DEF ReadyRead, Parse
<1>12. dispatched' \in Seq(Seq(Byte))
  BY <1>2, <1>10, <1>11, ConcatProperties
<1>13. FTypes'
  BY <1>0, <1>1, <1>6, <1>10, <1>11, <1>12 DEF FInv, FTypes, ReadyRead
<1>14. Waits(m_buffer)'
  <2>1. Waits(r.rest)
    BY <1>0, <1>9, RestWaits
  <2> QED BY <2>1, <1>0, <1>11
        DEF Waits, HeaderSize, Oversized, IsMagic, Length, TotalLen
<1>15. ASSUME fresh PROVE \E k \in 0..Len(sent') : Progress(k)'
  <2>1. PICK k \in 0..Len(sent) : Progress(k)
    BY <1>15 DEF FInv, ReadyRead
  <2>2. m_buffer \o wire = b \o w
    BY <1>2, <1>6, <1>7, <1>8, ConcatAssociative, SMTT(30)
  <2>3. Fits(sent, k, b, w)
    BY <2>1, <2>2 DEF Progress, Fits
  <2>4. PICK j \in k..Len(sent) : ReadTo(sent, k, b, w, j)
    BY <2>3, <1>0, <1>1, <1>6, ParseReads
  <2>5. Fits(sent, j, r.rest, w) /\ Shorter(sent, j, r.rest)
    BY <2>4, <1>9 DEF ReadTo
  <2>6. dispatched' = UdsPayloads(First(sent, j))
    BY <2>1, <2>4, <1>9, <1>11 DEF ReadTo, Progress
  <2>7. Progress(j)'
    BY <2>5, <2>6, <1>1, <1>11 DEF Progress
  <2>8. j \in 0..Len(sent)
    BY <1>1
  <2> QED BY <2>7, <2>8, <1>1
<1>16. fresh' => \E k \in 0..Len(sent') : dispatched' = UdsPayloads(First(sent', k))
  BY <1>15 DEF Progress, ReadyRead
<1>17. open /\ open' = open /\ fresh' = fresh
  BY DEF ReadyRead
<1> QED BY <1>0, <1>13, <1>14, <1>15, <1>16, <1>17 DEF FInv

LEMMA FBreak ==
  ASSUME FInv, Break
  PROVE  FInv'
<1>0. receiver' = receiver /\ Packets' = Packets
  BY DEF Break, Packets
<1>1. FTypes'
  <2>1. wire' \in Seq(Byte)
    BY DEF Break
  <2> QED BY <2>1, <1>0 DEF Break, FInv, FTypes
<1>2. Waits(m_buffer)' <=> Waits(m_buffer)
  BY <1>0 DEF Break, Waits, HeaderSize, Oversized, IsMagic, Length, TotalLen
<1>3. sent' = sent /\ dispatched' = dispatched /\ fresh' = fresh /\ wire' = <<>> /\ open' = FALSE
  BY DEF Break
<1> QED BY <1>0, <1>1, <1>2, <1>3 DEF FInv

LEMMA FStutter ==
  ASSUME FInv, UNCHANGED vars
  PROVE  FInv'
<1>0. /\ receiver' = receiver /\ Packets' = Packets /\ sent' = sent /\ wire' = wire
      /\ m_buffer' = m_buffer /\ dispatched' = dispatched /\ fresh' = fresh
      /\ open' = open /\ connections' = connections /\ earlier' = earlier
  BY DEF vars, Packets
<1>1. FTypes'
  BY <1>0 DEF FInv, FTypes
<1>2. Waits(m_buffer)' <=> Waits(m_buffer)
  BY <1>0 DEF Waits, HeaderSize, Oversized, IsMagic, Length, TotalLen
<1>3. \A k : Progress(k)' <=> Progress(k)
  BY <1>0 DEF Progress
<1> QED BY <1>0, <1>1, <1>2, <1>3 DEF FInv

LEMMA FNext == FInv /\ [Next]_vars => FInv'
<1> SUFFICES ASSUME FInv, [Next]_vars PROVE FInv'
  OBVIOUS
<1> QED BY FConnect, FBreak, FSendPacket, FReadyRead, FStutter DEF Next

LEMMA FTypeOK == FInv => TypeOK
<1> SUFFICES ASSUME FInv PROVE TypeOK
  OBVIOUS
<1>1. earlier + Len(sent) \in 0..MaxPackets
  BY SentType, FramingAssumption DEF FInv, FTypes
<1>2. fresh => \A p \in Packets : ~IsPrefix(Bytes[p], m_buffer)
  BY NoWholePacket DEF FInv, FTypes
<1> QED BY <1>1, <1>2 DEF FInv, FTypes, TypeOK

LEMMA FExactlyRead == FInv => ExactlyRead
<1> SUFFICES ASSUME FInv, open, receiver = "server" \/ fresh PROVE AllRead
  BY DEF ExactlyRead
<1>1. PICK k \in 0..Len(sent) : Progress(k)
  BY DEF FInv
<1>2. Max(WhollyRead) = k
  <2>1. sent \in Seq(Packet) /\ wire \in Seq(Byte) /\ m_buffer \in Seq(Byte)
    BY SentType DEF FInv, FTypes
  <2> QED BY <2>1, <1>1, ReadIsDone DEF Progress
<1> QED BY <1>1, <1>2 DEF AllRead, Progress, First

(* Only what was sent on this connection is dispatched on it.  That holds   *)
(* on connections that start with an empty buffer, whatever the payloads.  *)
(* On a later connection of the client it does not hold in general: a      *)
(* partial packet left in m_buffer takes the next packet's first bytes for *)
(* its last and its CRC, and for some bytes the CRC fits                   *)
(* (client/tcp_worker.cpp:112, client/protocol_parser.cpp:65).             *)
OnlySent ==
  \A i \in DOMAIN dispatched : \E j \in DOMAIN sent :
    sent[j].type = UDS /\ sent[j].payload = dispatched[i]

LEMMA FOnlySent == FInv /\ (receiver = "server" \/ fresh) => OnlySent
<1> SUFFICES ASSUME FInv, receiver = "server" \/ fresh, NEW i \in DOMAIN dispatched
             PROVE  \E j \in DOMAIN sent :
                      sent[j].type = UDS /\ sent[j].payload = dispatched[i]
  BY DEF OnlySent
<1>0. sent \in Seq(Packet) /\ Len(sent) \in Nat
  BY SentType DEF FInv
<1>1. PICK k \in 0..Len(sent) : dispatched = UdsPayloads(First(sent, k))
  BY DEF FInv
<1>2. PICK f : f = First(sent, k)
  OBVIOUS
<1>3. f \in Seq(Packet) /\ Begins(f, sent, k)
  BY <1>0, <1>2, FirstK DEF First
<1>4. Comes(dispatched[i], f)
  BY <1>1, <1>2, <1>3, PayloadsCome
<1>5. PICK j \in 1..k : f[j].type = UDS /\ f[j].payload = dispatched[i]
  BY <1>3, <1>4, LenProperties DEF Comes, Begins
<1>6. f[j] = sent[j] /\ j \in DOMAIN sent
  <2>1. j \in 1..Len(sent)
    BY <1>0
  <2> QED BY <2>1, <1>0, <1>3, LenProperties DEF Begins
<1> QED BY <1>5, <1>6

(* A buffer that started empty never holds a whole packet after a read:    *)
(* pushData leaves only the start of a packet.                             *)
THEOREM FramingTypes == Spec => []TypeOK
BY FInit, FNext, FTypeOK, PTL DEF Spec

(* However TCP cuts the bytes into reads, the packets read to their end    *)
(* are dispatched exactly once, in order and at once, on every connection  *)
(* that starts with an empty buffer.  Any packets and any number of them.  *)
THEOREM FramingReads == Spec => []ExactlyRead
BY FInit, FNext, FExactlyRead, PTL DEF Spec

(* And nothing else is dispatched there, whatever the payloads contain.    *)
THEOREM FramingSends == Spec => [](receiver = "server" \/ fresh => OnlySent)
<1>1. FInv => (receiver = "server" \/ fresh => OnlySent)
  BY FOnlySent
<1> QED BY <1>1, FInit, FNext, PTL DEF Spec
-----------------------------------------------------------------------------
(***************************************************************************)
(* The client's parser does not see how its bytes are cut.                 *)
(***************************************************************************)
LEMMA JoinBytes ==
  ASSUME NEW a \in Seq(Byte), NEW b \in Seq(Byte), NEW c \in Seq(Byte)
  PROVE  (a \o b) \o c = a \o (b \o c)
BY ConcatAssociative, SMTT(30)

LEMMA BehindIs ==
  ASSUME NEW a \in Seq(Byte), NEW m \in Nat, m = Len(a), NEW t \in 0..m,
         NEW r, r = SubSeq(a, t + 1, m)
  PROVE  /\ r \in Seq(Byte) /\ Len(r) = m - t
         /\ \A i \in 1..(m - t) : r[i] = a[t + i]
<1>1. \A i \in (t + 1)..m : a[i] \in Byte
  BY ElementOfSeq
<1>2. /\ r \in Seq(Byte)
      /\ Len(r) = IF t + 1 <= m THEN m - (t + 1) + 1 ELSE 0
      /\ \A i \in 1..(m - (t + 1) + 1) : r[i] = a[(t + 1) + i - 1]
  BY <1>1, SubSeqProperties
<1>3. \A i \in 1..(m - t) : i \in 1..(m - (t + 1) + 1) /\ (t + 1) + i - 1 = t + i
  OBVIOUS
<1>4. \A i \in 1..(m - t) : r[i] = a[t + i]
  BY <1>2, <1>3
<1>5. Len(r) = m - t
  BY <1>2
<1> QED BY <1>2, <1>4, <1>5

(* A turn on a whole packet or a wrong offset is the same with more bytes  *)
(* behind.  (The server's drops them all when the length is too large.)    *)
LEMMA TurnOfMore ==
  ASSUME receiver = "client", NEW a \in Seq(Byte), NEW b \in Seq(Byte), ~Waits(a),
         NEW c \in Seq(Byte), Joins(c, a, b)
  PROVE  ~Waits(c) /\ Found(c) = Found(a) /\ Rest(c) = Rest(a) \o b
<1>0. PICK m \in Nat, n \in Nat : m = Len(a) /\ n = Len(b)
  BY LenProperties
<1>1. /\ c \in Seq(Byte) /\ Len(c) = m + n
      /\ \A i \in 1..m : c[i] = a[i]
      /\ \A i \in 1..n : c[m + i] = b[i]
  BY <1>0 DEF Joins
<1>2. m >= 7
  BY <1>0 DEF Waits, HeaderSize
<1>3. \A i \in 1..5 : c[i] = a[i]
  BY <1>1, <1>2
<1>4. IsMagic(c) <=> IsMagic(a)
  <2>1. Len(a) >= 2 /\ Len(c) >= 2
    BY <1>0, <1>1, <1>2
  <2>2. IsMagic(a) <=> a[1] = 205 /\ a[2] = 171
    BY <2>1, MagicOf
  <2>3. IsMagic(c) <=> c[1] = 205 /\ c[2] = 171
    BY <2>1, <1>1, MagicOf
  <2>4. c[1] = a[1] /\ c[2] = a[2]
    BY <1>3
  <2> QED BY <2>2, <2>3, <2>4, ZenonT(40)
<1>5. Length(c) = Length(a) /\ TotalLen(c) = TotalLen(a)
  <2>1. c[4] = a[4] /\ c[5] = a[5]
    BY <1>3
  <2>2. Length(c) = Length(a)
    BY <2>1, Zenon DEF Length
  <2> QED BY <2>2, Zenon DEF TotalLen
<1>6. PICK k \in Nat : k = Length(a) /\ TotalLen(a) = k + 7
  BY <1>0, <1>2, LengthType
<1>7. ~Oversized(a) /\ ~Oversized(c)
  BY DEF Oversized
<1>8. ASSUME IsMagic(a)
      PROVE  /\ k + 7 <= m /\ Payload(c) = Payload(a)
             /\ CrcMatches(c) <=> CrcMatches(a)
  <2>1. k + 7 <= m
    BY <1>0, <1>6, <1>7, <1>8 DEF Waits
  <2>2. /\ Payload(a) \in Seq(Byte) /\ Len(Payload(a)) = k
        /\ \A i \in 1..k : Payload(a)[i] = a[5 + i]
    <3>1. Len(a) >= 5 /\ Len(a) >= TotalLen(a)
      BY <2>1, <1>0, <1>2, <1>6
    <3> QED BY <3>1, <1>6, PayloadType
  <2>3. /\ Payload(c) \in Seq(Byte) /\ Len(Payload(c)) = k
        /\ \A i \in 1..k : Payload(c)[i] = c[5 + i]
    <3>1. Len(c) >= 5 /\ Len(c) >= TotalLen(c)
      BY <2>1, <1>0, <1>1, <1>2, <1>5, <1>6
    <3>2. Length(c) = k
      BY <1>5, <1>6
    <3> QED BY <3>1, <3>2, <1>1, PayloadType
  <2>4. \A i \in 1..k : c[5 + i] = a[5 + i]
    <3>1. \A i \in 1..k : 5 + i \in 1..m
      BY <2>1
    <3> QED BY <3>1, <1>1
  <2>5. Payload(c) = Payload(a)
    <3>1. PICK p : p = Payload(a)
      OBVIOUS
    <3>2. PICK q : q = Payload(c)
      OBVIOUS
    <3>3. \A i \in 1..k : p[i] = q[i]
      BY <2>2, <2>3, <2>4, <3>1, <3>2
    <3> QED BY <2>2, <2>3, <3>1, <3>2, <3>3, SameBeginning
  <2>6. c[k + 6] = a[k + 6] /\ c[k + 7] = a[k + 7]
    BY <2>1, <1>1
  <2>7. TotalLen(a) - 1 = k + 6
    BY <1>6
  <2> QED BY <2>1, <2>5, <2>6, <2>7, <1>5, <1>6 DEF CrcMatches
<1>9. ~Waits(c)
  BY <1>0, <1>1, <1>2, <1>4, <1>5, <1>6, <1>7, <1>8 DEF Waits, HeaderSize
<1>10. Found(c) = Found(a)
  <2>1. IsUds(c) <=> IsUds(a)
    <3>1. c[3] = a[3]
      BY <1>3
    <3>2. receiver = "client" /\ receiver # "server"
      OBVIOUS
    <3>3. IsMagic(a) => (CrcMatches(c) <=> CrcMatches(a))
      BY <1>8
    <3>4. /\ IsUds(c) <=> IsMagic(c) /\ CrcMatches(c) /\ c[3] = UDS
          /\ IsUds(a) <=> IsMagic(a) /\ CrcMatches(a) /\ a[3] = UDS
      BY <3>2, <1>7, Zenon DEF IsUds
    <3> QED BY <3>1, <3>3, <3>4, <1>4, Zenon
  <2>2. IsUds(a) => Payload(c) = Payload(a)
    BY <1>8 DEF IsUds
  <2> QED BY <2>1, <2>2 DEF Found
<1>11. PICK t \in Nat : t = Taken(a) /\ t = Taken(c) /\ t <= m
  BY <1>2, <1>4, <1>5, <1>6, <1>7, <1>8 DEF Taken
<1>12. Rest(c) = Rest(a) \o b
  <2>1. PICK ra : ra = Rest(a)
    OBVIOUS
  <2>2. /\ ra \in Seq(Byte) /\ Len(ra) = m - t
        /\ \A i \in 1..(m - t) : ra[i] = a[t + i]
    <3>1. ra = SubSeq(a, t + 1, m) /\ t \in 0..m
      BY <2>1, <1>0, <1>11 DEF Rest
    <3> QED BY <3>1, <1>0, BehindIs
  <2>3. PICK rc : rc = Rest(c)
    OBVIOUS
  <2>4. /\ rc \in Seq(Byte) /\ Len(rc) = (m + n) - t
        /\ \A i \in 1..((m + n) - t) : rc[i] = c[t + i]
    <3>1. PICK l \in Nat : l = m + n
      OBVIOUS
    <3>2. rc = SubSeq(c, t + 1, l) /\ t \in 0..l /\ Len(c) = l
      BY <2>3, <3>1, <1>1, <1>11 DEF Rest
    <3> QED BY <3>1, <3>2, <1>1, BehindIs
  <2>5. PICK d : d = ra \o b
    OBVIOUS
  <2>6. /\ d \in Seq(Byte) /\ Len(d) = (m - t) + n
        /\ \A i \in 1..(m - t) : d[i] = a[t + i]
        /\ \A i \in 1..n : d[(m - t) + i] = b[i]
    <3>1. d \in Seq(Byte) /\ Joins(d, ra, b)
      BY <2>2, <2>5, ConcatIs
    <3> QED BY <3>1, <2>2, <1>0 DEF Joins
  <2>7. \A i \in 1..((m + n) - t) : rc[i] = d[i]
    <3> SUFFICES ASSUME NEW i \in 1..((m + n) - t) PROVE c[t + i] = d[i]
      BY <2>4
    <3>1. CASE i <= m - t
      <4>1. t + i \in 1..m /\ i \in 1..(m - t)
        BY <3>1
      <4> QED BY <4>1, <1>1, <2>6
    <3>2. CASE ~(i <= m - t)
      <4>1. PICK j \in 1..n : i = (m - t) + j /\ t + i = m + j
        <5>1. PICK j \in Int : j = i - (m - t)
          BY <1>11
        <5>2. i \in Int /\ i > m - t /\ i <= (m + n) - t
          BY <3>2, <1>11
        <5>3. j \in 1..n /\ i = (m - t) + j /\ t + i = m + j
          <6>1. j >= 1 /\ j <= n
            BY <5>1, <5>2
          <6>2. i = (m - t) + j /\ t + i = m + j
            BY <5>1, <5>2
          <6> QED BY <6>1, <6>2
        <5> QED BY <5>3
      <4> QED BY <4>1, <1>1, <2>6
    <3> QED BY <3>1, <3>2
  <2>8. Len(d) = (m + n) - t
    BY <2>6, <1>11
  <2>9. rc = d
    BY <2>4, <2>6, <2>7, <2>8, SameBeginning
  <2> QED BY <2>1, <2>3, <2>5, <2>9
<1> QED BY <1>9, <1>10, <1>12

(* What a read of all the bytes gives, and the two reads they are cut into. *)
Joined(all, first, second) ==
  all.rest = second.rest /\ all.payloads = first.payloads \o second.payloads

LEMMA LoopType ==
  ASSUME receiver = "client", NEW b \in Seq(Byte), NEW r, r = ParseLoop[b]
  PROVE  /\ r.rest \in Seq(Byte) /\ r.payloads \in Seq(Seq(Byte))
         /\ Waits(b) => r.rest = b /\ r.payloads = <<>>
         /\ ~Waits(b) => /\ r.rest = ParseLoop[Rest(b)].rest
                        /\ r.payloads = Found(b) \o ParseLoop[Rest(b)].payloads
<1>1. r = Turn(b, ParseLoop) /\ r \in Result
  BY LoopIs
<1> QED BY <1>1 DEF Turn, Result

LEMMA CutsJoin ==
  ASSUME receiver = "client"
  PROVE  \A a, b \in Seq(Byte) :
           Joined(ParseLoop[a \o b], ParseLoop[a], ParseLoop[ParseLoop[a].rest \o b])
<1> DEFINE J(a, b) ==
             Joined(ParseLoop[a \o b], ParseLoop[a], ParseLoop[ParseLoop[a].rest \o b])
           N == {n \in Nat : \A a, b \in Seq(Byte) : Len(a) <= n => J(a, b)}
<1>1. ASSUME NEW a \in Seq(Byte), NEW b \in Seq(Byte), Waits(a)
      PROVE  J(a, b)
  <2>1. PICK first : first = ParseLoop[a]
    OBVIOUS
  <2>2. first.rest = a /\ first.payloads = <<>>
    BY <2>1, <1>1, LoopType
  <2>3. a \o b \in Seq(Byte)
    BY ConcatProperties
  <2>4. PICK all : all = ParseLoop[a \o b]
    OBVIOUS
  <2>5. all.payloads \in Seq(Seq(Byte))
    BY <2>3, <2>4, LoopType
  <2>6. all.payloads = <<>> \o all.payloads
    BY <2>5, ConcatEmptySeq
  <2> QED BY <2>1, <2>2, <2>4, <2>6, Zenon DEF Joined
<1>2. ASSUME NEW n \in Nat, n \in N, NEW a \in Seq(Byte), NEW b \in Seq(Byte),
             Len(a) <= n + 1, ~Waits(a)
      PROVE  J(a, b)
  <2>1. PICK c \in Seq(Byte) : c = a \o b
    BY ConcatProperties
  <2>2. ~Waits(c) /\ Found(c) = Found(a) /\ Rest(c) = Rest(a) \o b
    <3>1. Joins(c, a, b)
      BY <2>1, ConcatIs
    <3> QED BY <3>1, <1>2, TurnOfMore
  <2>3. PICK ra \in Seq(Byte) : ra = Rest(a) /\ Len(ra) < Len(a)
    BY <1>2, TurnMoves
  <2>4. PICK found \in Seq(Seq(Byte)) : found = Found(a)
    BY <1>2, TurnMoves
  <2>5. J(ra, b)
    <3>1. Len(ra) \in Nat /\ Len(a) \in Nat
      BY LenProperties
    <3>2. Len(ra) <= n
      BY <3>1, <2>3, <1>2
    <3> QED BY <3>2, <1>2
  <2>6. PICK first : first = ParseLoop[a]
    OBVIOUS
  <2>7. PICK f : f = ParseLoop[ra]
    OBVIOUS
  <2>8. /\ first.rest = f.rest /\ first.payloads = found \o f.payloads
        /\ f.rest \in Seq(Byte) /\ f.payloads \in Seq(Seq(Byte))
    BY <2>3, <2>4, <2>6, <2>7, <1>2, LoopType
  <2>9. PICK all : all = ParseLoop[c]
    OBVIOUS
  <2>10. PICK s : s = ParseLoop[ra \o b]
    OBVIOUS
  <2>11. all.rest = s.rest /\ all.payloads = found \o s.payloads
    <3>1. ParseLoop[Rest(c)] = s
      BY <2>2, <2>3, <2>10
    <3>2. /\ all.rest = ParseLoop[Rest(c)].rest
          /\ all.payloads = Found(c) \o ParseLoop[Rest(c)].payloads
      BY <2>2, <2>9, LoopType
    <3> QED BY <3>1, <3>2, <2>2, <2>4, Zenon
  <2>12. PICK second : second = ParseLoop[f.rest \o b]
    OBVIOUS
  <2>13. second.payloads \in Seq(Seq(Byte))
    <3>1. f.rest \o b \in Seq(Byte)
      BY <2>8, ConcatProperties
    <3> QED BY <3>1, <2>12, LoopType
  <2>14. s.rest = second.rest /\ s.payloads = f.payloads \o second.payloads
    BY <2>5, <2>7, <2>10, <2>12, Zenon DEF Joined
  <2>15. found \o (f.payloads \o second.payloads) = (found \o f.payloads) \o second.payloads
    BY <2>8, <2>13, PayloadsJoin
  <2>16. ParseLoop[first.rest \o b] = second
    BY <2>8, <2>12
  <2>17. Joined(all, first, second)
    BY <2>8, <2>11, <2>14, <2>15, Zenon DEF Joined
  <2> QED BY <2>1, <2>6, <2>9, <2>16, <2>17, Zenon
<1>3. 0 \in N
  <2>1. ASSUME NEW a \in Seq(Byte), Len(a) <= 0 PROVE Waits(a)
    <3>1. Len(a) < 7
      BY <2>1, LenProperties
    <3> QED BY <3>1 DEF Waits, HeaderSize
  <2> HIDE DEF J
  <2> QED BY <2>1, <1>1
<1>4. ASSUME NEW n \in Nat, n \in N PROVE n + 1 \in N
  <2>1. \A a, b \in Seq(Byte) : Len(a) <= n + 1 => J(a, b)
    <3> SUFFICES ASSUME NEW a \in Seq(Byte), NEW b \in Seq(Byte), Len(a) <= n + 1
                 PROVE  J(a, b)
      BY Zenon
    <3> HIDE DEF J, N
    <3> QED BY <1>1, <1>2, <1>4
  <2> HIDE DEF J
  <2> QED BY <2>1
<1>5. \A n \in Nat : n \in N
  <2> HIDE DEF N
  <2> QED BY <1>3, <1>4, Induct
<1> SUFFICES ASSUME NEW a \in Seq(Byte), NEW b \in Seq(Byte) PROVE J(a, b)
  BY Zenon
<1>6. PICK n \in Nat : n = Len(a)
  BY LenProperties
<1>7. n \in N /\ Len(a) <= n
  BY <1>5, <1>6
<1> HIDE DEF J
<1> QED BY <1>7

Cuts ==
  LET n == Len(wire) - Len(wire') IN
  receiver = "client" /\ ReadyRead(n) =>
    \A k \in 1..(n - 1) :
      LET first  == Parse(m_buffer \o SubSeq(wire, 1, k))
          second == Parse(first.rest \o SubSeq(wire, k + 1, n)) IN
      /\ m_buffer' = second.rest
      /\ dispatched' = dispatched \o first.payloads \o second.payloads

LEMMA FCuts == FInv => Cuts
<1> SUFFICES ASSUME FInv, receiver = "client", NEW n, n = Len(wire) - Len(wire'),
                    ReadyRead(n), NEW k \in 1..(n - 1),
                    NEW first, first = Parse(m_buffer \o SubSeq(wire, 1, k)),
                    NEW second, second = Parse(first.rest \o SubSeq(wire, k + 1, n))
             PROVE  /\ m_buffer' = second.rest
                    /\ dispatched' = dispatched \o first.payloads \o second.payloads
  BY DEF Cuts
<1>1. wire \in Seq(Byte) /\ m_buffer \in Seq(Byte) /\ dispatched \in Seq(Seq(Byte))
  BY DEF FInv, FTypes
<1>2. Len(wire) \in Nat /\ n \in 1..Len(wire) /\ k \in 1..Len(wire)
  BY <1>1, LenProperties DEF ReadyRead
<1>3. PICK front : front = SubSeq(wire, 1, k)
  OBVIOUS
<1>4. PICK back : back = SubSeq(wire, k + 1, n)
  OBVIOUS
<1>5. front \in Seq(Byte) /\ back \in Seq(Byte)
  <2>1. \A i \in 1..k : wire[i] \in Byte
    BY <1>1, <1>2, ElementOfSeq
  <2>2. \A i \in (k + 1)..n : wire[i] \in Byte
    BY <1>1, <1>2, ElementOfSeq
  <2> QED BY <2>1, <2>2, <1>2, <1>3, <1>4, SubSeqProperties
<1>6. SubSeq(wire, 1, n) = front \o back
  <2>1. 1 \in 1..(Len(wire) + 1) /\ k \in (1 - 1)..Len(wire) /\ n \in k..Len(wire)
    BY <1>2
  <2> QED BY <2>1, <1>1, <1>3, <1>4, ConcatAdjacentSubSeq
<1>7. PICK a \in Seq(Byte) : a = m_buffer \o front
  BY <1>1, <1>5, ConcatProperties
<1>8. m_buffer \o SubSeq(wire, 1, n) = a \o back
  <2>1. (m_buffer \o front) \o back = m_buffer \o (front \o back)
    BY <1>1, <1>5, JoinBytes
  <2> QED BY <2>1, <1>6, <1>7, Zenon
<1>9. /\ m_buffer' = ParseLoop[a \o back].rest
      /\ dispatched' = dispatched \o ParseLoop[a \o back].payloads
  BY <1>8 DEF ReadyRead, Parse
<1>10. first = ParseLoop[a] /\ second = ParseLoop[first.rest \o back]
  BY <1>3, <1>4, <1>7 DEF Parse
<1>11. /\ ParseLoop[a \o back].rest = second.rest
       /\ ParseLoop[a \o back].payloads = first.payloads \o second.payloads
  <2>1. \A b \in Seq(Byte) :
          Joined(ParseLoop[a \o b], ParseLoop[a], ParseLoop[ParseLoop[a].rest \o b])
    BY CutsJoin
  <2>2. Joined(ParseLoop[a \o back], first, second)
    BY <2>1, <1>5, <1>10, Zenon
  <2> QED BY <2>2, Zenon DEF Joined
<1>12. first.payloads \in Seq(Seq(Byte)) /\ second.payloads \in Seq(Seq(Byte))
  <2>1. first \in Result
    BY <1>10, LoopIs
  <2>2. first.rest \o back \in Seq(Byte)
    BY <2>1, <1>5, ConcatProperties DEF Result
  <2>3. second \in Result
    BY <2>2, <1>10, LoopIs
  <2> QED BY <2>1, <2>3 DEF Result
<1>13. dispatched \o (first.payloads \o second.payloads)
         = (dispatched \o first.payloads) \o second.payloads
  <2>1. PICK f \in Seq(Seq(Byte)), g \in Seq(Seq(Byte)) :
          f = first.payloads /\ g = second.payloads
    BY <1>12
  <2>2. (dispatched \o f) \o g = dispatched \o (f \o g)
    BY <1>1, PayloadsJoin
  <2> QED BY <2>1, <2>2, Zenon
<1> QED BY <1>9, <1>11, <1>13

(* However the client's bytes are cut, what it dispatches and keeps is the *)
(* same: any buffer left by a broken connection, any packets.              *)
THEOREM FramingCuts == Spec => CutsAlike
<1>1. FInv /\ [Next]_vars => [Cuts]_vars
  BY FCuts
<1>2. CutsAlike <=> [][Cuts]_vars
  BY DEF CutsAlike, Cuts
<1> QED BY <1>1, <1>2, FInit, FNext, PTL DEF Spec

-----------------------------------------------------------------------------
(***************************************************************************)
(* The session is a user of the framing, and its own invariant.            *)
(***************************************************************************)
LEMMA SessionSteps == [SNext]_session_vars => [Next]_vars
<1> SUFFICES ASSUME [SNext]_session_vars PROVE [Next]_vars
  OBVIOUS
<1>1. CASE UNCHANGED session_vars
  BY <1>1 DEF session_vars
<1>2. CASE \/ ClickConnect \/ ClickDisconnect \/ ShowStatus \/ connectToServer
           \/ DisconnectToServer \/ ConnectFails \/ onReconnectTimer
           \/ ServerGone \/ ServerBack
  BY <1>2 DEF ClickConnect, ClickDisconnect, Click, ShowStatus, connectToServer,
              DisconnectToServer, ConnectFails, onReconnectTimer, ServerGone, ServerBack
<1>3. CASE CloseNow \/ Closed \/ Lost
  BY <1>3 DEF CloseNow, Closed, Lost, onDisconnected, Next
<1>4. CASE onConnected
  BY <1>4 DEF onConnected, Next
<1>5. CASE Transfer
  BY <1>5 DEF Transfer, ClientSends, ServerSends, Next
<1> QED BY <1>1, <1>2, <1>3, <1>4, <1>5 DEF SNext

(* The session opens, breaks, writes and reads its connection as the       *)
(* framing says: each of its steps is a step of TcpFraming or none.        *)
THEOREM SessionImplements == SSpec => Spec
<1>1. SInit => Init
  BY DEF SInit
<1> QED BY <1>1, SessionSteps, PTL DEF SSpec, Spec

(* The last of the signals tells whether the connection is open; when      *)
(* there is none, the label does, but for a disconnect that is still to    *)
(* come.                                                                   *)
LastTells == signals # <<>> => ((Last(signals) = "connected") <=> open)
LabelTells ==
  signals = <<>> =>
    /\ label = "ready" => open
    /\ label \in {"down", "reconnecting"} =>
         \/ socket # "connected" \/ pendingClose
         \/ slots # <<>> /\ Last(slots) = "disconnect"

(* The user's disconnect is marked, once there is a socket.                *)
DisconnectMarked == ~wanted /\ socket # "none" => isUserDisconnect

SInv == FInv /\ SessionTypeOK /\ LastTells /\ LabelTells /\ DisconnectMarked

Call == {"connect", "disconnect"}
Signal == {"connected", "reconnect", "disconnected"}

LEMMA LastAppended ==
  ASSUME NEW S, NEW q \in Seq(S), NEW e \in S, NEW r, r = Append(q, e)
  PROVE  r \in Seq(S) /\ r # <<>> /\ Last(r) = e
<1>1. /\ r \in Seq(S) /\ r # <<>> /\ Len(r) = Len(q) + 1 /\ r[Len(q) + 1] = e
  BY AppendProperties
<1> QED BY <1>1 DEF Last

LEMMA LastOfTail ==
  ASSUME NEW S, NEW q \in Seq(S), q # <<>>, NEW r, r = Tail(q)
  PROVE  /\ r \in Seq(S) /\ Head(q) \in S
         /\ r = <<>> => Last(q) = Head(q)
         /\ r # <<>> => Last(r) = Last(q)
<1>1. PICK n \in Nat : n = Len(q) /\ n # 0
  BY EmptySeq, LenProperties
<1>2. /\ Head(q) \in S /\ r \in Seq(S) /\ Len(r) = n - 1
      /\ \A i \in 1..(n - 1) : r[i] = q[i + 1]
  BY <1>1, HeadTailProperties
<1>3. Head(q) = q[1]
  OBVIOUS
<1>4. r = <<>> => n = 1
  <2>1. Len(<<>>) = 0
    OBVIOUS
  <2>2. r = <<>> => n - 1 = 0
    BY <2>1, <1>2, Zenon
  <2> QED BY <2>2, <1>1
<1>5. ASSUME r # <<>> PROVE Last(r) = Last(q)
  <2>1. n - 1 \in 1..(n - 1)
    BY <1>1, <1>2, <1>5, EmptySeq
  <2>2. r[n - 1] = q[(n - 1) + 1]
    BY <2>1, <1>2
  <2>3. (n - 1) + 1 = n
    BY <1>1
  <2> QED BY <2>2, <2>3, <1>1, <1>2 DEF Last
<1> QED BY <1>1, <1>2, <1>3, <1>4, <1>5 DEF Last

LEMMA SessionInit == SInit => SInv
<1> SUFFICES ASSUME SInit PROVE SInv
  OBVIOUS
<1>1. FInv /\ TypeOK
  BY FInit, FTypeOK DEF SInit
<1>2. /\ open = FALSE /\ wanted = FALSE /\ signals = <<>> /\ slots = <<>>
      /\ socket = "none" /\ label = "down" /\ reconnectTimer = FALSE
      /\ heartbeatTimer = FALSE /\ pendingClose = FALSE /\ isUserDisconnect = FALSE
      /\ reachable \in BOOLEAN
  BY DEF SInit, Init
<1>3. slots \in Seq(Call) /\ signals \in Seq(Signal)
  BY <1>2
<1>4. SessionTypeOK
  <2>1. /\ socket \in {"none", "unconnected", "connecting", "connected", "closing"}
        /\ open = (socket \in {"connected", "closing"})
    <3>1. socket \notin {"connected", "closing"}
      BY <1>2
    <3>2. (socket \in {"connected", "closing"}) = FALSE
      BY <3>1, SMT
    <3> QED BY <3>2, <1>2
  <2>2. /\ pendingClose => socket \in {"connecting", "connected"}
        /\ isUserDisconnect \in BOOLEAN /\ wanted \in BOOLEAN
        /\ heartbeatTimer = open
        /\ reconnectTimer => ~open /\ ~isUserDisconnect
        /\ label \in {"down", "connecting", "reconnecting", "ready"}
    BY <1>2
  <2> QED BY <2>1, <2>2, <1>1, <1>2, <1>3, Zenon DEF SessionTypeOK, Call, Signal
<1> QED BY <1>1, <1>2, <1>4 DEF SInv, LastTells, LabelTells, DisconnectMarked

LEMMA ClickKeeps ==
  ASSUME SInv, ClickConnect \/ ClickDisconnect, TypeOK'
  PROVE  (SessionTypeOK /\ LastTells /\ LabelTells /\ DisconnectMarked)'
<1>1. PICK call \in Call, text \in {"connecting", "down"} :
        Click(call, text) /\ (text = "down" => call = "disconnect")
  BY DEF ClickConnect, ClickDisconnect, Call
<1>2. slots' \in Seq(Call) /\ slots' # <<>> /\ Last(slots') = call
  <2>1. slots \in Seq(Call) /\ slots' = Append(slots, call)
    BY <1>1 DEF Click, SInv, SessionTypeOK, Call
  <2> QED BY <2>1, LastAppended, ZenonT(30)
<1>3. /\ label' = text /\ UNCHANGED <<signals, wanted>> /\ UNCHANGED worker_vars
      /\ UNCHANGED network_vars /\ open' = open
  BY <1>1 DEF Click, vars
<1>4. SessionTypeOK'
  BY <1>2, <1>3 DEF SInv, SessionTypeOK, worker_vars, network_vars, Call
<1>5. LastTells' /\ DisconnectMarked'
  BY <1>3 DEF SInv, LastTells, DisconnectMarked, worker_vars
<1>6. LabelTells'
  BY <1>1, <1>2, <1>3 DEF LabelTells
<1> QED BY <1>4, <1>5, <1>6

LEMMA ShowStatusKeeps ==
  ASSUME SInv, ShowStatus, TypeOK'
  PROVE  (SessionTypeOK /\ LastTells /\ LabelTells /\ DisconnectMarked)'
<1>1. /\ signals \in Seq(Signal) /\ signals # <<>> /\ signals' = Tail(signals)
      /\ label' = LabelOf(Head(signals))
  BY DEF ShowStatus, SInv, SessionTypeOK, Signal
<1>2. /\ signals' \in Seq(Signal) /\ Head(signals) \in Signal
      /\ signals' = <<>> => Last(signals) = Head(signals)
      /\ signals' # <<>> => Last(signals') = Last(signals)
  BY <1>1, LastOfTail
<1>3. /\ UNCHANGED <<slots, wanted>> /\ UNCHANGED worker_vars
      /\ UNCHANGED network_vars /\ open' = open
  BY DEF ShowStatus, vars
<1>4. /\ label' \in {"down", "reconnecting", "ready"}
      /\ label' = "ready" <=> Head(signals) = "connected"
  BY <1>1, <1>2 DEF LabelOf, Signal
<1>5. SessionTypeOK'
  BY <1>2, <1>3, <1>4 DEF SInv, SessionTypeOK, worker_vars, network_vars, Signal
<1>6. LastTells' /\ DisconnectMarked'
  BY <1>1, <1>2, <1>3 DEF SInv, LastTells, DisconnectMarked, worker_vars
<1>7. LabelTells'
  BY <1>1, <1>2, <1>3, <1>4 DEF SInv, SessionTypeOK, LastTells, LabelTells, worker_vars
<1> QED BY <1>5, <1>6, <1>7

LEMMA connectToServerKeeps ==
  ASSUME SInv, connectToServer, TypeOK'
  PROVE  (SessionTypeOK /\ LastTells /\ LabelTells /\ DisconnectMarked)'
<1>1. /\ slots \in Seq(Call) /\ slots # <<>> /\ Head(slots) = "connect"
      /\ slots' = Tail(slots) /\ wanted' = TRUE
  BY DEF connectToServer, NextSlot, SInv, SessionTypeOK, Call
<1>2. /\ slots' \in Seq(Call)
      /\ slots' = <<>> => Last(slots) = "connect"
      /\ slots' # <<>> => Last(slots') = Last(slots)
  BY <1>1, LastOfTail
<1>3. /\ UNCHANGED <<pendingClose, isUserDisconnect, reconnectTimer, heartbeatTimer,
                     signals, label>>
      /\ UNCHANGED network_vars /\ open' = open
  BY DEF connectToServer, vars
<1>4. /\ socket' \in {socket, "connecting"}
      /\ socket' # socket => socket' = "connecting" /\ socket \in {"none", "unconnected"}
  BY DEF connectToServer
<1>5. SessionTypeOK'
  BY <1>1, <1>2, <1>3, <1>4 DEF SInv, SessionTypeOK, network_vars, Call
<1>6. LastTells' /\ DisconnectMarked'
  BY <1>1, <1>3 DEF SInv, LastTells, DisconnectMarked
<1>7. LabelTells'
  BY <1>1, <1>2, <1>3, <1>4 DEF SInv, LabelTells
<1> QED BY <1>5, <1>6, <1>7

LEMMA DisconnectToServerKeeps ==
  ASSUME SInv, DisconnectToServer, TypeOK'
  PROVE  (SessionTypeOK /\ LastTells /\ LabelTells /\ DisconnectMarked)'
<1>1. /\ slots \in Seq(Call) /\ slots # <<>>
      /\ slots' = Tail(slots) /\ wanted' = FALSE
  BY DEF DisconnectToServer, NextSlot, SInv, SessionTypeOK, Call
<1>2. slots' \in Seq(Call)
  BY <1>1, LastOfTail
<1>3. /\ UNCHANGED <<socket, heartbeatTimer, signals, label>>
      /\ UNCHANGED network_vars /\ open' = open
  BY DEF DisconnectToServer, vars, worker_vars
<1>4. CASE socket = "none"
  <2>1. UNCHANGED worker_vars
    BY <1>4 DEF DisconnectToServer
  <2>2. SessionTypeOK'
    BY <1>1, <1>2, <1>3, <2>1 DEF SInv, SessionTypeOK, network_vars, worker_vars, Call
  <2> QED BY <1>3, <1>4, <2>2 DEF SInv, LastTells, LabelTells, DisconnectMarked
<1>5. CASE socket # "none"
  <2>1. /\ isUserDisconnect' = TRUE /\ reconnectTimer' = FALSE
        /\ pendingClose' = (pendingClose \/ socket \in {"connecting", "connected"})
    BY <1>5 DEF DisconnectToServer, MarkUserDisconnect, PutOffClose
  <2>2. SessionTypeOK'
    BY <1>1, <1>2, <1>3, <2>1 DEF SInv, SessionTypeOK, network_vars, Call
  <2> QED BY <1>3, <2>1, <2>2 DEF SInv, LastTells, LabelTells, DisconnectMarked
<1> QED BY <1>4, <1>5

LEMMA onDisconnectedKeeps ==
  ASSUME SInv, onDisconnected, TypeOK', reachable' \in BOOLEAN,
         UNCHANGED <<isUserDisconnect, slots, label, wanted>>
  PROVE  (SessionTypeOK /\ LastTells /\ LabelTells /\ DisconnectMarked)'
<1>1. /\ open /\ open' = FALSE /\ socket' = "unconnected" /\ pendingClose' = FALSE
      /\ heartbeatTimer' = FALSE
      /\ reconnectTimer' => ~isUserDisconnect
      /\ signals' = Append(signals, "disconnected")
  BY DEF onDisconnected, Break, StartReconnect, SignalDisconnected, SInv, SessionTypeOK
<1>2. signals' \in Seq(Signal) /\ signals' # <<>> /\ Last(signals') = "disconnected"
  <2>1. signals \in Seq(Signal)
    BY DEF SInv, SessionTypeOK, Signal
  <2>2. PICK e \in Signal : e = "disconnected"
    BY DEF Signal
  <2>3. signals' = Append(signals, e)
    BY <1>1, <2>2
  <2>4. signals' \in Seq(Signal) /\ signals' # <<>> /\ Last(signals') = e
    BY <2>1, <2>3, LastAppended, ZenonT(30)
  <2> QED BY <2>2, <2>4
<1>3. SessionTypeOK'
  <2>1. slots' \in Seq(Call) /\ label' \in {"down", "connecting", "reconnecting", "ready"}
        /\ isUserDisconnect' \in BOOLEAN /\ wanted' \in BOOLEAN
    BY DEF SInv, SessionTypeOK, Call
  <2>2. /\ socket' \in {"none", "unconnected", "connecting", "connected", "closing"}
        /\ open' = (socket' \in {"connected", "closing"})
    <3>1. socket' \notin {"connected", "closing"}
      BY <1>1
    <3>2. (socket' \in {"connected", "closing"}) = FALSE
      BY <3>1, SMT
    <3> QED BY <3>2, <1>1
  <2>3. /\ pendingClose' => socket' \in {"connecting", "connected"}
        /\ heartbeatTimer' = open'
        /\ reconnectTimer' => ~open' /\ ~isUserDisconnect'
    BY <1>1
  <2> QED BY <2>1, <2>2, <2>3, <1>2, Zenon DEF SessionTypeOK, Signal, Call
<1>4. DisconnectMarked'
  BY <1>1 DEF SInv, SessionTypeOK, DisconnectMarked
<1> QED BY <1>1, <1>2, <1>3, <1>4 DEF LastTells, LabelTells

LEMMA CloseKeeps ==
  ASSUME SInv, CloseNow \/ Closed \/ Lost, TypeOK'
  PROVE  (SessionTypeOK /\ LastTells /\ LabelTells /\ DisconnectMarked)'
<1>1. CASE onDisconnected
  <2>1. UNCHANGED <<isUserDisconnect, slots, label, wanted>> /\ reachable' \in BOOLEAN
    BY DEF CloseNow, Closed, Lost, network_vars, SInv, SessionTypeOK
  <2> QED BY <1>1, <2>1, onDisconnectedKeeps
<1>2. CASE ~onDisconnected
  <2>1. /\ socket = "connected" /\ socket' = "closing" /\ pendingClose' = FALSE
        /\ UNCHANGED <<isUserDisconnect, slots, label, wanted, reconnectTimer,
                       heartbeatTimer, signals, reachable, open>>
    BY <1>2 DEF CloseNow, Closed, Lost, InEventLoop, network_vars, vars
  <2>2. SessionTypeOK'
    BY <2>1 DEF SInv, SessionTypeOK
  <2> QED BY <2>1, <2>2 DEF SInv, LastTells, LabelTells, DisconnectMarked
<1> QED BY <1>1, <1>2

LEMMA AttemptKeeps ==
  ASSUME SInv, onConnected \/ ConnectFails \/ onReconnectTimer, TypeOK'
  PROVE  (SessionTypeOK /\ LastTells /\ LabelTells /\ DisconnectMarked)'
<1>0. /\ signals \in Seq(Signal) /\ "connected" \in Signal /\ "reconnect" \in Signal
  BY DEF SInv, SessionTypeOK, Signal
<1>1. CASE onConnected
  <2>1. /\ open' = TRUE /\ socket = "connecting" /\ socket' = "connected"
        /\ reconnectTimer' = FALSE
        /\ heartbeatTimer' = TRUE /\ signals' = Append(signals, "connected")
        /\ UNCHANGED <<pendingClose, isUserDisconnect, slots, label, wanted, reachable>>
    BY <1>1 DEF onConnected, Connect, StopReconnect, network_vars
  <2>2. signals' \in Seq(Signal) /\ signals' # <<>> /\ Last(signals') = "connected"
    BY <2>1, <1>0, LastAppended, ZenonT(30)
  <2>3. SessionTypeOK'
    BY <2>1, <2>2 DEF SInv, SessionTypeOK, Signal
  <2> QED BY <2>1, <2>2, <2>3 DEF SInv, LastTells, LabelTells, DisconnectMarked
<1>2. CASE ConnectFails
  <2>1. /\ socket = "connecting" /\ socket' = "unconnected" /\ pendingClose' = FALSE
        /\ UNCHANGED <<open, isUserDisconnect, slots, label, wanted, reachable,
                       reconnectTimer, heartbeatTimer, signals>>
    BY <1>2 DEF ConnectFails, vars, gui_vars, network_vars
  <2>2. SessionTypeOK'
    BY <2>1 DEF SInv, SessionTypeOK
  <2> QED BY <2>1, <2>2 DEF SInv, LastTells, LabelTells, DisconnectMarked
<1>3. CASE onReconnectTimer
  <2>1. /\ socket = "unconnected" /\ socket' = "connecting"
        /\ signals' = Append(signals, "reconnect")
        /\ UNCHANGED <<open, pendingClose, isUserDisconnect, slots, label, wanted,
                       reachable, reconnectTimer, heartbeatTimer>>
    BY <1>3 DEF onReconnectTimer, TimerRepeats, vars, network_vars
  <2>2. signals' \in Seq(Signal) /\ signals' # <<>> /\ Last(signals') = "reconnect"
    BY <2>1, <1>0, LastAppended, ZenonT(30)
  <2>3. SessionTypeOK'
    BY <2>1, <2>2 DEF SInv, SessionTypeOK, Signal
  <2> QED BY <2>1, <2>2, <2>3 DEF SInv, SessionTypeOK, LastTells, LabelTells, DisconnectMarked
<1> QED BY <1>1, <1>2, <1>3

LEMMA RestKeeps ==
  ASSUME SInv, TypeOK', reachable' \in BOOLEAN, open' = open, UNCHANGED <<worker_vars, gui_vars>>
  PROVE  (SessionTypeOK /\ LastTells /\ LabelTells /\ DisconnectMarked)'
BY DEF SInv, SessionTypeOK, LastTells, LabelTells, DisconnectMarked, worker_vars, gui_vars

LEMMA SessionNext == SInv /\ [SNext]_session_vars => SInv'
<1> SUFFICES ASSUME SInv, [SNext]_session_vars PROVE SInv'
  OBVIOUS
<1>1. FInv'
  BY SessionSteps, FNext DEF SInv
<1>2. TypeOK'
  BY <1>1, FTypeOK, PTL
<1>3. (SessionTypeOK /\ LastTells /\ LabelTells /\ DisconnectMarked)'
  <2>1. CASE Transfer \/ ServerGone \/ ServerBack \/ UNCHANGED session_vars
    <3>1. open' = open /\ UNCHANGED <<worker_vars, gui_vars>> /\ reachable' \in BOOLEAN
      BY <2>1 DEF Transfer, ClientSends, ServerSends, SendPacket, ReadyRead, ServerGone,
                  ServerBack, session_vars, vars, network_vars, SInv, SessionTypeOK
    <3> QED BY <3>1, <1>2, RestKeeps
  <2> QED BY <2>1, <1>2, ClickKeeps, ShowStatusKeeps, connectToServerKeeps,
             DisconnectToServerKeeps, CloseKeeps, AttemptKeeps DEF SNext
<1> QED BY <1>1, <1>3 DEF SInv

(* The types, and that the heartbeat timer runs exactly while the          *)
(* connection is open, the reconnect timer never then.                     *)
THEOREM SessionTypes == SSpec => []SessionTypeOK
<1>1. SInv => SessionTypeOK
  BY DEF SInv
<1> QED BY <1>1, SessionInit, SessionNext, PTL DEF SSpec

(* What the session's connections carry is read exactly.                   *)
THEOREM SessionReads == SSpec => []ExactlyRead
<1>1. SInv => ExactlyRead
  BY FExactlyRead DEF SInv
<1> QED BY <1>1, SessionInit, SessionNext, PTL DEF SSpec

(* When nothing is posted either way, the status label tells the truth     *)
(* about the socket, after any clicks, losses and timeouts.                *)
THEOREM SessionLabel == SSpec => []LabelAgrees
<1>1. SInv => LabelAgrees
  BY DEF SInv, LabelAgrees, LabelTells, SessionTypeOK, InEventLoop
<1> QED BY <1>1, SessionInit, SessionNext, PTL DEF SSpec

(* After the worker has got a disconnect, no timer, running attempt or     *)
(* lost connection starts another attempt.                                 *)
THEOREM SessionStaysDown == SSpec => StaysDown
<1> DEFINE Down == ~wanted /\ socket = "unconnected" => socket' = "unconnected" \/ wanted'
<1>1. SInv /\ [SNext]_session_vars => Down
  <2> SUFFICES ASSUME SInv, [SNext]_session_vars, ~wanted, socket = "unconnected",
                      ~(socket' = "unconnected"), ~wanted'
               PROVE  FALSE
    OBVIOUS
  <2>1. isUserDisconnect
    BY DEF SInv, DisconnectMarked
  <2>2. ~open
    BY DEF SInv, SessionTypeOK
  <2> QED BY <2>1, <2>2
          DEF SNext, ClickConnect, ClickDisconnect, Click, ShowStatus, connectToServer,
              DisconnectToServer, CloseNow, Closed, onConnected, ConnectFails,
              onReconnectTimer, Transfer, Lost, ServerGone, ServerBack, onDisconnected,
              InEventLoop, worker_vars, session_vars
<1> QED BY <1>1, SessionInit, SessionNext, PTL DEF SSpec, StaysDown
=============================================================================
