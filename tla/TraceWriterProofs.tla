-------------------------- MODULE TraceWriterProofs --------------------------
(***************************************************************************)
(* Proofs about the trace writer, for any number of producers and writer   *)
(* threads, any record sizes and any limits: memory, queue and file keep   *)
(* their bounds, and no record disappears without being counted.           *)
(*                                                                         *)
(* Bytes and Decoded are recursive functions.  That such functions exist   *)
(* and what they compute is proved first, by induction stated over sets.   *)
(***************************************************************************)
EXTENDS TraceWriter, FiniteSetTheorems, SequenceTheorems, WellFoundedInduction, TLAPS

USE DEF fileVars, history

-----------------------------------------------------------------------------
(* Induction and recursion up to a number.                                 *)

\* A set of natural numbers has a least element.
LEMMA Least ==
  ASSUME NEW T, T \subseteq Nat, T # {}
  PROVE  \E x \in T : \A y \in T : x <= y
<1>1. PICK R : R = OpToRel(<, Nat)
  BY Zenon
<1>2. IsWellFoundedOn(R, Nat)
  BY <1>1, NatLessThanWellFounded, Zenon
<1>3. PICK x \in T : \A y \in T : ~(<<y, x>> \in R)
  BY <1>2, WFMin, Zenon
<1>4. R = {ss \in Nat \X Nat : ss[1] < ss[2]}
  BY <1>1, Zenon DEF OpToRel
<1>5. ASSUME NEW y \in T
      PROVE  x <= y
  <2>1. x \in Nat /\ y \in Nat /\ <<y, x>> \notin R
    BY <1>3
  <2>2. <<y, x>> \in Nat \X Nat /\ <<y, x>>[1] = y /\ <<y, x>>[2] = x
    BY <2>1
  <2>3. ~(y < x)
    BY <1>4, <2>1, <2>2
  <2> QED BY <2>1, <2>3
<1> QED BY <1>5

\* Induction up to n, for the numbers of a set T.
LEMMA UpTo ==
  ASSUME NEW n \in Nat, NEW T, 0 \in T, \A i \in 1..n : i - 1 \in T => i \in T
  PROVE  \A i \in 0..n : i \in T
<1> DEFINE U == {i \in 0..n : i \notin T}
<1> SUFFICES ASSUME U # {} PROVE FALSE
  OBVIOUS
<1>1. U \subseteq Nat
  OBVIOUS
<1>2. PICK x \in U : \A y \in U : x <= y
  BY <1>1, Least, Zenon
<1>3. x \in 1..n /\ x \notin T /\ x - 1 \in 0..n
  BY <1>2
<1>4. x - 1 \notin U
  BY <1>2, <1>3
<1> QED BY <1>3, <1>4

\* A function defined by recursion on 0..n exists.
Follows(f, b, G, m) == f[0] = b /\ \A i \in 1..m : f[i] = G[<<f[i - 1], i>>]

LEMMA Recursion ==
  ASSUME NEW S, NEW b \in S, NEW n \in Nat, NEW G \in [S \X (1..n) -> S]
  PROVE  \E f \in [0..n -> S] : Follows(f, b, G, n)
<1> DEFINE T == {m \in 0..n : \E f \in [0..m -> S] : Follows(f, b, G, m)}
<1>1. 0 \in T
  <2>1. [i \in 0..0 |-> b] \in [0..0 -> S]
    OBVIOUS
  <2>2. Follows([i \in 0..0 |-> b], b, G, 0)
    BY DEF Follows
  <2> QED BY <2>1, <2>2
<1>2. ASSUME NEW m \in 1..n, m - 1 \in T
      PROVE  m \in T
  <2>1. PICK f \in [0..(m - 1) -> S] : Follows(f, b, G, m - 1)
    BY <1>2
  <2>2. f[m - 1] \in S
    OBVIOUS
  <2>3. G[<<f[m - 1], m>>] \in S
    BY <2>2
  <2>4. PICK g : g = [i \in 0..m |-> IF i = m THEN G[<<f[m - 1], m>>] ELSE f[i]]
    OBVIOUS
  <2>5. g \in [0..m -> S]
    BY <2>3, <2>4
  <2>6. \A i \in 0..(m - 1) : g[i] = f[i]
    BY <2>4
  <2>7. g[m] = G[<<f[m - 1], m>>]
    BY <2>4
  <2>8. g[0] = b
    BY <2>1, <2>6 DEF Follows
  <2>9. ASSUME NEW i \in 1..m
        PROVE  g[i] = G[<<g[i - 1], i>>]
    <3>1. CASE i = m
      BY <2>6, <2>7, <3>1
    <3>2. CASE i # m
      <4>1. i \in 1..(m - 1) /\ i - 1 \in 0..(m - 1) /\ i \in 0..(m - 1)
        BY <3>2
      <4>2. f[i] = G[<<f[i - 1], i>>]
        BY <2>1, <4>1 DEF Follows
      <4> QED BY <2>6, <4>1, <4>2
    <3> QED BY <3>1, <3>2
  <2>10. Follows(g, b, G, m)
    BY <2>8, <2>9 DEF Follows
  <2> QED BY <2>5, <2>10
<1>3. n \in T
  <2>1. \A i \in 0..n : i \in T
    <3> HIDE DEF T
    <3> QED BY <1>1, <1>2, UpTo
  <2>2. n \in 0..n
    OBVIOUS
  <2> QED BY <2>1, <2>2, Zenon
<1> QED BY <1>3

-----------------------------------------------------------------------------
(* The size of a sequence of lines.                                        *)

Lines == Seq(0..MaxRecords)

LEMMA WidthType ==
  ASSUME NEW r \in 0..MaxRecords
  PROVE  Width(r) \in Nat
BY SizesAssumption DEF Width

LEMMA LineType ==
  ASSUME NEW s \in Lines
  PROVE  /\ Len(s) \in Nat
         /\ \A i \in 1..Len(s) : s[i] \in 0..MaxRecords /\ Width(s[i]) \in Nat
<1>1. s \in Seq(0..MaxRecords)
  BY DEF Lines
<1>2. Len(s) \in Nat
  BY <1>1
<1>3. \A i \in 1..Len(s) : s[i] \in 0..MaxRecords
  BY <1>1, ElementOfSeq, Zenon
<1> QED BY <1>2, <1>3, WidthType

\* The equation that defines the function in Bytes, and the same equation value by value.
SizeEquation(s, f) ==
  f = [i \in 0..Len(s) |-> IF i = 0 THEN 0 ELSE f[i - 1] + Width(s[i])]

Sums(s, f) ==
  /\ f \in [0..Len(s) -> Nat] /\ f[0] = 0
  /\ \A i \in 1..Len(s) : f[i] = f[i - 1] + Width(s[i])

LEMMA SumsExist ==
  ASSUME NEW s \in Lines
  PROVE  \E f : Sums(s, f)
<1>1. Len(s) \in Nat /\ \A i \in 1..Len(s) : Width(s[i]) \in Nat
  BY LineType
<1>2. PICK n \in Nat : n = Len(s)
  BY <1>1
<1>3. PICK G : G = [x \in Nat \X (1..n) |-> x[1] + Width(s[x[2]])]
  OBVIOUS
<1>4. \A a \in Nat, i \in 1..n : G[<<a, i>>] = a + Width(s[i])
  BY <1>3
<1>5. G \in [Nat \X (1..n) -> Nat]
  BY <1>1, <1>2, <1>3
<1>6. PICK f \in [0..n -> Nat] : Follows(f, 0, G, n)
  BY <1>5, Recursion
<1>7. ASSUME NEW i \in 1..n
      PROVE  f[i] = f[i - 1] + Width(s[i])
  <2>1. f[i - 1] \in Nat
    OBVIOUS
  <2> QED BY <1>4, <1>6, <2>1 DEF Follows
<1>8. f[0] = 0
  BY <1>6 DEF Follows
<1> QED BY <1>2, <1>7, <1>8 DEF Sums

\* Bytes(s) is the last of the partial sums of the widths.
LEMMA BytesSums ==
  ASSUME NEW s \in Lines
  PROVE  \E f : Sums(s, f) /\ Bytes(s) = f[Len(s)]
<1>1. PICK g : Sums(s, g)
  BY SumsExist
<1>2. Len(s) \in Nat /\ \A i \in 1..Len(s) : Width(s[i]) \in Nat
  BY LineType
<1>3. SizeEquation(s, g)
  <2>1. \A i \in 0..Len(s) : g[i] = IF i = 0 THEN 0 ELSE g[i - 1] + Width(s[i])
    BY <1>1, <1>2 DEF Sums
  <2>2. g = [i \in 0..Len(s) |-> g[i]]
    BY <1>1 DEF Sums
  <2> QED BY <2>1, <2>2 DEF SizeEquation
<1>4. PICK h : h = CHOOSE f : SizeEquation(s, f)
  OBVIOUS
<1>5. SizeEquation(s, h)
  BY <1>3, <1>4, Zenon
<1>6. Bytes(s) = h[Len(s)]
  BY <1>4, Zenon DEF Bytes, SizeEquation
<1>7. PICK V : V = [i \in 0..Len(s) |-> IF i = 0 THEN 0 ELSE h[i - 1] + Width(s[i])]
  OBVIOUS
<1>8. h = V
  BY <1>5, <1>7, Zenon DEF SizeEquation
<1>9. h[0] = 0 /\ (\A i \in 1..Len(s) : h[i] = h[i - 1] + Width(s[i])) /\ DOMAIN h = 0..Len(s)
  <2>1. V[0] = 0 /\ (\A i \in 1..Len(s) : V[i] = h[i - 1] + Width(s[i])) /\ DOMAIN V = 0..Len(s)
    BY <1>2, <1>7
  <2> QED BY <1>8, <2>1
<1>10. \A i \in 0..Len(s) : h[i] \in Nat
  <2> DEFINE T == {i \in 0..Len(s) : h[i] \in Nat}
  <2>1. 0 \in T
    BY <1>2, <1>9
  <2>2. ASSUME NEW i \in 1..Len(s), i - 1 \in T
        PROVE  i \in T
    BY <1>2, <1>9, <2>2
  <2>3. \A i \in 0..Len(s) : i \in T
    <3> HIDE DEF T
    <3> QED BY <1>2, <2>1, <2>2, UpTo
  <2> QED BY <2>3
<1>11. h = [i \in 0..Len(s) |-> h[i]]
  BY <1>7, <1>8
<1>12. Sums(s, h)
  BY <1>9, <1>10, <1>11 DEF Sums
<1> QED BY <1>6, <1>12

LEMMA BytesType ==
  ASSUME NEW s \in Lines
  PROVE  Bytes(s) \in Nat
<1>1. PICK f : Sums(s, f) /\ Bytes(s) = f[Len(s)]
  BY BytesSums
<1>2. Len(s) \in 0..Len(s)
  BY DEF Lines
<1> QED BY <1>1, <1>2 DEF Sums

\* Two sequences of partial sums, of lines that agree after a shift by k, keep their distance.
LEMMA SumsShift ==
  ASSUME NEW s \in Lines, NEW t \in Lines, NEW f, NEW g, Sums(s, f), Sums(t, g),
         NEW k \in Nat, NEW n \in Nat, n <= Len(t), n + k <= Len(s),
         \A i \in 1..n : t[i] = s[i + k]
  PROVE  f[n + k] = g[n] + f[k]
<1>1. Len(s) \in Nat /\ Len(t) \in Nat
  BY DEF Lines
<1>2. /\ \A i \in 0..Len(s) : f[i] \in Nat
      /\ \A i \in 0..Len(t) : g[i] \in Nat
  BY DEF Sums
<1>3. \A i \in 1..Len(s) : s[i] \in 0..MaxRecords
  BY LineType
<1> DEFINE T == {i \in 0..n : f[i + k] = g[i] + f[k]}
<1>4. 0 \in T
  BY <1>1, <1>2 DEF Sums
<1>5. ASSUME NEW i \in 1..n, i - 1 \in T
      PROVE  i \in T
  <2>1. i + k \in 1..Len(s) /\ i \in 1..Len(t) /\ i - 1 \in 0..Len(t) /\ k \in 0..Len(s)
    BY <1>1
  <2>2. f[i + k] = f[(i + k) - 1] + Width(s[i + k]) /\ g[i] = g[i - 1] + Width(t[i])
    BY <2>1 DEF Sums
  <2>3. Width(s[i + k]) \in Nat /\ t[i] = s[i + k]
    BY <1>3, <2>1, WidthType
  <2>4. f[(i - 1) + k] = g[i - 1] + f[k] /\ (i - 1) + k = (i + k) - 1
    BY <1>5
  <2>5. g[i - 1] \in Nat /\ f[k] \in Nat
    BY <1>2, <2>1
  <2>6. f[i + k] = g[i] + f[k]
    BY <2>2, <2>3, <2>4, <2>5
  <2> QED BY <2>6
<1>6. \A i \in 0..n : i \in T
  <2> HIDE DEF T
  <2> QED BY <1>4, <1>5, UpTo
<1> QED BY <1>6

LEMMA BytesEmpty == Bytes(<<>>) = 0
<1>1. <<>> \in Lines /\ Len(<<>>) = 0
  BY DEF Lines
<1> QED BY <1>1, BytesSums DEF Sums

\* A line adds its width.
LEMMA BytesAppend ==
  ASSUME NEW s \in Lines, NEW r \in 0..MaxRecords
  PROVE  Bytes(Append(s, r)) = Bytes(s) + Width(r)
<1>1. PICK t : t = Append(s, r)
  OBVIOUS
<1>2. /\ t \in Lines /\ Len(s) \in Nat /\ Len(t) = Len(s) + 1 /\ t[Len(t)] = r
      /\ \A i \in 1..Len(s) : s[i] = t[i]
  BY <1>1 DEF Lines
<1>3. PICK f : Sums(t, f) /\ Bytes(t) = f[Len(t)]
  BY <1>2, BytesSums
<1>4. PICK g : Sums(s, g) /\ Bytes(s) = g[Len(s)]
  BY BytesSums
<1>5. f[Len(s) + 0] = g[Len(s)] + f[0]
  <2>1. PICK k \in Nat : k = 0
    OBVIOUS
  <2>2. Len(s) <= Len(s) /\ Len(s) + k <= Len(t) /\ \A i \in 1..Len(s) : s[i] = t[i + k]
    BY <1>2, <2>1
  <2>3. Sums(t, f) /\ Sums(s, g) /\ t \in Lines /\ Len(s) \in Nat
    BY <1>2, <1>3, <1>4
  <2>4. f[Len(s) + k] = g[Len(s)] + f[k]
    BY <2>2, <2>3, SumsShift
  <2> QED BY <2>1, <2>4
<1>6. f[0] = 0 /\ g[Len(s)] \in Nat
  BY <1>2, <1>3, <1>4 DEF Sums
<1>7. f[Len(s)] = g[Len(s)]
  BY <1>2, <1>5, <1>6
<1>8. f[Len(t)] = f[Len(t) - 1] + Width(t[Len(t)]) /\ Len(t) - 1 = Len(s)
  BY <1>2, <1>3 DEF Sums
<1> QED BY <1>1, <1>2, <1>3, <1>4, <1>7, <1>8

\* Without its first line a sequence is no larger.
LEMMA BytesTail ==
  ASSUME NEW s \in Lines, s # <<>>
  PROVE  Bytes(Tail(s)) <= Bytes(s)
<1>1. PICK t : t = Tail(s)
  OBVIOUS
<1>2. /\ t \in Lines /\ Len(s) \in Nat /\ Len(t) \in Nat /\ Len(s) = Len(t) + 1
      /\ \A i \in 1..Len(t) : t[i] = s[i + 1]
  BY <1>1 DEF Lines
<1>3. PICK f : Sums(s, f) /\ Bytes(s) = f[Len(s)]
  BY BytesSums
<1>4. PICK g : Sums(t, g) /\ Bytes(t) = g[Len(t)]
  BY <1>2, BytesSums
<1>5. f[Len(t) + 1] = g[Len(t)] + f[1]
  BY <1>2, <1>3, <1>4, SumsShift
<1>6. f \in [0..Len(s) -> Nat] /\ g \in [0..Len(t) -> Nat]
  BY <1>3, <1>4, Zenon DEF Sums
<1>7. 1 \in 0..Len(s) /\ Len(t) \in 0..Len(t)
  BY <1>2
<1>8. f[1] \in Nat /\ g[Len(t)] \in Nat
  BY <1>6, <1>7
<1> QED BY <1>1, <1>2, <1>3, <1>4, <1>5, <1>8


-----------------------------------------------------------------------------
(* The records read back from the file, and the newest of a sequence.      *)

ReadEquation(s, f) ==
  f = [i \in 0..Len(s) |->
         IF i = 0 THEN <<>> ELSE IF s[i] = 0 THEN f[i - 1] ELSE Append(f[i - 1], s[i])]

Reads(s, f) ==
  /\ DOMAIN f = 0..Len(s) /\ f[0] = <<>>
  /\ \A i \in 1..Len(s) : f[i] = IF s[i] = 0 THEN f[i - 1] ELSE Append(f[i - 1], s[i])

LEMMA ReadsExist ==
  ASSUME NEW m \in Nat, NEW s \in Seq(0..m)
  PROVE  \E f : f = [i \in 0..Len(s) |-> f[i]] /\ Reads(s, f)
<1>1. PICK n \in Nat : n = Len(s)
  OBVIOUS
<1>2. \A i \in 1..n : s[i] \in 0..m
  BY <1>1, ElementOfSeq, Zenon
<1>3. PICK G : G = [x \in Seq(1..m) \X (1..n) |->
                      IF s[x[2]] = 0 THEN x[1] ELSE Append(x[1], s[x[2]])]
  OBVIOUS
<1>4. \A a \in Seq(1..m), i \in 1..n : G[<<a, i>>] = IF s[i] = 0 THEN a ELSE Append(a, s[i])
  BY <1>3
<1>5. ASSUME NEW a \in Seq(1..m), NEW i \in 1..n
      PROVE  (IF s[i] = 0 THEN a ELSE Append(a, s[i])) \in Seq(1..m)
  <2>1. CASE s[i] = 0
    BY <2>1
  <2>2. CASE s[i] # 0
    <3>1. s[i] \in 1..m
      BY <1>2, <2>2
    <3>2. Append(a, s[i]) \in Seq(1..m)
      BY <3>1
    <3> QED BY <2>2, <3>2, Zenon
  <2> QED BY <2>1, <2>2
<1>6. G \in [Seq(1..m) \X (1..n) -> Seq(1..m)]
  BY <1>3, <1>5
<1>7. <<>> \in Seq(1..m)
  OBVIOUS
<1>8. PICK f \in [0..n -> Seq(1..m)] : Follows(f, <<>>, G, n)
  BY <1>6, <1>7, Recursion
<1>9. ASSUME NEW i \in 1..n
      PROVE  f[i] = IF s[i] = 0 THEN f[i - 1] ELSE Append(f[i - 1], s[i])
  <2>1. f[i - 1] \in Seq(1..m)
    OBVIOUS
  <2>2. f[i] = G[<<f[i - 1], i>>]
    BY <1>8 DEF Follows
  <2>3. PICK a \in Seq(1..m) : a = f[i - 1]
    BY <2>1
  <2>4. G[<<a, i>>] = IF s[i] = 0 THEN a ELSE Append(a, s[i])
    BY <1>4, Zenon
  <2> QED BY <2>2, <2>3, <2>4, Zenon
<1>10. f[0] = <<>> /\ DOMAIN f = 0..n /\ f = [i \in 0..n |-> f[i]]
  BY <1>8 DEF Follows
<1> QED BY <1>1, <1>9, <1>10, Zenon DEF Reads

\* Decoding yields records only, and no more than there are lines.
LEMMA DecodedType ==
  ASSUME NEW m \in Nat, NEW s \in Seq(0..m)
  PROVE  Decoded(s) \in Seq(1..m) /\ Len(Decoded(s)) <= Len(s)
<1>1. PICK g : g = [i \in 0..Len(s) |-> g[i]] /\ Reads(s, g)
  BY ReadsExist
<1>2. Len(s) \in Nat /\ \A i \in 1..Len(s) : s[i] \in 0..m
  BY ElementOfSeq
<1>3. ReadEquation(s, g)
  <2>1. \A i \in 0..Len(s) :
          g[i] = IF i = 0 THEN <<>> ELSE IF s[i] = 0 THEN g[i - 1] ELSE Append(g[i - 1], s[i])
    <3>1. g[0] = <<>>
      BY <1>1, Zenon DEF Reads
    <3>2. \A i \in 1..Len(s) : g[i] = IF s[i] = 0 THEN g[i - 1] ELSE Append(g[i - 1], s[i])
      BY <1>1, Zenon DEF Reads
    <3>3. \A i \in 0..Len(s) : i = 0 \/ (i # 0 /\ i \in 1..Len(s))
      BY <1>2
    <3> QED BY <3>1, <3>2, <3>3, Zenon
  <2> QED BY <1>1, <2>1 DEF ReadEquation
<1>4. PICK h : h = CHOOSE f : ReadEquation(s, f)
  OBVIOUS
<1>5. ReadEquation(s, h)
  BY <1>3, <1>4, Zenon
<1>6. Decoded(s) = h[Len(s)]
  BY <1>4, Zenon DEF Decoded, ReadEquation
<1>7. PICK V : V = [i \in 0..Len(s) |->
         IF i = 0 THEN <<>> ELSE IF s[i] = 0 THEN h[i - 1] ELSE Append(h[i - 1], s[i])]
  OBVIOUS
<1>8. h = V
  BY <1>5, <1>7, Zenon DEF ReadEquation
<1>9. /\ h[0] = <<>>
      /\ \A i \in 1..Len(s) : h[i] = IF s[i] = 0 THEN h[i - 1] ELSE Append(h[i - 1], s[i])
  <2>1. /\ V[0] = <<>>
        /\ \A i \in 1..Len(s) : V[i] = IF s[i] = 0 THEN h[i - 1] ELSE Append(h[i - 1], s[i])
    BY <1>2, <1>7
  <2> QED BY <1>8, <2>1
<1> DEFINE T == {i \in 0..Len(s) : h[i] \in Seq(1..m) /\ Len(h[i]) <= i}
<1>10. 0 \in T
  <2>1. h[0] \in Seq(1..m) /\ Len(h[0]) = 0
    BY <1>9, EmptySeq
  <2> QED BY <1>2, <2>1
<1>11. ASSUME NEW i \in 1..Len(s), i - 1 \in T
       PROVE  i \in T
  <2>1. PICK a \in Seq(1..m) : a = h[i - 1] /\ Len(a) <= i - 1
    BY <1>11
  <2>2. h[i] = IF s[i] = 0 THEN a ELSE Append(a, s[i])
    BY <1>9, <2>1, Zenon
  <2>3. CASE s[i] = 0
    <3>1. h[i] = a /\ Len(a) \in Nat
      BY <2>2, <2>3
    <3> QED BY <1>2, <2>1, <3>1
  <2>4. CASE s[i] # 0
    <3>1. s[i] \in 1..m
      BY <1>2, <2>4
    <3>2. Append(a, s[i]) \in Seq(1..m) /\ Len(Append(a, s[i])) = Len(a) + 1 /\ Len(a) \in Nat
      BY <3>1
    <3>3. h[i] = Append(a, s[i])
      BY <2>2, <2>4, Zenon
    <3>4. h[i] \in Seq(1..m) /\ Len(h[i]) <= i
      BY <2>1, <3>2, <3>3
    <3> QED BY <1>2, <3>4
  <2> QED BY <2>3, <2>4
<1>12. \A i \in 0..Len(s) : i \in T
  <2> HIDE DEF T
  <2> QED BY <1>2, <1>10, <1>11, UpTo
<1>13. Len(s) \in T
  <2> HIDE DEF T
  <2>1. Len(s) \in 0..Len(s)
    BY <1>2
  <2> QED BY <1>12, <2>1
<1> QED BY <1>6, <1>13

\* Tail_ keeps at most n elements.
LEMMA NewestType ==
  ASSUME NEW S, NEW s \in Seq(S), NEW n \in Nat
  PROVE  Tail_(s, n) \in Seq(S) /\ Len(Tail_(s, n)) <= n
<1>1. Len(s) \in Nat
  OBVIOUS
<1>2. CASE Len(s) > n
  <2>1. Tail_(s, n) = SubSeq(s, Len(s) - n + 1, Len(s)) /\ Len(s) - n + 1 \in 1..(Len(s) + 1)
    BY <1>1, <1>2 DEF Tail_
  <2> QED BY <1>1, <2>1, SubSeqProperties
<1>3. CASE ~(Len(s) > n)
  <2>1. Tail_(s, n) = SubSeq(s, 1, Len(s))
    BY <1>3 DEF Tail_
  <2> QED BY <1>1, <1>3, <2>1, SubSeqProperties
<1> QED BY <1>2, <1>3

\* What is left of s without its first k elements.
Without(t, s, k, S) ==
  t \in Seq(S) /\ Len(t) = Len(s) - k /\ \A i \in 1..(Len(s) - k) : t[i] = s[i + k]

LEMMA WithoutType ==
  ASSUME NEW S, NEW s \in Seq(S), NEW k \in 0..Len(s), NEW t, t = SubSeq(s, k + 1, Len(s))
  PROVE  Without(t, s, k, S)
<1>1. Len(s) \in Nat /\ k + 1 \in 1..(Len(s) + 1) /\ Len(s) \in k..Len(s)
  OBVIOUS
<1>2. t \in Seq(S)
  BY <1>1, SubSeqProperties
<1>3. Len(t) = Len(s) - k
  BY <1>1, SubSeqProperties
<1>4. \A i \in 1..(Len(s) - k) : t[i] = s[i + k]
  BY <1>1, SubSeqProperties
<1> QED BY <1>2, <1>3, <1>4 DEF Without


-----------------------------------------------------------------------------
(* Type correctness and the limits of memory and queue.                    *)

\* What the proofs add to TypeOK: a writer writes a record, and rewrites the file from a
\* snapshot that memory's limit bounded.
SlotOK(v) ==
  /\ v.pc \in {"write", "append"} => v.rec # 0
  /\ v.pc \in {"rewrite", "fill", "rename"} => Len(v.snap) <= TraceLimit

WriterInv == \A w \in Writers : SlotOK(writer[w])

IInv == TypeOK /\ WriterInv

\* A sequence over S is one over a larger set.
LEMMA SeqLarger ==
  ASSUME NEW S, NEW U, S \subseteq U, NEW s \in Seq(S)
  PROVE  s \in Seq(U)
<1>1. Len(s) \in Nat /\ s \in [1..Len(s) -> S]
  BY LenProperties
<1>2. s \in [1..Len(s) -> U]
  BY <1>1
<1> QED BY <1>1, <1>2, SeqDef

\* enqueue's loop ends, at the latest with an empty queue.
LEMMA DroppedFits ==
  ASSUME TypeOK, NEW r
  PROVE  /\ Dropped(r) \in 0..Len(queue)
         /\ Room(SubSeq(queue, Dropped(r) + 1, Len(queue)), r)
<1>1. Len(queue) \in Nat
  BY DEF TypeOK
<1> DEFINE T == {k \in 0..Len(queue) : Room(SubSeq(queue, k + 1, Len(queue)), r)}
<1>2. Len(queue) \in T
  <2>1. SubSeq(queue, Len(queue) + 1, Len(queue)) = <<>>
    BY <1>1, SubSeqEmpty
  <2> QED BY <1>1, <2>1 DEF Room
<1>3. T \subseteq Nat
  BY <1>1
<1>4. PICK x \in T : \A y \in T : x <= y
  <2> HIDE DEF T
  <2> QED BY <1>2, <1>3, Least
<1>5. ASSUME NEW j \in 0..(x - 1)
      PROVE  ~Room(SubSeq(queue, j + 1, Len(queue)), r)
  <2>1. j \in 0..Len(queue) /\ ~(x <= j)
    BY <1>1, <1>4
  <2> QED BY <1>4, <2>1
<1>6. \E k \in 0..Len(queue) :
        /\ Room(SubSeq(queue, k + 1, Len(queue)), r)
        /\ \A j \in 0..(k - 1) : ~Room(SubSeq(queue, j + 1, Len(queue)), r)
  BY <1>4, <1>5
<1> QED BY <1>6, Zenon DEF Dropped

\* The queue after enqueue keeps both limits.
LEMMA EnqueuedType ==
  ASSUME TypeOK, NEW r \in 1..recorded, NEW k, k = Dropped(r),
         NEW q, q = Append(SubSeq(queue, k + 1, Len(queue)), r)
  PROVE  /\ q \in Seq(1..recorded) /\ Len(q) <= QueueLimit
         /\ Len(q) > 1 => Bytes(q) <= QueueBytes
<1>1. queue \in Seq(1..recorded) /\ Len(queue) \in Nat /\ recorded \in 0..MaxRecords
  BY DEF TypeOK
<1>2. k \in 0..Len(queue) /\ Room(SubSeq(queue, k + 1, Len(queue)), r)
  BY DroppedFits, Zenon
<1>3. PICK s : s = SubSeq(queue, k + 1, Len(queue))
  OBVIOUS
<1>4. s \in Seq(1..recorded)
  BY <1>1, <1>2, <1>3, WithoutType DEF Without
<1>5. q = Append(s, r) /\ Room(s, r)
  BY <1>2, <1>3
<1>6. q \in Seq(1..recorded) /\ Len(q) = Len(s) + 1 /\ Len(s) \in Nat
  <2>1. Append(s, r) \in Seq(1..recorded) /\ Len(Append(s, r)) = Len(s) + 1
    BY <1>4, AppendProperties, Zenon
  <2>2. Len(s) \in Nat
    BY <1>4, LenProperties
  <2> QED BY <1>5, <2>1, <2>2, Zenon
<1>7. s = <<>> \/ (Len(s) < QueueLimit /\ Bytes(s) + Size[r] <= QueueBytes)
  BY <1>5 DEF Room
<1>8. CASE s = <<>>
  <2>1. Len(s) = 0
    BY <1>8
  <2> QED BY <1>6, <2>1, SizesAssumption
<1>9. CASE Len(s) < QueueLimit /\ Bytes(s) + Size[r] <= QueueBytes
  <2>1. 1..recorded \subseteq 0..MaxRecords /\ r \in 0..MaxRecords
    BY <1>1, SizesAssumption
  <2>2. s \in Lines
    BY <1>4, <2>1, SeqLarger DEF Lines
  <2>3. Bytes(s) \in Nat /\ Bytes(Append(s, r)) = Bytes(s) + Width(r)
    BY <2>1, <2>2, BytesAppend, BytesType
  <2>4. Width(r) = Size[r]
    BY <1>1 DEF Width
  <2>5. Bytes(q) <= QueueBytes
    BY <1>5, <1>9, <2>3, <2>4, Zenon
  <2>6. Len(q) <= QueueLimit
    BY <1>6, <1>9, SizesAssumption
  <2> QED BY <1>6, <2>5, <2>6
<1> QED BY <1>7, <1>8, <1>9

\* A writer that holds nothing.
LEMMA IdleType ==
  ASSUME NEW n \in Nat, NEW label \in Labels
  PROVE  /\ At(label) \in Slots(n) /\ At(label).pc = label /\ At(label).snap = <<>>
         /\ Ended \in Slots(n) /\ Ended.pc = "ended"
<1>1. <<>> \in Seq(1..n) /\ 0 \in 0..n
  OBVIOUS
<1>2. Ended \in Slots(n) /\ Ended.pc = "ended"
  BY <1>1 DEF Ended, Slots, Labels
<1>3. At(label) = [pc |-> label, rec |-> 0, snap |-> <<>>, on |-> "gone"]
  BY DEF At, Ended
<1> QED BY <1>1, <1>2, <1>3 DEF Slots

LEMMA WaitingType ==
  ASSUME NEW n \in Nat
  PROVE  Waiting \in Slots(n) /\ Waiting.pc = "wait" /\ Ended \in Slots(n) /\ Ended.pc = "ended"
BY IdleType DEF Waiting, Labels

LEMMA StartType ==
  /\ \A n \in Nat : StartOf \in [Writers -> Slots(n)]
  /\ \A w \in Writers : StartOf[w].pc \in {"ended", "wait"}
<1>1. Waiting.pc = "wait" /\ Ended.pc = "ended"
  <2>1. 0 \in Nat
    OBVIOUS
  <2> QED BY <2>1, WaitingType
<1>2. ASSUME NEW n \in Nat PROVE StartOf \in [Writers -> Slots(n)]
  BY WaitingType DEF StartOf
<1> QED BY <1>1, <1>2 DEF StartOf

LEMMA InitIInv == Init => IInv
<1> SUFFICES ASSUME Init PROVE IInv
  OBVIOUS
<1>1. StartOf \in [Writers -> Slots(recorded)]
  BY StartType DEF Init
<1>2. \A w \in Writers : StartOf[w].pc \in {"ended", "wait"}
  BY StartType
<1>3. TypeOK
  <2>1. recorded = 0 /\ recorded \in 0..MaxRecords
    BY SizesAssumption DEF Init
  <2>2. \A S : <<>> \in Seq(S) /\ Len(<<>>) = 0
    BY EmptySeq
  <2>3. hand \in [Producers -> 0..recorded]
    BY DEF Init
  <2>4. /\ trace \in Seq(1..recorded) /\ Len(trace) <= TraceLimit
        /\ queue \in Seq(1..recorded) /\ Len(queue) <= QueueLimit /\ ~(Len(queue) > 1)
        /\ file \in Seq(0..recorded) /\ tmp \in Seq(0..recorded)
    BY <2>2, SizesAssumption DEF Init
  <2>5. drop_count \in Nat /\ forgotten \in Nat /\ errors \in Nat /\ crashes \in Nat
    BY DEF Init
  <2>6. /\ alone \subseteq Producers /\ aged \subseteq 0..recorded /\ lost \subseteq 1..recorded
        /\ glued \subseteq 1..recorded
    BY DEF Init
  <2>7. /\ open \in BOOLEAN /\ ~open /\ thread \in BOOLEAN /\ flushing \in BOOLEAN
        /\ staged \in BOOLEAN /\ overlapped \in BOOLEAN
        /\ stop \in {"no", "join", "done"} /\ writer = StartOf
    BY Zenon DEF Init
  <2> QED BY <1>1, <2>1, <2>3, <2>4, <2>5, <2>6, <2>7, Zenon DEF TypeOK
<1>4. WriterInv
  BY <1>2 DEF Init, WriterInv, SlotOK
<1> QED BY <1>3, <1>4 DEF IInv


\* One writer changes, to a value of the right type.
LEMMA OneWriter ==
  ASSUME IInv, NEW w \in Writers, NEW v, v \in Slots(recorded), SlotOK(v),
         writer' = [writer EXCEPT ![w] = v]
  PROVE  /\ writer' \in [Writers -> Slots(recorded)] /\ WriterInv'
         /\ writer'[w] = v /\ \A x \in Writers \ {w} : writer'[x] = writer[x]
<1>1. writer \in [Writers -> Slots(recorded)] /\ \A x \in Writers : SlotOK(writer[x])
  BY DEF IInv, TypeOK, WriterInv
<1>2. writer'[w] = v /\ \A x \in Writers \ {w} : writer'[x] = writer[x]
  BY <1>1
<1>3. \A x \in Writers : SlotOK(writer'[x])
  BY <1>1, <1>2
<1>4. writer' \in [Writers -> Slots(recorded)]
  BY <1>1
<1> QED BY <1>2, <1>3, <1>4 DEF WriterInv, SlotOK

LEMMA IdleSlot ==
  ASSUME IInv
  PROVE  /\ Waiting \in Slots(recorded) /\ SlotOK(Waiting)
         /\ Ended \in Slots(recorded) /\ SlotOK(Ended)
         /\ \A label \in {"check", "snapshot"} : At(label) \in Slots(recorded) /\ SlotOK(At(label))
<1>1. recorded \in Nat
  BY SizesAssumption DEF IInv, TypeOK
<1>2. ASSUME NEW label \in {"check", "snapshot"}
      PROVE  At(label) \in Slots(recorded) /\ SlotOK(At(label))
  BY <1>1, IdleType DEF SlotOK, Labels
<1> QED BY <1>1, <1>2, WaitingType DEF SlotOK

\* start() launches a thread that has ended.
LEMMA LaunchedSlot ==
  ASSUME IInv, Idle # {}, writer' = Launched
  PROVE  /\ writer' \in [Writers -> Slots(recorded)] /\ WriterInv'
         /\ \E w \in Idle : writer' = [writer EXCEPT ![w] = Waiting]
<1>1. PICK w : w = CHOOSE x \in Idle : TRUE
  OBVIOUS
<1>2. w \in Idle
  BY <1>1, Zenon
<1>3. w \in Writers
  BY <1>2 DEF Idle
<1>4. writer' = [writer EXCEPT ![w] = Waiting]
  BY <1>1 DEF Launched
<1>5. writer' \in [Writers -> Slots(recorded)] /\ WriterInv'
  BY <1>3, <1>4, IdleSlot, OneWriter
<1> QED BY <1>2, <1>4, <1>5

\* _record_trace: what held for the records so far holds with one more.
LEMMA RecordIInv ==
  ASSUME IInv, NEW p \in Producers, Record(p)
  PROVE  IInv'
<1>1. /\ recorded \in 0..MaxRecords /\ recorded < MaxRecords /\ recorded' = recorded + 1
      /\ trace \in Seq(1..recorded) /\ queue \in Seq(1..recorded) /\ file \in Seq(0..recorded)
      /\ hand \in [Producers -> 0..recorded] /\ writer \in [Writers -> Slots(recorded)]
      /\ aged \subseteq 0..recorded /\ lost \subseteq 1..recorded /\ glued \subseteq 1..recorded
      /\ tmp \in Seq(0..recorded)
  BY DEF IInv, TypeOK, Record
<1>2. /\ recorded' \in 0..MaxRecords /\ recorded' \in 1..recorded'
      /\ 1..recorded \subseteq 1..recorded' /\ 0..recorded \subseteq 0..recorded'
  BY <1>1, SizesAssumption
<1>3. /\ trace \in Seq(1..recorded') /\ queue \in Seq(1..recorded') /\ file \in Seq(0..recorded')
      /\ tmp \in Seq(0..recorded')
  BY <1>1, <1>2, SeqLarger
<1>4. trace' \in Seq(1..recorded') /\ Len(trace') <= TraceLimit
  <2>1. Append(trace, recorded') \in Seq(1..recorded')
    BY <1>2, <1>3, AppendProperties, Zenon
  <2>2. TraceLimit \in Nat
    BY SizesAssumption
  <2>3. trace' = Tail_(Append(trace, recorded'), TraceLimit)
    BY DEF Record
  <2> QED BY <2>1, <2>2, <2>3, NewestType, Zenon
<1>5. hand' \in [Producers -> 0..recorded']
  BY <1>1, <1>2 DEF Record
<1>6. writer' \in [Writers -> Slots(recorded')]
  <2>1. Slots(recorded) \subseteq Slots(recorded')
    BY <1>1, <1>2, SeqLarger DEF Slots
  <2> QED BY <1>1, <2>1 DEF Record
<1>7. WriterInv'
  BY DEF IInv, WriterInv, SlotOK, Record
<1>8. aged' \subseteq 0..recorded' /\ lost' \subseteq 1..recorded' /\ glued' \subseteq 1..recorded'
  BY <1>1, <1>2 DEF Record
<1>9. TypeOK'
  BY <1>2, <1>3, <1>4, <1>5, <1>6, <1>8, Zenon DEF IInv, TypeOK, Record
<1> QED BY <1>7, <1>9 DEF IInv


LEMMA FindNoneIInv ==
  ASSUME IInv, NEW p \in Producers, FindNone(p)
  PROVE  IInv'
<1>1. alone' \subseteq Producers
  BY DEF IInv, TypeOK, FindNone
<1>2. TypeOK'
  BY <1>1, Zenon DEF IInv, TypeOK, FindNone
<1>3. WriterInv'
  BY DEF IInv, WriterInv, SlotOK, FindNone
<1> QED BY <1>2, <1>3 DEF IInv

\* enqueue keeps the queue's limits, and may launch a writer.
LEMMA EnqueueIInv ==
  ASSUME IInv, NEW p \in Producers, Enqueue(p)
  PROVE  IInv'
<1>1. hand \in [Producers -> 0..recorded] /\ hand[p] # 0 /\ alone \subseteq Producers
  BY DEF IInv, TypeOK, Enqueue
<1>2. PICK r \in 1..recorded : r = hand[p]
  BY <1>1, SizesAssumption DEF IInv, TypeOK
<1>3. PICK k : k = Dropped(r)
  OBVIOUS
<1>4. queue' = Append(SubSeq(queue, k + 1, Len(queue)), r) /\ drop_count' = drop_count + k
  BY <1>2, <1>3 DEF Enqueue
<1>5. TypeOK
  BY DEF IInv
<1>6. /\ queue' \in Seq(1..recorded) /\ Len(queue') <= QueueLimit
      /\ Len(queue') > 1 => Bytes(queue') <= QueueBytes
  BY <1>3, <1>4, <1>5, EnqueuedType
<1>7. k \in Nat
  <2>1. k \in 0..Len(queue)
    BY <1>3, <1>5, DroppedFits, Zenon
  <2> QED BY <1>5, <2>1 DEF TypeOK
<1>8. drop_count' \in Nat
  BY <1>4, <1>5, <1>7 DEF TypeOK
<1>9. hand' \in [Producers -> 0..recorded] /\ alone' \subseteq Producers
  <2>1. hand' = [hand EXCEPT ![p] = 0] /\ alone' = alone \ {p}
    BY DEF Enqueue
  <2>2. 0 \in 0..recorded
    BY <1>2, <1>5 DEF TypeOK
  <2> QED BY <1>1, <2>1, <2>2
<1>10. writer' \in [Writers -> Slots(recorded)] /\ WriterInv' /\ thread' \in BOOLEAN
  <2>1. CASE p \in alone
    <3>1. Idle # {} /\ writer' = Launched /\ thread' = TRUE
      BY <2>1 DEF Enqueue
    <3> QED BY <3>1, LaunchedSlot, Zenon
  <2>2. CASE p \notin alone
    <3>1. writer' = writer /\ thread' = thread
      BY <2>2 DEF Enqueue
    <3>2. WriterInv'
      BY <3>1 DEF IInv, WriterInv, SlotOK
    <3> QED BY <1>5, <3>1, <3>2, Zenon DEF TypeOK, Slots
  <2> QED BY <2>1, <2>2
<1>11. TypeOK'
  BY <1>5, <1>6, <1>8, <1>9, <1>10, Zenon DEF TypeOK, Enqueue, Slots
<1> QED BY <1>10, <1>11 DEF IInv

\* The writer with the head of the queue.
LEMMA PoppedSlot ==
  ASSUME TypeOK, queue # <<>>, NEW v, v = [At("write") EXCEPT !.rec = Head(queue)]
  PROVE  v \in Slots(recorded) /\ v.pc = "write" /\ v.rec = Head(queue)
<1>1. recorded \in Nat /\ queue \in Seq(1..recorded) /\ "write" \in Labels
  BY SizesAssumption DEF TypeOK, Labels
<1>2. Head(queue) \in 0..recorded
  BY <1>1, HeadTailProperties
<1>3. PICK u : u = At("write") /\ u \in Slots(recorded) /\ u.pc = "write"
  BY <1>1, IdleType
<1>4. v = [u EXCEPT !.rec = Head(queue)]
  BY <1>3
<1> QED BY <1>2, <1>3, <1>4 DEF Slots

\* The queue without its head is no larger.
LEMMA PopIInv ==
  ASSUME IInv, NEW w \in Writers, Pop(w)
  PROVE  IInv'
<1>1. TypeOK
  BY DEF IInv
<1>2. /\ recorded \in 0..MaxRecords /\ queue \in Seq(1..recorded) /\ queue # <<>>
      /\ queue' = Tail(queue) /\ Len(queue) <= QueueLimit
      /\ Len(queue) > 1 => Bytes(queue) <= QueueBytes
  BY <1>1 DEF TypeOK, Pop, Popped
<1>3. /\ Head(queue) \in 1..recorded /\ queue' \in Seq(1..recorded) /\ Len(queue) \in Nat
      /\ Len(queue') = Len(queue) - 1
  BY <1>2, HeadTailProperties
<1>4. queue \in Lines /\ queue' \in Lines
  <2>1. 1..recorded \subseteq 0..MaxRecords
    BY <1>2, SizesAssumption
  <2> QED BY <1>2, <1>3, <2>1, SeqLarger DEF Lines
<1>5. Bytes(queue') <= Bytes(queue) /\ Bytes(queue) \in Nat /\ Bytes(queue') \in Nat
  BY <1>2, <1>4, BytesTail, BytesType
<1>6. Len(queue') <= QueueLimit /\ (Len(queue') > 1 => Bytes(queue') <= QueueBytes)
  <2>1. PICK n, m, x, y : n = Len(queue) /\ m = Len(queue') /\ x = Bytes(queue) /\ y = Bytes(queue')
    OBVIOUS
  <2>2. n \in Nat /\ m = n - 1 /\ n <= QueueLimit
    BY <1>2, <1>3, <2>1, Zenon
  <2>3. x \in Nat /\ y \in Nat /\ y <= x /\ (n > 1 => x <= QueueBytes)
    BY <1>2, <1>5, <2>1, Zenon
  <2>4. QueueLimit \in Nat /\ QueueBytes \in Nat
    BY SizesAssumption
  <2>5. m <= QueueLimit /\ (m > 1 => y <= QueueBytes)
    BY <2>2, <2>3, <2>4
  <2> QED BY <2>1, <2>5, Zenon
<1>7. PICK v : v = [At("write") EXCEPT !.rec = Head(queue)]
  OBVIOUS
<1>8. v \in Slots(recorded) /\ v.pc = "write" /\ v.rec = Head(queue)
  BY <1>1, <1>2, <1>7, PoppedSlot, Zenon
<1>9. SlotOK(v)
  BY <1>2, <1>3, <1>8 DEF SlotOK
<1>10. writer' = [writer EXCEPT ![w] = v]
  BY <1>7 DEF Pop
<1>11. writer' \in [Writers -> Slots(recorded)] /\ WriterInv'
  BY <1>8, <1>9, <1>10, OneWriter
<1>12. TypeOK'
  BY <1>1, <1>3, <1>6, <1>11, Zenon DEF TypeOK, Pop, Slots
<1> QED BY <1>11, <1>12 DEF IInv

LEMMA EndIInv ==
  ASSUME IInv, NEW w \in Writers, End(w)
  PROVE  IInv'
<1>1. writer' = [writer EXCEPT ![w] = Ended]
  BY DEF End
<1>2. writer' \in [Writers -> Slots(recorded)] /\ WriterInv'
  BY <1>1, IdleSlot, OneWriter
<1>3. TypeOK'
  BY <1>2, Zenon DEF IInv, TypeOK, End
<1> QED BY <1>2, <1>3 DEF IInv

\* A writer that goes on with the record and the snapshot it has.
LEMMA GoesOn ==
  ASSUME IInv, NEW w \in Writers, OpenFile(w) \/ OpenTmp(w) \/ Fill(w)
  PROVE  /\ writer' \in [Writers -> Slots(recorded)] /\ WriterInv'
         /\ writer'[w].rec = writer[w].rec /\ writer'[w].snap = writer[w].snap
         /\ \A x \in Writers \ {w} : writer'[x] = writer[x]
         /\ OpenFile(w) => writer'[w].pc = "append" /\ writer'[w].on = "file"
         /\ OpenTmp(w) => writer'[w].pc = "fill" /\ writer'[w].on = "tmp"
         /\ Fill(w) => writer'[w].pc = "rename"
<1>1. PICK u : u = writer[w] /\ u \in Slots(recorded) /\ SlotOK(u)
  BY DEF IInv, TypeOK, WriterInv
<1>2. CASE OpenFile(w)
  <2>1. PICK v : v = [u EXCEPT !.pc = "append", !.on = "file"]
    OBVIOUS
  <2>2. writer' = [writer EXCEPT ![w] = v] /\ u.pc = "write"
    BY <1>1, <1>2, <2>1 DEF OpenFile
  <2>3. /\ v \in Slots(recorded) /\ v.pc = "append" /\ v.on = "file"
        /\ v.rec = u.rec /\ v.snap = u.snap
    BY <1>1, <2>1 DEF Slots, Labels
  <2>4. SlotOK(v)
    BY <1>1, <2>2, <2>3 DEF SlotOK
  <2>5. /\ writer' \in [Writers -> Slots(recorded)] /\ WriterInv'
        /\ writer'[w] = v /\ \A x \in Writers \ {w} : writer'[x] = writer[x]
    BY <2>2, <2>3, <2>4, OneWriter, Zenon
  <2>6. writer[w].pc = "write"
    BY <1>1, <2>2
  <2> QED BY <1>1, <2>3, <2>5, <2>6 DEF OpenFile, OpenTmp, Fill
<1>3. CASE OpenTmp(w)
  <2>1. PICK v : v = [u EXCEPT !.pc = "fill", !.on = "tmp"]
    OBVIOUS
  <2>2. writer' = [writer EXCEPT ![w] = v] /\ u.pc = "rewrite"
    BY <1>1, <1>3, <2>1 DEF OpenTmp
  <2>3. /\ v \in Slots(recorded) /\ v.pc = "fill" /\ v.on = "tmp"
        /\ v.rec = u.rec /\ v.snap = u.snap
    BY <1>1, <2>1 DEF Slots, Labels
  <2>4. SlotOK(v)
    BY <1>1, <2>2, <2>3 DEF SlotOK
  <2>5. /\ writer' \in [Writers -> Slots(recorded)] /\ WriterInv'
        /\ writer'[w] = v /\ \A x \in Writers \ {w} : writer'[x] = writer[x]
    BY <2>2, <2>3, <2>4, OneWriter, Zenon
  <2>6. writer[w].pc = "rewrite"
    BY <1>1, <2>2
  <2> QED BY <1>1, <2>3, <2>5, <2>6 DEF OpenFile, OpenTmp, Fill
<1>4. CASE Fill(w)
  <2>1. PICK v : v = [u EXCEPT !.pc = "rename", !.on = "gone"]
    OBVIOUS
  <2>2. writer' = [writer EXCEPT ![w] = v] /\ u.pc = "fill"
    BY <1>1, <1>4, <2>1 DEF Fill
  <2>3. /\ v \in Slots(recorded) /\ v.pc = "rename" /\ v.on = "gone"
        /\ v.rec = u.rec /\ v.snap = u.snap
    BY <1>1, <2>1 DEF Slots, Labels
  <2>4. SlotOK(v)
    BY <1>1, <2>2, <2>3 DEF SlotOK
  <2>5. /\ writer' \in [Writers -> Slots(recorded)] /\ WriterInv'
        /\ writer'[w] = v /\ \A x \in Writers \ {w} : writer'[x] = writer[x]
    BY <2>2, <2>3, <2>4, OneWriter, Zenon
  <2>6. writer[w].pc = "fill"
    BY <1>1, <2>2
  <2> QED BY <1>1, <2>3, <2>5, <2>6 DEF OpenFile, OpenTmp, Fill
<1> QED BY <1>2, <1>3, <1>4

LEMMA OpenFileIInv ==
  ASSUME IInv, NEW w \in Writers, OpenFile(w)
  PROVE  IInv'
<1>1. writer' \in [Writers -> Slots(recorded)] /\ WriterInv'
  BY GoesOn
<1>2. TypeOK'
  BY <1>1, Zenon DEF IInv, TypeOK, OpenFile
<1> QED BY <1>1, <1>2 DEF IInv

\* append_jsonl ends the line.
LEMMA AppendRecordIInv ==
  ASSUME IInv, NEW w \in Writers, AppendRecord(w)
  PROVE  IInv'
<1>1. writer' = [writer EXCEPT ![w] = At("check")]
  BY DEF AppendRecord
<1>2. writer' \in [Writers -> Slots(recorded)] /\ WriterInv'
  BY <1>1, IdleSlot, OneWriter
<1>3. writer[w] \in Slots(recorded) /\ writer[w].rec # 0 /\ recorded \in 0..MaxRecords
  BY DEF IInv, TypeOK, WriterInv, SlotOK, AppendRecord
<1>4. writer[w].rec \in 1..recorded /\ writer[w].rec \in 0..recorded
  BY <1>3, SizesAssumption DEF Slots
<1>5. file' \in Seq(0..recorded) /\ open' \in BOOLEAN /\ (open' => file' # <<>> /\ Last(file') = 0)
  <2>1. file \in Seq(0..recorded) /\ open \in BOOLEAN /\ (open => file # <<>> /\ Last(file) = 0)
    BY DEF IInv, TypeOK
  <2>2. Append(file, writer[w].rec) \in Seq(0..recorded)
    BY <1>4, <2>1, AppendProperties, Zenon
  <2>3. CASE UNCHANGED <<file, open>>
    BY <2>1, <2>3, Zenon
  <2>4. CASE file' = file /\ open' = FALSE
    BY <2>1, <2>4, Zenon
  <2>5. CASE file' = Append(file, writer[w].rec) /\ ~open /\ open' = open
    BY <2>1, <2>2, <2>5, Zenon
  <2> QED BY <2>3, <2>4, <2>5, Zenon DEF AppendRecord
<1>6. glued' \subseteq 1..recorded
  <2>1. glued \subseteq 1..recorded
    BY DEF IInv, TypeOK
  <2> QED BY <1>4, <2>1 DEF AppendRecord
<1>7. overlapped' \in BOOLEAN
  BY DEF IInv, TypeOK, AppendRecord, Meets
<1>8. TypeOK'
  BY <1>2, <1>5, <1>6, <1>7, Zenon DEF IInv, TypeOK, AppendRecord
<1> QED BY <1>2, <1>8 DEF IInv

LEMMA TornType ==
  ASSUME IInv
  PROVE  /\ Torn \in Seq(0..recorded) /\ Torn # <<>> /\ Last(Torn) = 0
         /\ ToSet(file) \subseteq ToSet(Torn) /\ ToSet(Torn) \subseteq ToSet(file) \cup {0}
<1>1. file \in Seq(0..recorded) /\ open \in BOOLEAN /\ (open => file # <<>> /\ Last(file) = 0)
  BY DEF IInv, TypeOK
<1>2. 0 \in 0..recorded
  BY SizesAssumption DEF IInv, TypeOK
<1>3. CASE open
  BY <1>1, <1>3 DEF Torn
<1>4. CASE ~open
  <2>1. PICK t : t = Append(file, 0)
    OBVIOUS
  <2>2. /\ t \in Seq(0..recorded) /\ Len(t) = Len(file) + 1 /\ t[Len(file) + 1] = 0
        /\ \A i \in 1..Len(file) : t[i] = file[i]
    BY <1>1, <1>2, <2>1, AppendProperties
  <2>3. Len(file) \in Nat /\ DOMAIN file = 1..Len(file) /\ DOMAIN t = 1..Len(t)
    BY <1>1, <2>2, LenProperties
  <2>4. t # <<>> /\ Last(t) = 0
    BY <2>2, <2>3 DEF Last
  <2>5. ToSet(file) \subseteq ToSet(t)
    BY <2>2, <2>3 DEF ToSet
  <2>7. ToSet(t) \subseteq ToSet(file) \cup {0}
    <3>1. ASSUME NEW i \in 1..Len(t) PROVE t[i] \in ToSet(file) \cup {0}
      <4>1. i = Len(file) + 1 \/ i \in 1..Len(file)
        BY <2>2, <2>3
      <4> QED BY <2>2, <2>3, <4>1 DEF ToSet
    <3> QED BY <2>3, <3>1 DEF ToSet
  <2>6. Torn = t
    BY <1>4, <2>1 DEF Torn
  <2> QED BY <2>2, <2>4, <2>5, <2>6, <2>7
<1> QED BY <1>1, <1>3, <1>4


\* OSError in append_jsonl leaves the file alone or with a torn last line.
LEMMA AppendFailsIInv ==
  ASSUME IInv, NEW w \in Writers, AppendFails(w)
  PROVE  IInv'
<1>1. writer' = [writer EXCEPT ![w] = Waiting]
  BY DEF AppendFails, AfterError
<1>2. writer' \in [Writers -> Slots(recorded)] /\ WriterInv'
  BY <1>1, IdleSlot, OneWriter
<1>3. errors' \in Nat
  BY DEF IInv, TypeOK, AppendFails
<1>4. file' \in Seq(0..recorded) /\ open' \in BOOLEAN /\ (open' => file' # <<>> /\ Last(file') = 0)
  <2>1. CASE UNCHANGED <<file, open>>
    BY <2>1, Zenon DEF IInv, TypeOK
  <2>2. CASE file' = Torn /\ open' = TRUE
    BY <2>2, TornType, Zenon
  <2> QED BY <2>1, <2>2, Zenon DEF AppendFails, Tear
<1>5. TypeOK'
  BY <1>2, <1>3, <1>4, Zenon DEF IInv, TypeOK, AppendFails
<1> QED BY <1>2, <1>5 DEF IInv

LEMMA CheckSizeIInv ==
  ASSUME IInv, NEW w \in Writers, CheckSize(w)
  PROVE  IInv'
<1>1. PICK v : v = IF TooLarge(file) THEN At("snapshot") ELSE Waiting
  OBVIOUS
<1>2. writer' = [writer EXCEPT ![w] = v]
  BY <1>1 DEF CheckSize
<1>3. v \in Slots(recorded) /\ SlotOK(v)
  BY <1>1, IdleSlot
<1>4. writer' \in [Writers -> Slots(recorded)] /\ WriterInv'
  BY <1>2, <1>3, OneWriter
<1>5. TypeOK'
  BY <1>4, Zenon DEF IInv, TypeOK, CheckSize
<1> QED BY <1>4, <1>5 DEF IInv

\* The snapshot is memory, within its limit.
LEMMA SnapshotSlot ==
  ASSUME IInv, NEW v, v = [At("rewrite") EXCEPT !.snap = trace]
  PROVE  v \in Slots(recorded) /\ SlotOK(v) /\ v.pc = "rewrite" /\ v.snap = trace
<1>1. /\ recorded \in Nat /\ trace \in Seq(1..recorded) /\ Len(trace) <= TraceLimit
      /\ "rewrite" \in Labels
  BY SizesAssumption DEF IInv, TypeOK, Labels
<1>2. PICK u : u = At("rewrite") /\ u \in Slots(recorded) /\ u.pc = "rewrite"
  BY <1>1, IdleType
<1>3. v = [u EXCEPT !.snap = trace]
  BY <1>2
<1>4. v \in Slots(recorded) /\ v.pc = "rewrite" /\ v.snap = trace
  BY <1>1, <1>2, <1>3 DEF Slots
<1> QED BY <1>1, <1>4 DEF SlotOK

LEMMA TraceSnapshotIInv ==
  ASSUME IInv, NEW w \in Writers, TraceSnapshot(w)
  PROVE  IInv'
<1>1. PICK v : v = [At("rewrite") EXCEPT !.snap = trace]
  OBVIOUS
<1>2. writer' = [writer EXCEPT ![w] = v]
  BY <1>1 DEF TraceSnapshot
<1>3. writer' \in [Writers -> Slots(recorded)] /\ WriterInv'
  BY <1>1, <1>2, SnapshotSlot, OneWriter
<1>4. overlapped' \in BOOLEAN
  BY DEF IInv, TypeOK, TraceSnapshot, Meets
<1>5. TypeOK'
  BY <1>3, <1>4, Zenon DEF IInv, TypeOK, TraceSnapshot
<1> QED BY <1>3, <1>5 DEF IInv

LEMMA OpenTmpIInv ==
  ASSUME IInv, NEW w \in Writers, OpenTmp(w)
  PROVE  IInv'
<1>1. writer' \in [Writers -> Slots(recorded)] /\ WriterInv'
  BY GoesOn
<1>2. tmp' \in Seq(0..recorded) /\ staged' \in BOOLEAN
  BY EmptySeq DEF OpenTmp
<1>3. TypeOK'
  BY <1>1, <1>2, Zenon DEF IInv, TypeOK, OpenTmp
<1> QED BY <1>1, <1>3 DEF IInv

\* The elements of a sequence are those of its set.
LEMMA ToSetType ==
  ASSUME NEW S, NEW s \in Seq(S)
  PROVE  ToSet(s) \subseteq S
<1>1. DOMAIN s = 1..Len(s) /\ \A i \in 1..Len(s) : s[i] \in S
  BY LenProperties
<1> QED BY <1>1 DEF ToSet

\* What is written over a file is lines again, and the last one lacks its newline only if it
\* did before.
LEMMA OverlayType ==
  ASSUME NEW n \in 0..MaxRecords, NEW s \in Seq(0..n), NEW f \in Seq(0..n), NEW t, t = Overlay(s, f)
  PROVE  /\ t \in Seq(0..n)
         /\ f = <<>> => t = s
         /\ f # <<>> /\ Last(f) = 0 /\ Bytes(s) < Bytes(f) => t # <<>> /\ Last(t) = 0
<1> DEFINE left == {i \in DOMAIN f : Bytes(SubSeq(f, 1, i)) > Bytes(s)}
           k == CHOOSE i \in left : \A j \in left : i <= j
           cut == IF Bytes(SubSeq(f, 1, k - 1)) = Bytes(s) THEN f[k] ELSE 0
<1>1. t = IF left = {} THEN s ELSE Append(s, cut) \o SubSeq(f, k + 1, Len(f))
  BY DEF Overlay
<1>2. /\ Len(f) \in Nat /\ DOMAIN f = 1..Len(f) /\ 0 \in 0..n /\ Len(s) \in Nat
      /\ \A i \in 1..Len(f) : f[i] \in 0..n
  BY LenProperties, SizesAssumption
<1>3. CASE left = {}
  <2>1. t = s
    BY <1>1, <1>3, Zenon
  <2>2. ASSUME f # <<>>, Bytes(s) < Bytes(f) PROVE FALSE
    <3>1. Len(f) \in DOMAIN f
      BY <1>2, <2>2
    <3>2. SubSeq(f, 1, Len(f)) = f
      BY SubSeqFull, Zenon
    <3>3. ~(Bytes(f) > Bytes(s))
      BY <1>3, <3>1, <3>2, Zenon
    <3>4. s \in Lines /\ f \in Lines
      <4>1. 0..n \subseteq 0..MaxRecords
        BY SizesAssumption
      <4> QED BY <4>1, SeqLarger DEF Lines
    <3>5. Bytes(s) \in Nat /\ Bytes(f) \in Nat
      BY <3>4, BytesType
    <3> QED BY <2>2, <3>3, <3>5
  <2> QED BY <2>1, <2>2
<1>4. CASE left # {}
  <2>1. left \subseteq Nat
    BY <1>2
  <2>2. \E i \in left : \A j \in left : i <= j
    <3> HIDE DEF left
    <3> QED BY <1>4, <2>1, Least, Zenon
  <2>3. k \in left
    <3> HIDE DEF left
    <3> QED BY <2>2, Zenon
  <2>4. PICK m : m = k /\ m \in 1..Len(f)
    BY <1>2, <2>3
  <2>5. PICK c : c = cut /\ (c = f[m] \/ c = 0)
    <3> HIDE DEF left, k
    <3>1. cut = f[k] \/ cut = 0
      BY Zenon
    <3> QED BY <2>4, <3>1, Zenon
  <2>6. PICK a : a = Append(s, c)
    OBVIOUS
  <2>7. PICK b : b = SubSeq(f, m + 1, Len(f))
    OBVIOUS
  <2>8. t = a \o b
    BY <1>1, <1>4, <2>4, <2>5, <2>6, <2>7, Zenon
  <2> HIDE DEF left, k, cut
  <2>9. c \in 0..n
    BY <1>2, <2>4, <2>5
  <2>10. a \in Seq(0..n) /\ Len(a) = Len(s) + 1 /\ a[Len(s) + 1] = c
    BY <2>6, <2>9, AppendProperties
  <2>11. /\ b \in Seq(0..n) /\ Len(b) = Len(f) - m
         /\ \A i \in 1..(Len(f) - m) : b[i] = f[m + i]
    <3>1. m \in 0..Len(f)
      BY <1>2, <2>4
    <3>2. Without(b, f, m, 0..n)
      BY <2>7, <3>1, WithoutType
    <3> QED BY <1>2, <2>4, <3>2 DEF Without
  <2>12. /\ t \in Seq(0..n) /\ Len(t) = Len(a) + Len(b)
         /\ \A i \in 1..(Len(a) + Len(b)) : t[i] = IF i <= Len(a) THEN a[i] ELSE b[i - Len(a)]
    <3>1. /\ a \o b \in Seq(0..n) /\ Len(a \o b) = Len(a) + Len(b)
          /\ \A i \in 1..(Len(a) + Len(b)) : (a \o b)[i] = IF i <= Len(a) THEN a[i] ELSE b[i - Len(a)]
      <4>1. a \in Seq(0..n) /\ b \in Seq(0..n)
        BY <2>10, <2>11, Zenon
      <4> QED BY <4>1, ConcatProperties, Zenon
    <3> QED BY <2>8, <3>1, Zenon
  <2>13. f # <<>>
    BY <1>2, <2>4
  <2>14. ASSUME Last(f) = 0 PROVE t # <<>> /\ Last(t) = 0
    <3>1. f[Len(f)] = 0
      BY <2>14 DEF Last
    <3>2. CASE m = Len(f)
      <4>1. Len(b) = 0 /\ c = 0 /\ Len(t) = Len(a)
        BY <1>2, <2>5, <2>10, <2>11, <2>12, <3>1, <3>2
      <4>2. t[Len(t)] = 0 /\ Len(t) > 0
        BY <1>2, <2>10, <2>12, <4>1
      <4> QED BY <2>12, <4>2 DEF Last
    <3>3. CASE m # Len(f)
      <4>1. PICK j : j = Len(b) /\ j \in 1..(Len(f) - m) /\ m + j = Len(f)
        <5>1. PICK lf, lb : lf = Len(f) /\ lb = Len(b) /\ lf \in Nat /\ lb = lf - m /\ m \in 1..lf /\ m # lf
          BY <1>2, <2>4, <2>11, <3>3, Zenon
        <5>2. lb \in 1..(lf - m) /\ m + lb = lf
          BY <5>1
        <5> QED BY <5>1, <5>2, Zenon
      <4>2. b[j] = 0
        BY <2>11, <3>1, <4>1
      <4>3. PICK l \in Nat : l = Len(a)
        BY <1>2, <2>10
      <4>4. l + j \in 1..(Len(a) + Len(b)) /\ ~(l + j <= Len(a)) /\ (l + j) - Len(a) = j
        BY <4>1, <4>3
      <4>5. t[l + j] = 0 /\ Len(t) = l + j
        BY <2>12, <4>1, <4>2, <4>3, <4>4
      <4>6. t[Len(t)] = 0 /\ Len(t) > 0
        BY <4>1, <4>5
      <4> QED BY <2>12, <4>6 DEF Last
    <3> QED BY <3>2, <3>3
  <2> QED BY <2>12, <2>13, <2>14
<1> QED BY <1>3, <1>4

\* Lines put into what a writer has open.
LEMMA PutType ==
  ASSUME IInv, NEW w \in Writers, NEW s \in Seq(1..recorded), Put(w, s)
  PROVE  /\ file' \in Seq(0..recorded) /\ open' \in BOOLEAN /\ tmp' \in Seq(0..recorded)
         /\ open' => file' # <<>> /\ Last(file') = 0
         /\ open' => open
<1>1. /\ file \in Seq(0..recorded) /\ open \in BOOLEAN /\ tmp \in Seq(0..recorded)
      /\ open => file # <<>> /\ Last(file) = 0
      /\ recorded \in 0..MaxRecords
  BY DEF IInv, TypeOK
<1>2. s \in Seq(0..recorded)
  <2>1. 1..recorded \subseteq 0..recorded
    BY <1>1, SizesAssumption
  <2> QED BY <2>1, SeqLarger
<1>3. CASE writer[w].on = "tmp" /\ tmp' = Overlay(s, tmp) /\ UNCHANGED <<file, open>>
  BY <1>1, <1>2, <1>3, OverlayType
<1>4. CASE file' = Overlay(s, file) /\ UNCHANGED tmp /\ open' = (open /\ Bytes(s) < Bytes(file))
  <2>1. /\ file' \in Seq(0..recorded)
        /\ file # <<>> /\ Last(file) = 0 /\ Bytes(s) < Bytes(file) => file' # <<>> /\ Last(file') = 0
    BY <1>1, <1>2, <1>4, OverlayType
  <2> QED BY <1>1, <1>4, <2>1
<1>5. CASE UNCHANGED <<file, open, tmp>>
  BY <1>1, <1>5
<1> QED BY <1>3, <1>4, <1>5 DEF Put

LEMMA FillIInv ==
  ASSUME IInv, NEW w \in Writers, Fill(w)
  PROVE  IInv'
<1>1. writer' \in [Writers -> Slots(recorded)] /\ WriterInv'
  BY GoesOn
<1>2. writer[w].snap \in Seq(1..recorded)
  BY DEF IInv, TypeOK, Slots
<1>3. /\ file' \in Seq(0..recorded) /\ open' \in BOOLEAN /\ tmp' \in Seq(0..recorded)
      /\ open' => file' # <<>> /\ Last(file') = 0
  BY <1>2, PutType, Zenon DEF Fill
<1>4. TypeOK'
  BY <1>1, <1>3, Zenon DEF IInv, TypeOK, Fill
<1> QED BY <1>1, <1>4 DEF IInv

\* A rename changes what the others have open, and nothing else of theirs.
LEMMA RenamedSlots ==
  ASSUME IInv, NEW w \in Writers, Rename(w)
  PROVE  /\ writer' \in [Writers -> Slots(recorded)] /\ WriterInv' /\ writer'[w] = Waiting
         /\ \A x \in Writers \ {w} :
              /\ writer'[x].pc = writer[x].pc /\ writer'[x].rec = writer[x].rec
              /\ writer'[x].snap = writer[x].snap
<1>1. writer' = [v \in Writers |-> IF v = w THEN Waiting ELSE Renamed(writer[v])]
  BY DEF Rename
<1>2. Waiting \in Slots(recorded) /\ SlotOK(Waiting)
  BY IdleSlot
<1>3. ASSUME NEW x \in Writers
      PROVE  /\ Renamed(writer[x]) \in Slots(recorded) /\ SlotOK(Renamed(writer[x]))
             /\ Renamed(writer[x]).pc = writer[x].pc /\ Renamed(writer[x]).rec = writer[x].rec
             /\ Renamed(writer[x]).snap = writer[x].snap
  <2>1. PICK u, o : u = writer[x] /\ o = IF u.on = "tmp" THEN "file" ELSE "gone"
    OBVIOUS
  <2>2. u \in Slots(recorded) /\ SlotOK(u) /\ o \in {"file", "tmp", "gone"}
    BY <2>1 DEF IInv, TypeOK, WriterInv
  <2>3. PICK v : v = [u EXCEPT !.on = o]
    OBVIOUS
  <2>4. Renamed(writer[x]) = v
    BY <2>1, <2>3, Zenon DEF Renamed
  <2>5. v \in Slots(recorded) /\ v.pc = u.pc /\ v.rec = u.rec /\ v.snap = u.snap
    BY <2>2, <2>3 DEF Slots
  <2>6. SlotOK(v)
    BY <2>2, <2>5 DEF SlotOK
  <2> QED BY <2>1, <2>4, <2>5, <2>6
<1>4. \A x \in Writers : writer'[x] \in Slots(recorded) /\ SlotOK(writer'[x])
  BY <1>1, <1>2, <1>3
<1>5. writer' \in [Writers -> Slots(recorded)]
  BY <1>1, <1>2, <1>3
<1> QED BY <1>1, <1>3, <1>4, <1>5 DEF WriterInv, SlotOK

LEMMA RenameIInv ==
  ASSUME IInv, NEW w \in Writers, Rename(w)
  PROVE  IInv'
<1>1. writer' \in [Writers -> Slots(recorded)] /\ WriterInv'
  BY RenamedSlots
<1>2. file' \in Seq(0..recorded) /\ open' = FALSE /\ tmp' \in Seq(0..recorded) /\ staged' = FALSE
  BY EmptySeq DEF IInv, TypeOK, Rename
<1>3. aged' \subseteq 0..recorded
  <2>1. ToSet(file) \subseteq 0..recorded /\ aged \subseteq 0..recorded
    BY ToSetType DEF IInv, TypeOK
  <2> QED BY <2>1 DEF Rename
<1>4. overlapped' \in BOOLEAN
  BY DEF IInv, TypeOK, Rename
<1>5. TypeOK'
  BY <1>1, <1>2, <1>3, <1>4, Zenon DEF IInv, TypeOK, Rename
<1> QED BY <1>1, <1>5 DEF IInv

LEMMA RewriteFailsIInv ==
  ASSUME IInv, NEW w \in Writers, RewriteFails(w)
  PROVE  IInv'
<1>1. writer' = [writer EXCEPT ![w] = Waiting]
  BY DEF RewriteFails, AfterError
<1>2. writer' \in [Writers -> Slots(recorded)] /\ WriterInv'
  BY <1>1, IdleSlot, OneWriter
<1>3. errors' \in Nat
  BY DEF IInv, TypeOK, RewriteFails
<1>4. /\ file' \in Seq(0..recorded) /\ open' \in BOOLEAN /\ tmp' \in Seq(0..recorded)
      /\ open' => file' # <<>> /\ Last(file') = 0
  <2>1. CASE UNCHANGED <<file, open, tmp>>
    BY <2>1, Zenon DEF IInv, TypeOK
  <2>2. ASSUME NEW n \in 1..Len(writer[w].snap), Put(w, SubSeq(writer[w].snap, 1, n))
        PROVE  /\ file' \in Seq(0..recorded) /\ open' \in BOOLEAN /\ tmp' \in Seq(0..recorded)
               /\ open' => file' # <<>> /\ Last(file') = 0
    <3>1. PICK s : s = writer[w].snap /\ s \in Seq(1..recorded)
      BY DEF IInv, TypeOK, Slots
    <3>2. \A i \in 1..n : s[i] \in 1..recorded
      <4>1. Len(s) \in Nat /\ \A i \in 1..Len(s) : s[i] \in 1..recorded
        BY <3>1, LenProperties
      <4> QED BY <2>2, <3>1, <4>1
    <3>3. SubSeq(s, 1, n) \in Seq(1..recorded)
      BY <3>1, <3>2, SubSeqProperties
    <3> QED BY <2>2, <3>1, <3>3, PutType
  <2> QED BY <2>1, <2>2 DEF RewriteFails
<1>5. TypeOK'
  BY <1>2, <1>3, <1>4, Zenon DEF IInv, TypeOK, RewriteFails
<1> QED BY <1>2, <1>5 DEF IInv

LEMMA FlushIInv ==
  ASSUME IInv, Flush
  PROVE  IInv'
<1>1. writer' \in [Writers -> Slots(recorded)] /\ WriterInv' /\ thread' \in BOOLEAN
  <2>1. CASE thread
    <3>1. writer' = writer /\ thread' = thread
      BY <2>1 DEF Flush
    <3>2. WriterInv'
      BY <3>1 DEF IInv, WriterInv, SlotOK
    <3> QED BY <3>1, <3>2, Zenon DEF IInv, TypeOK, Slots
  <2>2. CASE ~thread
    <3>1. Idle # {} /\ writer' = Launched /\ thread' = TRUE
      BY <2>2 DEF Flush
    <3> QED BY <3>1, LaunchedSlot, Zenon
  <2> QED BY <2>1, <2>2
<1>2. TypeOK'
  BY <1>1, Zenon DEF IInv, TypeOK, Flush
<1> QED BY <1>1, <1>2 DEF IInv

LEMMA FlushReturnIInv ==
  ASSUME IInv, FlushReturn
  PROVE  IInv'
BY Zenon DEF IInv, TypeOK, WriterInv, SlotOK, FlushReturn

LEMMA StopIInv ==
  ASSUME IInv, Stop
  PROVE  IInv'
BY Zenon DEF IInv, TypeOK, WriterInv, SlotOK, Stop

LEMMA JoinedIInv ==
  ASSUME IInv, Joined
  PROVE  IInv'
BY Zenon DEF IInv, TypeOK, WriterInv, SlotOK, Joined

LEMMA ResetCountersIInv ==
  ASSUME IInv, ResetCounters
  PROVE  IInv'
<1>1. drop_count' \in Nat /\ forgotten' \in Nat
  BY DEF IInv, TypeOK, ResetCounters
<1>2. TypeOK' /\ WriterInv'
  BY <1>1, Zenon DEF IInv, TypeOK, WriterInv, SlotOK, ResetCounters
<1> QED BY <1>2 DEF IInv


LEMMA UnwrittenType ==
  ASSUME IInv
  PROVE  Unwritten \subseteq 1..recorded
<1>1. /\ recorded \in 0..MaxRecords /\ hand \in [Producers -> 0..recorded]
      /\ writer \in [Writers -> Slots(recorded)] /\ queue \in Seq(1..recorded)
  BY DEF IInv, TypeOK, Slots
<1>2. ToSet(queue) \subseteq 1..recorded
  BY <1>1, ToSetType
<1>3. {hand[p] : p \in Producers} \subseteq 0..recorded
  BY <1>1
<1>4. {writer[w].rec : w \in {v \in Writers : writer[v].pc \in {"write", "append"}}} \subseteq 0..recorded
  BY <1>1 DEF Slots
<1>5. PICK A, B, C : /\ A = ToSet(queue) /\ B = {hand[p] : p \in Producers}
                      /\ C = {writer[w].rec : w \in {v \in Writers : writer[v].pc \in {"write", "append"}}}
  OBVIOUS
<1>6. Unwritten = (A \cup B \cup C) \ {0}
  BY <1>5, Zenon DEF Unwritten
<1>7. A \subseteq 1..recorded /\ B \subseteq 0..recorded /\ C \subseteq 0..recorded
  BY <1>2, <1>3, <1>4, <1>5, Zenon
<1>8. ASSUME NEW r \in Unwritten
      PROVE  r \in 1..recorded
  <2>1. r # 0 /\ (r \in 1..recorded \/ r \in 0..recorded)
    BY <1>6, <1>7
  <2> QED BY <1>1, <2>1
<1> QED BY <1>8

\* The restart reads back at most as many records as memory holds.
LEMMA CrashIInv ==
  ASSUME IInv, Crash
  PROVE  IInv'
<1>1. recorded \in 0..MaxRecords /\ recorded \in Nat /\ recorded' = recorded
  BY SizesAssumption DEF IInv, TypeOK, Crash
<1>2. file' \in Seq(0..recorded) /\ open' \in BOOLEAN /\ (open' => file' # <<>> /\ Last(file') = 0)
  <2>1. CASE UNCHANGED <<file, open>>
    BY <2>1, Zenon DEF IInv, TypeOK
  <2>2. CASE file' = Torn /\ open' = TRUE
    BY <2>2, TornType, Zenon
  <2> QED BY <2>1, <2>2, Zenon DEF Crash, Tear
<1>3. trace' \in Seq(1..recorded) /\ Len(trace') <= TraceLimit
  <2>1. PICK s : s = Tail_(file', TraceLimit)
    OBVIOUS
  <2>2. s \in Seq(0..recorded) /\ Len(s) <= TraceLimit
    BY <1>2, <2>1, NewestType, SizesAssumption
  <2>3. trace' = Decoded(s)
    BY <2>1 DEF Crash
  <2>4. Decoded(s) \in Seq(1..recorded) /\ Len(Decoded(s)) <= Len(s)
    BY <1>1, <2>2, DecodedType
  <2>5. Len(s) \in Nat /\ Len(Decoded(s)) \in Nat
    BY <2>2, <2>4, LenProperties
  <2> QED BY <2>2, <2>3, <2>4, <2>5, SizesAssumption
<1>4. queue' \in Seq(1..recorded) /\ Len(queue') <= QueueLimit /\ ~(Len(queue') > 1)
  <2>1. queue' = <<>>
    BY DEF Crash
  <2> QED BY <2>1, SizesAssumption
<1>5. hand' \in [Producers -> 0..recorded] /\ alone' \subseteq Producers
  BY <1>1 DEF Crash
<1>6. lost' \subseteq 1..recorded
  <2>1. lost \subseteq 1..recorded
    BY DEF IInv, TypeOK
  <2> QED BY <2>1, UnwrittenType DEF Crash
<1>7. forgotten' \in Nat /\ drop_count' \in Nat /\ crashes' \in Nat
  BY DEF IInv, TypeOK, Crash
<1>8. writer' = StartOf /\ thread' = TRUE /\ stop' = "no" /\ flushing' = FALSE
  BY DEF Crash
<1>9. writer' \in [Writers -> Slots(recorded)] /\ WriterInv'
  <2>1. StartOf \in [Writers -> Slots(recorded)]
    BY <1>1, StartType DEF Slots
  <2>2. \A w \in Writers : writer'[w].pc \in {"ended", "wait"}
    BY <1>8, StartType
  <2> QED BY <1>8, <2>1, <2>2 DEF WriterInv, SlotOK
<1>10. TypeOK'
  BY <1>1, <1>2, <1>3, <1>4, <1>5, <1>6, <1>7, <1>8, <1>9, Zenon DEF IInv, TypeOK, Crash, Slots
<1> QED BY <1>9, <1>10 DEF IInv

LEMMA NextIInv == IInv /\ [Next]_vars => IInv'
<1> SUFFICES ASSUME IInv, [Next]_vars PROVE IInv'
  OBVIOUS
<1>1. ASSUME NEW p \in Producers, Record(p) \/ FindNone(p) \/ Enqueue(p)
      PROVE  IInv'
  BY <1>1, RecordIInv, FindNoneIInv, EnqueueIInv, Zenon
<1>2. ASSUME NEW w \in Writers, WriterStep(w)
      PROVE  IInv'
  BY <1>2, PopIInv, EndIInv, OpenFileIInv, AppendRecordIInv, AppendFailsIInv, CheckSizeIInv,
     TraceSnapshotIInv, OpenTmpIInv, FillIInv, RenameIInv, RewriteFailsIInv, Zenon DEF WriterStep
<1>3. CASE Flush \/ FlushReturn \/ Stop \/ Joined \/ ResetCounters \/ Crash
  BY <1>3, FlushIInv, FlushReturnIInv, StopIInv, JoinedIInv, ResetCountersIInv, CrashIInv, Zenon
<1>4. CASE UNCHANGED vars
  BY <1>4, Zenon DEF vars, IInv, TypeOK, WriterInv, SlotOK
<1> QED BY <1>1, <1>2, <1>3, <1>4, Zenon DEF Next

\* The types, the limits of memory (trace_limit) and of the queue (records and bytes), and
\* a file whose lines are whole but for the last, in every reachable state.
THEOREM TypeSafe == Spec => []TypeOK
<1>1. Spec => []IInv
  BY InitIInv, NextIInv, PTL DEF Spec
<1>2. IInv => TypeOK
  BY DEF IInv
<1> QED BY <1>1, <1>2, PTL


-----------------------------------------------------------------------------
(* What a writer's steps do to the writers.                                *)

OthersStay(w) == \A x \in Writers \ {w} : writer'[x] = writer[x]

LEMMA Moved ==
  ASSUME IInv, NEW w \in Writers, NEW v, writer' = [writer EXCEPT ![w] = v]
  PROVE  OthersStay(w) /\ writer'[w] = v
<1>1. writer \in [Writers -> Slots(recorded)]
  BY DEF IInv, TypeOK
<1> QED BY <1>1 DEF OthersStay

LEMMA PopMoves ==
  ASSUME IInv, NEW w \in Writers, Pop(w)
  PROVE  OthersStay(w) /\ writer'[w].pc = "write" /\ writer'[w].rec = Head(queue)
<1>1. PICK v : v = [At("write") EXCEPT !.rec = Head(queue)]
  OBVIOUS
<1>2. TypeOK /\ queue # <<>> /\ writer' = [writer EXCEPT ![w] = v]
  BY <1>1 DEF Pop, IInv
<1>3. v.pc = "write" /\ v.rec = Head(queue)
  BY <1>1, <1>2, PoppedSlot, Zenon
<1> QED BY <1>2, <1>3, Moved

LEMMA IdlePc == Waiting.pc = "wait" /\ Ended.pc = "ended" /\ \A label \in Labels : At(label).pc = label
<1>1. 0 \in Nat
  OBVIOUS
<1>2. ASSUME NEW label \in Labels PROVE At(label).pc = label
  BY <1>1, IdleType, Zenon
<1> QED BY <1>1, <1>2, WaitingType

LEMMA EndMoves ==
  ASSUME IInv, NEW w \in Writers, End(w)
  PROVE  OthersStay(w) /\ writer'[w].pc = "ended"
<1>1. writer' = [writer EXCEPT ![w] = Ended]
  BY DEF End
<1> QED BY <1>1, Moved, IdlePc

LEMMA AppendMoves ==
  ASSUME IInv, NEW w \in Writers, AppendRecord(w)
  PROVE  OthersStay(w) /\ writer'[w].pc = "check"
<1>1. writer' = [writer EXCEPT ![w] = At("check")] /\ "check" \in Labels
  BY DEF AppendRecord, Labels
<1> QED BY <1>1, Moved, IdlePc

LEMMA FailMoves ==
  ASSUME IInv, NEW w \in Writers, AppendFails(w) \/ RewriteFails(w)
  PROVE  OthersStay(w) /\ writer'[w].pc = "wait"
<1>1. writer' = [writer EXCEPT ![w] = Waiting]
  BY DEF AppendFails, RewriteFails, AfterError
<1> QED BY <1>1, Moved, IdlePc

LEMMA CheckMoves ==
  ASSUME IInv, NEW w \in Writers, CheckSize(w)
  PROVE  OthersStay(w) /\ writer'[w].pc = IF TooLarge(file) THEN "snapshot" ELSE "wait"
<1>1. PICK v : v = IF TooLarge(file) THEN At("snapshot") ELSE Waiting
  OBVIOUS
<1>2. writer' = [writer EXCEPT ![w] = v] /\ "snapshot" \in Labels
  BY <1>1 DEF CheckSize, Labels
<1>3. v.pc = IF TooLarge(file) THEN "snapshot" ELSE "wait"
  BY <1>1, <1>2, IdlePc
<1> QED BY <1>2, <1>3, Moved

LEMMA SnapshotMoves ==
  ASSUME IInv, NEW w \in Writers, TraceSnapshot(w)
  PROVE  OthersStay(w) /\ writer'[w].pc = "rewrite" /\ writer'[w].snap = trace
<1>1. PICK v : v = [At("rewrite") EXCEPT !.snap = trace]
  OBVIOUS
<1>2. writer' = [writer EXCEPT ![w] = v]
  BY <1>1 DEF TraceSnapshot
<1>3. v.pc = "rewrite" /\ v.snap = trace
  BY <1>1, SnapshotSlot
<1> QED BY <1>2, <1>3, Moved

\* A launched thread had ended.
LEMMA LaunchMoves ==
  ASSUME IInv, Idle # {}, writer' = Launched
  PROVE  \E w \in Writers : OthersStay(w) /\ writer[w].pc = "ended" /\ writer'[w].pc = "wait"
<1>1. PICK w \in Idle : writer' = [writer EXCEPT ![w] = Waiting]
  BY LaunchedSlot
<1>2. w \in Writers /\ writer[w].pc = "ended"
  BY <1>1 DEF Idle
<1> QED BY <1>1, <1>2, Moved, IdlePc

\* What producers and callers do leaves all writers alone or launches one.
StayOrLaunch ==
  \/ writer' = writer
  \/ \E w \in Writers : OthersStay(w) /\ writer[w].pc = "ended" /\ writer'[w].pc = "wait"

LEMMA CallersStay ==
  ASSUME IInv,
         \/ \E p \in Producers : Record(p) \/ FindNone(p) \/ Enqueue(p)
         \/ Flush \/ FlushReturn \/ Stop \/ Joined \/ ResetCounters
  PROVE  /\ StayOrLaunch /\ UNCHANGED <<fileVars, errors, crashes, aged, glued, lost, overlapped>>
<1>1. (Idle # {} /\ writer' = Launched) \/ writer' = writer
  BY Zenon DEF Record, FindNone, Enqueue, Flush, FlushReturn, Stop, Joined, ResetCounters
<1>2. StayOrLaunch
  BY <1>1, LaunchMoves, Zenon DEF StayOrLaunch
<1>3. UNCHANGED <<fileVars, errors, crashes, aged, glued, lost, overlapped>>
  BY DEF Record, FindNone, Enqueue, Flush, FlushReturn, Stop, Joined, ResetCounters
<1> QED BY <1>2, <1>3


-----------------------------------------------------------------------------
(* The file does not outgrow its limit.                                    *)

\* A writer on its way to a rewrite.
Ahead(x) == writer[x].pc \in {"check", "snapshot", "rewrite", "fill", "rename"}

\* A file over its limit is about to be rewritten.
Bounded ==
  \/ Bytes(file) <= FileBytes
  \/ Len(file) <= TraceLimit
  \/ \E w \in Writers : Ahead(w)
  \/ errors + crashes > 0

\* A failure or a crash is enough.
LEMMA Failed ==
  ASSUME IInv, NEW w \in Writers, AppendFails(w) \/ RewriteFails(w) \/ Crash
  PROVE  errors' + crashes' > 0
<1>1. errors \in Nat /\ crashes \in Nat
  BY DEF IInv, TypeOK
<1>2. (errors' = errors + 1 /\ crashes' = crashes) \/ (errors' = errors /\ crashes' = crashes + 1)
  BY DEF AppendFails, RewriteFails, Crash
<1> QED BY <1>1, <1>2

\* A writer alone with the .tmp file stays so, unless another one joins it there.
LEMMA StageKept ==
  ASSUME StageInv, UNCHANGED <<tmp, staged, errors, crashes>>,
         \A x \in Writers : /\ Staging(x) => writer'[x] = writer[x]
                            /\ writer'[x].pc \in {"fill", "rename"} => Staging(x)
  PROVE  StageInv'
<1>1. \A x \in Writers : Staging(x)' <=> Staging(x)
  BY DEF Staging
<1>2. CASE errors + crashes > 0 \/ ~staged
  BY <1>2 DEF StageInv
<1>3. CASE \A w \in Writers : ~Staging(w)
  BY <1>1, <1>3 DEF StageInv
<1>4. CASE \E v, w \in Writers : v # w /\ Staging(v) /\ Staging(w)
  BY <1>1, <1>4 DEF StageInv
<1>5. CASE \A w \in Writers :
             /\ writer[w].pc = "fill" => writer[w].on = "tmp" /\ tmp = <<>>
             /\ writer[w].pc = "rename" => Len(tmp) <= TraceLimit
  <2>1. ASSUME NEW w \in Writers
        PROVE  /\ writer'[w].pc = "fill" => writer'[w].on = "tmp" /\ tmp' = <<>>
               /\ writer'[w].pc = "rename" => Len(tmp') <= TraceLimit
    <3>1. CASE Staging(w)
      BY <1>5, <3>1
    <3>2. CASE ~Staging(w)
      BY <3>2
    <3> QED BY <3>1, <3>2
  <2> QED BY <2>1 DEF StageInv
<1> QED BY <1>2, <1>3, <1>4, <1>5 DEF StageInv

\* Steps that are none of the rewrite's.
LEMMA StageCallers ==
  ASSUME StageInv, StayOrLaunch, UNCHANGED <<tmp, staged, errors, crashes>>
  PROVE  StageInv'
<1>1. CASE writer' = writer
  BY <1>1, StageKept DEF Staging
<1>2. ASSUME NEW w \in Writers, OthersStay(w), writer[w].pc = "ended", writer'[w].pc = "wait"
      PROVE  StageInv'
  <2>1. \A x \in Writers : /\ Staging(x) => writer'[x] = writer[x]
                           /\ writer'[x].pc \in {"fill", "rename"} => Staging(x)
    BY <1>2 DEF OthersStay, Staging
  <2> QED BY <2>1, StageKept
<1> QED BY <1>1, <1>2 DEF StayOrLaunch

LEMMA StageWriter ==
  ASSUME IInv, StageInv, NEW w \in Writers, WriterStep(w)
  PROVE  StageInv'
<1>1. CASE Pop(w) \/ End(w) \/ OpenFile(w) \/ AppendRecord(w) \/ CheckSize(w) \/ TraceSnapshot(w)
  <2>1. /\ UNCHANGED <<tmp, staged, errors, crashes>>
        /\ writer[w].pc \in {"wait", "write", "append", "check", "snapshot"}
    BY <1>1 DEF Pop, End, OpenFile, AppendRecord, CheckSize, TraceSnapshot
  <2>2. OthersStay(w) /\ writer'[w].pc \in {"write", "ended", "append", "check", "snapshot", "wait", "rewrite"}
    <3>1. CASE Pop(w) \/ End(w) \/ AppendRecord(w)
      BY <3>1, PopMoves, EndMoves, AppendMoves
    <3>2. CASE OpenFile(w)
      BY <3>2, GoesOn DEF OthersStay
    <3>3. CASE CheckSize(w) \/ TraceSnapshot(w)
      BY <3>3, CheckMoves, SnapshotMoves
    <3> QED BY <1>1, <3>1, <3>2, <3>3
  <2>3. \A x \in Writers : /\ Staging(x) => writer'[x] = writer[x]
                           /\ writer'[x].pc \in {"fill", "rename"} => Staging(x)
    BY <2>1, <2>2 DEF OthersStay, Staging
  <2> QED BY <2>1, <2>3, StageKept
<1>2. CASE AppendFails(w) \/ RewriteFails(w)
  BY <1>2, Failed DEF StageInv
<1>3. CASE Rename(w)
  BY <1>3 DEF Rename, StageInv
<1>4. CASE OpenTmp(w)
  <2>1. /\ writer'[w].pc = "fill" /\ writer'[w].on = "tmp" /\ tmp' = <<>>
        /\ \A x \in Writers \ {w} : writer'[x] = writer[x]
    BY <1>4, GoesOn DEF OpenTmp
  <2>2. Staging(w)'
    BY <2>1 DEF Staging
  <2>3. CASE \E v \in Writers \ {w} : Staging(v)
    <3>1. PICK v \in Writers \ {w} : Staging(v)
      BY <2>3
    <3>2. Staging(v)' /\ v # w
      BY <2>1, <3>1 DEF Staging
    <3> QED BY <2>2, <3>2 DEF StageInv
  <2>4. CASE \A v \in Writers \ {w} : ~Staging(v)
    <3>1. ASSUME NEW x \in Writers
          PROVE  /\ writer'[x].pc = "fill" => writer'[x].on = "tmp" /\ tmp' = <<>>
                 /\ writer'[x].pc = "rename" => Len(tmp') <= TraceLimit
      BY <2>1, <2>4 DEF Staging
    <3> QED BY <3>1 DEF StageInv
  <2> QED BY <2>3, <2>4
<1>5. CASE Fill(w)
  <2>1. /\ writer[w].pc = "fill" /\ writer'[w].pc = "rename" /\ UNCHANGED <<staged, errors, crashes>>
        /\ \A x \in Writers \ {w} : writer'[x] = writer[x]
    BY <1>5, GoesOn DEF Fill
  <2>2. Staging(w) /\ \A x \in Writers : Staging(x) => Staging(x)'
    BY <2>1 DEF Staging
  <2>3. CASE \E v, x \in Writers : v # x /\ Staging(v) /\ Staging(x)
    BY <2>2, <2>3 DEF StageInv
  <2>4. CASE errors + crashes > 0 \/ ~staged
    BY <2>1, <2>4 DEF StageInv
  <2>5. CASE /\ ~(\E v, x \in Writers : v # x /\ Staging(v) /\ Staging(x))
             /\ writer[w].on = "tmp" /\ tmp = <<>>
    <3>1. tmp' = Overlay(writer[w].snap, <<>>)
      BY <1>5, <2>5 DEF Fill, Put
    <3>2. Len(tmp') <= TraceLimit
      <4>1. PICK s : s = writer[w].snap /\ s \in Seq(1..recorded) /\ Len(s) <= TraceLimit
        BY <2>1 DEF IInv, TypeOK, WriterInv, SlotOK, Slots
      <4>2. recorded \in 0..MaxRecords /\ 1..recorded \subseteq 0..recorded
        BY SizesAssumption DEF IInv, TypeOK
      <4>3. s \in Seq(0..recorded) /\ <<>> \in Seq(0..recorded)
        BY <4>1, <4>2, SeqLarger
      <4>4. PICK f : f = <<>>
        OBVIOUS
      <4>5. f \in Seq(0..recorded) /\ tmp' = Overlay(s, f)
        BY <3>1, <4>1, <4>3, <4>4, Zenon
      <4>6. Overlay(s, f) = s
        BY <4>2, <4>3, <4>4, <4>5, OverlayType, Zenon
      <4> QED BY <4>1, <4>5, <4>6, Zenon
    <3>3. \A x \in Writers \ {w} : ~Staging(x)
      BY <2>2, <2>5
    <3>4. ASSUME NEW x \in Writers
          PROVE  /\ writer'[x].pc = "fill" => writer'[x].on = "tmp" /\ tmp' = <<>>
                 /\ writer'[x].pc = "rename" => Len(tmp') <= TraceLimit
      BY <2>1, <3>2, <3>3 DEF Staging
    <3> QED BY <3>4 DEF StageInv
  <2> QED BY <2>1, <2>2, <2>3, <2>4, <2>5 DEF StageInv
<1> QED BY <1>1, <1>2, <1>3, <1>4, <1>5, Zenon DEF WriterStep

LEMMA NextStage == IInv /\ StageInv /\ [Next]_vars => StageInv'
<1> SUFFICES ASSUME IInv, StageInv, [Next]_vars PROVE StageInv'
  OBVIOUS
<1>1. CASE UNCHANGED vars
  BY <1>1, StageCallers, Zenon DEF vars, StayOrLaunch
<1>2. CASE Crash
  <2>1. 1 \in Writers
    BY SizesAssumption
  <2> QED BY <1>2, <2>1, Failed DEF StageInv
<1>3. CASE \/ \E p \in Producers : Record(p) \/ FindNone(p) \/ Enqueue(p)
           \/ Flush \/ FlushReturn \/ Stop \/ Joined \/ ResetCounters
  <2>1. StayOrLaunch /\ UNCHANGED <<fileVars, errors, crashes, aged, glued, lost, overlapped>>
    BY <1>3, CallersStay, Zenon
  <2> QED BY <2>1, StageCallers, Zenon
<1> QED BY <1>1, <1>2, <1>3, StageWriter, Zenon DEF Next

\* A step that leaves the file and those writers alone that are about to rewrite it.
LEMMA BoundedKept ==
  ASSUME Bounded, UNCHANGED <<file, errors, crashes>>,
         \A x \in Writers : Ahead(x) => writer'[x] = writer[x]
  PROVE  Bounded'
<1>1. \A x \in Writers : Ahead(x) => Ahead(x)'
  BY DEF Ahead
<1> QED BY <1>1 DEF Bounded

LEMMA BoundedCallers ==
  ASSUME Bounded, StayOrLaunch, UNCHANGED <<file, errors, crashes>>
  PROVE  Bounded'
<1>1. CASE writer' = writer
  BY <1>1, BoundedKept
<1>2. ASSUME NEW w \in Writers, OthersStay(w), writer[w].pc = "ended"
      PROVE  Bounded'
  <2>1. \A x \in Writers : Ahead(x) => writer'[x] = writer[x]
    BY <1>2 DEF OthersStay, Ahead
  <2> QED BY <2>1, BoundedKept
<1> QED BY <1>1, <1>2 DEF StayOrLaunch

LEMMA BoundedWriter ==
  ASSUME IInv, StageInv, Bounded, NEW w \in Writers, WriterStep(w)
  PROVE  Bounded'
<1>1. CASE Pop(w) \/ End(w) \/ OpenFile(w)
  <2>1. UNCHANGED <<file, errors, crashes>> /\ writer[w].pc \in {"wait", "write"}
    BY <1>1 DEF Pop, End, OpenFile
  <2>2. OthersStay(w)
    <3>1. CASE Pop(w) \/ End(w)
      BY <3>1, PopMoves, EndMoves
    <3>2. CASE OpenFile(w)
      BY <3>2, GoesOn DEF OthersStay
    <3> QED BY <1>1, <3>1, <3>2
  <2>3. \A x \in Writers : Ahead(x) => writer'[x] = writer[x]
    BY <2>1, <2>2 DEF OthersStay, Ahead
  <2> QED BY <2>1, <2>3, BoundedKept
<1>2. CASE AppendRecord(w) \/ TraceSnapshot(w) \/ OpenTmp(w) \/ Fill(w)
  <2>1. writer'[w].pc \in {"check", "rewrite", "fill", "rename"}
    BY <1>2, AppendMoves, SnapshotMoves, GoesOn
  <2> QED BY <2>1 DEF Bounded, Ahead
<1>3. CASE AppendFails(w) \/ RewriteFails(w)
  BY <1>3, Failed DEF Bounded
<1>4. CASE CheckSize(w)
  <2>1. UNCHANGED file /\ writer'[w].pc = IF TooLarge(file) THEN "snapshot" ELSE "wait"
    BY <1>4, CheckMoves DEF CheckSize
  <2>2. CASE TooLarge(file)
    BY <2>1, <2>2 DEF Bounded, Ahead
  <2>3. CASE ~TooLarge(file)
    <3>1. file \in Lines
      <4>1. file \in Seq(0..recorded) /\ 0..recorded \subseteq 0..MaxRecords
        BY SizesAssumption DEF IInv, TypeOK
      <4> QED BY <4>1, SeqLarger DEF Lines
    <3>2. Bytes(file) \in Nat /\ ~(Bytes(file) > FileBytes)
      BY <2>3, <3>1, BytesType DEF TooLarge
    <3>3. Bytes(file') <= FileBytes
      BY <2>1, <3>2, SizesAssumption
    <3> QED BY <3>3 DEF Bounded
  <2> QED BY <2>2, <2>3
<1>5. CASE Rename(w)
  <2>1. /\ writer[w].pc = "rename" /\ staged /\ file' = tmp /\ UNCHANGED <<errors, crashes>>
        /\ \A x \in Writers \ {w} : writer'[x].pc = writer[x].pc
    BY <1>5, RenamedSlots DEF Rename
  <2>2. CASE errors + crashes > 0
    BY <2>1, <2>2 DEF Bounded
  <2>3. CASE Len(tmp) <= TraceLimit
    BY <2>1, <2>3 DEF Bounded
  <2>4. CASE \E v, x \in Writers : v # x /\ Staging(v) /\ Staging(x)
    <3>1. PICK v \in Writers \ {w} : Staging(v)
      BY <2>4
    <3>2. Ahead(v)'
      BY <2>1, <3>1 DEF Staging, Ahead
    <3> QED BY <3>2 DEF Bounded
  <2> QED BY <2>1, <2>2, <2>3, <2>4 DEF StageInv, Staging
<1> QED BY <1>1, <1>2, <1>3, <1>4, <1>5, Zenon DEF WriterStep

LEMMA InitBounded == Init => Bounded /\ StageInv
<1> SUFFICES ASSUME Init PROVE Bounded /\ StageInv
  OBVIOUS
<1>1. Len(file) = 0 /\ ~staged
  BY DEF Init
<1> QED BY <1>1, SizesAssumption DEF Bounded, StageInv

LEMMA NextBounded == IInv /\ StageInv /\ Bounded /\ [Next]_vars => Bounded'
<1> SUFFICES ASSUME IInv, StageInv, Bounded, [Next]_vars PROVE Bounded'
  OBVIOUS
<1>1. CASE UNCHANGED vars
  BY <1>1, BoundedCallers, Zenon DEF vars, StayOrLaunch
<1>2. CASE Crash
  <2>1. 1 \in Writers
    BY SizesAssumption
  <2> QED BY <1>2, <2>1, Failed DEF Bounded
<1>3. CASE \/ \E p \in Producers : Record(p) \/ FindNone(p) \/ Enqueue(p)
           \/ Flush \/ FlushReturn \/ Stop \/ Joined \/ ResetCounters
  <2>1. StayOrLaunch /\ UNCHANGED <<fileVars, errors, crashes, aged, glued, lost, overlapped>>
    BY <1>3, CallersStay, Zenon
  <2> QED BY <2>1, BoundedCallers, Zenon
<1> QED BY <1>1, <1>2, <1>3, BoundedWriter, Zenon DEF Next

\* While nothing fails, a trace file above file_limit_bytes holds no more records than
\* memory, or a writer is about to rewrite it, whichever writers stop() left behind and
\* although they share one .tmp file.
THEOREM FileKeepsLimit == Spec => []FileBounded
<1>1. Init => IInv /\ StageInv /\ Bounded
  BY InitIInv, InitBounded
<1>2. IInv /\ StageInv /\ Bounded /\ [Next]_vars => IInv' /\ StageInv' /\ Bounded'
  BY NextIInv, NextStage, NextBounded
<1>3. IInv /\ Bounded => FileBounded
  <2>1. \A w \in Writers : Ahead(w) => writer[w].pc \in {"check", "snapshot"} \/ Rewriting(w)
    BY DEF Ahead, Rewriting
  <2> QED BY <2>1 DEF IInv, Bounded, FileBounded
<1> QED BY <1>1, <1>2, <1>3, PTL DEF Spec

-----------------------------------------------------------------------------
(* No record disappears uncounted.                                         *)

\* Where a record can be accounted for other than by a counter.
Kept == ToSet(file) \cup Unwritten \cup aged \cup glued \cup lost

Accounted == Cardinality(Missing) <= drop_count + forgotten + errors

Busy(v) == v.pc \in {"write", "append"}

\* r waits in queue q, in a hand of h or with a writer of wr.
Awaits(q, h, wr, r) ==
  /\ r # 0
  /\ \/ r \in ToSet(q)
     \/ \E p \in Producers : r = h[p]
     \/ \E w \in Writers : Busy(wr[w]) /\ r = wr[w].rec

LEMMA UnwrittenIs ==
  /\ \A r : r \in Unwritten <=> Awaits(queue, hand, writer, r)
  /\ \A r : r \in Unwritten' <=> Awaits(queue', hand', writer', r)
<1>1. ASSUME NEW r PROVE r \in Unwritten <=> Awaits(queue, hand, writer, r)
  BY Zenon DEF Unwritten, Awaits, Busy
<1>2. ASSUME NEW r PROVE r \in Unwritten' <=> Awaits(queue', hand', writer', r)
  BY Zenon DEF Unwritten, Awaits, Busy
<1> QED BY <1>1, <1>2

LEMMA AddUp ==
  ASSUME NEW m \in Nat, NEW n \in Nat, NEW u \in Nat, NEW a \in Nat, NEW d \in Nat,
         u <= m + d, n <= u, m <= a
  PROVE  n <= a + d
OBVIOUS

\* A step that gives up d records at most, and counts them, keeps the count.
LEMMA CountKept ==
  ASSUME IInv, Accounted, NEW D, NEW d \in Nat, IsFiniteSet(D), Cardinality(D) <= d,
         IInv', recorded' = recorded, Kept \subseteq Kept' \cup D,
         drop_count' + forgotten' + errors' = drop_count + forgotten + errors + d
  PROVE  Accounted'
<1>1. Missing' \subseteq Missing \cup D
  BY DEF Missing, Kept
<1>2. IsFiniteSet(Missing)
  <2>1. IsFiniteSet(1..recorded) /\ Missing \subseteq 1..recorded
    BY FS_Interval DEF Missing, IInv, TypeOK
  <2> QED BY <2>1, FS_Subset
<1>3. IsFiniteSet(Missing \cup D) /\ Cardinality(Missing \cup D) <= Cardinality(Missing) + d
  <2>1. /\ IsFiniteSet(Missing \cup D)
        /\ Cardinality(Missing \cup D)
             = Cardinality(Missing) + Cardinality(D) - Cardinality(Missing \cap D)
    BY <1>2, FS_Union
  <2>2. IsFiniteSet(Missing \cap D)
    BY <1>2, FS_Intersection
  <2>3. Cardinality(Missing) \in Nat /\ Cardinality(D) \in Nat /\ Cardinality(Missing \cap D) \in Nat
    BY <1>2, <2>2, FS_CardinalityType
  <2> QED BY <2>1, <2>3
<1>4. IsFiniteSet(Missing') /\ Cardinality(Missing') <= Cardinality(Missing \cup D)
  BY <1>1, <1>3, FS_Subset
<1>5. Cardinality(Missing) \in Nat /\ Cardinality(Missing') \in Nat /\ Cardinality(Missing \cup D) \in Nat
  BY <1>2, <1>3, <1>4, FS_CardinalityType
<1>6. /\ drop_count \in Nat /\ forgotten \in Nat /\ errors \in Nat
      /\ drop_count' \in Nat /\ forgotten' \in Nat /\ errors' \in Nat
  BY DEF IInv, TypeOK
<1>7. Cardinality(Missing) <= drop_count + forgotten + errors
  BY DEF Accounted
<1>8. Cardinality(Missing') <= drop_count' + forgotten' + errors'
  <2>1. \E m \in Nat, n \in Nat, u \in Nat :
          m = Cardinality(Missing) /\ n = Cardinality(Missing') /\ u = Cardinality(Missing \cup D)
    BY <1>5, Zenon
  <2>2. PICK m \in Nat, n \in Nat, u \in Nat :
          m = Cardinality(Missing) /\ n = Cardinality(Missing') /\ u = Cardinality(Missing \cup D)
    BY <2>1, Zenon
  <2>3. PICK a \in Nat : a = drop_count + forgotten + errors
    BY <1>6
  <2>4. drop_count' + forgotten' + errors' = a + d
    BY <2>3, Zenon
  <2>5. u <= m + d /\ n <= u /\ m <= a
    BY <1>3, <1>4, <1>7, <2>2, <2>3, Zenon
  <2>6. n <= a + d
    BY <2>5, AddUp
  <2> QED BY <2>2, <2>4, <2>6, Zenon
<1> QED BY <1>8 DEF Accounted

\* A step that loses nothing.
LEMMA NothingLost ==
  ASSUME IInv, Accounted, IInv', recorded' = recorded, Kept \subseteq Kept',
         drop_count' + forgotten' + errors' = drop_count + forgotten + errors
  PROVE  Accounted'
<1>1. IsFiniteSet({}) /\ Cardinality({}) = 0
  BY FS_EmptySet
<1>2. PICK D : D = {}
  OBVIOUS
<1>3. PICK d \in Nat : d = 0
  OBVIOUS
<1>4. drop_count \in Nat /\ forgotten \in Nat /\ errors \in Nat
  BY DEF IInv, TypeOK
<1>5. drop_count' + forgotten' + errors' = drop_count + forgotten + errors + d
  BY <1>3, <1>4
<1>6. IsFiniteSet(D) /\ Cardinality(D) <= d /\ Kept \subseteq Kept' \cup D
  BY <1>1, <1>2, <1>3
<1> QED BY <1>5, <1>6, CountKept

\* A new record is in its producer's hand.
LEMMA RecordCounted ==
  ASSUME IInv, Accounted, NEW p \in Producers, Record(p)
  PROVE  Accounted'
<1>1. /\ hand \in [Producers -> 0..recorded] /\ hand[p] = 0 /\ recorded \in Nat
      /\ recorded' = recorded + 1
      /\ hand' = [hand EXCEPT ![p] = recorded'] /\ UNCHANGED <<queue, writer, file, aged, glued, lost>>
      /\ UNCHANGED <<drop_count, forgotten, errors>>
  BY SizesAssumption DEF IInv, TypeOK, Record
<1>2. ASSUME NEW r, Awaits(queue, hand, writer, r)
      PROVE  Awaits(queue', hand', writer', r)
  <2>1. \A x \in Producers : hand[x] # 0 => hand'[x] = hand[x]
    BY <1>1
  <2>2. (\E x \in Producers : r = hand[x]) => \E x \in Producers : r = hand'[x]
    BY <1>2, <2>1, Zenon DEF Awaits
  <2> QED BY <1>1, <1>2, <2>2, Zenon DEF Awaits
<1>3. Awaits(queue', hand', writer', recorded')
  BY <1>1 DEF Awaits
<1>4. Kept \cup {recorded'} \subseteq Kept'
  <2>1. Unwritten \subseteq Unwritten' /\ recorded' \in Unwritten'
    BY <1>2, <1>3, UnwrittenIs, Zenon
  <2>2. ToSet(file') = ToSet(file)
    BY <1>1
  <2> QED BY <1>1, <2>1, <2>2 DEF Kept
<1>5. Missing' \subseteq Missing
  <2>1. 1..recorded' = (1..recorded) \cup {recorded'}
    BY <1>1
  <2> QED BY <1>4, <2>1 DEF Missing, Kept
<1>6. IsFiniteSet(Missing)
  <2>1. IsFiniteSet(1..recorded) /\ Missing \subseteq 1..recorded
    BY FS_Interval DEF Missing, IInv, TypeOK
  <2> QED BY <2>1, FS_Subset
<1>7. Cardinality(Missing') <= Cardinality(Missing) /\ Cardinality(Missing') \in Nat /\ Cardinality(Missing) \in Nat
  BY <1>5, <1>6, FS_Subset, FS_CardinalityType
<1>8. drop_count \in Nat /\ forgotten \in Nat /\ errors \in Nat
  BY DEF IInv, TypeOK
<1> QED BY <1>1, <1>7, <1>8 DEF Accounted


LEMMA FindNoneCounted ==
  ASSUME IInv, Accounted, IInv', NEW p \in Producers, FindNone(p)
  PROVE  Accounted'
<1>1. /\ recorded' = recorded /\ hand' = hand /\ queue' = queue /\ writer' = writer
      /\ file' = file /\ aged' = aged /\ glued' = glued /\ lost' = lost
      /\ drop_count' = drop_count /\ forgotten' = forgotten /\ errors' = errors
  BY DEF FindNone
<1>2. Unwritten' = Unwritten
  BY <1>1, Zenon DEF Unwritten
<1>3. Missing' = Missing
  BY <1>1, <1>2, Zenon DEF Missing
<1> QED BY <1>1, <1>3, Zenon DEF Accounted

\* The elements before position k + 1 are at most k.
LEMMA FirstAtMost ==
  ASSUME NEW S, NEW s \in Seq(S), NEW k \in 0..Len(s), NEW D, D = {s[i] : i \in 1..k}
  PROVE  IsFiniteSet(D) /\ Cardinality(D) <= k
<1>1. Len(s) \in Nat /\ k \in Nat
  BY LenProperties
<1>2. PICK f : f = [i \in 1..k |-> s[i]]
  OBVIOUS
<1>3. f \in Surjection(1..k, D)
  BY <1>2 DEF Surjection
<1>4. IsFiniteSet(1..k) /\ Cardinality(1..k) = k
  BY <1>1, FS_Interval
<1> QED BY <1>3, <1>4, FS_Surjection

\* A launched thread had nothing to write.
LEMMA StillWriting ==
  ASSUME StayOrLaunch
  PROVE  \A x \in Writers : Busy(writer[x]) => writer'[x] = writer[x]
<1>1. ASSUME NEW w \in Writers, OthersStay(w), writer[w].pc = "ended"
      PROVE  \A x \in Writers : Busy(writer[x]) => writer'[x] = writer[x]
  BY <1>1 DEF OthersStay, Busy
<1> QED BY <1>1, Zenon DEF StayOrLaunch

\* enqueue: the records dropped are counted, one each; its own record is in the queue.
LEMMA EnqueueCounted ==
  ASSUME IInv, Accounted, IInv', NEW p \in Producers, Enqueue(p)
  PROVE  Accounted'
<1>0. TypeOK
  BY DEF IInv
<1>1. /\ queue \in Seq(1..recorded) /\ hand \in [Producers -> 0..recorded]
      /\ drop_count \in Nat /\ forgotten \in Nat /\ errors \in Nat /\ recorded \in Nat
  BY <1>0, SizesAssumption DEF TypeOK
<1>2. PICK k : k = Dropped(hand[p])
  OBVIOUS
<1>3. k \in 0..Len(queue)
  BY <1>0, <1>2, DroppedFits, Zenon
<1>4. PICK s : s = SubSeq(queue, k + 1, Len(queue))
  OBVIOUS
<1>5. queue' = Append(s, hand[p]) /\ drop_count' = drop_count + k
  BY <1>2, <1>4 DEF Enqueue
<1>6. /\ s \in Seq(1..recorded) /\ Len(s) = Len(queue) - k /\ Len(queue) \in Nat
      /\ \A i \in 1..(Len(queue) - k) : s[i] = queue[i + k]
  <2>1. Without(s, queue, k, 1..recorded)
    BY <1>1, <1>3, <1>4, WithoutType
  <2>2. Len(queue) \in Nat
    BY <1>1
  <2> QED BY <2>1, <2>2, Zenon DEF Without
<1>7. PICK D : D = {queue[i] : i \in 1..k} /\ IsFiniteSet(D) /\ Cardinality(D) <= k
  <2>1. PICK D : D = {queue[i] : i \in 1..k}
    OBVIOUS
  <2>2. queue \in Seq(1..recorded)
    BY <1>1
  <2>3. IsFiniteSet(D) /\ Cardinality(D) <= k
    BY <1>3, <2>1, <2>2, FirstAtMost, Zenon
  <2> QED BY <2>1, <2>3, Zenon
<1>8. /\ Len(queue') = Len(s) + 1 /\ queue'[Len(s) + 1] = hand[p]
      /\ \A i \in 1..Len(s) : queue'[i] = s[i]
      /\ DOMAIN queue' = 1..Len(queue') /\ DOMAIN queue = 1..Len(queue)
  <2>1. hand[p] \in 1..recorded
    BY <1>1 DEF Enqueue
  <2>2. queue' \in Seq(1..recorded)
    BY <1>5, <1>6, <2>1, AppendProperties
  <2>3. DOMAIN queue' = 1..Len(queue') /\ DOMAIN queue = 1..Len(queue)
    BY <1>1, <2>2, LenProperties
  <2> QED BY <1>5, <1>6, <2>1, <2>3, AppendProperties
<1>9. ToSet(queue) \subseteq ToSet(queue') \cup D
  <2>1. ASSUME NEW i \in 1..Len(queue)
        PROVE  queue[i] \in ToSet(queue') \cup D
    <3>1. CASE i <= k
      BY <1>3, <1>6, <1>7, <3>1
    <3>2. CASE i > k
      <4>1. i - k \in 1..Len(s) /\ i - k \in 1..(Len(queue) - k) /\ i - k \in 1..Len(queue')
        BY <1>3, <1>6, <1>8, <3>2
      <4>2. s[i - k] = queue[(i - k) + k] /\ (i - k) + k = i
        BY <1>3, <1>6, <4>1
      <4>3. queue'[i - k] = queue[i]
        BY <1>8, <4>1, <4>2
      <4> QED BY <1>8, <4>1, <4>3 DEF ToSet
    <3> QED BY <1>3, <1>6, <3>1, <3>2
  <2> QED BY <1>8, <2>1 DEF ToSet
<1>10. hand[p] \in ToSet(queue')
  BY <1>6, <1>8 DEF ToSet
<1>11. \A x \in Producers : x # p => hand'[x] = hand[x]
  BY <1>1 DEF Enqueue
<1>12. \A w \in Writers : Busy(writer[w]) => writer'[w] = writer[w]
  BY CallersStay, StillWriting, Zenon
<1>13. ASSUME NEW r, Awaits(queue, hand, writer, r)
       PROVE  Awaits(queue', hand', writer', r) \/ r \in D
  <2>1. CASE r \in ToSet(queue)
    BY <1>9, <1>13, <2>1, Zenon DEF Awaits
  <2>2. CASE \E x \in Producers : r = hand[x]
    BY <1>10, <1>11, <1>13, <2>2, Zenon DEF Awaits
  <2>3. CASE \E w \in Writers : Busy(writer[w]) /\ r = writer[w].rec
    BY <1>12, <1>13, <2>3, Zenon DEF Awaits
  <2> QED BY <1>13, <2>1, <2>2, <2>3 DEF Awaits
<1>14. Kept \subseteq Kept' \cup D
  <2>1. Unwritten \subseteq Unwritten' \cup D
    BY <1>13, UnwrittenIs, Zenon
  <2>2. ToSet(file') = ToSet(file) /\ aged' = aged /\ glued' = glued /\ lost' = lost
    BY DEF Enqueue
  <2> QED BY <2>1, <2>2 DEF Kept
<1>15. /\ drop_count' + forgotten' + errors' = drop_count + forgotten + errors + k
       /\ recorded' = recorded /\ k \in Nat
  <2>1. recorded' = recorded /\ forgotten' = forgotten /\ errors' = errors
    BY DEF Enqueue
  <2>2. k \in Nat
    BY <1>3, <1>6
  <2> QED BY <1>1, <1>5, <2>1, <2>2
<1> QED BY <1>7, <1>14, <1>15, CountKept


\* The record popped is with its writer.
LEMMA PopCounted ==
  ASSUME IInv, Accounted, IInv', NEW w \in Writers, Pop(w)
  PROVE  Accounted'
<1>1. /\ queue \in Seq(1..recorded) /\ queue # <<>> /\ queue' = Tail(queue) /\ hand' = hand
      /\ writer[w].pc = "wait"
  BY DEF IInv, TypeOK, Pop, Popped
<1>2. Busy(writer'[w]) /\ writer'[w].rec = Head(queue)
  BY PopMoves DEF Busy
<1>3. \A x \in Writers : Busy(writer[x]) => writer'[x] = writer[x]
  BY <1>1, PopMoves DEF OthersStay, Busy
<1>4. ToSet(queue) \subseteq ToSet(queue') \cup {Head(queue)}
  <2>1. /\ Len(queue) \in Nat /\ DOMAIN queue = 1..Len(queue) /\ Head(queue) = queue[1]
        /\ Len(queue') = Len(queue) - 1 /\ DOMAIN queue' = 1..Len(queue')
        /\ \A i \in 1..Len(queue') : queue'[i] = queue[i + 1]
    BY <1>1, HeadTailProperties, LenProperties
  <2>2. ASSUME NEW i \in 1..Len(queue)
        PROVE  queue[i] \in ToSet(queue') \cup {Head(queue)}
    <3>1. CASE i = 1
      BY <2>1, <3>1
    <3>2. CASE i # 1
      <4>1. i - 1 \in 1..Len(queue') /\ (i - 1) + 1 = i
        BY <2>1, <3>2
      <4>2. queue'[i - 1] = queue[i]
        BY <2>1, <4>1
      <4> QED BY <2>1, <4>1, <4>2 DEF ToSet
    <3> QED BY <3>1, <3>2
  <2> QED BY <2>1, <2>2 DEF ToSet
<1>5. ASSUME NEW r, Awaits(queue, hand, writer, r)
      PROVE  Awaits(queue', hand', writer', r)
  <2>1. CASE r \in ToSet(queue)
    BY <1>2, <1>4, <1>5, <2>1, Zenon DEF Awaits
  <2>2. CASE \E x \in Producers : r = hand[x]
    BY <1>1, <1>5, <2>2, Zenon DEF Awaits
  <2>3. CASE \E x \in Writers : Busy(writer[x]) /\ r = writer[x].rec
    BY <1>3, <1>5, <2>3, Zenon DEF Awaits
  <2> QED BY <1>5, <2>1, <2>2, <2>3 DEF Awaits
<1>6. Kept \subseteq Kept'
  <2>1. Unwritten \subseteq Unwritten'
    BY <1>5, UnwrittenIs, Zenon
  <2>2. ToSet(file') = ToSet(file) /\ aged' = aged /\ glued' = glued /\ lost' = lost
    BY DEF Pop
  <2> QED BY <2>1, <2>2 DEF Kept
<1>7. recorded' = recorded /\ UNCHANGED <<drop_count, forgotten, errors>>
  BY DEF Pop
<1> QED BY <1>6, <1>7, NothingLost

\* Queue and hands stay, and so do the records of the writers other than w: at most w's
\* record is given up.
SameRecords(w) ==
  \A x \in Writers \ {w} : writer'[x].pc = writer[x].pc /\ writer'[x].rec = writer[x].rec

LEMMA AwaitsOthers ==
  ASSUME NEW w \in Writers, UNCHANGED <<queue, hand>>, SameRecords(w)
  PROVE  /\ Unwritten \subseteq Unwritten' \cup {writer[w].rec}
         /\ \/ ~Busy(writer[w])
            \/ Busy(writer'[w]) /\ writer'[w].rec = writer[w].rec
            => Unwritten \subseteq Unwritten'
<1>1. ASSUME NEW x \in Writers \ {w}, Busy(writer[x])
      PROVE  Busy(writer'[x]) /\ writer'[x].rec = writer[x].rec
  BY <1>1 DEF SameRecords, Busy
<1>2. ASSUME NEW r, Awaits(queue, hand, writer, r)
      PROVE  Awaits(queue', hand', writer', r) \/ (Busy(writer[w]) /\ r = writer[w].rec)
  <2>1. CASE r \in ToSet(queue) \/ \E p \in Producers : r = hand[p]
    BY <1>2, <2>1, Zenon DEF Awaits
  <2>2. ASSUME NEW x \in Writers, Busy(writer[x]), r = writer[x].rec
        PROVE  Awaits(queue', hand', writer', r) \/ (Busy(writer[w]) /\ r = writer[w].rec)
    <3>1. CASE x = w
      BY <2>2, <3>1
    <3>2. CASE x # w
      <4>1. Busy(writer'[x]) /\ r = writer'[x].rec /\ r # 0
        BY <1>1, <1>2, <2>2, <3>2 DEF Awaits
      <4> QED BY <4>1, Zenon DEF Awaits
    <3> QED BY <3>1, <3>2
  <2> QED BY <1>2, <2>1, <2>2, Zenon DEF Awaits
<1>3. ASSUME Busy(writer'[w]), writer'[w].rec = writer[w].rec,
             NEW r, Awaits(queue, hand, writer, r)
      PROVE  Awaits(queue', hand', writer', r)
  <2>1. r # 0
    BY <1>3, Zenon DEF Awaits
  <2>2. r = writer[w].rec => Awaits(queue', hand', writer', r)
    BY <1>3, <2>1, Zenon DEF Awaits
  <2> QED BY <1>2, <1>3, <2>2, Zenon
<1> QED BY <1>2, <1>3, UnwrittenIs, Zenon

LEMMA StayRecords ==
  ASSUME NEW w \in Writers, OthersStay(w)
  PROVE  SameRecords(w)
BY DEF OthersStay, SameRecords

\* Steps that do not touch the records.
LEMMA WriterCounted ==
  ASSUME IInv, Accounted, IInv', NEW w \in Writers,
         End(w) \/ OpenFile(w) \/ CheckSize(w) \/ TraceSnapshot(w) \/ OpenTmp(w)
  PROVE  Accounted'
<1>1. /\ UNCHANGED <<queue, hand>>
      /\ UNCHANGED <<recorded, drop_count, forgotten, errors, file, aged, glued, lost>>
  BY DEF End, OpenFile, CheckSize, TraceSnapshot, OpenTmp
<1>2. Unwritten \subseteq Unwritten'
  <2>1. CASE OpenFile(w)
    <3>1. OthersStay(w) /\ writer'[w].pc = "append" /\ writer'[w].rec = writer[w].rec
      BY <2>1, GoesOn DEF OthersStay
    <3>2. SameRecords(w) /\ Busy(writer'[w])
      BY <3>1, StayRecords DEF Busy
    <3> QED BY <1>1, <3>1, <3>2, AwaitsOthers
  <2>2. CASE ~OpenFile(w)
    <3>1. OthersStay(w)
      <4>1. CASE OpenTmp(w)
        BY <4>1, GoesOn DEF OthersStay
      <4> QED BY <2>2, <4>1, EndMoves, CheckMoves, SnapshotMoves
    <3>2. ~Busy(writer[w])
      BY <2>2 DEF Busy, End, CheckSize, TraceSnapshot, OpenTmp
    <3> QED BY <1>1, <3>1, <3>2, StayRecords, AwaitsOthers
  <2> QED BY <2>1, <2>2
<1>3. Kept \subseteq Kept'
  BY <1>1, <1>2 DEF Kept
<1> QED BY <1>1, <1>3, NothingLost

\* A rewrite on its own file leaves out what memory does not hold any more.
LEMMA RewriteCounted ==
  ASSUME IInv, MeetInv, Accounted, IInv', ~overlapped, NEW w \in Writers,
         Fill(w) \/ Rename(w) \/ RewriteFails(w)
  PROVE  Accounted'
<1>1. drop_count \in Nat /\ forgotten \in Nat /\ errors \in Nat
  BY DEF IInv, TypeOK
<1>2. /\ UNCHANGED <<queue, hand>> /\ UNCHANGED <<recorded, drop_count, forgotten, glued, lost>>
      /\ ~Busy(writer[w])
  BY DEF Fill, Rename, RewriteFails, Busy
<1>3. SameRecords(w)
  <2>1. CASE Fill(w)
    BY <2>1, GoesOn DEF SameRecords
  <2>2. CASE Rename(w)
    BY <2>2, RenamedSlots DEF SameRecords
  <2>3. CASE RewriteFails(w)
    BY <2>3, FailMoves, StayRecords
  <2> QED BY <2>1, <2>2, <2>3
<1>4. Unwritten \subseteq Unwritten'
  BY <1>2, <1>3, AwaitsOthers
<1>5. ToSet(file) \cup aged \subseteq ToSet(file') \cup aged'
  <2>1. CASE Fill(w) \/ RewriteFails(w)
    <3>1. writer[w].pc = "fill" => writer[w].on = "tmp"
      BY DEF MeetInv
    <3>2. file' = file /\ aged' = aged
      BY <2>1, <3>1 DEF Fill, RewriteFails, Put
    <3> QED BY <3>2
  <2>2. CASE Rename(w)
    <3>1. writer[w].pc = "rename" /\ Rewriting(w)
      BY <2>2 DEF Rename, Rewriting
    <3>2. ToSet(file) \cap ToSet(trace) \subseteq ToSet(writer[w].snap) /\ tmp = writer[w].snap
      BY <3>1 DEF MeetInv
    <3>3. file' = tmp /\ aged' = aged \cup (ToSet(file) \ (ToSet(tmp) \cup ToSet(trace)))
      BY <2>2 DEF Rename
    <3>4. PICK F, T, S : F = ToSet(file) /\ T = ToSet(tmp) /\ S = ToSet(trace)
      OBVIOUS
    <3>5. F \cap S \subseteq T /\ aged' = aged \cup (F \ (T \cup S)) /\ ToSet(file') = T
      BY <3>2, <3>3, <3>4, Zenon
    <3>6. F \cup aged \subseteq T \cup aged'
      BY <3>5
    <3> QED BY <3>4, <3>5, <3>6, Zenon
  <2> QED BY <2>1, <2>2
<1>6. Kept \subseteq Kept'
  BY <1>2, <1>4, <1>5 DEF Kept
<1>7. CASE Fill(w) \/ Rename(w)
  <2>1. errors' = errors
    BY <1>7 DEF Fill, Rename
  <2> QED BY <1>2, <1>6, <2>1, NothingLost
<1>8. CASE RewriteFails(w)
  <2>1. errors' = errors + 1
    BY <1>8 DEF RewriteFails
  <2>2. PICK d \in Nat : d = 1
    OBVIOUS
  <2>3. drop_count' + forgotten' + errors' = drop_count + forgotten + errors + d
    BY <1>1, <1>2, <2>1, <2>2
  <2>4. IsFiniteSet({}) /\ Cardinality({}) <= d /\ Kept \subseteq Kept' \cup {}
    BY <1>6, <2>2, FS_EmptySet
  <2> QED BY <1>2, <2>3, <2>4, CountKept
<1> QED BY <1>7, <1>8

\* A record written is in the file, or glued to its last line.
LEMMA AppendRecordCounted ==
  ASSUME IInv, MeetInv, Accounted, IInv', ~overlapped, NEW w \in Writers, AppendRecord(w)
  PROVE  Accounted'
<1>1. writer \in [Writers -> Slots(recorded)] /\ file \in Seq(0..recorded)
  BY DEF IInv, TypeOK
<1>2. /\ UNCHANGED <<queue, hand>> /\ UNCHANGED <<recorded, drop_count, forgotten, errors, aged, lost>>
      /\ writer[w].pc = "append"
  BY DEF AppendRecord
<1>3. Unwritten \subseteq Unwritten' \cup {writer[w].rec}
  BY <1>2, AppendMoves, StayRecords, AwaitsOthers
<1>4. PICK v : v = writer[w].rec /\ v \in 0..recorded
  BY <1>1 DEF Slots
<1>5. writer[w].on = "file"
  BY <1>2 DEF MeetInv
<1>6. ToSet(file) \cup glued \cup {v} \subseteq ToSet(file') \cup glued'
  <2>1. CASE file' = file /\ glued' = glued \cup {v}
    BY <2>1
  <2>2. CASE file' = Append(file, v) /\ glued' = glued
    <3>1. /\ file' \in Seq(0..recorded) /\ Len(file') = Len(file) + 1 /\ file'[Len(file) + 1] = v
          /\ \A i \in 1..Len(file) : file'[i] = file[i]
      BY <1>1, <1>4, <2>2, AppendProperties
    <3>2. Len(file) \in Nat /\ DOMAIN file = 1..Len(file) /\ DOMAIN file' = 1..Len(file')
      BY <1>1, <3>1, LenProperties
    <3>3. ToSet(file) \subseteq ToSet(file') /\ v \in ToSet(file')
      BY <3>1, <3>2 DEF ToSet
    <3> QED BY <2>2, <3>3
  <2> QED BY <1>4, <1>5, <2>1, <2>2 DEF AppendRecord
<1>7. Kept \subseteq Kept'
  BY <1>2, <1>3, <1>4, <1>6 DEF Kept
<1> QED BY <1>2, <1>7, NothingLost

\* A write that fails gives up its record and counts an error.
LEMMA AppendFailsCounted ==
  ASSUME IInv, Accounted, IInv', NEW w \in Writers, AppendFails(w)
  PROVE  Accounted'
<1>1. drop_count \in Nat /\ forgotten \in Nat /\ errors \in Nat
  BY DEF IInv, TypeOK
<1>2. UNCHANGED <<queue, hand>> /\ UNCHANGED <<recorded, drop_count, forgotten, aged, glued, lost>>
  BY DEF AppendFails
<1>3. SameRecords(w)
  BY FailMoves, StayRecords
<1>4. Unwritten \subseteq Unwritten' \cup {writer[w].rec}
  BY <1>2, <1>3, AwaitsOthers
<1>5. ToSet(file) \subseteq ToSet(file')
  <2>1. CASE file' = file
    BY <2>1
  <2>2. CASE file' = Torn
    BY <2>2, TornType
  <2> QED BY <2>1, <2>2 DEF AppendFails, Tear
<1>6. PICK D, d : D = {writer[w].rec} /\ d = 1
  OBVIOUS
<1>7. Kept \subseteq Kept' \cup D
  BY <1>2, <1>4, <1>5, <1>6 DEF Kept
<1>8. IsFiniteSet(D) /\ Cardinality(D) <= d /\ d \in Nat
  <2>1. IsFiniteSet(D) /\ Cardinality(D) = 1
    BY <1>6, FS_Singleton, Zenon
  <2> QED BY <1>6, <2>1
<1>9. drop_count' + forgotten' + errors' = drop_count + forgotten + errors + d
  <2>1. errors' = errors + 1
    BY DEF AppendFails
  <2> QED BY <1>1, <1>2, <1>6, <2>1
<1> QED BY <1>2, <1>7, <1>8, <1>9, CountKept


LEMMA FlushCounted ==
  ASSUME IInv, Accounted, IInv', Flush
  PROVE  Accounted'
<1>1. /\ UNCHANGED <<queue, hand>>
      /\ UNCHANGED <<recorded, drop_count, forgotten, errors, file, aged, glued, lost>>
  BY DEF Flush
<1>2. \A w \in Writers : Busy(writer[w]) => writer'[w] = writer[w]
  BY CallersStay, StillWriting, Zenon
<1>3. ASSUME NEW r, Awaits(queue, hand, writer, r)
      PROVE  Awaits(queue', hand', writer', r)
  BY <1>1, <1>2, <1>3, Zenon DEF Awaits
<1>4. Unwritten \subseteq Unwritten'
  BY <1>3, UnwrittenIs, Zenon
<1>5. Kept \subseteq Kept'
  BY <1>1, <1>4 DEF Kept
<1> QED BY <1>1, <1>5, NothingLost

\* Resetting the counter moves the drops to those counted before.
LEMMA OtherCounted ==
  ASSUME IInv, Accounted, IInv', FlushReturn \/ Stop \/ Joined \/ ResetCounters
  PROVE  Accounted'
<1>1. UNCHANGED <<recorded, errors, file, queue, hand, writer, aged, glued, lost>>
  BY DEF FlushReturn, Stop, Joined, ResetCounters
<1>2. Kept' = Kept
  BY <1>1 DEF Kept, Unwritten
<1>3. drop_count \in Nat /\ forgotten \in Nat /\ errors \in Nat
  BY DEF IInv, TypeOK
<1>4. drop_count' + forgotten' = drop_count + forgotten
  BY <1>3 DEF FlushReturn, Stop, Joined, ResetCounters
<1>5. drop_count' + forgotten' + errors' = drop_count + forgotten + errors
  BY <1>1, <1>4, Zenon
<1> QED BY <1>1, <1>2, <1>5, NothingLost

\* What a crash finds unwritten is lost with it; what the file held stays in it.
LEMMA CrashCounted ==
  ASSUME IInv, Accounted, IInv', Crash
  PROVE  Accounted'
<1>1. ToSet(file) \subseteq ToSet(file')
  <2>1. CASE file' = file
    BY <2>1
  <2>2. CASE file' = Torn
    BY <2>2, TornType
  <2> QED BY <2>1, <2>2 DEF Crash, Tear
<1>2. lost' = lost \cup Unwritten /\ aged' = aged /\ glued' = glued /\ recorded' = recorded /\ errors' = errors
  BY DEF Crash
<1>3. Kept \subseteq Kept'
  BY <1>1, <1>2 DEF Kept
<1>4. drop_count \in Nat /\ forgotten \in Nat /\ errors \in Nat
  BY DEF IInv, TypeOK
<1>5. forgotten' = forgotten + drop_count /\ drop_count' = 0
  BY DEF Crash
<1>6. drop_count' + forgotten' + errors' = drop_count + forgotten + errors
  BY <1>2, <1>4, <1>5
<1> QED BY <1>2, <1>3, <1>6, NothingLost

LEMMA InitCounted == Init => Accounted
<1> SUFFICES ASSUME Init PROVE Accounted
  OBVIOUS
<1>1. recorded = 0 /\ drop_count = 0 /\ forgotten = 0 /\ errors = 0
  BY DEF Init
<1>2. Missing = {}
  <2>1. 1..recorded = {}
    BY <1>1
  <2> QED BY <2>1 DEF Missing
<1>3. Cardinality(Missing) = 0
  BY <1>2, FS_EmptySet
<1> QED BY <1>1, <1>3 DEF Accounted

\* What a rewrite overlaps with stays overlapped.
LEMMA OverlappedStays ==
  ASSUME IInv, Next, overlapped
  PROVE  overlapped'
<1>1. CASE \/ \E p \in Producers : Record(p) \/ FindNone(p) \/ Enqueue(p)
           \/ Flush \/ FlushReturn \/ Stop \/ Joined \/ ResetCounters
  BY <1>1, CallersStay, Zenon
<1>2. CASE Crash
  BY <1>2, Zenon DEF Crash
<1>3. ASSUME NEW w \in Writers, WriterStep(w) PROVE overlapped'
  BY <1>3, Zenon DEF WriterStep, Pop, End, OpenFile, AppendRecord, AppendFails, CheckSize, TraceSnapshot,
     OpenTmp, Fill, Rename, RewriteFails
<1> QED BY <1>1, <1>2, <1>3, Zenon DEF Next

LEMMA NextCounted == IInv /\ MeetInv /\ (overlapped \/ Accounted) /\ [Next]_vars => (overlapped \/ Accounted)'
<1> SUFFICES ASSUME IInv, MeetInv, overlapped \/ Accounted, [Next]_vars, ~overlapped' PROVE Accounted'
  OBVIOUS
<1>1. IInv'
  BY NextIInv
<1>2. CASE UNCHANGED vars
  BY <1>2 DEF vars, Accounted, Missing, Unwritten
<1>3. CASE Next
  <2>1. Accounted /\ ~overlapped
    BY <1>3, OverlappedStays
  <2>2. ASSUME NEW p \in Producers, Record(p) \/ FindNone(p) \/ Enqueue(p)
        PROVE  Accounted'
    BY <1>1, <2>1, <2>2, RecordCounted, FindNoneCounted, EnqueueCounted, Zenon
  <2>3. ASSUME NEW w \in Writers, WriterStep(w)
        PROVE  Accounted'
    BY <1>1, <2>1, <2>3, PopCounted, WriterCounted, RewriteCounted, AppendRecordCounted,
       AppendFailsCounted, Zenon DEF WriterStep
  <2> QED BY <1>1, <1>3, <2>1, <2>2, <2>3, FlushCounted, OtherCounted, CrashCounted, Zenon DEF Next
<1> QED BY <1>2, <1>3

-----------------------------------------------------------------------------
(* One rewrite at a time, while none has met another writer.               *)

\* The parts of MeetInv that hold while nothing overlapped.
Apart(v) ==
  /\ v.pc \in {"rewrite", "fill", "rename"} => ToSet(file) \cap ToSet(trace) \subseteq ToSet(v.snap)
  /\ v.pc = "append" => v.on = "file"
  /\ v.pc = "fill" => v.on = "tmp" /\ tmp = <<>>
  /\ v.pc = "rename" => tmp = v.snap

AllApart ==
  /\ \A v, w \in Writers : Rewriting(v) /\ Rewriting(w) => v = w
  /\ \A w \in Writers : Apart(writer[w])

LEMMA MeetIs ==
  /\ MeetInv <=> overlapped \/ AllApart
  /\ MeetInv' <=> overlapped' \/ AllApart'
BY DEF MeetInv, AllApart, Apart, Rewriting

\* Neither file and memory nor a writer that rewrites or appends changes.
LEMMA ApartKept ==
  ASSUME AllApart, tmp' = tmp,
         ToSet(file') \cap ToSet(trace') \subseteq ToSet(file) \cap ToSet(trace),
         \A x \in Writers : \/ writer'[x] = writer[x]
                            \/ writer'[x].pc \notin {"rewrite", "fill", "rename", "append"}
                            \/ writer'[x].pc = "append" /\ writer'[x].on = "file"
  PROVE  AllApart'
<1>1. PICK F, G : F = ToSet(file) \cap ToSet(trace) /\ G = ToSet(file') \cap ToSet(trace') /\ G \subseteq F
  BY Zenon
<1>2. ASSUME NEW x \in Writers, writer'[x] = writer[x]
      PROVE  Apart(writer[x])'
  <2>1. Apart(writer[x])
    BY DEF AllApart
  <2>2. writer'[x].pc \in {"rewrite", "fill", "rename"} => F \subseteq ToSet(writer'[x].snap)
    BY <1>1, <1>2, <2>1, Zenon DEF Apart
  <2> QED BY <1>1, <1>2, <2>1, <2>2 DEF Apart
<1>3. \A x \in Writers : Apart(writer[x])'
  BY <1>2 DEF Apart
<1>4. \A x \in Writers : Rewriting(x)' => Rewriting(x)
  BY DEF Rewriting
<1> QED BY <1>3, <1>4 DEF AllApart

LEMMA ApartCallers ==
  ASSUME AllApart, StayOrLaunch, UNCHANGED <<tmp, file, trace>>
  PROVE  AllApart'
<1>1. \A x \in Writers : writer'[x] = writer[x] \/ writer'[x].pc = "wait"
  BY DEF StayOrLaunch, OthersStay
<1>2. ToSet(file') \cap ToSet(trace') = ToSet(file) \cap ToSet(trace)
  BY Zenon
<1> QED BY <1>1, <1>2, ApartKept

\* A new record is in no file yet.
LEMMA ApartRecord ==
  ASSUME IInv, AllApart, NEW p \in Producers, Record(p)
  PROVE  AllApart'
<1>1. /\ recorded \in Nat /\ recorded' = recorded + 1 /\ trace \in Seq(1..recorded)
      /\ file \in Seq(0..recorded) /\ UNCHANGED <<file, tmp, writer>>
      /\ trace' = Tail_(Append(trace, recorded'), TraceLimit)
  BY SizesAssumption DEF IInv, TypeOK, Record
<1>2. ToSet(trace') \subseteq ToSet(trace) \cup {recorded'}
  <2>1. PICK s : s = Append(trace, recorded')
    OBVIOUS
  <2>2. /\ s \in Seq(1..recorded') /\ Len(s) = Len(trace) + 1 /\ s[Len(trace) + 1] = recorded'
        /\ \A i \in 1..Len(trace) : s[i] = trace[i]
    <3>1. 1..recorded \subseteq 1..recorded' /\ recorded' \in 1..recorded'
      BY <1>1
    <3>2. trace \in Seq(1..recorded')
      BY <1>1, <3>1, SeqLarger
    <3> QED BY <2>1, <3>1, <3>2, AppendProperties
  <2>3. Len(trace) \in Nat /\ DOMAIN trace = 1..Len(trace) /\ DOMAIN s = 1..Len(s)
    BY <1>1, <2>2, LenProperties
  <2>4. ToSet(s) \subseteq ToSet(trace) \cup {recorded'}
    <3>1. ASSUME NEW i \in 1..Len(s)
          PROVE  s[i] \in ToSet(trace) \cup {recorded'}
      <4>1. CASE i = Len(trace) + 1
        BY <2>2, <4>1
      <4>2. CASE i # Len(trace) + 1
        <5>1. i \in 1..Len(trace)
          BY <2>2, <2>3, <4>2
        <5> QED BY <2>2, <2>3, <5>1 DEF ToSet
      <4> QED BY <4>1, <4>2
    <3> QED BY <2>3, <3>1 DEF ToSet
  <2>5. ToSet(Tail_(s, TraceLimit)) \subseteq ToSet(s)
    <3>1. Tail_(s, TraceLimit) \in Seq(ToSet(s))
      <4>1. s \in Seq(ToSet(s))
        <5>1. s \in [1..Len(s) -> ToSet(s)] /\ Len(s) \in Nat
          BY <2>2, <2>3, LenProperties DEF ToSet
        <5> QED BY <5>1, SeqDef
      <4> QED BY <4>1, NewestType, SizesAssumption
    <3> QED BY <3>1, ToSetType, Zenon
  <2>6. trace' = Tail_(s, TraceLimit)
    BY <1>1, <2>1, Zenon
  <2> QED BY <2>4, <2>5, <2>6
<1>3. recorded' \notin ToSet(file)
  <2>1. ToSet(file) \subseteq 0..recorded
    BY <1>1, ToSetType
  <2> QED BY <1>1, <2>1
<1>4. ToSet(file') \cap ToSet(trace') \subseteq ToSet(file) \cap ToSet(trace)
  <2>1. ToSet(file') = ToSet(file)
    BY <1>1
  <2> QED BY <1>2, <1>3, <2>1
<1> QED BY <1>1, <1>4, ApartKept

\* Steps of a writer that is not rewriting.
LEMMA ApartWriter ==
  ASSUME IInv, AllApart, NEW w \in Writers,
         \/ Pop(w) \/ End(w) \/ OpenFile(w) \/ CheckSize(w)
         \/ AppendFails(w)
         \/ RewriteFails(w) /\ writer[w].pc = "check"
  PROVE  AllApart'
<1>1. tmp' = tmp /\ trace' = trace
  BY DEF Pop, End, OpenFile, CheckSize, AppendFails, RewriteFails
<1>2. OthersStay(w) /\ (\/ writer'[w].pc \in {"write", "ended", "snapshot", "wait"}
                        \/ writer'[w].pc = "append" /\ writer'[w].on = "file")
  <2>1. CASE OpenFile(w)
    BY <2>1, GoesOn DEF OthersStay
  <2>2. CASE Pop(w) \/ End(w) \/ CheckSize(w)
    BY <2>2, PopMoves, EndMoves, CheckMoves
  <2>3. CASE AppendFails(w) \/ RewriteFails(w)
    BY <2>3, FailMoves
  <2> QED BY <2>1, <2>2, <2>3
<1>3. ToSet(file') \cap ToSet(trace') \subseteq ToSet(file) \cap ToSet(trace)
  <2>1. CASE file' = file
    BY <1>1, <2>1
  <2>2. CASE file' = Torn
    <3>1. ToSet(file') \subseteq ToSet(file) \cup {0}
      BY <2>2, TornType
    <3>2. ToSet(trace) \subseteq 1..recorded
      BY ToSetType DEF IInv, TypeOK
    <3>3. 0 \notin ToSet(trace)
      BY <3>2
    <3> QED BY <1>1, <3>1, <3>3
  <2> QED BY <2>1, <2>2 DEF Pop, End, OpenFile, CheckSize, AppendFails, Tear, RewriteFails
<1>4. \A x \in Writers : \/ writer'[x] = writer[x]
                         \/ writer'[x].pc \notin {"rewrite", "fill", "rename", "append"}
                         \/ writer'[x].pc = "append" /\ writer'[x].on = "file"
  BY <1>2 DEF OthersStay
<1> QED BY <1>1, <1>3, <1>4, ApartKept

\* Where w is the only one that rewrites, if anybody does, the others are easily apart.
LEMMA ApartAlone ==
  ASSUME AllApart, NEW w \in Writers, \A x \in Writers \ {w} : ~Rewriting(x),
         \A x \in Writers \ {w} :
           writer'[x].pc = writer[x].pc /\ (writer[x].pc = "append" => writer'[x].on = writer[x].on),
         Apart(writer[w])'
  PROVE  AllApart'
<1>1. \A x \in Writers \ {w} : ~Rewriting(x)'
  BY DEF Rewriting
<1>2. ASSUME NEW x \in Writers \ {w}
      PROVE  Apart(writer[x])'
  <2>1. writer'[x].pc \notin {"rewrite", "fill", "rename"}
    BY <1>1 DEF Rewriting
  <2>2. writer'[x].pc = "append" => writer'[x].on = "file"
    BY DEF AllApart, Apart
  <2> QED BY <2>1, <2>2 DEF Apart
<1> QED BY <1>1, <1>2 DEF AllApart

LEMMA ApartRewrite ==
  ASSUME IInv, AllApart, NEW w \in Writers, ~overlapped',
         \/ AppendRecord(w) \/ TraceSnapshot(w) \/ OpenTmp(w) \/ Fill(w) \/ Rename(w)
         \/ RewriteFails(w) /\ writer[w].pc # "check"
  PROVE  AllApart'
<1>1. \A x \in Writers \ {w} : ~Rewriting(x)
  <2>1. CASE AppendRecord(w) \/ TraceSnapshot(w)
    BY <2>1 DEF AppendRecord, TraceSnapshot, Meets
  <2>2. CASE OpenTmp(w) \/ Fill(w) \/ Rename(w) \/ (RewriteFails(w) /\ writer[w].pc # "check")
    <3>1. Rewriting(w)
      BY <2>2 DEF OpenTmp, Fill, Rename, RewriteFails, Rewriting
    <3> QED BY <3>1 DEF AllApart
  <2> QED BY <2>1, <2>2
<1>2. \A x \in Writers \ {w} :
        writer'[x].pc = writer[x].pc /\ (writer[x].pc = "append" => writer'[x].on = writer[x].on)
  <2>1. CASE AppendRecord(w) \/ TraceSnapshot(w) \/ RewriteFails(w)
    BY <2>1, AppendMoves, SnapshotMoves, FailMoves DEF OthersStay
  <2>2. CASE OpenTmp(w) \/ Fill(w)
    BY <2>2, GoesOn
  <2>3. CASE Rename(w)
    <3>1. \A x \in Writers : writer[x].pc # "append"
      BY <2>3 DEF Rename
    <3> QED BY <2>3, <3>1, RenamedSlots
  <2> QED BY <2>1, <2>2, <2>3
<1>3. Apart(writer[w])'
  <2>1. CASE AppendRecord(w) \/ Rename(w) \/ RewriteFails(w)
    <3>1. writer'[w].pc \in {"check", "wait"}
      BY <2>1, AppendMoves, FailMoves, RenamedSlots, IdlePc
    <3> QED BY <3>1 DEF Apart
  <2>2. CASE TraceSnapshot(w)
    <3>1. writer'[w].pc = "rewrite" /\ writer'[w].snap = trace /\ trace' = trace
      BY <2>2, SnapshotMoves DEF TraceSnapshot
    <3>2. ToSet(file') \cap ToSet(trace') \subseteq ToSet(writer'[w].snap)
      BY <3>1
    <3> QED BY <3>1, <3>2 DEF Apart
  <2>3. CASE OpenTmp(w)
    <3>1. /\ writer'[w].pc = "fill" /\ writer'[w].on = "tmp" /\ writer'[w].snap = writer[w].snap
          /\ tmp' = <<>> /\ UNCHANGED <<file, trace>> /\ writer[w].pc = "rewrite"
      BY <2>3, GoesOn DEF OpenTmp
    <3>2. ToSet(file) \cap ToSet(trace) \subseteq ToSet(writer[w].snap)
      BY <3>1 DEF AllApart, Apart
    <3>3. ToSet(file') \cap ToSet(trace') \subseteq ToSet(writer'[w].snap)
      BY <3>1, <3>2, Zenon
    <3> QED BY <3>1, <3>3 DEF Apart
  <2>4. CASE Fill(w)
    <3>1. /\ writer'[w].pc = "rename" /\ writer'[w].snap = writer[w].snap
          /\ trace' = trace /\ writer[w].pc = "fill"
      BY <2>4, GoesOn DEF Fill
    <3>2. /\ ToSet(file) \cap ToSet(trace) \subseteq ToSet(writer[w].snap)
          /\ writer[w].on = "tmp" /\ tmp = <<>>
      BY <3>1 DEF AllApart, Apart
    <3>3. file' = file /\ tmp' = Overlay(writer[w].snap, tmp)
      BY <2>4, <3>2 DEF Fill, Put
    <3>4. tmp' = writer[w].snap
      <4>1. writer[w].snap \in Seq(1..recorded) /\ recorded \in 0..MaxRecords /\ tmp \in Seq(0..recorded)
        BY DEF IInv, TypeOK, Slots
      <4>2. 1..recorded \subseteq 0..recorded
        BY <4>1, SizesAssumption
      <4>3. writer[w].snap \in Seq(0..recorded)
        BY <4>1, <4>2, SeqLarger
      <4>4. Overlay(writer[w].snap, tmp) = writer[w].snap
        <5>1. PICK s, f : s = writer[w].snap /\ f = tmp
          OBVIOUS
        <5>2. s \in Seq(0..recorded) /\ f \in Seq(0..recorded) /\ f = <<>> /\ recorded \in 0..MaxRecords
          BY <3>2, <4>1, <4>3, <5>1, Zenon
        <5>3. Overlay(s, f) = s
          BY <5>2, OverlayType, Zenon
        <5> QED BY <5>1, <5>3, Zenon
      <4> QED BY <3>3, <4>4, Zenon
    <3>5. ToSet(file') \cap ToSet(trace') \subseteq ToSet(writer'[w].snap)
      BY <3>1, <3>2, <3>3, Zenon
    <3> QED BY <3>1, <3>4, <3>5 DEF Apart
  <2> QED BY <2>1, <2>2, <2>3, <2>4
<1> QED BY <1>1, <1>2, <1>3, ApartAlone

LEMMA ApartCrash ==
  ASSUME Crash
  PROVE  AllApart'
<1>1. \A x \in Writers : writer'[x].pc \in {"ended", "wait"}
  BY StartType DEF Crash
<1> QED BY <1>1 DEF AllApart, Apart, Rewriting

LEMMA InitMeet == Init => MeetInv
<1> SUFFICES ASSUME Init PROVE AllApart
  BY MeetIs
<1>1. \A x \in Writers : writer[x].pc \in {"ended", "wait"}
  BY StartType DEF Init
<1> QED BY <1>1 DEF AllApart, Apart, Rewriting

LEMMA NextMeet == IInv /\ MeetInv /\ [Next]_vars => MeetInv'
<1> SUFFICES ASSUME IInv, MeetInv, [Next]_vars, ~overlapped' PROVE AllApart'
  BY MeetIs
<1>1. CASE UNCHANGED vars
  <2>1. AllApart
    BY <1>1, MeetIs, Zenon DEF vars
  <2> QED BY <1>1, <2>1, ApartCallers, Zenon DEF vars, StayOrLaunch
<1>2. CASE Next
  <2>1. AllApart
    BY <1>2, OverlappedStays, MeetIs, Zenon
  <2>2. CASE \/ \E p \in Producers : FindNone(p) \/ Enqueue(p)
             \/ Flush \/ FlushReturn \/ Stop \/ Joined \/ ResetCounters
    <3>1. StayOrLaunch /\ UNCHANGED <<fileVars, errors, crashes, aged, glued, lost, overlapped>>
      BY <2>2, CallersStay, Zenon
    <3>2. trace' = trace
      BY <2>2 DEF FindNone, Enqueue, Flush, FlushReturn, Stop, Joined, ResetCounters
    <3> QED BY <2>1, <3>1, <3>2, ApartCallers, Zenon
  <2>3. ASSUME NEW w \in Writers, WriterStep(w) PROVE AllApart'
    BY <2>1, <2>3, ApartWriter, ApartRewrite, Zenon DEF WriterStep
  <2> QED BY <1>2, <2>1, <2>2, <2>3, ApartRecord, ApartCrash, Zenon DEF Next
<1> QED BY <1>1, <1>2

-----------------------------------------------------------------------------
(* A failure or a crash glues one record at most.                          *)

LEMMA GluedKept ==
  ASSUME IInv, IInv', GluedInv, glued' = glued,
         \/ (open' => open) /\ errors' + crashes' >= errors + crashes
         \/ errors' + crashes' = errors + crashes + 1
  PROVE  GluedInv'
<1>1. PICK n : n = Cardinality(glued) /\ n \in Nat
  <2>1. IsFiniteSet(1..recorded) /\ glued \subseteq 1..recorded
    BY FS_Interval DEF IInv, TypeOK
  <2> QED BY <2>1, FS_Subset, FS_CardinalityType
<1>2. errors \in Nat /\ crashes \in Nat /\ errors' \in Nat /\ crashes' \in Nat
  BY DEF IInv, TypeOK
<1>3. Cardinality(glued') = n
  BY <1>1
<1>4. PICK o, q : o = (IF open THEN 1 ELSE 0) /\ q = (IF open' THEN 1 ELSE 0)
  OBVIOUS
<1>5. o \in {0, 1} /\ q \in {0, 1} /\ ((open' => open) => q <= o)
  BY <1>4
<1>6. n + o <= errors + crashes
  BY <1>1, <1>4, Zenon DEF GluedInv
<1>7. n + q <= errors' + crashes'
  <2>1. PICK a, b : a = errors + crashes /\ b = errors' + crashes' /\ a \in Nat /\ b \in Nat
    BY <1>2
  <2>2. (q <= o /\ b >= a) \/ b = a + 1
    BY <1>5, <2>1, Zenon
  <2>3. n \in Nat /\ o \in {0, 1} /\ q \in {0, 1} /\ n + o <= a
    BY <1>1, <1>5, <1>6, <2>1, Zenon
  <2>4. n + q <= b
    BY <2>1, <2>2, <2>3
  <2> QED BY <2>1, <2>4, Zenon
<1> QED BY <1>3, <1>4, <1>7, Zenon DEF GluedInv

LEMMA GluedWriter ==
  ASSUME IInv, IInv', GluedInv, NEW w \in Writers, WriterStep(w)
  PROVE  GluedInv'
<1>1. errors \in Nat /\ crashes \in Nat
  BY DEF IInv, TypeOK
<1>2. CASE Pop(w) \/ End(w) \/ OpenFile(w) \/ CheckSize(w) \/ TraceSnapshot(w) \/ OpenTmp(w)
  <2>1. UNCHANGED <<glued, open, errors, crashes>>
    BY <1>2 DEF Pop, End, OpenFile, CheckSize, TraceSnapshot, OpenTmp
  <2> QED BY <1>1, <2>1, GluedKept
<1>3. CASE AppendFails(w) \/ RewriteFails(w)
  <2>1. glued' = glued /\ errors' = errors + 1 /\ crashes' = crashes
    BY <1>3 DEF AppendFails, RewriteFails
  <2>2. errors' + crashes' = errors + crashes + 1
    BY <1>1, <2>1
  <2> QED BY <2>1, <2>2, GluedKept
<1>4. CASE Fill(w)
  <2>1. UNCHANGED <<glued, errors, crashes>> /\ (open' => open)
    <3>1. UNCHANGED <<glued, errors, crashes>> /\ Put(w, writer[w].snap)
      BY <1>4 DEF Fill
    <3>2. open' => open
      BY <3>1, Zenon DEF Put
    <3> QED BY <3>1, <3>2
  <2> QED BY <1>1, <2>1, GluedKept
<1>5. CASE Rename(w)
  <2>1. UNCHANGED <<glued, errors, crashes>> /\ ~open'
    BY <1>5 DEF Rename
  <2> QED BY <1>1, <2>1, GluedKept
<1>6. CASE AppendRecord(w)
  <2>1. UNCHANGED <<errors, crashes>>
    BY <1>6 DEF AppendRecord
  <2>2. CASE glued' = glued /\ open' = open
    BY <1>1, <2>1, <2>2, GluedKept
  <2>3. CASE open /\ glued' = glued \cup {writer[w].rec} /\ open' = FALSE
    <3>1. IsFiniteSet(glued)
      <4>1. IsFiniteSet(1..recorded) /\ glued \subseteq 1..recorded
        BY FS_Interval DEF IInv, TypeOK
      <4> QED BY <4>1, FS_Subset
    <3>2. PICK r : r = writer[w].rec
      OBVIOUS
    <3>3. /\ IsFiniteSet(glued \cup {r})
          /\ Cardinality(glued \cup {r}) \in {Cardinality(glued), Cardinality(glued) + 1}
      BY <3>1, FS_AddElement
    <3>4. PICK n \in Nat : n = Cardinality(glued)
      BY <3>1, FS_CardinalityType
    <3>5. PICK m : m = Cardinality(glued') /\ m \in {n, n + 1}
      BY <2>3, <3>2, <3>3, <3>4
    <3>6. n + 1 <= errors + crashes
      BY <2>3, <3>4 DEF GluedInv
    <3>7. Cardinality(glued') <= errors' + crashes' /\ Cardinality(glued') \in Nat
      BY <1>1, <2>1, <3>4, <3>5, <3>6
    <3> QED BY <2>3, <3>7 DEF GluedInv
  <2> QED BY <1>6, <2>2, <2>3 DEF AppendRecord
<1> QED BY <1>2, <1>3, <1>4, <1>5, <1>6, Zenon DEF WriterStep

LEMMA InitGlued == Init => GluedInv
<1> SUFFICES ASSUME Init PROVE GluedInv
  OBVIOUS
<1>1. glued = {} /\ ~open /\ errors = 0 /\ crashes = 0
  BY DEF Init
<1>2. Cardinality(glued) = 0
  BY <1>1, FS_EmptySet
<1> QED BY <1>1, <1>2 DEF GluedInv

LEMMA NextGlued == IInv /\ GluedInv /\ [Next]_vars => GluedInv'
<1> SUFFICES ASSUME IInv, GluedInv, [Next]_vars PROVE GluedInv'
  OBVIOUS
<1>1. IInv' /\ errors \in Nat /\ crashes \in Nat
  BY NextIInv DEF IInv, TypeOK
<1>2. CASE UNCHANGED <<glued, open, errors, crashes>>
  BY <1>1, <1>2, GluedKept
<1>3. CASE \/ \E p \in Producers : Record(p) \/ FindNone(p) \/ Enqueue(p)
           \/ Flush \/ FlushReturn \/ Stop \/ Joined \/ ResetCounters
  <2>1. UNCHANGED <<fileVars, errors, crashes, aged, glued, lost, overlapped>>
    BY <1>3, CallersStay, Zenon
  <2> QED BY <1>2, <2>1
<1>4. CASE Crash
  <2>1. glued' = glued /\ errors' = errors /\ crashes' = crashes + 1
    BY <1>4 DEF Crash
  <2>2. errors' + crashes' = errors + crashes + 1
    BY <1>1, <2>1
  <2> QED BY <1>1, <2>1, <2>2, GluedKept
<1>5. CASE UNCHANGED vars
  BY <1>2, <1>5 DEF vars
<1> QED BY <1>1, <1>3, <1>4, <1>5, GluedWriter, Zenon DEF Next

\* Every record is in the file, on its way there, left out by a rewrite when memory did not
\* hold it any more, lost with a crash or glued to a line that a failure or a crash left
\* behind, or counted: drop_count and trace_write_errors never undercount, as long as no
\* rewrite has overlapped with another writer thread.
THEOREM NoSilentLoss == Spec => []LossesCounted
<1> DEFINE Inv == IInv /\ MeetInv /\ (overlapped \/ Accounted) /\ GluedInv
<1>1. Init => Inv
  BY InitIInv, InitMeet, InitCounted, InitGlued
<1>2. Inv /\ [Next]_vars => Inv'
  BY NextIInv, NextMeet, NextCounted, NextGlued
<1>3. Inv => LossesCounted
  <2> SUFFICES ASSUME Inv PROVE LossesCounted
    OBVIOUS
  <2>1. IsFiniteSet(1..recorded) /\ glued \subseteq 1..recorded /\ errors \in Nat /\ crashes \in Nat
    BY FS_Interval DEF IInv, TypeOK
  <2>2. Cardinality(glued) \in Nat
    BY <2>1, FS_Subset, FS_CardinalityType
  <2>3. Cardinality(glued) <= errors + crashes
    BY <2>1, <2>2 DEF GluedInv
  <2> QED BY <2>3 DEF LossesCounted, Accounted
<1> QED BY <1>1, <1>2, <1>3, PTL DEF Spec

=============================================================================
