-------------------------- MODULE InputBlock_proofs --------------------------
(***************************************************************************)
(* What the automata of InputBlock compute, for every input. The recursive *)
(* functions are reasoned about by induction over positions, which follows *)
(* from the well-foundedness of < on the naturals (WFMin) applied to the   *)
(* set of positions where a statement fails.                               *)
(***************************************************************************)
EXTENDS InputBlock, SequenceTheorems, FiniteSetTheorems, TLAPS

-----------------------------------------------------------------------------
(* Induction and recursion over the naturals *)

\* A set of naturals that is not empty has a smallest element.
LEMMA Smallest ==
    ASSUME NEW T, T \subseteq Nat, T # {}
    PROVE  \E x \in T : \A y \in T : x <= y
<1> DEFINE R == {p \in Nat \X Nat : p[1] < p[2]}
<1>1. IsWellFoundedOn(R, Nat)
  BY NatLessThanWellFounded DEF OpToRel
<1>2. PICK x \in T : \A y \in T : ~(<<y, x>> \in R)
  <2> HIDE DEF R
  <2> QED BY <1>1, WFMin
<1>3. ASSUME NEW y \in T PROVE x <= y
  <2>1. <<y, x>> \notin R /\ y \in Nat /\ x \in Nat
    BY <1>2
  <2> QED BY <2>1
<1> QED BY <1>3

\* What holds at 0 and is inherited by the next position up to n holds up to n.
LEMMA Induction ==
    ASSUME NEW n \in Nat, NEW S, 0 \in S,
           \A i \in 0..(n - 1) : i \in S => i + 1 \in S
    PROVE  \A i \in 0..n : i \in S
<1> DEFINE T == {i \in 0..n : i \notin S}
<1>1. SUFFICES ASSUME T # {} PROVE FALSE
  OBVIOUS
<1>2. PICK x \in T : \A y \in T : x <= y
  <2>1. T \subseteq Nat
    OBVIOUS
  <2> HIDE DEF T
  <2> QED BY <1>1, <2>1, Smallest
<1>3. x # 0 /\ x - 1 \in 0..(n - 1) /\ x - 1 \notin T
  BY <1>2
<1> QED BY <1>3

\* g is the recursion from a with step h, up to n.
Solves(g, n, a, h) == g[0] = a /\ \A i \in 1..n : g[i] = h[<<i, g[i - 1]>>]

\* A recursion over 0..n whose step is the function h has a solution.
LEMMA Recursion ==
    ASSUME NEW n \in Nat, NEW T, NEW a \in T, NEW h \in [(1..n) \X T -> T]
    PROVE  \E g \in [0..n -> T] : Solves(g, n, a, h)
<1> USE DEF Solves
<1> DEFINE S == {k \in 0..n : \E g \in [0..k -> T] : Solves(g, k, a, h)}
<1>1. 0 \in S
  <2> DEFINE g == [i \in 0..0 |-> a]
  <2>1. g \in [0..0 -> T] /\ Solves(g, 0, a, h)
    OBVIOUS
  <2>2. \E f \in [0..0 -> T] : Solves(f, 0, a, h)
    BY <2>1, Zenon
  <2> QED BY <2>2
<1>2. ASSUME NEW k \in 0..(n - 1), k \in S
      PROVE  k + 1 \in S
  <2>1. PICK g \in [0..k -> T] : Solves(g, k, a, h)
    BY <1>2
  <2> DEFINE f == [i \in 0..(k + 1) |-> IF i = k + 1 THEN h[<<k + 1, g[k]>>] ELSE g[i]]
  <2>2. f \in [0..(k + 1) -> T]
    <3> <<k + 1, g[k]>> \in (1..n) \X T
      OBVIOUS
    <3> QED OBVIOUS
  <2>3. Solves(f, k + 1, a, h)
    <3>1. f[0] = a
      BY <2>1
    <3>2. ASSUME NEW i \in 1..(k + 1) PROVE f[i] = h[<<i, f[i - 1]>>]
      <4>1. CASE i = k + 1
        <5>1. f[k + 1] = h[<<k + 1, g[k]>>] /\ f[k] = g[k]
          OBVIOUS
        <5> HIDE DEF f
        <5> QED BY <4>1, <5>1
      <4>2. CASE i \in 1..k
        BY <4>2, <2>1
      <4> QED BY <4>1, <4>2
    <3> QED BY <3>1, <3>2
  <2>4. \E e \in [0..(k + 1) -> T] : Solves(e, k + 1, a, h)
    BY <2>2, <2>3, Zenon
  <2> QED BY <2>4
<1>3. n \in S
  <2> HIDE DEF S
  <2> QED BY <1>1, <1>2, Induction
<1> QED BY <1>3

-----------------------------------------------------------------------------
(* Sequences *)

LEMMA SeqEq ==
    ASSUME NEW C, NEW s \in Seq(C), NEW t \in Seq(C), Len(s) = Len(t), \A i \in 1..Len(s) : s[i] = t[i]
    PROVE  s = t
  OBVIOUS

LEMMA SubSeqIs ==
    ASSUME NEW C, NEW s \in Seq(C), NEW x \in 0..Len(s), NEW y \in x..Len(s)
    PROVE  /\ SubSeq(s, x + 1, y) \in Seq(C)
           /\ Len(SubSeq(s, x + 1, y)) = y - x
           /\ \A i \in 1..(y - x) : SubSeq(s, x + 1, y)[i] = s[x + i]
  OBVIOUS

-----------------------------------------------------------------------------
(* The automaton of the end of data *)

States == {"SRC", "CR", "CR_LF", "CR_LF_DOT", "CR_LF_DOT_CR", "EoD"}

LEMMA EoDStepType ==
    ASSUME NEW st \in States, NEW ch
    PROVE  EoDStep(st, ch) \in States
  BY DEF EoDStep, States

\* The states of a block satisfy their recursion.
LEMMA EoDStatesDef ==
    ASSUME NEW C, NEW buf \in Seq(C)
    PROVE  /\ EoDStates(buf) \in [0..Len(buf) -> States]
           /\ EoDStates(buf)[0] = "SRC"
           /\ \A i \in 1..Len(buf) : EoDStates(buf)[i] = EoDStep(EoDStates(buf)[i - 1], buf[i])
<1> DEFINE n == Len(buf)
           T == States
           a == "SRC"
           K(i, s) == EoDStep(s, buf[i])
           h == [p \in (1..n) \X T |-> K(p[1], p[2])]
           Eq(g) == g = [i \in 0..n |-> IF i = 0 THEN a ELSE K(i, g[i - 1])]
           f == EoDStates(buf)
<1>1. n \in Nat /\ a \in T
  BY DEF States
<1>2. \A i \in 1..n : \A s \in T : K(i, s) \in T
  BY EoDStepType
<1>3. \E g : Eq(g)
  <2> HIDE DEF n, T, a, K
  <2>1. h \in [(1..n) \X T -> T]
    BY <1>2
  <2>2. PICK g \in [0..n -> T] : Solves(g, n, a, h)
    <3> HIDE DEF h
    <3> QED BY <1>1, <2>1, Recursion
  <2>3. ASSUME NEW i \in 1..n PROVE g[i] = K(i, g[i - 1])
    <3>1. <<i, g[i - 1]>> \in (1..n) \X T
      BY <1>1
    <3> QED BY <2>2, <3>1 DEF Solves
  <2>4. g[0] = a
    BY <2>2 DEF Solves
  <2>5. Eq(g)
    BY <1>1, <2>3, <2>4
  <2> QED BY <2>5
<1>4. Eq(f)
  BY <1>3, Zenon DEF EoDStates
<1> HIDE DEF n, T, a, K, f
<1>5. f[0] = a /\ \A i \in 1..n : f[i] = K(i, f[i - 1])
  BY <1>1, <1>4
<1>6. \A i \in 0..n : f[i] \in T
  <2> DEFINE S == {i \in 0..n : f[i] \in T}
  <2>1. 0 \in S
    BY <1>1, <1>5
  <2>2. ASSUME NEW i \in 0..(n - 1), i \in S PROVE i + 1 \in S
    <3>1. i + 1 \in 1..n /\ (i + 1) - 1 = i
      BY <1>1
    <3>2. f[i + 1] = K(i + 1, f[i])
      BY <1>5, <3>1
    <3> QED BY <1>1, <1>2, <2>2, <3>1, <3>2
  <2>3. \A i \in 0..n : i \in S
    <3> HIDE DEF S
    <3> QED BY <1>1, <2>1, <2>2, Induction
  <2> QED BY <2>3
<1>7. f \in [0..n -> T]
  BY <1>4, <1>6
<1> QED BY <1>5, <1>7, Zenon DEF f, n, T, a, K

-----------------------------------------------------------------------------
(* Escaped data *)

LEMMA EscapedByteType ==
    ASSUME NEW C, DOT \in C, NEW data \in Seq(C), NEW i \in 1..Len(data)
    PROVE  /\ EscapedByte(data, i) \in Seq(C)
           /\ Len(EscapedByte(data, i)) \in {1, 2}
  BY DEF EscapedByte

\* The escaped data satisfies its recursion.
LEMMA EscapedToDef ==
    ASSUME NEW C, DOT \in C, NEW data \in Seq(C)
    PROVE  /\ EscapedTo(data) \in [0..Len(data) -> Seq(C)]
           /\ EscapedTo(data)[0] = <<>>
           /\ \A i \in 1..Len(data) : EscapedTo(data)[i] = EscapedTo(data)[i - 1] \o EscapedByte(data, i)
<1> DEFINE n == Len(data)
           T == Seq(C)
           a == <<>>
           K(i, s) == s \o EscapedByte(data, i)
           h == [p \in (1..n) \X T |-> K(p[1], p[2])]
           Eq(g) == g = [i \in 0..n |-> IF i = 0 THEN a ELSE K(i, g[i - 1])]
           f == EscapedTo(data)
<1>1. n \in Nat /\ a \in T
  OBVIOUS
<1>2. \A i \in 1..n : \A s \in T : K(i, s) \in T
  BY EscapedByteType
<1>3. \E g : Eq(g)
  <2> HIDE DEF n, T, a, K
  <2>1. h \in [(1..n) \X T -> T]
    BY <1>2
  <2>2. PICK g \in [0..n -> T] : Solves(g, n, a, h)
    <3> HIDE DEF h
    <3> QED BY <1>1, <2>1, Recursion
  <2>3. ASSUME NEW i \in 1..n PROVE g[i] = K(i, g[i - 1])
    <3>1. <<i, g[i - 1]>> \in (1..n) \X T
      BY <1>1
    <3> QED BY <2>2, <3>1 DEF Solves
  <2>4. g[0] = a
    BY <2>2 DEF Solves
  <2>5. Eq(g)
    BY <1>1, <2>3, <2>4
  <2> QED BY <2>5
<1>4. Eq(f)
  BY <1>3, Zenon DEF EscapedTo
<1> HIDE DEF n, T, a, K, f
<1>5. f[0] = a /\ \A i \in 1..n : f[i] = K(i, f[i - 1])
  BY <1>1, <1>4
<1>6. \A i \in 0..n : f[i] \in T
  <2> DEFINE S == {i \in 0..n : f[i] \in T}
  <2>1. 0 \in S
    BY <1>1, <1>5
  <2>2. ASSUME NEW i \in 0..(n - 1), i \in S PROVE i + 1 \in S
    <3>1. i + 1 \in 1..n /\ (i + 1) - 1 = i
      BY <1>1
    <3>2. f[i + 1] = K(i + 1, f[i])
      BY <1>5, <3>1
    <3> QED BY <1>1, <1>2, <2>2, <3>1, <3>2
  <2>3. \A i \in 0..n : i \in S
    <3> HIDE DEF S
    <3> QED BY <1>1, <2>1, <2>2, Induction
  <2> QED BY <2>3
<1>7. f \in [0..n -> T]
  BY <1>4, <1>6
<1> QED BY <1>5, <1>7, Zenon DEF f, n, T, a, K

-----------------------------------------------------------------------------
(* Removing bytes *)

\* The bytes kept satisfy their recursion.
LEMMA KeptToDef ==
    ASSUME NEW C, NEW buf \in Seq(C), NEW del
    PROVE  /\ KeptTo(buf, del) \in [0..Len(buf) -> Seq(C)]
           /\ KeptTo(buf, del)[0] = <<>>
           /\ \A i \in 1..Len(buf) :
                 KeptTo(buf, del)[i] = IF i - 1 \in del THEN KeptTo(buf, del)[i - 1]
                                       ELSE Append(KeptTo(buf, del)[i - 1], buf[i])
<1> DEFINE n == Len(buf)
           T == Seq(C)
           a == <<>>
           K(i, s) == IF i - 1 \in del THEN s ELSE Append(s, buf[i])
           h == [p \in (1..n) \X T |-> K(p[1], p[2])]
           Eq(g) == g = [i \in 0..n |-> IF i = 0 THEN a ELSE K(i, g[i - 1])]
           f == KeptTo(buf, del)
<1>1. n \in Nat /\ a \in T
  OBVIOUS
<1>2. \A i \in 1..n : \A s \in T : K(i, s) \in T
  OBVIOUS
<1>3. \E g : Eq(g)
  <2> HIDE DEF n, T, a, K
  <2>1. h \in [(1..n) \X T -> T]
    BY <1>2
  <2>2. PICK g \in [0..n -> T] : Solves(g, n, a, h)
    <3> HIDE DEF h
    <3> QED BY <1>1, <2>1, Recursion
  <2>3. ASSUME NEW i \in 1..n PROVE g[i] = K(i, g[i - 1])
    <3>1. <<i, g[i - 1]>> \in (1..n) \X T
      BY <1>1
    <3> QED BY <2>2, <3>1 DEF Solves
  <2>4. g[0] = a
    BY <2>2 DEF Solves
  <2>5. Eq(g)
    BY <1>1, <2>3, <2>4
  <2> QED BY <2>5
<1>4. Eq(f)
  BY <1>3, Zenon DEF KeptTo
<1> HIDE DEF n, T, a, K, f
<1>5. f[0] = a /\ \A i \in 1..n : f[i] = K(i, f[i - 1])
  BY <1>1, <1>4
<1>6. \A i \in 0..n : f[i] \in T
  <2> DEFINE S == {i \in 0..n : f[i] \in T}
  <2>1. 0 \in S
    BY <1>1, <1>5
  <2>2. ASSUME NEW i \in 0..(n - 1), i \in S PROVE i + 1 \in S
    <3>1. i + 1 \in 1..n /\ (i + 1) - 1 = i
      BY <1>1
    <3>2. f[i + 1] = K(i + 1, f[i])
      BY <1>5, <3>1
    <3> QED BY <1>1, <1>2, <2>2, <3>1, <3>2
  <2>3. \A i \in 0..n : i \in S
    <3> HIDE DEF S
    <3> QED BY <1>1, <2>1, <2>2, Induction
  <2> QED BY <2>3
<1>7. f \in [0..n -> T]
  BY <1>4, <1>6
<1> QED BY <1>5, <1>7, Zenon DEF f, n, T, a, K

\* The elements below a bound, one by one.
Below(del, j) == {d \in del : d < j}

LEMMA BelowCount ==
    ASSUME NEW del, IsFiniteSet(del), del \subseteq Nat
    PROVE  /\ Cardinality(Below(del, 0)) = 0
           /\ \A j \in Nat : /\ Cardinality(Below(del, j)) \in Nat
                              /\ Cardinality(Below(del, j + 1)) =
                                   IF j \in del THEN Cardinality(Below(del, j)) + 1
                                   ELSE Cardinality(Below(del, j))
<1>1. \A j : IsFiniteSet(Below(del, j)) /\ Cardinality(Below(del, j)) \in Nat
  <2>1. \A j : Below(del, j) \subseteq del
    BY DEF Below
  <2> QED BY <2>1, FS_Subset, FS_CardinalityType
<1>2. Below(del, 0) = {}
  <2>1. \A d \in del : ~(d < 0)
    OBVIOUS
  <2> QED BY <2>1, Zenon DEF Below
<1>3. ASSUME NEW j \in Nat, j \in del
      PROVE  Cardinality(Below(del, j + 1)) = Cardinality(Below(del, j)) + 1
  <2>1. Below(del, j + 1) = Below(del, j) \cup {j} /\ j \notin Below(del, j)
    <3>1. \A d \in del : d < j + 1 <=> d < j \/ d = j
      BY <1>3
    <3>2. ~(j < j)
      OBVIOUS
    <3> QED BY <1>3, <3>1, <3>2, Zenon DEF Below
  <2> QED BY <1>1, <2>1, FS_AddElement
<1>4. ASSUME NEW j \in Nat, j \notin del
      PROVE  Below(del, j + 1) = Below(del, j)
  <2>1. \A d \in del : d < j + 1 <=> d < j
    BY <1>4
  <2> QED BY <2>1 DEF Below
<1> QED BY <1>1, <1>2, <1>3, <1>4, FS_EmptySet

\* The number of bytes kept.
LEMMA KeptLen ==
    ASSUME NEW C, NEW buf \in Seq(C), NEW del \in SUBSET (0..(Len(buf) - 1))
    PROVE  \A j \in 0..Len(buf) : Len(KeptTo(buf, del)[j]) = j - Cardinality(Below(del, j))
<1> DEFINE n == Len(buf)
           kept == KeptTo(buf, del)
           S == {j \in 0..n : Len(kept[j]) = j - Cardinality(Below(del, j))}
<1>1. n \in Nat /\ IsFiniteSet(del) /\ del \subseteq Nat
  <2>1. IsFiniteSet(0..(n - 1))
    BY FS_Interval
  <2>2. del \subseteq 0..(n - 1) /\ n \in Nat
    OBVIOUS
  <2>3. IsFiniteSet(del)
    BY <2>1, <2>2, FS_Subset
  <2> QED BY <2>2, <2>3
<1>2. kept \in [0..n -> Seq(C)] /\ kept[0] = <<>>
  BY KeptToDef
<1>3. \A i \in 1..n : kept[i] = IF i - 1 \in del THEN kept[i - 1] ELSE Append(kept[i - 1], buf[i])
  BY KeptToDef
<1>4. \A i \in 1..n : buf[i] \in C
  OBVIOUS
<1> HIDE DEF kept, n
<1>5. 0 \in S
  <2>1. Cardinality(Below(del, 0)) = 0
    BY <1>1, BelowCount
  <2>2. Len(kept[0]) = 0
    BY <1>2
  <2> QED BY <1>1, <2>1, <2>2
<1>6. ASSUME NEW j \in 0..(n - 1), j \in S PROVE j + 1 \in S
  <2>1. j + 1 \in 1..n /\ (j + 1) - 1 = j /\ j \in 0..n /\ j \in Nat /\ j + 1 \in 0..n
    BY <1>1
  <2>2. kept[j + 1] = IF j \in del THEN kept[j] ELSE Append(kept[j], buf[j + 1])
    BY <1>3, <2>1
  <2>3. kept[j] \in Seq(C) /\ buf[j + 1] \in C
    BY <1>2, <1>4, <2>1
  <2>4. Len(kept[j + 1]) = IF j \in del THEN Len(kept[j]) ELSE Len(kept[j]) + 1
    BY <2>2, <2>3
  <2>5. /\ Cardinality(Below(del, j)) \in Nat
        /\ Cardinality(Below(del, j + 1)) = IF j \in del THEN Cardinality(Below(del, j)) + 1
                                            ELSE Cardinality(Below(del, j))
    BY <1>1, <2>1, BelowCount
  <2>6. Len(kept[j]) = j - Cardinality(Below(del, j))
    BY <1>6
  <2> QED BY <2>1, <2>4, <2>5, <2>6
<1>7. \A j \in 0..n : j \in S
  <2> HIDE DEF S
  <2> QED BY <1>1, <1>5, <1>6, Induction
<1> QED BY <1>7 DEF kept, n

\* t starts with s.
Begins(s, t) == Len(s) <= Len(t) /\ \A i \in 1..Len(s) : t[i] = s[i]

\* What is kept of the first bytes is the beginning of what is kept of more.
LEMMA KeptPrefix ==
    ASSUME NEW C, NEW buf \in Seq(C), NEW del, NEW j \in 0..Len(buf), NEW m \in j..Len(buf)
    PROVE  Begins(KeptTo(buf, del)[j], KeptTo(buf, del)[m])
<1> DEFINE n == Len(buf)
           kept == KeptTo(buf, del)
           P(k) == /\ Len(kept[j]) <= Len(kept[k])
                   /\ \A i \in 1..Len(kept[j]) : kept[k][i] = kept[j][i]
           S == {x \in 0..(n - j) : P(j + x)}
<1>1. n \in Nat /\ n - j \in Nat /\ j \in Nat
  OBVIOUS
<1>2. kept \in [0..n -> Seq(C)]
  BY KeptToDef
<1>3. \A i \in 1..n : kept[i] = IF i - 1 \in del THEN kept[i - 1] ELSE Append(kept[i - 1], buf[i])
  BY KeptToDef
<1>b. \A i \in 1..n : buf[i] \in C
  OBVIOUS
<1> HIDE DEF kept, n
<1>4. 0 \in S
  <2>1. kept[j] \in Seq(C)
    BY <1>1, <1>2
  <2> QED BY <1>1, <2>1
<1>5. ASSUME NEW x \in 0..((n - j) - 1), x \in S PROVE x + 1 \in S
  <2> DEFINE k == j + x
  <2>1. k + 1 \in 1..n /\ (k + 1) - 1 = k /\ k \in 0..n /\ x + 1 \in 0..(n - j) /\ j + (x + 1) = k + 1
    BY <1>1
  <2>2. kept[k + 1] = IF k \in del THEN kept[k] ELSE Append(kept[k], buf[k + 1])
    BY <1>3, <2>1
  <2>3. kept[k] \in Seq(C) /\ buf[k + 1] \in C /\ kept[j] \in Seq(C)
    BY <1>1, <1>2, <1>b, <2>1
  <2>4. P(k)
    BY <1>5
  <2> HIDE DEF k
  <2>5. P(k + 1)
    BY <2>2, <2>3, <2>4
  <2> QED BY <2>1, <2>5
<1>6. \A x \in 0..(n - j) : x \in S
  <2> HIDE DEF S
  <2> QED BY <1>1, <1>4, <1>5, Induction
<1>7. P(j + (m - j))
  <2>1. m - j \in 0..(n - j)
    BY <1>1 DEF n
  <2> QED BY <1>6, <2>1
<1>8. j + (m - j) = m
  OBVIOUS
<1> QED BY <1>7, <1>8 DEF kept, Begins

-----------------------------------------------------------------------------
(* Escaped data, position by position *)

\* The escaped beginning of the data is the beginning of the escaped data.
LEMMA EscapedPrefix ==
    ASSUME NEW C, DOT \in C, NEW data \in Seq(C), NEW j \in 0..Len(data), NEW m \in j..Len(data)
    PROVE  /\ Len(EscapedTo(data)[j]) <= Len(EscapedTo(data)[m])
           /\ \A i \in 1..Len(EscapedTo(data)[j]) : EscapedTo(data)[m][i] = EscapedTo(data)[j][i]
<1> DEFINE n == Len(data)
           esc == EscapedTo(data)
           P(k) == /\ Len(esc[j]) <= Len(esc[k])
                   /\ \A i \in 1..Len(esc[j]) : esc[k][i] = esc[j][i]
           S == {x \in 0..(n - j) : P(j + x)}
<1>1. n \in Nat /\ n - j \in Nat /\ j \in Nat
  OBVIOUS
<1>2. esc \in [0..n -> Seq(C)]
  BY EscapedToDef
<1>3. \A i \in 1..n : esc[i] = esc[i - 1] \o EscapedByte(data, i) /\ EscapedByte(data, i) \in Seq(C)
  BY EscapedToDef, EscapedByteType
<1> HIDE DEF esc, n
<1>4. 0 \in S
  <2>1. esc[j] \in Seq(C)
    BY <1>1, <1>2
  <2> QED BY <1>1, <2>1
<1>5. ASSUME NEW x \in 0..((n - j) - 1), x \in S PROVE x + 1 \in S
  <2> DEFINE k == j + x
             b == EscapedByte(data, k + 1)
  <2>1. k + 1 \in 1..n /\ (k + 1) - 1 = k /\ k \in 0..n /\ x + 1 \in 0..(n - j) /\ j + (x + 1) = k + 1
    BY <1>1
  <2>2. esc[k + 1] = esc[k] \o b /\ b \in Seq(C)
    BY <1>3, <2>1
  <2>3. esc[k] \in Seq(C) /\ esc[j] \in Seq(C)
    BY <1>1, <1>2, <2>1
  <2>4. P(k)
    BY <1>5
  <2> HIDE DEF k, b
  <2>5. P(k + 1)
    BY <2>2, <2>3, <2>4, SMTT(30)
  <2> QED BY <2>1, <2>5
<1>6. \A x \in 0..(n - j) : x \in S
  <2> HIDE DEF S
  <2> QED BY <1>1, <1>4, <1>5, Induction
<1>7. P(j + (m - j))
  <2>1. m - j \in 0..(n - j)
    BY <1>1 DEF n
  <2> QED BY <1>6, <2>1
<1>8. j + (m - j) = m
  OBVIOUS
<1> QED BY <1>7, <1>8 DEF esc

LEMMA ConcatOne ==
    ASSUME NEW C, NEW s \in Seq(C), NEW e \in C
    PROVE  /\ s \o <<e>> \in Seq(C) /\ Len(s) \in Nat
           /\ Len(s \o <<e>>) = Len(s) + 1
           /\ (s \o <<e>>)[Len(s) + 1] = e
  OBVIOUS

LEMMA ConcatTwo ==
    ASSUME NEW C, NEW s \in Seq(C), NEW e \in C, NEW f \in C
    PROVE  /\ s \o <<e, f>> \in Seq(C) /\ Len(s) \in Nat
           /\ Len(s \o <<e, f>>) = Len(s) + 2
           /\ (s \o <<e, f>>)[Len(s) + 1] = e
           /\ (s \o <<e, f>>)[Len(s) + 2] = f
  OBVIOUS

\* Where the bytes of the data are found in a stream w that starts with the
\* escaped data.
LEMMA EscapedShape ==
    ASSUME NEW C, DOT \in C, NEW data \in Seq(C), NEW w \in Seq(C),
           Len(Escaped(data)) <= Len(w),
           \A i \in 1..Len(Escaped(data)) : w[i] = Escaped(data)[i],
           NEW k \in 1..Len(data)
    PROVE  /\ Len(EscapedTo(data)[k - 1]) \in Nat
           /\ Len(EscapedTo(data)[k]) <= Len(Escaped(data))
           /\ IF data[k] = DOT /\ k > 1 /\ data[k - 1] = LF
              THEN /\ Len(EscapedTo(data)[k]) = Len(EscapedTo(data)[k - 1]) + 2
                   /\ w[Len(EscapedTo(data)[k - 1]) + 1] = DOT
                   /\ w[Len(EscapedTo(data)[k - 1]) + 2] = DOT
              ELSE /\ Len(EscapedTo(data)[k]) = Len(EscapedTo(data)[k - 1]) + 1
                   /\ w[Len(EscapedTo(data)[k - 1]) + 1] = data[k]
<1> DEFINE n == Len(data)
           esc == EscapedTo(data)
           b == EscapedByte(data, k)
           l == Len(esc[k - 1])
<1>1. k \in 0..n /\ k - 1 \in 0..n /\ n \in 0..n /\ n \in k..n /\ n \in Nat
  OBVIOUS
<1>2. esc \in [0..n -> Seq(C)] /\ esc[k] = esc[k - 1] \o b
  BY EscapedToDef
<1>3. b \in Seq(C) /\ b = IF data[k] = DOT /\ k > 1 /\ data[k - 1] = LF THEN <<DOT, DOT>> ELSE <<data[k]>>
  BY EscapedByteType DEF EscapedByte
<1>4. Len(esc[k]) <= Len(esc[n]) /\ \A i \in 1..Len(esc[k]) : esc[n][i] = esc[k][i]
  BY <1>1, EscapedPrefix
<1>5. \A i \in 1..Len(esc[k]) : w[i] = esc[k][i]
  <2>1. Escaped(data) = esc[n]
    BY DEF Escaped
  <2>2. esc[n] \in Seq(C) /\ esc[k] \in Seq(C)
    <3> HIDE DEF esc, n
    <3> QED BY <1>1, <1>2
  <2> HIDE DEF esc, n
  <2> QED BY <1>4, <2>1, <2>2
<1>6. esc[k - 1] \in Seq(C) /\ esc[k] \in Seq(C)
  <2> HIDE DEF esc, n
  <2> QED BY <1>1, <1>2
<1>7. Len(esc[k]) <= Len(Escaped(data))
  BY <1>4 DEF Escaped
<1>8. CASE data[k] = DOT /\ k > 1 /\ data[k - 1] = LF
  <2>1. b = <<DOT, DOT>>
    BY <1>3, <1>8
  <2> HIDE DEF esc, b, n
  <2>2. Len(esc[k]) = l + 2 /\ esc[k][l + 1] = DOT /\ esc[k][l + 2] = DOT /\ l \in Nat
    BY <1>2, <1>6, <2>1, ConcatTwo
  <2>3. l + 1 \in 1..Len(esc[k]) /\ l + 2 \in 1..Len(esc[k])
    <3> HIDE DEF l
    <3> QED BY <2>2
  <2>4. w[l + 1] = DOT /\ w[l + 2] = DOT
    <3> HIDE DEF l
    <3> QED BY <2>2, <2>3, <1>5
  <2> QED BY <2>2, <2>4, <1>7, <1>8 DEF esc
<1>9. CASE ~(data[k] = DOT /\ k > 1 /\ data[k - 1] = LF)
  <2>1. b = <<data[k]>>
    BY <1>3, <1>9
  <2> HIDE DEF esc, b, n
  <2>2. Len(esc[k]) = l + 1 /\ esc[k][l + 1] = data[k] /\ l \in Nat
    <3>1. data[k] \in C
      OBVIOUS
    <3> QED BY <1>2, <1>6, <2>1, <3>1, ConcatOne
  <2>3. l + 1 \in 1..Len(esc[k])
    <3> HIDE DEF l
    <3> QED BY <2>2
  <2>4. w[l + 1] = data[k]
    <3> HIDE DEF l
    <3> QED BY <2>2, <2>3, <1>5
  <2> QED BY <2>2, <2>4, <1>7, <1>9 DEF esc
<1> QED BY <1>8, <1>9

\* Escaping the beginning of the data is the beginning of escaping it.
LEMMA EscapedPart ==
    ASSUME NEW C, DOT \in C, NEW data \in Seq(C), NEW k \in 0..Len(data)
    PROVE  Escaped(SubSeq(data, 1, k)) = EscapedTo(data)[k]
<1> DEFINE part == SubSeq(data, 1, k)
           esc == EscapedTo(data)
           escp == EscapedTo(part)
           S == {i \in 0..k : escp[i] = esc[i]}
<1>1. part \in Seq(C) /\ Len(part) = k /\ k \in Nat /\ \A i \in 1..k : part[i] = data[i]
  OBVIOUS
<1>2. esc[0] = <<>> /\ \A i \in 1..Len(data) : esc[i] = esc[i - 1] \o EscapedByte(data, i)
  BY EscapedToDef
<1>3. escp[0] = <<>> /\ \A i \in 1..k : escp[i] = escp[i - 1] \o EscapedByte(part, i)
  <2> HIDE DEF part
  <2> QED BY <1>1, EscapedToDef
<1>4. \A i \in 1..k : EscapedByte(part, i) = EscapedByte(data, i)
  <2> HIDE DEF part
  <2>1. ASSUME NEW i \in 1..k PROVE EscapedByte(part, i) = EscapedByte(data, i)
    <3>1. part[i] = data[i] /\ (i > 1 => part[i - 1] = data[i - 1])
      BY <1>1
    <3> QED BY <3>1 DEF EscapedByte
  <2> QED BY <2>1
<1> HIDE DEF part, esc, escp
<1>5. 0 \in S
  BY <1>1, <1>2, <1>3
<1>6. ASSUME NEW i \in 0..(k - 1), i \in S PROVE i + 1 \in S
  <2>1. i + 1 \in 1..k /\ i + 1 \in 1..Len(data) /\ (i + 1) - 1 = i
    BY <1>1
  <2>2. escp[i] = esc[i]
    BY <1>6
  <2>3. esc[i + 1] = esc[i] \o EscapedByte(data, i + 1)
    BY <1>2, <2>1
  <2>4. escp[i + 1] = escp[i] \o EscapedByte(data, i + 1)
    BY <1>3, <1>4, <2>1
  <2>5. escp[i + 1] = esc[i + 1]
    BY <2>2, <2>3, <2>4, Zenon
  <2> QED BY <2>1, <2>5
<1>7. \A i \in 0..k : i \in S
  <2> HIDE DEF S
  <2> QED BY <1>1, <1>5, <1>6, Induction
<1>8. escp[k] = esc[k]
  BY <1>1, <1>7
<1> QED BY <1>1, <1>8 DEF Escaped, part, esc, escp

-----------------------------------------------------------------------------
(* A stream of escaped data, the marker and whatever follows *)

\* The transitions of the automaton, by the state they lead to.
LEMMA StepTo ==
    ASSUME NEW s \in States, NEW ch
    PROVE  /\ EoDStep(s, ch) = "CR" <=> ch = CR /\ s \notin {"CR_LF_DOT", "EoD"}
           /\ EoDStep(s, ch) = "CR_LF" <=> ch = LF /\ s \in {"SRC", "CR", "CR_LF"}
           /\ EoDStep(s, ch) = "CR_LF_DOT" <=> ch = DOT /\ s = "CR_LF"
           /\ EoDStep(s, ch) = "CR_LF_DOT_CR" <=> ch = CR /\ s = "CR_LF_DOT"
           /\ EoDStep(s, ch) = "EoD" <=> s = "EoD" \/ (ch = LF /\ s \in {"CR_LF_DOT", "CR_LF_DOT_CR"})
           /\ EoDStep(s, ch) \in States
<1>1. EoDStep(s, ch) = IF s = "EoD" THEN "EoD"
        ELSE IF ch = CR THEN (IF s = "CR_LF_DOT" THEN "CR_LF_DOT_CR" ELSE "CR")
        ELSE IF ch = LF THEN (IF s \in {"CR_LF_DOT", "CR_LF_DOT_CR"} THEN "EoD" ELSE "CR_LF")
        ELSE IF ch = DOT THEN (IF s = "CR_LF" THEN "CR_LF_DOT" ELSE "SRC")
        ELSE "SRC"
  <2>1. CASE ch = CR
    BY <2>1, CharsDiffer DEF EoDStep, States
  <2>2. CASE ch = LF
    BY <2>2, CharsDiffer DEF EoDStep, States
  <2>3. CASE ch = DOT
    BY <2>3, CharsDiffer DEF EoDStep, States
  <2>4. CASE ch \notin {CR, LF, DOT}
    BY <2>4 DEF EoDStep, States
  <2> QED BY <2>1, <2>2, <2>3, <2>4
<1>2. s \in {"SRC", "CR", "CR_LF", "CR_LF_DOT", "CR_LF_DOT_CR", "EoD"}
  BY DEF States
<1>3. EoDStep(s, ch) \in States
  BY EoDStepType
<1> QED BY <1>1, <1>2, <1>3, CharsDiffer

\* w starts with the escaped data and the marker.
IsStream(w, data) ==
    /\ Len(Escaped(data)) + 5 <= Len(w)
    /\ \A i \in 1..Len(Escaped(data)) : w[i] = Escaped(data)[i]
    /\ \A i \in 1..5 : w[Len(Escaped(data)) + i] = Marker[i]

\* The positions of the removed dots and, for each position of w, the data found
\* up to it.
Dots(w) == {d \in 0..(Len(w) - 1) : EoDStates(w)[d + 1] = "CR_LF_DOT"}
Found(w) == KeptTo(w, Dots(w))

\* One byte more.
LEMMA FoundStep ==
    ASSUME NEW C, NEW w \in Seq(C), NEW i \in 0..(Len(w) - 1)
    PROVE  /\ EoDStates(w)[i + 1] = EoDStep(EoDStates(w)[i], w[i + 1])
           /\ EoDStates(w)[i] \in States
           /\ Found(w)[i] \in Seq(C)
           /\ Found(w)[i + 1] = IF EoDStates(w)[i + 1] = "CR_LF_DOT" THEN Found(w)[i]
                                ELSE Append(Found(w)[i], w[i + 1])
<1>1. i + 1 \in 1..Len(w) /\ (i + 1) - 1 = i /\ i \in 0..Len(w) /\ Len(w) \in Nat
  OBVIOUS
<1>2. /\ EoDStates(w)[i + 1] = EoDStep(EoDStates(w)[i], w[i + 1])
      /\ EoDStates(w)[i] \in States
  BY <1>1, EoDStatesDef
<1>3. /\ Found(w) \in [0..Len(w) -> Seq(C)]
      /\ Found(w)[i + 1] = IF i \in Dots(w) THEN Found(w)[i] ELSE Append(Found(w)[i], w[i + 1])
  BY <1>1, KeptToDef DEF Found
<1>4. i \in Dots(w) <=> EoDStates(w)[i + 1] = "CR_LF_DOT"
  BY DEF Dots
<1> QED BY <1>1, <1>2, <1>3, <1>4

LEMMA AppendPart ==
    ASSUME NEW C, NEW data \in Seq(C), NEW k \in 0..(Len(data) - 1)
    PROVE  Append(SubSeq(data, 1, k), data[k + 1]) = SubSeq(data, 1, k + 1)
  OBVIOUS

\* Reading the escaped data back: at every position the data found is a beginning
\* of the data and the end of data is not seen.
LEMMA StreamData ==
    ASSUME NEW C, {CR, LF, DOT} \subseteq C, NEW data \in Seq(C), NEW w \in Seq(C), IsStream(w, data)
    PROVE  /\ Len(Escaped(data)) \in Nat
           /\ \A i \in 0..Len(Escaped(data)) :
                 /\ EoDStates(w)[i] \in {"SRC", "CR", "CR_LF", "CR_LF_DOT"}
                 /\ \E m \in 0..Len(data) : Found(w)[i] = SubSeq(data, 1, m)
           /\ EoDStates(w)[Len(Escaped(data))] \in {"SRC", "CR", "CR_LF"}
           /\ Found(w)[Len(Escaped(data))] = data
<1> DEFINE n == Len(data)
           esc == EscapedTo(data)
           l(k) == Len(esc[k])
           G == EoDStates(w)
           D == Found(w)
           N == Len(w)
           Good(i) == /\ G[i] \in {"SRC", "CR", "CR_LF", "CR_LF_DOT"}
                      /\ \E m \in 0..n : D[i] = SubSeq(data, 1, m)
           At(k) == /\ G[l(k)] \in {"SRC", "CR", "CR_LF"}
                    /\ G[l(k)] = "CR_LF" <=> k > 0 /\ data[k] = LF
                    /\ D[l(k)] = SubSeq(data, 1, k)
                    /\ \A i \in 0..l(k) : Good(i)
           S == {k \in 0..n : At(k)}
<1>1. n \in Nat /\ N \in Nat /\ DOT \in C
  OBVIOUS
<1>2. Escaped(data) = esc[n] /\ esc \in [0..n -> Seq(C)] /\ esc[0] = <<>>
  BY EscapedToDef DEF Escaped
<1>3. \A k \in 0..n : l(k) \in Nat
  <2> HIDE DEF esc, n
  <2> QED BY <1>2
<1>4. \A k \in 1..n :
         /\ l(k) <= l(n)
         /\ IF data[k] = DOT /\ k > 1 /\ data[k - 1] = LF
            THEN l(k) = l(k - 1) + 2 /\ w[l(k - 1) + 1] = DOT /\ w[l(k - 1) + 2] = DOT
            ELSE l(k) = l(k - 1) + 1 /\ w[l(k - 1) + 1] = data[k]
  <2>1. Len(Escaped(data)) <= N /\ \A i \in 1..Len(Escaped(data)) : w[i] = Escaped(data)[i]
    <3>1. Len(Escaped(data)) \in Nat
      BY <1>1, <1>2, <1>3
    <3> QED BY <1>1, <3>1 DEF IsStream
  <2> QED BY <1>1, <1>2, <2>1, EscapedShape, ZenonT(40)
<1>5. \A i \in 0..(N - 1) :
         /\ G[i + 1] = EoDStep(G[i], w[i + 1])
         /\ G[i] \in States
         /\ D[i] \in Seq(C)
         /\ D[i + 1] = IF G[i + 1] = "CR_LF_DOT" THEN D[i] ELSE Append(D[i], w[i + 1])
  BY FoundStep
<1>6. l(n) + 5 <= N
  BY <1>2 DEF IsStream
<1>7. G[0] = "SRC" /\ D[0] = <<>> /\ l(0) = 0
  BY <1>2, EoDStatesDef, KeptToDef DEF Found
<1>8. \A k \in 0..(n - 1) : Append(SubSeq(data, 1, k), data[k + 1]) = SubSeq(data, 1, k + 1)
  BY AppendPart
<1>9. SubSeq(data, 1, 0) = <<>> /\ SubSeq(data, 1, n) = data
  OBVIOUS
<1> HIDE DEF n, l, G, D, N
<1>10. 0 \in S
  <2>1. Good(0)
    <3>1. 0 \in 0..n /\ D[0] = SubSeq(data, 1, 0)
      BY <1>1, <1>7, <1>9
    <3> QED BY <1>7, <3>1
  <2>2. \A i \in 0..0 : Good(i)
    <3> HIDE DEF Good
    <3> QED BY <2>1
  <2> QED BY <1>1, <1>7, <1>9, <2>2
<1>11. ASSUME NEW k \in 0..(n - 1), k \in S PROVE k + 1 \in S
  <2> DEFINE p == l(k)
             ch == data[k + 1]
  <2>1. k + 1 \in 1..n /\ (k + 1) - 1 = k /\ k \in 0..n /\ k + 1 \in 0..n /\ k + 1 > 0
    BY <1>1
  <2>2. p \in Nat /\ l(k + 1) \in Nat /\ l(k + 1) <= l(n) /\ l(n) \in Nat
    BY <1>1, <1>3, <1>4, <2>1
  <2>3. IF ch = DOT /\ k > 0 /\ data[k] = LF
        THEN l(k + 1) = p + 2 /\ w[p + 1] = DOT /\ w[p + 2] = DOT
        ELSE l(k + 1) = p + 1 /\ w[p + 1] = ch
    <3>1. k + 1 > 1 <=> k > 0
      BY <2>1
    <3> QED BY <1>4, <2>1, <3>1
  <2>4. At(k)
    BY <1>11
  <2>5. p \in 0..(N - 1) /\ (l(k + 1) = p + 2 => p + 1 \in 0..(N - 1))
    BY <1>1, <1>6, <2>2, <2>3, SMTT(30)
  <2>6. /\ G[p + 1] = EoDStep(G[p], w[p + 1])
        /\ D[p + 1] = IF G[p + 1] = "CR_LF_DOT" THEN D[p] ELSE Append(D[p], w[p + 1])
    BY <1>5, <2>5
  <2> HIDE DEF p, ch
  <2>7. CASE ch = DOT /\ k > 0 /\ data[k] = LF
    <3>1. l(k + 1) = p + 2 /\ w[p + 1] = DOT /\ w[p + 2] = DOT /\ G[p] = "CR_LF"
      BY <2>3, <2>4, <2>7 DEF p
    <3>2. G[p + 1] = "CR_LF_DOT" /\ D[p + 1] = SubSeq(data, 1, k)
      BY <2>4, <2>6, <3>1, StepTo DEF p, States
    <3>3. (p + 1) + 1 = p + 2
      BY <2>2
    <3>4. G[p + 2] = EoDStep(G[p + 1], DOT)
      BY <1>5, <2>5, <3>1, <3>3
    <3>5. G[p + 2] = "SRC"
      <4>1. "CR_LF_DOT" \in States
        BY DEF States
      <4> QED BY <3>2, <3>4, <4>1, StepTo, CharsDiffer DEF States
    <3>6. D[p + 2] = Append(D[p + 1], DOT)
      BY <1>5, <2>5, <3>1, <3>3, <3>5
    <3>7. D[p + 2] = SubSeq(data, 1, k + 1)
      BY <1>8, <2>7, <3>2, <3>6 DEF ch
    <3>8. data[k + 1] # LF
      BY <2>7, CharsDiffer DEF ch
    <3>9. Good(p + 1) /\ Good(p + 2)
      BY <2>1, <3>2, <3>5, <3>7
    <3>10. \A i \in 0..(p + 2) : Good(i)
      <4> HIDE DEF Good
      <4>1. \A i \in 0..(p + 2) : i \in 0..p \/ i = p + 1 \/ i = p + 2
        BY <2>2
      <4>2. \A i \in 0..p : Good(i)
        BY <2>4 DEF p
      <4> QED BY <3>9, <4>1, <4>2
    <3> QED BY <2>1, <3>1, <3>5, <3>7, <3>8, <3>10
  <2>8. CASE ~(ch = DOT /\ k > 0 /\ data[k] = LF)
    <3>1. l(k + 1) = p + 1 /\ w[p + 1] = ch
      BY <2>3, <2>8
    <3>2. G[p] \in {"SRC", "CR", "CR_LF"} /\ (G[p] = "CR_LF" => ch # DOT) /\ G[p] \in States
      BY <2>4, <2>8 DEF p, States
    <3>3. G[p + 1] \in {"SRC", "CR", "CR_LF"} /\ (G[p + 1] = "CR_LF" <=> ch = LF)
      <4>1. G[p + 1] = EoDStep(G[p], ch)
        BY <2>6, <3>1
      <4> QED BY <3>2, <4>1, StepTo DEF States
    <3>4. D[p + 1] = SubSeq(data, 1, k + 1)
      BY <1>8, <2>4, <2>6, <3>1, <3>3 DEF ch, p
    <3>5. Good(p + 1)
      BY <2>1, <3>3, <3>4
    <3>6. \A i \in 0..(p + 1) : Good(i)
      <4> HIDE DEF Good
      <4>1. \A i \in 0..(p + 1) : i \in 0..p \/ i = p + 1
        BY <2>2
      <4>2. \A i \in 0..p : Good(i)
        BY <2>4 DEF p
      <4> QED BY <3>5, <4>1, <4>2
    <3> QED BY <2>1, <3>1, <3>3, <3>4, <3>6 DEF ch
  <2> QED BY <2>7, <2>8
<1>12. n \in S
  <2>1. \A k \in 0..n : k \in S
    <3> HIDE DEF S
    <3> QED BY <1>1, <1>10, <1>11, Induction
  <2>2. n \in 0..n
    BY <1>1
  <2> QED BY <2>1, <2>2
<1>13. Len(Escaped(data)) = l(n) /\ l(n) \in Nat
  BY <1>1, <1>2, <1>3 DEF l
<1> QED BY <1>9, <1>12, <1>13 DEF G, D, n

\* The marker behind the data is seen, and nothing behind it is looked at.
LEMMA StreamMarker ==
    ASSUME NEW C, {CR, LF, DOT} \subseteq C, NEW data \in Seq(C), NEW w \in Seq(C), IsStream(w, data),
           NEW e, e = Len(Escaped(data))
    PROVE  /\ EoDStates(w)[e + 1] = "CR"
           /\ EoDStates(w)[e + 2] = "CR_LF"
           /\ EoDStates(w)[e + 3] = "CR_LF_DOT"
           /\ EoDStates(w)[e + 4] = "CR_LF_DOT_CR"
           /\ \A i \in (e + 5)..Len(w) : EoDStates(w)[i] = "EoD"
<1> DEFINE G == EoDStates(w)
           N == Len(w)
<1>1. e \in Nat /\ N \in Nat /\ e + 5 <= N
  BY StreamData DEF IsStream
<1>2. \A i \in 0..(N - 1) : G[i + 1] = EoDStep(G[i], w[i + 1]) /\ G[i] \in States
  BY FoundStep
<1>3. G[e] \in {"SRC", "CR", "CR_LF"}
  BY StreamData
<1>4. w[e + 1] = CR /\ w[e + 2] = LF /\ w[e + 3] = DOT /\ w[e + 4] = CR /\ w[e + 5] = LF
  BY DEF IsStream, Marker
<1>5. /\ (e + 1) + 1 = e + 2 /\ (e + 2) + 1 = e + 3 /\ (e + 3) + 1 = e + 4 /\ (e + 4) + 1 = e + 5
      /\ e \in 0..(N - 1) /\ e + 1 \in 0..(N - 1) /\ e + 2 \in 0..(N - 1) /\ e + 3 \in 0..(N - 1)
      /\ e + 4 \in 0..(N - 1)
  BY <1>1
<1> HIDE DEF G, N
<1>6. G[e + 1] = "CR"
  BY <1>2, <1>3, <1>4, <1>5, StepTo, SMTT(30)
<1>7. G[e + 2] = "CR_LF"
  BY <1>2, <1>4, <1>5, <1>6, StepTo, SMTT(30)
<1>8. G[e + 3] = "CR_LF_DOT"
  BY <1>2, <1>4, <1>5, <1>7, StepTo, SMTT(30)
<1>9. G[e + 4] = "CR_LF_DOT_CR"
  BY <1>2, <1>4, <1>5, <1>8, StepTo, SMTT(30)
<1>10. G[e + 5] = "EoD"
  BY <1>2, <1>4, <1>5, <1>9, StepTo
<1> DEFINE S == {x \in 0..(N - (e + 5)) : G[(e + 5) + x] = "EoD"}
<1>11. 0 \in S
  <2>1. (e + 5) + 0 = e + 5 /\ 0 \in 0..(N - (e + 5))
    BY <1>1
  <2> QED BY <1>10, <2>1
<1>12. ASSUME NEW x \in 0..((N - (e + 5)) - 1), x \in S PROVE x + 1 \in S
  <2>1. /\ (e + 5) + x \in 0..(N - 1) /\ ((e + 5) + x) + 1 = (e + 5) + (x + 1)
        /\ x + 1 \in 0..(N - (e + 5))
    BY <1>1
  <2>2. G[(e + 5) + (x + 1)] = "EoD"
    BY <1>2, <1>12, <2>1, StepTo
  <2> QED BY <2>1, <2>2
<1>13. \A x \in 0..(N - (e + 5)) : x \in S
  <2>1. N - (e + 5) \in Nat
    BY <1>1
  <2> HIDE DEF S
  <2> QED BY <1>11, <1>12, <2>1, Induction
<1>14. \A i \in (e + 5)..N : G[i] = "EoD"
  <2>1. ASSUME NEW i \in (e + 5)..N PROVE G[i] = "EoD"
    <3>1. i - (e + 5) \in 0..(N - (e + 5)) /\ (e + 5) + (i - (e + 5)) = i
      BY <1>1
    <3> QED BY <1>13, <3>1
  <2> QED BY <2>1
<1> QED BY <1>6, <1>7, <1>8, <1>9, <1>14 DEF G, N

-----------------------------------------------------------------------------
(* A block of the stream *)

\* A position where reading can start anew: the automaton is in its initial state
\* or the next byte starts a candidate for a marker.
Sync(w, p) ==
    \/ EoDStates(w)[p] = "SRC"
    \/ p < Len(w) /\ EoDStates(w)[p + 1] = EoDStep("SRC", w[p + 1])

\* buf holds the bytes of w from position p, where reading can start anew.
IsBlock(buf, w, p) ==
    /\ Len(buf) >= 1
    /\ p + Len(buf) <= Len(w)
    /\ \A i \in 1..Len(buf) : buf[i] = w[p + i]
    /\ Sync(w, p)

\* In a block the automaton goes through the states it has in the stream.
LEMMA BlockStates ==
    ASSUME NEW C, NEW w \in Seq(C), NEW buf \in Seq(C), NEW p \in Nat, IsBlock(buf, w, p)
    PROVE  /\ EoDStates(buf)[0] = "SRC"
           /\ \A j \in 1..Len(buf) : EoDStates(buf)[j] = EoDStates(w)[p + j]
<1> DEFINE n == Len(buf)
           N == Len(w)
           G == EoDStates(w)
           st == EoDStates(buf)
           S == {j \in 0..(n - 1) : st[j + 1] = G[p + (j + 1)]}
<1>1. n \in Nat /\ N \in Nat /\ n >= 1 /\ p + n <= N
  BY DEF IsBlock
<1>2. \A i \in 0..(N - 1) : G[i + 1] = EoDStep(G[i], w[i + 1])
  BY FoundStep
<1>3. st[0] = "SRC" /\ \A i \in 1..n : st[i] = EoDStep(st[i - 1], buf[i])
  BY EoDStatesDef
<1>4. \A i \in 1..n : buf[i] = w[p + i]
  BY DEF IsBlock
<1>5. G[p] = "SRC" \/ G[p + 1] = EoDStep("SRC", w[p + 1])
  BY DEF IsBlock, Sync
<1> HIDE DEF n, N, G, st
<1>6. 0 \in S
  <2>1. 1 \in 1..n /\ 1 - 1 = 0 /\ p \in 0..(N - 1) /\ 0 \in 0..(n - 1) /\ 0 + 1 = 1
    BY <1>1
  <2>2. st[1] = EoDStep("SRC", w[p + 1])
    BY <1>3, <1>4, <2>1
  <2>3. G[p + 1] = EoDStep("SRC", w[p + 1])
    BY <1>2, <1>5, <2>1
  <2> QED BY <2>1, <2>2, <2>3
<1>7. ASSUME NEW j \in 0..((n - 1) - 1), j \in S PROVE j + 1 \in S
  <2>1. /\ j + 1 \in 0..(n - 1) /\ (j + 1) + 1 \in 1..n /\ ((j + 1) + 1) - 1 = j + 1
        /\ p + (j + 1) \in 0..(N - 1) /\ (p + (j + 1)) + 1 = p + ((j + 1) + 1)
    BY <1>1
  <2>2. st[(j + 1) + 1] = EoDStep(st[j + 1], w[p + ((j + 1) + 1)])
    BY <1>3, <1>4, <2>1
  <2>3. G[p + ((j + 1) + 1)] = EoDStep(G[p + (j + 1)], w[p + ((j + 1) + 1)])
    BY <1>2, <2>1
  <2>4. st[j + 1] = G[p + (j + 1)]
    BY <1>7
  <2> QED BY <2>1, <2>2, <2>3, <2>4
<1>8. \A j \in 0..(n - 1) : j \in S
  <2>1. n - 1 \in Nat
    BY <1>1
  <2> HIDE DEF S
  <2> QED BY <1>6, <1>7, <2>1, Induction
<1>9. ASSUME NEW j \in 1..n PROVE st[j] = G[p + j]
  <2>1. j - 1 \in 0..(n - 1) /\ (j - 1) + 1 = j
    BY <1>1
  <2> QED BY <1>8, <2>1
<1> QED BY <1>3, <1>9 DEF G, n, st

LEMMA ConcatAppend ==
    ASSUME NEW C, NEW s \in Seq(C), NEW t \in Seq(C), NEW x \in C
    PROVE  s \o Append(t, x) = Append(s \o t, x)
<1>1. Len(s \o Append(t, x)) = Len(Append(s \o t, x))
  OBVIOUS
<1>2. \A i \in 1..Len(s \o Append(t, x)) : (s \o Append(t, x))[i] = Append(s \o t, x)[i]
  OBVIOUS
<1>3. s \o Append(t, x) \in Seq(C) /\ Append(s \o t, x) \in Seq(C)
  OBVIOUS
<1> QED BY <1>1, <1>2, <1>3

\* The first x bytes of the block add what is found in them to what is found in w.
Adds(buf, x, w, p) == Found(w)[p + x] = Found(w)[p] \o Found(buf)[x]

\* The data found in the stream is what was found before the block and what is
\* found in it.
LEMMA BlockFound ==
    ASSUME NEW C, NEW w \in Seq(C), NEW buf \in Seq(C), NEW p \in Nat, IsBlock(buf, w, p),
           NEW x \in 0..Len(buf)
    PROVE  Adds(buf, x, w, p)
<1> DEFINE n == Len(buf)
           N == Len(w)
           G == EoDStates(w)
           st == EoDStates(buf)
           D == Found(w)
           F == Found(buf)
           S == {j \in 0..n : D[p + j] = D[p] \o F[j]}
<1>1. n \in Nat /\ N \in Nat /\ p + n <= N
  BY DEF IsBlock
<1>2. \A i \in 0..(N - 1) : /\ D[i + 1] = IF G[i + 1] = "CR_LF_DOT" THEN D[i] ELSE Append(D[i], w[i + 1])
                            /\ D[i] \in Seq(C)
  BY FoundStep
<1>3. \A i \in 0..(n - 1) : /\ F[i + 1] = IF st[i + 1] = "CR_LF_DOT" THEN F[i] ELSE Append(F[i], buf[i + 1])
                            /\ F[i] \in Seq(C)
  BY FoundStep
<1>4. \A i \in 1..n : buf[i] = w[p + i] /\ st[i] = G[p + i] /\ buf[i] \in C
  <2>1. \A i \in 1..n : st[i] = G[p + i]
    BY BlockStates
  <2>2. \A i \in 1..n : buf[i] = w[p + i]
    BY DEF IsBlock
  <2>3. \A i \in 1..n : buf[i] \in C
    OBVIOUS
  <2> QED BY <2>1, <2>2, <2>3, Zenon
<1>5. F[0] = <<>> /\ D[p] \in Seq(C)
  <2>1. p \in 0..N
    BY <1>1
  <2> QED BY <2>1, KeptToDef DEF Found
<1>a. \A s, t \in Seq(C) : \A c \in C : s \o Append(t, c) = Append(s \o t, c)
  BY ConcatAppend
<1> HIDE DEF n, N, G, st, D, F
<1>6. 0 \in S
  <2>1. p + 0 = p /\ 0 \in 0..n
    BY <1>1
  <2>2. D[p] \o <<>> = D[p]
    BY <1>5
  <2> QED BY <1>5, <2>1, <2>2
<1>7. ASSUME NEW j \in 0..(n - 1), j \in S PROVE j + 1 \in S
  <2>1. /\ j + 1 \in 0..n /\ j + 1 \in 1..n /\ p + j \in 0..(N - 1) /\ (p + j) + 1 = p + (j + 1)
    BY <1>1
  <2>2. D[p + (j + 1)] = IF st[j + 1] = "CR_LF_DOT" THEN D[p + j] ELSE Append(D[p + j], buf[j + 1])
    BY <1>2, <1>4, <2>1
  <2>3. F[j + 1] = IF st[j + 1] = "CR_LF_DOT" THEN F[j] ELSE Append(F[j], buf[j + 1])
    BY <1>3
  <2>4. D[p + j] = D[p] \o F[j] /\ F[j] \in Seq(C) /\ buf[j + 1] \in C
    BY <1>3, <1>4, <1>7, <2>1
  <2>5. D[p] \o Append(F[j], buf[j + 1]) = Append(D[p] \o F[j], buf[j + 1])
    BY <1>5, <1>a, <2>4, Zenon
  <2>6. D[p + (j + 1)] = D[p] \o F[j + 1]
    <3>1. CASE st[j + 1] = "CR_LF_DOT"
      BY <2>2, <2>3, <2>4, <3>1, Zenon
    <3>2. CASE st[j + 1] # "CR_LF_DOT"
      BY <2>2, <2>3, <2>4, <2>5, <3>2, Zenon
    <3> QED BY <3>1, <3>2
  <2> QED BY <2>1, <2>6
<1>8. \A j \in 0..n : j \in S
  <2> HIDE DEF S
  <2> QED BY <1>1, <1>6, <1>7, Induction
<1> QED BY <1>8 DEF D, F, n, Adds

\* Behind the last removed byte everything is kept.
LEMMA KeptTail ==
    ASSUME NEW C, NEW buf \in Seq(C), NEW del, NEW b \in 0..Len(buf), \A d \in del : d \in Nat /\ d < b
    PROVE  /\ Len(KeptTo(buf, del)[Len(buf)]) = Len(KeptTo(buf, del)[b]) + (Len(buf) - b)
           /\ \A i \in 1..(Len(buf) - b) :
                 KeptTo(buf, del)[Len(buf)][Len(KeptTo(buf, del)[b]) + i] = buf[b + i]
<1> DEFINE n == Len(buf)
           kept == KeptTo(buf, del)
           l == Len(kept[b])
           P(k) == /\ Len(kept[b + k]) = l + k
                   /\ \A i \in 1..k : kept[b + k][l + i] = buf[b + i]
           S == {x \in 0..(n - b) : P(x)}
<1>1. n \in Nat /\ n - b \in Nat /\ b \in Nat /\ b + (n - b) = n
  OBVIOUS
<1>2. kept \in [0..n -> Seq(C)]
  BY KeptToDef
<1>3. \A i \in 1..n : kept[i] = IF i - 1 \in del THEN kept[i - 1] ELSE Append(kept[i - 1], buf[i])
  BY KeptToDef
<1>b. \A i \in 1..n : buf[i] \in C
  OBVIOUS
<1> HIDE DEF kept, n
<1>l. l \in Nat
  BY <1>1, <1>2 DEF n
<1> HIDE DEF l
<1>4. 0 \in S
  <2>1. b + 0 = b /\ l + 0 = l
    BY <1>1, <1>l
  <2> QED BY <1>1, <2>1 DEF l
<1>5. ASSUME NEW x \in 0..((n - b) - 1), x \in S PROVE x + 1 \in S
  <2> DEFINE k == b + x
  <2>1. /\ k + 1 \in 1..n /\ (k + 1) - 1 = k /\ k \in 0..n /\ x + 1 \in 0..(n - b) /\ b + (x + 1) = k + 1
        /\ ~(k < b) /\ x \in Nat
    BY <1>1
  <2>2. k \notin del
    BY <2>1
  <2>3. kept[k + 1] = Append(kept[k], buf[k + 1])
    BY <1>3, <2>1, <2>2
  <2>4. kept[k] \in Seq(C) /\ buf[k + 1] \in C
    BY <1>2, <1>b, <2>1
  <2>5. Len(kept[k]) = l + x /\ \A i \in 1..x : kept[k][l + i] = buf[b + i]
    BY <1>5
  <2> HIDE DEF k
  <2>6. Len(kept[k + 1]) = l + (x + 1)
    BY <1>l, <2>1, <2>3, <2>4, <2>5
  <2>7. ASSUME NEW i \in 1..(x + 1) PROVE kept[k + 1][l + i] = buf[b + i]
    <3>1. CASE i = x + 1
      <4>1. l + i = Len(kept[k]) + 1 /\ b + i = k + 1
        BY <1>l, <2>1, <2>5, <3>1
      <4>2. kept[k + 1][Len(kept[k]) + 1] = buf[k + 1]
        BY <2>3, <2>4
      <4> QED BY <4>1, <4>2
    <3>2. CASE i \in 1..x
      BY <1>l, <2>1, <2>3, <2>4, <2>5, <3>2
    <3> QED BY <2>1, <3>1, <3>2
  <2> QED BY <2>1, <2>6, <2>7
<1>6. \A x \in 0..(n - b) : x \in S
  <2> HIDE DEF S
  <2> QED BY <1>1, <1>4, <1>5, Induction
<1>7. P(n - b)
  <2>1. n - b \in 0..(n - b)
    BY <1>1
  <2> QED BY <1>6, <2>1
<1> QED BY <1>1, <1>7 DEF kept, l, n

-----------------------------------------------------------------------------
(* The result of the loop *)

LEMMA MaxIs ==
    ASSUME NEW S, S \subseteq Nat, NEW c \in S, \A i \in S : i <= c
    PROVE  Max(S) = c
<1>1. c \in S /\ \A y \in S : c >= y
  OBVIOUS
<1>2. ASSUME NEW x \in S, \A y \in S : x >= y PROVE x = c
  BY <1>2
<1>3. Max(S) \in S /\ \A y \in S : Max(S) >= y
  BY <1>1, Zenon DEF Max
<1> QED BY <1>2, <1>3

LEMMA MinIs ==
    ASSUME NEW S, S \subseteq Nat, NEW c \in S, \A i \in S : c <= i
    PROVE  Min(S) = c
<1>1. c \in S /\ \A y \in S : c =< y
  OBVIOUS
<1>2. ASSUME NEW x \in S, \A y \in S : x =< y PROVE x = c
  BY <1>2
<1>3. Min(S) \in S /\ \A y \in S : Min(S) =< y
  BY <1>1, Zenon DEF Min
<1> QED BY <1>2, <1>3

\* The positions, counted from 1, where a candidate for a marker starts.
Starts(buf) == {i \in 1..Len(buf) : \/ EoDStates(buf)[i] = "CR"
                                    \/ EoDStates(buf)[i] = "CR_LF" /\ EoDStates(buf)[i - 1] # "CR"}

\* A block that ends within a candidate for a marker: the candidate has at most
\* four bytes, and at most one of them is a dot to remove.
LEMMA Candidate ==
    ASSUME NEW C, NEW buf \in Seq(C), EoDStates(buf)[Len(buf)] \notin {"SRC", "EoD"}
    PROVE  \E c \in Starts(buf) :
              /\ \A i \in Starts(buf) : i <= c
              /\ Len(buf) < c + 4
              /\ \A i, j \in c..Len(buf) : EoDStates(buf)[i] = "CR_LF_DOT" /\ EoDStates(buf)[j] = "CR_LF_DOT" => i = j
<1> DEFINE n == Len(buf)
           st == EoDStates(buf)
           T == Starts(buf)
<1>1. /\ n \in Nat
      /\ st[0] = "SRC"
      /\ \A i \in 0..n : st[i] \in States
      /\ \A i \in 1..n : st[i] = EoDStep(st[i - 1], buf[i])
  BY EoDStatesDef
<1>2. T = {i \in 1..n : st[i] = "CR" \/ (st[i] = "CR_LF" /\ st[i - 1] # "CR")}
  BY DEF Starts
<1>3. st[n] \in {"CR", "CR_LF", "CR_LF_DOT", "CR_LF_DOT_CR"}
  <2>1. st[n] \in States
    BY <1>1
  <2> QED BY <2>1 DEF States
<1> HIDE DEF n, st, T
<1>4. \A i \in 1..n :
         /\ st[i] = "CR_LF_DOT" => st[i - 1] = "CR_LF" /\ i - 1 \in 1..n
         /\ st[i] = "CR_LF_DOT_CR" => st[i - 1] = "CR_LF_DOT" /\ i - 1 \in 1..n
  <2> SUFFICES ASSUME NEW i \in 1..n
               PROVE  /\ st[i] = "CR_LF_DOT" => st[i - 1] = "CR_LF" /\ i - 1 \in 1..n
                      /\ st[i] = "CR_LF_DOT_CR" => st[i - 1] = "CR_LF_DOT" /\ i - 1 \in 1..n
    OBVIOUS
  <2>1. i - 1 \in 0..n /\ (i - 1 = 0 \/ i - 1 \in 1..n)
    BY <1>1
  <2>2. st[i - 1] \in States /\ st[i] = EoDStep(st[i - 1], buf[i])
    BY <1>1, <2>1
  <2>3. /\ st[i] = "CR_LF_DOT" => st[i - 1] = "CR_LF"
        /\ st[i] = "CR_LF_DOT_CR" => st[i - 1] = "CR_LF_DOT"
    BY <2>2, StepTo
  <2> QED BY <1>1, <2>1, <2>3
<1> DEFINE Ends(c) == /\ c \in T
                      /\ \A i \in T : i <= c
                      /\ n < c + 4
                      /\ \A i, j \in c..n : st[i] = "CR_LF_DOT" /\ st[j] = "CR_LF_DOT" => i = j
           Line(m) == IF st[m - 1] = "CR" THEN m - 1 ELSE m
<1>5. n \in 1..n
  <2>1. n # 0
    BY <1>1, <1>3
  <2> QED BY <1>1, <2>1
<1>6. ASSUME NEW m \in 1..n, st[m] = "CR_LF"
      PROVE  /\ Line(m) \in T /\ Line(m) \in 1..n /\ Line(m) <= m /\ m <= Line(m) + 1
             /\ \A i \in Line(m)..m : i \in T => i = Line(m)
             /\ \A i \in Line(m)..m : st[i] # "CR_LF_DOT"
  <2>1. CASE st[m - 1] = "CR"
    <3>1. m - 1 # 0
      BY <1>1, <2>1
    <3>2. m - 1 \in 1..n /\ \A i \in (m - 1)..m : i = m - 1 \/ i = m
      BY <1>1, <3>1
    <3>3. m - 1 \in T /\ m \notin T
      BY <1>2, <1>6, <2>1, <3>2
    <3> QED BY <1>6, <2>1, <3>2, <3>3
  <2>2. CASE st[m - 1] # "CR"
    <3>1. m \in T /\ \A i \in m..m : i = m
      BY <1>2, <1>6, <2>2
    <3> QED BY <1>6, <2>2, <3>1
  <2> QED BY <2>1, <2>2
<1>7. CASE st[n] = "CR"
  <2>1. Ends(n)
    BY <1>1, <1>2, <1>5, <1>7
  <2> QED BY <2>1 DEF n, st, T
<1>8. CASE st[n] = "CR_LF"
  <2> DEFINE c == Line(n)
  <2>1. c \in T /\ c \in 1..n /\ c <= n /\ n <= c + 1 /\ \A i \in c..n : (i \in T => i = c) /\ st[i] # "CR_LF_DOT"
    BY <1>5, <1>6, <1>8
  <2> HIDE DEF c
  <2>2. \A i \in T : i <= c
    <3>1. \A i \in T : i \in 1..n /\ (i <= c \/ i \in c..n)
      BY <1>1, <1>2, <2>1
    <3> QED BY <2>1, <3>1
  <2>3. Ends(c)
    BY <1>1, <2>1, <2>2
  <2> QED BY <2>3 DEF n, st, T
<1>9. CASE st[n] = "CR_LF_DOT"
  <2> DEFINE m == n - 1
             c == Line(m)
  <2>1. st[m] = "CR_LF" /\ m \in 1..n /\ n = m + 1
    BY <1>1, <1>4, <1>5, <1>9
  <2>2. c \in T /\ c \in 1..n /\ c <= m /\ m <= c + 1 /\ \A i \in c..m : (i \in T => i = c) /\ st[i] # "CR_LF_DOT"
    <3> HIDE DEF m
    <3> QED BY <1>6, <2>1
  <2>3. n \notin T
    BY <1>2, <1>9
  <2> HIDE DEF c, m
  <2>4. \A i \in c..n : i \in c..m \/ i = n
    BY <1>1, <2>1, <2>2
  <2>5. \A i \in T : i <= c
    <3>1. \A i \in T : i \in 1..n /\ (i <= c \/ i \in c..n)
      BY <1>1, <1>2, <2>2
    <3> QED BY <2>2, <2>3, <2>4, <3>1
  <2>6. \A i, j \in c..n : st[i] = "CR_LF_DOT" /\ st[j] = "CR_LF_DOT" => i = j
    BY <2>2, <2>4
  <2>7. n < c + 4
    BY <1>1, <2>1, <2>2
  <2>8. Ends(c)
    BY <2>2, <2>5, <2>6, <2>7
  <2> QED BY <2>8 DEF n, st, T
<1>10. CASE st[n] = "CR_LF_DOT_CR"
  <2> DEFINE m == n - 2
             c == Line(m)
  <2>1. st[m] = "CR_LF" /\ m \in 1..n /\ n = m + 2 /\ st[m + 1] = "CR_LF_DOT"
    <3>1. st[n - 1] = "CR_LF_DOT" /\ n - 1 \in 1..n /\ (n - 1) - 1 = m /\ m + 1 = n - 1
      BY <1>1, <1>4, <1>5, <1>10
    <3>2. st[m] = "CR_LF" /\ m \in 1..n
      BY <1>4, <3>1
    <3> QED BY <1>1, <3>1, <3>2
  <2>2. c \in T /\ c \in 1..n /\ c <= m /\ m <= c + 1 /\ \A i \in c..m : (i \in T => i = c) /\ st[i] # "CR_LF_DOT"
    <3> HIDE DEF m
    <3> QED BY <1>6, <2>1
  <2>3. n \notin T /\ m + 1 \notin T
    BY <1>2, <1>10, <2>1
  <2> HIDE DEF c, m
  <2>4. \A i \in c..n : i \in c..m \/ i = m + 1 \/ i = n
    BY <1>1, <2>1, <2>2
  <2>5. \A i \in T : i <= c
    <3>1. \A i \in T : i \in 1..n /\ (i <= c \/ i \in c..n)
      BY <1>1, <1>2, <2>2
    <3> QED BY <2>2, <2>3, <2>4, <3>1
  <2>6. \A i, j \in c..n : st[i] = "CR_LF_DOT" /\ st[j] = "CR_LF_DOT" => i = j
    BY <1>10, <2>2, <2>4
  <2>7. n < c + 4
    BY <1>1, <2>1, <2>2
  <2>8. Ends(c)
    BY <2>2, <2>5, <2>6, <2>7
  <2> QED BY <2>8 DEF n, st, T
<1> QED BY <1>3, <1>7, <1>8, <1>9, <1>10

\* DataEnd() is where the data found before the candidate ends in the block
\* without the removed dots, when at most one dot of the candidate is removed.
LEMMA DataEndIs ==
    ASSUME NEW C, NEW buf \in Seq(C), NEW del \in SUBSET (0..(Len(buf) - 1)), NEW q \in 0..Len(buf),
           \A d, f \in del : d >= q /\ f >= q => d = f,
           NEW a, a.delchrs = del, a.srcendpos = q
    PROVE  /\ DataEnd(a) = Len(KeptTo(buf, del)[q])
           /\ SubSeq(RemoveChars(buf, del), 1, Len(KeptTo(buf, del)[q])) = KeptTo(buf, del)[q]
<1> DEFINE n == Len(buf)
           k == KeptTo(buf, del)[n]
           kq == KeptTo(buf, del)[q]
           tail == SubSeq(buf, Len(k) + 1, n)
<1>1. n \in Nat /\ q \in Nat /\ IsFiniteSet(del) /\ del \subseteq Nat
  <2>1. IsFiniteSet(0..(n - 1))
    BY FS_Interval
  <2>2. del \subseteq 0..(n - 1) /\ n \in Nat /\ q \in Nat
    OBVIOUS
  <2>3. IsFiniteSet(del)
    BY <2>1, <2>2, FS_Subset
  <2> QED BY <2>2, <2>3
<1>2. IsFiniteSet(Below(del, q)) /\ Cardinality(Below(del, q)) \in Nat
  <2>1. Below(del, q) \subseteq del
    BY DEF Below
  <2> QED BY <1>1, <2>1, FS_Subset, FS_CardinalityType
<1>3. Len(kq) = q - Cardinality(Below(del, q))
  BY KeptLen
<1>4. kq \in Seq(C) /\ k \in Seq(C) /\ tail \in Seq(C)
  <2>1. KeptTo(buf, del) \in [0..n -> Seq(C)] /\ n \in 0..n
    BY KeptToDef
  <2>2. kq \in Seq(C) /\ k \in Seq(C)
    BY <2>1
  <2>3. Len(k) + 1 \in Nat /\ Len(k) + 1 >= 1
    BY <2>2
  <2> HIDE DEF k
  <2>4. tail \in Seq(C)
    BY <2>3
  <2> QED BY <2>2, <2>4
<1>5. Len(kq) <= Len(k) /\ \A i \in 1..Len(kq) : k[i] = kq[i]
  <2>1. Len(buf) \in q..Len(buf)
    OBVIOUS
  <2>2. Begins(KeptTo(buf, del)[q], KeptTo(buf, del)[Len(buf)])
    BY <2>1, KeptPrefix
  <2> QED BY <2>2 DEF Begins
<1>6. RemoveChars(buf, del) = k \o tail
  BY DEF RemoveChars
<1> HIDE DEF k, kq, tail, n
<1>7. SubSeq(k \o tail, 1, Len(kq)) = kq
  <2>1. Len(kq) \in Nat /\ Len(k) \in Nat /\ Len(k \o tail) = Len(k) + Len(tail) /\ Len(tail) \in Nat
    BY <1>4
  <2>2. \A i \in 1..Len(kq) : (k \o tail)[i] = kq[i]
    BY <1>4, <1>5, <2>1
  <2>3. k \o tail \in Seq(C)
    BY <1>4
  <2>4. Len(SubSeq(k \o tail, 1, Len(kq))) = Len(kq)
    BY <1>5, <2>1, <2>3
  <2>5. \A i \in 1..Len(kq) : SubSeq(k \o tail, 1, Len(kq))[i] = (k \o tail)[i]
    BY <1>5, <2>1, <2>3
  <2>6. SubSeq(k \o tail, 1, Len(kq)) \in Seq(C)
    BY <1>5, <2>1, <2>3
  <2> DEFINE s == SubSeq(k \o tail, 1, Len(kq))
  <2>7. s \in Seq(C) /\ Len(s) = Len(kq) /\ \A i \in 1..Len(s) : s[i] = kq[i]
    BY <2>2, <2>4, <2>5, <2>6
  <2>8. s = kq
    <3> HIDE DEF s
    <3> QED BY <1>4, <2>7, SeqEq
  <2> QED BY <2>8
<1>8. CASE \E d \in del : d >= q
  <2>1. PICK d \in del : d >= q
    BY <1>8
  <2>2. del = Below(del, q) \cup {d} /\ d \notin Below(del, q)
    <3>1. \A f \in del : f < q \/ f = d
      BY <1>1, <2>1
    <3>2. ~(d < q)
      BY <1>1, <2>1
    <3> QED BY <2>1, <3>1, <3>2, Zenon DEF Below
  <2>3. Cardinality(del) = Cardinality(Below(del, q)) + 1
    BY <1>2, <2>2, FS_AddElement
  <2>4. DataEnd(a) = q - Cardinality(del) + 1
    BY <1>8 DEF DataEnd
  <2>5. DataEnd(a) = Len(kq)
    BY <1>1, <1>2, <1>3, <2>3, <2>4
  <2> QED BY <1>6, <1>7, <2>5 DEF kq
<1>9. CASE ~\E d \in del : d >= q
  <2>1. del = Below(del, q)
    <3>1. \A f \in del : f < q
      BY <1>1, <1>9
    <3> QED BY <3>1, Zenon DEF Below
  <2>2. DataEnd(a) = q - Cardinality(del)
    BY <1>9 DEF DataEnd
  <2>3. DataEnd(a) = Len(kq)
    BY <1>3, <2>1, <2>2
  <2> QED BY <1>6, <1>7, <2>3 DEF kq
<1> QED BY <1>8, <1>9

\* What follows the marker in the block is left as it was.
LEMMA TailIs ==
    ASSUME NEW C, NEW buf \in Seq(C), NEW del \in SUBSET (0..(Len(buf) - 1)), NEW b \in 0..Len(buf),
           \A d \in del : d < b
    PROVE  SubSeq(RemoveChars(buf, del), b - Cardinality(del) + 1, Len(buf) - Cardinality(del))
             = SubSeq(buf, b + 1, Len(buf))
<1> DEFINE n == Len(buf)
           k == KeptTo(buf, del)[n]
           kb == KeptTo(buf, del)[b]
           tail == SubSeq(buf, Len(k) + 1, n)
           x == Cardinality(del)
<1>1. n \in Nat /\ b \in Nat /\ b <= n /\ del \subseteq Nat
  OBVIOUS
<1>2. k \in Seq(C) /\ kb \in Seq(C) /\ tail \in Seq(C)
  <2>1. KeptTo(buf, del) \in [0..n -> Seq(C)] /\ n \in 0..n
    BY KeptToDef
  <2>2. kb \in Seq(C) /\ k \in Seq(C)
    BY <2>1
  <2>3. Len(k) + 1 \in Nat /\ Len(k) + 1 >= 1
    BY <2>2
  <2> HIDE DEF k
  <2>4. tail \in Seq(C)
    BY <2>3
  <2> QED BY <2>2, <2>4
<1>3. Len(kb) = b - x
  <2>1. Below(del, b) = del
    BY DEF Below
  <2> QED BY <2>1, KeptLen
<1>4. Len(k) = Len(kb) + (n - b) /\ \A i \in 1..(n - b) : k[Len(kb) + i] = buf[b + i]
  <2>1. \A d \in del : d \in Nat /\ d < b
    OBVIOUS
  <2> QED BY <2>1, KeptTail, ZenonT(40)
<1>5. RemoveChars(buf, del) = k \o tail
  BY DEF RemoveChars
<1>6. x \in Nat
  <2>1. IsFiniteSet(0..(n - 1)) /\ del \subseteq 0..(n - 1)
    BY FS_Interval
  <2> QED BY <2>1, FS_Subset, FS_CardinalityType
<1> HIDE DEF k, kb, tail, x
<1> DEFINE l == Len(kb)
           z == Len(k)
<1>7. l \in Nat /\ z \in Nat /\ z = l + (n - b) /\ b - x + 1 = l + 1 /\ n - x = z
  BY <1>1, <1>2, <1>3, <1>4, <1>6
<1>8. Len(k \o tail) = z + Len(tail) /\ Len(tail) \in Nat /\ k \o tail \in Seq(C)
  BY <1>2
<1>9. \A i \in 1..(n - b) : (k \o tail)[l + i] = buf[b + i]
  <2> SUFFICES ASSUME NEW i \in 1..(n - b) PROVE (k \o tail)[l + i] = buf[b + i]
    OBVIOUS
  <2>1. l + i \in 1..z
    BY <1>1, <1>7
  <2>2. (k \o tail)[l + i] = k[l + i]
    BY <1>2, <2>1
  <2> QED BY <1>4, <2>2
<1> DEFINE s == SubSeq(k \o tail, l + 1, z)
           t == SubSeq(buf, b + 1, n)
<1>10. s \in Seq(C) /\ Len(s) = n - b /\ \A i \in 1..(n - b) : s[i] = buf[b + i]
  <2> HIDE DEF l, z
  <2> DEFINE u == k \o tail
  <2>1. u \in Seq(C) /\ l + 1 \in 1..(Len(u) + 1) /\ z \in l..Len(u) /\ z - l = n - b
    BY <1>1, <1>7, <1>8
  <2>2. \A i \in 1..(n - b) : u[l + i] = buf[b + i]
    BY <1>9
  <2> HIDE DEF u
  <2>3. s = SubSeq(u, l + 1, z)
    BY DEF u
  <2>4. Len(SubSeq(u, l + 1, z)) = n - b
    <3>1. l \in 0..Len(u)
      BY <1>7, <1>8, <2>1
    <3> HIDE DEF n
    <3> QED BY <2>1, <3>1, SubSeqIs
  <2>5. \A i \in 1..(n - b) : SubSeq(u, l + 1, z)[i] = u[l + i]
    BY <1>1, <1>7, <2>1
  <2>6. SubSeq(u, l + 1, z) \in Seq(C)
    BY <1>7, <2>1
  <2> QED BY <2>2, <2>3, <2>4, <2>5, <2>6
<1>11. t \in Seq(C) /\ Len(t) = n - b /\ \A i \in 1..(n - b) : t[i] = buf[b + i]
  BY <1>1
<1>12. s = t
  <2> HIDE DEF s, t, n
  <2>1. Len(s) = Len(t)
    BY <1>10, <1>11
  <2>2. \A i \in 1..Len(s) : s[i] = t[i]
    BY <1>10, <1>11, Zenon
  <2> QED BY <1>10, <1>11, <2>1, <2>2, SeqEq
<1> QED BY <1>5, <1>7, <1>12 DEF n, x

LEMMA RemoveType ==
    ASSUME NEW C, NEW buf \in Seq(C), NEW del \in SUBSET (0..(Len(buf) - 1))
    PROVE  /\ RemoveChars(buf, del) \in Seq(C)
           /\ Cardinality(del) \in Nat
           /\ \A b \in 0..Len(buf) : (\A d \in del : d < b) => b - Cardinality(del) \in Nat
           /\ Len(buf) - Cardinality(del) \in Nat
<1> DEFINE n == Len(buf)
           k == KeptTo(buf, del)
           kn == k[n]
<1>1. n \in Nat /\ k \in [0..n -> Seq(C)] /\ n \in 0..n
  BY KeptToDef
<1>2. Cardinality(del) \in Nat
  <2>1. IsFiniteSet(0..(n - 1)) /\ del \subseteq 0..(n - 1)
    BY FS_Interval
  <2> QED BY <2>1, FS_Subset, FS_CardinalityType
<1>3. \A b \in 0..n : Len(k[b]) = b - Cardinality(Below(del, b))
  BY KeptLen
<1>4. \A d \in del : d < n
  OBVIOUS
<1>5. RemoveChars(buf, del) = kn \o SubSeq(buf, Len(kn) + 1, n)
  BY DEF RemoveChars
<1>6. buf \in Seq(C) /\ n = Len(buf)
  OBVIOUS
<1> HIDE DEF n, k
<1>7. kn \in Seq(C)
  BY <1>1
<1> HIDE DEF kn
<1>8. SubSeq(buf, Len(kn) + 1, n) \in Seq(C)
  <2>1. Len(kn) + 1 \in Nat /\ Len(kn) + 1 >= 1
    BY <1>7
  <2> QED BY <1>6, <2>1
<1>9. kn \o SubSeq(buf, Len(kn) + 1, n) \in Seq(C)
  BY <1>7, <1>8
<1>10. ASSUME NEW b \in 0..n, \A d \in del : d < b PROVE b - Cardinality(del) \in Nat
  <2>1. Below(del, b) = del
    BY <1>10 DEF Below
  <2>2. k[b] \in Seq(C) /\ Len(k[b]) = b - Cardinality(del)
    BY <1>1, <1>3, <2>1
  <2>3. Len(k[b]) \in Nat
    BY <2>2
  <2> QED BY <2>2, <2>3
<1> QED BY <1>1, <1>2, <1>4, <1>5, <1>9, <1>10 DEF n

\* A block as the handler keeps it.
Blocks(C) == [buf : Seq(C), pos : Nat, nextpos : Nat, gotEoD : BOOLEAN, eodcharbuf : Seq(C)]

LEMMA ScanIs ==
    ASSUME NEW C, NEW buf \in Seq(C)
    PROVE  /\ Scan(buf).st = EoDStates(buf)[Len(buf)]
           /\ Scan(buf).delchrs = Dots(buf)
           /\ Scan(buf).srcendpos = IF EoDStates(buf)[Len(buf)] = "SRC" THEN Len(buf) ELSE Max(Starts(buf)) - 1
           /\ LET ends == {i \in 1..Len(buf) : EoDStates(buf)[i] = "EoD"}
              IN  Scan(buf).bufpos = IF ends = {} THEN Len(buf) ELSE Min(ends) - 1
           /\ Dots(buf) \in SUBSET (0..(Len(buf) - 1))
  BY DEF Scan, Dots, Starts

\* The block read from p to S completes the data, and behind its marker it keeps
\* what the stream has there.
FindsEnd(C, w, e, p, S, blk, buf, r, data) ==
    /\ r.blk \in Blocks(C) /\ r.eod \in Nat
    /\ r.blk.gotEoD = TRUE
    /\ Found(w)[p] \o SubSeq(r.blk.buf, 1, r.eod) = data
    /\ SubSeq(r.blk.buf, r.blk.nextpos + 1, r.blk.pos) = SubSeq(w, e + 6, S)

\* The block of the stream in which the marker ends: the end of data is found, the
\* data is complete and what follows the marker is left over.
LEMMA LastBlock ==
    ASSUME NEW C, {CR, LF, DOT} \subseteq C, NEW data \in Seq(C), NEW w \in Seq(C), IsStream(w, data),
           NEW e, e = Len(Escaped(data)), NEW p \in 0..e,
           NEW buf \in Seq(C), IsBlock(buf, w, p), NEW S, S = p + Len(buf), e + 5 <= S,
           NEW blk \in Blocks(C), NEW r, r = GetEoD(blk, buf)
    PROVE  FindsEnd(C, w, e, p, S, blk, buf, r, data)
<1> DEFINE n == Len(buf)
           N == Len(w)
           G == EoDStates(w)
           st == EoDStates(buf)
           a == Scan(buf)
           del == Dots(buf)
           q == e - p
           b == q + 5
           k == KeptTo(buf, del)
           x == Cardinality(del)
<1>1. n \in Nat /\ N \in Nat /\ e \in Nat /\ p + n <= N /\ n >= 1 /\ p \in Nat
  BY StreamData DEF IsBlock
<1>2. q \in Nat /\ q \in 0..n /\ p + q = e
  BY <1>1
<1>b. b \in Nat /\ b >= 1 /\ b <= n /\ b = q + 5 /\ p + b = e + 5
  BY <1>1
<1>c. q + 1 \in 1..n /\ q + 2 \in 1..n /\ q + 3 \in 1..n /\ q + 4 \in 1..n
  BY <1>1
<1>d. p + (q + 1) = e + 1 /\ p + (q + 2) = e + 2 /\ p + (q + 3) = e + 3 /\ p + (q + 4) = e + 4
  BY <1>1
<1>3. \A j \in 1..n : st[j] = G[p + j]
  BY <1>1, BlockStates
<1>4. /\ G[e + 1] = "CR" /\ G[e + 2] = "CR_LF" /\ G[e + 3] = "CR_LF_DOT" /\ G[e + 4] = "CR_LF_DOT_CR"
      /\ \A i \in (e + 5)..N : G[i] = "EoD"
  BY StreamMarker, SMTT(30)
<1>5. \A i \in 0..e : G[i] \in {"SRC", "CR", "CR_LF", "CR_LF_DOT"}
  BY StreamData
<1> HIDE DEF n, N, G, st, q, b
<1>6. /\ st[q + 1] = "CR" /\ st[q + 2] = "CR_LF" /\ st[q + 3] = "CR_LF_DOT" /\ st[q + 4] = "CR_LF_DOT_CR"
      /\ \A j \in b..n : st[j] = "EoD"
  <2>1. st[q + 1] = "CR" /\ st[q + 2] = "CR_LF" /\ st[q + 3] = "CR_LF_DOT" /\ st[q + 4] = "CR_LF_DOT_CR"
    BY <1>c, <1>d, <1>3, <1>4
  <2>2. ASSUME NEW j \in b..n PROVE st[j] = "EoD"
    <3>1. j \in 1..n /\ p + j \in (e + 5)..N
      BY <1>1, <1>b, SMTT(30)
    <3> QED BY <1>3, <1>4, <3>1
  <2> QED BY <2>1, <2>2
<1>7. \A j \in 1..q : st[j] # "EoD"
  <2>1. ASSUME NEW j \in 1..q PROVE st[j] # "EoD"
    <3>1. j \in 1..n /\ p + j \in 0..e
      BY <1>1, <1>2
    <3> QED BY <1>3, <1>5, <3>1
  <2> QED BY <2>1
<1>8. \A j \in 1..n : j \in 1..q \/ j = q + 1 \/ j = q + 2 \/ j = q + 3 \/ j = q + 4 \/ j \in b..n
  BY <1>1, <1>2, <1>b
<1>9. st[n] = "EoD"
  <2>1. n \in b..n
    BY <1>1, <1>b
  <2> QED BY <1>6, <2>1
<1>10. Max(Starts(buf)) = q + 1
  <2>1. Starts(buf) = {i \in 1..n : st[i] = "CR" \/ (st[i] = "CR_LF" /\ st[i - 1] # "CR")}
    BY DEF Starts, n, st
  <2>2. q + 1 \in Starts(buf) /\ Starts(buf) \subseteq Nat
    BY <1>c, <1>6, <2>1, SMTT(30)
  <2>3. \A i \in Starts(buf) : i <= q + 1
    <3> SUFFICES ASSUME NEW i \in Starts(buf), ~(i <= q + 1) PROVE FALSE
      OBVIOUS
    <3>1. i \in 1..n /\ (st[i] = "CR" \/ (st[i] = "CR_LF" /\ st[i - 1] # "CR"))
      BY <2>1
    <3>2. i = q + 2 \/ i = q + 3 \/ i = q + 4 \/ i \in b..n
      BY <1>2, <1>8, <3>1
    <3>3. (q + 2) - 1 = q + 1
      BY <1>2
    <3> QED BY <1>6, <3>1, <3>2, <3>3
  <2> QED BY <2>2, <2>3, MaxIs
<1>11. Min({i \in 1..n : st[i] = "EoD"}) = b /\ {i \in 1..n : st[i] = "EoD"} # {}
  <2> DEFINE ends == {i \in 1..n : st[i] = "EoD"}
  <2>1. b \in ends /\ ends \subseteq Nat
    <3>1. b \in b..n /\ b \in 1..n
      BY <1>1, <1>b
    <3> QED BY <1>6, <3>1
  <2>2. \A i \in ends : b <= i
    <3> SUFFICES ASSUME NEW i \in ends PROVE b <= i
      OBVIOUS
    <3>1. i \in 1..n /\ st[i] = "EoD"
      OBVIOUS
    <3>2. i \in b..n
      BY <1>6, <1>7, <1>8, <3>1
    <3> QED BY <1>b, <3>2
  <2> HIDE DEF ends
  <2>3. Min(ends) = b
    BY <2>1, <2>2, MinIs
  <2> QED BY <2>1, <2>3 DEF ends
<1>12. /\ a.st = "EoD" /\ a.srcendpos = q /\ a.delchrs = del /\ a.bufpos = b - 1
       /\ del \in SUBSET (0..(n - 1))
  <2>1. /\ a.st = st[n] /\ a.delchrs = del /\ a.srcendpos = IF st[n] = "SRC" THEN n ELSE Max(Starts(buf)) - 1
        /\ a.bufpos = IF {i \in 1..n : st[i] = "EoD"} = {} THEN n ELSE Min({i \in 1..n : st[i] = "EoD"}) - 1
        /\ del \in SUBSET (0..(n - 1))
    BY ScanIs DEF n, st
  <2>2. (q + 1) - 1 = q
    BY <1>2
  <2> QED BY <1>9, <1>10, <1>11, <2>1, <2>2
<1>13. del = {d \in 0..(n - 1) : st[d + 1] = "CR_LF_DOT"}
  BY DEF Dots, n, st
<1> HIDE DEF a, del
<1>14. \A d \in del : d < b /\ (d >= q => d = q + 2)
  <2> SUFFICES ASSUME NEW d \in del PROVE d < b /\ (d >= q => d = q + 2)
    OBVIOUS
  <2>1. d \in 0..(n - 1) /\ st[d + 1] = "CR_LF_DOT"
    BY <1>13
  <2>2. d + 1 \in 1..n
    BY <1>1, <2>1
  <2>3. d + 1 \in 1..q \/ d + 1 = q + 3
    BY <1>6, <1>8, <2>1, <2>2
  <2> QED BY <1>2, <1>b, <2>1, <2>3
<1>15. /\ DataEnd(a) = Len(k[q]) /\ SubSeq(RemoveChars(buf, del), 1, Len(k[q])) = k[q]
  <2>1. \A d, f \in del : d >= q /\ f >= q => d = f
    BY <1>14
  <2> QED BY <1>2, <1>12, <2>1, DataEndIs, ZenonT(40) DEF n
<1>16. SubSeq(RemoveChars(buf, del), b - x + 1, n - x) = SubSeq(buf, b + 1, n)
  <2>1. b \in 0..n /\ \A d \in del : d < b
    BY <1>1, <1>b, <1>14
  <2> QED BY <1>12, <2>1, TailIs DEF n
<1>17. Found(w)[e] = Found(w)[p] \o k[q] /\ Found(w)[e] = data
  <2>1. p \in Nat /\ q \in 0..Len(buf)
    BY <1>1, <1>2 DEF n
  <2>2. Found(w)[p + q] = Found(w)[p] \o k[q]
    <3>1. Adds(buf, q, w, p)
      BY <2>1, BlockFound
    <3> QED BY <3>1, Zenon DEF Adds, Found, del
  <2>3. Found(w)[e] = data
    BY StreamData
  <2> QED BY <1>2, <2>2, <2>3
<1>18. SubSeq(buf, b + 1, n) = SubSeq(w, e + 6, p + n)
  <2> DEFINE s == SubSeq(buf, b + 1, n)
             t == SubSeq(w, (e + 5) + 1, p + n)
  <2>1. /\ b \in 0..n /\ n \in b..n /\ e + 5 \in 0..N /\ p + n \in (e + 5)..N
        /\ (p + n) - (e + 5) = n - b /\ (e + 5) + 1 = e + 6
    BY <1>1, <1>b, SMTT(30)
  <2>2. s \in Seq(C) /\ Len(s) = n - b /\ \A i \in 1..(n - b) : s[i] = buf[b + i]
    BY <2>1, SubSeqIs, SMTT(30) DEF n
  <2>3. t \in Seq(C) /\ Len(t) = (p + n) - (e + 5) /\ \A i \in 1..((p + n) - (e + 5)) : t[i] = w[(e + 5) + i]
    <3>1. e + 5 \in 0..Len(w) /\ p + n \in (e + 5)..Len(w)
      BY <2>1 DEF N
    <3> QED BY <3>1, SubSeqIs, ZenonT(40)
  <2>4. \A i \in 1..n : buf[i] = w[p + i]
    BY DEF IsBlock, n
  <2>5. \A i \in 1..(n - b) : buf[b + i] = w[(e + 5) + i]
    <3> SUFFICES ASSUME NEW i \in 1..(n - b) PROVE buf[b + i] = w[(e + 5) + i]
      OBVIOUS
    <3>1. i \in Nat /\ 1 <= i /\ i <= n - b /\ b \in Nat /\ n \in Nat /\ b <= n
      BY <1>1, <1>b
    <3>2. b + i \in 1..n
      BY <3>1
    <3>3. p + (b + i) = (p + b) + i
      BY <1>1, <3>1
    <3> QED BY <1>b, <2>4, <3>2, <3>3
  <2>6. s = t
    <3> HIDE DEF s, t
    <3>1. Len(t) = n - b /\ \A i \in 1..(n - b) : t[i] = w[(e + 5) + i]
      BY <2>1, <2>3, Zenon
    <3>2. \A i \in 1..Len(s) : s[i] = t[i]
      BY <2>2, <2>5, <3>1, Zenon
    <3> QED BY <2>2, <2>3, <3>1, <3>2, SeqEq
  <2> QED BY <2>1, <2>6
<1>19. /\ r.blk = [blk EXCEPT !.buf = RemoveChars(buf, del), !.pos = n - x, !.nextpos = NextPos(a), !.gotEoD = TRUE]
       /\ r.eod = DataEnd(a)
  <2>1. buf # <<>>
    BY <1>1 DEF n
  <2> QED BY <1>12, <2>1 DEF GetEoD, a, n, x
<1>t. RemoveChars(buf, del) \in Seq(C) /\ x \in Nat /\ n - x \in Nat /\ b - x \in Nat
  <2>1. b \in 0..n /\ \A d \in del : d < b
    BY <1>1, <1>b, <1>14
  <2>2. del \in SUBSET (0..(Len(buf) - 1))
    BY <1>12 DEF n
  <2> QED BY <2>1, <2>2, RemoveType DEF n, x
<1>20. NextPos(a) = b - x /\ NextPos(a) + 1 = b - x + 1
  <2>1. NextPos(a) = (b - 1) - x + 1
    BY <1>12 DEF NextPos
  <2> HIDE DEF x
  <2>2. (b - 1) - x + 1 = b - x
    BY <1>b, <1>t, SMTT(30)
  <2> QED BY <2>1, <2>2, Zenon
<1>21. k[q] \in Seq(C)
  <2>1. k \in [0..n -> Seq(C)]
    BY KeptToDef DEF n
  <2> QED BY <1>2, <2>1
<1> HIDE DEF x, k
<1>22. /\ r.blk.buf = RemoveChars(buf, del) /\ r.blk.pos = n - x /\ r.blk.nextpos = b - x
       /\ r.blk.gotEoD = TRUE /\ r.blk.eodcharbuf = blk.eodcharbuf /\ r.blk \in Blocks(C)
  BY <1>19, <1>20, <1>t, ZenonT(40) DEF Blocks
<1>23. r.eod = Len(k[q]) /\ r.eod \in Nat
  BY <1>15, <1>19, <1>21
<1> QED BY <1>15, <1>16, <1>17, <1>18, <1>20, <1>22, <1>23 DEF n, FindsEnd

\* The first bytes of w up to S are read, and those from p, at most four, are the
\* beginning of a candidate for a marker that blk keeps for the next block.
ReadTo(w, p, S, blk) ==
    /\ Sync(w, p)
    /\ p <= S /\ S <= p + 4
    /\ blk.eodcharbuf = SubSeq(w, p + 1, S)

\* The block read from p to S adds the data up to where the next one starts anew.
FindsMore(C, w, e, p, S, blk, buf, r, data) ==
    /\ r.blk \in Blocks(C) /\ r.eod \in Nat
    /\ r.blk.gotEoD = blk.gotEoD
    /\ \E o \in p..e : /\ ReadTo(w, o, S, r.blk)
                       /\ Found(w)[o] = Found(w)[p] \o SubSeq(r.blk.buf, 1, r.eod)

\* Where in the marker a position is that is past the data and before the marker's end.
LEMMA Near ==
    ASSUME NEW e \in Nat, NEW x \in Nat, x < e + 5
    PROVE  x \in 0..e \/ x = e + 1 \/ x = e + 2 \/ x = e + 3 \/ x = e + 4
  OBVIOUS

\* The position before the marker's second byte is in the same block.
LEMMA JustBefore ==
    ASSUME NEW p \in Nat, NEW e \in Nat, NEW n \in Nat, NEW c \in Nat, p <= e, c <= n, p + c = e + 2
    PROVE  c - 1 \in 1..n /\ p + (c - 1) = e + 1
  OBVIOUS

\* A block of the stream before the end of the marker: the end of data is not found,
\* and the data found is what the block says, up to where the next block starts anew.
LEMMA MiddleBlock ==
    ASSUME NEW C, {CR, LF, DOT} \subseteq C, NEW data \in Seq(C), NEW w \in Seq(C), IsStream(w, data),
           NEW e, e = Len(Escaped(data)), NEW p \in 0..e,
           NEW buf \in Seq(C), IsBlock(buf, w, p), NEW S, S = p + Len(buf), S < e + 5,
           NEW blk \in Blocks(C), blk.eodcharbuf = <<>>, NEW r, r = GetEoD(blk, buf)
    PROVE  FindsMore(C, w, e, p, S, blk, buf, r, data)
<1> DEFINE n == Len(buf)
           N == Len(w)
           G == EoDStates(w)
           st == EoDStates(buf)
           a == Scan(buf)
           del == Dots(buf)
           k == KeptTo(buf, del)
           x == Cardinality(del)
<1>1. n \in Nat /\ N \in Nat /\ e \in Nat /\ p + n <= N /\ n >= 1 /\ p \in Nat /\ p <= e /\ p + n < e + 5
  BY StreamData DEF IsBlock
<1>2. n \in 1..n /\ n \in 0..n
  BY <1>1
<1>3. \A j \in 1..n : st[j] = G[p + j]
  BY <1>1, BlockStates
<1>4. G[e + 1] = "CR" /\ G[e + 2] = "CR_LF" /\ G[e + 3] = "CR_LF_DOT" /\ G[e + 4] = "CR_LF_DOT_CR"
  BY StreamMarker, SMTT(30)
<1>5. \A i \in 0..e : G[i] \in {"SRC", "CR", "CR_LF", "CR_LF_DOT"}
  BY StreamData
<1>6. /\ a.st = st[n] /\ a.delchrs = del /\ a.srcendpos = IF st[n] = "SRC" THEN n ELSE Max(Starts(buf)) - 1
      /\ del \in SUBSET (0..(n - 1)) /\ del = {d \in 0..(n - 1) : st[d + 1] = "CR_LF_DOT"}
  <2>1. del = {d \in 0..(n - 1) : st[d + 1] = "CR_LF_DOT"}
    BY DEF Dots
  <2> QED BY <2>1, ScanIs
<1>7. \A i \in 0..(N - 1) : G[i + 1] = EoDStep(G[i], w[i + 1]) /\ G[i] \in States
  BY FoundStep
<1>8. Starts(buf) = {i \in 1..n : st[i] = "CR" \/ (st[i] = "CR_LF" /\ st[i - 1] # "CR")}
  BY DEF Starts
<1>9. buf # <<>>
  BY <1>1
<1>s. \A s \in States : \A ch : /\ EoDStep(s, ch) = "CR" => ch = CR
                                /\ EoDStep(s, ch) = "CR_LF" => ch = LF
  BY StepTo
<1> HIDE DEF n, N, G, st, a, del
<1>10. st[n] # "EoD"
  <2>1. p + n \in 0..e \/ p + n = e + 1 \/ p + n = e + 2 \/ p + n = e + 3 \/ p + n = e + 4
    <3>1. p + n \in Nat /\ e \in Nat /\ p + n < e + 5
      BY <1>1
    <3> QED BY <3>1, Near
  <2>2. st[n] = G[p + n]
    BY <1>2, <1>3
  <2> QED BY <1>4, <1>5, <2>1, <2>2
<1>11. PICK q \in 0..n : /\ a.srcendpos = q
                         /\ \A d, f \in del : d >= q /\ f >= q => d = f
                         /\ p + q <= e /\ Sync(w, p + q) /\ n <= q + 4
                         /\ st[n] = "SRC" => q = n
  <2>1. CASE st[n] = "SRC"
    <3>1. a.srcendpos = n
      BY <1>6, <2>1
    <3>2. G[p + n] = "SRC"
      BY <1>2, <1>3, <2>1
    <3>3. Sync(w, p + n)
      BY <3>2 DEF Sync, G
    <3>4. p + n <= e
      <4>1. p + n \in 0..e \/ p + n = e + 1 \/ p + n = e + 2 \/ p + n = e + 3 \/ p + n = e + 4
        <5>1. p + n \in Nat /\ e \in Nat /\ p + n < e + 5
          BY <1>1
        <5> QED BY <5>1, Near
      <4>2. p + n \in 0..e
        BY <1>4, <3>2, <4>1
      <4> QED BY <1>1, <4>2
    <3>5. \A d \in del : ~(d >= n)
      BY <1>1, <1>6
    <3>6. n <= n + 4
      BY <1>1
    <3> QED BY <1>2, <3>1, <3>3, <3>4, <3>5, <3>6
  <2>2. CASE st[n] # "SRC"
    <3>1. PICK c \in Starts(buf) :
             /\ \A i \in Starts(buf) : i <= c
             /\ Len(buf) < c + 4
             /\ \A i, j \in c..Len(buf) : EoDStates(buf)[i] = "CR_LF_DOT" /\ EoDStates(buf)[j] = "CR_LF_DOT" => i = j
      <4>1. EoDStates(buf)[Len(buf)] \notin {"SRC", "EoD"}
        BY <1>10, <2>2 DEF st, n
      <4> QED BY <4>1, Candidate
    <3>2. c \in 1..n /\ (st[c] = "CR" \/ (st[c] = "CR_LF" /\ st[c - 1] # "CR"))
      BY <1>8
    <3>3. c \in Nat /\ 1 <= c /\ c <= n /\ c - 1 \in 0..n /\ (c - 1) + 1 = c
      BY <1>1, <3>2
    <3>4. Max(Starts(buf)) = c
      <4>1. Starts(buf) \subseteq Nat
        BY <1>8
      <4> QED BY <3>1, <4>1, MaxIs
    <3>5. a.srcendpos = c - 1
      BY <1>6, <2>2, <3>4
    <3>6. \A d, f \in del : d >= c - 1 /\ f >= c - 1 => d = f
      <4> SUFFICES ASSUME NEW d \in del, NEW f \in del, d >= c - 1, f >= c - 1 PROVE d = f
        OBVIOUS
      <4>1. d \in 0..(n - 1) /\ f \in 0..(n - 1) /\ st[d + 1] = "CR_LF_DOT" /\ st[f + 1] = "CR_LF_DOT"
        BY <1>6
      <4>2. d + 1 \in c..n /\ f + 1 \in c..n
        BY <1>1, <3>3, <4>1
      <4>3. d + 1 = f + 1
        BY <3>1, <4>1, <4>2 DEF n, st
      <4> QED BY <4>1, <4>3
    <3>7. p + c <= e + 1
      <4> SUFFICES ASSUME ~(p + c <= e + 1) PROVE FALSE
        OBVIOUS
      <4>1. p + c = e + 2 \/ p + c = e + 3 \/ p + c = e + 4
        <5>1. p + c \in Nat /\ e \in Nat /\ p + c < e + 5 /\ ~(p + c <= e + 1)
          BY <1>1, <3>3
        <5>2. p + c \in 0..e \/ p + c = e + 1 \/ p + c = e + 2 \/ p + c = e + 3 \/ p + c = e + 4
          BY <5>1, Near
        <5> QED BY <5>1, <5>2
      <4>2. st[c] = G[p + c]
        BY <1>3, <3>2
      <4>3. p + c = e + 2 /\ st[c - 1] # "CR"
        BY <1>4, <3>2, <4>1, <4>2
      <4>4. c - 1 \in 1..n /\ p + (c - 1) = e + 1
        <5>1. p \in Nat /\ e \in Nat /\ n \in Nat /\ c \in Nat /\ p <= e /\ c <= n
          BY <1>1, <3>3
        <5>2. p + c = e + 2
          BY <4>3
        <5> QED BY <5>1, <5>2, JustBefore
      <4>5. st[c - 1] = "CR"
        BY <1>3, <1>4, <4>4
      <4> QED BY <4>3, <4>5
    <3>8. Sync(w, p + (c - 1))
      <4> DEFINE o == p + (c - 1)
      <4>1. o \in 0..(N - 1) /\ o < N /\ o + 1 = p + c
        BY <1>1, <3>3
      <4>2. G[o + 1] = st[c]
        BY <1>3, <3>2, <4>1
      <4>3. G[o + 1] = EoDStep(G[o], w[o + 1]) /\ G[o] \in States /\ "SRC" \in States
        BY <1>7, <4>1 DEF States
      <4> HIDE DEF o
      <4>4. CASE st[c] = "CR"
        <5>1. w[o + 1] = CR
          BY <1>s, <4>2, <4>3, <4>4, Zenon
        <5>2. EoDStep("SRC", w[o + 1]) = "CR"
          BY <4>3, <5>1, StepTo
        <5> QED BY <4>1, <4>2, <4>4, <5>2 DEF Sync, G, N, o
      <4>5. CASE st[c] = "CR_LF"
        <5>1. w[o + 1] = LF
          BY <1>s, <4>2, <4>3, <4>5, Zenon
        <5>2. EoDStep("SRC", w[o + 1]) = "CR_LF"
          BY <4>3, <5>1, StepTo
        <5> QED BY <4>1, <4>2, <4>5, <5>2 DEF Sync, G, N, o
      <4> QED BY <3>2, <4>4, <4>5
    <3>9. p + (c - 1) <= e /\ n <= (c - 1) + 4
      BY <1>1, <3>1, <3>3, <3>7 DEF n
    <3> QED BY <2>2, <3>3, <3>5, <3>6, <3>8, <3>9
  <2> QED BY <2>1, <2>2
<1>12. DataEnd(a) = Len(k[q]) /\ SubSeq(RemoveChars(buf, del), 1, Len(k[q])) = k[q]
  <2>1. q \in 0..Len(buf) /\ del \in SUBSET (0..(Len(buf) - 1))
    BY <1>6 DEF n
  <2>2. \A d, f \in del : d >= q /\ f >= q => d = f
    BY <1>11
  <2>3. a.delchrs = del /\ a.srcendpos = q
    BY <1>6, <1>11
  <2> QED BY <2>1, <2>2, <2>3, DataEndIs
<1>13. Found(w)[p + q] = Found(w)[p] \o k[q]
  <2>1. p \in Nat /\ q \in 0..Len(buf)
    BY <1>1 DEF n
  <2>2. Found(w)[p + q] = Found(w)[p] \o Found(buf)[q]
    <3>1. Adds(buf, q, w, p)
      BY <2>1, BlockFound
    <3> QED BY <3>1, Zenon DEF Adds
  <2> QED BY <2>2 DEF Found, del
<1>14. RemoveChars(buf, del) \in Seq(C)
  <2>1. del \in SUBSET (0..(Len(buf) - 1))
    BY <1>6 DEF n
  <2> QED BY <2>1, RemoveType
<1>15. k[q] \in Seq(C) /\ Len(k[q]) \in Nat
  <2>1. k \in [0..n -> Seq(C)]
    BY KeptToDef DEF n
  <2>2. k[q] \in Seq(C)
    BY <2>1
  <2> HIDE DEF k
  <2> QED BY <2>2
<1> DEFINE left == SubSeq(buf, q + 1, n)
<1>16. left \in Seq(C) /\ left = SubSeq(w, (p + q) + 1, p + n)
  <2> DEFINE t == SubSeq(w, (p + q) + 1, p + n)
  <2>1. n \in q..n /\ p + q \in 0..N /\ p + n \in (p + q)..N /\ (p + n) - (p + q) = n - q /\ q \in Nat
    BY <1>1
  <2>2. left \in Seq(C) /\ Len(left) = n - q /\ \A i \in 1..(n - q) : left[i] = buf[q + i]
    BY <2>1, SubSeqIs, ZenonT(40) DEF n
  <2>3. t \in Seq(C) /\ Len(t) = (p + n) - (p + q) /\ \A i \in 1..((p + n) - (p + q)) : t[i] = w[(p + q) + i]
    BY <2>1, SubSeqIs, ZenonT(40) DEF N
  <2>4. \A i \in 1..n : buf[i] = w[p + i]
    BY DEF IsBlock, n
  <2>5. \A i \in 1..(n - q) : buf[q + i] = w[(p + q) + i]
    <3> SUFFICES ASSUME NEW i \in 1..(n - q) PROVE buf[q + i] = w[(p + q) + i]
      OBVIOUS
    <3>1. i \in Nat /\ 1 <= i /\ i <= n - q /\ q \in Nat /\ n \in Nat /\ q <= n
      BY <1>1
    <3>2. q + i \in 1..n
      BY <3>1
    <3>3. p + (q + i) = (p + q) + i
      BY <1>1, <3>1
    <3> QED BY <2>4, <3>2, <3>3
  <2>6. left = t
    <3> HIDE DEF left, t
    <3>1. Len(t) = n - q /\ \A i \in 1..(n - q) : t[i] = w[(p + q) + i]
      BY <2>1, <2>3, Zenon
    <3>2. \A i \in 1..Len(left) : left[i] = t[i]
      BY <2>2, <2>5, <3>1, Zenon
    <3> QED BY <2>2, <2>3, <3>1, <3>2, SeqEq
  <2> QED BY <2>2, <2>6
<1>17. st[n] = "SRC" => left = <<>>
  <2> SUFFICES ASSUME st[n] = "SRC" PROVE left = <<>>
    OBVIOUS
  <2>1. q = n
    BY <1>11
  <2>2. SubSeq(buf, n + 1, n) = <<>>
    BY <1>1 DEF n
  <2> QED BY <2>1, <2>2
<1>18. /\ r.blk = [blk EXCEPT !.buf = RemoveChars(buf, del), !.pos = DataEnd(a), !.eodcharbuf = left]
       /\ r.eod = DataEnd(a)
  <2>1. /\ r.blk = [blk EXCEPT !.buf = RemoveChars(buf, del), !.pos = DataEnd(a),
                               !.eodcharbuf = IF a.st = "SRC" THEN @ ELSE SubSeq(buf, a.srcendpos + 1, n)]
        /\ r.eod = DataEnd(a)
    BY <1>6, <1>9, <1>10 DEF GetEoD, a, n
  <2>2. (IF a.st = "SRC" THEN blk.eodcharbuf ELSE SubSeq(buf, a.srcendpos + 1, n)) = left
    <3>1. CASE a.st = "SRC"
      BY <1>6, <1>17, <3>1
    <3>2. CASE a.st # "SRC"
      BY <1>11, <3>2
    <3> QED BY <3>1, <3>2
  <2> HIDE DEF left
  <2> QED BY <2>1, <2>2
<1> HIDE DEF left, k
<1>19. /\ r.blk.buf = RemoveChars(buf, del) /\ r.blk.eodcharbuf = left /\ r.blk.gotEoD = blk.gotEoD
       /\ r.blk \in Blocks(C) /\ r.eod = Len(k[q]) /\ r.eod \in Nat
  BY <1>12, <1>14, <1>15, <1>16, <1>18, ZenonT(40) DEF Blocks
<1>20. ReadTo(w, p + q, p + n, r.blk)
  <2>1. p + q <= p + n /\ p + n <= (p + q) + 4
    BY <1>1, <1>11
  <2> QED BY <1>11, <1>16, <1>19, <2>1 DEF ReadTo
<1>21. Found(w)[p + q] = Found(w)[p] \o SubSeq(r.blk.buf, 1, r.eod)
  BY <1>12, <1>13, <1>19
<1>22. p + q \in p..e
  BY <1>1, <1>11
<1> QED BY <1>19, <1>20, <1>21, <1>22, Zenon DEF n, FindsMore

-----------------------------------------------------------------------------
(* Escaping *)

\* EscapeSTM with what it has printed.
Printers(C) == [state : {"SRC", "LF", "LFdot"}, blk : Seq(C), out : Seq(C)]

LEMMA EscapeOneType ==
    ASSUME NEW C, DOT \in C, NEW e \in Printers(C), e.blk # <<>>, NEW size
    PROVE  EscapeOne(e, size) \in Printers(C)
<1>1. Head(e.blk) \in C /\ Tail(e.blk) \in Seq(C) /\ e.out \in Seq(C) /\ e.blk \in Seq(C)
  BY DEF Printers
<1>2. Append(e.out, Head(e.blk)) \in Seq(C) /\ Append(e.out, DOT) \in Seq(C)
  BY <1>1
<1>3. Append(Append(e.out, Head(e.blk)), DOT) \in Seq(C)
  BY <1>1, <1>2
<1> QED BY <1>1, <1>2, <1>3 DEF EscapeOne, Printers

\* The turns of process() satisfy their recursion.
LEMMA EscapeTurnsDef ==
    ASSUME NEW C, DOT \in C, NEW e, e.state \in {"SRC", "LF", "LFdot"}, e.blk \in Seq(C), NEW size \in Nat
    PROVE  /\ EscapeTurns(e, size) \in [0..size -> Printers(C)]
           /\ EscapeTurns(e, size)[0] = [state |-> e.state, blk |-> e.blk, out |-> <<>>]
           /\ \A i \in 1..size : EscapeTurns(e, size)[i] =
                 LET s == EscapeTurns(e, size)[i - 1]
                 IN  IF s.blk = <<>> \/ Len(s.out) = size THEN s ELSE EscapeOne(s, size)
<1> DEFINE n == size
           T == Printers(C)
           a == [state |-> e.state, blk |-> e.blk, out |-> <<>>]
           K(i, s) == IF s.blk = <<>> \/ Len(s.out) = size THEN s ELSE EscapeOne(s, size)
           h == [p \in (1..n) \X T |-> K(p[1], p[2])]
           Eq(g) == g = [i \in 0..n |-> IF i = 0 THEN a ELSE K(i, g[i - 1])]
           f == EscapeTurns(e, size)
<1>1. n \in Nat /\ a \in T
  BY DEF Printers
<1>2. \A i \in 1..n : \A s \in T : K(i, s) \in T
  BY EscapeOneType
<1>3. \E g : Eq(g)
  <2> HIDE DEF n, T, a, K
  <2>1. h \in [(1..n) \X T -> T]
    BY <1>2
  <2>2. PICK g \in [0..n -> T] : Solves(g, n, a, h)
    <3> HIDE DEF h
    <3> QED BY <1>1, <2>1, Recursion
  <2>3. ASSUME NEW i \in 1..n PROVE g[i] = K(i, g[i - 1])
    <3>1. <<i, g[i - 1]>> \in (1..n) \X T
      BY <1>1
    <3> QED BY <2>2, <3>1 DEF Solves
  <2>4. g[0] = a
    BY <2>2 DEF Solves
  <2>5. Eq(g)
    BY <1>1, <2>3, <2>4
  <2> QED BY <2>5
<1>4. Eq(f)
  BY <1>3, Zenon DEF EscapeTurns
<1> HIDE DEF n, T, a, K, f
<1>5. f[0] = a /\ \A i \in 1..n : f[i] = K(i, f[i - 1])
  BY <1>1, <1>4
<1>6. \A i \in 0..n : f[i] \in T
  <2> DEFINE S == {i \in 0..n : f[i] \in T}
  <2>1. 0 \in S
    BY <1>1, <1>5
  <2>2. ASSUME NEW i \in 0..(n - 1), i \in S PROVE i + 1 \in S
    <3>1. i + 1 \in 1..n /\ (i + 1) - 1 = i
      BY <1>1
    <3>2. f[i + 1] = K(i + 1, f[i])
      BY <1>5, <3>1
    <3> QED BY <1>1, <1>2, <2>2, <3>1, <3>2
  <2>3. \A i \in 0..n : i \in S
    <3> HIDE DEF S
    <3> QED BY <1>1, <2>1, <2>2, Induction
  <2> QED BY <2>3
<1>7. f \in [0..n -> T]
  BY <1>4, <1>6
<1> QED BY <1>5, <1>7, Zenon DEF f, n, T, a, K

\* The escaped data, one byte more.
LEMMA NextEscaped ==
    ASSUME NEW C, DOT \in C, NEW data \in Seq(C), NEW k \in 0..(Len(data) - 1)
    PROVE  /\ EscapedTo(data)[k] \in Seq(C)
           /\ EscapedTo(data)[k + 1] =
                IF data[k + 1] = DOT /\ k > 0 /\ data[k] = LF
                THEN Append(Append(EscapedTo(data)[k], DOT), DOT)
                ELSE Append(EscapedTo(data)[k], data[k + 1])
<1> DEFINE s == EscapedTo(data)[k]
<1>1. k + 1 \in 1..Len(data) /\ (k + 1) - 1 = k /\ k \in 0..Len(data) /\ (k + 1 > 1 <=> k > 0)
  OBVIOUS
<1>2. s \in Seq(C) /\ EscapedTo(data)[k + 1] = s \o EscapedByte(data, k + 1)
  BY <1>1, EscapedToDef
<1>3. EscapedByte(data, k + 1) = IF data[k + 1] = DOT /\ k > 0 /\ data[k] = LF THEN <<DOT, DOT>> ELSE <<data[k + 1]>>
  BY <1>1 DEF EscapedByte
<1>4. data[k + 1] \in C
  BY <1>1
<1> HIDE DEF s
<1>5. s \o <<DOT, DOT>> = Append(Append(s, DOT), DOT) /\ s \o <<data[k + 1]>> = Append(s, data[k + 1])
  <2>1. \A c \in C : s \o <<c>> = Append(s, c)
    BY <1>2
  <2>2. s \o <<DOT, DOT>> = Append(Append(s, DOT), DOT)
    <3> DEFINE u == s \o <<DOT, DOT>>
               v == Append(Append(s, DOT), DOT)
    <3>1. u \in Seq(C) /\ v \in Seq(C) /\ Len(u) = Len(s) + 2 /\ Len(v) = Len(s) + 2 /\ Len(s) \in Nat
      BY <1>2
    <3>2. \A i \in 1..(Len(s) + 2) : u[i] = v[i]
      BY <1>2
    <3> HIDE DEF u, v
    <3>3. u = v
      BY <3>1, <3>2, SeqEq
    <3> QED BY <3>3 DEF u, v
  <2> QED BY <1>4, <2>1, <2>2
<1> QED BY <1>2, <1>3, <1>5 DEF s

\* The printer e has printed the first k bytes of data and of an escaped dot behind
\* them possibly the first; its block ends at g.
AtByte(e, data, k, g) ==
    /\ e.blk = SubSeq(data, k + 1, g)
    /\ e.state # "SRC" <=> k > 0 /\ data[k] = LF
    /\ e.state = "LFdot" => k < g /\ data[k + 1] = DOT

Printed(state, data, k) ==
    IF state = "LFdot" THEN Append(EscapedTo(data)[k], DOT) ELSE EscapedTo(data)[k]

\* From byte k in state st to byte m in state tt something is printed.
Advances(st, k, tt, m) == m > k \/ (m = k /\ tt = "LFdot" /\ st # "LFdot")

LEMMA AppendIs ==
    ASSUME NEW C
    PROVE  \A t \in Seq(C) : \A c \in C : /\ Append(t, c) \in Seq(C) /\ Append(t, c) # <<>>
                                         /\ Len(Append(t, c)) = Len(t) + 1 /\ Len(t) \in Nat
  OBVIOUS

\* The turn for a dot after a line feed, of which none is printed yet.
LEMMA EscapeDot ==
    ASSUME NEW e, NEW size \in Nat, e.state = "LF", Head(e.blk) = DOT, Len(Append(e.out, DOT)) \in Nat
    PROVE  /\ Len(Append(e.out, DOT)) = size
                => EscapeOne(e, size) = [state |-> "LFdot", blk |-> e.blk, out |-> Append(e.out, DOT)]
           /\ Len(Append(e.out, DOT)) < size
                => EscapeOne(e, size) =
                     [state |-> "SRC", blk |-> Tail(e.blk), out |-> Append(Append(e.out, DOT), DOT)]
<1> DEFINE printed == IF e.state = "LFdot" THEN e.out ELSE Append(e.out, Head(e.blk))
           o == Append(e.out, DOT)
<1>1. printed = o
  OBVIOUS
<1>2. Len(o) \in Nat
  OBVIOUS
<1>3. EscapeOne(e, size) = IF Len(o) = size THEN [state |-> "LFdot", blk |-> e.blk, out |-> o]
                           ELSE IF Len(o) < size
                           THEN [state |-> "SRC", blk |-> Tail(e.blk), out |-> Append(o, DOT)]
                           ELSE [state |-> IF DOT = LF THEN "LF" ELSE "SRC", blk |-> Tail(e.blk), out |-> o]
  <2> HIDE DEF o
  <2>1. CASE Len(o) = size
    <3>1. ~(Len(o) < size)
      BY <2>1
    <3> QED BY <1>1, <2>1, <3>1 DEF EscapeOne
  <2>2. CASE Len(o) < size
    <3>1. Len(o) # size
      BY <1>2, <2>2
    <3> QED BY <1>1, <2>2, <3>1 DEF EscapeOne
  <2>3. CASE ~(Len(o) < size) /\ Len(o) # size
    BY <1>1, <2>3 DEF EscapeOne
  <2> QED BY <2>1, <2>2, <2>3
<1> HIDE DEF o
<1>4. Len(o) < size => Len(o) # size
  BY <1>2
<1> QED BY <1>3, <1>4 DEF o

\* From e at byte k to f the escaped data is printed on behind base.
PrintsOn(base, e, k, f, data, g) ==
    \E m \in k..g : /\ AtByte(f, data, m, g)
                    /\ base \o f.out = Printed(f.state, data, m)
                    /\ Advances(e.state, k, f.state, m)

\* A turn of process() prints the next byte of the escaped data.
LEMMA EscapeOneIs ==
    ASSUME NEW C, {CR, LF, DOT} \subseteq C, NEW data \in Seq(C), NEW g \in 0..Len(data), NEW k \in 0..g,
           NEW e \in Printers(C), AtByte(e, data, k, g), e.blk # <<>>,
           NEW size \in Nat, Len(e.out) < size,
           NEW base \in Seq(C), base \o e.out = Printed(e.state, data, k),
           NEW f, f = EscapeOne(e, size)
    PROVE  /\ f \in Printers(C) /\ Len(f.out) <= size /\ f.out # <<>>
           /\ PrintsOn(base, e, k, f, data, g)
<1> DEFINE n == Len(data)
           ch == data[k + 1]
           blk == e.blk
           out == e.out
           next == SubSeq(data, (k + 1) + 1, g)
           E == EscapedTo(data)[k]
           Good(m) == /\ AtByte(f, data, m, g)
                      /\ base \o f.out = Printed(f.state, data, m)
                      /\ Advances(e.state, k, f.state, m)
           Fine == f \in Printers(C) /\ Len(f.out) <= size /\ f.out # <<>>
<1>1. n \in Nat /\ g \in Nat /\ k \in Nat /\ g <= n /\ k <= g
  OBVIOUS
<1>2. out \in Seq(C) /\ blk \in Seq(C) /\ e.state \in {"SRC", "LF", "LFdot"} /\ Len(out) \in Nat
  BY DEF Printers
<1>3. blk = SubSeq(data, k + 1, g)
  BY DEF AtByte
<1>4. k < g /\ k + 1 \in 1..n /\ k \in 0..(n - 1) /\ k + 1 \in k..g /\ k \in k..g /\ k + 1 > 0
  <2>1. k = g => SubSeq(data, k + 1, g) = <<>>
    BY <1>1
  <2> QED BY <1>1, <1>3, <2>1
<1>5. ch \in C /\ Head(blk) = ch /\ Tail(blk) = next
  <2>1. SubSeq(data, k + 1, g) \in Seq(C) /\ Len(SubSeq(data, k + 1, g)) = g - k
        /\ \A i \in 1..(g - k) : SubSeq(data, k + 1, g)[i] = data[k + i]
    BY <1>1, SubSeqIs, SMTT(30)
  <2>2. next \in Seq(C) /\ Len(next) = g - (k + 1) /\ \A i \in 1..(g - (k + 1)) : next[i] = data[(k + 1) + i]
    <3>1. k + 1 \in 0..Len(data) /\ g \in (k + 1)..Len(data)
      BY <1>1, <1>4
    <3> QED BY <3>1, SubSeqIs
  <2>3. ch \in C
    BY <1>4
  <2> HIDE DEF next, n
  <2>4. Head(blk) = ch
    <3>1. Head(blk) = blk[1]
      BY <1>2
    <3>2. 1 \in 1..(g - k)
      BY <1>1, <1>4
    <3> QED BY <1>3, <2>1, <3>1, <3>2
  <2>5. Tail(blk) = next
    <3>1. Len(blk) = g - k /\ \A i \in 1..(g - k) : blk[i] = data[k + i]
      BY <1>3, <2>1
    <3>2. Tail(blk) \in Seq(C) /\ Len(Tail(blk)) = Len(blk) - 1 /\ \A i \in 1..(Len(blk) - 1) : Tail(blk)[i] = blk[i + 1]
      BY <1>2
    <3>3. (g - k) - 1 = g - (k + 1)
      BY <1>1
    <3>4. \A i \in 1..(g - (k + 1)) : i + 1 \in 1..(g - k) /\ (k + 1) + i = k + (i + 1)
      BY <1>1
    <3> DEFINE t == Tail(blk)
    <3>5. t \in Seq(C) /\ Len(t) = Len(next) /\ \A i \in 1..Len(t) : t[i] = next[i]
      <4>1. Len(t) = g - (k + 1) /\ \A i \in 1..(g - (k + 1)) : t[i] = blk[i + 1]
        BY <3>1, <3>2, <3>3
      <4> HIDE DEF t
      <4> QED BY <2>2, <3>1, <3>2, <3>4, <4>1 DEF t
    <3> HIDE DEF t
    <3>6. t = next
      BY <2>2, <3>5, SeqEq
    <3> QED BY <3>6 DEF t
  <2> QED BY <2>3, <2>4, <2>5
<1>6. /\ E \in Seq(C)
      /\ EscapedTo(data)[k + 1] = IF ch = DOT /\ k > 0 /\ data[k] = LF THEN Append(Append(E, DOT), DOT)
                                  ELSE Append(E, ch)
  BY <1>4, NextEscaped
<1>7. \A s, t \in Seq(C) : \A c \in C : s \o Append(t, c) = Append(s \o t, c)
  BY ConcatAppend, SMTT(30)
<1>8. DOT \in C
  OBVIOUS
<1>p. \A s \in Seq(C) : \A c \in C : /\ Append(s, c) \in Seq(C) /\ Append(s, c) # <<>>
                                      /\ Len(Append(s, c)) = Len(s) + 1 /\ Len(s) \in Nat
  BY AppendIs
<1>9. e.state # "SRC" <=> k > 0 /\ data[k] = LF
  BY DEF AtByte
<1>10. base \o out = IF e.state = "LFdot" THEN Append(E, DOT) ELSE E
  BY DEF Printed
<1>11. f = EscapeOne(e, size) /\ Len(out) < size
  OBVIOUS
<1> HIDE DEF n, ch, blk, out, next, E
<1>a. \A c \in C : /\ Append(out, c) \in Seq(C) /\ Append(out, c) # <<>> /\ Len(Append(out, c)) = Len(out) + 1
                   /\ Len(Append(out, c)) \in Nat
  <2>1. \A c \in C : /\ Append(out, c) \in Seq(C) /\ Append(out, c) # <<>> /\ Len(Append(out, c)) = Len(out) + 1
    BY <1>2, <1>p, Zenon
  <2> QED BY <1>2, <2>1
<1>t. next \in Seq(C)
  <2>1. Tail(blk) \in Seq(C)
    BY <1>2 DEF blk
  <2> QED BY <1>5, <2>1
<1>12. ASSUME f = [state |-> IF ch = LF THEN "LF" ELSE "SRC", blk |-> next, out |-> Append(out, ch)],
              ~(ch = DOT /\ k > 0 /\ data[k] = LF), e.state # "LFdot"
       PROVE  Fine /\ Good(k + 1)
  <2>1. Fine
    <3>1. Len(Append(out, ch)) <= size
      BY <1>2, <1>5, <1>11, <1>a
    <3>2. Append(out, ch) \in Seq(C) /\ Append(out, ch) # <<>>
      BY <1>5, <1>a
    <3> QED BY <1>12, <1>t, <3>1, <3>2 DEF Printers
  <2>2. AtByte(f, data, k + 1, g)
    <3>1. f.blk = SubSeq(data, (k + 1) + 1, g)
      BY <1>12 DEF next
    <3>2. f.state # "SRC" <=> data[k + 1] = LF
      BY <1>12 DEF ch
    <3>3. f.state # "LFdot"
      BY <1>12
    <3> QED BY <1>4, <3>1, <3>2, <3>3 DEF AtByte
  <2>3. base \o f.out = EscapedTo(data)[k + 1]
    <3>1. EscapedTo(data)[k + 1] = Append(E, ch)
      BY <1>6, <1>12
    <3>2. f.out = Append(out, ch) /\ base \o out = E
      BY <1>10, <1>12
    <3>3. base \o Append(out, ch) = Append(base \o out, ch)
      BY <1>2, <1>5, <1>7, Zenon
    <3> QED BY <3>1, <3>2, <3>3, Zenon
  <2>4. Printed(f.state, data, k + 1) = EscapedTo(data)[k + 1]
    BY <1>12 DEF Printed
  <2>5. Advances(e.state, k, f.state, k + 1)
    BY <1>1 DEF Advances
  <2> HIDE DEF Fine
  <2> QED BY <2>1, <2>2, <2>3, <2>4, <2>5, Zenon
<1>13. CASE e.state = "SRC"
  <2>1. f = [state |-> IF ch = LF THEN "LF" ELSE "SRC", blk |-> next, out |-> Append(out, ch)]
    BY <1>5, <1>11, <1>13 DEF EscapeOne, blk, out
  <2>2. ~(ch = DOT /\ k > 0 /\ data[k] = LF) /\ e.state # "LFdot"
    BY <1>9, <1>13
  <2>3. Fine /\ Good(k + 1)
    BY <1>12, <2>1, <2>2
  <2> HIDE DEF Good
  <2>4. \E m \in k..g : Good(m)
    BY <1>4, <2>3
  <2> QED BY <2>3, <2>4 DEF Good, PrintsOn
<1>14. CASE e.state = "LF" /\ ch # DOT
  <2>1. f = [state |-> IF ch = LF THEN "LF" ELSE "SRC", blk |-> next, out |-> Append(out, ch)]
    BY <1>5, <1>11, <1>14 DEF EscapeOne, blk, out
  <2>2. ~(ch = DOT /\ k > 0 /\ data[k] = LF) /\ e.state # "LFdot"
    BY <1>14
  <2>3. Fine /\ Good(k + 1)
    BY <1>12, <2>1, <2>2
  <2> HIDE DEF Good
  <2>4. \E m \in k..g : Good(m)
    BY <1>4, <2>3
  <2> QED BY <2>3, <2>4 DEF Good, PrintsOn
<1>15. CASE e.state = "LF" /\ ch = DOT /\ Len(out) + 1 = size
  <2>1. f = [state |-> "LFdot", blk |-> blk, out |-> Append(out, DOT)]
    <3>1. Len(Append(out, DOT)) = size /\ Len(Append(out, DOT)) \in Nat
      BY <1>8, <1>15, <1>a
    <3> QED BY <1>5, <1>11, <1>15, <3>1, EscapeDot DEF blk, out
  <2>2. Fine
    <3>1. Len(Append(out, DOT)) <= size
      BY <1>2, <1>8, <1>15, <1>a
    <3>2. Append(out, DOT) \in Seq(C) /\ Append(out, DOT) # <<>>
      BY <1>8, <1>a
    <3> QED BY <1>2, <2>1, <3>1, <3>2 DEF Printers
  <2>3. AtByte(f, data, k, g)
    <3>1. f.blk = SubSeq(data, k + 1, g) /\ f.state = "LFdot"
      BY <1>3, <2>1
    <3>2. k > 0 /\ data[k] = LF
      BY <1>9, <1>15
    <3> QED BY <1>4, <1>15, <3>1, <3>2 DEF AtByte, ch
  <2>4. base \o f.out = Append(E, DOT)
    <3>1. f.out = Append(out, DOT) /\ base \o out = E
      BY <1>10, <1>15, <2>1
    <3>2. base \o Append(out, DOT) = Append(base \o out, DOT)
      BY <1>2, <1>7, <1>8, Zenon
    <3> QED BY <3>1, <3>2, Zenon
  <2>5. Printed(f.state, data, k) = Append(E, DOT)
    BY <2>1 DEF Printed, E
  <2>6. Advances(e.state, k, f.state, k)
    BY <1>15, <2>1 DEF Advances
  <2> HIDE DEF Fine
  <2>7. Good(k)
    BY <2>3, <2>4, <2>5, <2>6, Zenon
  <2> HIDE DEF Good
  <2>8. \E m \in k..g : Good(m)
    BY <1>4, <2>7
  <2> QED BY <2>2, <2>8 DEF Good, PrintsOn, Fine
<1>16. ASSUME ch = DOT, k > 0, data[k] = LF, NEW o \in Seq(C), Len(o) < size, base \o o = Append(E, DOT),
              f = [state |-> "SRC", blk |-> next, out |-> Append(o, DOT)]
       PROVE  Fine /\ Good(k + 1)
  <2>1. Append(o, DOT) \in Seq(C) /\ Append(o, DOT) # <<>> /\ Len(Append(o, DOT)) = Len(o) + 1 /\ Len(o) \in Nat
    BY <1>8, <1>p, Zenon
  <2>2. Fine
    <3>1. Len(Append(o, DOT)) <= size
      BY <1>16, <2>1
    <3> QED BY <1>16, <1>t, <2>1, <3>1 DEF Printers
  <2>3. AtByte(f, data, k + 1, g)
    <3>1. f.blk = SubSeq(data, (k + 1) + 1, g) /\ f.state = "SRC"
      BY <1>16 DEF next
    <3>2. data[k + 1] # LF
      BY <1>16, CharsDiffer DEF ch
    <3> QED BY <3>1, <3>2 DEF AtByte
  <2>4. base \o f.out = EscapedTo(data)[k + 1]
    <3>1. EscapedTo(data)[k + 1] = Append(Append(E, DOT), DOT)
      BY <1>6, <1>16
    <3>2. f.out = Append(o, DOT)
      BY <1>16
    <3>3. base \o Append(o, DOT) = Append(base \o o, DOT)
      BY <1>7, <1>8, Zenon
    <3> QED BY <1>16, <3>1, <3>2, <3>3, Zenon
  <2>5. Printed(f.state, data, k + 1) = EscapedTo(data)[k + 1]
    BY <1>16 DEF Printed
  <2>6. Advances(e.state, k, f.state, k + 1)
    BY <1>1 DEF Advances
  <2> HIDE DEF Fine
  <2> QED BY <2>2, <2>3, <2>4, <2>5, <2>6, Zenon
<1>17. CASE e.state = "LF" /\ ch = DOT /\ Len(out) + 1 < size
  <2> DEFINE o == Append(out, DOT)
  <2>1. f = [state |-> "SRC", blk |-> next, out |-> Append(o, DOT)]
    <3>1. Len(Append(out, DOT)) < size /\ Len(Append(out, DOT)) \in Nat
      BY <1>2, <1>8, <1>17, <1>a
    <3> QED BY <1>5, <1>11, <1>17, <3>1, EscapeDot DEF blk, out
  <2>2. o \in Seq(C) /\ Len(o) < size /\ base \o o = Append(E, DOT)
    <3>1. base \o out = E
      BY <1>10, <1>17
    <3>2. base \o Append(out, DOT) = Append(base \o out, DOT)
      BY <1>2, <1>7, <1>8, Zenon
    <3>3. o \in Seq(C) /\ Len(o) < size
      BY <1>2, <1>8, <1>17, <1>a
    <3> QED BY <3>1, <3>2, <3>3
  <2>3. k > 0 /\ data[k] = LF
    BY <1>9, <1>17
  <2> HIDE DEF o
  <2>4. Fine /\ Good(k + 1)
    BY <1>16, <1>17, <2>1, <2>2, <2>3
  <2> HIDE DEF Good
  <2>5. \E m \in k..g : Good(m)
    BY <1>4, <2>4
  <2> QED BY <2>4, <2>5 DEF Good, PrintsOn
<1>18. CASE e.state = "LFdot"
  <2>1. ch = DOT
    BY <1>18 DEF AtByte, ch
  <2>2. f = [state |-> "SRC", blk |-> next, out |-> Append(out, DOT)]
    <3>1. Len(out) # size
      BY <1>2, <1>11
    <3> QED BY <1>5, <1>11, <1>18, <2>1, <3>1 DEF EscapeOne, blk, out
  <2>3. out \in Seq(C) /\ Len(out) < size /\ base \o out = Append(E, DOT)
    BY <1>2, <1>10, <1>11, <1>18
  <2>4. k > 0 /\ data[k] = LF
    BY <1>9, <1>18
  <2>5. Fine /\ Good(k + 1)
    BY <1>16, <2>1, <2>2, <2>3, <2>4
  <2> HIDE DEF Good
  <2>6. \E m \in k..g : Good(m)
    BY <1>4, <2>5
  <2> QED BY <2>5, <2>6 DEF Good, PrintsOn
<1>19. Len(out) + 1 = size \/ Len(out) + 1 < size
  BY <1>2, <1>11
<1> QED BY <1>2, <1>13, <1>14, <1>15, <1>17, <1>18, <1>19

LEMMA AdvancesOn ==
    ASSUME NEW st, NEW k \in Nat, NEW tt, NEW m \in Nat, NEW uu, NEW o \in Nat,
           Advances(st, k, tt, m), Advances(tt, m, uu, o)
    PROVE  Advances(st, k, uu, o)
  BY DEF Advances

\* The call of process() on e at byte k, with a block up to g, has printed the
\* escaped data on, unless there was nothing to print.
Prints(C, e, k, r, data, g) ==
    /\ r \in Printers(C)
    /\ \E m \in k..g : /\ AtByte(r, data, m, g)
                       /\ Printed(e.state, data, k) \o r.out = Printed(r.state, data, m)
                       /\ e.blk # <<>> => Advances(e.state, k, r.state, m)
    /\ e.blk # <<>> => r.out # <<>>
    /\ e.blk = <<>> => r.out = <<>> /\ r.state = e.state /\ r.blk = <<>>

\* process() prints the escaped data on from where it was, and something when there
\* is something to print.
LEMMA EscapeIs ==
    ASSUME NEW C, {CR, LF, DOT} \subseteq C, NEW data \in Seq(C), NEW g \in 0..Len(data), NEW k \in 0..g,
           NEW e, e.state \in {"SRC", "LF", "LFdot"}, e.blk \in Seq(C), AtByte(e, data, k, g),
           NEW size \in Nat \ {0}, NEW r, r = Escape(e, size)
    PROVE  Prints(C, e, k, r, data, g)
<1> DEFINE T == EscapeTurns(e, size)
           base == Printed(e.state, data, k)
           e0 == [state |-> e.state, blk |-> e.blk, out |-> <<>>]
           At(a, m, i) == /\ AtByte(a, data, m, g)
                          /\ base \o a.out = Printed(a.state, data, m)
                          /\ IF i > 0 /\ e.blk # <<>> THEN a.out # <<>> /\ Advances(e.state, k, a.state, m)
                             ELSE a = e0
           Turned(a, i) == Len(a.out) <= size /\ \E m \in k..g : At(a, m, i)
           S == {i \in 0..size : Turned(T[i], i)}
<1>1. size \in Nat /\ size > 0 /\ DOT \in C /\ k \in Nat /\ g \in Nat /\ k \in k..g
  OBVIOUS
<1>2. /\ T \in [0..size -> Printers(C)] /\ T[0] = e0
      /\ \A i \in 1..size : T[i] = IF T[i - 1].blk = <<>> \/ Len(T[i - 1].out) = size THEN T[i - 1]
                                   ELSE EscapeOne(T[i - 1], size)
  BY <1>1, EscapeTurnsDef
<1>3. base \in Seq(C)
  <2>1. EscapedTo(data)[k] \in Seq(C)
    <3>1. EscapedTo(data) \in [0..Len(data) -> Seq(C)] /\ k \in 0..Len(data)
      BY <1>1, EscapedToDef
    <3> QED BY <3>1
  <2>2. Append(EscapedTo(data)[k], DOT) \in Seq(C)
    BY <1>1, <2>1, AppendIs
  <2> QED BY <2>1, <2>2 DEF Printed
<1> HIDE DEF T
<1>4. 0 \in S
  <2>1. AtByte(e0, data, k, g)
    BY DEF AtByte
  <2>2. base \o e0.out = base
    <3> HIDE DEF base
    <3> QED BY <1>3
  <2>3. At(e0, k, 0)
    BY <2>1, <2>2
  <2>4. Len(e0.out) <= size
    BY <1>1
  <2> HIDE DEF e0, At
  <2>5. Turned(e0, 0)
    BY <1>1, <2>3, <2>4
  <2> QED BY <1>1, <1>2, <2>5
<1>5. ASSUME NEW i \in 0..(size - 1), i \in S PROVE i + 1 \in S
  <2> DEFINE a == T[i]
             b == T[i + 1]
  <2>1. i + 1 \in 1..size /\ (i + 1) - 1 = i /\ i \in 0..size /\ i + 1 \in 0..size /\ i + 1 > 0
    BY <1>1
  <2>2. b = IF a.blk = <<>> \/ Len(a.out) = size THEN a ELSE EscapeOne(a, size)
    BY <1>2, <2>1
  <2>3. a \in Printers(C)
    BY <1>2, <2>1
  <2>4. PICK m \in k..g : At(a, m, i)
    BY <1>5
  <2>5. Len(a.out) <= size
    BY <1>5
  <2>6. a.out \in Seq(C) /\ Len(a.out) \in Nat /\ m \in Nat /\ m <= g
    BY <1>1, <2>3 DEF Printers
  <2> HIDE DEF a, b
  <2>7. CASE a.blk = <<>> \/ Len(a.out) = size
    <3>1. b = a
      BY <2>2, <2>7
    <3>2. At(b, m, i + 1)
      <4>1. CASE i > 0 /\ e.blk # <<>>
        BY <2>1, <2>4, <3>1, <4>1
      <4>2. CASE e.blk = <<>>
        BY <2>4, <3>1, <4>2
      <4>3. CASE ~(i > 0) /\ e.blk # <<>>
        <5>1. a = e0
          BY <2>4, <4>3
        <5>2. a.blk # <<>> /\ a.out = <<>>
          BY <4>3, <5>1
        <5>3. Len(a.out) # size
          BY <1>1, <5>2
        <5> QED BY <2>7, <5>2, <5>3
      <4> QED BY <4>1, <4>2, <4>3
    <3> HIDE DEF At
    <3>3. Turned(b, i + 1)
      BY <2>5, <3>1, <3>2
    <3> QED BY <2>1, <3>3 DEF b
  <2>8. CASE ~(a.blk = <<>> \/ Len(a.out) = size)
    <3>1. b = EscapeOne(a, size) /\ a.blk # <<>> /\ Len(a.out) < size
      BY <1>1, <2>2, <2>5, <2>6, <2>8
    <3>2. AtByte(a, data, m, g) /\ base \o a.out = Printed(a.state, data, m) /\ m \in 0..g
      BY <1>1, <2>4
    <3>3. /\ Len(b.out) <= size /\ b.out # <<>>
          /\ PrintsOn(base, a, m, b, data, g)
      <4> HIDE DEF base
      <4> QED BY <1>1, <1>3, <2>3, <3>1, <3>2, EscapeOneIs
    <3>4. PICK o \in m..g : /\ AtByte(b, data, o, g)
                            /\ base \o b.out = Printed(b.state, data, o)
                            /\ Advances(a.state, m, b.state, o)
      BY <3>3 DEF PrintsOn
    <3>5. o \in k..g /\ o \in Nat
      BY <1>1, <2>6
    <3>6. e.blk # <<>>
      <4> SUFFICES ASSUME e.blk = <<>> PROVE FALSE
        OBVIOUS
      <4>1. a = e0
        BY <2>4
      <4> QED BY <3>1, <4>1
    <3>7. Advances(e.state, k, b.state, o)
      <4>1. CASE i > 0
        <5>1. Advances(e.state, k, a.state, m)
          BY <2>4, <3>6, <4>1
        <5> QED BY <1>1, <2>6, <3>4, <3>5, <5>1, AdvancesOn
      <4>2. CASE ~(i > 0)
        <5>1. a = e0
          BY <2>4, <4>2
        <5>2. a.state = e.state
          BY <5>1
        <5>3. (b.state = "LFdot" /\ e.state # "LFdot") \/ o > m
          BY <3>4, <5>2 DEF Advances
        <5> QED BY <1>1, <2>6, <3>4, <3>5, <5>2, <5>3 DEF Advances
      <4> QED BY <4>1, <4>2
    <3>8. At(b, o, i + 1)
      BY <2>1, <3>3, <3>4, <3>6, <3>7
    <3> HIDE DEF At
    <3>9. Turned(b, i + 1)
      BY <3>3, <3>5, <3>8
    <3> QED BY <2>1, <3>9 DEF b
  <2> QED BY <2>7, <2>8
<1>6. Turned(T[size], size)
  <2>1. \A i \in 0..size : i \in S
    <3> HIDE DEF S
    <3> QED BY <1>1, <1>4, <1>5, Induction
  <2>2. size \in 0..size
    BY <1>1
  <2> QED BY <2>1, <2>2
<1>7. r = T[size] /\ r \in Printers(C)
  <2>1. size \in 0..size
    BY <1>1
  <2> QED BY <1>2, <2>1 DEF Escape, T
<1>8. PICK m \in k..g : At(r, m, size)
  BY <1>6, <1>7
<1>9. CASE e.blk # <<>>
  BY <1>1, <1>7, <1>8, <1>9 DEF Prints
<1>10. CASE e.blk = <<>>
  <2>1. r = e0
    BY <1>8, <1>10
  <2>2. r.out = <<>> /\ r.state = e.state /\ r.blk = <<>>
    BY <1>10, <2>1
  <2>3. AtByte(r, data, m, g) /\ base \o r.out = Printed(r.state, data, m)
    BY <1>8
  <2> QED BY <1>7, <1>10, <2>2, <2>3 DEF Prints
<1> QED BY <1>9, <1>10
=============================================================================
