--------------------------- MODULE DataInduction ---------------------------
(***************************************************************************)
(* Induction over numbers, stated about sets, and what it shows of the     *)
(* recursive functions the models use.  A set of numbers that has 0 and    *)
(* the successor of each of its members is Nat: a property of n is put     *)
(* forward as the set of the numbers that have it.                         *)
(***************************************************************************)
EXTENDS Integers, Sequences, FiniteSets, SequencesExt, SequenceTheorems, FiniteSetTheorems,
        WellFoundedInduction, TLAPS

(* A set of numbers has a least one.                                       *)
LEMMA LeastNumber ==
  ASSUME NEW T, T \subseteq Nat, T # {}
  PROVE  \E n \in T : \A m \in T : ~ (m < n)
<1> DEFINE Less == {p \in Nat \X Nat : p[1] < p[2]}
<1>1. IsWellFoundedOn(Less, Nat)
  BY NatLessThanWellFounded DEF OpToRel
<1>2. \E n \in T : \A m \in T : ~ (<<m, n>> \in Less)
  <2> HIDE DEF Less
  <2> QED
    BY <1>1, WFMin
<1> QED
  BY <1>2

(* The principle of induction.                                             *)
LEMMA InductionOnNat ==
  ASSUME NEW T, 0 \in T, \A n \in Nat : n \in T => n + 1 \in T
  PROVE  \A n \in Nat : n \in T
<1> SUFFICES ASSUME Nat \ T # {} PROVE FALSE
  OBVIOUS
<1>1. PICK n \in Nat \ T : \A m \in Nat \ T : ~ (m < n)
  BY LeastNumber
<1>2. n - 1 \in Nat /\ n - 1 \in T
  BY <1>1
<1> QED
  BY <1>1, <1>2

(***************************************************************************)
(* FlattenSeq, by the recursive function it is made of.                    *)
(***************************************************************************)
FlatStep(f, s, i) == IF i = 1 THEN s[i] ELSE f[i - 1] \o s[i]
Flat(s) == CHOOSE f : f = [i \in 1..Len(s) |-> FlatStep(f, s, i)]

(* A function that flattens the first chunks of s, one after the other.    *)
Flattens(f, s, n) == \A i \in 1..n : f[i] = FlatStep(f, s, i)

(* One step of it.                                                         *)
LEMMA FlatNext ==
  ASSUME NEW f, NEW s, NEW m \in Nat, NEW n \in Nat, n >= 1, n + 1 <= m, Flattens(f, s, m)
  PROVE  f[n + 1] = f[n] \o s[n + 1]
<1>1. f[n + 1] = FlatStep(f, s, n + 1)
  BY DEF Flattens
<1>2. (n + 1) - 1 = n /\ n + 1 # 1
  OBVIOUS
<1> QED
  BY <1>1, <1>2 DEF FlatStep

(* FlattenSeq is the last of its values.                                   *)
LEMMA FlattenIsFlat ==
  ASSUME NEW S, NEW s \in Seq(Seq(S))
  PROVE  FlattenSeq(s) = IF s = <<>> THEN <<>> ELSE Flat(s)[Len(s)]
<1>1. CASE s = <<>>
  BY <1>1 DEF FlattenSeq
<1>2. CASE s # <<>>
  <2>1. Len(s) # 0
    BY <1>2
  <2> QED
    BY <1>2, <2>1 DEF FlattenSeq, Flat, FlatStep
<1> QED
  BY <1>1, <1>2

(* There is such a function for every number of chunks.                    *)
LEMMA FlatExists ==
  ASSUME NEW S, NEW s \in Seq(Seq(S))
  PROVE  \A n \in Nat : n <= Len(s) => \E f \in [1..n -> Seq(S)] : Flattens(f, s, n)
<1> DEFINE Good(n) == n <= Len(s) => \E f \in [1..n -> Seq(S)] : Flattens(f, s, n)
           T == {n \in Nat : Good(n)}
<1>1. Good(0)
  <2> DEFINE e == [i \in 1..0 |-> <<>>]
  <2>1. e \in [1..0 -> Seq(S)] /\ Flattens(e, s, 0)
    BY DEF Flattens
  <2> HIDE DEF e
  <2> QED
    BY <2>1
<1>2. ASSUME NEW n \in Nat, Good(n) PROVE Good(n + 1)
  <2> SUFFICES ASSUME n + 1 <= Len(s) PROVE \E f \in [1..n + 1 -> Seq(S)] : Flattens(f, s, n + 1)
    OBVIOUS
  <2>1. PICK f \in [1..n -> Seq(S)] : Flattens(f, s, n)
    BY <1>2
  <2> DEFINE g == [i \in 1..n + 1 |-> IF i = n + 1 THEN FlatStep(f, s, i) ELSE f[i]]
  <2>2. \A i \in 1..n + 1 : s[i] \in Seq(S)
    OBVIOUS
  <2>3. FlatStep(f, s, n + 1) \in Seq(S)
    <3>1. CASE n = 0
      BY <2>2, <3>1 DEF FlatStep
    <3>2. CASE n # 0
      <4>1. f[n] \in Seq(S) /\ s[n + 1] \in Seq(S)
        BY <2>2, <3>2
      <4>2. f[n] \o s[n + 1] \in Seq(S)
        BY <4>1, ConcatProperties
      <4> QED
        BY <3>2, <4>2 DEF FlatStep
    <3> QED
      BY <3>1, <3>2
  <2>4. g \in [1..n + 1 -> Seq(S)]
    BY <2>3
  <2>5. \A i \in 1..n + 1 : FlatStep(g, s, i) = FlatStep(f, s, i)
    BY DEF FlatStep
  <2>6. Flattens(g, s, n + 1)
    BY <2>1, <2>5 DEF Flattens
  <2> QED
    BY <2>4, <2>6
<1>3. 0 \in T /\ \A n \in Nat : n \in T => n + 1 \in T
  BY <1>1, <1>2
<1>4. \A n \in Nat : n \in T
  <2> HIDE DEF T
  <2> QED
    BY <1>3, InductionOnNat
<1> QED
  BY <1>4

(* The one that FlattenSeq chooses flattens, and holds sequences.          *)
LEMMA FlatIsDefined ==
  ASSUME NEW S, NEW s \in Seq(Seq(S))
  PROVE  Flat(s) \in [1..Len(s) -> Seq(S)] /\ Flattens(Flat(s), s, Len(s))
<1>1. PICK f \in [1..Len(s) -> Seq(S)] : Flattens(f, s, Len(s))
  BY FlatExists
<1>2. f = [i \in 1..Len(s) |-> FlatStep(f, s, i)]
  BY <1>1 DEF Flattens
<1>3. Flat(s) = [i \in 1..Len(s) |-> FlatStep(Flat(s), s, i)]
  BY <1>2 DEF Flat
<1>4. Flattens(Flat(s), s, Len(s))
  BY <1>3, Zenon DEF Flattens
<1> DEFINE Good(n) == n \in 1..Len(s) => Flat(s)[n] \in Seq(S)
           T == {n \in Nat : Good(n)}
<1>5. ASSUME NEW n \in Nat, Good(n) PROVE Good(n + 1)
  <2> SUFFICES ASSUME n + 1 \in 1..Len(s) PROVE Flat(s)[n + 1] \in Seq(S)
    OBVIOUS
  <2>1. Flat(s)[n + 1] = FlatStep(Flat(s), s, n + 1) /\ s[n + 1] \in Seq(S)
    BY <1>4 DEF Flattens
  <2>2. CASE n = 0
    BY <2>1, <2>2 DEF FlatStep
  <2>3. CASE n # 0
    <3>1. Flat(s)[n] \in Seq(S)
      BY <1>5, <2>3
    <3>2. Flat(s)[n] \o s[n + 1] \in Seq(S)
      BY <2>1, <3>1, ConcatProperties
    <3> QED
      BY <2>1, <2>3, <3>2 DEF FlatStep
  <2> QED
    BY <2>2, <2>3
<1>6. 0 \in T /\ \A n \in Nat : n \in T => n + 1 \in T
  BY <1>5
<1>7. \A n \in Nat : n \in T
  <2> HIDE DEF T
  <2> QED
    BY <1>6, InductionOnNat
<1>8. \A i \in 1..Len(s) : Flat(s)[i] \in Seq(S)
  BY <1>7
<1> QED
  BY <1>3, <1>4, <1>8

(* It is the same wherever the chunks are the same.                        *)
LEMMA FlatUnique ==
  ASSUME NEW f, NEW g, NEW s, NEW t, NEW n \in Nat, Flattens(f, s, n), Flattens(g, t, n),
         \A i \in 1..n : s[i] = t[i]
  PROVE  \A i \in 1..n : f[i] = g[i]
<1> DEFINE Good(i) == i \in 1..n => f[i] = g[i]
           T == {i \in Nat : Good(i)}
<1>1. ASSUME NEW i \in Nat, Good(i) PROVE Good(i + 1)
  <2> SUFFICES ASSUME i + 1 \in 1..n PROVE f[i + 1] = g[i + 1]
    OBVIOUS
  <2>1. f[i + 1] = FlatStep(f, s, i + 1) /\ g[i + 1] = FlatStep(g, t, i + 1) /\ s[i + 1] = t[i + 1]
    BY DEF Flattens
  <2>2. i = 0 \/ f[i] = g[i]
    BY <1>1
  <2>3. (i + 1) - 1 = i /\ (i + 1 = 1 <=> i = 0)
    OBVIOUS
  <2> QED
    BY <2>1, <2>2, <2>3 DEF FlatStep
<1>2. 0 \in T /\ \A i \in Nat : i \in T => i + 1 \in T
  BY <1>1
<1>3. \A i \in Nat : i \in T
  <2> HIDE DEF T
  <2> QED
    BY <1>2, InductionOnNat
<1> QED
  BY <1>3

(* Nothing flattens to nothing.                                            *)
LEMMA FlattenEmpty == FlattenSeq(<<>>) = <<>>
BY DEF FlattenSeq

(* A sequence of sequences flattens to a sequence.                         *)
LEMMA FlattenType ==
  ASSUME NEW S, NEW s \in Seq(Seq(S))
  PROVE  FlattenSeq(s) \in Seq(S)
<1>1. CASE s = <<>>
  <2>1. <<>> \in Seq(S)
    OBVIOUS
  <2> QED
    BY <1>1, <2>1, FlattenEmpty
<1>2. CASE s # <<>>
  <2>1. Len(s) \in 1..Len(s)
    BY <1>2
  <2> QED
    BY <1>2, <2>1, FlattenIsFlat, FlatIsDefined
<1> QED
  BY <1>1, <1>2

(* What is put at the end comes at the end.                                *)
LEMMA FlattenAppend ==
  ASSUME NEW S, NEW s \in Seq(Seq(S)), NEW c \in Seq(S)
  PROVE  FlattenSeq(Append(s, c)) = FlattenSeq(s) \o c
<1> DEFINE t == Append(s, c)
<1>1. /\ t \in Seq(Seq(S)) /\ t # <<>> /\ Len(t) = Len(s) + 1 /\ t[Len(s) + 1] = c
      /\ \A i \in 1..Len(s) : t[i] = s[i]
  BY AppendProperties
<1> HIDE DEF t
<1>2. FlattenSeq(t) = Flat(t)[Len(t)]
  BY <1>1, FlattenIsFlat
<1>3. Flattens(Flat(t), t, Len(t)) /\ Flattens(Flat(s), s, Len(s))
  BY <1>1, FlatIsDefined
<1>4. Flat(t)[Len(t)] = FlatStep(Flat(t), t, Len(s) + 1)
  BY <1>1, <1>3 DEF Flattens
<1>5. CASE s = <<>>
  <2>1. FlattenSeq(s) = <<>> /\ Len(s) = 0
    BY <1>5, FlattenEmpty
  <2>2. FlattenSeq(t) = c
    BY <1>1, <1>2, <1>4, <2>1 DEF FlatStep
  <2> QED
    BY <2>1, <2>2, ConcatEmptySeq DEF t
<1>6. CASE s # <<>>
  <2>1. Len(s) \in Nat /\ Len(s) # 0
    BY <1>6
  <2>2. Flattens(Flat(t), t, Len(s))
    BY <1>1, <1>3, <2>1 DEF Flattens
  <2>3. Flat(t)[Len(s)] = Flat(s)[Len(s)]
    <3>1. \A i \in 1..Len(s) : Flat(t)[i] = Flat(s)[i]
      BY <1>1, <1>3, <2>1, <2>2, FlatUnique, Zenon
    <3> QED
      BY <2>1, <3>1
  <2>4. FlattenSeq(s) = Flat(s)[Len(s)]
    BY <1>6, FlattenIsFlat
  <2>5. FlattenSeq(t) = Flat(t)[Len(s)] \o c
    BY <1>1, <1>2, <1>4, <2>1 DEF FlatStep
  <2> QED
    BY <2>3, <2>4, <2>5 DEF t
<1> QED
  BY <1>5, <1>6

(* The length of a concatenation, and how it groups.                       *)
LEMMA ConcatLength ==
  \A S : \A a, b \in Seq(S) : a \o b \in Seq(S) /\ Len(a \o b) = Len(a) + Len(b)
BY ConcatProperties

LEMMA ConcatRegroups ==
  \A S : \A a, b, c \in Seq(S) : (a \o b) \o c = a \o (b \o c)
BY ConcatAssociative

(* What is at the head comes first.                                        *)
LEMMA FlattenCons ==
  ASSUME NEW S, NEW s \in Seq(Seq(S)), NEW t \in Seq(Seq(S)), NEW c \in Seq(S),
         Len(s) = Len(t) + 1, s[1] = c, \A i \in 1..Len(t) : s[i + 1] = t[i]
  PROVE  FlattenSeq(s) = c \o FlattenSeq(t)
<1>1. s # <<>> /\ Len(t) \in Nat /\ Len(s) \in Nat
  OBVIOUS
<1>2. Flattens(Flat(s), s, Len(s)) /\ Flattens(Flat(t), t, Len(t))
  BY FlatIsDefined
<1>3. Flat(s)[1] = c
  BY <1>1, <1>2 DEF Flattens, FlatStep
<1>4. \A k \in 1..Len(t) : Flat(t)[k] \in Seq(S) /\ t[k] \in Seq(S)
  <2>1. Flat(t) \in [1..Len(t) -> Seq(S)]
    BY FlatIsDefined
  <2>2. ASSUME NEW k \in 1..Len(t) PROVE t[k] \in Seq(S)
    OBVIOUS
  <2> QED
    BY <2>1, <2>2
<1>5. ASSUME NEW k \in Nat, k + 1 \in 1..Len(t), k = 0 \/ Flat(s)[k + 1] = c \o Flat(t)[k]
      PROVE  Flat(s)[(k + 1) + 1] = c \o Flat(t)[k + 1]
  <2> DEFINE j == k + 1
  <2>1. j \in Nat /\ j >= 1 /\ j + 1 <= Len(s) /\ s[j + 1] = t[j]
    BY <1>1, <1>5
  <2>2. Flat(s)[j + 1] = Flat(s)[j] \o t[j]
    <3>1. \A i \in Nat : i >= 1 /\ i + 1 <= Len(s) => Flat(s)[i + 1] = Flat(s)[i] \o s[i + 1]
      BY <1>1, <1>2, FlatNext
    <3> QED
      BY <2>1, <3>1
  <2>3. CASE k = 0
    <3>1. j = 1 /\ 1 \in 1..Len(t)
      BY <1>5, <2>3
    <3>2. Flat(t)[1] = t[1]
      BY <1>2, <3>1 DEF Flattens, FlatStep
    <3> HIDE DEF j
    <3>3. Flat(s)[j + 1] = c \o Flat(t)[j]
      BY <1>3, <2>2, <3>1, <3>2
    <3> QED
      BY <3>3 DEF j
  <2>4. CASE k # 0
    <3>1. k \in 1..Len(t) /\ k >= 1 /\ k + 1 <= Len(t) /\ j \in 1..Len(t)
      BY <1>5, <2>4
    <3>2. Flat(t)[j] = Flat(t)[k] \o t[j]
      BY <1>1, <1>2, <3>1, FlatNext
    <3>3. Flat(s)[j] = c \o Flat(t)[k]
      BY <1>5, <2>4
    <3>4. Flat(t)[k] \in Seq(S) /\ t[j] \in Seq(S)
      BY <1>4, <3>1
    <3> HIDE DEF j
    <3>5. (c \o Flat(t)[k]) \o t[j] = c \o (Flat(t)[k] \o t[j])
      <4> DEFINE a == Flat(t)[k]
                 b == t[j]
      <4>1. a \in Seq(S) /\ b \in Seq(S)
        BY <3>4
      <4> HIDE DEF a, b
      <4>2. (c \o a) \o b = c \o (a \o b)
        BY ONLY <4>1, c \in Seq(S), ConcatRegroups
      <4> QED
        BY <4>2 DEF a, b
    <3>6. Flat(s)[j + 1] = c \o Flat(t)[j]
      BY <2>2, <3>2, <3>3, <3>5
    <3> QED
      BY <3>6 DEF j
  <2> QED
    BY <2>3, <2>4
<1> DEFINE Agree(n) == n \in 1..Len(t) => Flat(s)[n + 1] = c \o Flat(t)[n]
           Agreeing == {n \in Nat : Agree(n)}
<1>6. ASSUME NEW n \in Nat, Agree(n) PROVE Agree(n + 1)
  <2> SUFFICES ASSUME n + 1 \in 1..Len(t) PROVE Flat(s)[(n + 1) + 1] = c \o Flat(t)[n + 1]
    OBVIOUS
  <2>1. n = 0 \/ n \in 1..Len(t)
    BY <1>1
  <2> QED
    BY <1>5, <1>6, <2>1
<1>7. \A n \in Nat : n \in Agreeing
  <2>1. Agree(0)
    BY <1>1
  <2>2. 0 \in Agreeing /\ \A n \in Nat : n \in Agreeing => n + 1 \in Agreeing
    <3> HIDE DEF Agree
    <3> QED
      BY ONLY <1>6, <2>1
  <2> HIDE DEF Agreeing
  <2> QED
    BY <2>2, InductionOnNat
<1>8. FlattenSeq(s) = Flat(s)[Len(t) + 1]
  BY <1>1, FlattenIsFlat
<1>9. CASE t = <<>>
  <2>1. FlattenSeq(t) = <<>> /\ Len(t) = 0
    BY <1>9, FlattenEmpty
  <2>2. c \o <<>> = c
    BY ConcatEmptySeq
  <2> QED
    BY <1>3, <1>8, <2>1, <2>2
<1>10. CASE t # <<>>
  <2>1. Len(t) \in 1..Len(t) /\ FlattenSeq(t) = Flat(t)[Len(t)]
    BY <1>1, <1>10, FlattenIsFlat
  <2>2. Flat(s)[Len(t) + 1] = c \o Flat(t)[Len(t)]
    BY <1>7, <2>1
  <2> QED
    BY <1>8, <2>1, <2>2
<1> QED
  BY <1>9, <1>10

(* FlattenCons, of the head and the tail of a sequence.                    *)
LEMMA FlattenHead ==
  ASSUME NEW S, NEW s \in Seq(Seq(S)), s # <<>>
  PROVE  FlattenSeq(s) = Head(s) \o FlattenSeq(Tail(s))
<1>1. /\ Tail(s) \in Seq(Seq(S)) /\ Head(s) \in Seq(S)
      /\ Len(s) = Len(Tail(s)) + 1 /\ s[1] = Head(s)
      /\ \A i \in 1..Len(Tail(s)) : s[i + 1] = Tail(s)[i]
  BY HeadTailProperties
<1> QED
  BY <1>1, FlattenCons

(***************************************************************************)
(* Sums over a finite set, by a recursive function on its subsets: each    *)
(* subset gives up some member of it, then the rest is added up.           *)
(***************************************************************************)
Some(s) == CHOOSE x \in s : TRUE
SumStep(g, w, s) == IF s = {} THEN 0 ELSE w[Some(s)] + g[s \ {Some(s)}]
SumOf(w, S) == CHOOSE g : g = [s \in SUBSET S |-> SumStep(g, w, s)]

(* A function that adds up the subsets of S.                               *)
Sums(g, w, S) == \A s \in SUBSET S : g[s] = SumStep(g, w, s)

(* The member given up, and what is left.                                  *)
LEMMA SomeMember ==
  ASSUME NEW S, IsFiniteSet(S), NEW s \in SUBSET S, NEW x \in s
  PROVE  /\ Some(s) \in s /\ IsFiniteSet(s) /\ s \ {x} \in SUBSET S /\ IsFiniteSet(s \ {x})
         /\ Cardinality(s) \in Nat /\ Cardinality(s \ {x}) = Cardinality(s) - 1
<1>1. Some(s) \in s
  BY DEF Some
<1>2. IsFiniteSet(s)
  BY FS_Subset
<1> QED
  BY <1>1, <1>2, FS_RemoveElement, FS_CardinalityType

(* A property of finite sets follows when each one has it that has larger  *)
(* subsets only ever with it: by induction on the number of members.       *)
LEMMA SubsetInduction ==
  ASSUME NEW S, IsFiniteSet(S), NEW T,
         \A s \in SUBSET S : (\A x \in s : s \ {x} \in T) => s \in T
  PROVE  \A s \in SUBSET S : s \in T
<1> DEFINE Good(n) == \A s \in SUBSET S : Cardinality(s) = n => s \in T
           N == {n \in Nat : Good(n)}
<1>1. Good(0)
  <2> SUFFICES ASSUME NEW s \in SUBSET S, Cardinality(s) = 0 PROVE s \in T
    OBVIOUS
  <2>1. s = {}
    BY FS_Subset, FS_EmptySet
  <2> QED
    BY <2>1
<1>2. ASSUME NEW n \in Nat, Good(n) PROVE Good(n + 1)
  <2> SUFFICES ASSUME NEW s \in SUBSET S, Cardinality(s) = n + 1 PROVE s \in T
    OBVIOUS
  <2>1. ASSUME NEW x \in s PROVE s \ {x} \in T
    <3>1. s \ {x} \in SUBSET S /\ Cardinality(s \ {x}) = (n + 1) - 1
      BY <2>1, SomeMember
    <3> QED
      BY <1>2, <3>1
  <2> QED
    BY <2>1
<1>3. 0 \in N /\ \A n \in Nat : n \in N => n + 1 \in N
  BY <1>1, <1>2
<1>4. \A n \in Nat : n \in N
  <2> HIDE DEF N
  <2> QED
    BY <1>3, InductionOnNat
<1> QED
  BY <1>4, FS_Subset, FS_CardinalityType

(* There is such a function.                                               *)
LEMMA SumExists ==
  ASSUME NEW S, IsFiniteSet(S), NEW w, \A x \in S : w[x] \in Int
  PROVE  \E g \in [SUBSET S -> Int] : Sums(g, w, S)
<1> DEFINE Sub(n) == {s \in SUBSET S : Cardinality(s) <= n}
           Adds(g, n) == \A s \in Sub(n) : g[s] = SumStep(g, w, s)
           Good(n) == \E g \in [Sub(n) -> Int] : Adds(g, n)
           N == {n \in Nat : Good(n)}
<1>1. Good(0)
  <2> DEFINE g == [s \in Sub(0) |-> 0]
  <2>1. ASSUME NEW s \in Sub(0) PROVE s = {}
    BY FS_Subset, FS_EmptySet, FS_CardinalityType
  <2>2. g \in [Sub(0) -> Int] /\ Adds(g, 0)
    BY <2>1 DEF SumStep
  <2> QED
    BY <2>2
<1>2. ASSUME NEW n \in Nat, Good(n) PROVE Good(n + 1)
  <2>1. PICK g \in [Sub(n) -> Int] : Adds(g, n)
    BY <1>2
  <2> DEFINE h == [s \in Sub(n + 1) |-> SumStep(g, w, s)]
  <2>2. ASSUME NEW s \in Sub(n + 1), s # {}
        PROVE  s \ {Some(s)} \in Sub(n) /\ Some(s) \in S
    <3>1. Some(s) \in s
      BY <2>2 DEF Some
    <3>2. PICK x \in s : x = Some(s)
      BY <3>1
    <3>3. s \in SUBSET S /\ Cardinality(s) <= n + 1
      OBVIOUS
    <3>4. s \ {x} \in SUBSET S /\ Cardinality(s) \in Nat /\ Cardinality(s \ {x}) = Cardinality(s) - 1
      BY <3>3, SomeMember
    <3> QED
      BY <3>2, <3>3, <3>4
  <2>3. h \in [Sub(n + 1) -> Int]
    <3> SUFFICES ASSUME NEW s \in Sub(n + 1) PROVE SumStep(g, w, s) \in Int
      OBVIOUS
    <3>1. CASE s = {}
      BY <3>1 DEF SumStep
    <3>2. CASE s # {}
      <4>1. g[s \ {Some(s)}] \in Int /\ w[Some(s)] \in Int
        BY <2>2, <3>2
      <4> QED
        BY <3>2, <4>1 DEF SumStep
    <3> QED
      BY <3>1, <3>2
  <2>4. ASSUME NEW s \in Sub(n) PROVE s \in Sub(n + 1) /\ h[s] = g[s]
    <3>1. s \in Sub(n + 1)
      BY FS_Subset, FS_CardinalityType
    <3> QED
      BY <2>1, <3>1
  <2>5. Adds(h, n + 1)
    <3> SUFFICES ASSUME NEW s \in Sub(n + 1) PROVE h[s] = SumStep(h, w, s)
      OBVIOUS
    <3>1. CASE s = {}
      BY <3>1 DEF SumStep
    <3>2. CASE s # {}
      <4>1. h[s \ {Some(s)}] = g[s \ {Some(s)}]
        BY <2>2, <2>4, <3>2
      <4> QED
        BY <3>2, <4>1 DEF SumStep
    <3> QED
      BY <3>1, <3>2
  <2> QED
    BY <2>3, <2>5
<1>3. 0 \in N /\ \A n \in Nat : n \in N => n + 1 \in N
  <2> HIDE DEF Good
  <2> QED
    BY <1>1, <1>2
<1>4. \A n \in Nat : n \in N
  <2> HIDE DEF N
  <2> QED
    BY <1>3, InductionOnNat
<1>5. Cardinality(S) \in Nat /\ Sub(Cardinality(S)) = SUBSET S
  BY FS_CardinalityType, FS_Subset
<1>6. PICK g \in [Sub(Cardinality(S)) -> Int] : Adds(g, Cardinality(S))
  BY <1>4, <1>5
<1> QED
  BY <1>5, <1>6 DEF Sums

(* Two that add up the same weights agree wherever both are defined.       *)
LEMMA SumsAgree ==
  ASSUME NEW S, IsFiniteSet(S), NEW g, NEW h, NEW w, Sums(g, w, S), Sums(h, w, S)
  PROVE  \A s \in SUBSET S : g[s] = h[s]
<1> DEFINE T == {s \in SUBSET S : g[s] = h[s]}
<1>1. ASSUME NEW s \in SUBSET S, \A x \in s : s \ {x} \in T PROVE s \in T
  <2>1. g[s] = SumStep(g, w, s) /\ h[s] = SumStep(h, w, s)
    BY DEF Sums
  <2>2. s = {} \/ g[s \ {Some(s)}] = h[s \ {Some(s)}]
    BY <1>1 DEF Some
  <2> QED
    BY <2>1, <2>2 DEF SumStep
<1>2. \A s \in SUBSET S : s \in T
  <2> HIDE DEF T
  <2> QED
    BY <1>1, SubsetInduction
<1> QED
  BY <1>2

(* The sum is the same whichever member is given up first.                 *)
AddsUp(g, w, S) ==
  (\A x \in S : w[x] \in Int) /\ g \in [SUBSET S -> Int] /\ Sums(g, w, S)
InAnyOrder(g, w, S) == \A s \in SUBSET S : \A x \in s : g[s] = w[x] + g[s \ {x}]

LEMMA SumWithout ==
  ASSUME NEW S, IsFiniteSet(S), NEW w, NEW g, AddsUp(g, w, S)
  PROVE  InAnyOrder(g, w, S)
<1> DEFINE T == {s \in SUBSET S : \A x \in s : g[s] = w[x] + g[s \ {x}]}
<1>1. ASSUME NEW s \in SUBSET S, \A x \in s : s \ {x} \in T PROVE s \in T
  <2> SUFFICES ASSUME NEW x \in s PROVE g[s] = w[x] + g[s \ {x}]
    OBVIOUS
  <2>1. PICK y \in s : y = Some(s)
    BY DEF Some
  <2>2. g[s] = w[y] + g[s \ {y}]
    BY <2>1 DEF AddsUp, Sums, SumStep
  <2>3. CASE x = y
    BY <2>2, <2>3
  <2>4. CASE x # y
    <3>1. x \in s \ {y} /\ y \in s \ {x}
      BY <2>4
    <3>2. g[s \ {y}] = w[x] + g[(s \ {y}) \ {x}] /\ g[s \ {x}] = w[y] + g[(s \ {x}) \ {y}]
      BY <1>1, <3>1
    <3>3. (s \ {y}) \ {x} = (s \ {x}) \ {y}
      OBVIOUS
    <3>4. PICK a \in Int, b \in Int, c \in Int : a = w[x] /\ b = w[y] /\ c = g[(s \ {x}) \ {y}]
      BY DEF AddsUp
    <3>5. g[s] = b + (a + c) /\ g[s \ {x}] = b + c
      BY <2>2, <3>2, <3>3, <3>4
    <3> QED
      BY <3>4, <3>5
  <2> QED
    BY <2>3, <2>4
<1>2. \A s \in SUBSET S : s \in T
  <2> HIDE DEF T
  <2> QED
    BY <1>1, SubsetInduction
<1> QED
  BY <1>2 DEF InAnyOrder

(* The function chosen to add up is one.                                   *)
LEMMA SumIsDefined ==
  ASSUME NEW S, IsFiniteSet(S), NEW w, \A x \in S : w[x] \in Int
  PROVE  SumOf(w, S) \in [SUBSET S -> Int] /\ Sums(SumOf(w, S), w, S)
<1>1. PICK g \in [SUBSET S -> Int] : Sums(g, w, S)
  BY SumExists
<1>2. g = [s \in SUBSET S |-> SumStep(g, w, s)]
  BY <1>1 DEF Sums
<1>3. SumOf(w, S) = [s \in SUBSET S |-> SumStep(SumOf(w, S), w, s)]
  BY <1>2 DEF SumOf
<1>4. Sums(SumOf(w, S), w, S)
  BY <1>3, Zenon DEF Sums
<1>5. \A s \in SUBSET S : SumOf(w, S)[s] = g[s]
  BY <1>1, <1>4, SumsAgree
<1> QED
  BY <1>3, <1>4, <1>5

(* A new member adds its weight.                                           *)
LEMMA SumAdds ==
  ASSUME NEW S, IsFiniteSet(S), NEW z, z \notin S, NEW w, \A x \in S \union {z} : w[x] \in Int
  PROVE  /\ SumOf(w, S)[S] \in Int
         /\ SumOf(w, S \union {z})[S \union {z}] = w[z] + SumOf(w, S)[S]
<1> DEFINE T == S \union {z}
<1>1. IsFiniteSet(T) /\ T \ {z} = S /\ S \in SUBSET T /\ T \in SUBSET T /\ S \in SUBSET S
  BY FS_AddElement
<1>2. SumOf(w, S) \in [SUBSET S -> Int] /\ Sums(SumOf(w, S), w, S)
  BY SumIsDefined
<1>3. SumOf(w, T) \in [SUBSET T -> Int] /\ Sums(SumOf(w, T), w, T)
  BY <1>1, SumIsDefined
<1>4. SumOf(w, T)[T] = w[z] + SumOf(w, T)[T \ {z}]
  <2>1. AddsUp(SumOf(w, T), w, T)
    BY <1>3 DEF AddsUp
  <2>2. InAnyOrder(SumOf(w, T), w, T)
    <3> HIDE DEF T
    <3> QED
      BY <1>1, <2>1, SumWithout
  <2> QED
    BY <1>1, <2>2 DEF InAnyOrder
<1>5. Sums(SumOf(w, T), w, S)
  BY <1>1, <1>3 DEF Sums
<1>6. SumOf(w, T)[S] = SumOf(w, S)[S]
  BY <1>1, <1>2, <1>5, SumsAgree
<1> QED
  BY <1>1, <1>2, <1>4, <1>6
=============================================================================
