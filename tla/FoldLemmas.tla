----------------------------- MODULE FoldLemmas ----------------------------
(***************************************************************************)
(* What the folds of the models compute, for every finite argument: the    *)
(* sum of a function over a set (SumFunctionOnSet) and the concatenation   *)
(* of a sequence of sequences (FlattenSeq).  Both are defined by recursive *)
(* functions, so each lemma first shows that a function satisfying the     *)
(* recursion exists.  Induction is stated over sets of natural numbers.    *)
(***************************************************************************)
EXTENDS Integers, SequencesExt, FiniteSetTheorems, WellFoundedInduction, TLAPS

-----------------------------------------------------------------------------
(* Induction *)

Smaller == {p \in Nat \X Nat : p[1] < p[2]}

\* Every non-empty set of natural numbers has a least element.
LEMMA LeastElement ==
    ASSUME NEW T \in SUBSET Nat, T # {}
    PROVE  \E x \in T : \A y \in T : x <= y
<1>1. IsWellFoundedOn(Smaller, Nat)
  BY NatLessThanWellFounded DEF OpToRel, Smaller
<1>2. PICK x \in T : \A y \in T : <<y, x>> \notin Smaller
  BY <1>1, WFMin
<1>3. ASSUME NEW y \in T PROVE x <= y
  <2>1. x \in Nat /\ y \in Nat
    OBVIOUS
  <2>2. y < x => <<y, x>> \in Smaller
    BY <2>1 DEF Smaller
  <2> QED
    BY <1>2, <2>1, <2>2
<1> QED
  BY <1>3

\* Induction: a set of natural numbers with 0 and with every successor of its
\* elements has them all.
LEMMA Induction ==
    ASSUME NEW T \in SUBSET Nat, 0 \in T, \A n \in T : n + 1 \in T
    PROVE  T = Nat
<1> SUFFICES ASSUME Nat \ T # {} PROVE FALSE
  OBVIOUS
<1>1. PICK m \in Nat \ T : \A y \in Nat \ T : m <= y
  BY LeastElement
<1>2. m # 0 /\ m - 1 \in Nat
  BY <1>1
<1>3. m - 1 \in T
  BY <1>1, <1>2
<1> QED
  BY <1>1, <1>2, <1>3

-----------------------------------------------------------------------------
(* Sums *)

First(s) == CHOOSE y \in s : TRUE

\* it gives the sum of f over every subset of A, element by element.
Sums(it, f, A) ==
    it = [s \in SUBSET A |-> IF s = {} THEN 0 ELSE f[First(s)] + it[s \ {First(s)}]]

\* SumFunctionOnSet evaluates such a function.
LEMMA SumIsSums ==
    ASSUME NEW f, NEW A
    PROVE  SumFunctionOnSet(f, A) = (CHOOSE it : Sums(it, f, A))[A]
  BY DEF SumFunctionOnSet, FoldFunctionOnSet, MapThenFoldSet, Sums, First

\* A non-empty finite set without its first element has one element fewer.
LEMMA WithoutFirst ==
    ASSUME NEW s, IsFiniteSet(s), s # {}
    PROVE  /\ First(s) \in s /\ s \ {First(s)} \subseteq s
           /\ IsFiniteSet(s \ {First(s)})
           /\ Cardinality(s) \in Nat \ {0}
           /\ Cardinality(s \ {First(s)}) = Cardinality(s) - 1
<1>1. First(s) \in s
  BY DEF First
<1>2. Cardinality(s) \in Nat /\ Cardinality(s) # 0
  BY FS_CardinalityType, FS_EmptySet
<1> QED
  BY <1>1, <1>2, FS_RemoveElement

\* The recursion of the sums has a solution: one for the subsets with at most
\* n elements, for every n.
LEMMA SumsExist ==
    ASSUME NEW f, NEW A, IsFiniteSet(A)
    PROVE  \E it : Sums(it, f, A)
<1> DEFINE Value(it, s) == IF s = {} THEN 0 ELSE f[First(s)] + it[s \ {First(s)}]
           UpTo(it, n) == \A s \in SUBSET A : Cardinality(s) <= n => it[s] = Value(it, s)
           T == {n \in Nat : \E it : UpTo(it, n)}
<1>0. \A s \in SUBSET A : IsFiniteSet(s) /\ Cardinality(s) \in Nat /\ Cardinality(s) <= Cardinality(A)
  BY FS_Subset, FS_CardinalityType
<1>1. 0 \in T
  <2> DEFINE it == [s \in SUBSET A |-> 0]
  <2>1. \A s \in SUBSET A : Cardinality(s) <= 0 => s = {}
    BY <1>0, FS_EmptySet
  <2>2. UpTo(it, 0)
    BY <2>1
  <2> QED
    BY <2>2
<1>2. ASSUME NEW n \in T PROVE n + 1 \in T
  <2>1. PICK g : UpTo(g, n)
    OBVIOUS
  <2> DEFINE h == [s \in SUBSET A |-> IF Cardinality(s) <= n THEN g[s] ELSE Value(g, s)]
  <2>2. ASSUME NEW s \in SUBSET A, Cardinality(s) <= n + 1 PROVE h[s] = Value(h, s)
    <3>1. CASE s = {}
      <4>1. Cardinality(s) <= n
        BY <3>1, FS_EmptySet
      <4> QED
        BY <2>1, <3>1, <4>1
    <3>2. CASE s # {}
      <4> DEFINE r == s \ {First(s)}
      <4>1. r \in SUBSET A /\ Cardinality(r) <= n
        BY <1>0, <2>2, <3>2, WithoutFirst
      <4>2. h[r] = g[r]
        BY <4>1
      <4>3. h[s] = Value(g, s)
        BY <2>1
      <4> QED
        BY <3>2, <4>2, <4>3
    <3> QED
      BY <3>1, <3>2
  <2>3. UpTo(h, n + 1)
    <3> HIDE DEF h, Value
    <3> QED
      BY <2>2
  <2>4. n + 1 \in Nat
    OBVIOUS
  <2> HIDE DEF UpTo, h
  <2> QED
    BY <2>3, <2>4
<1>3. Cardinality(A) \in T
  <2> HIDE DEF T
  <2>1. T = Nat
    BY <1>1, <1>2, Induction DEF T
  <2> QED
    BY <2>1, <1>0
<1>4. PICK g : UpTo(g, Cardinality(A))
  BY <1>3
<1> DEFINE it == [s \in SUBSET A |-> g[s]]
<1>5. \A s \in SUBSET A : it[s] = Value(it, s)
  BY <1>0, <1>4
<1> QED
  BY <1>5 DEF Sums

\* Two solutions agree on a set on which the functions to be summed agree.
LEMMA SumsAgree ==
    ASSUME NEW f, NEW A, NEW it, Sums(it, f, A),
           NEW g, NEW B, NEW jt, Sums(jt, g, B),
           NEW s \in SUBSET (A \cap B), IsFiniteSet(s), \A x \in s : f[x] = g[x]
    PROVE  it[s] = jt[s]
<1> DEFINE T == {n \in Nat : \A r \in SUBSET s : Cardinality(r) <= n => it[r] = jt[r]}
<1>0. \A r \in SUBSET s : IsFiniteSet(r) /\ Cardinality(r) \in Nat /\ Cardinality(r) <= Cardinality(s)
  BY FS_Subset, FS_CardinalityType
<1>1. 0 \in T
  <2>1. \A r \in SUBSET s : Cardinality(r) <= 0 => r = {}
    BY <1>0, FS_EmptySet
  <2> QED
    BY <2>1 DEF Sums
<1>2. ASSUME NEW n \in T PROVE n + 1 \in T
  <2>1. ASSUME NEW r \in SUBSET s, Cardinality(r) <= n + 1 PROVE it[r] = jt[r]
    <3>1. CASE r = {}
      BY <3>1 DEF Sums
    <3>2. CASE r # {}
      <4> DEFINE q == r \ {First(r)}
      <4>1. First(r) \in s /\ q \in SUBSET s /\ Cardinality(q) <= n
        BY <1>0, <2>1, <3>2, WithoutFirst
      <4>2. it[q] = jt[q]
        BY <4>1
      <4>3. it[r] = f[First(r)] + it[q] /\ jt[r] = g[First(r)] + jt[q]
        BY <3>2 DEF Sums
      <4> QED
        BY <4>1, <4>2, <4>3
    <3> QED
      BY <3>1, <3>2
  <2>2. n + 1 \in Nat
    OBVIOUS
  <2> QED
    BY <2>1, <2>2
<1>3. T = Nat
  <2> HIDE DEF T
  <2> QED
    BY <1>1, <1>2, Induction DEF T
<1>4. Cardinality(s) \in T
  BY <1>0, <1>3
<1> QED
  BY <1>0, <1>4

\* Any element of a set may be added last.
LEMMA SumsInAnyOrder ==
    ASSUME NEW f, NEW A, IsFiniteSet(A), \A x \in A : f[x] \in Nat,
           NEW it, Sums(it, f, A)
    PROVE  \A s \in SUBSET A : /\ it[s] \in Nat
                               /\ \A x \in s : it[s] = f[x] + it[s \ {x}]
<1> DEFINE OK(s) == it[s] \in Nat /\ \A x \in s : it[s] = f[x] + it[s \ {x}]
           T == {n \in Nat : \A s \in SUBSET A : Cardinality(s) <= n => OK(s)}
<1>0. \A s \in SUBSET A : IsFiniteSet(s) /\ Cardinality(s) \in Nat /\ Cardinality(s) <= Cardinality(A)
  BY FS_Subset, FS_CardinalityType
<1>1. 0 \in T
  <2>1. \A s \in SUBSET A : Cardinality(s) <= 0 => s = {}
    BY <1>0, FS_EmptySet
  <2> QED
    BY <2>1 DEF Sums
<1>2. ASSUME NEW n \in T PROVE n + 1 \in T
  <2>0. n \in Nat /\ \A q \in SUBSET A : Cardinality(q) <= n => OK(q)
    BY DEF T
  <2> HIDE DEF T
  <2>1. ASSUME NEW s \in SUBSET A, Cardinality(s) <= n + 1 PROVE OK(s)
    <3>1. CASE s = {}
      BY <3>1 DEF Sums
    <3>2. CASE s # {}
      <4> DEFINE c == First(s)
                 r == s \ {c}
      <4>1. c \in A /\ r \in SUBSET A /\ Cardinality(r) <= n
        BY <1>0, <2>0, <2>1, <3>2, WithoutFirst
      <4>2. it[s] = f[c] + it[r] /\ OK(r) /\ f[c] \in Nat
        BY <2>0, <3>2, <4>1 DEF Sums
      <4>3. ASSUME NEW x \in s, x # c PROVE it[s] = f[x] + it[s \ {x}]
        <5> DEFINE q == s \ {x}
        <5>1. q \in SUBSET A /\ c \in q /\ x \in r /\ q \ {c} = r \ {x}
          BY <4>1, <4>3, <3>2, WithoutFirst, <1>0
        <5>2. Cardinality(q) <= n
          <6>1. IsFiniteSet(s) /\ Cardinality(s) \in Nat
            BY <1>0
          <6>2. Cardinality(q) = Cardinality(s) - 1
            BY <4>3, <6>1, FS_RemoveElement
          <6>3. n \in Nat /\ Cardinality(s) <= n + 1
            BY <2>0, <2>1
          <6> HIDE DEF q
          <6> QED
            BY <6>1, <6>2, <6>3
        <5>3. it[q] = f[c] + it[r \ {x}]
          <6>1. q \in SUBSET A /\ Cardinality(q) <= n
            BY <5>1, <5>2
          <6>2. OK(q)
            <7> HIDE DEF OK, q
            <7> QED
              BY <2>0, <6>1
          <6>3. it[q] = f[c] + it[q \ {c}]
            BY <5>1, <6>2
          <6> QED
            BY <5>1, <6>3
        <5>4. it[r] = f[x] + it[r \ {x}] /\ it[r] \in Nat
          BY <4>2, <5>1
        <5>5. f[x] \in Nat /\ it[r \ {x}] \in Nat
          <6>1. r \ {x} \in SUBSET q /\ r \ {x} \in SUBSET A
            BY <5>1
          <6>2. Cardinality(r \ {x}) <= n
            BY <5>1, <5>2, <6>1, <1>0, <2>0, FS_Subset, FS_CardinalityType
          <6>3. it[r \ {x}] \in Nat
            BY <2>0, <6>1, <6>2
          <6> QED
            BY <4>3, <6>3
        <5> QED
          BY <4>2, <5>3, <5>4, <5>5
      <4>4. it[r] \in Nat /\ it[s] \in Nat
        BY <4>2
      <4> QED
        BY <4>2, <4>3, <4>4
    <3> QED
      BY <3>1, <3>2
  <2>2. n + 1 \in Nat
    BY <2>0
  <2> HIDE DEF OK
  <2> QED
    BY <2>1, <2>2 DEF T
<1>3. T = Nat
  <2> HIDE DEF T
  <2> QED
    BY <1>1, <1>2, Induction DEF T
<1> QED
  BY <1>0, <1>3

\* The sum over a set with one element more, in which the others keep their
\* values, is larger by the value of that element.
LEMMA SumAdd ==
    ASSUME NEW A, IsFiniteSet(A), NEW x, x \notin A, NEW f, NEW g,
           \A y \in A : f[y] \in Nat /\ g[y] = f[y], g[x] \in Nat
    PROVE  SumFunctionOnSet(g, A \cup {x}) = g[x] + SumFunctionOnSet(f, A)
<1> DEFINE B == A \cup {x}
           it == CHOOSE i : Sums(i, f, A)
           jt == CHOOSE j : Sums(j, g, B)
<1>1. IsFiniteSet(B) /\ B \ {x} = A /\ \A y \in B : g[y] \in Nat
  BY FS_AddElement
<1>2. Sums(it, f, A) /\ Sums(jt, g, B)
  BY <1>1, SumsExist
<1>3. SumFunctionOnSet(f, A) = it[A] /\ SumFunctionOnSet(g, B) = jt[B]
  BY SumIsSums
<1> HIDE DEF it, jt, B
<1>4. jt[B] = g[x] + jt[B \ {x}]
  <2>1. B \in SUBSET B /\ x \in B
    BY DEF B
  <2> QED
    BY <1>1, <1>2, <2>1, SumsInAnyOrder
<1>5. jt[A] = it[A]
  <2>1. A \in SUBSET (B \cap A)
    BY DEF B
  <2> QED
    BY <1>2, <2>1, SumsAgree
<1> QED
  BY <1>1, <1>3, <1>4, <1>5 DEF B

\* A sum depends on the values that are summed only.
LEMMA SumSame ==
    ASSUME NEW A, IsFiniteSet(A), NEW f, NEW g, \A y \in A : g[y] = f[y]
    PROVE  SumFunctionOnSet(g, A) = SumFunctionOnSet(f, A)
<1> DEFINE it == CHOOSE i : Sums(i, f, A)
           jt == CHOOSE j : Sums(j, g, A)
<1>1. Sums(it, f, A) /\ Sums(jt, g, A)
  BY SumsExist
<1>2. SumFunctionOnSet(f, A) = it[A] /\ SumFunctionOnSet(g, A) = jt[A]
  BY SumIsSums
<1> HIDE DEF it, jt
<1>3. A \in SUBSET (A \cap A)
  OBVIOUS
<1>4. it[A] = jt[A]
  BY <1>1, <1>3, SumsAgree
<1> QED
  BY <1>2, <1>4

\* The sum over the empty set.
LEMMA SumEmpty == \A f : SumFunctionOnSet(f, {}) = 0
  BY DEF SumFunctionOnSet, FoldFunctionOnSet, MapThenFoldSet

\* Sums of natural numbers are natural numbers.
LEMMA SumIsNat ==
    ASSUME NEW A, IsFiniteSet(A), NEW f, \A y \in A : f[y] \in Nat
    PROVE  SumFunctionOnSet(f, A) \in Nat
  BY SumIsSums, SumsExist, SumsInAnyOrder

-----------------------------------------------------------------------------
(* Concatenation *)

\* fl[i] is the concatenation of the first i sequences of ss.
Flattens(fl, ss) ==
    fl = [i \in 1 .. Len(ss) |-> IF i = 1 THEN ss[i] ELSE fl[i - 1] \o ss[i]]

\* FlattenSeq evaluates such a function.
LEMMA FlattenIsFlattens ==
    ASSUME NEW ss
    PROVE  FlattenSeq(ss) = IF Len(ss) = 0 THEN ss
                            ELSE (CHOOSE fl : Flattens(fl, ss))[Len(ss)]
  BY DEF FlattenSeq, Flattens

\* A solution satisfies its equation at each index.
LEMMA FlattensAt ==
    ASSUME NEW fl, NEW ss, Flattens(fl, ss), NEW n \in Nat, n + 1 \in 1 .. Len(ss)
    PROVE  fl[n + 1] = IF n = 0 THEN ss[n + 1] ELSE fl[n] \o ss[n + 1]
<1>1. PICK i : i = n + 1
  OBVIOUS
<1>2. fl[i] = IF i = 1 THEN ss[i] ELSE fl[i - 1] \o ss[i]
  BY <1>1 DEF Flattens
<1>3. i - 1 = n /\ (i = 1) = (n = 0)
  BY <1>1
<1> QED
  BY <1>1, <1>2, <1>3

\* The recursion of the concatenation has a solution.
LEMMA FlattensExist ==
    ASSUME NEW ss, Len(ss) \in Nat
    PROVE  \E fl : Flattens(fl, ss)
<1> DEFINE N == Len(ss)
           Value(fl, i) == IF i = 1 THEN ss[i] ELSE fl[i - 1] \o ss[i]
           UpTo(fl, n) == \A i \in 1 .. N : i <= n => fl[i] = Value(fl, i)
           T == {n \in Nat : \E fl : UpTo(fl, n)}
<1>1. 0 \in T
  OBVIOUS
<1>2. ASSUME NEW n \in T PROVE n + 1 \in T
  <2>1. PICK g : UpTo(g, n)
    OBVIOUS
  <2> DEFINE h == [i \in 1 .. N |-> IF i <= n THEN g[i] ELSE Value(g, i)]
  <2>2. ASSUME NEW i \in 1 .. N, i <= n + 1 PROVE h[i] = Value(h, i)
    <3>1. CASE i = 1
      BY <2>1, <3>1
    <3>2. CASE i # 1
      <4>1. i - 1 \in 1 .. N /\ i - 1 <= n /\ h[i - 1] = g[i - 1]
        BY <2>2, <3>2
      <4>2. h[i] = Value(g, i)
        BY <2>1
      <4> QED
        BY <3>2, <4>1, <4>2
    <3> QED
      BY <3>1, <3>2
  <2>3. UpTo(h, n + 1)
    <3> HIDE DEF h, Value
    <3> QED
      BY <2>2
  <2>4. n + 1 \in Nat
    OBVIOUS
  <2> HIDE DEF UpTo, h
  <2> QED
    BY <2>3, <2>4
<1>3. N \in T
  <2> HIDE DEF T
  <2> QED
    BY <1>1, <1>2, Induction DEF T
<1>4. PICK g : UpTo(g, N)
  BY <1>3
<1> DEFINE fl == [i \in 1 .. N |-> g[i]]
<1>5. \A i \in 1 .. N : fl[i] = Value(fl, i)
  BY <1>4
<1>6. Flattens(fl, ss)
  BY <1>5, Zenon DEF Flattens
<1> QED
  BY <1>6

\* tt is ss and one element more.
Longer(tt, ss) == Len(tt) = Len(ss) + 1 /\ \A i \in 1 .. Len(ss) : tt[i] = ss[i]

\* The prefixes of a longer sequence of sequences are concatenated alike.
LEMMA FlattensAgree ==
    ASSUME NEW ss, NEW tt, Len(ss) \in Nat, Longer(tt, ss),
           NEW fl, NEW gl, Flattens(fl, ss), Flattens(gl, tt), NEW m \in 1 .. Len(ss)
    PROVE  gl[m] = fl[m]
<1> DEFINE T == {n \in Nat : \A i \in 1 .. Len(ss) : i <= n => gl[i] = fl[i]}
<1>1. 0 \in T
  OBVIOUS
<1>2. ASSUME NEW n \in T PROVE n + 1 \in T
  <2>1. ASSUME NEW i \in 1 .. Len(ss), i <= n + 1 PROVE gl[i] = fl[i]
    <3>0. i \in 1 .. Len(tt) /\ tt[i] = ss[i]
      BY DEF Longer
    <3>1. CASE i = 1
      BY <3>0, <3>1 DEF Flattens
    <3>2. CASE i # 1
      <4>1. gl[i - 1] = fl[i - 1]
        BY <2>1, <3>2
      <4>2. fl[i] = fl[i - 1] \o ss[i] /\ gl[i] = gl[i - 1] \o tt[i]
        BY <3>0, <3>2 DEF Flattens
      <4> QED
        BY <3>0, <4>1, <4>2
    <3> QED
      BY <3>1, <3>2
  <2>2. n + 1 \in Nat
    OBVIOUS
  <2> QED
    BY <2>1, <2>2
<1>3. T = Nat
  <2> HIDE DEF T
  <2> QED
    BY <1>1, <1>2, Induction DEF T
<1> QED
  BY <1>3

\* The concatenation of sequences over S is a sequence over S.
LEMMA FlattensType ==
    ASSUME NEW S, NEW ss \in Seq(Seq(S)), NEW fl, Flattens(fl, ss), NEW m \in 1 .. Len(ss)
    PROVE  fl[m] \in Seq(S)
<1> DEFINE T == {n \in Nat : \A i \in 1 .. Len(ss) : i <= n => fl[i] \in Seq(S)}
<1>0. Len(ss) \in Nat /\ \A i \in 1 .. Len(ss) : ss[i] \in Seq(S)
  OBVIOUS
<1>1. 0 \in T
  OBVIOUS
<1>2. ASSUME NEW n \in T PROVE n + 1 \in T
  <2>1. ASSUME NEW i \in 1 .. Len(ss), i <= n + 1 PROVE fl[i] \in Seq(S)
    <3>1. CASE i = 1
      BY <1>0, <3>1 DEF Flattens
    <3>2. CASE i # 1
      <4>1. fl[i - 1] \in Seq(S)
        BY <1>0, <2>1, <3>2
      <4>2. fl[i] = fl[i - 1] \o ss[i]
        BY <3>2 DEF Flattens
      <4> QED
        BY <1>0, <4>1, <4>2
    <3> QED
      BY <3>1, <3>2
  <2>2. n + 1 \in Nat
    OBVIOUS
  <2> QED
    BY <2>1, <2>2
<1>3. T = Nat
  <2> HIDE DEF T
  <2> QED
    BY <1>1, <1>2, Induction DEF T
<1>4. m \in T
  <2> HIDE DEF T
  <2> QED
    BY <1>0, <1>3
<1> QED
  BY <1>4

\* Concatenating one sequence more appends it; the result is a sequence of the
\* same elements.
LEMMA FlattenAppend ==
    ASSUME NEW S, NEW ss \in Seq(Seq(S)), NEW x \in Seq(S)
    PROVE  /\ FlattenSeq(ss) \in Seq(S)
           /\ FlattenSeq(Append(ss, x)) = FlattenSeq(ss) \o x
<1> DEFINE tt == Append(ss, x)
           fl == CHOOSE f : Flattens(f, ss)
           gl == CHOOSE g : Flattens(g, tt)
           n == Len(ss)
<1>1. /\ Len(tt) = n + 1 /\ n \in Nat /\ tt[n + 1] = x
      /\ \A i \in 1 .. n : tt[i] = ss[i]
  OBVIOUS
<1> HIDE DEF tt
<1>2. Flattens(fl, ss) /\ Flattens(gl, tt)
  BY <1>1, FlattensExist
<1>3. FlattenSeq(tt) = gl[n + 1] /\ FlattenSeq(ss) = IF n = 0 THEN ss ELSE fl[n]
  <2>1. FlattenSeq(tt) = gl[Len(tt)] /\ FlattenSeq(ss) = IF n = 0 THEN ss ELSE fl[n]
    <3>1. Len(tt) # 0
      BY <1>1
    <3> QED
      BY <3>1, FlattenIsFlattens, Zenon
  <2> QED
    BY <1>1, <2>1
<1> HIDE DEF fl, gl
<1>4. gl[n + 1] = IF n = 0 THEN x ELSE gl[n] \o x
  <2> HIDE DEF n
  <2>1. n \in Nat /\ n + 1 \in 1 .. Len(tt)
    BY <1>1
  <2>2. gl[n + 1] = IF n = 0 THEN tt[n + 1] ELSE gl[n] \o tt[n + 1]
    BY <1>2, <2>1, FlattensAt, Zenon
  <2> QED
    BY <1>1, <2>2
<1>5. n # 0 => fl[n] \in Seq(S) /\ gl[n] = fl[n]
  <2>1. Longer(tt, ss)
    BY <1>1 DEF Longer
  <2>2. n # 0 => n \in 1 .. Len(ss) /\ Len(ss) \in Nat
    BY <1>1
  <2> QED
    BY <1>2, <2>1, <2>2, FlattensAgree, FlattensType
<1>6. n = 0 => ss \in Seq(S) /\ ss \o x = x
  OBVIOUS
<1>7. FlattenSeq(ss) \in Seq(S) /\ FlattenSeq(tt) = FlattenSeq(ss) \o x
  BY <1>3, <1>4, <1>5, <1>6
<1> QED
  BY <1>7 DEF tt
=============================================================================
