----------------------------- MODULE SumTheorems -----------------------------
(***************************************************************************)
(* Facts about sums over finite sets, SumFunctionOnSet of the community     *)
(* modules, for proofs about the models.                                    *)
(*                                                                         *)
(* The sum is defined by recursion over the subsets of a set.  That the     *)
(* recursion defines anything, and what it defines, is shown by induction   *)
(* over finite sets; the induction is stated with a set of sets where the   *)
(* library states it with an operator, so that it can be used as a fact of  *)
(* first-order logic, and rests on the well-foundedness of the strict       *)
(* subset relation.                                                         *)
(***************************************************************************)
EXTENDS Functions, FiniteSetTheorems, TLAPS

-----------------------------------------------------------------------------
(* Induction.                                                               *)

\* A set of numbers with zero and the successor of each has every number.
LEMMA NatSetInduction ==
    ASSUME NEW N, 0 \in N, \A n \in Nat : n \in N => n + 1 \in N
    PROVE  Nat \subseteq N
<1> DEFINE T == {n \in Nat : n \notin N}
           R == OpToRel(<, Nat)
<1> SUFFICES ASSUME T # {} PROVE FALSE
  OBVIOUS
<1>1. IsWellFoundedOn(R, Nat)
  BY NatLessThanWellFounded
<1>2. T \subseteq Nat
  OBVIOUS
<1> HIDE DEF T, R
<1>3. PICK n \in T : \A y \in T : ~ (<<y, n>> \in R)
  BY <1>1, <1>2, WFMin
<1>4. n \in Nat /\ n \notin N /\ n # 0
  BY DEF T
<1>5. n - 1 \in Nat /\ n - 1 \notin N
  BY <1>4
<1>6. n - 1 \in T /\ <<n - 1, n>> \in R
  BY <1>4, <1>5 DEF T, R, OpToRel
<1> QED
  BY <1>3, <1>6

\* A family of sets that has a subset s of S whenever it has s without any of
\* its elements has every subset of S, if S is finite.
LEMMA FiniteSubsetInduction ==
    ASSUME NEW S, IsFiniteSet(S), NEW F,
           \A s \in SUBSET S : (\A x \in s : s \ {x} \in F) => s \in F
    PROVE  SUBSET S \subseteq F
<1> DEFINE R == StrictSubsetOrdering(S)
           T == {s \in SUBSET S : s \notin F}
<1> SUFFICES ASSUME T # {} PROVE FALSE
  OBVIOUS
<1>1. IsWellFoundedOn(R, FiniteSubsetsOf(S))
  BY FS_StrictSubsetOrderingWellFounded
<1>2. T \subseteq FiniteSubsetsOf(S)
  BY FS_Subset DEF FiniteSubsetsOf
<1> HIDE DEF T, R
<1>3. PICK s \in T : \A r \in T : ~ (<<r, s>> \in R)
  BY <1>1, <1>2, WFMin
<1>4. s \in SUBSET S /\ s \notin F
  BY DEF T
<1>5. PICK x \in s : s \ {x} \notin F
  BY <1>4
<1>6. s \ {x} \in T /\ <<s \ {x}, s>> \in R
  BY <1>4, <1>5 DEF T, R, StrictSubsetOrdering
<1> QED
  BY <1>3, <1>6

-----------------------------------------------------------------------------
(* The recursion.                                                           *)

\* The element of s that the recursion takes first.
Picked(s) == CHOOSE x \in s : TRUE

\* One step of the recursion: the sum of f over s, from the table g of sums.
Row(g, f, s) == IF s = {} THEN 0 ELSE f[Picked(s)] + g[s \ {Picked(s)}]

IsSumTable(g, f, S) == g = [s \in SUBSET S |-> Row(g, f, s)]

SumTable(f, S) == CHOOSE g : IsSumTable(g, f, S)

\* The sum is an entry of the table that its recursive definition chooses.
LEMMA SumIsOfTable ==
    ASSUME NEW f, NEW S
    PROVE  SumFunctionOnSet(f, S) = SumTable(f, S)[S]
BY DEF SumFunctionOnSet, FoldFunctionOnSet, MapThenFoldSet, SumTable, IsSumTable,
       Row, Picked

\* The recursion defines a table, for a finite set: the rows of the sets of
\* at most n elements can be filled in for every n.
LEMMA SumTableExists ==
    ASSUME NEW f, NEW S, IsFiniteSet(S)
    PROVE  IsSumTable(SumTable(f, S), f, S)
<1> DEFINE Filled(g, n) == \A s \in SUBSET S : Cardinality(s) <= n => g[s] = Row(g, f, s)
           N == {n \in Nat : \E g : Filled(g, n)}
<1>1. \A s \in SUBSET S : /\ IsFiniteSet(s) /\ Cardinality(s) \in Nat
                          /\ Cardinality(s) <= Cardinality(S)
  BY FS_Subset, FS_CardinalityType
<1>2. \A s \in SUBSET S : s # {} => /\ Picked(s) \in s
                                    /\ s \ {Picked(s)} \in SUBSET S
                                    /\ Cardinality(s \ {Picked(s)}) = Cardinality(s) - 1
  BY <1>1, FS_RemoveElement DEF Picked
<1>3. \A s \in SUBSET S : Cardinality(s) = 0 <=> s = {}
  BY <1>1, FS_EmptySet
<1>4. 0 \in N
  <2> DEFINE g == [s \in SUBSET S |-> 0]
  <2>1. Filled(g, 0)
    BY <1>1, <1>3 DEF Row
  <2> QED
    BY <2>1
<1>5. ASSUME NEW n \in Nat, n \in N PROVE n + 1 \in N
  <2>1. PICK g : Filled(g, n)
    BY <1>5
  <2> DEFINE h == [s \in SUBSET S |-> IF Cardinality(s) <= n THEN g[s] ELSE Row(g, f, s)]
  <2>2. ASSUME NEW s \in SUBSET S, Cardinality(s) <= n + 1
        PROVE  h[s] = Row(h, f, s)
    <3>1. CASE s = {}
      <4>1. Cardinality(s) <= n
        BY <1>3, <3>1
      <4> QED
        BY <2>1, <3>1, <4>1 DEF Row
    <3>2. CASE s # {}
      <4> DEFINE r == s \ {Picked(s)}
      <4>1. r \in SUBSET S /\ Cardinality(r) <= n
        BY <1>1, <1>2, <2>2, <3>2
      <4>2. h[r] = g[r]
        BY <4>1
      <4>3. Row(h, f, s) = Row(g, f, s)
        BY <3>2, <4>2 DEF Row
      <4>4. h[s] = Row(g, f, s)
        BY <2>1
      <4> QED
        BY <4>3, <4>4
    <3> QED
      BY <3>1, <3>2
  <2> HIDE DEF h
  <2>3. Filled(h, n + 1)
    BY <2>2
  <2> QED
    BY <2>3
<1>6. Cardinality(S) \in N
  <2> HIDE DEF N
  <2> QED
    BY <1>1, <1>4, <1>5, NatSetInduction
<1>7. PICK g : Filled(g, Cardinality(S))
  BY <1>6
<1> DEFINE h == [s \in SUBSET S |-> g[s]]
<1>8. ASSUME NEW s \in SUBSET S PROVE h[s] = Row(h, f, s)
  <2>1. g[s] = Row(g, f, s)
    BY <1>1, <1>7
  <2>2. Row(g, f, s) = Row(h, f, s)
    BY <1>2 DEF Row
  <2> QED
    BY <2>1, <2>2
<1>9. h = [s \in SUBSET S |-> Row(h, f, s)]
  <2>1. h = [s \in SUBSET S |-> h[s]]
    OBVIOUS
  <2> HIDE DEF h
  <2> QED
    BY <1>8, <2>1
<1>10. IsSumTable(h, f, S)
  BY <1>9 DEF IsSumTable
<1> QED
  BY ONLY <1>10, Zenon DEF SumTable

\* An entry of the table.
LEMMA SumTableRow ==
    ASSUME NEW g, NEW f, NEW S, IsSumTable(g, f, S), NEW s \in SUBSET S
    PROVE  g[s] = Row(g, f, s)
BY Zenon DEF IsSumTable

\* Two tables of sums, of functions that agree, agree on the sets both have.
LEMMA SumTablesAgree ==
    ASSUME NEW S, NEW T, T \subseteq S, IsFiniteSet(T), NEW f, NEW h,
           \A x \in T : f[x] = h[x],
           NEW g, IsSumTable(g, f, S), NEW k, IsSumTable(k, h, T)
    PROVE  \A s \in SUBSET T : g[s] = k[s]
<1> DEFINE F == {s \in SUBSET T : g[s] = k[s]}
<1>1. ASSUME NEW s \in SUBSET T, \A x \in s : s \ {x} \in F PROVE s \in F
  <2>1. g[s] = Row(g, f, s) /\ k[s] = Row(k, h, s)
    <3>1. s \in SUBSET S
      OBVIOUS
    <3> QED
      BY <3>1, SumTableRow
  <2>2. CASE s = {}
    BY <2>1, <2>2 DEF Row
  <2>3. CASE s # {}
    <3>1. Picked(s) \in s
      BY <2>3 DEF Picked
    <3>2. g[s \ {Picked(s)}] = k[s \ {Picked(s)}] /\ f[Picked(s)] = h[Picked(s)]
      BY <1>1, <3>1
    <3> QED
      BY <2>1, <2>3, <3>2 DEF Row
  <2> QED
    BY <2>2, <2>3
<1> HIDE DEF F
<1>2. SUBSET T \subseteq F
  BY <1>1, FiniteSubsetInduction
<1> QED
  BY <1>2 DEF F

\* The table of a subset is a part of the table of the set.
LEMMA SumTableRestricted ==
    ASSUME NEW f, NEW S, IsFiniteSet(S), NEW T \in SUBSET S
    PROVE  SumTable(f, S)[T] = SumTable(f, T)[T]
<1>1. T \subseteq S /\ IsFiniteSet(T)
  BY FS_Subset
<1> DEFINE g == SumTable(f, S)
           k == SumTable(f, T)
<1>2. IsSumTable(g, f, S) /\ IsSumTable(k, f, T)
  BY <1>1, SumTableExists
<1> HIDE DEF g, k
<1>3. \A s \in SUBSET T : g[s] = k[s]
  BY <1>1, <1>2, SumTablesAgree
<1> QED
  BY <1>3 DEF g, k

-----------------------------------------------------------------------------
(* Sums.                                                                    *)

\* The sum depends on the values at the elements of the set only.
LEMMA SumSame ==
    ASSUME NEW S, IsFiniteSet(S), NEW f, NEW g, \A x \in S : f[x] = g[x]
    PROVE  SumFunctionOnSet(f, S) = SumFunctionOnSet(g, S)
<1>1. IsSumTable(SumTable(f, S), f, S) /\ IsSumTable(SumTable(g, S), g, S)
  BY SumTableExists
<1>2. SumTable(f, S)[S] = SumTable(g, S)[S]
  BY <1>1, SumTablesAgree
<1> QED
  BY <1>2, SumIsOfTable

\* The sum over no elements.
LEMMA SumEmpty ==
    ASSUME NEW f
    PROVE  SumFunctionOnSet(f, {}) = 0
<1>1. IsFiniteSet({})
  BY FS_EmptySet
<1>2. SumTable(f, {})[{}] = Row(SumTable(f, {}), f, {})
  BY <1>1, SumTableExists, SumTableRow
<1> QED
  BY <1>2, SumIsOfTable DEF Row

\* The sum over some elements is one of them plus the sum over the others.
LEMMA SumPicked ==
    ASSUME NEW f, NEW S, IsFiniteSet(S), S # {}
    PROVE  SumFunctionOnSet(f, S)
             = f[Picked(S)] + SumFunctionOnSet(f, S \ {Picked(S)})
<1> DEFINE r == S \ {Picked(S)}
<1>1. IsFiniteSet(r) /\ r \in SUBSET S
  BY FS_Subset
<1>2. IsSumTable(SumTable(f, S), f, S)
  BY SumTableExists
<1>3. SumTable(f, S)[S] = Row(SumTable(f, S), f, S)
  BY <1>2, SumTableRow
<1>4. SumTable(f, S)[r] = SumTable(f, r)[r]
  BY <1>1, SumTableRestricted
<1> QED
  BY <1>3, <1>4, SumIsOfTable DEF Row

\* A sum of integers is an integer.
LEMMA SumIsInt ==
    ASSUME NEW S, IsFiniteSet(S), NEW f, \A x \in S : f[x] \in Int
    PROVE  SumFunctionOnSet(f, S) \in Int
<1> DEFINE F == {s \in SUBSET S : SumFunctionOnSet(f, s) \in Int}
<1>1. ASSUME NEW s \in SUBSET S, \A x \in s : s \ {x} \in F PROVE s \in F
  <2>1. CASE s = {}
    BY <2>1, SumEmpty
  <2>2. CASE s # {}
    <3>1. Picked(s) \in s
      BY <2>2 DEF Picked
    <3>2. SumFunctionOnSet(f, s \ {Picked(s)}) \in Int /\ f[Picked(s)] \in Int
      BY <1>1, <3>1
    <3>3. SumFunctionOnSet(f, s)
            = f[Picked(s)] + SumFunctionOnSet(f, s \ {Picked(s)})
      BY <2>2, FS_Subset, SumPicked
    <3> QED
      BY <3>2, <3>3
  <2> QED
    BY <2>1, <2>2
<1> HIDE DEF F
<1>2. SUBSET S \subseteq F
  BY <1>1, FiniteSubsetInduction
<1> QED
  BY <1>2 DEF F

\* Any element may be taken out of the sum, whichever the recursion takes.
LEMMA SumTakeOut ==
    ASSUME NEW S, IsFiniteSet(S), NEW f, \A x \in S : f[x] \in Int, NEW e \in S
    PROVE  SumFunctionOnSet(f, S) = f[e] + SumFunctionOnSet(f, S \ {e})
<1> DEFINE Sum(s) == SumFunctionOnSet(f, s)
           F == {s \in SUBSET S : \A x \in s : Sum(s) = f[x] + Sum(s \ {x})}
<1>1. \A s \in SUBSET S : IsFiniteSet(s) /\ Sum(s) \in Int
  BY FS_Subset, SumIsInt
<1>2. \A s \in SUBSET S : s # {} => Sum(s) = f[Picked(s)] + Sum(s \ {Picked(s)})
  BY <1>1, SumPicked
<1> HIDE DEF Sum
<1>3. ASSUME NEW s \in SUBSET S, \A x \in s : s \ {x} \in F PROVE s \in F
  <2> SUFFICES ASSUME NEW x \in s PROVE Sum(s) = f[x] + Sum(s \ {x})
    OBVIOUS
  <2> DEFINE p == Picked(s)
  <2>1. p \in s /\ Sum(s) = f[p] + Sum(s \ {p})
    BY <1>2 DEF Picked
  <2> HIDE DEF p
  <2>2. CASE p = x
    BY <2>1, <2>2, Zenon
  <2>3. CASE p # x
    <3>1. x \in s \ {p} /\ s \ {p} \in F /\ p \in s \ {x} /\ s \ {x} \in F
      BY <1>3, <2>1, <2>3
    <3>2. Sum(s \ {p}) = f[x] + Sum((s \ {p}) \ {x})
      BY <3>1
    <3>3. Sum(s \ {x}) = f[p] + Sum((s \ {x}) \ {p})
      BY <3>1
    <3>4. (s \ {p}) \ {x} = (s \ {x}) \ {p}
      OBVIOUS
    <3> DEFINE rest == Sum((s \ {x}) \ {p})
    <3>5. f[p] \in Int /\ f[x] \in Int /\ rest \in Int
      BY <1>1, <2>1
    <3>6. Sum(s) = f[p] + (f[x] + rest) /\ Sum(s \ {x}) = f[p] + rest
      BY <2>1, <3>2, <3>3, <3>4, Zenon
    <3> HIDE DEF rest
    <3> QED
      BY <3>5, <3>6
  <2> QED
    BY <2>2, <2>3
<1> HIDE DEF F
<1>4. SUBSET S \subseteq F
  BY <1>3, FiniteSubsetInduction
<1> QED
  BY <1>4 DEF F, Sum

\* Where the value of one element changes, the sum changes as much.
LEMMA SumChangedAt ==
    ASSUME NEW S, IsFiniteSet(S), NEW f, NEW g, NEW e \in S,
           \A x \in S : f[x] \in Int, g[e] \in Int,
           \A x \in S \ {e} : g[x] = f[x]
    PROVE  SumFunctionOnSet(g, S) = SumFunctionOnSet(f, S) - f[e] + g[e]
<1>1. IsFiniteSet(S \ {e})
  BY FS_Subset
<1>2. \A x \in S : g[x] \in Int
  OBVIOUS
<1>3. SumFunctionOnSet(f, S) = f[e] + SumFunctionOnSet(f, S \ {e})
  BY SumTakeOut
<1>4. SumFunctionOnSet(g, S) = g[e] + SumFunctionOnSet(g, S \ {e})
  BY <1>2, SumTakeOut
<1>5. SumFunctionOnSet(f, S \ {e}) = SumFunctionOnSet(g, S \ {e})
  BY <1>1, SumSame
<1>6. SumFunctionOnSet(f, S \ {e}) \in Int /\ f[e] \in Int
  BY <1>1, SumIsInt
<1> QED
  BY <1>3, <1>4, <1>5, <1>6

\* A sum of numbers that are not negative is not negative.
LEMMA SumIsNat ==
    ASSUME NEW S, IsFiniteSet(S), NEW f, \A x \in S : f[x] \in Nat
    PROVE  SumFunctionOnSet(f, S) \in Nat
<1> DEFINE F == {s \in SUBSET S : SumFunctionOnSet(f, s) \in Nat}
<1>1. ASSUME NEW s \in SUBSET S, \A x \in s : s \ {x} \in F PROVE s \in F
  <2>1. CASE s = {}
    BY <2>1, SumEmpty
  <2>2. ASSUME NEW x \in s PROVE s \in F
    <3>1. SumFunctionOnSet(f, s) = f[x] + SumFunctionOnSet(f, s \ {x})
      BY FS_Subset, SumTakeOut
    <3>2. SumFunctionOnSet(f, s \ {x}) \in Nat /\ f[x] \in Nat
      BY <1>1
    <3> QED
      BY <3>1, <3>2
  <2> QED
    BY <2>1, <2>2
<1> HIDE DEF F
<1>2. SUBSET S \subseteq F
  BY <1>1, FiniteSubsetInduction
<1> QED
  BY <1>2 DEF F

\* The sum is linear: here for f plus c times g.
LEMMA SumLinear ==
    ASSUME NEW S, IsFiniteSet(S), NEW c \in Int, NEW f, NEW g, NEW h,
           \A x \in S : f[x] \in Int /\ g[x] \in Int /\ h[x] = f[x] + c * g[x]
    PROVE  SumFunctionOnSet(h, S) = SumFunctionOnSet(f, S) + c * SumFunctionOnSet(g, S)
<1> DEFINE Sum(k, s) == SumFunctionOnSet(k, s)
           F == {s \in SUBSET S : Sum(h, s) = Sum(f, s) + c * Sum(g, s)}
<1>1. \A x \in S : h[x] \in Int
  OBVIOUS
<1>2. ASSUME NEW s \in SUBSET S
      PROVE  /\ Sum(f, s) \in Int /\ Sum(g, s) \in Int
             /\ \A x \in s : /\ Sum(f, s) = f[x] + Sum(f, s \ {x})
                             /\ Sum(g, s) = g[x] + Sum(g, s \ {x})
                             /\ Sum(h, s) = h[x] + Sum(h, s \ {x})
  <2>1. IsFiniteSet(s)
    BY FS_Subset
  <2> QED
    BY <1>1, <2>1, SumIsInt, SumTakeOut
<1>3. Sum(f, {}) = 0 /\ Sum(g, {}) = 0 /\ Sum(h, {}) = 0
  BY SumEmpty
<1> HIDE DEF Sum
<1>4. ASSUME NEW s \in SUBSET S, \A x \in s : s \ {x} \in F PROVE s \in F
  <2>1. CASE s = {}
    BY <1>3, <2>1
  <2>2. ASSUME NEW x \in s PROVE s \in F
    <3>1. s \ {x} \in SUBSET S
      OBVIOUS
    <3>2. Sum(f, s \ {x}) \in Int /\ Sum(g, s \ {x}) \in Int
      BY <1>2, <3>1
    <3>3. f[x] \in Int /\ g[x] \in Int /\ h[x] = f[x] + c * g[x]
      OBVIOUS
    <3>4. Sum(h, s \ {x}) = Sum(f, s \ {x}) + c * Sum(g, s \ {x})
      BY <1>4
    <3>5. c * (g[x] + Sum(g, s \ {x})) = c * g[x] + c * Sum(g, s \ {x})
      BY <3>2, <3>3
    <3>6. c * g[x] \in Int /\ c * Sum(g, s \ {x}) \in Int
      BY <3>2, <3>3
    <3>7. Sum(h, s) = Sum(f, s) + c * Sum(g, s)
      BY <1>2, <3>2, <3>3, <3>4, <3>5, <3>6
    <3> QED
      BY <3>7
  <2> QED
    BY <2>1, <2>2
<1> HIDE DEF F
<1>5. SUBSET S \subseteq F
  BY <1>4, FiniteSubsetInduction
<1> QED
  BY <1>5 DEF F, Sum

\* Elements of value zero may be left out of the sum.
LEMMA SumOverSupport ==
    ASSUME NEW S, IsFiniteSet(S), NEW T, T \subseteq S, NEW f, NEW g,
           \A x \in T : f[x] \in Int /\ g[x] = f[x],
           \A x \in S \ T : g[x] = 0
    PROVE  SumFunctionOnSet(g, S) = SumFunctionOnSet(f, T)
<1> DEFINE Sum(k, s) == SumFunctionOnSet(k, s)
           F == {s \in SUBSET S : Sum(g, s) = Sum(f, s \cap T)}
<1>1. ASSUME NEW s \in SUBSET S
      PROVE  /\ Sum(g, s) \in Int
             /\ \A x \in s : Sum(g, s) = g[x] + Sum(g, s \ {x})
             /\ Sum(f, s \cap T) \in Int
             /\ \A x \in s \cap T : Sum(f, s \cap T) = f[x] + Sum(f, (s \cap T) \ {x})
  <2>1. IsFiniteSet(s) /\ IsFiniteSet(s \cap T)
    BY FS_Subset
  <2>2. (\A x \in s : g[x] \in Int) /\ (\A x \in s \cap T : f[x] \in Int)
    OBVIOUS
  <2> QED
    BY <2>1, <2>2, SumIsInt, SumTakeOut
<1>2. Sum(f, {}) = 0 /\ Sum(g, {}) = 0
  BY SumEmpty
<1> HIDE DEF Sum
<1>3. ASSUME NEW s \in SUBSET S, \A x \in s : s \ {x} \in F PROVE s \in F
  <2>1. CASE s = {}
    <3>1. s \cap T = {}
      BY <2>1
    <3> QED
      BY <1>2, <2>1, <3>1
  <2>2. ASSUME NEW x \in s PROVE s \in F
    <3>1. Sum(g, s \ {x}) = Sum(f, (s \ {x}) \cap T) /\ s \ {x} \in SUBSET S
      BY <1>3
    <3>2. Sum(g, s) = g[x] + Sum(g, s \ {x}) /\ Sum(g, s \ {x}) \in Int
      BY <1>1, <3>1
    <3>3. CASE x \in T
      <4>1. (s \ {x}) \cap T = (s \cap T) \ {x}
        OBVIOUS
      <4>2. Sum(f, s \cap T) = f[x] + Sum(f, (s \cap T) \ {x})
        BY <1>1, <3>3
      <4> QED
        BY <3>1, <3>2, <3>3, <4>1, <4>2
    <3>4. CASE x \notin T
      <4>1. (s \ {x}) \cap T = s \cap T
        BY <3>4
      <4>2. g[x] = 0
        BY <3>4
      <4>3. Sum(g, s) = Sum(g, s \ {x})
        BY <3>2, <4>2
      <4>4. Sum(g, s) = Sum(f, s \cap T)
        BY <3>1, <4>1, <4>3, Zenon
      <4> QED
        BY <4>4
    <3> QED
      BY <3>3, <3>4
  <2> QED
    BY <2>1, <2>2
<1> HIDE DEF F
<1>4. SUBSET S \subseteq F
  BY <1>3, FiniteSubsetInduction
<1>5. S \in F /\ S \cap T = T
  BY <1>4
<1> QED
  BY <1>5 DEF F, Sum

\* A sum of zeros is zero.
LEMMA SumAllZero ==
    ASSUME NEW S, IsFiniteSet(S), NEW f, \A x \in S : f[x] = 0
    PROVE  SumFunctionOnSet(f, S) = 0
<1> DEFINE none == [x \in {} |-> 0]
<1>1. SumFunctionOnSet(f, S) = SumFunctionOnSet(none, {})
  BY SumOverSupport
<1> QED
  BY <1>1, SumEmpty

\* Where only one element is not zero, the sum is its value.
LEMMA SumAtOnly ==
    ASSUME NEW S, IsFiniteSet(S), NEW f, NEW e \in S, f[e] \in Int,
           \A x \in S \ {e} : f[x] = 0
    PROVE  SumFunctionOnSet(f, S) = f[e]
<1>1. IsFiniteSet(S \ {e})
  BY FS_Subset
<1>2. SumFunctionOnSet(f, S \ {e}) = 0
  BY <1>1, SumAllZero
<1>3. \A x \in S : f[x] \in Int
  OBVIOUS
<1>4. SumFunctionOnSet(f, S) = f[e] + SumFunctionOnSet(f, S \ {e})
  BY <1>3, SumTakeOut
<1> QED
  BY <1>2, <1>4

\* The sum grows with the values.
LEMMA SumAtMost ==
    ASSUME NEW S, IsFiniteSet(S), NEW f, NEW g,
           \A x \in S : f[x] \in Int /\ g[x] \in Int /\ f[x] <= g[x]
    PROVE  SumFunctionOnSet(f, S) <= SumFunctionOnSet(g, S)
<1> DEFINE more == [x \in S |-> g[x] - f[x]]
<1>1. \A x \in S : /\ f[x] \in Int /\ more[x] \in Int /\ more[x] \in Nat
                   /\ g[x] = f[x] + 1 * more[x]
  OBVIOUS
<1> HIDE DEF more
<1>2. SumFunctionOnSet(more, S) \in Nat
  BY <1>1, SumIsNat
<1>3. SumFunctionOnSet(f, S) \in Int
  BY <1>1, SumIsInt
<1>4. SumFunctionOnSet(g, S) = SumFunctionOnSet(f, S) + 1 * SumFunctionOnSet(more, S)
  <2>1. 1 \in Int
    OBVIOUS
  <2> QED
    BY <1>1, <2>1, SumLinear
<1> QED
  BY <1>2, <1>3, <1>4

\* The sum of a one for every element of T counts them.
LEMMA SumCounts ==
    ASSUME NEW S, IsFiniteSet(S), NEW T, T \subseteq S, NEW f,
           \A x \in S : f[x] = IF x \in T THEN 1 ELSE 0
    PROVE  SumFunctionOnSet(f, S) = Cardinality(T)
<1> DEFINE Sum(s) == SumFunctionOnSet(f, s)
           F == {s \in SUBSET S : Sum(s) = Cardinality(s \cap T)}
<1>1. Sum({}) = 0
  BY SumEmpty
<1>2. ASSUME NEW s \in SUBSET S, NEW x \in s
      PROVE  /\ Sum(s) = f[x] + Sum(s \ {x})
             /\ IsFiniteSet(s \cap T)
             /\ Cardinality(s \cap T) \in Nat
             /\ x \in T => Cardinality((s \ {x}) \cap T) = Cardinality(s \cap T) - 1
             /\ x \notin T => (s \ {x}) \cap T = s \cap T
  <2>1. IsFiniteSet(s) /\ IsFiniteSet(s \cap T)
    BY FS_Subset
  <2>2. \A y \in s : f[y] \in Int
    OBVIOUS
  <2>3. Sum(s) = f[x] + Sum(s \ {x})
    BY <2>1, <2>2, SumTakeOut
  <2>4. ASSUME x \in T PROVE Cardinality((s \ {x}) \cap T) = Cardinality(s \cap T) - 1
    <3>1. (s \ {x}) \cap T = (s \cap T) \ {x} /\ x \in s \cap T
      BY <2>4
    <3> DEFINE both == s \cap T
    <3> HIDE DEF both
    <3>2. Cardinality(both \ {x}) = Cardinality(both) - 1
      BY <2>1, <3>1, FS_RemoveElement DEF both
    <3> QED
      BY <3>1, <3>2 DEF both
  <2>5. x \notin T => (s \ {x}) \cap T = s \cap T
    OBVIOUS
  <2>6. Cardinality(s \cap T) \in Nat
    BY <2>1, FS_CardinalityType
  <2> QED
    BY <2>1, <2>3, <2>4, <2>5, <2>6
<1> HIDE DEF Sum
<1>3. ASSUME NEW s \in SUBSET S, \A x \in s : s \ {x} \in F PROVE s \in F
  <2>1. CASE s = {}
    <3>1. s \cap T = {}
      BY <2>1
    <3> QED
      BY <1>1, <2>1, <3>1, FS_EmptySet
  <2>2. CASE s # {}
    <3>1. PICK x \in s : TRUE
      BY <2>2
    <3>2. Sum(s \ {x}) = Cardinality((s \ {x}) \cap T)
      BY <1>3, <3>1
    <3>3. f[x] = IF x \in T THEN 1 ELSE 0
      BY <3>1
    <3>4. Sum(s) = Cardinality(s \cap T)
      <4> DEFINE count == Cardinality(s \cap T)
                 others == Cardinality((s \ {x}) \cap T)
      <4>1. /\ Sum(s) = f[x] + Sum(s \ {x}) /\ count \in Nat
            /\ others = IF x \in T THEN count - 1 ELSE count
        BY <1>2, <3>1
      <4>2. Sum(s \ {x}) = others
        BY <3>2
      <4> HIDE DEF count, others
      <4>3. Sum(s) = count
        BY <3>3, <4>1, <4>2
      <4> QED
        BY <4>3 DEF count
    <3> QED
      BY <3>4
  <2> QED
    BY <2>1, <2>2
<1> HIDE DEF F
<1>4. SUBSET S \subseteq F
  BY <1>3, FiniteSubsetInduction
<1>5. S \cap T = T
  OBVIOUS
<1> QED
  BY <1>4, <1>5 DEF F, Sum
=============================================================================
