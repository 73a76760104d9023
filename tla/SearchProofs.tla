---------------------------- MODULE SearchProofs ----------------------------
(***************************************************************************)
(* Proofs about the searches: what they find, in a history of any length.   *)
(***************************************************************************)
EXTENDS Search, SumTheorems

\* The last entry not above x lies within lo .. hi; if every entry is above x,
\* lo is the first one.
Encloses(h, n, x, lo, hi) ==
    /\ lo \in 0..n
    /\ hi \in 0..n
    /\ lo <= hi
    /\ lo = 0 \/ h[lo] <= x
    /\ \A i \in 0..n : i > hi => h[i] > x

\* The middle is above lo, at most hi, and no further from either than half.
LEMMA MidFacts ==
    ASSUME NEW lo \in Nat, NEW hi \in Nat, lo < hi
    PROVE  /\ Mid(lo, hi) \in Nat
           /\ lo < Mid(lo, hi) /\ Mid(lo, hi) <= hi
           /\ 2 * (hi - Mid(lo, hi)) <= hi - lo
           /\ 2 * (Mid(lo, hi) - 1 - lo) <= hi - lo
BY DEF Mid

\* A round of _find_block_epoch never loses the entry it looks for, whatever
\* ascending history it is given, and halves the interval: 128 rounds are more
\* than any history of less than 2^64 entries needs.
THEOREM SearchRoundKeeps ==
    ASSUME NEW n \in Nat, NEW h \in [0..n -> Int], Ascending(h), NEW x \in Int,
           NEW lo, NEW hi, Encloses(h, n, x, lo, hi), lo < hi
    PROVE  LET half == Narrow(h, x, lo, hi)
           IN  /\ Encloses(h, n, x, half.lo, half.hi)
               /\ 2 * (half.hi - half.lo) <= hi - lo
<1> DEFINE mid == Mid(lo, hi)
           half == Narrow(h, x, lo, hi)
<1>1. lo \in Nat /\ hi \in Nat /\ hi <= n
  BY DEF Encloses
<1>2. /\ mid \in Nat /\ lo < mid /\ mid <= hi
      /\ 2 * (hi - mid) <= hi - lo
      /\ 2 * (mid - 1 - lo) <= hi - lo
  BY <1>1, MidFacts
<1> HIDE DEF mid
<1>3. CASE h[mid] <= x
  <2>1. half.lo = mid /\ half.hi = hi
    BY <1>3 DEF Narrow, mid
  <2> HIDE DEF half
  <2> QED
    BY <1>1, <1>2, <1>3, <2>1 DEF Encloses, half
<1>4. CASE ~(h[mid] <= x)
  <2>1. half.lo = lo /\ half.hi = mid - 1
    BY <1>4 DEF Narrow, mid
  <2>2. mid \in 0..n /\ h[mid] > x
    BY <1>1, <1>2, <1>4
  <2>3. ASSUME NEW i \in 0..n, i > mid - 1
        PROVE  h[i] > x
    <3>1. h[mid] <= h[i] /\ h[i] \in Int /\ h[mid] \in Int
      BY <1>2, <2>2, <2>3 DEF Ascending
    <3> QED
      BY <2>2, <3>1
  <2> HIDE DEF half
  <2>4. Encloses(h, n, x, lo, mid - 1)
    BY <1>1, <1>2, <2>3 DEF Encloses
  <2> QED
    BY <1>2, <2>1, <2>4 DEF half
<1> QED
  BY <1>3, <1>4

\* The powers of two: how many entries so many rounds can tell apart.
Pow2[k \in 0..MaxRounds] == IF k = 0 THEN 1 ELSE 2 * Pow2[k - 1]

IsPow2(g, m) == g = [k \in 0..m |-> IF k = 0 THEN 1 ELSE 2 * g[k - 1]]

\* The recursion defines a function.
LEMMA Pow2Exists == IsPow2(Pow2, MaxRounds)
<1> DEFINE N == {m \in Nat : \E g : IsPow2(g, m)}
<1>1. 0 \in N
  <2> DEFINE g == [k \in 0..0 |-> 1]
  <2>1. IsPow2(g, 0)
    BY DEF IsPow2
  <2> QED
    BY <2>1
<1>2. ASSUME NEW m \in Nat, m \in N PROVE m + 1 \in N
  <2>1. PICK g : IsPow2(g, m)
    BY <1>2
  <2> DEFINE h == [k \in 0..(m + 1) |-> IF k <= m THEN g[k] ELSE 2 * g[m]]
  <2>2. \A k \in 0..m : g[k] = IF k = 0 THEN 1 ELSE 2 * g[k - 1]
    BY <2>1 DEF IsPow2
  <2>3. ASSUME NEW k \in 0..(m + 1)
        PROVE  h[k] = IF k = 0 THEN 1 ELSE 2 * h[k - 1]
    <3>1. CASE k <= m
      BY <1>2, <2>2, <3>1
    <3>2. CASE k = m + 1
      <4>1. h[k] = 2 * g[m] /\ h[k - 1] = g[m]
        BY <1>2, <3>2
      <4> QED
        BY <1>2, <3>2, <4>1
    <3> QED
      BY <1>2, <3>1, <3>2
  <2>4. IsPow2(h, m + 1)
    BY <2>3 DEF IsPow2
  <2> HIDE DEF h
  <2>5. \E k : IsPow2(k, m + 1)
    BY <2>4
  <2> QED
    BY <1>2, <2>5
<1>3. MaxRounds \in N
  BY <1>1, <1>2, NatSetInduction DEF MaxRounds
<1>4. \E g : IsPow2(g, MaxRounds)
  BY <1>3
<1>5. Pow2 = CHOOSE g : IsPow2(g, MaxRounds)
  BY DEF Pow2, IsPow2
<1> QED
  BY ONLY <1>4, <1>5, Zenon

\* The first powers, and that each is twice the one before.
LEMMA Pow2Facts ==
    /\ Pow2[0] = 1
    /\ \A k \in Nat : k < MaxRounds => /\ Pow2[k] \in Nat \ {0}
                                       /\ Pow2[k + 1] = 2 * Pow2[k]
<1> DEFINE N == {k \in Nat : k <= MaxRounds => Pow2[k] \in Nat \ {0}}
<1>1. \A k \in 0..MaxRounds : Pow2[k] = IF k = 0 THEN 1 ELSE 2 * Pow2[k - 1]
  BY Pow2Exists DEF IsPow2
<1>2. Pow2[0] = 1
  BY <1>1 DEF MaxRounds
<1>3. ASSUME NEW k \in Nat, k < MaxRounds PROVE Pow2[k + 1] = 2 * Pow2[k]
  <2>1. k + 1 \in 0..MaxRounds /\ k + 1 # 0 /\ (k + 1) - 1 = k
    BY <1>3 DEF MaxRounds
  <2> QED
    BY <1>1, <2>1
<1>4. ASSUME NEW k \in Nat, k \in N PROVE k + 1 \in N
  BY <1>3, <1>4 DEF MaxRounds
<1>5. Nat \subseteq N
  <2>1. 0 \in N
    BY <1>2
  <2> HIDE DEF N
  <2> QED
    BY <1>4, <2>1, NatSetInduction
<1> QED
  BY <1>2, <1>3, <1>5 DEF MaxRounds

\* The rounds are more than a history of a thousand entries needs.
LEMMA Pow2OfRounds == Pow2[MaxRounds] > 999
<1> DEFINE N == {k \in Nat : k >= 10 /\ k <= MaxRounds => Pow2[k] > 999}
<1>1. Pow2[10] > 999
  BY Pow2Facts DEF MaxRounds
<1>2. 0 \in N
  OBVIOUS
<1>3. ASSUME NEW k \in Nat, k \in N PROVE k + 1 \in N
  BY <1>1, <1>3, Pow2Facts DEF MaxRounds
<1>4. Nat \subseteq N
  <2> HIDE DEF N
  <2> QED
    BY <1>2, <1>3, NatSetInduction
<1> QED
  BY <1>4 DEF MaxRounds

-----------------------------------------------------------------------------
(* The search by block.                                                     *)

SearchDomain(n) == (0..MaxRounds) \X (0..n) \X (0..n)

\* What the loop finds from s on, given what it finds a round later.
SearchRow(f, h, x, s) ==
    IF s[1] = MaxRounds \/ s[2] >= s[3] THEN s[2]
    ELSE LET half == Narrow(h, x, s[2], s[3])
         IN  f[<<s[1] + 1, half.lo, half.hi>>]

IsSearch(f, h, x, n) == f = [s \in SearchDomain(n) |-> SearchRow(f, h, x, s)]

SearchTable(h, x, n) == CHOOSE f : IsSearch(f, h, x, n)

LEMMA SearchIsOfTable ==
    ASSUME NEW h, NEW x, NEW n
    PROVE  FindBlockEpoch(h, x, n) = SearchTable(h, x, n)[<<0, 0, n>>]
BY DEF FindBlockEpoch, SearchTable, IsSearch, SearchRow, SearchDomain

\* A round with more than one entry left goes to an interval of the history.
LEMMA NarrowInDomain ==
    ASSUME NEW n \in Nat, NEW h, NEW x, NEW s \in SearchDomain(n),
           s[1] # MaxRounds, s[2] < s[3]
    PROVE  LET half == Narrow(h, x, s[2], s[3])
           IN  <<s[1] + 1, half.lo, half.hi>> \in SearchDomain(n)
<1> DEFINE mid == Mid(s[2], s[3])
<1>1. /\ s[1] \in 0..MaxRounds /\ s[2] \in Nat /\ s[3] \in Nat
      /\ s[2] \in 0..n /\ s[3] \in 0..n
  BY DEF SearchDomain
<1>2. s[1] + 1 \in 0..MaxRounds
  BY <1>1 DEF MaxRounds
<1>3. mid \in Nat /\ s[2] < mid /\ mid <= s[3]
  BY <1>1, MidFacts
<1> HIDE DEF mid
<1>4. mid \in 0..n /\ mid - 1 \in 0..n
  BY <1>1, <1>3
<1> DEFINE half == Narrow(h, x, s[2], s[3])
<1>5. half.lo \in 0..n /\ half.hi \in 0..n
  BY <1>1, <1>4 DEF Narrow, mid
<1> HIDE DEF half
<1> QED
  BY <1>2, <1>5 DEF SearchDomain, half

\* The recursion defines a function: the last m rounds can be filled in for
\* every m.
LEMMA SearchTableExists ==
    ASSUME NEW n \in Nat, NEW h, NEW x
    PROVE  IsSearch(SearchTable(h, x, n), h, x, n)
<1> DEFINE D == SearchDomain(n)
           Round(f, s) == SearchRow(f, h, x, s)
           Filled(g, m) == \A s \in D : s[1] >= MaxRounds - m => g[s] = Round(g, s)
           N == {m \in Nat : \E g : Filled(g, m)}
<1>1. \A s \in D : s[1] \in Nat /\ s[2] \in Nat /\ s[3] \in Nat /\ s[1] <= MaxRounds
  BY DEF SearchDomain, MaxRounds
<1>2. ASSUME NEW s \in D, s[1] # MaxRounds, s[2] < s[3]
      PROVE  \E u \in D : u[1] = s[1] + 1 /\ \A f : Round(f, s) = f[u]
  <2> DEFINE half == Narrow(h, x, s[2], s[3])
             u == <<s[1] + 1, half.lo, half.hi>>
  <2>1. u \in D
    BY <1>2, NarrowInDomain
  <2>2. u[1] = s[1] + 1
    OBVIOUS
  <2>3. ASSUME NEW f PROVE Round(f, s) = f[u]
    BY <1>1, <1>2 DEF SearchRow
  <2> QED
    BY <2>1, <2>2, <2>3
<1>3. \A s \in D : s[1] = MaxRounds \/ ~(s[2] < s[3]) => \A f : Round(f, s) = s[2]
  BY <1>1 DEF SearchRow
<1> HIDE DEF D, Round
<1>4. 0 \in N
  <2> DEFINE g == [s \in D |-> s[2]]
  <2>1. Filled(g, 0)
    BY <1>1, <1>3 DEF MaxRounds
  <2> QED
    BY <2>1
<1>5. ASSUME NEW m \in Nat, m \in N PROVE m + 1 \in N
  <2>1. PICK g : Filled(g, m)
    BY <1>5
  <2> DEFINE k == [s \in D |-> IF s[1] >= MaxRounds - m THEN g[s] ELSE Round(g, s)]
  <2>2. ASSUME NEW s \in D, s[1] >= MaxRounds - (m + 1)
        PROVE  k[s] = Round(k, s)
    <3>1. k[s] = Round(g, s)
      BY <2>1
    <3>2. Round(k, s) = Round(g, s)
      <4>1. CASE s[1] # MaxRounds /\ s[2] < s[3]
        <5>1. PICK u \in D : u[1] = s[1] + 1 /\ \A f : Round(f, s) = f[u]
          BY <1>2, <4>1
        <5>2. u[1] >= MaxRounds - m
          BY <1>1, <1>5, <2>2, <5>1 DEF MaxRounds
        <5>3. k[u] = g[u]
          BY <5>2
        <5> QED
          BY <5>1, <5>3
      <4>2. CASE ~(s[1] # MaxRounds /\ s[2] < s[3])
        BY <1>3, <4>2
      <4> QED
        BY <4>1, <4>2
    <3> QED
      BY <3>1, <3>2
  <2>3. Filled(k, m + 1)
    BY <2>2
  <2> HIDE DEF k, Filled
  <2>4. \E f : Filled(f, m + 1)
    BY <2>3
  <2> QED
    BY <1>5, <2>4
<1>6. MaxRounds \in N
  <2> HIDE DEF N
  <2> QED
    BY <1>4, <1>5, NatSetInduction DEF MaxRounds
<1>7. PICK g : Filled(g, MaxRounds)
  BY <1>6
<1> DEFINE f == [s \in D |-> g[s]]
<1>8. ASSUME NEW s \in D PROVE f[s] = Round(f, s)
  <2>1. f[s] = g[s] /\ g[s] = Round(g, s)
    BY <1>1, <1>7 DEF MaxRounds
  <2>2. CASE s[1] # MaxRounds /\ s[2] < s[3]
    <3>1. PICK u \in D : u[1] = s[1] + 1 /\ \A k : Round(k, s) = k[u]
      BY <1>2, <2>2
    <3>2. f[u] = g[u]
      OBVIOUS
    <3> QED
      BY <2>1, <3>1, <3>2
  <2>3. CASE ~(s[1] # MaxRounds /\ s[2] < s[3])
    BY <1>3, <2>1, <2>3
  <2> QED
    BY <2>2, <2>3
<1>9. f = [s \in D |-> Round(f, s)]
  BY <1>8
<1>10. IsSearch(f, h, x, n)
  BY <1>9 DEF IsSearch, D, Round
<1> HIDE DEF f
<1>11. \E k : IsSearch(k, h, x, n)
  BY <1>10
<1> QED
  BY ONLY <1>11, Zenon DEF SearchTable

\* _find_block_epoch finds the last entry not above the block, or the first if
\* all are above, in every ascending history of less than 2^128 entries, equal
\* ones included: what "will be always enough for 128-bit numbers" promises.
THEOREM FindBlockEpochFinds ==
    ASSUME NEW n \in Nat, n < Pow2[MaxRounds],
           NEW h \in [0..n -> Int], Ascending(h), NEW x \in Int
    PROVE  IsLastNotAbove(h, x, FindBlockEpoch(h, x, n))
<1> DEFINE f == SearchTable(h, x, n)
           Found(i, lo, hi) == f[<<i, lo, hi>>]
           Finds(r) == \A i, lo, hi \in Nat :
                          /\ i + r = MaxRounds
                          /\ Encloses(h, n, x, lo, hi)
                          /\ hi - lo < Pow2[r]
                          => IsLastNotAbove(h, x, Found(i, lo, hi))
           N == {r \in Nat : r <= MaxRounds => Finds(r)}
<1>1. IsSearch(f, h, x, n)
  BY SearchTableExists
<1>2. ASSUME NEW i \in Nat, NEW lo \in Nat, NEW hi \in Nat,
             i <= MaxRounds, Encloses(h, n, x, lo, hi)
      PROVE  IF i = MaxRounds \/ lo = hi THEN Found(i, lo, hi) = lo
             ELSE LET half == Narrow(h, x, lo, hi)
                  IN  Found(i, lo, hi) = Found(i + 1, half.lo, half.hi)
  <2> DEFINE s == <<i, lo, hi>>
  <2>1. i \in 0..MaxRounds /\ lo \in 0..n /\ hi \in 0..n /\ lo <= hi
    BY <1>2 DEF Encloses, MaxRounds
  <2>2. s \in SearchDomain(n)
    BY <2>1 DEF SearchDomain
  <2>3. f[s] = SearchRow(f, h, x, s)
    BY <1>1, <2>2 DEF IsSearch
  <2>4. s[1] = i /\ s[2] = lo /\ s[3] = hi
    OBVIOUS
  <2> HIDE DEF s
  <2>5. f[s] = IF i = MaxRounds \/ lo >= hi THEN lo
               ELSE LET half == Narrow(h, x, lo, hi)
                    IN  f[<<i + 1, half.lo, half.hi>>]
    BY <2>3, <2>4 DEF SearchRow
  <2>6. lo >= hi <=> lo = hi
    BY <2>1
  <2> HIDE DEF f
  <2> QED
    BY <2>5, <2>6 DEF s
<1>3. \A e : Encloses(h, n, x, e, e) => IsLastNotAbove(h, x, e)
  BY DEF Encloses, IsLastNotAbove
<1> HIDE DEF Found
<1>4. 0 \in N
  <2> SUFFICES ASSUME NEW i \in Nat, NEW lo \in Nat, NEW hi \in Nat, i + 0 = MaxRounds,
                      Encloses(h, n, x, lo, hi), hi - lo < Pow2[0]
               PROVE  IsLastNotAbove(h, x, Found(i, lo, hi))
    OBVIOUS
  <2>1. lo = hi /\ i = MaxRounds
    BY Pow2Facts DEF Encloses, MaxRounds
  <2>2. Found(i, lo, hi) = lo
    BY <1>2, <2>1 DEF MaxRounds
  <2>3. Encloses(h, n, x, lo, lo)
    BY <2>1
  <2> QED
    BY <1>3, <2>2, <2>3
<1>5. ASSUME NEW r \in Nat, r \in N PROVE r + 1 \in N
  <2> SUFFICES ASSUME NEW i \in Nat, NEW lo \in Nat, NEW hi \in Nat,
                      i + (r + 1) = MaxRounds,
                      Encloses(h, n, x, lo, hi), hi - lo < Pow2[r + 1]
               PROVE  IsLastNotAbove(h, x, Found(i, lo, hi))
    BY <1>5
  <2>1. i < MaxRounds /\ i <= MaxRounds /\ i # MaxRounds /\ r < MaxRounds /\ lo <= hi
    BY DEF MaxRounds, Encloses
  <2>2. CASE lo = hi
    <3>1. Found(i, lo, hi) = lo
      BY <1>2, <2>1, <2>2
    <3>2. Encloses(h, n, x, lo, lo)
      BY <2>2
    <3> QED
      BY <1>3, <3>1, <3>2
  <2>3. CASE lo # hi
    <3> DEFINE half == Narrow(h, x, lo, hi)
    <3>1. lo < hi
      BY <2>1, <2>3
    <3>2. Encloses(h, n, x, half.lo, half.hi) /\ 2 * (half.hi - half.lo) <= hi - lo
      BY <3>1, SearchRoundKeeps
    <3>3. Found(i, lo, hi) = Found(i + 1, half.lo, half.hi)
      BY <1>2, <2>1, <2>3
    <3> HIDE DEF half
    <3>4. half.lo \in Nat /\ half.hi \in Nat
      BY <3>2 DEF Encloses
    <3>5. half.hi - half.lo < Pow2[r]
      <4>1. Pow2[r + 1] = 2 * Pow2[r] /\ Pow2[r] \in Nat
        BY <2>1, Pow2Facts
      <4> DEFINE gap == half.hi - half.lo
                 p == Pow2[r]
      <4>2. gap \in Int /\ 2 * gap <= hi - lo
        BY <3>2, <3>4
      <4>3. p \in Nat /\ hi - lo < 2 * p
        BY <4>1
      <4> HIDE DEF gap, p
      <4>4. gap < p
        BY <4>2, <4>3
      <4> QED
        BY <4>4 DEF gap, p
    <3>6. Finds(r) /\ i + 1 \in Nat /\ (i + 1) + r = MaxRounds
      BY <1>5, <2>1 DEF MaxRounds
    <3> QED
      BY <3>2, <3>3, <3>4, <3>5, <3>6
  <2> QED
    BY <2>2, <2>3
<1>6. Finds(MaxRounds)
  <2>1. Nat \subseteq N
    <3> HIDE DEF N
    <3> QED
      BY <1>4, <1>5, NatSetInduction
  <2> QED
    BY <2>1 DEF MaxRounds
<1>7. Encloses(h, n, x, 0, n)
  BY DEF Encloses
<1>8. IsLastNotAbove(h, x, Found(0, 0, n))
  BY <1>6, <1>7 DEF MaxRounds
<1> QED
  BY <1>8, SearchIsOfTable DEF Found, f
-----------------------------------------------------------------------------
(* The search by time of past votes.                                        *)

VotesDomain(n) == (0..n) \X (0..n)

\* What the loop finds between s[1] and s[2], given what it finds in less.
VotesRow(f, h, x, s) ==
    IF s[2] <= s[1] THEN s[1]
    ELSE LET center == Center(s[1], s[2])
         IN  IF h[center] = x THEN center
             ELSE IF h[center] < x THEN f[<<center, s[2]>>]
             ELSE f[<<s[1], s[2] - 1>>]

IsVotesSearch(f, h, x, n) == f = [s \in VotesDomain(n) |-> VotesRow(f, h, x, s)]

VotesTable(h, x, n) == CHOOSE f : IsVotesSearch(f, h, x, n)

\* The entries before the search and the table that the loop computes.
LEMMA VotesIndexIsOfTable ==
    ASSUME NEW h, NEW x, NEW n
    PROVE  PastVotesIndex(h, n, x) =
             IF n = 0 THEN 0
             ELSE IF h[n - 1] <= x THEN n - 1
             ELSE IF h[0] > x THEN 0
             ELSE VotesTable(h, x, n)[<<0, n - 1>>]
BY DEF PastVotesIndex, VotesTable, IsVotesSearch, VotesRow, VotesDomain

\* The middle is above the lower bound and at most the upper one.
LEMMA CenterFacts ==
    ASSUME NEW lo \in Nat, NEW hi \in Nat, lo < hi
    PROVE  Center(lo, hi) \in Nat /\ lo < Center(lo, hi) /\ Center(lo, hi) <= hi
BY DEF Center

\* A round either ends, or goes on between bounds that are nearer.
LEMMA VotesRowLooksCloser ==
    ASSUME NEW n \in Nat, NEW h, NEW x, NEW s \in VotesDomain(n)
    PROVE  \/ \A f, g : VotesRow(f, h, x, s) = VotesRow(g, h, x, s)
           \/ \E u \in VotesDomain(n) :
                 /\ u[2] - u[1] < s[2] - s[1]
                 /\ s[1] < s[2]
                 /\ \A f : VotesRow(f, h, x, s) = f[u]
<1> DEFINE center == Center(s[1], s[2])
<1>1. s[1] \in 0..n /\ s[2] \in 0..n /\ s[1] \in Nat /\ s[2] \in Nat
  BY DEF VotesDomain
<1>2. CASE s[2] <= s[1]
  BY <1>2 DEF VotesRow
<1>3. CASE ~(s[2] <= s[1])
  <2>1. s[1] < s[2]
    BY <1>1, <1>3
  <2>2. center \in Nat /\ s[1] < center /\ center <= s[2]
    BY <1>1, <2>1, CenterFacts
  <2>3. ASSUME NEW f
        PROVE  VotesRow(f, h, x, s) = IF h[center] = x THEN center
                                      ELSE IF h[center] < x THEN f[<<center, s[2]>>]
                                      ELSE f[<<s[1], s[2] - 1>>]
    BY <1>3 DEF VotesRow
  <2> HIDE DEF center
  <2>4. CASE h[center] = x
    BY <2>3, <2>4
  <2>5. CASE h[center] # x /\ h[center] < x
    <3> DEFINE u == <<center, s[2]>>
    <3>1. u \in VotesDomain(n)
      BY <1>1, <2>2 DEF VotesDomain
    <3>2. u[2] - u[1] < s[2] - s[1]
      BY <1>1, <2>2
    <3>3. \A f : VotesRow(f, h, x, s) = f[u]
      BY <2>3, <2>5
    <3> QED
      BY <2>1, <3>1, <3>2, <3>3
  <2>6. CASE h[center] # x /\ ~(h[center] < x)
    <3> DEFINE u == <<s[1], s[2] - 1>>
    <3>1. u \in VotesDomain(n)
      BY <1>1, <2>1 DEF VotesDomain
    <3>2. u[2] - u[1] < s[2] - s[1]
      BY <1>1
    <3>3. \A f : VotesRow(f, h, x, s) = f[u]
      BY <2>3, <2>6
    <3> QED
      BY <2>1, <3>1, <3>2, <3>3
  <2> QED
    BY <2>4, <2>5, <2>6
<1> QED
  BY <1>2, <1>3

\* The recursion defines a function: the table can be filled in for bounds ever
\* further apart.
LEMMA VotesTableExists ==
    ASSUME NEW n \in Nat, NEW h, NEW x
    PROVE  IsVotesSearch(VotesTable(h, x, n), h, x, n)
<1> DEFINE D == VotesDomain(n)
           Round(f, s) == VotesRow(f, h, x, s)
           Filled(g, m) == \A s \in D : s[2] - s[1] <= m => g[s] = Round(g, s)
           N == {m \in Nat : \E g : Filled(g, m)}
<1>1. \A s \in D : s[1] \in Nat /\ s[2] \in Nat /\ s[2] - s[1] \in Int /\ s[2] - s[1] <= n
  BY DEF VotesDomain
<1>2. ASSUME NEW s \in D
      PROVE  \/ \A f, g : Round(f, s) = Round(g, s)
             \/ \E u \in D : /\ u[2] - u[1] < s[2] - s[1]
                             /\ s[1] < s[2]
                             /\ \A f : Round(f, s) = f[u]
  BY VotesRowLooksCloser
<1> HIDE DEF D, Round
<1>3. 0 \in N
  <2> DEFINE none == [s \in D |-> 0]
             g == [s \in D |-> Round(none, s)]
  <2>1. ASSUME NEW s \in D, s[2] - s[1] <= 0 PROVE g[s] = Round(g, s)
    <3>1. \A f, k : Round(f, s) = Round(k, s)
      BY <1>1, <1>2, <2>1
    <3> HIDE DEF none
    <3> QED
      BY <3>1
  <2>2. Filled(g, 0)
    BY <2>1
  <2> HIDE DEF g
  <2> QED
    BY <2>2
<1>4. ASSUME NEW m \in Nat, m \in N PROVE m + 1 \in N
  <2>1. PICK g : Filled(g, m)
    BY <1>4
  <2> DEFINE k == [s \in D |-> IF s[2] - s[1] <= m THEN g[s] ELSE Round(g, s)]
  <2>2. ASSUME NEW s \in D, s[2] - s[1] <= m + 1
        PROVE  k[s] = Round(k, s)
    <3>1. k[s] = Round(g, s)
      BY <2>1
    <3>2. ASSUME NEW u \in D, u[2] - u[1] < s[2] - s[1] PROVE k[u] = g[u]
      <4>1. u[2] - u[1] <= m
        BY <1>1, <1>4, <2>2, <3>2
      <4> QED
        BY <4>1
    <3> HIDE DEF k
    <3>3. Round(k, s) = Round(g, s)
      BY <1>2, <3>2
    <3> QED
      BY <3>1, <3>3
  <2>3. Filled(k, m + 1)
    BY <2>2
  <2> HIDE DEF k, Filled
  <2>4. \E f : Filled(f, m + 1)
    BY <2>3
  <2> QED
    BY <1>4, <2>4
<1>5. n \in N
  <2> HIDE DEF N
  <2> QED
    BY <1>3, <1>4, NatSetInduction
<1>6. PICK g : Filled(g, n)
  BY <1>5
<1> DEFINE f == [s \in D |-> g[s]]
<1>7. ASSUME NEW s \in D PROVE f[s] = Round(f, s)
  <2>1. f[s] = g[s] /\ g[s] = Round(g, s)
    BY <1>1, <1>6
  <2>2. \A u \in D : f[u] = g[u]
    OBVIOUS
  <2> HIDE DEF f
  <2>3. Round(f, s) = Round(g, s)
    BY <1>2, <2>2
  <2> QED
    BY <2>1, <2>3
<1>8. f = [s \in D |-> Round(f, s)]
  BY <1>7
<1>9. IsVotesSearch(f, h, x, n)
  BY <1>8 DEF IsVotesSearch, D, Round
<1> HIDE DEF f
<1>10. \E k : IsVotesSearch(k, h, x, n)
  BY <1>9
<1> QED
  BY ONLY <1>10, Zenon DEF VotesTable

\* _get_past_votes_index, in an ascending history of any length, finds an entry
\* of the time asked for or else the last one before it, though a round that
\* looks too late gives up only its last entry.
THEOREM PastVotesIndexFinds ==
    ASSUME NEW n \in Nat \ {0}, NEW h \in [0..(n - 1) -> Int], Ascending(h), NEW x \in Int
    PROVE  IsIndexAt(h, x, PastVotesIndex(h, n, x))
<1> DEFINE f == VotesTable(h, x, n)
           Found(lo, hi) == f[<<lo, hi>>]
           Within(lo, hi) == /\ lo \in 0..(n - 1) /\ hi \in 0..(n - 1)
                             /\ lo <= hi
                             /\ h[lo] <= x
                             /\ \A i \in 0..(n - 1) : i > hi => h[i] > x
           N == {r \in Nat : \A lo, hi \in Nat :
                   Within(lo, hi) /\ hi - lo <= r => IsIndexAt(h, x, Found(lo, hi))}
<1>1. IsVotesSearch(f, h, x, n)
  BY VotesTableExists
<1>2. \A i \in 0..(n - 1) : h[i] \in Int
  OBVIOUS
<1>3. ASSUME NEW lo \in Nat, NEW hi \in Nat, Within(lo, hi)
      PROVE  Found(lo, hi) =
               IF hi <= lo THEN lo
               ELSE IF h[Center(lo, hi)] = x THEN Center(lo, hi)
               ELSE IF h[Center(lo, hi)] < x THEN Found(Center(lo, hi), hi)
               ELSE Found(lo, hi - 1)
  <2> DEFINE s == <<lo, hi>>
  <2>1. s \in VotesDomain(n)
    BY <1>3 DEF VotesDomain
  <2>2. f[s] = VotesRow(f, h, x, s)
    BY <1>1, <2>1 DEF IsVotesSearch
  <2>3. s[1] = lo /\ s[2] = hi
    OBVIOUS
  <2> HIDE DEF s, f
  <2>4. f[s] = IF hi <= lo THEN lo
               ELSE IF h[Center(lo, hi)] = x THEN Center(lo, hi)
               ELSE IF h[Center(lo, hi)] < x THEN f[<<Center(lo, hi), hi>>]
               ELSE f[<<lo, hi - 1>>]
    BY <2>2, <2>3 DEF VotesRow
  <2> QED
    BY <2>4 DEF s
<1>4. ASSUME NEW e \in Nat, Within(e, e) PROVE IsIndexAt(h, x, e)
  BY <1>4 DEF IsIndexAt, IsLastNotAbove
<1> HIDE DEF Found
<1>5. 0 \in N
  <2> SUFFICES ASSUME NEW lo \in Nat, NEW hi \in Nat, Within(lo, hi), hi - lo <= 0
               PROVE  IsIndexAt(h, x, Found(lo, hi))
    OBVIOUS
  <2>1. lo = hi /\ hi <= lo
    OBVIOUS
  <2>2. Found(lo, hi) = lo
    BY <1>3, <2>1
  <2>3. Within(lo, lo)
    BY <2>1
  <2> HIDE DEF Within
  <2> QED
    BY <1>4, <2>2, <2>3
<1>6. ASSUME NEW r \in Nat, r \in N PROVE r + 1 \in N
  <2> SUFFICES ASSUME NEW lo \in Nat, NEW hi \in Nat, Within(lo, hi), hi - lo <= r + 1
               PROVE  IsIndexAt(h, x, Found(lo, hi))
    OBVIOUS
  <2> DEFINE center == Center(lo, hi)
  <2>1. CASE hi <= lo
    <3>1. Within(lo, lo) /\ Found(lo, hi) = lo
      BY <1>3, <2>1
    <3> HIDE DEF Within
    <3> QED
      BY <1>4, <3>1
  <2>2. CASE ~(hi <= lo)
    <3>1. center \in Nat /\ lo < center /\ center <= hi
      BY <2>2, CenterFacts
    <3>2. Found(lo, hi) = IF h[center] = x THEN center
                          ELSE IF h[center] < x THEN Found(center, hi)
                          ELSE Found(lo, hi - 1)
      BY <1>3, <2>2
    <3> HIDE DEF center
    <3>3. center \in 0..(n - 1) /\ hi \in 0..(n - 1) /\ hi - 1 \in 0..(n - 1) /\ hi - 1 \in Nat
      BY <2>2, <3>1
    <3>4. CASE h[center] = x
      BY <3>2, <3>3, <3>4 DEF IsIndexAt
    <3>5. CASE h[center] # x /\ h[center] < x
      <4>1. Within(center, hi) /\ hi - center <= r
        BY <1>2, <3>1, <3>3, <3>5
      <4>2. Found(lo, hi) = Found(center, hi)
        BY <3>2, <3>5
      <4> HIDE DEF Within
      <4> QED
        BY <1>6, <3>1, <4>1, <4>2
    <3>6. CASE h[center] # x /\ ~(h[center] < x)
      <4>1. h[center] <= h[hi] /\ h[center] \in Int /\ h[hi] \in Int
        BY <1>2, <3>1, <3>3 DEF Ascending
      <4>2. h[hi] > x
        BY <3>6, <4>1
      <4>3. \A i \in 0..(n - 1) : i > hi - 1 => h[i] > x
        BY <4>2
      <4>4. Within(lo, hi - 1) /\ (hi - 1) - lo <= r
        BY <2>2, <3>3, <4>3
      <4>5. Found(lo, hi) = Found(lo, hi - 1)
        BY <3>2, <3>6
      <4> HIDE DEF Within
      <4> QED
        BY <1>6, <3>3, <4>4, <4>5
    <3> QED
      BY <3>4, <3>5, <3>6
  <2> QED
    BY <2>1, <2>2
<1>7. ASSUME ~(h[n - 1] <= x), ~(h[0] > x) PROVE IsIndexAt(h, x, Found(0, n - 1))
  <2>1. n - 1 \in Nat /\ n - 1 \in N
    <3> HIDE DEF N
    <3> QED
      BY <1>5, <1>6, NatSetInduction
  <2>2. Within(0, n - 1) /\ (n - 1) - 0 <= n - 1
    BY <1>2, <1>7
  <2> HIDE DEF Within
  <2> QED
    BY <2>1, <2>2
<1>8. PastVotesIndex(h, n, x) = IF h[n - 1] <= x THEN n - 1
                                ELSE IF h[0] > x THEN 0
                                ELSE Found(0, n - 1)
  BY VotesIndexIsOfTable DEF Found
<1>9. CASE h[n - 1] <= x
  BY <1>8, <1>9 DEF IsIndexAt, IsLastNotAbove
<1>10. CASE ~(h[n - 1] <= x) /\ h[0] > x
  <2>1. \A i \in 0..(n - 1) : h[i] > x
    BY <1>2, <1>10 DEF Ascending
  <2>2. PastVotesIndex(h, n, x) = 0
    BY <1>8, <1>10
  <2> QED
    BY <2>1, <2>2 DEF IsIndexAt, IsLastNotAbove
<1>11. CASE ~(h[n - 1] <= x) /\ ~(h[0] > x)
  BY <1>7, <1>8, <1>11
<1> QED
  BY <1>9, <1>10, <1>11
=============================================================================
