------------------------------- MODULE Search -------------------------------
(***************************************************************************)
(* The searches of src/ve/src/vedata.rs.  A history is a function from      *)
(* 0 .. n to the block, or the time, of each of its entries.                *)
(***************************************************************************)
EXTENDS Integers

\* The rounds of the search by block.
MaxRounds == 128

Mid(lo, hi) == (lo + hi + 1) \div 2

\* One round: the half of lo .. hi that has the last entry not above x.
Narrow(blk, x, lo, hi) ==
    LET mid == Mid(lo, hi)
    IN  IF blk[mid] <= x THEN [lo |-> mid, hi |-> hi] ELSE [lo |-> lo, hi |-> mid - 1]

\* _find_block_epoch, and the same loop over a token's own points: s is the
\* round, _min and _max.
FindBlockEpoch(blk, x, maxEpoch) ==
    LET from[s \in (0..MaxRounds) \X (0..maxEpoch) \X (0..maxEpoch)] ==
            IF s[1] = MaxRounds \/ s[2] >= s[3] THEN s[2]
            ELSE LET half == Narrow(blk, x, s[2], s[3])
                 IN  from[<<s[1] + 1, half.lo, half.hi>>]
    IN  from[<<0, 0, maxEpoch>>]

Center(lower, upper) == upper - (upper - lower) \div 2

\* _get_past_votes_index, in a history of n entries: s is lower and upper.
\* Where the entry in the middle is too late the search gives up only the last.
PastVotesIndex(ts, n, x) ==
    LET within[s \in (0..n) \X (0..n)] ==
            IF s[2] <= s[1] THEN s[1]
            ELSE LET center == Center(s[1], s[2])
                 IN  IF ts[center] = x THEN center
                     ELSE IF ts[center] < x THEN within[<<center, s[2]>>]
                     ELSE within[<<s[1], s[2] - 1>>]
    IN  IF n = 0 THEN 0
        ELSE IF ts[n - 1] <= x THEN n - 1
        ELSE IF ts[0] > x THEN 0
        ELSE within[<<0, n - 1>>]

-----------------------------------------------------------------------------
(* What a search should find.                                               *)

Ascending(h) == \A i, j \in DOMAIN h : i <= j => h[i] <= h[j]

\* Entry e is the last one not above x, or the first if all are above.
IsLastNotAbove(h, x, e) ==
    /\ e \in DOMAIN h
    /\ e = 0 \/ h[e] <= x
    /\ \A i \in DOMAIN h : i > e => h[i] > x

\* Entry e is one of time x or, where there is none, the last one before x;
\* it is the first if all are later.
IsIndexAt(h, x, e) ==
    /\ e \in DOMAIN h
    /\ h[e] = x \/ IsLastNotAbove(h, x, e)
=============================================================================
