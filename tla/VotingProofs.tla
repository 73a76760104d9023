---------------------------- MODULE VotingProofs ----------------------------
(***************************************************************************)
(* Proofs about DAO voting: it drives the ledger only through the ledger's  *)
(* operations, so that what is proved of the ledger holds with voting on    *)
(* top; how often a token votes, how it comes to, and when it cannot stop.  *)
(***************************************************************************)
EXTENDS VotingHistory, NFTProofs, SumTheorems

-----------------------------------------------------------------------------
(* Types.                                                                   *)

\* The vectors of tokens, by how often each token is in them.
CheckPoints == [Token -> Nat]

\* The latest checkpoint of a history is a checkpoint.
LEMMA LastOfType ==
    ASSUME NEW h \in Seq(CheckPoints)
    PROVE  LastOf(h) \in CheckPoints
<1>1. CASE h = <<>>
  BY <1>1 DEF LastOf, Nothing, CheckPoints
<1>2. CASE h # <<>>
  <2>1. Len(h) \in 1..Len(h)
    BY <1>2
  <2>2. h[Len(h)] \in CheckPoints
    BY <2>1
  <2> QED
    BY <1>2, <2>2 DEF LastOf
<1> QED
  BY <1>1, <1>2

\* Taking tokens out of a checkpoint leaves a checkpoint.
LEMMA WithoutType ==
    ASSUME NEW cp \in CheckPoints, NEW S
    PROVE  Without(cp, S) \in CheckPoints
BY DEF Without, CheckPoints

\* What a key holds is a checkpoint.
LEMMA HeldByType ==
    ASSUME NEW k \in Key, owned.balances[k] \in Nat
    PROVE  HeldBy(k) \in CheckPoints
<1>1. ASSUME NEW t \in Token
      PROVE  Cardinality({i \in 0..(owned.balances[k] - 1) : owned.tokens[<<k, i>>] = t}) \in Nat
  <2>1. IsFiniteSet(0..(owned.balances[k] - 1))
    BY FS_Interval
  <2>2. IsFiniteSet({i \in 0..(owned.balances[k] - 1) : owned.tokens[<<k, i>>] = t})
    BY <2>1, FS_Subset
  <2> QED
    BY <2>2, FS_CardinalityType
<1> QED
  BY <1>1 DEF HeldBy, CheckPoints

\* Moving one token's vote keeps the type of the histories.
LEMMA TokenMovedType ==
    ASSUME NEW cps \in [Account -> Seq(CheckPoints)],
           NEW src \in Account, NEW dst \in Account, NEW t
    PROVE  TokenMoved(cps, src, dst, t) \in [Account -> Seq(CheckPoints)]
<1>1. CASE src = dst
  BY <1>1 DEF TokenMoved
<1>2. CASE src # dst
  <2> DEFINE x == Append(cps[src], Without(LastOf(cps[src]), {t}))
             y == Append(cps[dst], Without(LastOf(cps[dst]), {t}))
  <2>1. x \in Seq(CheckPoints) /\ y \in Seq(CheckPoints)
    BY LastOfType, WithoutType
  <2>2. TokenMoved(cps, src, dst, t) = [[cps EXCEPT ![src] = x] EXCEPT ![dst] = y]
    BY <1>2 DEF TokenMoved
  <2> HIDE DEF x, y
  <2> QED
    BY <2>1, <2>2
<1> QED
  BY <1>1, <1>2

\* The type of the state of voting, on top of the ledger's invariant.
VotingInv ==
    /\ NFTInv
    /\ delegate \in [Key -> Account]
    /\ checkpoints \in [Account -> Seq(CheckPoints)]

\* Moving all votes of a key keeps the type of the histories.
LEMMA AllVotesMovedType ==
    ASSUME VotingInv, NEW k \in Key, NEW src \in Account, NEW dst \in Account
    PROVE  AllVotesMoved(k, src, dst) \in [Account -> Seq(CheckPoints)]
<1>1. CASE src = dst
  BY <1>1 DEF AllVotesMoved, VotingInv
<1>2. CASE src # dst
  <2> DEFINE x == Append(checkpoints[src],
                         Without(LastOf(checkpoints[src]),
                                 {t \in DOMAIN owners : owners[t] = k}))
             y == Append(checkpoints[dst], Plus(LastOf(checkpoints[dst]), HeldBy(k)))
  <2>1. checkpoints[src] \in Seq(CheckPoints) /\ checkpoints[dst] \in Seq(CheckPoints)
    BY DEF VotingInv
  <2>2. x \in Seq(CheckPoints)
    BY <2>1, LastOfType, WithoutType
  <2>3. HeldBy(k) \in CheckPoints
    <3>1. owned.balances[k] \in Nat
      BY DEF VotingInv, NFTInv, NFTTypeOK, OwnedTypeOK
    <3> QED
      BY <3>1, HeldByType
  <2>4. Plus(LastOf(checkpoints[dst]), HeldBy(k)) \in CheckPoints
    <3>1. LastOf(checkpoints[dst]) \in CheckPoints
      BY <2>1, LastOfType
    <3> QED
      BY <2>3, <3>1 DEF Plus, CheckPoints
  <2>5. y \in Seq(CheckPoints)
    BY <2>1, <2>4
  <2>6. AllVotesMoved(k, src, dst) = [[checkpoints EXCEPT ![src] = x] EXCEPT ![dst] = y]
    BY <1>2 DEF AllVotesMoved
  <2> HIDE DEF x, y
  <2> QED
    BY <2>2, <2>5, <2>6 DEF VotingInv
<1> QED
  BY <1>1, <1>2

-----------------------------------------------------------------------------
(* The invariant.                                                           *)

\* The constructor's state satisfies the invariant.
LEMMA InitVotingInv == VotingInit => VotingInv
<1> SUFFICES ASSUME VotingInit PROVE VotingInv
  OBVIOUS
<1>1. NFTInv
  BY InitNFTInv DEF VotingInit
<1>2. delegate \in [Key -> Account]
  BY DEF VotingInit, Account
<1>3. checkpoints \in [Account -> Seq(CheckPoints)]
  BY DEF VotingInit
<1> QED
  BY <1>1, <1>2, <1>3 DEF VotingInv

\* Every step of voting keeps the invariant.
LEMMA NextVotingInv == VotingInv /\ [VotingNext]_votingVars => VotingInv'
<1> SUFFICES ASSUME VotingInv, [VotingNext]_votingVars PROVE VotingInv'
  OBVIOUS
<1>1. CASE UNCHANGED votingVars
  <2>1. NFTInv'
    BY <1>1, NextNFTInv DEF VotingInv, votingVars
  <2> QED
    BY <1>1, <2>1 DEF VotingInv, votingVars
<1>2. CASE VotingNext
  <2>1. PICK c \in Key :
          \/ \E delegatee \in Account : Delegate(c, delegatee)
          \/ \E to \in Key : CreateLock(c, to)
          \/ \E from, to \in Token : Merge(c, from, to)
          \/ \E spender \in Key, batch \in Batch : Approval(c, spender, batch)
          \/ \E owner, recipient \in Key, batch \in Batch :
                 Transfer(c, owner, recipient, batch)
          \/ \E t \in Token, meta \in Metas : UpdateTokenMeta(c, t, meta)
    BY <1>2 DEF VotingNext
  <2>2. CASE \E delegatee \in Account : Delegate(c, delegatee)
    <3>1. PICK delegatee \in Account : Delegate(c, delegatee)
      BY <2>2
    <3>2. NFTInv'
      BY <3>1 DEF VotingInv, Delegate, NFTInv, NFTTypeOK,
                  EnumerationMatchesOwnership, SupplyIsLiveTokens
    <3>3. delegate[c] \in Account
      BY DEF VotingInv
    <3>4. checkpoints' \in [Account -> Seq(CheckPoints)]
      BY <3>1, <3>3, AllVotesMovedType DEF Delegate
    <3> QED
      BY <3>1, <3>2, <3>4 DEF VotingInv, Delegate
  <2>3. CASE \E to \in Key : CreateLock(c, to)
    <3>1. PICK to \in Key : CreateLock(c, to)
      BY <2>3
    <3>2. NFTInv'
      <4>1. NFTNext
        BY <3>1 DEF CreateLock, NFTNext
      <4> QED
        BY <4>1, NextNFTInv DEF VotingInv
    <3>3. checkpoints' \in [Account -> Seq(CheckPoints)]
      <4>1. NullKey \in Account /\ delegate[to] \in Account
        BY DEF VotingInv, Account
      <4> QED
        BY <3>1, <4>1, TokenMovedType DEF CreateLock, VotingInv
    <3> QED
      BY <3>1, <3>2, <3>3 DEF VotingInv, CreateLock
  <2>4. CASE \E from, to \in Token : Merge(c, from, to)
    <3>1. PICK from \in Token, to \in Token : Merge(c, from, to)
      BY <2>4
    <3>2. NFTInv'
      <4>1. NFTNext
        BY <3>1 DEF Merge, NFTNext
      <4> QED
        BY <4>1, NextNFTInv DEF VotingInv
    <3>3. checkpoints' \in [Account -> Seq(CheckPoints)]
      <4>1. owners[from] \in Key
        BY <3>1 DEF Merge, Burn, IsApprovedOrOwner, DictHas, VotingInv, NFTInv, NFTTypeOK, IsDict
      <4>2. NullKey \in Account /\ owners[from] \in Account /\ delegate[owners[from]] \in Account
        BY <4>1 DEF VotingInv, Account
      <4>3. TokenMoved(checkpoints, owners[from], NullKey, from) \in [Account -> Seq(CheckPoints)]
        BY <4>2, TokenMovedType DEF VotingInv
      <4> QED
        BY <3>1, <4>2, <4>3, TokenMovedType DEF Merge
    <3> QED
      BY <3>1, <3>2, <3>3 DEF VotingInv, Merge
  <2>5. ASSUME NFTNext, UNCHANGED <<delegate, checkpoints>>
        PROVE  VotingInv'
    <3>1. NFTInv'
      BY <2>5, NextNFTInv DEF VotingInv
    <3> QED
      BY <2>5, <3>1 DEF VotingInv
  <2>6. CASE \E spender \in Key, batch \in Batch : Approval(c, spender, batch)
    BY <2>5, <2>6 DEF Approval, NFTNext
  <2>7. CASE \E owner, recipient \in Key, batch \in Batch :
                 Transfer(c, owner, recipient, batch)
    BY <2>5, <2>7 DEF Transfer, NFTNext
  <2>8. CASE \E t \in Token, meta \in Metas : UpdateTokenMeta(c, t, meta)
    BY <2>5, <2>8 DEF UpdateTokenMeta, NFTNext
  <2> QED
    BY <2>1, <2>2, <2>3, <2>4, <2>6, <2>7, <2>8
<1> QED
  BY <1>1, <1>2

\* The invariant of voting, the ledger's included, holds in every reachable
\* state.
THEOREM VotingInvariant == VotingSpec => []VotingInv
BY InitVotingInv, NextVotingInv, PTL DEF VotingSpec

\* The state of voting is of its type.
THEOREM VotingTypeCorrect == VotingSpec => []VotingTypeOK
<1>1. VotingInv => VotingTypeOK
  BY DEF VotingInv, VotingTypeOK, NFTInv, CheckPoints
<1> QED
  BY <1>1, VotingInvariant, PTL

\* With voting on top the enumeration of tokens still matches their owners, so
\* the tokens that _move_all_delegates reads from it are those the key owns.
THEOREM VotingKeepsEnumeration == VotingSpec => []EnumerationMatchesOwnership
<1>1. VotingInv => EnumerationMatchesOwnership
  BY DEF VotingInv, NFTInv
<1> QED
  BY <1>1, VotingInvariant, PTL

-----------------------------------------------------------------------------
(* Vectors of tokens and their sizes.                                       *)

\* Appending to a history makes the appended checkpoint the latest.
LEMMA LastOfAppended ==
    ASSUME NEW h \in Seq(CheckPoints), NEW cp \in CheckPoints
    PROVE  LastOf(Append(h, cp)) = cp
<1> DEFINE n == Len(h)
           longer == Append(h, cp)
<1>1. n \in Nat /\ Len(longer) = n + 1 /\ longer[n + 1] = cp /\ longer # <<>>
  OBVIOUS
<1> HIDE DEF longer
<1>2. LastOf(longer) = cp
  BY <1>1 DEF LastOf
<1> QED
  BY <1>2 DEF longer

\* A checkpoint without one token.
Dropped(cp, t) == Without(cp, {t})

\* A checkpoint all the same.
LEMMA DroppedType ==
    ASSUME NEW cp \in CheckPoints, NEW t
    PROVE  Dropped(cp, t) \in CheckPoints
BY WithoutType DEF Dropped

\* The latest checkpoint, of an account, after one token's vote was moved.
LEMMA TokenMovedHere ==
    ASSUME NEW cps \in [Account -> Seq(CheckPoints)],
           NEW src \in Account, NEW dst \in Account, NEW t, NEW a \in Account,
           src # dst, a \in {src, dst}
    PROVE  LastOf(TokenMoved(cps, src, dst, t)[a]) = Dropped(LastOf(cps[a]), t)
<1> DEFINE cp == Dropped(LastOf(cps[a]), t)
<1>1. TokenMoved(cps, src, dst, t)[a] = Append(cps[a], cp)
  BY DEF TokenMoved, Dropped
<1>2. cps[a] \in Seq(CheckPoints) /\ cp \in CheckPoints
  BY LastOfType, DroppedType
<1> HIDE DEF cp
<1>3. LastOf(TokenMoved(cps, src, dst, t)[a]) = cp
  BY <1>1, <1>2, LastOfAppended
<1> QED
  BY <1>3 DEF cp

\* The other accounts keep theirs.
LEMMA TokenMovedElsewhere ==
    ASSUME NEW cps \in [Account -> Seq(CheckPoints)],
           NEW src \in Account, NEW dst \in Account, NEW t, NEW a \in Account,
           src = dst \/ a \notin {src, dst}
    PROVE  TokenMoved(cps, src, dst, t)[a] = cps[a]
BY DEF TokenMoved

\* The tokens a key owns.
OwnedBy(k) == {t \in DOMAIN owners : owners[t] = k}

\* Plus adds two vectors into one.
LEMMA PlusType ==
    ASSUME NEW cp \in CheckPoints, NEW more \in CheckPoints
    PROVE  Plus(cp, more) \in CheckPoints
BY DEF Plus, CheckPoints

\* The latest checkpoints after all votes of a key were moved.
LEMMA AllVotesMovedLast ==
    ASSUME VotingInv, NEW k \in Key, NEW src \in Account, NEW dst \in Account,
           NEW a \in Account
    PROVE  LastOf(AllVotesMoved(k, src, dst)[a])
             = IF src = dst \/ a \notin {src, dst} THEN Last(a)
               ELSE IF a = dst THEN Plus(Last(a), HeldBy(k))
               ELSE Without(Last(a), OwnedBy(k))
<1>1. CASE src = dst
  BY <1>1 DEF AllVotesMoved, Last
<1>2. CASE src # dst /\ a \notin {src, dst}
  <2>1. AllVotesMoved(k, src, dst)[a] = checkpoints[a]
    BY <1>2 DEF AllVotesMoved, VotingInv
  <2> QED
    BY <1>2, <2>1 DEF Last
<1>3. CASE src # dst /\ a \in {src, dst}
  <2> DEFINE cp == IF a = dst THEN Plus(Last(a), HeldBy(k)) ELSE Without(Last(a), OwnedBy(k))
  <2>1. AllVotesMoved(k, src, dst)[a] = Append(checkpoints[a], cp)
    BY <1>3 DEF AllVotesMoved, VotingInv, Last, OwnedBy
  <2>2. checkpoints[a] \in Seq(CheckPoints)
    BY DEF VotingInv
  <2>3. Last(a) \in CheckPoints
    BY <2>2, LastOfType DEF Last
  <2>4. HeldBy(k) \in CheckPoints
    BY HeldByType DEF VotingInv, NFTInv, NFTTypeOK, OwnedTypeOK
  <2>5. cp \in CheckPoints
    BY <2>3, <2>4, WithoutType, PlusType
  <2> HIDE DEF cp
  <2>6. LastOf(AllVotesMoved(k, src, dst)[a]) = cp
    BY <2>1, <2>2, <2>5, LastOfAppended
  <2> QED
    BY <1>3, <2>6 DEF cp
<1> QED
  BY <1>1, <1>2, <1>3

\* The model has finitely many token ids.
LEMMA TokensFinite == IsFiniteSet(Token)
BY NFTAssumption, FS_Interval DEF Token

\* A vector has a size.
LEMMA SizeType ==
    ASSUME NEW cp \in CheckPoints
    PROVE  Size(cp) \in Nat
BY TokensFinite, SumIsNat DEF Size, CheckPoints

\* Leaving tokens out makes a vector no longer.
LEMMA SizeWithout ==
    ASSUME NEW cp \in CheckPoints, NEW S
    PROVE  Size(Without(cp, S)) <= Size(cp)
<1> DEFINE less == Without(cp, S)
<1>1. \A t \in Token : less[t] \in Int /\ cp[t] \in Int /\ less[t] <= cp[t]
  BY DEF Without, CheckPoints
<1> HIDE DEF less
<1>2. SumFunctionOnSet(less, Token) <= SumFunctionOnSet(cp, Token)
  BY <1>1, TokensFinite, SumAtMost
<1> QED
  BY <1>2 DEF less, Size

\* Vectors put together are as long as both.
LEMMA SizePlus ==
    ASSUME NEW cp \in CheckPoints, NEW more \in CheckPoints
    PROVE  Size(Plus(cp, more)) = Size(cp) + Size(more)
<1> DEFINE both == Plus(cp, more)
<1>1. \A t \in Token : /\ cp[t] \in Int /\ more[t] \in Int /\ both[t] \in Int
                       /\ both[t] = cp[t] + 1 * more[t]
  BY DEF Plus, CheckPoints
<1> HIDE DEF both
<1>2. SumFunctionOnSet(both, Token)
        = SumFunctionOnSet(cp, Token) + 1 * SumFunctionOnSet(more, Token)
  <2>1. 1 \in Int
    OBVIOUS
  <2> QED
    BY <1>1, <2>1, TokensFinite, SumLinear
<1>3. Size(cp) \in Nat /\ Size(more) \in Nat
  BY SizeType
<1> QED
  BY <1>2, <1>3 DEF both, Size

\* What the enumeration lists for a key is each token that it owns, once.
LEMMA HeldByOnce ==
    ASSUME NFTInv, NEW k \in Key, NEW t \in Token
    PROVE  HeldBy(k)[t] = IF t \in OwnedBy(k) THEN 1 ELSE 0
<1> DEFINE S == {i \in 0..(owned.balances[k] - 1) : owned.tokens[<<k, i>>] = t}
<1>1. HeldBy(k)[t] = Cardinality(S)
  BY DEF HeldBy
<1>2. t \in OwnedBy(k) <=> S # {}
  <2>1. OwnedBy(k) = Enumerated(k)
    BY EnumeratedIsHeld DEF Held, OwnedBy
  <2>2. t \in Enumerated(k)
          <=> \E i \in 0..(owned.balances[k] - 1) : owned.tokens[<<k, i>>] = t
    BY DEF Enumerated
  <2> QED
    BY <2>1, <2>2
<1>3. ASSUME NEW i \in S PROVE i = owned.indexes[<<k, t>>]
  <2>1. owned.tokens[<<k, i>>] = t /\ <<k, i>> \in DOMAIN owned.tokens
    BY <1>3 DEF NFTInv, EnumerationMatchesOwnership, Enumerates, SlotsAreOwnedTokens
  <2> QED
    BY <2>1 DEF NFTInv, EnumerationMatchesOwnership, Enumerates, SlotsAreOwnedTokens
<1> HIDE DEF S
<1>4. CASE S = {}
  BY <1>1, <1>2, <1>4, FS_EmptySet
<1>5. CASE S # {}
  <2>1. S = {owned.indexes[<<k, t>>]}
    BY <1>3, <1>5
  <2> QED
    BY <1>1, <1>2, <1>5, <2>1, FS_Singleton
<1> QED
  BY <1>4, <1>5

\* A key holds as many tokens as its balance says, no more.
LEMMA SizeOfHeld ==
    ASSUME NFTInv, NEW k \in Key
    PROVE  Size(HeldBy(k)) <= owned.balances[k]
<1> DEFINE n == owned.balances[k]
           slots == 0..(n - 1)
           f == [i \in slots |-> owned.tokens[<<k, i>>]]
           tokens == OwnedBy(k)
<1>1. n \in Nat
  BY DEF NFTInv, NFTTypeOK, OwnedTypeOK
<1>2. {f[i] : i \in slots} = tokens
  <2>1. tokens = Enumerated(k)
    BY EnumeratedIsHeld DEF Held, OwnedBy
  <2>2. \A i \in slots : f[i] = owned.tokens[<<k, i>>]
    OBVIOUS
  <2>3. Enumerated(k) = {owned.tokens[<<k, i>>] : i \in slots}
    BY DEF Enumerated
  <2> HIDE DEF f, tokens, slots
  <2>4. {f[i] : i \in slots} = {owned.tokens[<<k, i>>] : i \in slots}
    BY <2>2
  <2> QED
    BY <2>1, <2>3, <2>4
<1>3. f \in [slots -> tokens]
  BY <1>2
<1> HIDE DEF tokens, f
<1>4. f \in Surjection(slots, tokens)
  BY <1>2, <1>3 DEF Surjection
<1>5. IsFiniteSet(slots) /\ Cardinality(slots) = n
  <2> HIDE DEF n
  <2>1. 0 \in Int /\ n - 1 \in Int /\ (0 > n - 1 <=> n = 0) /\ (n - 1) - 0 + 1 = n
    BY <1>1
  <2> QED
    BY <2>1, FS_Interval
<1>6. Cardinality(tokens) <= n
  BY <1>4, <1>5, FS_Surjection
<1>7. Size(HeldBy(k)) = Cardinality(tokens)
  <2>1. tokens \subseteq Token
    BY DEF tokens, OwnedBy, NFTInv, NFTTypeOK, IsDict
  <2> DEFINE h == HeldBy(k)
  <2>2. \A t \in Token : h[t] = IF t \in tokens THEN 1 ELSE 0
    BY HeldByOnce DEF tokens
  <2> HIDE DEF h
  <2>3. SumFunctionOnSet(h, Token) = Cardinality(tokens)
    BY <2>1, <2>2, TokensFinite, SumCounts
  <2> QED
    BY <2>3 DEF h, Size
<1> QED
  BY <1>6, <1>7

-----------------------------------------------------------------------------
(* MAX_DELEGATES.                                                           *)

\* The checkpoints that the latest ones may turn into.
LEMMA LastType ==
    ASSUME VotingInv, NEW a \in Account
    PROVE  Last(a) \in CheckPoints
BY LastOfType DEF VotingInv, Last

\* A step that moves one token's vote makes no vector longer.
LEMMA TokenMovedSize ==
    ASSUME NEW cps \in [Account -> Seq(CheckPoints)],
           NEW src \in Account, NEW dst \in Account, NEW t, NEW a \in Account
    PROVE  Size(LastOf(TokenMoved(cps, src, dst, t)[a])) <= Size(LastOf(cps[a]))
<1> DEFINE cp == LastOf(cps[a])
<1>1. cp \in CheckPoints
  BY LastOfType
<1>2. \/ LastOf(TokenMoved(cps, src, dst, t)[a]) = cp
      \/ LastOf(TokenMoved(cps, src, dst, t)[a]) = Dropped(cp, t)
  <2>1. CASE src # dst /\ a \in {src, dst}
    BY <2>1, TokenMovedHere
  <2>2. CASE src = dst \/ a \notin {src, dst}
    <3>1. TokenMoved(cps, src, dst, t)[a] = cps[a]
      BY <2>2, TokenMovedElsewhere
    <3> QED
      BY <3>1
  <2> QED
    BY <2>1, <2>2
<1> HIDE DEF cp
<1>3. Size(cp) \in Nat /\ Size(Dropped(cp, t)) <= Size(cp)
  BY <1>1, SizeType, SizeWithout DEF Dropped
<1> QED
  BY <1>2, <1>3 DEF cp

\* Every step keeps the vectors within MAX_DELEGATES.
LEMMA NextWithinMaxDelegates ==
    ASSUME VotingInv, WithinMaxDelegates, [VotingNext]_votingVars
    PROVE  WithinMaxDelegates'
<1>1. \A a \in Account : Size(Last(a)) <= MaxDelegates /\ Size(Last(a)) \in Nat
  BY LastType, SizeType DEF WithinMaxDelegates
<1>2. MaxDelegates \in Nat /\ NullKey \in Account
  BY VotingAssumption DEF Account
<1>3. ASSUME checkpoints' = checkpoints PROVE WithinMaxDelegates'
  BY <1>3 DEF WithinMaxDelegates, Last
<1>4. ASSUME NEW c \in Key, NEW delegatee \in Account, Delegate(c, delegatee)
      PROVE  WithinMaxDelegates'
  <2> SUFFICES ASSUME NEW a \in Account PROVE Size(Last(a)') <= MaxDelegates
    BY DEF WithinMaxDelegates
  <2> DEFINE src == delegate[c]
  <2>1. src \in Account
    BY DEF VotingInv
  <2>2. Last(a)' = LastOf(AllVotesMoved(c, src, delegatee)[a])
    BY <1>4 DEF Delegate, Last
  <2> HIDE DEF src
  <2>3. CASE src = delegatee \/ a \notin {src, delegatee}
    BY <1>1, <2>1, <2>2, <2>3, AllVotesMovedLast
  <2>4. CASE src # delegatee /\ a = delegatee
    <3>1. Last(a)' = Plus(Last(a), HeldBy(c))
      BY <2>1, <2>2, <2>4, AllVotesMovedLast
    <3>2. Size(Last(a)) + owned.balances[c] <= MaxDelegates
      BY <1>4, <2>4 DEF Delegate, CanMoveAllVotes, src
    <3>3. /\ HeldBy(c) \in CheckPoints /\ owned.balances[c] \in Nat
          /\ Size(HeldBy(c)) <= owned.balances[c]
      BY HeldByType, SizeOfHeld DEF VotingInv, NFTInv, NFTTypeOK, OwnedTypeOK
    <3>4. Size(Last(a)') = Size(Last(a)) + Size(HeldBy(c)) /\ Size(HeldBy(c)) \in Nat
      BY <3>1, <3>3, LastType, SizePlus, SizeType
    <3> QED
      BY <1>1, <1>2, <3>2, <3>3, <3>4
  <2>5. CASE src # delegatee /\ a = src
    <3>1. Last(a)' = Without(Last(a), OwnedBy(c))
      BY <2>1, <2>2, <2>5, AllVotesMovedLast
    <3>2. Size(Last(a)') <= Size(Last(a)) /\ Size(Last(a)') \in Nat
      BY <3>1, LastType, SizeWithout, WithoutType, SizeType
    <3> QED
      BY <1>1, <1>2, <3>2
  <2> QED
    BY <2>3, <2>4, <2>5
<1>5. ASSUME NEW c \in Key, NEW to \in Key, CreateLock(c, to)
      PROVE  WithinMaxDelegates'
  <2> SUFFICES ASSUME NEW a \in Account PROVE Size(Last(a)') <= MaxDelegates
    BY DEF WithinMaxDelegates
  <2>1. delegate[to] \in Account /\ checkpoints \in [Account -> Seq(CheckPoints)]
    BY DEF VotingInv
  <2>2. checkpoints' = TokenMoved(checkpoints, NullKey, delegate[to], NextTokenId)
    BY <1>5 DEF CreateLock
  <2>3. /\ checkpoints' \in [Account -> Seq(CheckPoints)]
        /\ Size(LastOf(checkpoints'[a])) <= Size(LastOf(checkpoints[a]))
    BY <1>2, <2>1, <2>2, TokenMovedType, TokenMovedSize
  <2>4. Size(LastOf(checkpoints'[a])) \in Nat
    BY <2>3, LastOfType, SizeType
  <2> QED
    BY <1>1, <1>2, <2>3, <2>4 DEF Last
<1>6. ASSUME NEW c \in Key, NEW from \in Token, NEW to \in Token, Merge(c, from, to)
      PROVE  WithinMaxDelegates'
  <2> SUFFICES ASSUME NEW a \in Account PROVE Size(Last(a)') <= MaxDelegates
    BY DEF WithinMaxDelegates
  <2> DEFINE owner == owners[from]
             once  == TokenMoved(checkpoints, owner, NullKey, from)
  <2>1. owner \in Key
    BY <1>6 DEF Merge, Burn, IsApprovedOrOwner, DictHas, VotingInv, NFTInv, NFTTypeOK, IsDict
  <2>2. owner \in Account /\ delegate[owner] \in Account
    BY <2>1 DEF VotingInv, Account
  <2>3. checkpoints' = TokenMoved(once, delegate[owner], NullKey, from)
    BY <1>6 DEF Merge
  <2>4. checkpoints \in [Account -> Seq(CheckPoints)]
    BY DEF VotingInv
  <2> HIDE DEF owner
  <2>5. /\ once \in [Account -> Seq(CheckPoints)]
        /\ Size(LastOf(once[a])) <= Size(LastOf(checkpoints[a]))
    BY <1>2, <2>2, <2>4, TokenMovedType, TokenMovedSize
  <2> HIDE DEF once
  <2>6. /\ checkpoints' \in [Account -> Seq(CheckPoints)]
        /\ Size(LastOf(checkpoints'[a])) <= Size(LastOf(once[a]))
    BY <1>2, <2>2, <2>3, <2>5, TokenMovedType, TokenMovedSize
  <2>7. Size(LastOf(checkpoints'[a])) \in Nat /\ Size(LastOf(once[a])) \in Nat
    BY <2>5, <2>6, LastOfType, SizeType
  <2> QED
    BY <1>1, <1>2, <2>5, <2>6, <2>7 DEF Last
<1> QED
  BY <1>3, <1>4, <1>5, <1>6 DEF VotingNext, votingVars, Approval, Transfer, UpdateTokenMeta

\* No delegation, transfer, new lock or merge, of any number of tokens and in
\* any order, makes a vector longer than MAX_DELEGATES: the guards that
\* _move_all_delegates and _move_token_delegates look at are enough.
THEOREM VectorsStayBounded == VotingSpec => []WithinMaxDelegates
<1>1. VotingInit => WithinMaxDelegates
  <2> SUFFICES ASSUME VotingInit, NEW a \in Account PROVE Size(Last(a)) <= MaxDelegates
    BY DEF WithinMaxDelegates
  <2> DEFINE cp == Last(a)
  <2>1. cp = Nothing
    BY DEF VotingInit, Last, LastOf
  <2>2. \A t \in Token : cp[t] = 0
    BY <2>1 DEF Nothing
  <2> HIDE DEF cp
  <2>3. Size(cp) = 0
    BY <2>2, TokensFinite, SumAllZero DEF Size
  <2> QED
    BY <2>3, VotingAssumption DEF cp
<1>2. VotingInv /\ WithinMaxDelegates /\ [VotingNext]_votingVars => WithinMaxDelegates'
  BY NextWithinMaxDelegates
<1> QED
  BY <1>1, <1>2, VotingInvariant, PTL DEF VotingSpec

-----------------------------------------------------------------------------
(* Tokens that were never transferred.                                      *)

\* Such a token is in the latest checkpoint of the account its owner delegates
\* to, once, or in none.
UnmovedInv ==
    \A t \in Token \ moved : \A a \in Account :
        /\ Last(a)[t] \in {0, 1}
        /\ Last(a)[t] = 1 => t \in DOMAIN owners /\ delegate[owners[t]] = a

HistoryInv == VotingInv /\ UnmovedInv

\* The constructor's state: nothing votes.
LEMMA InitHistoryInv == HistoryInit => HistoryInv
<1> SUFFICES ASSUME HistoryInit PROVE HistoryInv
  OBVIOUS
<1>1. VotingInv
  BY InitVotingInv DEF HistoryInit
<1>2. ASSUME NEW a \in Account, NEW t \in Token PROVE Last(a)[t] = 0
  BY DEF HistoryInit, VotingInit, Last, LastOf, Nothing
<1>3. UnmovedInv
  BY <1>2 DEF UnmovedInv
<1> QED
  BY <1>1, <1>3 DEF HistoryInv

\* Delegating: the token goes from the account of the old delegate to that of
\* the new one.
LEMMA DelegateKeepsUnmoved ==
    ASSUME HistoryInv, NEW c \in Key, NEW delegatee \in Account, Delegate(c, delegatee),
           NEW t \in Token \ moved, NEW a \in Account
    PROVE  /\ Last(a)'[t] \in {0, 1}
           /\ Last(a)'[t] = 1 => t \in DOMAIN owners' /\ delegate'[owners'[t]] = a
<1> DEFINE src == delegate[c]
<1>1. /\ src \in Account /\ VotingInv /\ NFTInv
      /\ delegate \in [Key -> Account]
      /\ \A k \in DOMAIN owners : owners[k] \in Key
      /\ owners' = owners
      /\ delegate' = [delegate EXCEPT ![c] = delegatee]
  BY DEF HistoryInv, VotingInv, NFTInv, NFTTypeOK, IsDict, Delegate
<1>2. Last(a)' = LastOf(AllVotesMoved(c, src, delegatee)[a])
  BY DEF Delegate, Last
<1>3. \A b \in Account : /\ Last(b)[t] \in {0, 1}
                         /\ Last(b)[t] = 1 => t \in DOMAIN owners /\ delegate[owners[t]] = b
  BY DEF HistoryInv, UnmovedInv
<1>4. Last(a) \in CheckPoints
  BY <1>1, LastType
<1>5. HeldBy(c)[t] = IF t \in DOMAIN owners /\ owners[t] = c THEN 1 ELSE 0
  BY <1>1, HeldByOnce DEF OwnedBy
<1>6. t \in DOMAIN owners /\ owners[t] # c => delegate'[owners[t]] = delegate[owners[t]]
  BY <1>1
<1>7. delegate'[c] = delegatee /\ delegate[c] = src
  BY <1>1
<1> HIDE DEF src
<1>8. CASE src = delegatee
  <2>1. Last(a)' = Last(a)
    BY <1>1, <1>2, <1>8, AllVotesMovedLast
  <2> QED
    BY <1>1, <1>3, <1>6, <1>7, <1>8, <2>1
<1>9. CASE src # delegatee /\ a \notin {src, delegatee}
  <2>1. Last(a)' = Last(a)
    BY <1>1, <1>2, <1>9, AllVotesMovedLast
  <2> QED
    BY <1>1, <1>3, <1>6, <1>7, <1>9, <2>1
<1>10. CASE src # delegatee /\ a = delegatee
  <2>1. Last(a)' = Plus(Last(a), HeldBy(c))
    BY <1>1, <1>2, <1>10, AllVotesMovedLast
  <2>2. Last(a)'[t] = Last(a)[t] + HeldBy(c)[t]
    BY <2>1 DEF Plus
  <2>3. CASE t \in DOMAIN owners /\ owners[t] = c
    <3>1. Last(a)[t] = 0
      BY <1>3, <1>7, <1>10, <2>3
    <3> QED
      BY <1>1, <1>5, <1>7, <1>10, <2>2, <2>3, <3>1
  <2>4. CASE ~(t \in DOMAIN owners /\ owners[t] = c)
    <3>1. HeldBy(c)[t] = 0
      BY <1>5, <2>4
    <3>2. Last(a)'[t] = Last(a)[t]
      BY <1>3, <2>2, <3>1
    <3> QED
      BY <1>1, <1>3, <1>6, <2>4, <3>2
  <2> QED
    BY <2>3, <2>4
<1>11. CASE src # delegatee /\ a = src
  <2>1. Last(a)' = Without(Last(a), OwnedBy(c))
    BY <1>1, <1>2, <1>11, AllVotesMovedLast
  <2>2. Last(a)'[t] = IF t \in DOMAIN owners /\ owners[t] = c THEN 0 ELSE Last(a)[t]
    BY <2>1 DEF Without, OwnedBy
  <2> QED
    BY <1>1, <1>3, <1>6, <2>2
<1> QED
  BY <1>8, <1>9, <1>10, <1>11

\* A new lock: the vectors that change lose the new token.
LEMMA CreateLockDrops ==
    ASSUME VotingInv, NEW c \in Key, NEW to \in Key, CreateLock(c, to), NEW a \in Account
    PROVE  Last(a)' = Last(a) \/ Last(a)' = Dropped(Last(a), NextTokenId)
<1>1. /\ delegate[to] \in Account /\ NullKey \in Account
      /\ checkpoints \in [Account -> Seq(CheckPoints)]
  BY DEF VotingInv, Account
<1>2. Last(a)' = LastOf(TokenMoved(checkpoints, NullKey, delegate[to], NextTokenId)[a])
  BY DEF CreateLock, Last
<1> DEFINE dst == delegate[to]
<1>3. dst \in Account
  BY <1>1
<1> HIDE DEF dst
<1>4. CASE NullKey # dst /\ a \in {NullKey, dst}
  BY <1>1, <1>2, <1>3, <1>4, TokenMovedHere DEF Last, dst
<1>5. CASE NullKey = dst \/ a \notin {NullKey, dst}
  <2> DEFINE t0 == NextTokenId
  <2>1. a \in Account
    OBVIOUS
  <2> HIDE DEF t0
  <2>2. TokenMoved(checkpoints, NullKey, dst, t0)[a] = checkpoints[a]
    <3>1. CASE NullKey = dst
      BY ONLY <3>1 DEF TokenMoved
    <3>2. CASE a # NullKey /\ a # dst
      BY ONLY <1>1, <2>1, <3>2 DEF TokenMoved
    <3> QED
      BY <1>5, <3>1, <3>2
  <2> QED
    BY <1>2, <2>2 DEF Last, dst, t0
<1> QED
  BY <1>4, <1>5

\* A new lock: nobody votes with a token that is not there yet.
LEMMA CreateLockKeepsUnmoved ==
    ASSUME HistoryInv, NEW c \in Key, NEW to \in Key, CreateLock(c, to),
           NEW t \in Token \ moved, NEW a \in Account
    PROVE  /\ Last(a)'[t] \in {0, 1}
           /\ Last(a)'[t] = 1 => t \in DOMAIN owners' /\ delegate'[owners'[t]] = a
<1>1. /\ Last(a)[t] \in {0, 1}
      /\ Last(a)[t] = 1 => t \in DOMAIN owners /\ delegate[owners[t]] = a
  BY DEF HistoryInv, UnmovedInv
<1>2. /\ delegate' = delegate
      /\ DOMAIN owners \subseteq DOMAIN owners'
      /\ NextTokenId \notin DOMAIN owners
      /\ \A u \in DOMAIN owners : owners'[u] = owners[u]
  BY DEF CreateLock, Mint, DictSet, DictHas
<1>3. Last(a)' = Last(a) \/ Last(a)' = Dropped(Last(a), NextTokenId)
  BY CreateLockDrops DEF HistoryInv
<1>4. Last(a)'[t] = Last(a)[t] \/ Last(a)'[t] = 0
  BY <1>3 DEF Dropped, Without
<1> QED
  BY <1>1, <1>2, <1>4

\* merge: the token that is burnt is taken from its owner, its owner's delegate
\* and the null key, and nothing else from anybody.
LEMMA MergeDrops ==
    ASSUME VotingInv, NEW c \in Key, NEW from \in Token, NEW to \in Token,
           Merge(c, from, to), NEW a \in Account, NEW t \in Token
    PROVE  Last(a)'[t] = IF /\ t = from
                            /\ a \in {owners[from], NullKey, delegate[owners[from]]}
                         THEN 0 ELSE Last(a)[t]
<1> DEFINE owner == owners[from]
           once  == TokenMoved(checkpoints, owner, NullKey, from)
<1>2. checkpoints' = TokenMoved(once, delegate[owner], NullKey, from)
  BY DEF Merge
<1>3. owner \in Key
  BY DEF Merge, Burn, IsApprovedOrOwner, DictHas, VotingInv, NFTInv, NFTTypeOK, IsDict
<1>4. /\ owner \in Account /\ delegate[owner] \in Account /\ NullKey \in Account
      /\ owner # NullKey
      /\ checkpoints \in [Account -> Seq(CheckPoints)]
  BY <1>3, VotingAssumption DEF VotingInv, Account
<1> HIDE DEF owner
<1>5. once \in [Account -> Seq(CheckPoints)]
  BY <1>4, TokenMovedType
<1>6. LastOf(once[a]) = IF a \in {owner, NullKey} THEN Dropped(Last(a), from) ELSE Last(a)
  <2>1. CASE a \in {owner, NullKey}
    BY <1>4, <2>1, TokenMovedHere DEF Last
  <2>2. CASE a \notin {owner, NullKey}
    <3>1. once[a] = checkpoints[a]
      BY <1>4, <2>2 DEF TokenMoved
    <3> QED
      BY <2>2, <3>1 DEF Last
  <2> QED
    BY <2>1, <2>2
<1> HIDE DEF once
<1>7. Last(a)' = IF delegate[owner] # NullKey /\ a \in {delegate[owner], NullKey}
                 THEN Dropped(LastOf(once[a]), from) ELSE LastOf(once[a])
  <2> DEFINE src == delegate[owner]
             then == TokenMoved(once, src, NullKey, from)
  <2>1. Last(a)' = LastOf(then[a]) /\ src \in Account /\ NullKey \in Account
    BY <1>2, <1>4 DEF Last
  <2> HIDE DEF src
  <2>2. ASSUME src # NullKey, a \in {src, NullKey}
        PROVE  LastOf(then[a]) = Dropped(LastOf(once[a]), from)
    BY ONLY <1>5, <2>1, <2>2, TokenMovedHere
  <2>3. ASSUME src = NullKey \/ a \notin {src, NullKey}
        PROVE  then[a] = once[a]
    BY <1>5, <2>3 DEF TokenMoved
  <2> HIDE DEF then
  <2>4. Last(a)' = IF src # NullKey /\ a \in {src, NullKey}
                   THEN Dropped(LastOf(once[a]), from) ELSE LastOf(once[a])
    BY <2>1, <2>2, <2>3
  <2> QED
    BY <2>4 DEF src
<1>8. LastOf(once[a])[t] = IF a \in {owner, NullKey} /\ t = from THEN 0 ELSE Last(a)[t]
  BY <1>6 DEF Dropped, Without
<1>9. Last(a)'[t] = IF /\ delegate[owner] # NullKey
                       /\ a \in {delegate[owner], NullKey}
                       /\ t = from
                    THEN 0 ELSE LastOf(once[a])[t]
  BY <1>7 DEF Dropped, Without
<1> QED
  BY <1>8, <1>9 DEF owner

\* merge: the token that is burnt votes no more.
LEMMA MergeKeepsUnmoved ==
    ASSUME HistoryInv, NEW c \in Key, NEW from \in Token, NEW to \in Token,
           Merge(c, from, to), NEW t \in Token \ moved, NEW a \in Account
    PROVE  /\ Last(a)'[t] \in {0, 1}
           /\ Last(a)'[t] = 1 => t \in DOMAIN owners' /\ delegate'[owners'[t]] = a
<1>1. /\ Last(a)[t] \in {0, 1}
      /\ Last(a)[t] = 1 => t \in DOMAIN owners /\ delegate[owners[t]] = a
  BY DEF HistoryInv, UnmovedInv
<1>2. delegate' = delegate /\ owners' = DictRemove(owners, from)
  BY DEF Merge, Burn
<1>3. Last(a)'[t] = IF /\ t = from
                       /\ a \in {owners[from], NullKey, delegate[owners[from]]}
                    THEN 0 ELSE Last(a)[t]
  BY MergeDrops DEF HistoryInv
<1>4. CASE t = from
  BY <1>1, <1>3, <1>4
<1>5. CASE t # from
  <2>1. Last(a)'[t] = Last(a)[t]
    BY <1>3, <1>5
  <2>2. t \in DOMAIN owners => t \in DOMAIN owners' /\ owners'[t] = owners[t]
    BY <1>2, <1>5 DEF DictRemove
  <2> QED
    BY <1>1, <1>2, <2>1, <2>2
<1> QED
  BY <1>4, <1>5

\* Every step keeps the invariant.
LEMMA NextHistoryInv == HistoryInv /\ [HistoryNext]_historyVars => HistoryInv'
<1> SUFFICES ASSUME HistoryInv, [HistoryNext]_historyVars PROVE HistoryInv'
  OBVIOUS
<1>1. VotingInv'
  BY NextVotingInv DEF HistoryInv, HistoryNext, historyVars
<1>2. CASE UNCHANGED historyVars
  <2>1. UnmovedInv'
    BY <1>2 DEF HistoryInv, UnmovedInv, Last, historyVars, votingVars, vars
  <2> QED
    BY <1>1, <2>1 DEF HistoryInv
<1>3. CASE HistoryNext
  <2> SUFFICES ASSUME NEW t \in Token \ moved', NEW a \in Account
               PROVE  /\ Last(a)'[t] \in {0, 1}
                      /\ Last(a)'[t] = 1 => t \in DOMAIN owners' /\ delegate'[owners'[t]] = a
    BY <1>1 DEF HistoryInv, UnmovedInv
  <2>1. t \in Token \ moved
    BY <1>3 DEF HistoryNext
  <2>2. t \in DOMAIN owners /\ t \in DOMAIN owners' => owners'[t] = owners[t]
    BY <1>3 DEF HistoryNext
  <2>3. VotingNext
    BY <1>3 DEF HistoryNext
  <2>4. ASSUME UNCHANGED <<delegate, checkpoints>>, DOMAIN owners' = DOMAIN owners
        PROVE  /\ Last(a)'[t] \in {0, 1}
               /\ Last(a)'[t] = 1 => t \in DOMAIN owners' /\ delegate'[owners'[t]] = a
    <3>1. Last(a)' = Last(a)
      BY <2>4 DEF Last
    <3> QED
      BY <2>1, <2>2, <2>4, <3>1 DEF HistoryInv, UnmovedInv
  <2>5. CASE \E c \in Key, delegatee \in Account : Delegate(c, delegatee)
    BY <2>1, <2>5, DelegateKeepsUnmoved
  <2>6. CASE \E c \in Key, to \in Key : CreateLock(c, to)
    BY <2>1, <2>6, CreateLockKeepsUnmoved
  <2>7. CASE \E c \in Key, from, to \in Token : Merge(c, from, to)
    BY <2>1, <2>7, MergeKeepsUnmoved
  <2>8. CASE \E c, spender \in Key, batch \in Batch : Approval(c, spender, batch)
    BY <2>4, <2>8 DEF Approval, Approve
  <2>9. CASE \E c, owner, recipient \in Key, batch \in Batch :
                 Transfer(c, owner, recipient, batch)
    BY <2>4, <2>9 DEF Transfer, TransferFrom
  <2>10. CASE \E c \in Key, u \in Token, meta \in Metas : UpdateTokenMeta(c, u, meta)
    BY <2>4, <2>10 DEF UpdateTokenMeta, SetTokenMeta
  <2> QED
    BY <2>3, <2>5, <2>6, <2>7, <2>8, <2>9, <2>10 DEF VotingNext
<1> QED
  BY <1>2, <1>3

\* The invariant holds in every reachable state.
LEMMA HistoryInvariant == HistorySpec => []HistoryInv
BY InitHistoryInv, NextHistoryInv, PTL DEF HistorySpec

\* An amount of votes at one account only adds up to itself.
LEMMA OneVote ==
    ASSUME NEW votes, NEW home,
           \A a \in Account : /\ votes[a] \in {0, 1}
                              /\ votes[a] = 1 => a = home
    PROVE  SumFunctionOnSet(votes, Account) <= 1
<1>1. IsFiniteSet(Account)
  <2>1. IsFiniteSet({NullKey})
    BY FS_Singleton
  <2> QED
    BY <2>1, HistoryAssumption, FS_Union DEF Account
<1>2. CASE \A a \in Account : votes[a] = 0
  BY <1>1, <1>2, SumAllZero
<1>3. CASE \E a \in Account : votes[a] # 0
  <2>1. PICK a \in Account : votes[a] # 0
    BY <1>3
  <2>2. votes[a] = 1 /\ votes[a] \in Int
    BY <2>1
  <2>3. \A b \in Account \ {a} : votes[b] = 0
    BY <2>2
  <2>4. SumFunctionOnSet(votes, Account) = votes[a]
    BY <1>1, <2>2, <2>3, SumAtOnly
  <2> QED
    BY <2>2, <2>4
<1> QED
  BY <1>2, <1>3

\* A token that was never transferred votes at most once, for the account its
\* owner delegates to, whatever was delegated, merged and minted again.
THEOREM NoTokenVotesTwice == HistorySpec => []UnmovedTokensVoteOnce
<1>1. HistoryInv => UnmovedTokensVoteOnce
  <2> SUFFICES ASSUME HistoryInv, NEW t \in Token \ moved
               PROVE  /\ SumFunctionOnSet([a \in Account |-> Last(a)[t]], Account) <= 1
                      /\ \A a \in Account :
                           Last(a)[t] > 0 => t \in DOMAIN owners /\ delegate[owners[t]] = a
    BY DEF UnmovedTokensVoteOnce
  <2> DEFINE votes == [a \in Account |-> Last(a)[t]]
             home  == delegate[owners[t]]
  <2>1. \A a \in Account : /\ Last(a)[t] \in {0, 1}
                           /\ Last(a)[t] = 1 => t \in DOMAIN owners /\ a = home
    BY DEF HistoryInv, UnmovedInv
  <2>2. \A a \in Account : votes[a] \in {0, 1} /\ (votes[a] = 1 => a = home)
    BY <2>1
  <2> HIDE DEF votes, home
  <2>3. SumFunctionOnSet(votes, Account) <= 1
    BY <2>2, OneVote
  <2>4. \A a \in Account : Last(a)[t] > 0 => t \in DOMAIN owners /\ home = a
    BY <2>1
  <2> QED
    BY <2>3, <2>4 DEF votes, home
<1> QED
  BY <1>1, HistoryInvariant, PTL

-----------------------------------------------------------------------------
(* How an account comes to vote with a token, and stops.                    *)

\* What the calls that are not delegate, create_lock or merge leave alone.
LEMMA OtherCallsKeepVotes ==
    ASSUME VotingNext,
           ~ \E c \in Key, delegatee \in Account : Delegate(c, delegatee),
           ~ \E c, to \in Key : CreateLock(c, to),
           ~ \E c \in Key, from, to \in Token : Merge(c, from, to)
    PROVE  UNCHANGED <<delegate, checkpoints>>
BY DEF VotingNext, Approval, Transfer, UpdateTokenMeta

\* A delegate call, seen from the account a and the token t: a gets the tokens
\* of the caller if it is the new delegate, and loses them if it was the old.
LEMMA DelegateMoves ==
    ASSUME VotingInv, NEW c \in Key, NEW delegatee \in Account, Delegate(c, delegatee),
           NEW a \in Account, NEW t \in Token
    PROVE  Last(a)'[t] = IF delegate[c] = delegatee \/ a \notin {delegate[c], delegatee}
                            \/ t \notin OwnedBy(c)
                         THEN Last(a)[t]
                         ELSE IF a = delegatee THEN Last(a)[t] + 1 ELSE 0
<1> DEFINE src == delegate[c]
<1>1. src \in Account /\ Last(a)' = LastOf(AllVotesMoved(c, src, delegatee)[a])
  BY DEF Delegate, Last, VotingInv
<1>2. HeldBy(c)[t] = IF t \in OwnedBy(c) THEN 1 ELSE 0
  BY HeldByOnce DEF VotingInv
<1>3. Last(a)[t] \in Nat
  BY LastType DEF CheckPoints
<1> HIDE DEF src
<1>4. Last(a)' = IF src = delegatee \/ a \notin {src, delegatee} THEN Last(a)
                 ELSE IF a = delegatee THEN Plus(Last(a), HeldBy(c))
                 ELSE Without(Last(a), OwnedBy(c))
  BY <1>1, AllVotesMovedLast
<1>5. Plus(Last(a), HeldBy(c))[t] = Last(a)[t] + HeldBy(c)[t]
  BY DEF Plus
<1>6. Without(Last(a), OwnedBy(c))[t] = IF t \in OwnedBy(c) THEN 0 ELSE Last(a)[t]
  BY DEF Without
<1> QED
  BY <1>2, <1>3, <1>4, <1>5, <1>6 DEF src

\* Where an account's votes with a token become more, the owner has delegated.
LEMMA StepGivesVotes ==
    ASSUME VotingInv, VotingNext, NEW a \in Account, NEW t \in Token,
           Last(a)'[t] > Last(a)[t]
    PROVE  /\ t \in DOMAIN owners
           /\ caller' = owners[t]
           /\ delegate[caller'] # a
           /\ delegate'[caller'] = a
<1>1. Last(a)[t] \in Nat
  BY LastType DEF CheckPoints
<1>2. CASE \E c \in Key, delegatee \in Account : Delegate(c, delegatee)
  <2>1. PICK c \in Key, delegatee \in Account : Delegate(c, delegatee)
    BY <1>2
  <2>2. t \in OwnedBy(c) /\ a = delegatee /\ delegate[c] # delegatee
    BY <1>1, <2>1, DelegateMoves
  <2>3. caller' = c /\ delegate'[c] = delegatee
    BY <2>1 DEF Delegate, VotingInv
  <2> QED
    BY <2>2, <2>3 DEF OwnedBy
<1>3. CASE \E c, to \in Key : CreateLock(c, to)
  <2>1. PICK c \in Key, to \in Key : CreateLock(c, to)
    BY <1>3
  <2>2. Last(a)' = Last(a) \/ Last(a)' = Dropped(Last(a), NextTokenId)
    BY <2>1, CreateLockDrops
  <2>3. Last(a)'[t] = Last(a)[t] \/ Last(a)'[t] = 0
    BY <2>2 DEF Dropped, Without
  <2> QED
    BY <1>1, <2>3
<1>4. CASE \E c \in Key, from, to \in Token : Merge(c, from, to)
  <2>1. PICK c \in Key, from \in Token, to \in Token : Merge(c, from, to)
    BY <1>4
  <2>2. Last(a)'[t] = Last(a)[t] \/ Last(a)'[t] = 0
    BY <2>1, MergeDrops
  <2> QED
    BY <1>1, <2>2
<1>5. ASSUME UNCHANGED checkpoints PROVE FALSE
  BY <1>1, <1>5 DEF Last
<1> QED
  BY <1>2, <1>3, <1>4, <1>5, OtherCallsKeepVotes

\* An account comes to vote with a token only in the delegate call by which the
\* token's present owner turns to that account.
THEOREM OwnersGiveVotes == VotingSpec => VotesAreGivenByOwner
<1>1. VotingInv /\ [VotingNext]_votingVars
        => [\A a \in Account, t \in Token :
              Last(a)'[t] > Last(a)[t] =>
                  /\ t \in DOMAIN owners
                  /\ caller' = owners[t]
                  /\ delegate[caller'] # a
                  /\ delegate'[caller'] = a]_votingVars
  BY StepGivesVotes
<1> QED
  BY <1>1, VotingInvariant, PTL DEF VotingSpec, VotesAreGivenByOwner

\* A vote with a token that nobody owns before and after a step stays.
LEMMA StepKeepsStray ==
    ASSUME VotingInv, VotingNext, NEW a \in Account, NEW t \in Token,
           Stray(a, t), t \notin DOMAIN owners'
    PROVE  Last(a)'[t] > 0
<1>1. Last(a)[t] \in Nat /\ Last(a)[t] > 0 /\ t \notin DOMAIN owners
  BY LastType DEF CheckPoints, Stray, DictHas
<1>2. CASE \E c \in Key, delegatee \in Account : Delegate(c, delegatee)
  <2>1. PICK c \in Key, delegatee \in Account : Delegate(c, delegatee)
    BY <1>2
  <2>2. t \notin OwnedBy(c)
    BY <1>1 DEF OwnedBy
  <2> QED
    BY <1>1, <2>1, <2>2, DelegateMoves
<1>3. CASE \E c, to \in Key : CreateLock(c, to)
  <2>1. PICK c \in Key, to \in Key : CreateLock(c, to)
    BY <1>3
  <2>2. Last(a)' = Last(a) \/ Last(a)' = Dropped(Last(a), NextTokenId)
    BY <2>1, CreateLockDrops
  <2>3. t # NextTokenId
    BY <2>1 DEF CreateLock, Mint, DictSet
  <2> QED
    BY <1>1, <2>2, <2>3 DEF Dropped, Without
<1>4. CASE \E c \in Key, from, to \in Token : Merge(c, from, to)
  <2>1. PICK c \in Key, from \in Token, to \in Token : Merge(c, from, to)
    BY <1>4
  <2>2. t # from
    BY <1>1, <2>1 DEF Merge, Burn, IsApprovedOrOwner, DictHas
  <2> QED
    BY <1>1, <2>1, <2>2, MergeDrops
<1>5. ASSUME UNCHANGED checkpoints PROVE Last(a)'[t] > 0
  BY <1>1, <1>5 DEF Last
<1> QED
  BY <1>2, <1>3, <1>4, <1>5, OtherCallsKeepVotes

\* While a vote is stray no key that delegates to its account can turn away.
LEMMA StrayFreezes ==
    ASSUME VotingInv, VotingNext, NEW a \in Account, NEW t \in Token, Stray(a, t),
           NEW k \in Key, delegate[k] = a
    PROVE  delegate'[k] = a
<1>1. CASE \E c \in Key, delegatee \in Account : Delegate(c, delegatee)
  <2>1. PICK c \in Key, delegatee \in Account : Delegate(c, delegatee)
    BY <1>1
  <2>2. CASE c # k
    BY <2>1, <2>2 DEF Delegate, VotingInv
  <2>3. CASE c = k
    <3>1. delegate[k] = delegatee
      BY <2>1, <2>3 DEF Delegate, CanMoveAllVotes, Stray
    <3> QED
      BY <2>1, <2>3, <3>1 DEF Delegate, VotingInv
  <2> QED
    BY <2>2, <2>3
<1>2. CASE ~ \E c \in Key, delegatee \in Account : Delegate(c, delegatee)
  BY <1>2 DEF VotingNext, CreateLock, Merge, Approval, Transfer, UpdateTokenMeta
<1> QED
  BY <1>1, <1>2

\* A stray vote is one with a token that was transferred and is burnt now.
LEMMA StrayComesFromBurn ==
    ASSUME HistoryInv, HistoryNext, NEW a \in Account, NEW t \in Token,
           ~Stray(a, t), Stray(a, t)'
    PROVE  t \in moved /\ t \in DOMAIN owners \ DOMAIN owners'
<1>1. Last(a)'[t] > 0 /\ t \notin DOMAIN owners' /\ VotingNext /\ VotingInv
  BY DEF Stray, DictHas, HistoryNext, HistoryInv
<1>2. t \in DOMAIN owners
  <2> SUFFICES ASSUME t \notin DOMAIN owners PROVE FALSE
    OBVIOUS
  <2>1. Last(a)[t] \in Nat /\ ~(Last(a)[t] > 0)
    BY <1>1, LastType DEF CheckPoints, Stray, DictHas
  <2>2. Last(a)'[t] > Last(a)[t]
    BY <1>1, <2>1
  <2> QED
    BY <1>1, <2>2, StepGivesVotes
<1>3. t \in moved
  <2> SUFFICES ASSUME t \notin moved PROVE FALSE
    OBVIOUS
  <2>1. t \in Token \ moved'
    BY <1>1 DEF HistoryNext
  <2>2. HistoryInv'
    BY NextHistoryInv
  <2>3. Last(a)'[t] \in {0, 1} /\ (Last(a)'[t] = 1 => t \in DOMAIN owners')
    BY <2>1, <2>2 DEF HistoryInv, UnmovedInv
  <2> QED
    BY <1>1, <2>3
<1> QED
  BY <1>1, <1>2, <1>3

\* Only the burn of a token that was transferred leaves a stray vote, which
\* freezes the account's delegators until the token's id is minted again.
THEOREM StrayVotesAreStuck == HistorySpec => StrayVotesFreeze
<1>1. HistoryInv /\ [HistoryNext]_historyVars
        => [\A a \in Account, t \in Token :
              /\ ~Stray(a, t) /\ Stray(a, t)' =>
                    t \in moved /\ t \in DOMAIN owners \ DOMAIN owners'
              /\ Stray(a, t) =>
                    /\ \A k \in Key : delegate[k] = a => delegate'[k] = a
                    /\ Stray(a, t)' \/ t \in DOMAIN owners']_historyVars
  <2> SUFFICES ASSUME HistoryInv, HistoryNext, NEW a \in Account, NEW t \in Token
               PROVE  /\ ~Stray(a, t) /\ Stray(a, t)' =>
                            t \in moved /\ t \in DOMAIN owners \ DOMAIN owners'
                      /\ Stray(a, t) =>
                            /\ \A k \in Key : delegate[k] = a => delegate'[k] = a
                            /\ Stray(a, t)' \/ t \in DOMAIN owners'
    OBVIOUS
  <2>1. VotingInv /\ VotingNext
    BY DEF HistoryInv, HistoryNext
  <2>2. ~Stray(a, t) /\ Stray(a, t)' =>
              t \in moved /\ t \in DOMAIN owners \ DOMAIN owners'
    BY StrayComesFromBurn
  <2>3. Stray(a, t) => \A k \in Key : delegate[k] = a => delegate'[k] = a
    BY <2>1, StrayFreezes
  <2>4. Stray(a, t) => Stray(a, t)' \/ t \in DOMAIN owners'
    BY <2>1, StepKeepsStray DEF Stray, DictHas
  <2> QED
    BY <2>2, <2>3, <2>4
<1> QED
  BY <1>1, HistoryInvariant, PTL DEF HistorySpec, StrayVotesFreeze
=============================================================================
