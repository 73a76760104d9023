------------------------------ MODULE VeProofs ------------------------------
(***************************************************************************)
(* Proofs about the whole contract, with a locked token that calls back:    *)
(* the ledger and voting keep their invariants, the flag excludes, who may  *)
(* change what, and that the escrow goes through the steps it goes through  *)
(* when calls run one after the other.                                      *)
(***************************************************************************)
EXTENDS Ve, VotingProofs

\* What the steps rest on, besides the invariant of voting and of the ledger.
VeInv ==
    /\ VotingInv
    /\ DOMAIN locked = Token
    /\ escrowed \in Int
    /\ owed \in Int
    /\ open \in Seq(Call)
    /\ LockExcludes

\* The assumptions on constants as the proofs use them.
LEMMA VeConstants ==
    /\ Amounts \subseteq Nat
    /\ Batches \subseteq Batch
    /\ Spenders \subseteq Key
    /\ Delegatees \subseteq Account
BY VeAssumption DEF E!EscrowAssumption

\* The constructor's state satisfies the invariant.
LEMMA InitVeInv == VeInit => VeInv
<1> SUFFICES ASSUME VeInit PROVE VeInv
  OBVIOUS
<1>1. VotingInv
  BY InitVotingInv DEF VeInit
<1>2. open = <<>> /\ isLocked = FALSE /\ escrowed = 0 /\ owed = 0
  BY DEF VeInit
<1>3. DOMAIN locked = Token
  BY DEF VeInit
<1>4. LockExcludes
  BY <1>2 DEF LockExcludes, Holders
<1> QED
  BY <1>1, <1>2, <1>3, <1>4 DEF VeInv

-----------------------------------------------------------------------------
(* Voting and the ledger.                                                   *)

\* A call that leaves voting and the ledger alone.
LEMMA OtherCallKeepsVoting ==
    ASSUME VotingInv, NEW c \in Key, caller' = c, UNCHANGED <<ledgerVars, votesVars>>
    PROVE  VotingInv'
<1>1. NFTInv'
  BY DEF VotingInv, NFTInv, NFTTypeOK, EnumerationMatchesOwnership,
         SupplyIsLiveTokens, ledgerVars
<1> QED
  BY <1>1 DEF VotingInv, votesVars

\* Every step is one of voting, one that leaves voting alone, or neither.
LEMMA StepKeepsVoting == VotingInv /\ [VeNext]_veVars => VotingInv'
<1> SUFFICES ASSUME VotingInv, [VeNext]_veVars PROVE VotingInv'
  OBVIOUS
<1>1. ASSUME VotingNext PROVE VotingInv'
  BY <1>1, NextVotingInv
<1>2. ASSUME UNCHANGED votingVars PROVE VotingInv'
  BY <1>2, NextVotingInv
<1>3. CASE UNCHANGED veVars
  BY <1>2, <1>3 DEF veVars
<1>4. CASE Tick \/ Return
  BY <1>2, <1>4 DEF Tick, Return
<1>5. ASSUME NEW c \in Key, NEW to \in Key, NEW a \in Amounts, NEW d \in Durations,
             CallCreateLock(c, to, a, d)
      PROVE  VotingInv'
  BY <1>1, <1>5 DEF CallCreateLock, VotingNext
<1>6. ASSUME NEW c \in Key, NEW t \in Token, NEW a \in Amounts,
             \/ CallDepositFor(c, t, a)
             \/ CallIncreaseAmount(c, t, a)
             \/ CallIncreaseAmountFor(c, t, a)
      PROVE  VotingInv'
  BY <1>6, OtherCallKeepsVoting
     DEF CallDepositFor, CallIncreaseAmount, CallIncreaseAmountFor, AddToLock, CalledBy
<1>7. ASSUME NEW c \in Key, NEW t \in Token, NEW d \in Durations,
             CallIncreaseUnlockTime(c, t, d)
      PROVE  VotingInv'
  BY <1>7, OtherCallKeepsVoting DEF CallIncreaseUnlockTime, CalledBy
<1>8. ASSUME NEW c \in Key, NEW from \in Token, NEW to \in Token, CallMerge(c, from, to)
      PROVE  VotingInv'
  BY <1>1, <1>8 DEF CallMerge, VotingNext
<1>9. ASSUME NEW c \in Key, CallCheckPoint(c) \/ CallOffice(c)
      PROVE  VotingInv'
  BY <1>9, OtherCallKeepsVoting DEF CallCheckPoint, CallOffice, CalledBy
<1>10. ASSUME NEW c \in Key, CallLedger(c)
       PROVE  VotingInv'
  <2>1. CASE \E delegatee \in Delegatees : Delegate(c, delegatee)
    BY <1>1, <2>1, VeConstants DEF VotingNext
  <2>2. CASE \E spender \in Spenders, batch \in Batches : Approval(c, spender, batch)
    BY <1>1, <2>2, VeConstants DEF VotingNext
  <2>3. CASE \E owner, recipient \in Key, batch \in Batches :
                 Transfer(c, owner, recipient, batch)
    BY <1>1, <2>3, VeConstants DEF VotingNext
  <2>4. CASE \E t \in Token, meta \in Metas : UpdateTokenMeta(c, t, meta)
    BY <1>1, <2>4 DEF VotingNext
  <2>5. CASE UNCHANGED <<ledgerVars, votesVars>>
    BY <1>10, <2>5, OtherCallKeepsVoting DEF CallLedger, CalledBy
  <2> QED
    BY <1>10, <2>1, <2>2, <2>3, <2>4, <2>5 DEF CallLedger
<1> QED
  BY <1>3, <1>4, <1>5, <1>6, <1>7, <1>8, <1>9, <1>10 DEF VeNext

-----------------------------------------------------------------------------
(* The flag and the open calls.                                             *)

\* The calls that are open and the flag, as far as the flag needs them.
CallsInv ==
    /\ escrowed \in Int
    /\ owed \in Int
    /\ open \in Seq(Call)
    /\ LockExcludes

\* A call that comes to transfer_from, holding the lock only if nobody does.
LEMMA AwaitsKeeps ==
    ASSUME CallsInv, NEW value \in Nat, NEW holdsLock \in BOOLEAN,
           holdsLock => ~isLocked, Awaits(value, holdsLock)
    PROVE  CallsInv'
<1> DEFINE call == [value |-> value, holdsLock |-> holdsLock]
           n == Len(open)
<1>1. /\ open \in Seq(Call) /\ n \in Nat /\ DOMAIN open = 1..n
      /\ open' = Append(open, call) /\ call \in Call
      /\ isLocked' = (isLocked \/ holdsLock)
      /\ owed' = owed + value /\ escrowed' = escrowed
  BY DEF CallsInv, Awaits, Call
<1>2. /\ open' \in Seq(Call)
      /\ DOMAIN open' = 1..(n + 1)
      /\ \A i \in 1..n : open'[i] = open[i]
      /\ open'[n + 1] = call
  BY <1>1
<1>3. call.holdsLock = holdsLock
  OBVIOUS
<1> HIDE DEF call, n
<1>4. Holders' = Holders \cup (IF holdsLock THEN {n + 1} ELSE {})
  BY <1>1, <1>2, <1>3 DEF Holders
<1>5. LockExcludes'
  <2>1. CASE holdsLock
    <3>1. Holders = {}
      BY <2>1 DEF CallsInv, LockExcludes
    <3> QED
      BY <1>1, <1>4, <2>1, <3>1 DEF LockExcludes
  <2>2. CASE ~holdsLock
    BY <1>1, <1>4, <2>2 DEF LockExcludes, CallsInv
  <2> QED
    BY <2>1, <2>2
<1> QED
  BY <1>1, <1>2, <1>5 DEF CallsInv

\* The return of transfer_from, which frees the lock only for its holder.
LEMMA ReturnKeeps ==
    ASSUME CallsInv, Return
    PROVE  CallsInv' /\ escrowed' + owed' = escrowed + owed
<1> DEFINE n == Len(open)
           call == open[n]
<1>1. /\ open \in Seq(Call) /\ n \in Nat /\ DOMAIN open = 1..n /\ n # 0
      /\ open' = SubSeq(open, 1, n - 1)
      /\ escrowed' = escrowed + call.value
      /\ owed' = owed - call.value
      /\ isLocked' = (isLocked /\ ~call.holdsLock)
  BY DEF CallsInv, Return
<1>2. call \in Call /\ call.value \in Nat /\ call.holdsLock \in BOOLEAN
  <2>1. n \in 1..n
    BY <1>1
  <2>2. open[n] \in Call
    BY <1>1, <2>1
  <2> QED
    BY <2>2 DEF Call
<1>3. /\ open' \in Seq(Call)
      /\ DOMAIN open' = 1..(n - 1)
      /\ \A i \in 1..(n - 1) : open'[i] = open[i]
  BY <1>1
<1> HIDE DEF call, n
<1>4. Holders' = Holders \ {n}
  BY <1>1, <1>3 DEF Holders
<1>5. n \in Holders <=> call.holdsLock
  BY <1>1 DEF Holders, call, n
<1>6. LockExcludes'
  <2>1. CASE call.holdsLock
    <3>1. Holders = {n}
      BY <1>5, <2>1 DEF CallsInv, LockExcludes
    <3> QED
      BY <1>1, <1>4, <2>1, <3>1 DEF LockExcludes
  <2>2. CASE ~call.holdsLock
    <3>1. Holders' = Holders
      BY <1>4, <1>5, <2>2
    <3> QED
      BY <1>1, <2>2, <3>1 DEF LockExcludes, CallsInv
  <2> QED
    BY <1>2, <2>1, <2>2
<1>7. escrowed' \in Int /\ owed' \in Int /\ escrowed' + owed' = escrowed + owed
  <2> DEFINE v == call.value
  <2>1. v \in Nat /\ escrowed' = escrowed + v /\ owed' = owed - v
    BY <1>1, <1>2
  <2>2. escrowed \in Int /\ owed \in Int
    BY DEF CallsInv
  <2> HIDE DEF v
  <2> QED
    BY ONLY <2>1, <2>2
<1> QED
  BY <1>3, <1>6, <1>7 DEF CallsInv

\* Every step keeps the flag and the open calls in accord.
LEMMA StepKeepsCalls == CallsInv /\ [VeNext]_veVars => CallsInv'
<1> SUFFICES ASSUME CallsInv, [VeNext]_veVars PROVE CallsInv'
  OBVIOUS
<1>1. ASSUME UNCHANGED callVars PROVE CallsInv'
  BY <1>1 DEF CallsInv, callVars, LockExcludes, Holders
<1>2. CASE UNCHANGED veVars
  BY <1>1, <1>2 DEF veVars
<1>3. CASE Tick
  BY <1>1, <1>3 DEF Tick
<1>4. CASE Return
  BY <1>4, ReturnKeeps
<1>5. ASSUME NEW c \in Key, NEW to \in Key, NEW a \in Amounts, NEW d \in Durations,
             CallCreateLock(c, to, a, d)
      PROVE  CallsInv'
  <2>1. a \in Nat /\ ~isLocked /\ Awaits(a, TRUE)
    BY <1>5, VeConstants DEF CallCreateLock, WhenNotLocked
  <2> QED
    BY <2>1, AwaitsKeeps
<1>6. ASSUME NEW c \in Key, NEW t \in Token, NEW a \in Amounts,
             CallDepositFor(c, t, a) \/ CallIncreaseAmountFor(c, t, a)
      PROVE  CallsInv'
  <2>1. a \in Nat /\ Awaits(a, FALSE)
    BY <1>6, VeConstants DEF CallDepositFor, CallIncreaseAmountFor, AddToLock
  <2> QED
    BY <2>1, AwaitsKeeps
<1>7. ASSUME NEW c \in Key, NEW t \in Token, NEW a \in Amounts,
             CallIncreaseAmount(c, t, a)
      PROVE  CallsInv'
  <2>1. a \in Nat /\ ~isLocked /\ Awaits(a, TRUE)
    BY <1>7, VeConstants DEF CallIncreaseAmount, AddToLock, WhenNotLocked
  <2> QED
    BY <2>1, AwaitsKeeps
<1>8. ASSUME NEW c \in Key,
             \/ \E t \in Token, d \in Durations : CallIncreaseUnlockTime(c, t, d)
             \/ \E from, to \in Token : CallMerge(c, from, to)
             \/ CallCheckPoint(c)
             \/ CallLedger(c)
             \/ CallOffice(c)
      PROVE  CallsInv'
  BY <1>1, <1>8 DEF CallIncreaseUnlockTime, CallMerge, CallCheckPoint, CallLedger,
                    CallOffice, Completes
<1> QED
  BY <1>2, <1>3, <1>4, <1>5, <1>6, <1>7, <1>8 DEF VeNext

-----------------------------------------------------------------------------
(* The invariant.                                                           *)

\* Locks are entries of one table for all tokens.
LEMMA StepKeepsLockTable ==
    ASSUME DOMAIN locked = Token, [VeNext]_veVars
    PROVE  DOMAIN locked' = Token
<1>1. ASSUME NEW locks, NEW b, NEW t, NEW value, NEW unlockTime, NEW isMerge,
             DOMAIN locks = Token,
             E!Deposit(locks, b, t, value, unlockTime, isMerge)
      PROVE  DOMAIN locked' = Token
  BY <1>1 DEF E!Deposit
<1>2. CASE locked' = locked
  BY <1>2
<1>3. ASSUME NEW c \in Key, NEW to \in Key, NEW a \in Amounts, NEW d \in Durations,
             CallCreateLock(c, to, a, d)
      PROVE  DOMAIN locked' = Token
  BY <1>1, <1>3 DEF CallCreateLock
<1>4. ASSUME NEW c \in Key, NEW t \in Token, NEW a \in Amounts,
             \/ CallDepositFor(c, t, a)
             \/ CallIncreaseAmount(c, t, a)
             \/ CallIncreaseAmountFor(c, t, a)
      PROVE  DOMAIN locked' = Token
  BY <1>1, <1>4 DEF CallDepositFor, CallIncreaseAmount, CallIncreaseAmountFor, AddToLock
<1>5. ASSUME NEW c \in Key, NEW t \in Token, NEW d \in Durations,
             CallIncreaseUnlockTime(c, t, d)
      PROVE  DOMAIN locked' = Token
  BY <1>1, <1>5 DEF CallIncreaseUnlockTime
<1>6. ASSUME NEW c \in Key, NEW from \in Token, NEW to \in Token, CallMerge(c, from, to)
      PROVE  DOMAIN locked' = Token
  <2>1. DOMAIN [locked EXCEPT ![from] = E!NoLock] = Token
    OBVIOUS
  <2> QED
    BY <1>1, <1>6, <2>1 DEF CallMerge
<1>7. ASSUME Tick \/ Return \/ UNCHANGED veVars
             \/ \E c \in Key : CallCheckPoint(c) \/ CallLedger(c) \/ CallOffice(c)
      PROVE  locked' = locked
  BY <1>7 DEF Tick, E!Tick, Return, veVars, escrowVars, CallCheckPoint, E!CheckPoint,
              CallLedger, CallOffice
<1> QED
  BY <1>2, <1>3, <1>4, <1>5, <1>6, <1>7 DEF VeNext

\* Every step keeps the invariant.
LEMMA NextVeInv == VeInv /\ [VeNext]_veVars => VeInv'
<1> SUFFICES ASSUME VeInv, [VeNext]_veVars PROVE VeInv'
  OBVIOUS
<1>1. VotingInv'
  BY StepKeepsVoting DEF VeInv
<1>2. CallsInv'
  BY StepKeepsCalls DEF VeInv, CallsInv
<1>3. DOMAIN locked' = Token
  BY StepKeepsLockTable DEF VeInv
<1> QED
  BY <1>1, <1>2, <1>3 DEF VeInv, CallsInv

\* The invariant holds in every reachable state.
THEOREM VeInvariant == VeSpec => []VeInv
BY InitVeInv, NextVeInv, PTL DEF VeSpec

\* At most one call that takes the lock is open, and the flag is set exactly
\* while one is, for any number of contracts that call back to any depth.
THEOREM TheLockExcludes == VeSpec => []LockExcludes
<1>1. VeInv => LockExcludes
  BY DEF VeInv
<1> QED
  BY <1>1, VeInvariant, PTL

\* With callbacks the enumeration of tokens still matches their owners.
THEOREM CallbacksKeepEnumeration == VeSpec => []EnumerationMatchesOwnership
<1>1. VeInv => EnumerationMatchesOwnership
  BY DEF VeInv, VotingInv, NFTInv
<1> QED
  BY <1>1, VeInvariant, PTL

-----------------------------------------------------------------------------
(* Who may change what.                                                     *)

\* What a step may change, as AuthorityRespected says.
Authorised ==
    /\ \A t \in DOMAIN owners :
         locked'[t].end # locked[t].end \/ t \notin DOMAIN owners'
             => SpeaksFor(caller', t)
    /\ voted' # voted \/ attachments' # attachments \/ voter' # voter
             => caller' = voter
    /\ team' # team \/ artProxy' # artProxy => caller' = team

\* A step of the ledger or of voting that burns nothing.
LEMMA LedgerStepKeepsTokens ==
    ASSUME NEW c, CallLedger(c)
    PROVE  DOMAIN owners' = DOMAIN owners
<1>1. CASE \E delegatee \in Delegatees : Delegate(c, delegatee)
  BY <1>1 DEF Delegate
<1>2. CASE \E spender \in Spenders, batch \in Batches : Approval(c, spender, batch)
  BY <1>2 DEF Approval, Approve
<1>3. CASE \E owner, recipient \in Key, batch \in Batches :
               Transfer(c, owner, recipient, batch)
  BY <1>3 DEF Transfer, TransferFrom
<1>4. CASE \E t \in Token, meta \in Metas : UpdateTokenMeta(c, t, meta)
  BY <1>4 DEF UpdateTokenMeta, SetTokenMeta
<1>5. CASE UNCHANGED <<ledgerVars, votesVars>>
  BY <1>5 DEF ledgerVars
<1> QED
  BY <1>1, <1>2, <1>3, <1>4, <1>5 DEF CallLedger

\* Every step is authorised.
LEMMA StepIsAuthorised == VeInv /\ VeNext => Authorised
<1> SUFFICES ASSUME VeInv, VeNext PROVE Authorised
  OBVIOUS
<1>1. DOMAIN locked = Token /\ DOMAIN owners \subseteq Token
  BY DEF VeInv, VotingInv, NFTInv, NFTTypeOK, IsDict
<1>2. ASSUME locked' = locked, DOMAIN owners' = DOMAIN owners,
             UNCHANGED <<roleVars, gaugeVars>>
      PROVE  Authorised
  BY <1>2 DEF Authorised, roleVars, gaugeVars
<1>3. CASE Tick \/ Return
  BY <1>2, <1>3 DEF Tick, E!Tick, Return, votingVars, vars, escrowVars
<1>4. ASSUME NEW c \in Key, NEW to \in Key, NEW a \in Amounts, NEW d \in Durations,
             CallCreateLock(c, to, a, d)
      PROVE  Authorised
  <2>1. /\ NextTokenId \notin DOMAIN owners
        /\ DOMAIN owners' = DOMAIN owners \cup {NextTokenId}
    BY <1>4 DEF CallCreateLock, CreateLock, Mint, DictHas, DictSet
  <2>2. \A t \in Token \ {NextTokenId} : locked'[t] = locked[t]
    BY <1>1, <1>4 DEF CallCreateLock, E!Deposit
  <2>3. UNCHANGED <<roleVars, gaugeVars>>
    BY <1>4 DEF CallCreateLock
  <2> QED
    BY <1>1, <2>1, <2>2, <2>3 DEF Authorised, roleVars, gaugeVars
<1>5. ASSUME NEW c \in Key, NEW t \in Token, NEW a \in Amounts,
             \/ CallDepositFor(c, t, a)
             \/ CallIncreaseAmount(c, t, a)
             \/ CallIncreaseAmountFor(c, t, a)
      PROVE  Authorised
  <2>1. AddToLock(t, a, FALSE) \/ AddToLock(t, a, TRUE)
    BY <1>5 DEF CallDepositFor, CallIncreaseAmount, CallIncreaseAmountFor
  <2>2. /\ locked' = [locked EXCEPT ![t] = E!Extended(locked[t], a, 0)]
        /\ UNCHANGED <<ledgerVars, roleVars, gaugeVars>>
    BY <2>1 DEF AddToLock, E!Deposit
  <2>3. E!Extended(locked[t], a, 0).end = locked[t].end
    BY DEF E!Extended
  <2>4. \A u \in Token : locked'[u].end = locked[u].end
    BY <1>1, <2>2, <2>3
  <2> QED
    BY <1>1, <2>2, <2>4 DEF Authorised, ledgerVars, roleVars, gaugeVars
<1>6. ASSUME NEW c \in Key, NEW t \in Token, NEW d \in Durations,
             CallIncreaseUnlockTime(c, t, d)
      PROVE  Authorised
  <2>1. /\ caller' = c /\ SpeaksFor(c, t)
        /\ UNCHANGED <<ledgerVars, roleVars, gaugeVars>>
    BY <1>6 DEF CallIncreaseUnlockTime, CalledBy, SpeaksFor
  <2>2. \A u \in Token \ {t} : locked'[u] = locked[u]
    BY <1>1, <1>6 DEF CallIncreaseUnlockTime, E!Deposit
  <2> QED
    BY <1>1, <2>1, <2>2 DEF Authorised, ledgerVars, roleVars, gaugeVars
<1>7. ASSUME NEW c \in Key, NEW from \in Token, NEW to \in Token, CallMerge(c, from, to)
      PROVE  Authorised
  <2>1. /\ caller' = c /\ SpeaksFor(c, from) /\ SpeaksFor(c, to)
        /\ DOMAIN owners' = DOMAIN owners \ {from}
        /\ UNCHANGED <<roleVars, gaugeVars>>
    BY <1>7 DEF CallMerge, CalledBy, Merge, Burn, SpeaksFor, DictRemove
  <2>2. \A u \in Token \ {from, to} : locked'[u] = locked[u]
    BY <1>1, <1>7 DEF CallMerge, E!Deposit
  <2> QED
    BY <1>1, <2>1, <2>2 DEF Authorised, roleVars, gaugeVars
<1>8. ASSUME NEW c \in Key, CallCheckPoint(c) PROVE Authorised
  BY <1>2, <1>8 DEF CallCheckPoint, E!CheckPoint, ledgerVars
<1>9. ASSUME NEW c \in Key, CallLedger(c) PROVE Authorised
  <2>1. locked' = locked /\ UNCHANGED <<roleVars, gaugeVars>>
    BY <1>9 DEF CallLedger, escrowVars
  <2> QED
    BY <1>2, <1>9, <2>1, LedgerStepKeepsTokens
<1>10. ASSUME NEW c \in Key, CallOffice(c) PROVE Authorised
  <2>1. caller' = c /\ locked' = locked /\ owners' = owners
    BY <1>10 DEF CallOffice, CalledBy, escrowVars, ledgerVars
  <2>2. \/ c = voter /\ UNCHANGED <<team, artProxy>>
        \/ c = team /\ UNCHANGED <<voter, voted, attachments>>
    BY <1>10 DEF CallOffice, SetVoted, Attach, Detach, SetVoter, SetTeam, SetArtProxy,
                 OnlyVoter, roleVars, gaugeVars
  <2> QED
    BY <2>1, <2>2 DEF Authorised
<1> QED
  BY <1>3, <1>4, <1>5, <1>6, <1>7, <1>8, <1>9, <1>10 DEF VeNext

\* A lock ends later or goes into another, and a flag or a role changes, only
\* in a call of a key that has the authority, callbacks included.
THEOREM AuthorityIsRespected == VeSpec => AuthorityRespected
<1>1. VeInv /\ [VeNext]_veVars => [Authorised]_veVars
  BY StepIsAuthorised
<1> QED
  BY <1>1, VeInvariant, PTL DEF VeSpec, AuthorityRespected, Authorised

-----------------------------------------------------------------------------
(* The escrow under callbacks is the escrow without.                        *)

\* The ids that the escrow and the ledger number a new token with are one.
LEMMA NextIdIsCount ==
    ASSUME VeInv
    PROVE  NextTokenId = E!Cardinality(DOMAIN owners) + 1
<1>1. E!Cardinality(DOMAIN owners) = Cardinality(DOMAIN owners)
  BY Zenon DEF E!Cardinality, Cardinality
<1> QED
  BY <1>1 DEF VeInv, VotingInv, NFTInv, SupplyIsLiveTokens, NextTokenId

\* Every step is a step of the escrow, or leaves it as it is.
LEMMA StepOfEscrow == VeInv /\ [VeNext]_veVars => [E!EscrowNext]_(E!vars)
<1> SUFFICES ASSUME VeInv, [VeNext]_veVars PROVE [E!EscrowNext]_(E!vars)
  OBVIOUS
<1>1. ASSUME DOMAIN owners' = DOMAIN owners, UNCHANGED <<escrowVars, callVars>>
      PROVE  UNCHANGED E!vars
  BY <1>1 DEF E!vars, escrowVars, callVars
<1>2. CASE UNCHANGED veVars
  BY <1>1, <1>2 DEF veVars, votingVars, vars
<1>3. CASE Tick
  <2>1. E!Tick
    BY <1>3 DEF Tick
  <2> QED
    BY <2>1 DEF E!EscrowNext
<1>4. CASE Return
  <2>1. escrowed' + owed' = escrowed + owed
    BY <1>4, ReturnKeeps DEF VeInv, CallsInv
  <2>2. owners' = owners /\ UNCHANGED escrowVars
    BY <1>4 DEF Return, votingVars, vars
  <2> QED
    BY <2>1, <2>2 DEF E!vars, escrowVars
<1>5. ASSUME NEW c \in Key, NEW to \in Key, NEW a \in Amounts, NEW d \in Durations,
             CallCreateLock(c, to, a, d)
      PROVE  E!EscrowNext
  <2>1. /\ NextTokenId \in Token \ DOMAIN owners
        /\ DOMAIN owners' = DOMAIN owners \cup {NextTokenId}
    BY <1>5 DEF CallCreateLock, CreateLock, Mint, DictHas, DictSet
  <2>2. /\ E!UnlockTime(d) > now
        /\ E!Positive(a)
        /\ E!UnlockTime(d) <= now + MaxTime
        /\ E!Deposit(locked, book, NextTokenId, a, E!UnlockTime(d), FALSE)
        /\ UNCHANGED now
    BY <1>5 DEF CallCreateLock
  <2>3. NextTokenId \in E!Token
    BY <2>1 DEF E!Token, Token
  <2>4. E!CreateLock(a, d)
    BY <2>1, <2>2, <2>3, NextIdIsCount DEF E!CreateLock
  <2> QED
    BY <2>4 DEF E!EscrowNext
<1>6. ASSUME NEW c \in Key, NEW t \in Token, NEW a \in Amounts,
             \/ CallDepositFor(c, t, a)
             \/ CallIncreaseAmount(c, t, a)
             \/ CallIncreaseAmountFor(c, t, a)
      PROVE  E!EscrowNext
  <2>1. AddToLock(t, a, FALSE) \/ AddToLock(t, a, TRUE)
    BY <1>6 DEF CallDepositFor, CallIncreaseAmount, CallIncreaseAmountFor
  <2>2. E!DepositFor(t, a)
    BY <2>1 DEF AddToLock, E!DepositFor, ledgerVars
  <2> QED
    BY <2>2 DEF E!EscrowNext, E!Token, Token
<1>7. ASSUME NEW c \in Key, NEW t \in Token, NEW d \in Durations,
             CallIncreaseUnlockTime(c, t, d)
      PROVE  E!EscrowNext
  <2>1. E!IncreaseUnlockTime(t, d)
    BY <1>7 DEF CallIncreaseUnlockTime, E!IncreaseUnlockTime, ledgerVars,
                IsApprovedOrOwner, DictHas
  <2> QED
    BY <2>1 DEF E!EscrowNext, E!Token, Token
<1>8. ASSUME NEW c \in Key, NEW from \in Token, NEW to \in Token, CallMerge(c, from, to)
      PROVE  E!EscrowNext
  <2>1. /\ from # to /\ {from, to} \subseteq DOMAIN owners
        /\ DOMAIN owners' = DOMAIN owners \ {from}
    BY <1>8 DEF CallMerge, Merge, Burn, IsApprovedOrOwner, DictHas, DictRemove
  <2>2. E!Merge(from, to)
    BY <1>8, <2>1 DEF CallMerge, E!Merge
  <2> QED
    BY <2>2 DEF E!EscrowNext, E!Token, Token
<1>9. ASSUME NEW c \in Key, CallCheckPoint(c) PROVE E!EscrowNext
  BY <1>9 DEF CallCheckPoint, E!EscrowNext
<1>10. ASSUME NEW c \in Key, CallLedger(c) PROVE UNCHANGED E!vars
  BY <1>1, <1>10, LedgerStepKeepsTokens DEF CallLedger, Completes
<1>11. ASSUME NEW c \in Key, CallOffice(c) PROVE UNCHANGED E!vars
  BY <1>1, <1>11 DEF CallOffice, Completes, ledgerVars
<1> QED
  BY <1>2, <1>3, <1>4, <1>5, <1>6, <1>7, <1>8, <1>9, <1>10, <1>11 DEF VeNext

\* The constructor's state is the escrow's.
LEMMA InitOfEscrow == VeInit => E!EscrowInit
<1> SUFFICES ASSUME VeInit PROVE E!EscrowInit
  OBVIOUS
<1>1. DOMAIN owners = {}
  BY DEF VeInit, VotingInit, NFTInit, EmptyDict
<1> QED
  BY <1>1 DEF VeInit, E!EscrowInit, E!Token, Token

\* Whatever the locked token calls back, and however deep, the escrow goes
\* through steps that it goes through when calls run one after the other.
THEOREM CallbacksImplementEscrow == VeSpec => ImplementsEscrow
BY InitOfEscrow, StepOfEscrow, VeInvariant, PTL
   DEF VeSpec, ImplementsEscrow, E!EscrowSpec

-----------------------------------------------------------------------------
(* What is proved of the escrow, for the escrow under callbacks.  The        *)
(* theorems of EscrowProofs are about module Escrow as EP instantiates it,   *)
(* and E instantiates it too: the lemmas say that both are the same.         *)

EP == INSTANCE EscrowProofs WITH minted <- DOMAIN owners, escrowed <- escrowed + owed

\* The walk over the weeks, and its rounds.
LEMMA SameWalk ==
    ASSUME NEW p0, NEW slopes, NEW ts
    PROVE  /\ E!Walk(p0, slopes, ts) = EP!Walk(p0, slopes, ts)
           /\ E!Rounds(p0.ts, ts) = EP!Rounds(p0.ts, ts)
           /\ E!LastPoint(p0, ts) = EP!LastPoint(p0, ts)
<1>1. E!Walk(p0, slopes, ts) = EP!Walk(p0, slopes, ts)
  BY DEF E!Walk, EP!Walk, E!Decay, EP!Decay, E!RoundEnd, EP!RoundEnd, E!RoundSlope,
       EP!RoundSlope, E!Rounds, EP!Rounds, E!FloorWeek, EP!FloorWeek, E!NonNeg, EP!NonNeg
<1>2. E!Rounds(p0.ts, ts) = EP!Rounds(p0.ts, ts)
  BY DEF E!Rounds, EP!Rounds, E!FloorWeek, EP!FloorWeek
<1>3. E!LastPoint(p0, ts) = EP!LastPoint(p0, ts)
  BY DEF E!LastPoint, EP!LastPoint, E!ZeroPoint, EP!ZeroPoint
<1> QED
  BY <1>1, <1>2, <1>3

\* A lock's point.
LEMMA SameUserPoint ==
    ASSUME NEW lock, NEW ts
    PROVE  E!UserPoint(lock, ts) = EP!UserPoint(lock, ts)
BY DEF E!UserPoint, EP!UserPoint, E!ZeroPoint, EP!ZeroPoint

\* The changes of slope.
LEMMA SameReschedule ==
    ASSUME NEW slopes, NEW ts, NEW old, NEW new
    PROVE  E!Reschedule(slopes, ts, old, new) = EP!Reschedule(slopes, ts, old, new)
BY SameUserPoint DEF E!Reschedule, EP!Reschedule

\* The global part of a checkpoint.
LEMMA SameGlobalCheckPoint ==
    ASSUME NEW b, NEW ts, NEW uOld, NEW uNew
    PROVE  E!GlobalCheckPoint(b, ts, uOld, uNew) = EP!GlobalCheckPoint(b, ts, uOld, uNew)
<1>1. ASSUME NEW p PROVE E!AddUser(p, uOld, uNew) = EP!AddUser(p, uOld, uNew)
  BY DEF E!AddUser, EP!AddUser, E!NonNeg, EP!NonNeg
<1> QED
  BY <1>1, SameWalk DEF E!GlobalCheckPoint, EP!GlobalCheckPoint

\* A checkpoint.
LEMMA SameCheckPointed ==
    ASSUME NEW b, NEW ts, NEW t, NEW old, NEW new
    PROVE  E!CheckPointed(b, ts, t, old, new) = EP!CheckPointed(b, ts, t, old, new)
<1>1. ASSUME NEW c
      PROVE  E!UserCheckPoint(c, ts, t, old, new) = EP!UserCheckPoint(c, ts, t, old, new)
  <2>1. ASSUME NEW e PROVE E!UserPointKey(t, e) = EP!UserPointKey(t, e)
    BY DEF E!UserPointKey, EP!UserPointKey, E!Shift, EP!Shift
  <2>2. ASSUME NEW d, NEW k, NEW v PROVE E!DictSet(d, k, v) = EP!DictSet(d, k, v)
    BY DEF E!DictSet, EP!DictSet
  <2> QED
    BY <2>1, <2>2, SameReschedule, SameUserPoint
       DEF E!UserCheckPoint, EP!UserCheckPoint
<1> QED
  BY <1>1, SameGlobalCheckPoint, SameUserPoint DEF E!CheckPointed, EP!CheckPointed

\* A deposit.
LEMMA SameDeposit ==
    ASSUME NEW locks, NEW b, NEW t, NEW value, NEW unlockTime, NEW isMerge
    PROVE  E!Deposit(locks, b, t, value, unlockTime, isMerge)
             <=> EP!Deposit(locks, b, t, value, unlockTime, isMerge)
<1>1. ASSUME NEW lock
      PROVE  E!Extended(lock, value, unlockTime) = EP!Extended(lock, value, unlockTime)
  BY DEF E!Extended, EP!Extended
<1>2. E!Pay(value, isMerge) <=> EP!Pay(value, isMerge)
  BY DEF E!Pay, EP!Pay
<1> QED
  BY <1>1, <1>2, SameCheckPointed DEF E!Deposit, EP!Deposit

\* A step.
LEMMA SameNext == [E!EscrowNext]_(E!vars) <=> [EP!EscrowNext]_(EP!vars)
<1>1. E!Tick <=> EP!Tick
  BY DEF E!Tick, EP!Tick
<1>2. E!CheckPoint <=> EP!CheckPoint
  BY SameGlobalCheckPoint DEF E!CheckPoint, EP!CheckPoint, E!ZeroPoint, EP!ZeroPoint
<1>3. /\ E!Token = EP!Token
      /\ \A lock : E!IsLive(lock) <=> EP!IsLive(lock)
      /\ \A a : E!Positive(a) <=> EP!Positive(a)
      /\ \A d : E!UnlockTime(d) = EP!UnlockTime(d)
      /\ E!NoLock = EP!NoLock
  BY DEF E!Token, EP!Token, E!IsLive, EP!IsLive, E!Positive, EP!Positive, E!UnlockTime,
       EP!UnlockTime, E!FloorWeek, EP!FloorWeek, E!NoLock, EP!NoLock
<1>4. ASSUME NEW a, NEW d PROVE E!CreateLock(a, d) <=> EP!CreateLock(a, d)
  <2>1. E!Cardinality(DOMAIN owners) = EP!Cardinality(DOMAIN owners)
    BY Zenon DEF E!Cardinality, EP!Cardinality
  <2> QED
    BY <1>3, <2>1, SameDeposit DEF E!CreateLock, EP!CreateLock
<1>5. ASSUME NEW t, NEW a
      PROVE  /\ E!DepositFor(t, a) <=> EP!DepositFor(t, a)
             /\ E!IncreaseAmount(t, a) <=> EP!IncreaseAmount(t, a)
             /\ E!IncreaseAmountFor(t, a) <=> EP!IncreaseAmountFor(t, a)
  BY <1>3, SameDeposit
     DEF E!DepositFor, EP!DepositFor, E!IncreaseAmount, EP!IncreaseAmount,
       E!IncreaseAmountFor, EP!IncreaseAmountFor
<1>6. ASSUME NEW t, NEW d PROVE E!IncreaseUnlockTime(t, d) <=> EP!IncreaseUnlockTime(t, d)
  BY <1>3, SameDeposit DEF E!IncreaseUnlockTime, EP!IncreaseUnlockTime
<1>7. ASSUME NEW from, NEW to PROVE E!Merge(from, to) <=> EP!Merge(from, to)
  BY <1>3, SameDeposit, SameCheckPointed DEF E!Merge, EP!Merge
<1>8. ASSUME NEW t PROVE E!Withdraw(t) <=> EP!Withdraw(t)
  BY DEF E!Withdraw, EP!Withdraw, E!vars, EP!vars
<1>9. E!EscrowNext <=> EP!EscrowNext
  BY <1>1, <1>2, <1>3, <1>4, <1>5, <1>6, <1>7, <1>8 DEF E!EscrowNext, EP!EscrowNext
<1> QED
  BY <1>9 DEF E!vars, EP!vars

\* The escrow under callbacks behaves as the one that EscrowProofs is about.
LEMMA BehavesAsEscrow == VeSpec => EP!EscrowSpec
<1>1. E!EscrowInit => EP!EscrowInit
  BY DEF E!EscrowInit, EP!EscrowInit, E!EmptyBook, EP!EmptyBook, E!NoLock, EP!NoLock,
       E!Token, EP!Token, E!ZeroPoint, EP!ZeroPoint, E!EmptyDict, EP!EmptyDict, E!Times,
       EP!Times
<1> QED
  BY <1>1, SameNext, CallbacksImplementEscrow, PTL
     DEF ImplementsEscrow, E!EscrowSpec, EP!EscrowSpec

\* The assumptions on constants are those of the escrow.
LEMMA SameAssumption == EP!EscrowAssumption
BY VeAssumption DEF E!EscrowAssumption, EP!EscrowAssumption

\* With callbacks at every chance, the changes of slope that are scheduled
\* still match the locks, the locks end in time, exactly the tokens that have
\* an owner are locked, and no lock shrinks but into another.
THEOREM CallbacksKeepEscrow ==
    VeSpec => /\ [](EP!SlopeChangesMatch /\ EP!LockHorizon /\ EP!LockedIffMinted)
              /\ EP!LocksNeverShrink
BY BehavesAsEscrow, SameAssumption, EP!SlopeChangesAreScheduled, EP!LocksEndInTime,
   EP!OnlyMintedAreLocked, EP!LocksOnlyGrow, PTL

\* Nor does a call in the middle of another disturb the global point: on a clock
\* that has run no longer than the loop over weeks can make up, it is the sum of
\* what all the locks weigh, also while open calls have still to be paid.
THEOREM CallbacksKeepGlobalPoint ==
    ASSUME Horizon <= EP!FloorWeek(Start) + Week * MaxIterations
    PROVE  VeSpec => []EP!GlobalIsSum
<1>1. EP!EscrowSpec => EP!CallsInReach
  BY SameAssumption, EP!ShortClockReaches
<1>2. EP!EscrowSpec /\ EP!CallsInReach => []EP!GlobalIsSum
  BY SameAssumption, EP!GlobalPointIsSum
<1> QED
  BY <1>1, <1>2, BehavesAsEscrow, PTL

-----------------------------------------------------------------------------
(* What the contract holds, and what it is about to be paid.                *)

Values(calls) == [i \in DOMAIN calls |-> calls[i].value]

\* What the open calls have still to pay is what is owed.
PaidInv ==
    /\ open \in Seq(Call)
    /\ escrowed \in Nat
    /\ owed = SumFunction(Values(open))

\* The sum over the open calls, the last one apart.
LEMMA SumOfCalls ==
    ASSUME NEW calls \in Seq(Call)
    PROVE  /\ SumFunction(Values(calls)) \in Nat
           /\ calls # <<>> =>
                SumFunction(Values(calls))
                  = SumFunction(Values(SubSeq(calls, 1, Len(calls) - 1)))
                    + calls[Len(calls)].value
<1> DEFINE n == Len(calls)
           v == Values(calls)
<1>1. /\ n \in Nat /\ DOMAIN calls = 1..n
      /\ \A i \in 1..n : calls[i] \in Call
  OBVIOUS
<1>2. DOMAIN v = 1..n /\ \A i \in 1..n : v[i] \in Nat /\ v[i] = calls[i].value
  BY <1>1 DEF Values, Call
<1>3. IsFiniteSet(1..n)
  BY <1>1, FS_Interval
<1>4. SumFunction(v) = SumFunctionOnSet(v, 1..n)
  BY <1>2 DEF SumFunction, SumFunctionOnSet, FoldFunction
<1>5. SumFunction(v) \in Nat
  <2> HIDE DEF v
  <2>1. SumFunctionOnSet(v, 1..n) \in Nat
    BY <1>2, <1>3, SumIsNat
  <2> QED
    BY <1>4, <2>1
<1>6. ASSUME calls # <<>>
      PROVE  SumFunction(v) = SumFunction(Values(SubSeq(calls, 1, n - 1))) + calls[n].value
  <2> DEFINE short == SubSeq(calls, 1, n - 1)
             w == Values(short)
  <2>1. n \in 1..n /\ n - 1 \in Nat /\ (1..n) \ {n} = 1..(n - 1)
    BY <1>1, <1>6
  <2>2. DOMAIN short = 1..(n - 1) /\ \A i \in 1..(n - 1) : short[i] = calls[i]
    BY <1>1, <2>1
  <2> HIDE DEF short
  <2>3. DOMAIN w = 1..(n - 1) /\ \A i \in 1..(n - 1) : w[i] = v[i]
    BY <1>2, <2>1, <2>2 DEF Values
  <2>4. SumFunction(w) = SumFunctionOnSet(w, 1..(n - 1))
    BY <2>3 DEF SumFunction, SumFunctionOnSet, FoldFunction
  <2> HIDE DEF v, w
  <2>5. IsFiniteSet(1..(n - 1))
    BY <2>1, FS_Interval
  <2>6. SumFunctionOnSet(v, 1..(n - 1)) = SumFunctionOnSet(w, 1..(n - 1))
    BY <2>3, <2>5, SumSame
  <2>7. SumFunctionOnSet(v, 1..n) = v[n] + SumFunctionOnSet(v, (1..n) \ {n})
    <3>1. \A i \in 1..n : v[i] \in Int
      BY <1>2
    <3> HIDE DEF n
    <3> QED
      BY <1>3, <2>1, <3>1, SumTakeOut
  <2>8. SumFunctionOnSet(w, 1..(n - 1)) \in Nat
    <3>1. \A i \in 1..(n - 1) : w[i] \in Nat
      BY <1>2, <2>1, <2>3
    <3> QED
      BY <2>5, <3>1, SumIsNat
  <2>9. v[n] \in Nat /\ v[n] = calls[n].value
    BY <1>2, <2>1
  <2>10. SumFunction(v) = SumFunction(w) + calls[n].value
    <3> DEFINE all == SumFunctionOnSet(v, 1..n)
               rest == SumFunctionOnSet(w, 1..(n - 1))
    <3>1. all = v[n] + SumFunctionOnSet(v, 1..(n - 1))
      BY ONLY <2>1, <2>7
    <3>2. all = v[n] + rest
      BY <2>6, <3>1
    <3>3. SumFunction(v) = all /\ SumFunction(w) = rest
      BY <1>4, <2>4
    <3>4. rest \in Nat /\ v[n] \in Nat /\ v[n] = calls[n].value
      BY <2>8, <2>9
    <3> HIDE DEF all, rest
    <3>5. v[n] + rest = rest + v[n]
      BY <3>4
    <3> QED
      BY <3>2, <3>3, <3>4, <3>5
  <2> QED
    BY <2>10 DEF w, short
<1> QED
  BY <1>5, <1>6

\* Every step keeps what is owed the sum over the open calls.
LEMMA NextPaidInv == PaidInv /\ CallsInv /\ [VeNext]_veVars => PaidInv'
<1> SUFFICES ASSUME PaidInv, CallsInv, [VeNext]_veVars PROVE PaidInv'
  OBVIOUS
<1>1. open' \in Seq(Call)
  BY StepKeepsCalls DEF CallsInv
<1>2. CASE UNCHANGED callVars
  BY <1>2 DEF PaidInv, callVars
<1>3. ASSUME NEW value \in Nat, NEW holdsLock \in BOOLEAN, Awaits(value, holdsLock)
      PROVE  PaidInv'
  <2> DEFINE call == [value |-> value, holdsLock |-> holdsLock]
  <2>1. call \in Call /\ call.value = value
    BY DEF Call
  <2>2. /\ open \in Seq(Call) /\ open' = Append(open, call)
        /\ owed' = owed + value /\ escrowed' = escrowed
    BY <1>3 DEF PaidInv, Awaits
  <2> HIDE DEF call
  <2>3. /\ open' # <<>>
        /\ open'[Len(open')] = call
        /\ SubSeq(open', 1, Len(open') - 1) = open
    <3>1. Len(open) \in Nat /\ Len(open') = Len(open) + 1
      BY <2>1, <2>2
    <3>2. open' # <<>> /\ open'[Len(open) + 1] = call /\ Len(open') - 1 = Len(open)
      BY <2>1, <2>2, <3>1
    <3>3. SubSeq(open', 1, Len(open)) = open
      BY <2>1, <2>2, <3>1
    <3> QED
      BY <3>1, <3>2, <3>3
  <2>4. SumFunction(Values(open')) = SumFunction(Values(open)) + value
    BY <1>1, <2>1, <2>3, SumOfCalls
  <2> QED
    BY <1>1, <2>2, <2>4 DEF PaidInv
<1>4. CASE Return
  <2> DEFINE value == open[Len(open)].value
  <2>1. /\ open \in Seq(Call) /\ open # <<>>
        /\ open' = SubSeq(open, 1, Len(open) - 1)
        /\ escrowed' = escrowed + value
        /\ owed' = owed - value
    BY <1>4 DEF PaidInv, Return
  <2>2. value \in Nat
    <3>1. Len(open) \in 1..Len(open)
      BY <2>1
    <3>2. open[Len(open)] \in Call
      BY <2>1, <3>1
    <3> QED
      BY <3>2 DEF Call
  <2>3. owed = SumFunction(Values(open')) + value
    BY <2>1, SumOfCalls DEF PaidInv
  <2>4. SumFunction(Values(open')) \in Nat
    BY <1>1, SumOfCalls
  <2> HIDE DEF value
  <2>5. escrowed' \in Nat /\ owed' = SumFunction(Values(open'))
    BY <2>1, <2>2, <2>3, <2>4 DEF PaidInv
  <2> QED
    BY <1>1, <2>5 DEF PaidInv
<1>5. CASE Tick
  BY <1>2, <1>5 DEF Tick
<1>6. ASSUME NEW c \in Key, NEW to \in Key, NEW a \in Amounts, NEW d \in Durations,
             CallCreateLock(c, to, a, d)
      PROVE  PaidInv'
  BY <1>3, <1>6, VeConstants DEF CallCreateLock
<1>7. ASSUME NEW c \in Key, NEW t \in Token, NEW a \in Amounts,
             \/ CallDepositFor(c, t, a)
             \/ CallIncreaseAmount(c, t, a)
             \/ CallIncreaseAmountFor(c, t, a)
      PROVE  PaidInv'
  <2>1. a \in Nat /\ (Awaits(a, FALSE) \/ Awaits(a, TRUE))
    BY <1>7, VeConstants DEF CallDepositFor, CallIncreaseAmount, CallIncreaseAmountFor,
                             AddToLock
  <2> QED
    BY <1>3, <2>1
<1>8. ASSUME NEW c \in Key,
             \/ \E t \in Token, d \in Durations : CallIncreaseUnlockTime(c, t, d)
             \/ \E from, to \in Token : CallMerge(c, from, to)
             \/ CallCheckPoint(c)
             \/ CallLedger(c)
             \/ CallOffice(c)
      PROVE  PaidInv'
  BY <1>2, <1>8 DEF CallIncreaseUnlockTime, CallMerge, CallCheckPoint, CallLedger,
                    CallOffice, Completes
<1> QED
  BY <1>2, <1>4, <1>5, <1>6, <1>7, <1>8 DEF VeNext, veVars

\* What is owed is the sum over the open calls in every reachable state.
LEMMA PaidInvariant == VeSpec => []PaidInv
<1>1. VeInit => PaidInv
  <2> SUFFICES ASSUME VeInit PROVE PaidInv
    OBVIOUS
  <2>1. open = <<>> /\ escrowed = 0 /\ owed = 0
    BY DEF VeInit
  <2> DEFINE v == Values(open)
  <2>2. DOMAIN v = {}
    BY <2>1 DEF Values
  <2> HIDE DEF v
  <2>3. SumFunction(v) = SumFunctionOnSet(v, {})
    BY <2>2 DEF SumFunction, SumFunctionOnSet, FoldFunction
  <2>4. SumFunction(v) = 0
    BY <2>3, SumEmpty
  <2>5. open \in Seq(Call)
    BY <2>1
  <2> QED
    BY <2>1, <2>4, <2>5 DEF PaidInv, v
<1>2. VeInv /\ PaidInv /\ [VeNext]_veVars => PaidInv'
  BY NextPaidInv DEF VeInv, CallsInv
<1> QED
  BY <1>1, <1>2, VeInvariant, PTL DEF VeSpec

\* In the middle of any nest of calls, the locks record to the unit what the
\* contract holds and what the open calls are about to pay.
THEOREM LocksStayBacked == VeSpec => []LocksAreBacked
<1>1. PaidInv /\ EP!Solvency => LocksAreBacked
  <2> SUFFICES ASSUME PaidInv, EP!Solvency PROVE LocksAreBacked
    OBVIOUS
  <2>1. owed = SumFunction([i \in DOMAIN open |-> open[i].value])
    BY DEF PaidInv, Values
  <2>2. EP!Token = Token
    BY DEF EP!Token, Token
  <2>3. ASSUME NEW f, NEW S PROVE EP!SumFunctionOnSet(f, S) = SumFunctionOnSet(f, S)
    BY DEF EP!SumFunctionOnSet, SumFunctionOnSet, EP!FoldFunctionOnSet, FoldFunctionOnSet,
           EP!MapThenFoldSet, MapThenFoldSet
  <2>4. escrowed + owed = SumFunctionOnSet([t \in Token |-> locked[t].amount], Token)
    BY <2>2, <2>3 DEF EP!Solvency
  <2> QED
    BY <2>1, <2>4 DEF LocksAreBacked
<1> QED
  BY <1>1, PaidInvariant, BehavesAsEscrow, SameAssumption, EP!EscrowIsSolvent, PTL

-----------------------------------------------------------------------------
(* Types.                                                                   *)

\* The types of what neither the escrow nor voting has.
OfficesTypeOK ==
    /\ nested \in 0..MaxNested
    /\ isLocked \in BOOLEAN
    /\ {team, artProxy, voter} \subseteq Key
    /\ voted \in [GaugeIds -> BOOLEAN]
    /\ attachments \in [GaugeIds -> 0..(U64 - 1)]

\* A step of a call keeps the count of calls.
LEMMA CalledByType ==
    ASSUME NEW c \in Key, CalledBy(c), nested \in 0..MaxNested
    PROVE  nested' \in 0..MaxNested
<1>1. MaxNested \in Nat
  BY VeAssumption
<1> QED
  BY <1>1 DEF CalledBy

\* The offices and the gauges are written by their own calls only.
LEMMA OfficeCallType ==
    ASSUME OfficesTypeOK, NEW c \in Key, CallOffice(c)
    PROVE  /\ {team', artProxy', voter'} \subseteq Key
           /\ voted' \in [GaugeIds -> BOOLEAN]
           /\ attachments' \in [GaugeIds -> 0..(U64 - 1)]
<1>1. U64 \in Nat \ {0} /\ GaugeIds \subseteq Nat
  BY VeAssumption
<1>2. ASSUME NEW t \in GaugeIds
      PROVE  (t + 1) % U64 \in 0..(U64 - 1) /\ (t - 1) % U64 \in 0..(U64 - 1)
  <2>1. \A x \in Int : x % U64 \in 0..(U64 - 1)
    BY <1>1
  <2>2. t + 1 \in Int /\ t - 1 \in Int
    BY <1>1
  <2> QED
    BY <2>1, <2>2
<1>3. CASE \E t \in GaugeIds, flag \in BOOLEAN : SetVoted(c, t, flag)
  BY <1>3 DEF SetVoted, roleVars, OfficesTypeOK
<1>4. CASE \E t \in GaugeIds : Attach(c, t) \/ Detach(c, t)
  BY <1>2, <1>4 DEF Attach, Detach, roleVars, OfficesTypeOK
<1>5. CASE \E k \in Key : SetVoter(c, k) \/ SetTeam(c, k) \/ SetArtProxy(c, k)
  BY <1>5 DEF SetVoter, SetTeam, SetArtProxy, gaugeVars, OfficesTypeOK
<1> QED
  BY <1>3, <1>4, <1>5 DEF CallOffice

\* Every step keeps the types.
LEMMA NextOfficesTypeOK == OfficesTypeOK /\ PaidInv /\ [VeNext]_veVars => OfficesTypeOK'
<1> SUFFICES ASSUME OfficesTypeOK, PaidInv, [VeNext]_veVars PROVE OfficesTypeOK'
  OBVIOUS
<1>1. ASSUME UNCHANGED <<roleVars, gaugeVars>>, nested' \in 0..MaxNested,
             isLocked' \in BOOLEAN
      PROVE  OfficesTypeOK'
  BY <1>1 DEF OfficesTypeOK, roleVars, gaugeVars
<1>2. nested \in 0..MaxNested /\ isLocked \in BOOLEAN /\ MaxNested \in Nat
  BY VeAssumption DEF OfficesTypeOK
<1>3. CASE UNCHANGED veVars
  BY <1>1, <1>2, <1>3 DEF veVars, callVars
<1>4. CASE Tick
  BY <1>1, <1>2, <1>4 DEF Tick, callVars
<1>5. CASE Return
  <2>1. nested' \in 0..MaxNested
    BY <1>2, <1>5 DEF Return
  <2>2. isLocked' \in BOOLEAN
    BY <1>5 DEF Return
  <2>3. UNCHANGED <<roleVars, gaugeVars>>
    BY <1>5 DEF Return
  <2> QED
    BY <1>1, <2>1, <2>2, <2>3
<1>6. ASSUME NEW c \in Key, NEW to \in Key, NEW a \in Amounts, NEW d \in Durations,
             CallCreateLock(c, to, a, d)
      PROVE  OfficesTypeOK'
  <2>1. CalledBy(c) /\ Awaits(a, TRUE) /\ UNCHANGED <<roleVars, gaugeVars>>
    BY <1>6 DEF CallCreateLock
  <2>2. isLocked' \in BOOLEAN
    BY <2>1 DEF Awaits
  <2> QED
    BY <1>1, <1>2, <2>1, <2>2, CalledByType
<1>7. ASSUME NEW c \in Key, NEW t \in Token, NEW a \in Amounts,
             \/ CallDepositFor(c, t, a)
             \/ CallIncreaseAmount(c, t, a)
             \/ CallIncreaseAmountFor(c, t, a)
      PROVE  OfficesTypeOK'
  <2>1. /\ CalledBy(c) /\ UNCHANGED <<roleVars, gaugeVars>>
        /\ Awaits(a, FALSE) \/ Awaits(a, TRUE)
    BY <1>7 DEF CallDepositFor, CallIncreaseAmount, CallIncreaseAmountFor, AddToLock
  <2>2. isLocked' \in BOOLEAN
    BY <2>1 DEF Awaits
  <2> QED
    BY <1>1, <1>2, <2>1, <2>2, CalledByType
<1>8. ASSUME NEW c \in Key,
             \/ \E t \in Token, d \in Durations : CallIncreaseUnlockTime(c, t, d)
             \/ \E from, to \in Token : CallMerge(c, from, to)
             \/ CallCheckPoint(c)
             \/ CallLedger(c)
      PROVE  OfficesTypeOK'
  <2>1. CalledBy(c) /\ isLocked' = isLocked /\ UNCHANGED <<roleVars, gaugeVars>>
    BY <1>8 DEF CallIncreaseUnlockTime, CallMerge, CallCheckPoint, CallLedger,
                Completes, callVars
  <2> QED
    BY <1>1, <1>2, <2>1, CalledByType
<1>9. ASSUME NEW c \in Key, CallOffice(c) PROVE OfficesTypeOK'
  <2>1. CalledBy(c) /\ isLocked' = isLocked
    BY <1>9 DEF CallOffice, Completes, callVars
  <2>2. nested' \in 0..MaxNested
    BY <1>2, <2>1, CalledByType
  <2> QED
    BY <1>2, <1>9, <2>1, <2>2, OfficeCallType DEF OfficesTypeOK
<1> QED
  BY <1>3, <1>4, <1>5, <1>6, <1>7, <1>8, <1>9 DEF VeNext

\* The state of the whole contract is of its type.
THEOREM VeTypeCorrect == VeSpec => []VeTypeOK
<1>1. VeInit => OfficesTypeOK
  <2> SUFFICES ASSUME VeInit PROVE OfficesTypeOK
    OBVIOUS
  <2>1. caller \in Key
    BY InitVeInv DEF VeInv, VotingInv, NFTInv, NFTTypeOK
  <2>2. MaxNested \in Nat /\ U64 \in Nat \ {0}
    BY VeAssumption
  <2>3. nested \in 0..MaxNested /\ isLocked \in BOOLEAN
    <3>1. nested = 0
      BY DEF VeInit
    <3>2. isLocked = FALSE
      BY DEF VeInit
    <3>3. 0 \in 0..MaxNested
      BY <2>2
    <3> QED
      BY <3>1, <3>2, <3>3
  <2>4. {team, artProxy, voter} \subseteq Key
    BY <2>1 DEF VeInit
  <2>5. voted \in [GaugeIds -> BOOLEAN]
    BY DEF VeInit
  <2>6. attachments \in [GaugeIds -> 0..(U64 - 1)]
    <3>1. 0 \in 0..(U64 - 1)
      BY <2>2
    <3> QED
      BY <3>1 DEF VeInit
  <2> QED
    BY <2>3, <2>4, <2>5, <2>6 DEF OfficesTypeOK
<1>2. EP!TypeOK => E!TypeOK
  BY DEF E!TypeOK, EP!TypeOK, E!Lock, EP!Lock, E!Token, EP!Token, E!BookTypeOK,
         EP!BookTypeOK, E!IsDict, EP!IsDict, E!Point, EP!Point, E!Times, EP!Times
<1>3. VeInv /\ PaidInv /\ OfficesTypeOK /\ EP!TypeOK => VeTypeOK
  <2> SUFFICES ASSUME VeInv, PaidInv, OfficesTypeOK, EP!TypeOK PROVE VeTypeOK
    OBVIOUS
  <2>1. VotingTypeOK
    BY DEF VeInv, VotingInv, VotingTypeOK, NFTInv, CheckPoints
  <2>2. owed \in Nat /\ escrowed \in Nat /\ open \in Seq(Call)
    BY SumOfCalls DEF PaidInv
  <2> QED
    BY <1>2, <2>1, <2>2 DEF OfficesTypeOK, VeTypeOK
<1>4. PaidInv /\ OfficesTypeOK /\ [VeNext]_veVars => OfficesTypeOK'
  BY NextOfficesTypeOK
<1>5. VeSpec => []OfficesTypeOK
  BY <1>1, <1>4, PaidInvariant, PTL DEF VeSpec
<1> QED
  BY <1>3, <1>5, VeInvariant, PaidInvariant, BehavesAsEscrow, SameAssumption,
     EP!EscrowTypeCorrect, PTL
=============================================================================
