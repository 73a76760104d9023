--------------------------------- MODULE Ve ---------------------------------
(***************************************************************************)
(* The whole contract: ledger, voting, escrow, gauge voting, the roles and  *)
(* the flag IS_LOCKED of src/ve/src/lock.rs, with the locked token as a     *)
(* contract that may call back.                                             *)
(*                                                                          *)
(* A deploy runs alone at one block time and a revert undoes all of it.     *)
(* But a call that deposits ends with transfer_from of the locked token,    *)
(* and what that token runs may call any entry point of this contract       *)
(* before it returns.  So a depositing call is two actions: CallX does      *)
(* everything up to transfer_from and leaves the call open; Return is the   *)
(* payment and the unlock_contract() after it.  While a call is open calls  *)
(* come from contracts only, and block time stands still.                   *)
(***************************************************************************)
EXTENDS Voting, Integers

CONSTANTS
    Week, MaxTime, MaxIterations, Amounts, Durations, Start, Horizon, Funds,
    MaxEpoch,     \* the constants of module Escrow
    Contracts,    \* the keys that are contracts
    MaxNested,    \* bound: the calls that one deploy makes from within a call
    Batches,      \* bound: the token id vectors that calls pass
    Spenders,     \* bound: the keys that owners approve
    Delegatees,   \* bound: the accounts that keys delegate to
    GaugeIds,     \* bound: the token ids that gauge calls name
    U64           \* 2^64: u64 wraps in a build without overflow checks

VARIABLES
    now, locked, book, veSupply,   \* as in module Escrow
    escrowed,      \* the contract's balance of the locked token
    open,          \* the calls waiting for transfer_from, outermost first
    owed,          \* what the open calls have not been paid yet
    nested,        \* the calls made so far from within this deploy's call
    isLocked,      \* IS_LOCKED
    team,          \* TEAM
    artProxy,      \* ART_PROXY_CONTRACT_HASH
    voter,         \* VOTER
    voted,         \* VOTED
    attachments    \* ATTACHMENTS

\* The escrow, with every deposit that is recorded counted as paid.
E == INSTANCE Escrow WITH minted <- DOMAIN owners, escrowed <- escrowed + owed

ASSUME VeAssumption ==
    /\ E!EscrowAssumption
    /\ Contracts \subseteq Key
    /\ MaxNested \in Nat
    /\ Batches \subseteq Batch
    /\ Spenders \subseteq Key
    /\ Delegatees \subseteq Account
    /\ GaugeIds \subseteq Nat
    /\ U64 \in Nat \ {0}

ledgerVars == <<owners, owned, metadata, allowances, totalSupply>>
votesVars  == <<delegate, checkpoints>>
escrowVars == <<now, locked, book, veSupply>>
callVars   == <<escrowed, open, owed, isLocked>>
roleVars   == <<team, artProxy, voter>>
gaugeVars  == <<voted, attachments>>

veVars == <<votingVars, escrowVars, callVars, nested, roleVars, gaugeVars>>

-----------------------------------------------------------------------------
(* Calls.                                                                   *)

\* An entry point is called by c: in a deploy of its own, or from within the
\* transfer_from that the innermost open call is waiting for.
CalledBy(c) ==
    /\ caller' = c
    /\ \/ /\ open = <<>>
          /\ UNCHANGED nested
       \/ /\ open # <<>>
          /\ c \in Contracts
          /\ nested < MaxNested
          /\ nested' = nested + 1

\* The call ends without transfer_from.
Completes == UNCHANGED callVars

\* The call comes to transfer_from, holding the lock or not.
Awaits(value, holdsLock) ==
    /\ open' = Append(open, [value |-> value, holdsLock |-> holdsLock])
    /\ owed' = owed + value
    /\ isLocked' = (isLocked \/ holdsLock)
    /\ UNCHANGED escrowed

\* when_not_locked.
WhenNotLocked == ~isLocked

-----------------------------------------------------------------------------
(* Entry points that deposit.                                               *)

\* Mutant of CallCreateLock: when_not_locked is left out.
CallCreateLockAnyTime(c, to, amount, duration) ==
    LET end == E!UnlockTime(duration)
    IN  /\ CalledBy(c)
        /\ E!Positive(amount)
        /\ end > now
        /\ end <= now + MaxTime
        /\ CreateLock(c, to)
        /\ Awaits(amount, TRUE)
        /\ E!Deposit(locked, book, NextTokenId, amount, end, FALSE)
        /\ UNCHANGED <<now, roleVars, gaugeVars>>

\* create_lock, where to is the caller, and create_lock_for.
CallCreateLock(c, to, amount, duration) ==
    LET end == E!UnlockTime(duration)
    IN  /\ CalledBy(c)
        /\ WhenNotLocked
        /\ E!Positive(amount)
        /\ end > now
        /\ end <= now + MaxTime
        /\ CreateLock(c, to)
        /\ Awaits(amount, TRUE)
        /\ E!Deposit(locked, book, NextTokenId, amount, end, FALSE)
        /\ UNCHANGED <<now, roleVars, gaugeVars>>

\* What the calls that add an amount to a lock share.
AddToLock(t, amount, holdsLock) ==
    /\ E!Positive(amount)
    /\ E!IsLive(locked[t])
    /\ Awaits(amount, holdsLock)
    /\ E!Deposit(locked, book, t, amount, 0, FALSE)
    /\ UNCHANGED <<now, ledgerVars, votesVars, roleVars, gaugeVars>>

\* deposit_for: anybody, for any token, and without the lock.
CallDepositFor(c, t, amount) ==
    /\ CalledBy(c)
    /\ AddToLock(t, amount, FALSE)

\* increase_amount.
CallIncreaseAmount(c, t, amount) ==
    /\ CalledBy(c)
    /\ IsApprovedOrOwner(t, c)
    /\ WhenNotLocked
    /\ AddToLock(t, amount, TRUE)

\* increase_amount_for: the team, without the lock.
CallIncreaseAmountFor(c, t, amount) ==
    /\ CalledBy(c)
    /\ c = team
    /\ AddToLock(t, amount, FALSE)

\* Mutant of Return: the lock is kept.
ReturnLocked ==
    LET call == open[Len(open)]
    IN  /\ open # <<>>
        /\ open' = SubSeq(open, 1, Len(open) - 1)
        /\ escrowed' = escrowed + call.value
        /\ owed' = owed - call.value
        /\ nested' = IF Len(open) = 1 THEN 0 ELSE nested
        /\ UNCHANGED <<votingVars, escrowVars, isLocked, roleVars, gaugeVars>>

\* Mutant of Return: the deposit is paid a second time.
ReturnPaidTwice ==
    LET call == open[Len(open)]
    IN  /\ open # <<>>
        /\ open' = SubSeq(open, 1, Len(open) - 1)
        /\ escrowed' = escrowed + 2 * call.value
        /\ owed' = owed - call.value
        /\ isLocked' = (isLocked /\ ~call.holdsLock)
        /\ nested' = IF Len(open) = 1 THEN 0 ELSE nested
        /\ UNCHANGED <<votingVars, escrowVars, roleVars, gaugeVars>>

\* Mutant of Return: the token reports a transfer that it did not make.
ReturnUnpaid ==
    LET call == open[Len(open)]
    IN  /\ open # <<>>
        /\ open' = SubSeq(open, 1, Len(open) - 1)
        /\ owed' = owed - call.value
        /\ isLocked' = (isLocked /\ ~call.holdsLock)
        /\ nested' = IF Len(open) = 1 THEN 0 ELSE nested
        /\ UNCHANGED <<votingVars, escrowVars, escrowed, roleVars, gaugeVars>>

\* transfer_from returns to the innermost open call, paid (external); the call
\* unlocks the contract if it locked it, and ends.
Return ==
    LET call == open[Len(open)]
    IN  /\ open # <<>>
        /\ open' = SubSeq(open, 1, Len(open) - 1)
        /\ escrowed' = escrowed + call.value
        /\ owed' = owed - call.value
        /\ isLocked' = (isLocked /\ ~call.holdsLock)
        /\ nested' = IF Len(open) = 1 THEN 0 ELSE nested
        /\ UNCHANGED <<votingVars, escrowVars, roleVars, gaugeVars>>

-----------------------------------------------------------------------------
(* Entry points that the locked token takes no part in.                     *)

\* Mutant of CallIncreaseUnlockTime: the owner is not asked.
CallIncreaseUnlockTimeByAny(c, t, duration) ==
    LET end == E!UnlockTime(duration)
    IN  /\ CalledBy(c)
        /\ DictHas(owners, t)
        /\ WhenNotLocked
        /\ E!IsLive(locked[t])
        /\ end > locked[t].end
        /\ end <= now + MaxTime
        /\ Completes
        /\ E!Deposit(locked, book, t, 0, end, FALSE)
        /\ UNCHANGED <<now, ledgerVars, votesVars, roleVars, gaugeVars>>

\* increase_unlock_time deposits nothing: the lock is taken and given back.
CallIncreaseUnlockTime(c, t, duration) ==
    LET end == E!UnlockTime(duration)
    IN  /\ CalledBy(c)
        /\ IsApprovedOrOwner(t, c)
        /\ WhenNotLocked
        /\ E!IsLive(locked[t])
        /\ end > locked[t].end
        /\ end <= now + MaxTime
        /\ Completes
        /\ E!Deposit(locked, book, t, 0, end, FALSE)
        /\ UNCHANGED <<now, ledgerVars, votesVars, roleVars, gaugeVars>>

\* Mutant of CallMerge: the lock of from is deposited, and not emptied.
CallMergeKeeping(c, from, to) ==
    LET end == IF locked[from].end >= locked[to].end
               THEN locked[from].end ELSE locked[to].end
    IN  /\ CalledBy(c)
        /\ Merge(c, from, to)
        /\ Completes
        /\ E!Deposit(locked, E!CheckPointed(book, now, from, locked[from], E!NoLock),
                     to, locked[from].amount, end, TRUE)
        /\ UNCHANGED <<now, roleVars, gaugeVars>>

\* merge, which does not look at the flag.
CallMerge(c, from, to) ==
    LET end == IF locked[from].end >= locked[to].end
               THEN locked[from].end ELSE locked[to].end
    IN  /\ CalledBy(c)
        /\ Merge(c, from, to)
        /\ Completes
        /\ E!Deposit([locked EXCEPT ![from] = E!NoLock],
                     E!CheckPointed(book, now, from, locked[from], E!NoLock),
                     to, locked[from].amount, end, TRUE)
        /\ UNCHANGED <<now, roleVars, gaugeVars>>

\* check_point.
CallCheckPoint(c) ==
    /\ CalledBy(c)
    /\ Completes
    /\ UNCHANGED <<ledgerVars, votesVars, roleVars, gaugeVars>>
    /\ E!CheckPoint

\* The calls of voting and of the ledger that leave the escrow alone, and
\* withdraw, which does nothing.
CallLedger(c) ==
    /\ CalledBy(c)
    /\ Completes
    /\ \/ \E delegatee \in Delegatees : Delegate(c, delegatee)
       \/ \E spender \in Spenders, batch \in Batches : Approval(c, spender, batch)
       \/ \E owner, recipient \in Key, batch \in Batches :
              Transfer(c, owner, recipient, batch)
       \/ \E t \in Token, meta \in Metas : UpdateTokenMeta(c, t, meta)
       \/ UNCHANGED <<ledgerVars, votesVars>>
    /\ UNCHANGED <<escrowVars, roleVars, gaugeVars>>

-----------------------------------------------------------------------------
(* Gauge voting and the roles.                                              *)

\* only_voter.
OnlyVoter(c) == c = voter

\* voting and abstain set the flag of any token id, minted or not.
SetVoted(c, t, flag) ==
    /\ OnlyVoter(c)
    /\ voted' = [voted EXCEPT ![t] = flag]
    /\ UNCHANGED <<roleVars, attachments>>

\* attach stores the id plus one, whatever was there.
Attach(c, t) ==
    /\ OnlyVoter(c)
    /\ attachments' = [attachments EXCEPT ![t] = (t + 1) % U64]
    /\ UNCHANGED <<roleVars, voted>>

\* detach stores the id minus one: of id 0, the largest u64.
Detach(c, t) ==
    /\ OnlyVoter(c)
    /\ attachments' = [attachments EXCEPT ![t] = (t - 1) % U64]
    /\ UNCHANGED <<roleVars, voted>>

\* set_voter: the voter names its successor.
SetVoter(c, k) ==
    /\ OnlyVoter(c)
    /\ voter' = k
    /\ UNCHANGED <<team, artProxy, gaugeVars>>

\* set_team: the team names its successor.
SetTeam(c, k) ==
    /\ c = team
    /\ team' = k
    /\ UNCHANGED <<artProxy, voter, gaugeVars>>

\* set_art_proxy.
SetArtProxy(c, k) ==
    /\ c = team
    /\ artProxy' = k
    /\ UNCHANGED <<team, voter, gaugeVars>>

CallOffice(c) ==
    /\ CalledBy(c)
    /\ Completes
    /\ \/ \E t \in GaugeIds, flag \in BOOLEAN : SetVoted(c, t, flag)
       \/ \E t \in GaugeIds : Attach(c, t) \/ Detach(c, t)
       \/ \E k \in Key : SetVoter(c, k) \/ SetTeam(c, k) \/ SetArtProxy(c, k)
    /\ UNCHANGED <<ledgerVars, votesVars, escrowVars>>

-----------------------------------------------------------------------------

\* The installer becomes team and voter.
VeInit ==
    /\ VotingInit
    /\ now = Start
    /\ locked = [t \in Token |-> E!NoLock]
    /\ book = E!EmptyBook
    /\ veSupply = 0
    /\ escrowed = 0
    /\ open = <<>>
    /\ owed = 0
    /\ nested = 0
    /\ isLocked = FALSE
    /\ team = caller
    /\ artProxy \in Key
    /\ voter = caller
    /\ voted = [t \in GaugeIds |-> FALSE]
    /\ attachments = [t \in GaugeIds |-> 0]

\* Block time passes between deploys.
Tick ==
    /\ open = <<>>
    /\ UNCHANGED <<votingVars, callVars, nested, roleVars, gaugeVars>>
    /\ E!Tick

VeNext ==
    \/ Tick
    \/ Return
    \/ \E c \in Key :
          \/ \E to \in Key, a \in Amounts, d \in Durations : CallCreateLock(c, to, a, d)
          \/ \E t \in Token, a \in Amounts :
                \/ CallDepositFor(c, t, a)
                \/ CallIncreaseAmount(c, t, a)
                \/ CallIncreaseAmountFor(c, t, a)
          \/ \E t \in Token, d \in Durations : CallIncreaseUnlockTime(c, t, d)
          \/ \E from, to \in Token : CallMerge(c, from, to)
          \/ CallCheckPoint(c)
          \/ CallLedger(c)
          \/ CallOffice(c)

\* A deploy that is not reverted runs to its end: its gas is finite, so that
\* the locked token's code returns.
VeSpec == VeInit /\ [][VeNext]_veVars /\ WF_veVars(Return)

-----------------------------------------------------------------------------
(* Properties.                                                              *)

Call == [value : Nat, holdsLock : BOOLEAN]

VeTypeOK ==
    /\ VotingTypeOK
    /\ E!TypeOK
    /\ escrowed \in Nat /\ owed \in Nat /\ nested \in 0..MaxNested
    /\ open \in Seq(Call)
    /\ isLocked \in BOOLEAN
    /\ {team, artProxy, voter} \subseteq Key
    /\ voted \in [GaugeIds -> BOOLEAN]
    /\ attachments \in [GaugeIds -> 0..(U64 - 1)]

\* The open calls that hold the lock.
Holders == {i \in DOMAIN open : open[i].holdsLock}

\* At most one call that takes the lock is ever open, however calls are nested
\* and whichever of them do without it, and the flag is set exactly while
\* one is: no inner call that returns gives away the lock of an outer one.
LockExcludes ==
    /\ \A i, j \in Holders : i = j
    /\ isLocked <=> Holders # {}

\* In the middle of any nest of calls the locks record what the contract holds
\* and what the open calls are about to pay, to the unit; once no call is open
\* all of it is there.
LocksAreBacked ==
    /\ escrowed + owed = SumFunctionOnSet([t \in Token |-> locked[t].amount], Token)
    /\ owed = SumFunction([i \in DOMAIN open |-> open[i].value])

\* Whether k owns token t or may act for its owner.
SpeaksFor(k, t) == IsApprovedOrOwner(t, k)

\* A lock that is there ends later, or goes into another, only in a call by the
\* owner of its token or the owner's spender, also when the call comes from
\* within another's transfer_from; and what the voter and the team have set
\* stays, through merges and new locks of the same id, until they change it.
AuthorityRespected ==
    [][/\ \A t \in DOMAIN owners :
            locked'[t].end # locked[t].end \/ t \notin DOMAIN owners'
                => SpeaksFor(caller', t)
       /\ voted' # voted \/ attachments' # attachments \/ voter' # voter
                => caller' = voter
       /\ team' # team \/ artProxy' # artProxy => caller' = team]_veVars

\* With a token that calls back at every chance, the escrow still goes through
\* the steps it goes through when calls run one after the other, each paid at
\* once: a depositing call has recorded everything before it gives up control.
ImplementsEscrow == E!EscrowSpec

\* A contract that a deploy has locked is unlocked again.
LockIsReleased == isLocked ~> ~isLocked
=============================================================================
