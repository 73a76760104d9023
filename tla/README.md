# Vote escrow and CEP-47 ledger in TLA+

The repository is one Casper smart contract: a CEP-47 token (an NFT) whose
tokens are locks of a fungible token. The longer and larger the lock, the more
voting power its token has; the power decays linearly to nothing at the end of
the lock. The contract keeps the total in O(weeks), lets the owners of locks
delegate their votes, and answers questions about the past.

This directory holds the models of the contract, the TLC configurations that
check them on small instances, and the proofs that the TLA+ proof system checks
for every instance. `PROJECT.json` is the machine-readable index: which run
checks what, which source lines each definition stands for, and the mutations of
definitions that each property is known to catch.

To check a run: `tlc -config MCEscrow.cfg MCEscrow`. To check the proofs:
`tlapm NFTProofs.tla`, and so on for each module of proofs.

## The system

| Component | State | Operations | Source |
|---|---|---|---|
| CEP-47 ledger | `Owners`, `OwnedTokens` (three dictionaries), `Metadata`, `Allowances`, `TOTAL_SUPPLY` | mint, burn, approve, transfer, transfer_from, update_token_meta | `cep47.rs`, `data.rs`, `bin/ve.rs` |
| Dictionaries | named key/value stores of the host | get, set, remove | `dict.rs`, `utils.rs` |
| Vote escrow | `LOCKED`, `EPOCH`, `POINT_HISTORY`, `SLOPE_CHANGES`, `USER_POINT_EPOCH`, `USER_POINT_HISTORY`, `VE_SUPPLY` | check_point, deposit_for, create_lock(_for), increase_amount(_for), increase_unlock_time, merge, withdraw | `vedata.rs` 232-703, 988-1018, 1321-1336 |
| Voting power views | reads the escrow | balance_of_nft(_at), balance_of_at_nft, ve_total_supply, total_supply_at(_t) | `vedata.rs` 705-922 |
| Gauge voting | `ATTACHMENTS`, `VOTED`, `VOTER` | voting, abstain, attach, detach, set_voter | `vedata.rs` 924-986 |
| DAO voting | `DELEGATES`, `CHECKPOINTS`, `NUM_CHECKPOINTS`, `NONCES` | delegate, the effect of create_lock and merge, get_votes, get_past_votes | `vedata.rs` 1020-1319 |
| Reentrancy lock | `IS_LOCKED` | when_not_locked, lock_contract, unlock_contract | `lock.rs` |
| Administration | `TEAM`, `ART_PROXY_CONTRACT_HASH` | initialize, set_team, set_art_proxy | `vedata.rs` 232-273 |
| ERC-20 client | none; the token is another contract | transfer_from | `erc20_helpers.rs` |
| Events | a URef for every event, written once | emit | `event.rs`, `data.rs` 245-313 |
| Encodings and errors | none | I128, VeError | `I128.rs`, `error.rs` |
| Installation | the contract package | call, get_entry_points | `bin/ve.rs`, `vedata.rs` 1338- |

How they interact. create_lock mints a token in the ledger, moves it into the
checkpoints of its owner's delegate, deposits into its lock, checkpoints the
escrow and calls the locked token. merge empties a lock and checkpoints it,
burns the token in the ledger, moves it out of the delegates' checkpoints and
deposits into the other lock. delegate reads the ledger's enumeration. All
other couplings go through `is_approved_or_owner`.

Concurrency and failure. A deploy runs alone, at one block time, and a revert
or a trap undoes everything it wrote. So **an entry point is one action, and a
path that reverts is a step that is not taken**. There are no crashes,
messages or retries to model. The exception is the call to the locked token at
the end of every deposit: that is another contract, and what it runs may call any
entry point here before it returns. In module `Ve` a depositing call is therefore
two actions, with other calls between them. The hard behaviour is elsewhere: long sequences of legal
calls that have to keep two representations of one thing equal (the enumeration
and the owners, the global point and the locks, the checkpoints and the owners),
time passing between calls (week boundaries, idle months), numbers used as
identities (token ids, dictionary keys), bounds of loops and vectors, and one
external call made while the contract is half way through an entry point. The
list under `hazards` in `PROJECT.json` names each at its line.

What makes each component correct:

- ledger: the enumeration lists exactly what keys own; the supply counts the
  live tokens; only owners and their spenders move tokens; an approval is used
  once.
- escrow: the incremental global point is the sum over the locks; slope changes
  match the ends of locks; a token's voting power is linear in what is left of
  its lock; funds are conserved; locks never shrink; histories are append-only (as
  long as no two points share a key, which the code does not see to).
- DAO voting: votes come into a checkpoint only by the call of their owner; a token
  that was never transferred votes at most once and for its owner's delegate;
  vectors of votes stay within `MAX_DELEGATES`. Delegation can *not* always be
  changed: a token that was transferred and then burnt freezes an account's
  delegators, and the property is that nothing else strands a vote.
- reentrancy: of the calls that take `IS_LOCKED` one runs at a time, and those that
  do not take it find, inside another call, a contract that has recorded everything.
- roles and gauge voting: only the voter and the team change what is theirs.
- events: who follows them knows the ledger.
- views by block: the powers of the tokens add up to the total.

## The modules

| Module | What it is |
|---|---|
| `Dict` | a dictionary as a function from the keys that have a value |
| `NFT` | the ledger |
| `Holdings` | what a ledger promises: disjoint sets of tokens, issued, retired, given |
| `NFTRefinement` | the mapping from `NFT` to `Holdings` |
| `NFTEvents` | the ledger's events and a client that follows them |
| `Escrow` | the vote escrow and the voting power views by time |
| `Search` | the binary search by block and the search by timestamp, over any history |
| `EscrowViews` | the voting power views by block, over `Escrow` and `Search` |
| `Voting` | DAO voting, over `NFT` |
| `VotingHistory` | `Voting` with a record of the tokens that were ever transferred, and the properties about the others |
| `Ve` | the whole contract: `Voting`, `Escrow`, gauge voting, roles, `IS_LOCKED`, and a locked token that calls back |
| `MCNFT`, `MCNFTBurn`, `MCEscrow`, `MCEscrowKeys`, `MCVoting`, `MCVe` | the models for TLC: views, symmetry, bounded instances |
| `NFTProofs`, `NFTEventsProofs`, `EscrowProofs`, `EscrowPowerProofs`, `SearchProofs`, `VotingProofs`, `VeProofs` | theorems and proofs |
| `SumTheorems` | facts about sums over finite sets, for the proofs |

### NFT

| TLA+ | Code |
|---|---|
| `owners`, `metadata`, `allowances`, `totalSupply` | the dictionaries and the key of the same name |
| `owned.indexes`, `owned.tokens`, `owned.balances` | `OWNED_INDEXES_BY_TOKEN_DICT`, `OWNED_TOKENS_BY_INDEX_DICT`, `BALANCES_DICT` |
| `caller` | the immediate caller of the last call (read only by properties) |
| `SetToken`, `RemoveToken`, `CanRemove` | `set_token`, `remove_token`, and the unwraps where it traps |
| `Mint` | the ledger's part of create_lock: `CEP47::mint` with id `total_supply + 1` |
| `Burn` | the ledger's part of merge: `_burn_nft`, `burn`, `burn_internal` |
| `Approve`, `TransferFrom`, `SetTokenMeta` | approve, transfer and transfer_from, update_token_meta |

Entry points take vectors of ids. Vectors of one and of two ids are modelled,
with the same id twice: two ids are what it takes for the second round of a loop
to find what the first one left. The contract's own name, symbol and metadata
are written once and left out. Metadata is a model value.

### NFTEvents

`Event` is a `CEP47Event` about one token; `MintEvents` and so on are the sets that
`emit` writes in a call. They are sets because every event goes to a fresh URef
and nothing orders the URefs of one deploy. `told` is what a client makes of them
that starts with nothing and takes in the events of one call after those of the
one before. No event says that an approval was used up, so that what the client
knows of spenders is an upper bound.

### Escrow

| TLA+ | Code |
|---|---|
| `now` | the block time in seconds |
| `minted` | the tokens that have an owner (the part of the ledger the escrow looks at) |
| `locked` | `LOCKED` |
| `book` | `EPOCH`, `POINT_HISTORY`, `SLOPE_CHANGES`, `USER_POINT_EPOCH`, `USER_POINT_HISTORY` as a record |
| `veSupply` | `VE_SUPPLY` |
| `escrowed` | the contract's balance of the locked token, which is external |
| `Walk`, `GlobalCheckPoint` | the loop over weeks of `_check_point`, and its first half |
| `Reschedule`, `UserCheckPoint` | its second half: slope changes and the token's history |
| `Deposit`, `Pay` | `_deposit_for` and the external transfer_from at its end |
| `CreateLock`, `DepositFor`, ... | the entry points; `Tick` is time passing |
| `BalanceOfNFT`, `SupplyAt`, `TotalSupplyAt` | `_balance_of_nft`, `_supply_at`, `_total_supply_at_t` (also behind get_past_total_supply) |

The loop over weeks is a recursive function of the round, so that it can be
proved about. `Rounds` is when the loop ends, by reaching the present or by the
255 rounds (`MaxIterations`). The key of a user point is modelled by its decimal
digits (`UserPointKey`), because the code concatenates two numbers. Who may call
is decided by the ledger and left out here, so the escrow's calls are a superset
of what the contract admits; that `increase_amount`, `increase_unlock_time` and
`merge` trap on a token without an owner is kept. `current_block_number` is the
constant 100, so the field `blk` of a point is left out here; `EscrowViews` has it
as `GlobalBlk` and `UserBlk`, the blocks of the points of a history.

The id of a new token is `Cardinality(minted) + 1`: module NFT proves that
`TOTAL_SUPPLY` is that cardinality (`SupplyCorrect`).

Left out: the widths of u128, i128 and u64. `ts + lock_duration` may wrap in a
build without overflow checks, but the sum is then before `ts`, and the call is
refused as one whose sum is beyond `MAXTIME` is. Amounts are recorded before they
are paid, and the deploy reverts when the token does not pay, so that what
remains is at most the token's supply, which is taken to be below 2^127.

### Search and EscrowViews

| TLA+ | Code |
|---|---|
| `Mid`, `Narrow`, `FindBlockEpoch` | `_find_block_epoch`, and the same loop over a token's points in `_balance_of_at_nft` |
| `PastVotesIndex` | `_get_past_votes_index` |
| `TimeAfter`, `Interpolated` | the estimate of a block's time between two points |
| `BalanceOfAtNFT`, `TotalSupplyAtBlock` | `_balance_of_at_nft`, `total_supply_at` |

The searches are functions of an arbitrary history. They are checked over all
short ascending ones against `IsLastNotAbove` and `IsIndexAt` (assumptions of
`MCEscrow` and `MCVoting`, which TLC evaluates before a run), and used in the views
over the history that the contract really writes. There every block is 100: the
present block finds the last point of each history, an earlier one the first. So
total_supply_at of the present block is the total of the last checkpoint, however
long ago that was, and balance_of_at_nft answers for the same moment. That they
agree with each other is `BlockViewsAgree`; with ve_total_supply and
balance_of_nft, which answer for the present, they do not.

### Voting

| TLA+ | Code |
|---|---|
| `delegate` | `DELEGATES` with the null key as the default |
| `checkpoints` | `NUM_CHECKPOINTS` and `CHECKPOINTS` of each account |
| `TokenMoved`, `TokenMoveFits` | `_move_token_delegates` and its `TooManyTokenIds` |
| `AllVotesMoved`, `CanMoveAllVotes` | `_move_all_delegates`, and where it traps or reverts |
| `Delegate`, `CreateLock`, `Merge` | delegate, and what create_lock and merge do to both ledger and checkpoints |
| `VotesOf`, `PastVotesOf` | the tokens get_votes and get_past_votes add up |

A checkpoint is a bag of tokens, as no code reads the order of its vector. Two
facts about the code shape the module. `is_null` compares 33 bytes with 32 and is
never true, so the null key is an account like any other. And nothing sets the
timestamp of a checkpoint, so `_find_what_checkpoint_to_write` always answers
with a new one and `_get_past_votes_index` with the latest: `PastVotesOf` searches
those zeros with `PastVotesIndex`. What get_past_votes adds up is then the latest
checkpoint, whatever time is asked for, so that no property is about it; the
search is proved by itself, for any ascending history.

### Ve

| TLA+ | Code |
|---|---|
| `CalledBy(c)` | the immediate caller: of a deploy of its own, or from within the transfer_from that an open call waits for |
| `WhenNotLocked`, `Awaits`, `Return` | `when_not_locked`; `lock_contract` and all that comes before `transfer_from`; its return and `unlock_contract` |
| `isLocked` | `IS_LOCKED` |
| `open`, `owed`, `nested` | the call stack of the deploy: what each open call deposits and whether it took the lock |
| `CallCreateLock`, `CallDepositFor`, `CallIncreaseAmount`, `CallIncreaseAmountFor` | the entry points that deposit, up to `transfer_from` |
| `CallIncreaseUnlockTime`, `CallMerge`, `CallCheckPoint`, `CallLedger` | those that do not |
| `CallOffice`: `SetVoted`, `Attach`, `Detach`, `SetVoter`, `SetTeam`, `SetArtProxy` | gauge voting and the roles |

`Ve` extends `Voting`, so that create_lock and merge are its actions on the ledger
and the checkpoints with the deposit added, and takes the operators of `Escrow`
through `E == INSTANCE Escrow WITH minted <- DOMAIN owners, escrowed <- escrowed +
owed`. A contract cannot catch the revert of a contract it calls, so a revert
inside a nest of calls undoes the whole deploy, and a call that reverts is again
no step. increase_unlock_time deposits nothing and so calls nobody: it takes the
lock and gives it back in one step.

## The runs

Passing runs:

| Run | Instance | Shows |
|---|---|---|
| `nft` | 3 keys, 3 tokens, 2 values of metadata | `EnumerationMatchesOwnership`, `SupplyIsLiveTokens`, the refinement `EnumerationIsALedger`, `WedgedForEver`, `OwnerChangeAuthorised`, `ApprovalsAreOwnersAndUsedOnce`, `EventsTellLedger`, `NFTTypeOK` |
| `escrow` | 3 tokens, weeks of 2 seconds, locks of at most 2 weeks, times 1 to 6 | `GlobalIsSum`, `SlopeChangesMatch`, `VotingPowerIsLinear`, `SupplyIsSumWithinWeek`, `Solvency`, `LockedIffMinted`, `LockHorizon`, `LocksNeverShrink`, `HistoryAppendOnly`, `BlockViewsAgree`, `TypeOK` |
| `escrow_idle` | 2 tokens, 2 rounds instead of 255, times 1 to 12 | `CatchesUp`, and that `VotingPowerIsLinear` and `SlopeChangesMatch` survive a global point that lags |
| `voting` | 2 keys and the null key, 2 tokens, vectors of at most 2 | `UnmovedTokensVoteOnce`, `WithinMaxDelegates`, `VotesAreGivenByOwner`, `StrayVotesFreeze`, `VotingTypeOK` |
| `ve` | a user and the contract of the locked token, 2 tokens, up to 2 calls from within a call, times 1 and 2 | `LockExcludes`, `LocksAreBacked`, `AuthorityRespected`, the refinement `ImplementsEscrow`, `LockIsReleased`, `VeTypeOK` |

Runs that end in a counterexample, each a disagreement between the code and what
the repository says of it:

| Run | What is violated |
|---|---|
| `nft_burn` | `BurntStaysBurnt`: an id that merge burnt is minted again, because ids are numbered by a supply that burning lowers |
| `escrow_supply` | `SupplyIsSum`: once a week boundary has passed since the last checkpoint, ve_total_supply is not the sum of the voting powers (`_supply_at` adds a time to a time) |
| `escrow_past` | `PastIsRecorded`: a lock has voting power at a time before it was created, and so has the total, because both views draw the latest point backwards (`_balance_of_nft`, `_total_supply_at_t`) |
| `escrow_merge` | `DepositsIntoLiveLocks`: merge deposits into an expired lock |
| `escrow_withdraw` | `ExpiredCanWithdraw`: withdraw has an empty body |
| `escrow_keys` | `VotingPowerIsLinear`: point 11 of token 1 is stored over point 1 of token 11 |
| `voting_votes` | `VotesAreCurrent`: get_votes reads the checkpoint after the latest |

`PastIsRecorded` asks of a past time that the powers of the tokens *or* the total
be what the points recorded by then say. The run violates it, so in that state both
of the comments it is taken from are wrong, the one of `_balance_of_nft` and the one
of `_supply_at`.

Two passing properties describe what the contract cannot leave. `WedgedForEver`:
once merges leave token 2 alone, create_lock reverts for ever, since
`total_supply + 1` is the id of a live token. `StrayVotesFreeze`: a merge leaves the
vote of the token it burns in a checkpoint, if some transfer had moved the token
past that account; then everybody who delegates to the account is stuck there, and
nothing takes the vote away until the id is minted again.

### Bounds, views and symmetry

- *Tokens and keys.* Three tokens of one key are needed for a removal from the
  middle of the enumeration, and for a merge while a third lock is alive. In
  `voting` two tokens and two keys are enough for every order of delegations,
  transfers, merges and reused ids. Three keys let owner, spender and recipient differ.
  What a client of the events believes of approvals only grows until the token is
  burnt; `MaxTold` bounds it to two pairs of an owner and a token at a time, enough
  for the old and the new owner of a token, and for a vector of two.
- *Time.* A week is 2 seconds and a lock lasts at most 2 weeks, so there are times
  on a boundary and between two, locks that end at the next boundary and at the
  one after, and a checkpoint that passes one or several. The amounts 3 and 9
  under `MaxTime` 4 give a slope of 0 (the rounding loses all of it) and of 2 (it
  loses some), and 12 gives 3; 0 is in the set for `InvalidAmount`. The duration
  5 is rounded down to a lock that is allowed, or is refused, depending on the time.
- *Nesting.* Two calls from within a call are what it takes for an inner call to
  return while an outer one is open and a third to start after it. Two tokens and
  two keys, one of them a contract, give a create_lock inside a deposit_for, a
  deposit_for and a merge inside a create_lock, and calls of the voter and of the
  team from within. One amount and a clock of two times keep `ve` small: the
  arithmetic is checked in `escrow`, and what `ve` asks is the order of steps.
  `GaugeIds` is 0, where detach wraps; `U64` is 8 there, and nothing is compared
  with it.
- *Idle time.* 255 rounds cannot be reached by TLC: `escrow_idle` lowers the bound
  of the loop instead, so that the same branch of the code is taken.
- *Funds* stands for the balance and the allowance of the payers, and bounds the
  deposits. *MaxEpoch* bounds the history and is never reached in these runs; it
  matters to the proofs.
- *MaxDelegates* is 1024 in the code; in `voting` it is 2, so that it is reached.
- *Views.* No step reads a point of a history but the last one, so `CurrentView`
  leaves the earlier ones and the epoch numbers out; properties about histories
  are properties of steps, which see them. The same goes for checkpoints, and for
  the last caller; and in `ve`, which calls no view, for the points of tokens.
  `LedgerView` leaves out the values of metadata, which no step reads, and keeps
  whether the client's agree with them.
- *Symmetry.* Keys are interchangeable in `NFT` and `Voting`; no run with symmetry
  has a liveness property.

The runs check for deadlock; none needs it switched off, as some call is always
possible (`Withdraw` if no other).

### Fairness and liveness

Calls are made by users; nothing in the contract schedules them, so no run
assumes that any call is ever made. What a user can bring about is stated as a
property of steps (`CatchesUp`: a call, if made, brings the global point forward by
so much) or through `ENABLED` (`ExpiredCanWithdraw`, which the code violates).

`Ve` assumes weak fairness of one action, `Return`: a call that has come to
`transfer_from` is returned to. A deploy has finite gas. Either it runs to its end
or it is reverted as a whole, and then it was no step at all; so the code that the
locked token runs returns, and no state that outlives a deploy has an open call.
`MaxNested` plays the part of the gas. Under this fairness `LockIsReleased` says
that a contract that a call has locked is unlocked again, whatever the locked
token does meanwhile. Fairness alone does not give it: a return that leaves the
flag is its mutant.

## The proofs

All theorems are about the specifications that TLC runs, for every value of the
constants that the modules' assumptions admit; a theorem that needs more of the
constants assumes it in its statement. Every invariant of a passing run is
the conclusion of a theorem, and so is every property of steps.

| Module | Proves | Assumes, besides the constants' types |
|---|---|---|
| `SumTheorems` | how sums over finite sets change | |
| `NFTProofs` | the ledger | |
| `NFTEventsProofs` | the ledger's events | |
| `EscrowProofs` | locks, funds, slope changes, the global point | for the global point only: calls in reach, or a short clock |
| `EscrowPowerProofs` | the points of tokens and all views | unique keys (`KeysUnique`), except where it says otherwise; for totals: calls in reach, or a short clock; for the views by block: epochs below 2^128 |
| `SearchProofs` | the two searches | an ascending history |
| `VotingProofs` | checkpoints and delegation | |
| `VeProofs` | the contract with callbacks, and what it takes over from the escrow | for the global point only: a short clock |

**What the assumptions mean.** Keys of user points are the digits of the id followed
by those of the epoch, and the code does not keep them apart (run `escrow_keys`).
`KeysUnique` says that no two points share a key. Every theorem that needs it assumes
it in its statement. It holds for ids of one digit and epochs of at most three digits
(`OneDigitKeys`), and fails from eleven tokens and eleven points on
(`TwoDigitKeysCollide`), so that these theorems say nothing of a contract that has grown so
far; `HistoriesAppendUnlessKeysCollide` does, and nothing in `EscrowProofs` needs
`KeysUnique` either.
*Calls in reach* (`CallsInReach`) says that a call that moves the global point
finds the last one no more than `MaxIterations` weeks old, 255 in the code: beyond
that the loop over weeks gives up before the present, the point lags
(`CatchesUp` says how far), and the weight a call adds to it is of another time
than the point. The hypothesis is needed and can be met: `ShortClockReaches`
proves it of every behaviour when the clock runs no longer than those weeks, so
that `SumsOfShortClock` and `CallbacksKeepGlobalPoint` assume nothing of calls at
all. `VotingHistory` assumes that there are finitely many keys, which have 33 bytes.

**SumTheorems.** The specifications sum with `SumFunctionOnSet` of the community
modules, a fold that is a recursive function chosen by `CHOOSE`. `SumTableExists`
shows that such a function exists, by induction over a set of natural numbers (the
form of induction that takes no operator as a parameter), and `SumTakeOut` that
any element may be the one taken out first. From these: changing one entry
(`SumChangedAt`), adding and scaling (`SumLinear`), dropping what is zero
(`SumOverSupport`), comparing and counting. The recursive functions of the
specifications themselves are opened in the same way: one lemma says that the
table exists (`WalkTableExists`, `SearchTableExists`, `VotesTableExists`), the next
what its rounds are.

**NFTProofs.** The inductive invariant `NFTInv` is the type invariant, the
agreement of the enumeration with the owners, and the supply. Each is needed: a
removal is only known not to trap, and to move the right token into the hole,
because the index of every token is below its owner's balance and leads back to
the token; and that a vector moves only tokens of one owner needs the owners.
`SetTokenEnumerates` and `RemoveTokenEnumerates` say that the two operations keep
the agreement between *any* enumeration and *any* ownership, and the handlers'
lemmas apply them once or twice. From `NFTInv`:

- `NFTTypeCorrect`, `EnumerationCorrect`, `SupplyCorrect`;
- `OwnerChangesAreAuthorised`, `ApprovalsAreGivenAndSpent` and
  `WedgeIsPermanent`, properties of steps;
- `LedgerImplementsHoldings`: the initial state maps to the initial state, mint
  to Issue, burn to Retire, a transfer to Give or to a stutter, the rest to a
  stutter.

**EscrowProofs.** `EscrowInv` is the type invariant, `LockedIffMinted`,
`LockHorizon`, and that the latest global point is not in the future. `StepCases`
says once what the checks of the entry points come to: a step passes time, moves the
global point, deposits into one lock, or merges two. Each invariant then has four
cases.

- `EscrowTypeCorrect`, `OnlyMintedAreLocked`, `LocksEndInTime`, `LocksOnlyGrow`.
- `EscrowIsSolvent`: what was paid in is the sum of the amounts. Inductive with
  `EscrowInv`.
- `SlopeChangesAreScheduled`: at each future time the scheduled change is the sum
  of the slopes that end then. The code gets there by moving one lock's slope from
  its old end to its new one, with a case for ends that coincide or have passed;
  `RescheduleMatches` shows that this is the difference between the two sums.
- `GlobalPointIsSum`: the heart of the escrow. `Summed` says that the last point
  has the slope and bias of all locks that are alive at its time and that slope
  changes after it match the ends. A round of the loop keeps that
  (`RoundIsSum`): the bias falls by the slope of the week, which is right because
  no lock ends inside a week (`WeeksApart`), and at the boundary the slopes that end
  leave. `WalkIsSum` is the induction over rounds, `AddUserIsSum` the replacement of
  one token's weight, and a merge does it twice.
- `CheckpointsCatchUp`: the loop ends at the present or after `MaxIterations` rounds
  (`LastRoundReaches`).
- `ShortClockReaches`, as above.

**EscrowPowerProofs.** `PowerInv` says that every token's latest point is at the
key of its epoch and is what its lock weighed then, and that no point is later than
now; `ReachInv`, for calls in reach, that none is later than the last global point.
`SupplyInv` is these with `EscrowInv` and the invariant of the global point.

- `VotingPowerOfEveryToken`;
- `HistoriesAppend`; and without `KeysUnique`, `HistoriesAppendUnlessKeysCollide`: no
  point disappears, the global ones never change, and a token's point changes only
  when a token is given a new one with the same key. Its invariant `Keyed` is that every
  key in the history is that of a point some token was given;
- `SupplyOfEveryToken`: the global point is the sum (above),
  the view extends it by less than a week (`SupplyExtendsPoint`), and so do the
  points of the tokens;
- `BlockViewsAddUp`: both searches end at the ends of their histories
  (`BlockSearches`, from `FindBlockEpochFinds`), where the two views read points of
  the same moment;
- `SumsOfShortClock`, which assumes one-digit ids, three-digit epochs and a short
  clock, all of the constants alone.

**SearchProofs.** `SearchRoundKeeps`: a round of `_find_block_epoch` keeps the
entry between its bounds and at least halves their distance. `FindBlockEpochFinds`
is the induction over the 128 rounds: they are enough for any ascending history of
less than 2^128 entries, so for every epoch that fits in u64.
`PastVotesIndexFinds`: the other search ends on an entry of the time asked for or
on the last one before it, in a history of any length. TLC evaluates
`FindBlockEpoch` on all short histories first (`SearchFindsLastNotAbove` in
`MCEscrow`).

**NFTEventsProofs.** The invariant is `NFTInv`, that `Owners` and `Metadata` are
dictionaries, and `EventsTellLedger` itself. One lemma for each kind of event says
that what the client makes of it is what the handler did. That a transfer names
the present owner comes from the handler's own check (`AllOwnedBy`).

**VotingProofs.** `VotingInv` is `NFTInv` (every step of voting is a step of the
ledger or leaves it alone) and the types of delegates and checkpoints.

- `VotingTypeCorrect`, `VotingKeepsEnumeration`;
- `OwnersGiveVotes`: what a step adds to a checkpoint is what delegate reads from the
  caller's enumeration (`StepGivesVotes`), which the ledger's invariant says it owns;
- `StrayVotesAreStuck`: a merge takes the burnt token from its owner's delegate, so
  it can only be left in another's checkpoint, and there `NoTokenVotesTwice` says
  that it was transferred (`StrayComesFromBurn`); delegate traps on it, and no other call
  takes it out (`StepKeepsStray`, `StrayFreezes`);
- `VectorsStayBounded`: taking tokens out shortens a vector (`SizeWithout`), and
  what delegate adds has as many tokens as the delegator's balance says
  (`SizeOfHeld`, from the enumeration), which the code has compared with the limit;
- `NoTokenVotesTwice`: the invariant `UnmovedInv` is that a token that was never
  transferred is in a latest checkpoint at most once, and there only for its owner's
  delegate. delegate keeps it because what leaves the source is exactly what goes to
  the destination (`HeldByOnce`), merge because it takes the token from the owner's
  delegate before the id is free for another owner.

**VeProofs.** The inductive invariant `VeInv` is `VotingInv`, the types of the call
stack and of the two amounts, the domain of the locks, and `LockExcludes`, which is
inductive with them: a call that takes the lock found the flag clear, so no open
call held it (`AwaitsKeeps`); a call that returns clears it only if it was the one
that held it (`ReturnKeeps`). `StepKeepsVoting` shows that every step is one of
`Voting` or leaves it alone.

- `TheLockExcludes`, `AuthorityIsRespected`, `CallbacksKeepEnumeration`;
- `CallbacksImplementEscrow`: every step of `Ve`, in any nest of calls, is a step of
  `Escrow` or a stutter (`StepOfEscrow`). The mapping counts as paid what open calls
  owe. It needs `SupplyIsLiveTokens`, for the id of a new token;
- `CallbacksKeepEscrow`, `CallbacksKeepGlobalPoint`: so the theorems of
  `EscrowProofs`, instantiated along the same mapping, hold with callbacks too;
- `LocksStayBacked`: what is owed is the sum over the open calls, which a call that
  comes to transfer_from adds to and a return takes its own part from
  (`SumOfCalls`); with `EscrowIsSolvent` the locks record what is there and what
  is owed;
- `VeTypeCorrect`: from the invariants above, the escrow's types through the
  mapping, and the types of roles and gauges.

**Only model-checked.** Liveness (`LockIsReleased`) and `ENABLED`
(`ExpiredCanWithdraw`) are beyond the prover.

## What is not modelled

- Integer widths of amounts and slopes (see Escrow).
- A locked token that reports a transfer it did not make. The code takes the token
  at its word, so `LocksAreBacked` is about a token that may call back but pays.
- `erc20_helpers::transfer`, `get_balance` and `get_total_supply`: nothing calls them.
- delegate_by_sig, whose body is empty, and the nonces, which nothing writes.
- Encodings, error codes, installation and argument decoding. Where the table of
  entry points and the code disagree on a type, a hazard says so.
- The contract's name, symbol and metadata, which are written once, and the views
  that read one dictionary entry.
- Collisions of hashed dictionary keys.
- The test contracts, read for what they expect.

## What could come next

The order so far was: the ledger, the escrow, voting, each with its proofs; the
searches, the views by block, the composition with the external call, the events;
then sums, and with them the theorems about the global point and the totals. Within
reach and not done:

1. the views in `Ve`: `EscrowPowerProofs` through the mapping that `VeProofs` uses
   for `EscrowProofs`, and the properties of votes with a history of transfers there;
2. a bound on how far `GlobalIsSum` fails when a call finds the last point out of
   reach;
3. a proof that the checkpoints of `Voting` have only tokens that were minted;
4. a larger `ve`: three levels of nesting and two amounts.
