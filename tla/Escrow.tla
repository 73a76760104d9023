------------------------------- MODULE Escrow -------------------------------
(***************************************************************************)
(* The vote escrow of src/ve/src/vedata.rs: locks, the global history of    *)
(* points, scheduled slope changes and every token's own history.           *)
(*                                                                          *)
(* A lock of an amount until an end weighs slope * (end - now), where slope *)
(* is amount \div MaxTime.  The contract never adds the locks up: it keeps  *)
(* one global point (bias, slope, ts) and, for every week, the change of    *)
(* slope that the locks ending then bring, and rolls the point forward over *)
(* the weeks that passed each time something is locked.                     *)
(*                                                                          *)
(* A deploy runs alone at one block time, and a revert undoes it: an entry  *)
(* point is one action.  current_block_number() is the constant 100, so     *)
(* every point has the same blk and the field is left out.                  *)
(***************************************************************************)
EXTENDS Dict, Integers, FiniteSets, FiniteSetsExt

CONSTANTS
    Week,           \* WEEK
    MaxTime,        \* MAXTIME, a multiple of WEEK
    MaxIterations,  \* the 255 rounds of the loops over weeks
    Amounts,        \* amounts that calls deposit
    Durations,      \* lock durations that calls ask for
    Start,          \* the block time of the constructor
    Horizon,        \* bound: the last block time
    Funds,          \* bound: what all users together own of the locked token
    MaxToken,       \* bound: the largest token id
    MaxEpoch        \* bound: the number of global points

ASSUME EscrowAssumption ==
    /\ Week \in Nat \ {0}
    /\ MaxTime \in Nat \ {0}
    /\ MaxTime % Week = 0
    /\ MaxIterations \in Nat \ {0}
    /\ Amounts \subseteq Nat
    /\ Durations \subseteq Nat
    /\ Start \in Nat
    /\ Horizon \in Nat
    /\ Start <= Horizon
    /\ Funds \in Nat
    /\ MaxToken \in Nat \ {0}
    /\ MaxEpoch \in Nat

VARIABLES
    now,       \* the block time in seconds
    minted,    \* the tokens that have an owner (the ledger of module NFT)
    locked,    \* LOCKED: token -> its lock
    book,      \* EPOCH, POINT_HISTORY, SLOPE_CHANGES, USER_POINT_EPOCH and
               \* USER_POINT_HISTORY
    veSupply,  \* VE_SUPPLY
    escrowed   \* the contract's balance of the locked token

vars == <<now, minted, locked, book, veSupply, escrowed>>

Token == 1..MaxToken

\* The times a lock can end at and a slope can change at.
Times == 0..(Horizon + MaxTime)

NoLock == [amount |-> 0, end |-> 0]

ZeroPoint(ts) == [bias |-> 0, slope |-> 0, ts |-> ts]

FloorWeek(t) == (t \div Week) * Week

NonNeg(x) == IF x < 0 THEN 0 ELSE x

-----------------------------------------------------------------------------
(* The global point, rolled forward to ts.                                  *)

LastPoint(b, ts) == IF b.epoch > 0 THEN b.points[b.epoch] ELSE ZeroPoint(ts)

\* Mutant of Rounds: the week that has not ended yet gets no round.
RoundsOfFullWeeks(from, ts) ==
    LET weeks == (ts - FloorWeek(from)) \div Week
    IN  IF weeks < 1 THEN 1
        ELSE IF weeks > MaxIterations THEN MaxIterations ELSE weeks

\* The rounds the loop over weeks makes from time `from` to ts.
Rounds(from, ts) ==
    LET weeks == (ts - FloorWeek(from) + Week - 1) \div Week
    IN  IF weeks < 1 THEN 1
        ELSE IF weeks > MaxIterations THEN MaxIterations ELSE weeks

\* The time of the point after round i of the loop; round 0 is its start.
RoundEnd(from, i, ts) ==
    IF i = 0 THEN from
    ELSE IF FloorWeek(from) + i * Week > ts THEN ts
    ELSE FloorWeek(from) + i * Week

\* The change of slope scheduled for the end of round i; none at a ts that
\* is not the end of a week.
RoundSlope(slopes, from, i, ts) ==
    IF FloorWeek(from) + i * Week > ts THEN 0 ELSE slopes[FloorWeek(from) + i * Week]

\* Mutant of Decay: the slope that ends is taken off before the decay.
DecaySlopeFirst(w, elapsed, dSlope) ==
    [bias  |-> NonNeg(w.bias - (w.slope + dSlope) * elapsed),
     slope |-> NonNeg(w.slope + dSlope)]

\* One round: the bias decays until the end of the round, then the slope
\* changes; neither goes below zero.
Decay(w, elapsed, dSlope) ==
    [bias  |-> NonNeg(w.bias - w.slope * elapsed),
     slope |-> NonNeg(w.slope + dSlope)]

\* The point after every round; Walk[0] is the point the loop starts from.
Walk(p0, slopes, ts) ==
    LET End(i) == RoundEnd(p0.ts, i, ts)
        w[i \in 0..Rounds(p0.ts, ts)] ==
            IF i = 0 THEN [bias |-> p0.bias, slope |-> p0.slope]
            ELSE Decay(w[i - 1], End(i) - End(i - 1),
                       RoundSlope(slopes, p0.ts, i, ts))
    IN  [i \in 0..Rounds(p0.ts, ts) |->
            [bias |-> w[i].bias, slope |-> w[i].slope, ts |-> End(i)]]

\* u_old and u_new: what a lock weighs at ts; nothing once it has expired.
UserPoint(lock, ts) ==
    IF lock.end > ts /\ lock.amount > 0
    THEN LET slope == lock.amount \div MaxTime
         IN  [bias |-> slope * (lock.end - ts), slope |-> slope, ts |-> ts]
    ELSE ZeroPoint(ts)

\* The global point with one token's weight replaced.
AddUser(p, uOld, uNew) ==
    [p EXCEPT !.slope = NonNeg(@ + uNew.slope - uOld.slope),
              !.bias  = NonNeg(@ + uNew.bias - uOld.bias)]

\* Mutant of GlobalCheckPoint: the points of the weeks are not written.
GlobalCheckPointSparse(b, ts, uOld, uNew) ==
    LET p0    == LastPoint(b, ts)
        steps == Rounds(p0.ts, ts)
        epoch == b.epoch + steps
    IN  [b EXCEPT
           !.epoch  = epoch,
           !.points = DictSet(b.points, epoch,
                              AddUser(Walk(p0, b.slopes, ts)[steps], uOld, uNew))]

\* Mutant of GlobalCheckPoint: a new checkpoint reuses the last epoch.
GlobalCheckPointInPlace(b, ts, uOld, uNew) ==
    LET p0    == LastPoint(b, ts)
        walk  == Walk(p0, b.slopes, ts)
        steps == Rounds(p0.ts, ts)
        epoch == b.epoch + steps - 1
    IN  [b EXCEPT
           !.epoch  = epoch,
           !.points = [e \in 0..epoch |->
                         IF e < b.epoch THEN b.points[e]
                         ELSE IF e < epoch THEN walk[e - b.epoch + 1]
                         ELSE AddUser(walk[steps], uOld, uNew)]]

\* The first half of _check_point: a point for every week that passed, and a
\* last one with the token's weight replaced (uOld = uNew when there is none).
GlobalCheckPoint(b, ts, uOld, uNew) ==
    LET p0    == LastPoint(b, ts)
        walk  == Walk(p0, b.slopes, ts)
        steps == Rounds(p0.ts, ts)
        epoch == b.epoch + steps
    IN  [b EXCEPT
           !.epoch  = epoch,
           !.points = [e \in 0..epoch |->
                         IF e <= b.epoch THEN b.points[e]
                         ELSE IF e < epoch THEN walk[e - b.epoch]
                         ELSE AddUser(walk[steps], uOld, uNew)]]

-----------------------------------------------------------------------------
(* A token's part of a checkpoint.                                          *)

\* Mutant of Reschedule: the old end keeps its change of slope.
RescheduleNewOnly(slopes, ts, old, new) ==
    LET uNew == UserPoint(new, ts).slope
    IN  IF new.end > ts /\ new.end > old.end
        THEN [slopes EXCEPT ![new.end] = @ - uNew]
        ELSE slopes

\* The token's slope disappears at the end of its lock: the change is
\* scheduled there, and what was scheduled at the old end is taken back.
Reschedule(slopes, ts, old, new) ==
    LET uOld == UserPoint(old, ts).slope
        uNew == UserPoint(new, ts).slope
        back == IF old.end > ts
                THEN [slopes EXCEPT ![old.end] =
                         @ + uOld - (IF new.end = old.end THEN uNew ELSE 0)]
                ELSE slopes
    IN  IF new.end > ts /\ new.end > old.end
        THEN [back EXCEPT ![new.end] = slopes[new.end] - uNew]
        ELSE back

\* The decimal digits of an epoch number, as the power of ten above it.
Shift(e) == IF e < 10 THEN 10 ELSE IF e < 100 THEN 100 ELSE 1000

\* The dictionary key of a user point: token_id.to_string() + &epoch.to_string().
UserPointKey(t, e) == t * Shift(e) + e

UserCheckPoint(b, ts, t, old, new) ==
    LET e == b.userEpoch[t] + 1
    IN  [b EXCEPT
           !.slopes     = Reschedule(b.slopes, ts, old, new),
           !.userEpoch  = [b.userEpoch EXCEPT ![t] = e],
           !.userPoints = DictSet(b.userPoints, UserPointKey(t, e),
                                  UserPoint(new, ts))]

\* _check_point for token t whose lock goes from old to new.
CheckPointed(b, ts, t, old, new) ==
    UserCheckPoint(GlobalCheckPoint(b, ts, UserPoint(old, ts), UserPoint(new, ts)),
                   ts, t, old, new)

-----------------------------------------------------------------------------
(* The entry points.                                                        *)

EmptyBook ==
    [epoch      |-> 0,
     points     |-> [e \in 0..0 |-> ZeroPoint(Start)],
     slopes     |-> [t \in Times |-> 0],
     userEpoch  |-> [t \in Token |-> 0],
     userPoints |-> EmptyDict]

EscrowInit ==
    /\ now = Start
    /\ minted = {}
    /\ locked = [t \in Token |-> NoLock]
    /\ book = EmptyBook
    /\ veSupply = 0
    /\ escrowed = 0

\* check_point: anybody may roll the global point forward.
CheckPoint ==
    /\ book' = GlobalCheckPoint(book, now, ZeroPoint(now), ZeroPoint(now))
    /\ book'.epoch <= MaxEpoch
    /\ UNCHANGED <<now, minted, locked, veSupply, escrowed>>

\* Mutant of Pay: the deposit of a merge is paid for again.
PayAlways(value, isMerge) ==
    /\ escrowed + value <= Funds
    /\ escrowed' = escrowed + value

\* The ERC-20 transfer_from at the end of _deposit_for (external), which
\* reverts when the caller's balance or allowance is short.
Pay(value, isMerge) ==
    IF value # 0 /\ ~isMerge
    THEN /\ escrowed + value <= Funds
         /\ escrowed' = escrowed + value
    ELSE UNCHANGED escrowed

\* The lock after a deposit; an unlock time of 0 leaves the end as it is.
Extended(lock, value, unlockTime) ==
    [amount |-> lock.amount + value,
     end    |-> IF unlockTime # 0 THEN unlockTime ELSE lock.end]

\* _deposit_for, in the state the entry point has reached: locks and b are
\* what it has made of locked and book before.
Deposit(locks, b, t, value, unlockTime, isMerge) ==
    LET lock == Extended(locks[t], value, unlockTime)
    IN  /\ locked' = [locks EXCEPT ![t] = lock]
        /\ book' = CheckPointed(b, now, t, locks[t], lock)
        /\ book'.epoch <= MaxEpoch
        /\ veSupply' = veSupply + value
        /\ Pay(value, isMerge)

\* A lock that is not empty and has not expired.
IsLive(lock) == lock.amount > 0 /\ lock.end > now

\* The amount that the calls below pass is positive (InvalidAmount).
Positive(amount) == amount > 0

\* deposit_for: anybody adds to any token's lock.
DepositFor(t, amount) ==
    /\ Positive(amount)
    /\ IsLive(locked[t])
    /\ Deposit(locked, book, t, amount, 0, FALSE)
    /\ UNCHANGED <<now, minted>>

\* increase_amount: the token must have an owner, is_approved_or_owner traps
\* otherwise; who the caller is belongs to the ledger.
IncreaseAmount(t, amount) ==
    /\ t \in minted
    /\ Positive(amount)
    /\ IsLive(locked[t])
    /\ Deposit(locked, book, t, amount, 0, FALSE)
    /\ UNCHANGED <<now, minted>>

\* increase_amount_for: the team adds to any token's lock.
IncreaseAmountFor(t, amount) ==
    /\ Positive(amount)
    /\ IsLive(locked[t])
    /\ Deposit(locked, book, t, amount, 0, FALSE)
    /\ UNCHANGED <<now, minted>>

\* The unlock time is rounded down to weeks.
UnlockTime(duration) == FloorWeek(now + duration)

\* Mutant of CreateLock: a lock may end beyond the longest lock time.
CreateLockUncapped(amount, duration) ==
    LET t == Cardinality(minted) + 1
    IN  /\ Positive(amount)
        /\ UnlockTime(duration) > now
        /\ UnlockTime(duration) \in Times
        /\ t \in Token \ minted
        /\ minted' = minted \cup {t}
        /\ Deposit(locked, book, t, amount, UnlockTime(duration), FALSE)
        /\ UNCHANGED now

\* create_lock and create_lock_for.
CreateLock(amount, duration) ==
    LET t == Cardinality(minted) + 1
    IN  /\ UnlockTime(duration) > now
        /\ Positive(amount)
        /\ UnlockTime(duration) <= now + MaxTime
        /\ t \in Token \ minted
        /\ minted' = minted \cup {t}
        /\ Deposit(locked, book, t, amount, UnlockTime(duration), FALSE)
        /\ UNCHANGED now

\* Mutant of IncreaseUnlockTime: the new end may come before the old one.
ChangeUnlockTime(t, duration) ==
    /\ t \in minted
    /\ IsLive(locked[t])
    /\ UnlockTime(duration) > now
    /\ UnlockTime(duration) <= now + MaxTime
    /\ Deposit(locked, book, t, 0, UnlockTime(duration), FALSE)
    /\ UNCHANGED <<now, minted>>

\* increase_unlock_time.
IncreaseUnlockTime(t, duration) ==
    /\ t \in minted
    /\ IsLive(locked[t])
    /\ UnlockTime(duration) > locked[t].end
    /\ UnlockTime(duration) <= now + MaxTime
    /\ Deposit(locked, book, t, 0, UnlockTime(duration), FALSE)
    /\ UNCHANGED <<now, minted>>

\* Mutant of Merge: the burnt token keeps its lock.
MergeKeepingLock(from, to) ==
    LET end   == IF locked[from].end >= locked[to].end
                 THEN locked[from].end ELSE locked[to].end
        taken == CheckPointed(book, now, from, locked[from], NoLock)
    IN  /\ from # to
        /\ {from, to} \subseteq minted
        /\ minted' = minted \ {from}
        /\ Deposit(locked, taken, to, locked[from].amount, end, TRUE)
        /\ UNCHANGED now

\* merge: the lock of from is emptied and checkpointed, its token is burnt,
\* and the amount is deposited into to until the later of the two ends.
Merge(from, to) ==
    LET end   == IF locked[from].end >= locked[to].end
                 THEN locked[from].end ELSE locked[to].end
        taken == CheckPointed(book, now, from, locked[from], NoLock)
    IN  /\ from # to
        /\ {from, to} \subseteq minted
        /\ minted' = minted \ {from}
        /\ Deposit([locked EXCEPT ![from] = NoLock], taken,
                   to, locked[from].amount, end, TRUE)
        /\ UNCHANGED now

\* withdraw has an empty body.
Withdraw(t) == UNCHANGED vars

\* Block time passes.
Tick ==
    /\ now < Horizon
    /\ now' = now + 1
    /\ UNCHANGED <<minted, locked, book, veSupply, escrowed>>

EscrowNext ==
    \/ Tick
    \/ CheckPoint
    \/ \E a \in Amounts, d \in Durations : CreateLock(a, d)
    \/ \E t \in Token, a \in Amounts :
          DepositFor(t, a) \/ IncreaseAmount(t, a) \/ IncreaseAmountFor(t, a)
    \/ \E t \in Token, d \in Durations : IncreaseUnlockTime(t, d)
    \/ \E from, to \in Token : Merge(from, to)
    \/ \E t \in Token : Withdraw(t)

EscrowSpec == EscrowInit /\ [][EscrowNext]_vars

-----------------------------------------------------------------------------
(* The views.                                                               *)

\* get_user_point.
GetUserPoint(t, e) == DictGetOr(book.userPoints, UserPointKey(t, e), ZeroPoint(0))

\* Mutant of BalanceOfNFT: the point before the latest is read.
BalanceOfNFTOnePointBack(t, at) ==
    IF book.userEpoch[t] = 0 THEN 0
    ELSE LET p == GetUserPoint(t, book.userEpoch[t] - 1)
         IN  NonNeg(p.bias - p.slope * (at - p.ts))

\* _balance_of_nft: the voting power of token t at time `at`.
BalanceOfNFT(t, at) ==
    IF book.userEpoch[t] = 0 THEN 0
    ELSE LET p == GetUserPoint(t, book.userEpoch[t])
         IN  NonNeg(p.bias - p.slope * (at - p.ts))

\* Mutant of SupplyAt: the weeks passed are not walked and nothing decays.
SupplyAtUndecayed(point, at) == NonNeg(point.bias)

\* _supply_at: the total voting power at time `at`, from a point of the
\* history.  Every round but the last moves the point's time to ts + t_i.
SupplyAt(point, at) ==
    LET n == Rounds(point.ts, at)
        w[i \in 0..(n - 1)] ==
            IF i = 0 THEN point
            ELSE LET p == w[i - 1]
                     t == RoundEnd(point.ts, i, at)
                 IN  [bias  |-> p.bias - p.slope * (t - p.ts),
                      slope |-> p.slope + RoundSlope(book.slopes, point.ts, i, at),
                      ts    |-> p.ts + t]
        last == w[n - 1]
    IN  NonNeg(last.bias - last.slope * (RoundEnd(point.ts, n, at) - last.ts))

\* _total_supply_at_t, ve_total_supply with the current time.
TotalSupplyAt(at) == SupplyAt(book.points[book.epoch], at)

-----------------------------------------------------------------------------
(* Properties.                                                              *)

Point == [bias : Int, slope : Int, ts : Nat]

Lock == [amount : Nat, end : Times]

BookTypeOK(b) ==
    /\ DOMAIN b = {"epoch", "points", "slopes", "userEpoch", "userPoints"}
    /\ b.epoch \in Nat
    /\ DOMAIN b.points = 0..b.epoch
    /\ \A e \in 0..b.epoch : b.points[e].ts \in Nat
    /\ b.slopes \in [Times -> Int]
    /\ b.userEpoch \in [Token -> Nat]
    /\ IsDict(b.userPoints, Nat, Point)

TypeOK ==
    /\ now \in Start..Horizon
    /\ minted \subseteq Token
    /\ locked \in [Token -> Lock]
    /\ BookTypeOK(book)
    /\ veSupply \in Nat
    /\ escrowed \in 0..Funds

\* The slope of a token's lock, expired or not.
Slope(t) == locked[t].amount \div MaxTime

Slopes == [t \in Token |-> Slope(t)]

\* The tokens whose lock has not expired at time `at`.
LiveAt(at) == {t \in Token : locked[t].end > at}

\* The latest global point, computed incrementally from slope changes, is the
\* sum over the locks not expired at its time of what each weighs.  This is
\* what makes the O(weeks) _check_point replace a loop over all tokens.  It
\* holds as long as no call finds the point more than MaxIterations weeks old.
GlobalIsSum ==
    book.epoch > 0 =>
        LET p == book.points[book.epoch]
        IN  /\ p.slope = SumFunctionOnSet(Slopes, LiveAt(p.ts))
            /\ p.bias = SumFunctionOnSet(
                           [t \in Token |-> Slope(t) * (locked[t].end - p.ts)], LiveAt(p.ts))

\* At every future time the scheduled change of slope takes off exactly the
\* slopes of the locks that end then, however they got that end: created,
\* added to, extended from another week, merged.
SlopeChangesMatch ==
    \A w \in Times :
        w > now => book.slopes[w]
                     = 0 - SumFunctionOnSet(Slopes, {t \in Token : locked[t].end = w})

\* The voting power of a token, now and at any later time, is the slope of its
\* lock times what is left of it, nothing after its end, and nothing for a
\* token that was merged away.
VotingPowerIsLinear ==
    \A t \in Token : \A at \in now..(Horizon + MaxTime) :
        BalanceOfNFT(t, at) = Slope(t) * NonNeg(locked[t].end - at)

BalancesAt(at) == [t \in Token |-> BalanceOfNFT(t, at)]

\* Until the first week boundary after the last checkpoint, ve_total_supply is
\* the sum of the voting powers of the tokens.
SupplyIsSumWithinWeek ==
    LET p == book.points[book.epoch]
    IN  now <= FloorWeek(p.ts) + Week
            => TotalSupplyAt(now) = SumFunctionOnSet(BalancesAt(now), Token)

\* The comment of _supply_at says it computes the total voting power at the
\* time asked for, whatever week that time is in.
SupplyIsSum ==
    TotalSupplyAt(now) = SumFunctionOnSet(BalancesAt(now), Token)

\* What the history of token t says it weighed at time `at`: its last point that
\* is not later, extended to that time.
PowerRecorded(t, at) ==
    LET epochs == {e \in 1..book.userEpoch[t] :
                      GetUserPoint(t, e).ts <= at}
        p == GetUserPoint(t, Max(epochs))
    IN  IF epochs = {} THEN 0 ELSE NonNeg(p.bias - p.slope * (at - p.ts))

\* The comments say _balance_of_nft takes the "Epoch time to return voting power
\* at" and _supply_at computes "total voting power at some point in the past".
\* Of any time that has passed one of the two, at least, answers what the points
\* recorded by then say.  (Where this fails, neither does.)
PastIsRecorded ==
    \A at \in Start..now :
        \/ \A t \in Token : BalanceOfNFT(t, at) = PowerRecorded(t, at)
        \/ TotalSupplyAt(at) =
               SumFunctionOnSet([t \in Token |-> PowerRecorded(t, at)], Token)

\* However long nobody called the contract, a checkpoint brings a point that
\* lags behind to the present, or forward by all the weeks its loop makes.
CatchesUp ==
    [][book'.epoch # book.epoch /\ book.epoch > 0 =>
         LET from == book.points[book.epoch].ts
             to   == book'.points[book'.epoch].ts
         IN  to = now \/ (to < now /\ to >= from + Week * (MaxIterations - 1) + 1)]_vars

\* What users paid in is what the locks record, after any sequence of
\* deposits and merges, and VE_SUPPLY never falls below it.
Solvency ==
    /\ escrowed = SumFunctionOnSet([t \in Token |-> locked[t].amount], Token)
    /\ veSupply >= escrowed

\* A token has a lock exactly while it has an owner, so an id that is minted
\* again never starts from what an earlier token of that id had locked.
LockedIffMinted ==
    \A t \in Token :
        IF t \in minted THEN locked[t].amount > 0 ELSE locked[t] = NoLock

\* Every lock ends at the start of a week, and no later than MaxTime from now.
LockHorizon ==
    \A t \in Token : locked[t].end % Week = 0 /\ locked[t].end <= now + MaxTime

\* No call takes from a lock or brings its end forward, except the merge that
\* burns the token; and then the other lock gets all of it, for as long.
LocksNeverShrink ==
    [][\A t \in Token :
         \/ /\ locked'[t].amount >= locked[t].amount
            /\ locked'[t].end >= locked[t].end
         \/ /\ t \notin minted'
            /\ \E u \in minted' :
                 /\ locked'[u].amount = locked[u].amount + locked[t].amount
                 /\ locked'[u].end >= locked[t].end]_vars

\* The histories are append-only: a step changes no point of an earlier epoch,
\* global or of a token, and the times of the global points never go back.
HistoryAppendOnly ==
    [][/\ book'.epoch >= book.epoch
       /\ \A e \in 0..book.epoch : book'.points[e] = book.points[e]
       /\ \A e \in book.epoch..(book'.epoch - 1) :
            e > 0 => book'.points[e].ts <= book'.points[e + 1].ts
       /\ \A k \in DOMAIN book.userPoints :
            book'.userPoints[k] = book.userPoints[k]]_vars

\* The comment in _deposit_for says "_locked.end > block.timestamp (always)":
\* a lock a call puts an amount into has not expired.
DepositsIntoLiveLocks ==
    [][\A t \in Token :
         locked'[t] # locked[t] /\ locked'[t].amount > 0
             => locked'[t].end > now]_vars

\* The comment in _check_point says users will be able to withdraw: a lock
\* that has expired can be taken out.
ExpiredCanWithdraw ==
    \A t \in minted : locked[t].end <= now => ENABLED <<Withdraw(t)>>_vars
=============================================================================
