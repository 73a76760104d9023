---------------------------- MODULE EscrowProofs ----------------------------
(***************************************************************************)
(* Proofs about the escrow, for every number of tokens and of points: its   *)
(* types, its locks, what it owes and has, the scheduled changes of slope   *)
(* and the global point.                                                    *)
(***************************************************************************)
EXTENDS Escrow, SumTheorems

-----------------------------------------------------------------------------
(* Arithmetic.                                                              *)

\* Rounding down to weeks gives the start of a week, less than a week back.
LEMMA FloorWeekFacts ==
    ASSUME NEW t \in Nat
    PROVE  /\ FloorWeek(t) \in Nat
           /\ FloorWeek(t) <= t
           /\ t < FloorWeek(t) + Week
           /\ FloorWeek(t) % Week = 0
<1>1. Week \in Nat /\ Week > 0
  BY EscrowAssumption
<1> DEFINE q == t \div Week
<1>2. q \in Nat /\ q * Week <= t /\ t < q * Week + Week
  BY <1>1
<1>3. (q * Week) % Week = 0
  BY <1>1, <1>2
<1> QED
  BY <1>1, <1>2, <1>3 DEF FloorWeek

\* Clamping a multiple at zero is clamping the factor.
LEMMA NonNegTimes ==
    ASSUME NEW s \in Nat, NEW x \in Int
    PROVE  NonNeg(s * x) = s * NonNeg(x)
<1>1. CASE x >= 0
  <2>1. s * x >= 0
    BY <1>1
  <2> QED
    BY <1>1, <2>1 DEF NonNeg
<1>2. CASE x < 0
  <2>1. s * x <= 0
    BY <1>2
  <2> QED
    BY <1>2, <2>1 DEF NonNeg
<1> QED
  BY <1>1, <1>2

\* The slope of a lock is a natural number.
LEMMA SlopeIsNat ==
    ASSUME NEW a \in Nat
    PROVE  a \div MaxTime \in Nat
BY EscrowAssumption

\* A loop over weeks makes at least one round.
LEMMA RoundsPositive ==
    ASSUME NEW from \in Nat, NEW ts \in Nat
    PROVE  Rounds(from, ts) \in Nat \ {0}
<1>1. FloorWeek(from) \in Nat
  BY FloorWeekFacts
<1>2. (ts - FloorWeek(from) + Week - 1) \div Week \in Int
  BY <1>1, EscrowAssumption
<1> QED
  BY <1>2, EscrowAssumption DEF Rounds

\* The rounds go forward in time, from the start of the loop to ts at most.
LEMMA RoundEndsAscend ==
    ASSUME NEW from \in Nat, NEW ts \in Nat, from <= ts, NEW i \in Nat
    PROVE  /\ RoundEnd(from, i, ts) \in Nat
           /\ RoundEnd(from, i, ts) <= ts
           /\ RoundEnd(from, i, ts) <= RoundEnd(from, i + 1, ts)
<1>1. /\ FloorWeek(from) \in Nat
      /\ FloorWeek(from) <= from
      /\ from < FloorWeek(from) + Week
  BY FloorWeekFacts
<1>2. Week \in Nat /\ i * Week \in Nat
  BY EscrowAssumption
<1>3. (i + 1) * Week = i * Week + Week
  BY <1>2
<1> QED
  BY <1>1, <1>2, <1>3 DEF RoundEnd

\* From `from` the loop comes to `at`, or as far as its rounds go.
ReachesFrom(from, to, at) ==
    to = at \/ (to < at /\ to >= from + Week * (MaxIterations - 1) + 1)

\* The end of the last round is ts, unless the rounds run out before; which
\* they do not up to MaxIterations weeks from where they start.
LEMMA LastRoundReaches ==
    ASSUME NEW from \in Nat, NEW ts \in Nat, from <= ts
    PROVE  /\ ReachesFrom(from, RoundEnd(from, Rounds(from, ts), ts), ts)
           /\ ts <= FloorWeek(from) + Week * MaxIterations
                => RoundEnd(from, Rounds(from, ts), ts) = ts
<1> DEFINE floor == FloorWeek(from)
           x == ts - floor + Week - 1
           weeks == x \div Week
<1>1. floor \in Nat /\ floor <= from /\ from < floor + Week
  BY FloorWeekFacts
<1>2. Week \in Nat \ {0} /\ MaxIterations \in Nat \ {0}
  BY EscrowAssumption
<1>3. x \in Nat
  BY <1>1, <1>2
<1>4. weeks \in Nat /\ x < weeks * Week + Week
  <2> HIDE DEF x
  <2> QED
    BY <1>2, <1>3
<1>5. weeks * Week \in Nat /\ ts <= floor + weeks * Week
  <2>1. weeks * Week \in Nat
    BY <1>2, <1>4
  <2> HIDE DEF weeks
  <2> QED
    BY <1>1, <1>2, <1>4, <2>1
<1>6. Rounds(from, ts) = IF weeks < 1 THEN 1
                         ELSE IF weeks > MaxIterations THEN MaxIterations ELSE weeks
  BY DEF Rounds
<1> HIDE DEF weeks, x, floor
<1>7. \A i \in Nat \ {0} :
         RoundEnd(from, i, ts) = IF floor + i * Week > ts THEN ts ELSE floor + i * Week
  BY DEF RoundEnd, floor
<1>8. CASE weeks < 1
  <2>1. weeks = 0 /\ ts <= floor /\ floor + 1 * Week > ts
    BY <1>1, <1>2, <1>4, <1>5, <1>8
  <2>2. Rounds(from, ts) = 1
    BY <1>6, <1>8
  <2>3. RoundEnd(from, Rounds(from, ts), ts) = ts
    BY <1>7, <2>1, <2>2
  <2> QED
    BY <2>3 DEF ReachesFrom
<1>9. CASE weeks >= 1 /\ weeks <= MaxIterations
  <2>1. Rounds(from, ts) = weeks
    BY <1>2, <1>4, <1>6, <1>9
  <2>2. RoundEnd(from, weeks, ts)
          = IF floor + weeks * Week > ts THEN ts ELSE floor + weeks * Week
    BY <1>4, <1>7, <1>9
  <2>3. RoundEnd(from, weeks, ts) = ts
    BY <1>1, <1>5, <2>2
  <2> QED
    BY <2>1, <2>3 DEF ReachesFrom
<1>10. CASE weeks > MaxIterations
  <2> DEFINE reach == MaxIterations * Week
  <2>1. Rounds(from, ts) = MaxIterations
    BY <1>2, <1>4, <1>6, <1>10
  <2>2. RoundEnd(from, MaxIterations, ts)
          = IF floor + reach > ts THEN ts ELSE floor + reach
    BY <1>2, <1>7
  <2>3. reach \in Nat /\ reach = Week * (MaxIterations - 1) + Week
    BY <1>2
  <2>4. Week * (MaxIterations - 1) \in Nat
    BY <1>2
  <2> HIDE DEF reach
  <2>5. floor + reach >= from + Week * (MaxIterations - 1) + 1
    BY <1>1, <1>2, <2>3, <2>4
  <2>6. ReachesFrom(from, RoundEnd(from, Rounds(from, ts), ts), ts)
    BY <1>1, <2>1, <2>2, <2>3, <2>4, <2>5 DEF ReachesFrom
  <2>7. ts <= floor + reach => RoundEnd(from, Rounds(from, ts), ts) = ts
    BY <1>1, <2>1, <2>2, <2>3
  <2>8. reach = Week * MaxIterations
    BY <1>2 DEF reach
  <2> QED
    BY <2>6, <2>7, <2>8 DEF floor
<1> QED
  BY <1>2, <1>4, <1>8, <1>9, <1>10

-----------------------------------------------------------------------------
(* One checkpoint.                                                          *)

\* What a lock weighs is a point.
LEMMA UserPointType ==
    ASSUME NEW lock \in Lock, NEW ts \in Nat
    PROVE  UserPoint(lock, ts) \in Point
<1>1. lock.amount \in Nat /\ lock.end \in Nat
  BY EscrowAssumption DEF Lock, Times
<1>2. lock.amount \div MaxTime \in Nat
  BY <1>1, SlopeIsNat
<1>3. (lock.amount \div MaxTime) * (lock.end - ts) \in Int
  BY <1>1, <1>2
<1> QED
  BY <1>1, <1>2, <1>3 DEF UserPoint, ZeroPoint, Point

\* Rescheduling changes values of the table of slopes, nothing else.
LEMMA RescheduleType ==
    ASSUME NEW slopes \in [Times -> Int], NEW ts \in Nat,
           NEW old \in Lock, NEW new \in Lock
    PROVE  Reschedule(slopes, ts, old, new) \in [Times -> Int]
<1>1. UserPoint(old, ts).slope \in Int /\ UserPoint(new, ts).slope \in Int
  BY UserPointType DEF Point
<1>2. old.end \in Times /\ new.end \in Times
  BY DEF Lock
<1> QED
  BY <1>1, <1>2 DEF Reschedule

\* The global half of a checkpoint adds points and leaves those there are; the
\* times of the points it adds do not go back, nor beyond the present.
LEMMA GlobalCheckPointAppends ==
    ASSUME NEW b, NEW ts \in Nat, NEW uOld, NEW uNew,
           BookTypeOK(b), b.points[b.epoch].ts <= ts
    PROVE  LET g == GlobalCheckPoint(b, ts, uOld, uNew)
           IN  /\ BookTypeOK(g)
               /\ g.epoch > b.epoch
               /\ g.slopes = b.slopes
               /\ g.userEpoch = b.userEpoch
               /\ g.userPoints = b.userPoints
               /\ \A e \in 0..b.epoch : g.points[e] = b.points[e]
               /\ \A e \in b.epoch..(g.epoch - 1) :
                     e > 0 => g.points[e].ts <= g.points[e + 1].ts
               /\ g.points[g.epoch].ts <= ts
               /\ b.epoch > 0
                     => ReachesFrom(b.points[b.epoch].ts, g.points[g.epoch].ts, ts)
<1> DEFINE p0 == LastPoint(b, ts)
           walk == Walk(p0, b.slopes, ts)
           steps == Rounds(p0.ts, ts)
           g == GlobalCheckPoint(b, ts, uOld, uNew)
           T(i) == RoundEnd(p0.ts, i, ts)
<1>1. /\ b.epoch \in Nat
      /\ \A e \in 0..b.epoch : b.points[e].ts \in Nat
  BY DEF BookTypeOK
<1>2. /\ p0.ts \in Nat
      /\ p0.ts <= ts
      /\ b.epoch > 0 => p0.ts = b.points[b.epoch].ts
  BY <1>1 DEF LastPoint, ZeroPoint
<1>3. steps \in Nat \ {0}
  BY <1>2, RoundsPositive
<1>4. \A i \in Nat : T(i) \in Nat /\ T(i) <= ts /\ T(i) <= T(i + 1)
  BY <1>2, RoundEndsAscend
<1>5. \A i \in 0..steps : walk[i].ts = T(i)
  BY DEF Walk
<1>6. AddUser(walk[steps], uOld, uNew).ts = T(steps)
  <2>1. steps \in 0..steps
    BY <1>3
  <2>2. \E x, y : walk[steps] = [bias |-> x, slope |-> y, ts |-> T(steps)]
    BY <2>1 DEF Walk
  <2> QED
    BY <2>2 DEF AddUser
<1>7. /\ g.epoch = b.epoch + steps
      /\ DOMAIN g = DOMAIN b
      /\ g.slopes = b.slopes
      /\ g.userEpoch = b.userEpoch
      /\ g.userPoints = b.userPoints
      /\ g.points = [e \in 0..(b.epoch + steps) |->
                        IF e <= b.epoch THEN b.points[e]
                        ELSE IF e < b.epoch + steps THEN walk[e - b.epoch]
                        ELSE AddUser(walk[steps], uOld, uNew)]
  BY DEF GlobalCheckPoint, BookTypeOK
<1> HIDE DEF g, walk, steps, p0
<1>8. \A e \in 0..b.epoch : g.points[e] = b.points[e]
  BY <1>1, <1>3, <1>7
<1>9. ASSUME NEW e \in Nat, e > b.epoch, e <= b.epoch + steps
      PROVE  g.points[e].ts = T(e - b.epoch)
  <2>1. CASE e < b.epoch + steps
    <3>1. g.points[e] = walk[e - b.epoch]
      BY <1>1, <1>3, <1>7, <1>9, <2>1
    <3>2. e - b.epoch \in 0..steps
      BY <1>1, <1>3, <1>9
    <3> QED
      BY <1>5, <3>1, <3>2
  <2>2. CASE e = b.epoch + steps
    <3>1. g.points[e] = AddUser(walk[steps], uOld, uNew)
      BY <1>1, <1>3, <1>7, <2>2
    <3>2. e - b.epoch = steps
      BY <1>1, <1>3, <2>2
    <3> QED
      BY <1>6, <3>1, <3>2
  <2> QED
    BY <1>1, <1>3, <1>9, <2>1, <2>2
<1>10. \A e \in b.epoch..(g.epoch - 1) : e > 0 => g.points[e].ts <= g.points[e + 1].ts
  <2> SUFFICES ASSUME NEW e \in b.epoch..(g.epoch - 1), e > 0
               PROVE  g.points[e].ts <= g.points[e + 1].ts
    OBVIOUS
  <2>1. e \in Nat /\ e >= b.epoch /\ e + 1 <= b.epoch + steps
    BY <1>1, <1>3, <1>7
  <2>2. g.points[e + 1].ts = T(e + 1 - b.epoch)
    BY <1>1, <1>9, <2>1
  <2>3. CASE e > b.epoch
    <3>1. g.points[e].ts = T(e - b.epoch)
      <4>1. e <= b.epoch + steps
        BY <1>1, <1>3, <2>1
      <4> QED
        BY <1>9, <2>1, <2>3, <4>1
    <3>2. e - b.epoch \in Nat /\ e + 1 - b.epoch = (e - b.epoch) + 1
      BY <1>1, <2>1
    <3> QED
      BY <1>4, <2>2, <3>1, <3>2
  <2>4. CASE e = b.epoch
    <3>1. g.points[e].ts = p0.ts
      BY <1>1, <1>2, <1>8, <2>4
    <3>2. p0.ts = T(0) /\ e + 1 - b.epoch = 0 + 1
      BY <1>1, <2>4 DEF RoundEnd
    <3> QED
      BY <1>4, <2>2, <3>1, <3>2
  <2> QED
    BY <1>1, <2>1, <2>3, <2>4
<1>11. /\ g.points[g.epoch].ts <= ts
       /\ g.points[g.epoch].ts = RoundEnd(p0.ts, steps, ts)
  <2>1. /\ g.epoch \in Nat
        /\ g.epoch > b.epoch
        /\ g.epoch <= b.epoch + steps
        /\ g.epoch - b.epoch = steps
    BY <1>1, <1>3, <1>7
  <2>2. g.points[g.epoch].ts = T(g.epoch - b.epoch)
    BY <1>9, <2>1
  <2> QED
    BY <1>3, <1>4, <2>1, <2>2
<1>12. BookTypeOK(g)
  <2>1. \A e \in 0..g.epoch : g.points[e].ts \in Nat
    <3> SUFFICES ASSUME NEW e \in 0..g.epoch PROVE g.points[e].ts \in Nat
      OBVIOUS
    <3>1. CASE e <= b.epoch
      BY <1>1, <1>3, <1>7, <1>8, <3>1
    <3>2. CASE e > b.epoch
      <4>1. e \in Nat /\ e <= b.epoch + steps /\ e - b.epoch \in Nat
        BY <1>1, <1>3, <1>7, <3>2
      <4> QED
        BY <1>4, <1>9, <3>2, <4>1
    <3> QED
      BY <1>1, <1>3, <1>7, <3>1, <3>2
  <2>2. g.epoch \in Nat /\ DOMAIN g.points = 0..g.epoch
    BY <1>1, <1>3, <1>7
  <2> QED
    BY <1>7, <2>1, <2>2 DEF BookTypeOK
<1>13. g.epoch > b.epoch
  BY <1>1, <1>3, <1>7
<1>14. ReachesFrom(p0.ts, g.points[g.epoch].ts, ts)
  <2>1. ReachesFrom(p0.ts, RoundEnd(p0.ts, Rounds(p0.ts, ts), ts), ts)
    BY <1>2, LastRoundReaches
  <2> QED
    BY <1>11, <2>1 DEF steps
<1>15. b.epoch > 0 => ReachesFrom(b.points[b.epoch].ts, g.points[g.epoch].ts, ts)
  BY <1>2, <1>14
<1> QED
  BY <1>7, <1>8, <1>10, <1>11, <1>12, <1>13, <1>15 DEF g

\* A checkpoint of token t adds global points, and one to t's history.
LEMMA CheckPointedAppends ==
    ASSUME NEW b, NEW ts \in Nat, NEW t \in Token, NEW old \in Lock, NEW new \in Lock,
           BookTypeOK(b), b.points[b.epoch].ts <= ts
    PROVE  LET c == CheckPointed(b, ts, t, old, new)
               n == b.userEpoch[t] + 1
           IN  /\ BookTypeOK(c)
               /\ c.epoch > b.epoch
               /\ \A e \in 0..b.epoch : c.points[e] = b.points[e]
               /\ \A e \in b.epoch..(c.epoch - 1) :
                     e > 0 => c.points[e].ts <= c.points[e + 1].ts
               /\ c.points[c.epoch].ts <= ts
               /\ b.epoch > 0 => ReachesFrom(b.points[b.epoch].ts, c.points[c.epoch].ts, ts)
               /\ c.userEpoch = [b.userEpoch EXCEPT ![t] = n]
               /\ c.userPoints = DictSet(b.userPoints, UserPointKey(t, n),
                                         UserPoint(new, ts))
<1> DEFINE g == GlobalCheckPoint(b, ts, UserPoint(old, ts), UserPoint(new, ts))
           c == CheckPointed(b, ts, t, old, new)
           n == b.userEpoch[t] + 1
           key == UserPointKey(t, n)
<1>1. n \in Nat /\ b.userEpoch \in [Token -> Nat]
  BY DEF BookTypeOK
<1>2. /\ BookTypeOK(g)
      /\ g.epoch > b.epoch
      /\ g.slopes = b.slopes
      /\ g.userEpoch = b.userEpoch
      /\ g.userPoints = b.userPoints
      /\ \A e \in 0..b.epoch : g.points[e] = b.points[e]
      /\ \A e \in b.epoch..(g.epoch - 1) : e > 0 => g.points[e].ts <= g.points[e + 1].ts
      /\ g.points[g.epoch].ts <= ts
      /\ b.epoch > 0 => ReachesFrom(b.points[b.epoch].ts, g.points[g.epoch].ts, ts)
  BY GlobalCheckPointAppends
<1> HIDE DEF g
<1>3. /\ DOMAIN c = DOMAIN g
      /\ c.epoch = g.epoch
      /\ c.points = g.points
      /\ c.slopes = Reschedule(g.slopes, ts, old, new)
      /\ c.userEpoch = [b.userEpoch EXCEPT ![t] = n]
      /\ c.userPoints = DictSet(b.userPoints, key, UserPoint(new, ts))
  BY <1>2 DEF CheckPointed, UserCheckPoint, BookTypeOK, g
<1> HIDE DEF c
<1>4. key \in Nat
  BY <1>1, EscrowAssumption DEF UserPointKey, Shift, Token
<1>5. BookTypeOK(c)
  <2>1. c.slopes \in [Times -> Int]
    <3>1. g.slopes \in [Times -> Int]
      BY <1>2 DEF BookTypeOK
    <3>2. Reschedule(g.slopes, ts, old, new) \in [Times -> Int]
      BY <3>1, RescheduleType
    <3> QED
      BY <1>3, <3>2
  <2>2. c.userEpoch \in [Token -> Nat]
    BY <1>1, <1>3
  <2>3. IsDict(c.userPoints, Nat, Point)
    BY <1>3, <1>4, UserPointType DEF BookTypeOK, IsDict, DictSet
  <2> QED
    BY <1>2, <1>3, <2>1, <2>2, <2>3 DEF BookTypeOK
<1> QED
  BY <1>2, <1>3, <1>5 DEF c

\* The global half of a checkpoint leaves the table of slopes to the other half.
LEMMA CheckPointedParts ==
    ASSUME NEW b, NEW ts \in Nat, NEW t, NEW old, NEW new,
           BookTypeOK(b), b.points[b.epoch].ts <= ts
    PROVE  LET g == GlobalCheckPoint(b, ts, UserPoint(old, ts), UserPoint(new, ts))
               c == CheckPointed(b, ts, t, old, new)
           IN  /\ c.epoch = g.epoch
               /\ c.points = g.points
               /\ c.slopes = Reschedule(b.slopes, ts, old, new)
<1> DEFINE g == GlobalCheckPoint(b, ts, UserPoint(old, ts), UserPoint(new, ts))
<1>1. BookTypeOK(g) /\ g.slopes = b.slopes
  BY GlobalCheckPointAppends
<1> HIDE DEF g
<1>2. DOMAIN g = {"epoch", "points", "slopes", "userEpoch", "userPoints"}
  BY <1>1 DEF BookTypeOK
<1>3. CheckPointed(b, ts, t, old, new) = UserCheckPoint(g, ts, t, old, new)
  BY DEF CheckPointed, g
<1> QED
  BY <1>1, <1>2, <1>3 DEF UserCheckPoint, g

-----------------------------------------------------------------------------
(* The inductive invariant, and the steps.                                  *)

\* The type of the state, the two facts about locks that the entry points need
\* of one another, and that the latest global point is not in the future.
EscrowInv ==
    /\ TypeOK
    /\ LockedIffMinted
    /\ LockHorizon
    /\ book.points[book.epoch].ts <= now

\* The invariant as the proofs use it.
LEMMA EscrowInvFacts ==
    ASSUME EscrowInv
    PROVE  /\ now \in Nat /\ now <= Horizon
           /\ minted \subseteq Token
           /\ locked \in [Token -> Lock]
           /\ \A t \in Token : /\ locked[t].amount \in Nat
                               /\ locked[t].end \in Times /\ locked[t].end \in Nat
                               /\ locked[t].end % Week = 0
                               /\ locked[t].end <= now + MaxTime
                               /\ IF t \in minted THEN locked[t].amount > 0
                                  ELSE locked[t] = NoLock
           /\ BookTypeOK(book)
           /\ book.epoch \in Nat
           /\ book.slopes \in [Times -> Int]
           /\ book.points[book.epoch].ts \in Nat
           /\ book.points[book.epoch].ts <= now
           /\ veSupply \in Nat /\ escrowed \in 0..Funds
BY EscrowAssumption
   DEF EscrowInv, TypeOK, LockedIffMinted, LockHorizon, Lock, Times, BookTypeOK

\* The empty lock is a lock.
LEMMA NoLockType == NoLock \in Lock /\ NoLock.amount = 0 /\ NoLock.end = 0
BY EscrowAssumption DEF NoLock, Lock, Times

\* Time passes, or nothing happens.
PassesTime ==
    /\ now' \in {now, now + 1} /\ now' <= Horizon
    /\ UNCHANGED <<minted, locked, book, veSupply, escrowed>>

\* The lock of token t becomes `lock`, which is no less and ends no earlier,
\* and what was added to it is paid for.
Deposits(t, lock) ==
    /\ t \in Token
    /\ lock \in Lock
    /\ lock.amount > 0 /\ lock.amount >= locked[t].amount
    /\ lock.end >= locked[t].end
    /\ lock.end % Week = 0 /\ lock.end <= now + MaxTime
    /\ now' = now
    /\ minted' = minted \cup {t}
    /\ locked' = [locked EXCEPT ![t] = lock]
    /\ book' = CheckPointed(book, now, t, locked[t], lock)
    /\ book'.epoch <= MaxEpoch
    /\ veSupply' = veSupply + (lock.amount - locked[t].amount)
    /\ escrowed' = escrowed + (lock.amount - locked[t].amount)
    /\ escrowed' \in 0..Funds

\* The locks of two tokens become one, `lock`, and the first token is burnt.
Merges(from, to, lock) ==
    /\ from \in minted /\ to \in minted /\ from # to
    /\ lock \in Lock
    /\ lock.amount = locked[to].amount + locked[from].amount
    /\ lock.end >= locked[to].end /\ lock.end >= locked[from].end
    /\ lock.end % Week = 0 /\ lock.end <= now + MaxTime
    /\ now' = now
    /\ minted' = minted \ {from}
    /\ locked' = [[locked EXCEPT ![from] = NoLock] EXCEPT ![to] = lock]
    /\ book' = CheckPointed(CheckPointed(book, now, from, locked[from], NoLock),
                            now, to, locked[to], lock)
    /\ book'.epoch <= MaxEpoch
    /\ veSupply' = veSupply + locked[from].amount
    /\ escrowed' = escrowed

\* What _deposit_for does to the lock of a token.
LEMMA DepositDeposits ==
    ASSUME EscrowInv, NEW t \in Token, NEW value \in Nat, NEW unlockTime \in Nat,
           locked[t].amount + value > 0,
           \/ unlockTime = 0
           \/ /\ unlockTime % Week = 0
              /\ unlockTime <= now + MaxTime
              /\ unlockTime >= locked[t].end,
           Deposit(locked, book, t, value, unlockTime, FALSE),
           now' = now, minted' = minted \cup {t}
    PROVE  \E lock : Deposits(t, lock)
<1> DEFINE lock == Extended(locked[t], value, unlockTime)
<1>1. /\ now \in Nat /\ now <= Horizon /\ Horizon \in Nat /\ MaxTime \in Nat /\ Funds \in Nat
      /\ locked[t].amount \in Nat /\ locked[t].end \in Nat
      /\ locked[t].end % Week = 0 /\ locked[t].end <= now + MaxTime
      /\ veSupply \in Nat /\ escrowed \in 0..Funds
  BY EscrowInvFacts, EscrowAssumption
<1>2. /\ lock.amount = locked[t].amount + value
      /\ lock.end = IF unlockTime # 0 THEN unlockTime ELSE locked[t].end
      /\ lock = [amount |-> lock.amount, end |-> lock.end]
  BY DEF Extended
<1>3. /\ locked' = [locked EXCEPT ![t] = lock]
      /\ book' = CheckPointed(book, now, t, locked[t], lock)
      /\ book'.epoch <= MaxEpoch
      /\ veSupply' = veSupply + value
      /\ Pay(value, FALSE)
  BY DEF Deposit
<1> HIDE DEF lock
<1>4. /\ lock.amount \in Nat /\ lock.amount > 0 /\ lock.amount >= locked[t].amount
      /\ lock.amount - locked[t].amount = value
  BY <1>1, <1>2
<1>5. /\ lock.end \in Nat /\ lock.end % Week = 0 /\ lock.end <= now + MaxTime
      /\ lock.end >= locked[t].end
  BY <1>1, <1>2
<1>6. lock \in Lock
  <2>1. lock.end \in Times
    BY <1>1, <1>5 DEF Times
  <2> QED
    BY <1>2, <1>4, <2>1 DEF Lock
<1>7. escrowed' = escrowed + value /\ escrowed' \in 0..Funds
  BY <1>1, <1>3 DEF Pay
<1>8. Deposits(t, lock)
  BY <1>3, <1>4, <1>5, <1>6, <1>7 DEF Deposits
<1> QED
  BY <1>8

\* What merge does to the locks of two tokens.
LEMMA MergeMerges ==
    ASSUME EscrowInv, NEW from \in Token, NEW to \in Token, Merge(from, to)
    PROVE  \E lock : Merges(from, to, lock)
<1> DEFINE value == locked[from].amount
           end == IF locked[from].end >= locked[to].end
                  THEN locked[from].end ELSE locked[to].end
           locks == [locked EXCEPT ![from] = NoLock]
           taken == CheckPointed(book, now, from, locked[from], NoLock)
           lock == Extended(locks[to], value, end)
<1>1. /\ now \in Nat /\ now <= Horizon /\ Horizon \in Nat /\ MaxTime \in Nat
      /\ locked \in [Token -> Lock]
      /\ \A u \in Token : /\ locked[u].amount \in Nat /\ locked[u].end \in Nat
                          /\ locked[u].end % Week = 0 /\ locked[u].end <= now + MaxTime
  BY EscrowInvFacts, EscrowAssumption
<1>2. /\ from # to /\ from \in minted /\ to \in minted
      /\ minted' = minted \ {from}
      /\ Deposit(locks, taken, to, value, end, TRUE)
      /\ now' = now
  BY DEF Merge
<1>3. locks[to] = locked[to]
  BY <1>1, <1>2
<1>4. /\ value \in Nat
      /\ end \in Nat /\ end % Week = 0 /\ end <= now + MaxTime
      /\ end >= locked[to].end /\ end >= locked[from].end
  BY <1>1
<1>5. lock = [amount |-> locked[to].amount + value, end |-> end]
  BY <1>1, <1>3, <1>4 DEF Extended
<1>6. lock \in Lock
  <2>1. end \in Times
    BY <1>1, <1>4 DEF Times
  <2>2. locked[to].amount + value \in Nat
    BY <1>1, <1>4
  <2> QED
    BY <1>5, <2>1, <2>2 DEF Lock
<1>7. /\ locked' = [locks EXCEPT ![to] = lock]
      /\ book' = CheckPointed(taken, now, to, locked[to], lock)
      /\ book'.epoch <= MaxEpoch
      /\ veSupply' = veSupply + value
      /\ escrowed' = escrowed
  BY <1>2, <1>3 DEF Deposit, Pay
<1>8. lock.amount = locked[to].amount + value /\ lock.end = end
  BY <1>5
<1> HIDE DEF end, lock
<1>9. Merges(from, to, lock)
  BY <1>2, <1>4, <1>6, <1>7, <1>8 DEF Merges
<1> QED
  BY <1>9

\* Unlock times are starts of weeks.
LEMMA UnlockTimeFacts ==
    ASSUME now \in Nat, NEW d \in Durations
    PROVE  UnlockTime(d) \in Nat /\ UnlockTime(d) % Week = 0
<1>1. now + d \in Nat
  BY EscrowAssumption
<1> QED
  BY <1>1, FloorWeekFacts DEF UnlockTime

\* Every step is one of four: what the entry points check makes each of them
\* pass time, move the global point, deposit into one lock or merge two.
LEMMA StepCases ==
    ASSUME EscrowInv, [EscrowNext]_vars
    PROVE  \/ PassesTime
           \/ CheckPoint
           \/ \E t \in Token : \E lock : Deposits(t, lock)
           \/ \E from, to \in Token : \E lock : Merges(from, to, lock)
<1>1. /\ now \in Nat /\ now <= Horizon /\ Horizon \in Nat
      /\ \A t \in Token : /\ locked[t].amount \in Nat /\ locked[t].end \in Nat
                          /\ IF t \in minted THEN locked[t].amount > 0
                             ELSE locked[t] = NoLock
  BY EscrowInvFacts, EscrowAssumption
<1>2. CASE UNCHANGED vars \/ Tick \/ \E t \in Token : Withdraw(t)
  BY <1>1, <1>2 DEF PassesTime, Tick, Withdraw, vars
<1>3. ASSUME NEW t \in Token, NEW a \in Amounts,
             DepositFor(t, a) \/ IncreaseAmount(t, a) \/ IncreaseAmountFor(t, a)
      PROVE  \E lock : Deposits(t, lock)
  <2>1. /\ locked[t].amount > 0
        /\ Deposit(locked, book, t, a, 0, FALSE)
        /\ now' = now /\ minted' = minted
    BY <1>3 DEF DepositFor, IncreaseAmount, IncreaseAmountFor, IsLive
  <2>2. minted' = minted \cup {t}
    BY <1>1, <2>1, NoLockType
  <2>3. a \in Nat /\ locked[t].amount + a > 0 /\ 0 \in Nat
    BY <1>1, <2>1, EscrowAssumption
  <2> QED
    BY <2>1, <2>2, <2>3, DepositDeposits
<1>4. ASSUME NEW t \in Token, NEW d \in Durations, IncreaseUnlockTime(t, d)
      PROVE  \E lock : Deposits(t, lock)
  <2>1. /\ t \in minted
        /\ UnlockTime(d) > locked[t].end
        /\ UnlockTime(d) <= now + MaxTime
        /\ Deposit(locked, book, t, 0, UnlockTime(d), FALSE)
        /\ now' = now /\ minted' = minted
    BY <1>4 DEF IncreaseUnlockTime
  <2>2. UnlockTime(d) \in Nat /\ UnlockTime(d) % Week = 0
    BY <1>1, UnlockTimeFacts
  <2>3. minted' = minted \cup {t} /\ locked[t].amount + 0 > 0 /\ 0 \in Nat
    BY <1>1, <2>1
  <2>4. UnlockTime(d) >= locked[t].end
    BY <1>1, <2>1, <2>2
  <2> QED
    BY <2>1, <2>2, <2>3, <2>4, DepositDeposits
<1>5. ASSUME NEW a \in Amounts, NEW d \in Durations, CreateLock(a, d)
      PROVE  \E t \in Token : \E lock : Deposits(t, lock)
  <2> DEFINE t == Cardinality(minted) + 1
  <2>1. /\ a > 0
        /\ UnlockTime(d) <= now + MaxTime
        /\ t \in Token \ minted
        /\ minted' = minted \cup {t}
        /\ Deposit(locked, book, t, a, UnlockTime(d), FALSE)
        /\ now' = now
    BY <1>5 DEF CreateLock, Positive
  <2> HIDE DEF t
  <2>2. locked[t].amount = 0 /\ locked[t].end = 0
    BY <1>1, <2>1, NoLockType
  <2>3. UnlockTime(d) \in Nat /\ UnlockTime(d) % Week = 0
    BY <1>1, UnlockTimeFacts
  <2>4. a \in Nat /\ locked[t].amount + a > 0 /\ UnlockTime(d) >= locked[t].end
    BY <2>1, <2>2, <2>3, EscrowAssumption
  <2> QED
    BY <2>1, <2>3, <2>4, DepositDeposits
<1> QED
  BY <1>2, <1>3, <1>4, <1>5, MergeMerges DEF EscrowNext

\* The constructor's state satisfies the invariant.
LEMMA InitEscrowInv == EscrowInit => EscrowInv
<1> SUFFICES ASSUME EscrowInit PROVE EscrowInv
  OBVIOUS
<1>1. now = Start /\ now \in Nat /\ 0 \in Times
  BY EscrowAssumption DEF EscrowInit, EmptyBook, Times
<1>2. BookTypeOK(book)
  BY <1>1 DEF EscrowInit, EmptyBook, BookTypeOK, ZeroPoint, IsDict, EmptyDict
<1>3. TypeOK
  BY <1>1, <1>2, NoLockType, EscrowAssumption DEF EscrowInit, TypeOK
<1>4. LockedIffMinted
  BY DEF EscrowInit, LockedIffMinted
<1>5. LockHorizon
  <2>1. 0 % Week = 0 /\ 0 <= now + MaxTime
    BY <1>1, EscrowAssumption
  <2> QED
    BY <2>1 DEF EscrowInit, LockHorizon, NoLock
<1>6. book.points[book.epoch].ts <= now
  BY <1>1 DEF EscrowInit, EmptyBook, ZeroPoint
<1> QED
  BY <1>3, <1>4, <1>5, <1>6 DEF EscrowInv

\* A step keeps the invariant.
LEMMA NextEscrowInv ==
    ASSUME EscrowInv, [EscrowNext]_vars
    PROVE  EscrowInv'
<1>1. /\ now \in Nat /\ now <= Horizon
      /\ minted \subseteq Token
      /\ locked \in [Token -> Lock]
      /\ \A t \in Token : /\ locked[t].amount \in Nat /\ locked[t].end \in Nat
                          /\ locked[t].end % Week = 0
                          /\ locked[t].end <= now + MaxTime
                          /\ IF t \in minted THEN locked[t].amount > 0
                             ELSE locked[t] = NoLock
      /\ BookTypeOK(book)
      /\ book.points[book.epoch].ts \in Nat
      /\ book.points[book.epoch].ts <= now
      /\ veSupply \in Nat /\ escrowed \in 0..Funds
  BY EscrowInvFacts
<1>2. now \in Start..Horizon /\ Start \in Nat /\ Horizon \in Nat /\ MaxTime \in Nat
  BY EscrowAssumption DEF EscrowInv, TypeOK
<1>3. CASE PassesTime
  <2>1. TypeOK' /\ LockedIffMinted'
    BY <1>2, <1>3 DEF EscrowInv, PassesTime, TypeOK, LockedIffMinted
  <2>2. LockHorizon'
    BY <1>1, <1>2, <1>3 DEF PassesTime, LockHorizon
  <2>3. (book.points[book.epoch].ts <= now)'
    BY <1>1, <1>3 DEF PassesTime
  <2> QED
    BY <2>1, <2>2, <2>3 DEF EscrowInv
<1>4. CASE CheckPoint
  <2> DEFINE c == GlobalCheckPoint(book, now, ZeroPoint(now), ZeroPoint(now))
  <2>1. book' = c /\ UNCHANGED <<now, minted, locked, veSupply, escrowed>>
    BY <1>4 DEF CheckPoint
  <2>2. BookTypeOK(c) /\ c.points[c.epoch].ts <= now
    BY <1>1, GlobalCheckPointAppends
  <2> HIDE DEF c
  <2> QED
    BY <2>1, <2>2 DEF EscrowInv, TypeOK, LockedIffMinted, LockHorizon
<1>5. ASSUME NEW t \in Token, NEW lock, Deposits(t, lock) PROVE EscrowInv'
  <2>1. BookTypeOK(book') /\ book'.points[book'.epoch].ts <= now
    <3>1. locked[t] \in Lock /\ lock \in Lock
      BY <1>1, <1>5 DEF Deposits
    <3> QED
      BY <1>1, <1>5, <3>1, CheckPointedAppends DEF Deposits
  <2>2. /\ now' = now /\ minted' = minted \cup {t}
        /\ locked' = [locked EXCEPT ![t] = lock]
        /\ lock \in Lock /\ lock.amount > 0
        /\ lock.end % Week = 0 /\ lock.end <= now + MaxTime
        /\ veSupply' \in Nat /\ escrowed' \in 0..Funds
    <3>1. lock.amount \in Nat /\ lock.amount >= locked[t].amount
      BY <1>5 DEF Deposits, Lock
    <3>2. veSupply' = veSupply + (lock.amount - locked[t].amount)
      BY <1>5 DEF Deposits
    <3>3. veSupply' \in Nat
      BY <1>1, <3>1, <3>2
    <3> QED
      BY <1>5, <3>3 DEF Deposits
  <2>3. \A u \in Token : locked'[u] = IF u = t THEN lock ELSE locked[u]
    BY <1>1, <2>2
  <2>4. TypeOK'
    BY <1>1, <1>2, <2>1, <2>2 DEF TypeOK
  <2>5. LockedIffMinted'
    BY <1>1, <2>2, <2>3 DEF LockedIffMinted
  <2>6. LockHorizon'
    BY <1>1, <2>2, <2>3 DEF LockHorizon
  <2> QED
    BY <2>1, <2>2, <2>4, <2>5, <2>6 DEF EscrowInv
<1>6. ASSUME NEW from \in Token, NEW to \in Token, NEW lock, Merges(from, to, lock)
      PROVE  EscrowInv'
  <2>1. BookTypeOK(book') /\ book'.points[book'.epoch].ts <= now
    <3> DEFINE taken == CheckPointed(book, now, from, locked[from], NoLock)
    <3>1. locked[from] \in Lock /\ locked[to] \in Lock /\ lock \in Lock /\ NoLock \in Lock
      BY <1>1, <1>6, NoLockType DEF Merges
    <3>2. BookTypeOK(taken) /\ taken.points[taken.epoch].ts <= now
      BY <1>1, <3>1, CheckPointedAppends
    <3>3. book' = CheckPointed(taken, now, to, locked[to], lock)
      BY <1>6 DEF Merges
    <3> HIDE DEF taken
    <3> QED
      BY <1>1, <3>1, <3>2, <3>3, CheckPointedAppends
  <2>2. /\ now' = now /\ minted' = minted \ {from}
        /\ from \in minted /\ to \in minted /\ from # to
        /\ locked' = [[locked EXCEPT ![from] = NoLock] EXCEPT ![to] = lock]
        /\ lock \in Lock
        /\ lock.amount = locked[to].amount + locked[from].amount
        /\ lock.end % Week = 0 /\ lock.end <= now + MaxTime
        /\ veSupply' = veSupply + locked[from].amount
        /\ escrowed' = escrowed
    BY <1>6 DEF Merges
  <2>3. \A u \in Token : locked'[u] = IF u = to THEN lock
                                      ELSE IF u = from THEN NoLock ELSE locked[u]
    BY <1>1, <2>2
  <2>4. lock.amount > 0 /\ veSupply' \in Nat
    BY <1>1, <2>2
  <2>5. TypeOK'
    BY <1>1, <1>2, <2>1, <2>2, <2>4, NoLockType DEF TypeOK
  <2>6. LockedIffMinted'
    BY <1>1, <2>2, <2>3, <2>4 DEF LockedIffMinted
  <2>7. LockHorizon'
    <3>1. 0 % Week = 0 /\ 0 <= now + MaxTime
      BY <1>1, <1>2, EscrowAssumption
    <3> QED
      BY <1>1, <2>2, <2>3, <3>1, NoLockType DEF LockHorizon
  <2> QED
    BY <2>1, <2>2, <2>5, <2>6, <2>7 DEF EscrowInv
<1> QED
  BY <1>3, <1>4, <1>5, <1>6, StepCases

\* The invariant holds in every reachable state.
THEOREM EscrowInvariant == EscrowSpec => []EscrowInv
<1>1. EscrowInv /\ [EscrowNext]_vars => EscrowInv'
  BY NextEscrowInv
<1> QED
  BY InitEscrowInv, <1>1, PTL DEF EscrowSpec

-----------------------------------------------------------------------------
(* What the contract owes.                                                  *)

\* There are finitely many tokens.
LEMMA TokenFinite == IsFiniteSet(Token)
BY FS_Interval, EscrowAssumption DEF Token

AmountsOf(locks) == [t \in Token |-> locks[t].amount]

\* Where one lock changes, what all of them hold changes as much.
LEMMA AmountsChange ==
    ASSUME NEW locks \in [Token -> Lock], NEW t \in Token, NEW new \in Lock
    PROVE  SumFunctionOnSet(AmountsOf([locks EXCEPT ![t] = new]), Token)
             = SumFunctionOnSet(AmountsOf(locks), Token) - locks[t].amount + new.amount
<1> DEFINE f == AmountsOf(locks)
           g == AmountsOf([locks EXCEPT ![t] = new])
<1>1. \A u \in Token : f[u] \in Int /\ f[u] = locks[u].amount
  BY DEF AmountsOf, Lock
<1>2. g[t] = new.amount /\ g[t] \in Int /\ \A u \in Token \ {t} : g[u] = f[u]
  BY DEF AmountsOf, Lock
<1> HIDE DEF f, g
<1>3. SumFunctionOnSet(g, Token) = SumFunctionOnSet(f, Token) - f[t] + g[t]
  BY <1>1, <1>2, TokenFinite, SumChangedAt
<1> QED
  BY <1>1, <1>2, <1>3 DEF f, g

\* What the locks hold is an integer.
LEMMA AmountsSumType ==
    ASSUME NEW locks \in [Token -> Lock]
    PROVE  SumFunctionOnSet(AmountsOf(locks), Token) \in Int
<1> DEFINE f == AmountsOf(locks)
<1>1. \A u \in Token : f[u] \in Int
  BY DEF AmountsOf, Lock
<1> HIDE DEF f
<1>2. SumFunctionOnSet(f, Token) \in Int
  BY <1>1, TokenFinite, SumIsInt
<1> QED
  BY <1>2 DEF f

\* Solvency in terms of AmountsOf.
LEMMA SolvencySum ==
    Solvency <=> /\ escrowed = SumFunctionOnSet(AmountsOf(locked), Token)
                 /\ veSupply >= escrowed
BY Zenon DEF Solvency, AmountsOf

\* Deposits and merges keep the sum of the locks equal to what was paid in.
LEMMA NextSolvency ==
    ASSUME EscrowInv, Solvency, [EscrowNext]_vars
    PROVE  Solvency'
<1> DEFINE sum(locks) == SumFunctionOnSet(AmountsOf(locks), Token)
<1>1. /\ locked \in [Token -> Lock]
      /\ \A t \in Token : locked[t].amount \in Nat
      /\ veSupply \in Nat /\ escrowed \in Nat
      /\ minted \subseteq Token
  BY EscrowInvFacts, EscrowAssumption
<1>2. escrowed = sum(locked) /\ veSupply >= escrowed
  BY SolvencySum
<1>3. SUFFICES escrowed' = sum(locked') /\ veSupply' >= escrowed'
  BY Zenon DEF Solvency, AmountsOf
<1>4. CASE PassesTime \/ CheckPoint
  BY <1>2, <1>4 DEF PassesTime, CheckPoint
<1>5. ASSUME NEW t \in Token, NEW lock, Deposits(t, lock)
      PROVE  escrowed' = sum(locked') /\ veSupply' >= escrowed'
  <2>1. /\ lock \in Lock /\ lock.amount \in Nat
        /\ locked' = [locked EXCEPT ![t] = lock]
        /\ veSupply' = veSupply + (lock.amount - locked[t].amount)
        /\ escrowed' = escrowed + (lock.amount - locked[t].amount)
    BY <1>5 DEF Deposits, Lock
  <2>2. sum(locked') = sum(locked) - locked[t].amount + lock.amount
    BY <1>1, <2>1, AmountsChange
  <2> HIDE DEF sum
  <2> QED
    BY <1>1, <1>2, <2>1, <2>2
<1>6. ASSUME NEW from \in Token, NEW to \in Token, NEW lock, Merges(from, to, lock)
      PROVE  escrowed' = sum(locked') /\ veSupply' >= escrowed'
  <2> DEFINE locks == [locked EXCEPT ![from] = NoLock]
  <2>1. /\ lock \in Lock /\ from # to
        /\ lock.amount = locked[to].amount + locked[from].amount
        /\ locked' = [locks EXCEPT ![to] = lock]
        /\ veSupply' = veSupply + locked[from].amount
        /\ escrowed' = escrowed
    BY <1>6 DEF Merges
  <2>2. sum(locks) = sum(locked) - locked[from].amount + NoLock.amount
    BY <1>1, NoLockType, AmountsChange
  <2>3. locks \in [Token -> Lock] /\ locks[to] = locked[to]
    BY <1>1, <2>1, NoLockType
  <2> HIDE DEF locks
  <2>4. sum(locked') = sum(locks) - locks[to].amount + lock.amount
    BY <2>1, <2>3, AmountsChange
  <2> HIDE DEF sum
  <2> QED
    BY <1>1, <1>2, <2>1, <2>2, <2>3, <2>4, NoLockType
<1> QED
  BY <1>4, <1>5, <1>6, StepCases

\* After any sequence of deposits and merges, of any number of tokens, what
\* users paid in is what the locks record, and VE_SUPPLY is no less.
THEOREM EscrowIsSolvent == EscrowSpec => []Solvency
<1>1. EscrowInit => Solvency
  <2> SUFFICES ASSUME EscrowInit PROVE Solvency
    OBVIOUS
  <2> DEFINE f == AmountsOf(locked)
             none == [t \in {} |-> 0]
  <2>1. \A t \in Token : f[t] = 0
    BY NoLockType DEF EscrowInit, AmountsOf
  <2> HIDE DEF f
  <2>2. SumFunctionOnSet(f, Token) = SumFunctionOnSet(none, {})
    BY <2>1, TokenFinite, SumOverSupport
  <2>3. SumFunctionOnSet(none, {}) = 0
    BY SumEmpty
  <2>4. escrowed = 0 /\ veSupply = 0
    BY DEF EscrowInit
  <2> QED
    BY <2>2, <2>3, <2>4, SolvencySum DEF f
<1>2. EscrowInv /\ Solvency /\ [EscrowNext]_vars => Solvency'
  BY NextSolvency
<1> QED
  BY <1>1, <1>2, EscrowInvariant, PTL DEF EscrowSpec

-----------------------------------------------------------------------------
(* The scheduled changes of slope.                                          *)

SlopeOf(lock) == lock.amount \div MaxTime

\* Where a lock ends at w, its slope.
EndingAt(locks, w) ==
    [t \in Token |-> IF locks[t].end = w THEN SlopeOf(locks[t]) ELSE 0]

\* The change of slope scheduled at any time after `from` takes off the slopes
\* of the locks that end then.
SlopesMatch(slopes, locks, from) ==
    \A w \in Times :
        w > from => slopes[w] = 0 - SumFunctionOnSet(EndingAt(locks, w), Token)

\* The slope of a lock, and what it weighs in the calculation of a checkpoint.
LEMMA SlopeFacts ==
    ASSUME NEW lock \in Lock, NEW ts \in Nat
    PROVE  /\ lock.amount \in Nat /\ lock.end \in Nat /\ lock.end \in Times
           /\ SlopeOf(lock) \in Nat
           /\ UserPoint(lock, ts).slope = IF lock.end > ts THEN SlopeOf(lock) ELSE 0
           /\ UserPoint(lock, ts).bias
                = IF lock.end > ts THEN SlopeOf(lock) * (lock.end - ts) ELSE 0
           /\ UserPoint(lock, ts).ts = ts
<1>1. lock.amount \in Nat /\ lock.end \in Nat /\ lock.end \in Times
  BY EscrowAssumption DEF Lock, Times
<1>2. SlopeOf(lock) \in Nat
  BY <1>1, SlopeIsNat DEF SlopeOf
<1>3. CASE lock.amount > 0
  BY <1>1, <1>2, <1>3 DEF UserPoint, ZeroPoint, SlopeOf
<1>4. CASE lock.amount = 0
  <2>1. SlopeOf(lock) = 0
    BY <1>4, EscrowAssumption DEF SlopeOf
  <2>2. UserPoint(lock, ts) = ZeroPoint(ts)
    BY <1>4 DEF UserPoint
  <2> QED
    BY <1>1, <2>1, <2>2 DEF ZeroPoint
<1> QED
  BY <1>1, <1>2, <1>3, <1>4

\* What the two updates of _check_point make of the change of slope at a time w
\* to come, where the new end is no earlier than the old one or there is no
\* lock any more: the old slope is given back at the old end, the new one is
\* taken off at the new end.
LEMMA RescheduledSlope ==
    ASSUME NEW slopes \in [Times -> Int], NEW ts \in Nat,
           NEW old \in Lock, NEW new \in Lock,
           new.end >= old.end \/ new = NoLock,
           NEW w \in Times, w > ts
    PROVE  Reschedule(slopes, ts, old, new)[w]
             = slopes[w] + (IF old.end = w THEN SlopeOf(old) ELSE 0)
                         - (IF new.end = w THEN SlopeOf(new) ELSE 0)
<1> DEFINE uOld == UserPoint(old, ts).slope
           uNew == UserPoint(new, ts).slope
           back == IF old.end > ts
                   THEN [slopes EXCEPT ![old.end] =
                            @ + uOld - (IF new.end = old.end THEN uNew ELSE 0)]
                   ELSE slopes
<1>1. /\ old.end \in Nat /\ old.end \in Times /\ SlopeOf(old) \in Nat
      /\ new.end \in Nat /\ new.end \in Times /\ SlopeOf(new) \in Nat
      /\ uOld = IF old.end > ts THEN SlopeOf(old) ELSE 0
      /\ uNew = IF new.end > ts THEN SlopeOf(new) ELSE 0
  BY SlopeFacts
<1>2. new.end >= old.end \/ new.end = 0
  BY NoLockType
<1>3. Reschedule(slopes, ts, old, new)
        = IF new.end > ts /\ new.end > old.end
          THEN [back EXCEPT ![new.end] = slopes[new.end] - uNew] ELSE back
  BY DEF Reschedule
<1>4. w \in Nat /\ slopes[w] \in Int
  BY EscrowAssumption DEF Times
<1> HIDE DEF uOld, uNew
<1>5. back[w] = IF old.end = w
                THEN slopes[w] + uOld - (IF new.end = old.end THEN uNew ELSE 0)
                ELSE slopes[w]
  BY <1>1, <1>4
<1>6. back \in [Times -> Int]
  BY <1>1
<1> HIDE DEF back
<1>7. CASE new.end = w /\ old.end # w
  <2>1. new.end > ts /\ new.end > old.end
    BY <1>1, <1>2, <1>4, <1>7
  <2>2. Reschedule(slopes, ts, old, new)[w] = slopes[w] - uNew
    BY <1>3, <1>6, <1>7, <2>1
  <2> QED
    BY <1>1, <1>4, <1>7, <2>2
<1>8. CASE ~(new.end = w /\ old.end # w)
  <2>1. Reschedule(slopes, ts, old, new)[w] = back[w]
    <3>1. CASE new.end > ts /\ new.end > old.end
      <4>1. new.end # w
        BY <1>1, <1>8, <3>1
      <4> QED
        BY <1>3, <1>6, <3>1, <4>1
    <3>2. CASE ~(new.end > ts /\ new.end > old.end)
      BY <1>3, <3>2
    <3> QED
      BY <3>1, <3>2
  <2> QED
    BY <1>1, <1>4, <1>5, <1>8, <2>1
<1> QED
  BY <1>7, <1>8

\* Rescheduling one lock keeps the table of slopes in line with the locks.
LEMMA RescheduleMatches ==
    ASSUME NEW slopes \in [Times -> Int], NEW locks \in [Token -> Lock],
           NEW t \in Token, NEW new \in Lock,
           NEW ts \in Nat,
           new.end >= locks[t].end \/ new = NoLock,
           SlopesMatch(slopes, locks, ts)
    PROVE  SlopesMatch(Reschedule(slopes, ts, locks[t], new),
                       [locks EXCEPT ![t] = new], ts)
<1> DEFINE after == [locks EXCEPT ![t] = new]
           table == Reschedule(slopes, ts, locks[t], new)
<1> SUFFICES ASSUME NEW w \in Times, w > ts
             PROVE  table[w] = 0 - SumFunctionOnSet(EndingAt(after, w), Token)
  BY DEF SlopesMatch
<1> DEFINE f == EndingAt(locks, w)
           g == EndingAt(after, w)
           sOld == IF locks[t].end = w THEN SlopeOf(locks[t]) ELSE 0
           sNew == IF new.end = w THEN SlopeOf(new) ELSE 0
<1>1. w \in Nat /\ w > ts /\ locks[t] \in Lock
  BY EscrowAssumption DEF Times
<1>2. \A u \in Token : SlopeOf(locks[u]) \in Nat
  BY SlopeFacts
<1>3. SlopeOf(new) \in Nat
  BY SlopeFacts
<1>4. f[t] = sOld /\ g[t] = sNew /\ sOld \in Int /\ sNew \in Int
  BY <1>2, <1>3 DEF EndingAt
<1>5. \A u \in Token : f[u] \in Int
  BY <1>2 DEF EndingAt
<1>6. \A u \in Token \ {t} : g[u] = f[u]
  BY DEF EndingAt
<1>7. table[w] = slopes[w] + sOld - sNew
  BY <1>1, RescheduledSlope
<1>8. slopes[w] = 0 - SumFunctionOnSet(f, Token)
  BY <1>1 DEF SlopesMatch
<1> HIDE DEF f, g, sOld, sNew, table
<1>9. SumFunctionOnSet(g, Token) = SumFunctionOnSet(f, Token) - f[t] + g[t]
  BY <1>4, <1>5, <1>6, TokenFinite, SumChangedAt
<1>10. SumFunctionOnSet(f, Token) \in Int
  BY <1>5, TokenFinite, SumIsInt
<1> QED
  BY <1>4, <1>7, <1>8, <1>9, <1>10 DEF g

\* The later a table of slopes has to match from, the less it has to.
LEMMA SlopesMatchLater ==
    ASSUME NEW slopes, NEW locks, NEW from \in Nat, NEW ts \in Nat, from <= ts,
           SlopesMatch(slopes, locks, from)
    PROVE  SlopesMatch(slopes, locks, ts)
<1>1. \A w \in Times : w \in Nat
  BY EscrowAssumption DEF Times
<1> QED
  BY <1>1 DEF SlopesMatch

\* SlopeChangesMatch in terms of SlopesMatch.
LEMMA SlopeChangesSum ==
    ASSUME locked \in [Token -> Lock]
    PROVE  SlopeChangesMatch <=> SlopesMatch(book.slopes, locked, now)
<1>1. ASSUME NEW w \in Times
      PROVE  SumFunctionOnSet(Slopes, {t \in Token : locked[t].end = w})
               = SumFunctionOnSet(EndingAt(locked, w), Token)
  <2> DEFINE T == {t \in Token : locked[t].end = w}
             g == EndingAt(locked, w)
  <2>1. \A t \in Token : SlopeOf(locked[t]) \in Nat
    BY SlopeFacts, EscrowAssumption
  <2>2. \A t \in T : Slopes[t] \in Int /\ g[t] = Slopes[t]
    BY <2>1 DEF Slopes, Slope, EndingAt, SlopeOf
  <2>3. \A t \in Token \ T : g[t] = 0
    BY DEF EndingAt
  <2>4. T \subseteq Token
    OBVIOUS
  <2> HIDE DEF T, g
  <2>5. SumFunctionOnSet(g, Token) = SumFunctionOnSet(Slopes, T)
    BY <2>2, <2>3, <2>4, TokenFinite, SumOverSupport
  <2> QED
    BY <2>5 DEF T, g
<1> QED
  BY <1>1, Zenon DEF SlopeChangesMatch, SlopesMatch

\* The checkpoint of one lock keeps the table of slopes in line with the locks.
LEMMA CheckPointedMatches ==
    ASSUME NEW b, NEW locks \in [Token -> Lock], NEW t \in Token, NEW new \in Lock,
           NEW ts \in Nat,
           BookTypeOK(b), b.points[b.epoch].ts <= ts,
           new.end >= locks[t].end \/ new = NoLock,
           SlopesMatch(b.slopes, locks, ts),
           NEW c, c = CheckPointed(b, ts, t, locks[t], new),
           NEW after, after = [locks EXCEPT ![t] = new]
    PROVE  SlopesMatch(c.slopes, after, ts)
<1>1. c.slopes = Reschedule(b.slopes, ts, locks[t], new)
  BY CheckPointedParts
<1>2. b.slopes \in [Times -> Int]
  BY DEF BookTypeOK
<1>3. SlopesMatch(Reschedule(b.slopes, ts, locks[t], new), [locks EXCEPT ![t] = new], ts)
  BY <1>2, RescheduleMatches
<1> QED
  BY <1>1, <1>3

\* What a merge leaves: the book of two checkpoints.
LEMMA MergesBook ==
    ASSUME EscrowInv, NEW from \in Token, NEW to \in Token, NEW lock,
           Merges(from, to, lock)
    PROVE  LET locks == [locked EXCEPT ![from] = NoLock]
               taken == CheckPointed(book, now, from, locked[from], NoLock)
           IN  /\ locks \in [Token -> Lock]
               /\ locks[to] = locked[to]
               /\ BookTypeOK(taken) /\ taken.points[taken.epoch].ts <= now
               /\ taken.epoch > book.epoch
               /\ book' = CheckPointed(taken, now, to, locks[to], lock)
               /\ locked' = [locks EXCEPT ![to] = lock]
               /\ lock \in Lock /\ lock.end >= locks[to].end
<1>1. /\ now \in Nat /\ locked \in [Token -> Lock]
      /\ BookTypeOK(book) /\ book.points[book.epoch].ts <= now
  BY EscrowInvFacts
<1>2. locked[from] \in Lock /\ NoLock \in Lock
  BY <1>1, NoLockType
<1>3. from # to
  BY DEF Merges
<1>4. /\ BookTypeOK(CheckPointed(book, now, from, locked[from], NoLock))
      /\ CheckPointed(book, now, from, locked[from], NoLock).epoch > book.epoch
      /\ CheckPointed(book, now, from, locked[from], NoLock).points[
           CheckPointed(book, now, from, locked[from], NoLock).epoch].ts <= now
  BY <1>1, <1>2, CheckPointedAppends
<1>5. /\ [locked EXCEPT ![from] = NoLock] \in [Token -> Lock]
      /\ [locked EXCEPT ![from] = NoLock][to] = locked[to]
  BY <1>1, <1>2, <1>3
<1> QED
  BY <1>4, <1>5 DEF Merges

\* Every step keeps the table of slopes in line with the locks.
LEMMA NextSlopesMatch ==
    ASSUME EscrowInv, SlopesMatch(book.slopes, locked, now), [EscrowNext]_vars
    PROVE  SlopesMatch(book'.slopes, locked', now')
<1>1. /\ now \in Nat /\ locked \in [Token -> Lock]
      /\ BookTypeOK(book) /\ book.points[book.epoch].ts <= now
  BY EscrowInvFacts
<1>2. CASE PassesTime
  <2>1. book' = book /\ locked' = locked /\ now' \in Nat /\ now <= now'
    BY <1>1, <1>2 DEF PassesTime
  <2> QED
    BY <1>1, <2>1, SlopesMatchLater
<1>3. CASE CheckPoint
  <2>1. GlobalCheckPoint(book, now, ZeroPoint(now), ZeroPoint(now)).slopes = book.slopes
    BY <1>1, GlobalCheckPointAppends
  <2> QED
    BY <1>3, <2>1 DEF CheckPoint
<1>4. ASSUME NEW t \in Token, NEW lock, Deposits(t, lock)
      PROVE  SlopesMatch(book'.slopes, locked', now')
  <2>1. /\ lock \in Lock /\ lock.end >= locked[t].end
        /\ book' = CheckPointed(book, now, t, locked[t], lock)
        /\ locked' = [locked EXCEPT ![t] = lock]
        /\ now' = now
    BY <1>4 DEF Deposits
  <2>2. SlopesMatch(book'.slopes, locked', now)
    BY <1>1, <2>1, CheckPointedMatches
  <2> QED
    BY <2>1, <2>2
<1>5. ASSUME NEW from \in Token, NEW to \in Token, NEW lock, Merges(from, to, lock)
      PROVE  SlopesMatch(book'.slopes, locked', now')
  <2> DEFINE locks == [locked EXCEPT ![from] = NoLock]
             taken == CheckPointed(book, now, from, locked[from], NoLock)
  <2>1. /\ locks \in [Token -> Lock]
        /\ BookTypeOK(taken) /\ taken.points[taken.epoch].ts <= now
        /\ book' = CheckPointed(taken, now, to, locks[to], lock)
        /\ locked' = [locks EXCEPT ![to] = lock]
        /\ lock \in Lock /\ lock.end >= locks[to].end
    BY <1>5, MergesBook
  <2>2. /\ taken = CheckPointed(book, now, from, locked[from], NoLock)
        /\ locks = [locked EXCEPT ![from] = NoLock]
    OBVIOUS
  <2> HIDE DEF locks, taken
  <2>3. SlopesMatch(taken.slopes, locks, now)
    BY <1>1, <2>2, NoLockType, CheckPointedMatches
  <2>4. SlopesMatch(book'.slopes, locked', now)
    BY <1>1, <2>1, <2>3, CheckPointedMatches
  <2> QED
    BY <1>5, <2>4 DEF Merges
<1> QED
  BY <1>2, <1>3, <1>4, <1>5, StepCases

\* A sum of zeros is zero.
LEMMA SumOfZeros ==
    ASSUME NEW f, \A t \in Token : f[t] = 0
    PROVE  SumFunctionOnSet(f, Token) = 0
BY TokenFinite, SumAllZero

\* At every future time the scheduled change of slope takes off exactly the
\* slopes of the locks that end then, whatever calls they came from and however
\* many there are.
THEOREM SlopeChangesAreScheduled == EscrowSpec => []SlopeChangesMatch
<1> DEFINE Match == SlopesMatch(book.slopes, locked, now)
<1>1. EscrowInit => Match
  <2> SUFFICES ASSUME EscrowInit, NEW w \in Times
               PROVE  book.slopes[w] = 0 - SumFunctionOnSet(EndingAt(locked, w), Token)
    BY DEF SlopesMatch
  <2> DEFINE f == EndingAt(locked, w)
  <2>1. \A t \in Token : f[t] = 0
    <3>1. SlopeOf(NoLock) = 0
      BY EscrowAssumption DEF SlopeOf, NoLock
    <3> QED
      BY <3>1 DEF EscrowInit, EndingAt
  <2> HIDE DEF f
  <2>2. SumFunctionOnSet(f, Token) = 0
    BY <2>1, SumOfZeros
  <2>3. book.slopes[w] = 0
    BY DEF EscrowInit, EmptyBook
  <2> QED
    BY <2>2, <2>3 DEF f
<1>2. EscrowInv /\ Match /\ [EscrowNext]_vars => Match'
  BY NextSlopesMatch
<1>3. EscrowInv /\ Match => SlopeChangesMatch
  BY EscrowInvFacts, SlopeChangesSum
<1> HIDE DEF Match
<1> QED
  BY <1>1, <1>2, <1>3, EscrowInvariant, PTL DEF EscrowSpec


-----------------------------------------------------------------------------
(* The locks, and how far a checkpoint reaches.                             *)

\* The state of the escrow is of its type.
THEOREM EscrowTypeCorrect == EscrowSpec => []TypeOK
<1>1. EscrowInv => TypeOK
  BY DEF EscrowInv
<1> QED
  BY <1>1, EscrowInvariant, PTL

\* A token has a lock exactly while it has an owner.
THEOREM OnlyMintedAreLocked == EscrowSpec => []LockedIffMinted
<1>1. EscrowInv => LockedIffMinted
  BY DEF EscrowInv
<1> QED
  BY <1>1, EscrowInvariant, PTL

\* Every lock ends at the start of a week, and no later than MaxTime from now.
THEOREM LocksEndInTime == EscrowSpec => []LockHorizon
<1>1. EscrowInv => LockHorizon
  BY DEF EscrowInv
<1> QED
  BY <1>1, EscrowInvariant, PTL

\* A lock that is neither below nor ends before what it was.
Grows(u) == locked'[u].amount >= locked[u].amount /\ locked'[u].end >= locked[u].end

\* A lock that went into another one, whose token stays.
MovesOn(u) ==
    /\ u \notin minted'
    /\ \E v \in minted' :
          /\ locked'[v].amount = locked[v].amount + locked[u].amount
          /\ locked'[v].end >= locked[u].end

\* No step takes from a lock, unless it moves all of it on.
LEMMA NextGrows ==
    ASSUME EscrowInv, [EscrowNext]_vars
    PROVE  \A u \in Token : Grows(u) \/ MovesOn(u)
<1>1. /\ locked \in [Token -> Lock] /\ minted \subseteq Token
      /\ \A u \in Token : locked[u].amount \in Nat /\ locked[u].end \in Nat
  BY EscrowInvFacts
<1>2. CASE PassesTime \/ CheckPoint
  BY <1>1, <1>2 DEF PassesTime, CheckPoint, Grows
<1>3. ASSUME NEW t \in Token, NEW lock, Deposits(t, lock)
      PROVE  \A u \in Token : Grows(u)
  <2>1. /\ locked' = [locked EXCEPT ![t] = lock]
        /\ lock.amount >= locked[t].amount /\ lock.end >= locked[t].end
    BY <1>3 DEF Deposits
  <2> QED
    BY <1>1, <2>1 DEF Grows
<1>4. ASSUME NEW from \in Token, NEW to \in Token, NEW lock, Merges(from, to, lock)
      PROVE  \A u \in Token : Grows(u) \/ MovesOn(u)
  <2>1. /\ from # to /\ to \in minted /\ minted' = minted \ {from}
        /\ lock.amount = locked[to].amount + locked[from].amount
        /\ lock.end >= locked[to].end /\ lock.end >= locked[from].end
        /\ locked' = [[locked EXCEPT ![from] = NoLock] EXCEPT ![to] = lock]
    BY <1>4 DEF Merges
  <2>2. \A u \in Token : locked'[u] = IF u = to THEN lock
                                      ELSE IF u = from THEN NoLock ELSE locked[u]
    BY <1>1, <2>1
  <2>3. MovesOn(from)
    BY <2>1, <2>2 DEF MovesOn
  <2>4. \A u \in Token \ {from} : Grows(u)
    BY <1>1, <2>1, <2>2 DEF Grows
  <2> QED
    BY <2>3, <2>4
<1> QED
  BY <1>2, <1>3, <1>4, StepCases

\* No step takes from a lock or brings its end forward, except a merge, which
\* moves all of it to a lock that ends no earlier.
THEOREM LocksOnlyGrow == EscrowSpec => LocksNeverShrink
<1>1. EscrowInv /\ [EscrowNext]_vars
        => [\A t \in Token :
              \/ /\ locked'[t].amount >= locked[t].amount
                 /\ locked'[t].end >= locked[t].end
              \/ /\ t \notin minted'
                 /\ \E u \in minted' :
                      /\ locked'[u].amount = locked[u].amount + locked[t].amount
                      /\ locked'[u].end >= locked[t].end]_vars
  BY NextGrows DEF Grows, MovesOn
<1> QED
  BY <1>1, EscrowInvariant, PTL DEF EscrowSpec, LocksNeverShrink

\* The checkpoint of one lock reaches as far as the global half of it.
LEMMA CheckPointedReaches ==
    ASSUME NEW b, NEW ts \in Nat, NEW t \in Token, NEW old \in Lock, NEW new \in Lock,
           BookTypeOK(b), b.points[b.epoch].ts <= ts,
           NEW c, c = CheckPointed(b, ts, t, old, new)
    PROVE  /\ BookTypeOK(c)
           /\ c.epoch > b.epoch
           /\ c.points[c.epoch].ts <= ts
           /\ b.epoch > 0 => ReachesFrom(b.points[b.epoch].ts, c.points[c.epoch].ts, ts)
BY CheckPointedAppends

\* The two checkpoints of a merge reach at least as far as the first.
LEMMA ReachesTwice ==
    ASSUME NEW from \in Nat, NEW mid \in Nat, NEW to \in Nat, NEW at \in Nat,
           mid <= at, ReachesFrom(from, mid, at), ReachesFrom(mid, to, at), from <= at
    PROVE  ReachesFrom(from, to, at)
<1>1. Week * (MaxIterations - 1) \in Nat
  BY EscrowAssumption
<1> QED
  BY <1>1 DEF ReachesFrom

\* A checkpoint after any idle time brings the global point to the present, or
\* forward by all the weeks the loop makes.
THEOREM CheckpointsCatchUp == EscrowSpec => CatchesUp
<1>1. EscrowInv /\ [EscrowNext]_vars
        => [book'.epoch # book.epoch /\ book.epoch > 0 =>
              LET from == book.points[book.epoch].ts
                  to   == book'.points[book'.epoch].ts
              IN  to = now \/ (to < now /\ to >= from + Week * (MaxIterations - 1) + 1)]_vars
  <2> DEFINE from == book.points[book.epoch].ts
             to   == book'.points[book'.epoch].ts
  <2> SUFFICES ASSUME EscrowInv, [EscrowNext]_vars, book'.epoch # book.epoch, book.epoch > 0
               PROVE  ReachesFrom(from, to, now)
    BY DEF ReachesFrom
  <2>1. /\ now \in Nat /\ from \in Nat
        /\ BookTypeOK(book) /\ from <= now
        /\ locked \in [Token -> Lock]
    BY EscrowInvFacts
  <2>2. to \in Nat
    BY NextEscrowInv, EscrowInvFacts DEF EscrowInv, TypeOK, BookTypeOK
  <2>3. CASE PassesTime
    BY <2>3 DEF PassesTime
  <2>4. CASE CheckPoint
    BY <2>1, <2>4, GlobalCheckPointAppends DEF CheckPoint
  <2>5. ASSUME NEW t \in Token, NEW lock, Deposits(t, lock)
        PROVE  ReachesFrom(from, to, now)
    <3>1. locked[t] \in Lock /\ lock \in Lock
          /\ book' = CheckPointed(book, now, t, locked[t], lock)
      BY <2>1, <2>5 DEF Deposits
    <3> QED
      BY <2>1, <3>1, CheckPointedReaches
  <2>6. ASSUME NEW src \in Token, NEW dst \in Token, NEW lock, Merges(src, dst, lock)
        PROVE  ReachesFrom(from, to, now)
    <3> DEFINE locks == [locked EXCEPT ![src] = NoLock]
               taken == CheckPointed(book, now, src, locked[src], NoLock)
               mid == taken.points[taken.epoch].ts
    <3>1. /\ locks \in [Token -> Lock]
          /\ BookTypeOK(taken) /\ mid <= now /\ taken.epoch > book.epoch
          /\ book' = CheckPointed(taken, now, dst, locks[dst], lock)
          /\ lock \in Lock
      BY <2>6, MergesBook
    <3>2. locked[src] \in Lock /\ NoLock \in Lock
      BY <2>1, NoLockType
    <3>3. taken = CheckPointed(book, now, src, locked[src], NoLock)
      OBVIOUS
    <3> HIDE DEF taken, locks
    <3>4. ReachesFrom(from, mid, now)
      BY <2>1, <3>2, <3>3, CheckPointedReaches
    <3>5. mid \in Nat /\ taken.epoch > 0
      BY <2>1, <3>1 DEF BookTypeOK
    <3>6. ReachesFrom(mid, to, now)
      <4>1. locks[dst] \in Lock
        BY <3>1
      <4> QED
        BY <2>1, <3>1, <3>5, <4>1, CheckPointedReaches
    <3> QED
      BY <2>1, <2>2, <3>1, <3>4, <3>5, <3>6, ReachesTwice
  <2> QED
    BY <2>3, <2>4, <2>5, <2>6, StepCases
<1> QED
  BY <1>1, EscrowInvariant, PTL DEF EscrowSpec, CatchesUp

-----------------------------------------------------------------------------
(* The walk over the weeks.                                                 *)

\* The recursion that Walk makes.
IsWalk(w, p0, slopes, ts) ==
    w = [i \in 0..Rounds(p0.ts, ts) |->
            IF i = 0 THEN [bias |-> p0.bias, slope |-> p0.slope]
            ELSE Decay(w[i - 1], RoundEnd(p0.ts, i, ts) - RoundEnd(p0.ts, i - 1, ts),
                       RoundSlope(slopes, p0.ts, i, ts))]

WalkTable(p0, slopes, ts) == CHOOSE w : IsWalk(w, p0, slopes, ts)

LEMMA WalkIsOfTable ==
    ASSUME NEW p0, NEW slopes, NEW ts
    PROVE  Walk(p0, slopes, ts)
             = [i \in 0..Rounds(p0.ts, ts) |->
                  [bias |-> WalkTable(p0, slopes, ts)[i].bias,
                   slope |-> WalkTable(p0, slopes, ts)[i].slope,
                   ts |-> RoundEnd(p0.ts, i, ts)]]
BY DEF Walk, WalkTable, IsWalk

\* The recursion defines a function: the first m rounds can be filled in for
\* every m.
LEMMA WalkTableExists ==
    ASSUME NEW p0, NEW slopes, NEW ts, p0.ts \in Nat, ts \in Nat
    PROVE  IsWalk(WalkTable(p0, slopes, ts), p0, slopes, ts)
<1> DEFINE First == [bias |-> p0.bias, slope |-> p0.slope]
           Round(w, i) == Decay(w, RoundEnd(p0.ts, i, ts) - RoundEnd(p0.ts, i - 1, ts),
                                RoundSlope(slopes, p0.ts, i, ts))
           Filled(g, m) == g = [i \in 0..m |-> IF i = 0 THEN First ELSE Round(g[i - 1], i)]
           N == {m \in Nat : \E g : Filled(g, m)}
           n == Rounds(p0.ts, ts)
<1> HIDE DEF First, Round
<1>1. 0 \in N
  <2> DEFINE g == [i \in 0..0 |-> First]
  <2>1. \A i \in 0..0 : i = 0
    OBVIOUS
  <2>2. Filled(g, 0)
    BY <2>1
  <2> QED
    BY <2>2
<1>2. ASSUME NEW m \in Nat, m \in N PROVE m + 1 \in N
  <2>1. PICK g : Filled(g, m)
    BY <1>2
  <2> DEFINE h == [i \in 0..(m + 1) |-> IF i <= m THEN g[i] ELSE Round(g[m], i)]
  <2>2. \A i \in 0..m : h[i] = g[i]
    BY <1>2
  <2>3. \A i \in 0..m : g[i] = IF i = 0 THEN First ELSE Round(g[i - 1], i)
    BY <2>1
  <2>4. ASSUME NEW i \in 0..(m + 1)
        PROVE  h[i] = IF i = 0 THEN First ELSE Round(h[i - 1], i)
    <3>1. CASE i = 0
      BY <1>2, <2>2, <2>3, <3>1
    <3>2. CASE i # 0 /\ i <= m
      <4>1. i \in 0..m /\ i - 1 \in 0..m
        BY <1>2, <3>2
      <4>2. h[i] = g[i] /\ h[i - 1] = g[i - 1] /\ g[i] = Round(g[i - 1], i)
        BY <2>2, <2>3, <3>2, <4>1
      <4> QED
        BY <3>2, <4>2
    <3>3. CASE i = m + 1
      <4>1. h[i] = Round(g[m], i) /\ m \in 0..m /\ i - 1 = m /\ i # 0
        BY <1>2, <3>3
      <4> QED
        BY <2>2, <4>1
    <3> QED
      BY <1>2, <3>1, <3>2, <3>3
  <2>5. Filled(h, m + 1)
    BY <2>4
  <2> HIDE DEF Filled, h
  <2>6. \E k : Filled(k, m + 1)
    BY <2>5
  <2> QED
    BY <1>2, <2>6
<1>3. n \in Nat
  BY RoundsPositive
<1>4. n \in N
  BY <1>1, <1>2, <1>3, NatSetInduction
<1>5. PICK g : Filled(g, n)
  BY <1>4
<1>6. IsWalk(g, p0, slopes, ts)
  BY <1>5, Zenon DEF IsWalk, First, Round
<1> QED
  BY ONLY <1>6, Zenon DEF WalkTable

\* The points of the walk: where it starts, and every round.
LEMMA WalkRounds ==
    ASSUME NEW p0, NEW slopes, NEW ts, p0.ts \in Nat, ts \in Nat
    PROVE  LET walk == Walk(p0, slopes, ts)
           IN  /\ walk[0].bias = p0.bias /\ walk[0].slope = p0.slope
               /\ \A i \in 0..Rounds(p0.ts, ts) : i > 0 =>
                    LET w == Decay(walk[i - 1],
                                   RoundEnd(p0.ts, i, ts) - RoundEnd(p0.ts, i - 1, ts),
                                   RoundSlope(slopes, p0.ts, i, ts))
                    IN  walk[i].bias = w.bias /\ walk[i].slope = w.slope
<1> DEFINE walk == Walk(p0, slopes, ts)
           table == WalkTable(p0, slopes, ts)
           n == Rounds(p0.ts, ts)
           elapsed(i) == RoundEnd(p0.ts, i, ts) - RoundEnd(p0.ts, i - 1, ts)
           change(i) == RoundSlope(slopes, p0.ts, i, ts)
<1>1. walk = [i \in 0..n |-> [bias |-> table[i].bias, slope |-> table[i].slope,
                              ts |-> RoundEnd(p0.ts, i, ts)]]
  BY WalkIsOfTable
<1>2. IsWalk(table, p0, slopes, ts)
  BY WalkTableExists
<1>3. table = [i \in 0..n |-> IF i = 0 THEN [bias |-> p0.bias, slope |-> p0.slope]
                              ELSE Decay(table[i - 1], elapsed(i), change(i))]
  BY <1>2, Zenon DEF IsWalk
<1>4. n \in Nat
  BY RoundsPositive
<1> HIDE DEF walk, table, n, elapsed, change
<1>5. walk[0].bias = p0.bias /\ walk[0].slope = p0.slope
  <2>1. 0 \in 0..n
    BY <1>4
  <2>2. table[0] = [bias |-> p0.bias, slope |-> p0.slope]
    BY <1>3, <2>1
  <2> QED
    BY <1>1, <2>1, <2>2
<1>6. ASSUME NEW i \in 0..n, i > 0
      PROVE  LET w == Decay(walk[i - 1], elapsed(i), change(i))
             IN  walk[i].bias = w.bias /\ walk[i].slope = w.slope
  <2>1. i - 1 \in 0..n /\ i # 0
    BY <1>4, <1>6
  <2>2. table[i] = Decay(table[i - 1], elapsed(i), change(i))
    BY <1>3, <2>1
  <2>3. walk[i - 1].bias = table[i - 1].bias /\ walk[i - 1].slope = table[i - 1].slope
    BY <1>1, <2>1
  <2>4. walk[i].bias = table[i].bias /\ walk[i].slope = table[i].slope
    BY <1>1
  <2> QED
    BY <2>2, <2>3, <2>4 DEF Decay
<1> QED
  BY <1>5, <1>6 DEF walk, n, elapsed, change

\* One round of the walk, for a given round.
LEMMA WalkRound ==
    ASSUME NEW p0, NEW slopes, NEW ts, p0.ts \in Nat, ts \in Nat,
           NEW i \in 0..Rounds(p0.ts, ts), i > 0,
           NEW w, w = Decay(Walk(p0, slopes, ts)[i - 1],
                            RoundEnd(p0.ts, i, ts) - RoundEnd(p0.ts, i - 1, ts),
                            RoundSlope(slopes, p0.ts, i, ts))
    PROVE  /\ Walk(p0, slopes, ts)[i].bias = w.bias
           /\ Walk(p0, slopes, ts)[i].slope = w.slope
BY WalkRounds

-----------------------------------------------------------------------------
(* The global point is the sum over the locks.                              *)

\* What the locks weigh at ts: the slopes and the biases of those not expired.
SlopesAt(locks, ts) ==
    [t \in Token |-> IF locks[t].end > ts THEN SlopeOf(locks[t]) ELSE 0]

BiasesAt(locks, ts) ==
    [t \in Token |-> IF locks[t].end > ts
                     THEN SlopeOf(locks[t]) * (locks[t].end - ts) ELSE 0]

IsSumOf(w, locks, ts) ==
    /\ w.slope = SumFunctionOnSet(SlopesAt(locks, ts), Token)
    /\ w.bias = SumFunctionOnSet(BiasesAt(locks, ts), Token)

\* The slopes of the locks that end after `from` and no later than `to`.
Passing(locks, from, to) ==
    [t \in Token |-> IF locks[t].end > from /\ locks[t].end <= to
                     THEN SlopeOf(locks[t]) ELSE 0]

\* What the locks weigh is natural.
LEMMA WeightsType ==
    ASSUME NEW locks \in [Token -> Lock], NEW ts \in Nat, NEW t \in Token
    PROVE  /\ SlopesAt(locks, ts)[t] \in Nat
           /\ BiasesAt(locks, ts)[t] \in Nat
<1>1. SlopeOf(locks[t]) \in Nat /\ locks[t].end \in Nat
  BY SlopeFacts
<1>2. locks[t].end > ts => SlopeOf(locks[t]) * (locks[t].end - ts) \in Nat
  <2> SUFFICES ASSUME locks[t].end > ts
               PROVE  SlopeOf(locks[t]) * (locks[t].end - ts) \in Nat
    OBVIOUS
  <2>1. locks[t].end - ts \in Nat
    BY <1>1
  <2> QED
    BY <1>1, <2>1
<1> QED
  BY <1>1, <1>2 DEF SlopesAt, BiasesAt

\* Sums of natural numbers are natural.
LEMMA WeightSumsType ==
    ASSUME NEW locks \in [Token -> Lock], NEW ts \in Nat
    PROVE  /\ SumFunctionOnSet(SlopesAt(locks, ts), Token) \in Nat
           /\ SumFunctionOnSet(BiasesAt(locks, ts), Token) \in Nat
<1> DEFINE f == SlopesAt(locks, ts)
           g == BiasesAt(locks, ts)
<1>1. \A t \in Token : f[t] \in Nat /\ g[t] \in Nat
  BY WeightsType
<1> HIDE DEF f, g
<1>2. SumFunctionOnSet(f, Token) \in Nat /\ SumFunctionOnSet(g, Token) \in Nat
  BY <1>1, TokenFinite, SumIsNat
<1> QED
  BY <1>2 DEF f, g

\* One round, from one time to another that no lock ends between: a point that
\* is the sum over the locks stays that when the slopes of the locks that end
\* there are taken off after the decay.
LEMMA RoundIsSum ==
    ASSUME NEW locks \in [Token -> Lock], NEW from \in Nat, NEW to \in Nat, from <= to,
           \A t \in Token : locks[t].end > from => locks[t].end >= to,
           NEW w, IsSumOf(w, locks, from),
           NEW dSlope, dSlope = 0 - SumFunctionOnSet(Passing(locks, from, to), Token)
    PROVE  IsSumOf(Decay(w, to - from, dSlope), locks, to)
<1> DEFINE s0 == SlopesAt(locks, from)
           b0 == BiasesAt(locks, from)
           s1 == SlopesAt(locks, to)
           b1 == BiasesAt(locks, to)
           gone == Passing(locks, from, to)
           c == 0 - (to - from)
           Sum(f) == SumFunctionOnSet(f, Token)
<1>1. \A t \in Token : SlopeOf(locks[t]) \in Nat /\ locks[t].end \in Nat
  BY SlopeFacts
<1>2. \A t \in Token : /\ s0[t] \in Int /\ b0[t] \in Int /\ s1[t] \in Nat /\ b1[t] \in Nat
  BY WeightsType
<1>3. \A t \in Token : gone[t] \in Int /\ s1[t] = s0[t] + (0 - 1) * gone[t]
  BY <1>1 DEF SlopesAt, Passing
<1>4. c \in Int /\ (0 - 1) \in Int
  OBVIOUS
<1>5. ASSUME NEW t \in Token PROVE b1[t] = b0[t] + c * s0[t]
  <2> DEFINE s == SlopeOf(locks[t])
             end == locks[t].end
  <2>1. CASE end > from
    <3>1. end >= to /\ end \in Nat /\ s \in Nat
      BY <1>1, <2>1
    <3>2. b0[t] = s * (end - from) /\ s0[t] = s
      BY <2>1 DEF SlopesAt, BiasesAt
    <3>3. b1[t] = s * (end - to)
      <4>1. CASE end > to
        BY <4>1 DEF BiasesAt
      <4>2. CASE end = to
        <5>1. b1[t] = 0
          BY <4>2 DEF BiasesAt
        <5>2. s * (end - to) = 0
          BY <3>1, <4>2
        <5> QED
          BY <5>1, <5>2
      <4> QED
        BY <3>1, <4>1, <4>2
    <3> HIDE DEF s, end
    <3>4. s * (end - to) = s * (end - from) + (0 - (to - from)) * s
      BY <3>1
    <3> QED
      BY <3>2, <3>3, <3>4
  <2>2. CASE ~(end > from)
    <3>1. b0[t] = 0 /\ s0[t] = 0 /\ b1[t] = 0
      BY <1>1, <2>2 DEF SlopesAt, BiasesAt
    <3> QED
      BY <1>4, <3>1
  <2> QED
    BY <2>1, <2>2
<1>6. w.slope = Sum(s0) /\ w.bias = Sum(b0) /\ dSlope = 0 - Sum(gone)
  BY Zenon DEF IsSumOf
<1>7. SUFFICES /\ NonNeg(w.slope + dSlope) = Sum(s1)
               /\ NonNeg(w.bias - w.slope * (to - from)) = Sum(b1)
  BY DEF IsSumOf, Decay
<1> HIDE DEF s0, b0, s1, b1, gone
<1>8. Sum(s1) = Sum(s0) + (0 - 1) * Sum(gone)
  BY <1>2, <1>3, <1>4, TokenFinite, SumLinear
<1> DEFINE d == c
<1>9. Sum(b1) = Sum(b0) + d * Sum(s0)
  <2>1. d \in Int
    BY <1>4
  <2>2. \A t \in Token : b1[t] = b0[t] + d * s0[t]
    BY <1>5
  <2> HIDE DEF d
  <2> QED
    BY <1>2, <2>1, <2>2, TokenFinite, SumLinear
<1>10. Sum(s0) \in Int /\ Sum(b0) \in Int /\ Sum(gone) \in Int
  BY <1>2, <1>3, TokenFinite, SumIsInt
<1>11. Sum(s1) \in Nat /\ Sum(b1) \in Nat
  BY <1>2, TokenFinite, SumIsNat
<1> HIDE DEF Sum
<1>12. w.slope + dSlope = Sum(s1)
  BY <1>6, <1>8, <1>10
<1>13. w.bias - w.slope * (to - from) = Sum(b1)
  <2>1. d * Sum(s0) = 0 - Sum(s0) * (to - from)
    BY <1>10
  <2> QED
    BY <1>6, <1>9, <1>10, <2>1
<1> QED
  BY <1>11, <1>12, <1>13 DEF NonNeg

\* The starts of two weeks are at least a week apart.
LEMMA WeeksApart ==
    ASSUME NEW p \in Int, NEW q \in Int, p * Week > q * Week
    PROVE  p * Week >= q * Week + Week
<1>1. Week \in Nat /\ Week > 0
  BY EscrowAssumption
<1>2. p > q
  <2> SUFFICES ASSUME p <= q PROVE FALSE
    OBVIOUS
  <2>1. q - p \in Nat
    OBVIOUS
  <2>2. (q - p) * Week >= 0
    BY <1>1, <2>1
  <2>3. (q - p) * Week = q * Week - p * Week
    BY <1>1
  <2> QED
    BY <1>1, <2>2, <2>3
<1>3. p - q - 1 \in Nat
  BY <1>2
<1>4. (p - q - 1) * Week >= 0
  BY <1>1, <1>3
<1>5. (p - q - 1) * Week = p * Week - q * Week - Week
  BY <1>1
<1> QED
  BY <1>1, <1>4, <1>5

\* The start of a week after another, plus some weeks, is a week later at least.
LEMMA NextWeek ==
    ASSUME NEW end \in Nat, end % Week = 0, NEW t \in Nat, NEW j \in Nat,
           end > FloorWeek(t) + j * Week
    PROVE  end >= FloorWeek(t) + (j + 1) * Week
<1> DEFINE p == end \div Week
           q == t \div Week
<1>1. Week \in Nat /\ Week > 0
  BY EscrowAssumption
<1>2. p \in Int /\ end = p * Week /\ q \in Int
  BY <1>1
<1> HIDE DEF p
<1>3. FloorWeek(t) + j * Week = (q + j) * Week
  <2> HIDE DEF q
  <2>1. q * Week + j * Week = (q + j) * Week
    BY <1>1, <1>2
  <2> QED
    BY <2>1 DEF FloorWeek, q
<1>4. FloorWeek(t) + (j + 1) * Week = (q + j) * Week + Week
  <2> HIDE DEF q
  <2>1. q * Week + (j + 1) * Week = (q + j) * Week + Week
    BY <1>1, <1>2
  <2> QED
    BY <2>1 DEF FloorWeek, q
<1> HIDE DEF q
<1>5. q + j \in Int
  BY <1>2
<1>6. p * Week > (q + j) * Week
  BY <1>2, <1>3
<1>7. p * Week >= (q + j) * Week + Week
  BY <1>2, <1>5, <1>6, WeeksApart
<1> QED
  BY <1>2, <1>4, <1>7

\* The times of a round of the loop: no lock ends inside it, and none at the
\* end of a last round that stops at a ts inside a week.
LEMMA RoundTimes ==
    ASSUME NEW from \in Nat, NEW ts \in Nat, from <= ts, NEW j \in Nat
    PROVE  LET e0 == RoundEnd(from, j, ts)
               e1 == RoundEnd(from, j + 1, ts)
               week == FloorWeek(from) + (j + 1) * Week
           IN  /\ e0 \in Nat /\ e1 \in Nat /\ from <= e0 /\ e0 <= e1 /\ e1 <= ts
               /\ \A end \in Nat :
                     end % Week = 0 /\ end > e0
                        => end >= e1 /\ (week > ts => end > e1)
               /\ week <= ts => e1 = week /\ e1 > e0 /\ e1 > from
<1> DEFINE e0 == RoundEnd(from, j, ts)
           e1 == RoundEnd(from, j + 1, ts)
           floor == FloorWeek(from)
           week == floor + (j + 1) * Week
<1>1. /\ floor \in Nat /\ floor <= from /\ from < floor + Week
  BY FloorWeekFacts
<1>2. Week \in Nat /\ Week > 0 /\ j * Week \in Nat /\ (j + 1) * Week = j * Week + Week
  BY EscrowAssumption
<1>3. e1 = IF week > ts THEN ts ELSE week
  BY DEF RoundEnd
<1>4. /\ e0 = IF j = 0 THEN from ELSE IF floor + j * Week > ts THEN ts ELSE floor + j * Week
  BY DEF RoundEnd
<1>5. j > 0 => j * Week >= Week
  <2> SUFFICES ASSUME j > 0 PROVE j * Week >= Week
    OBVIOUS
  <2>1. j - 1 \in Nat
    OBVIOUS
  <2>2. (j - 1) * Week >= 0 /\ (j - 1) * Week = j * Week - Week
    BY <1>2, <2>1
  <2> QED
    BY <1>2, <2>2
<1>6. e0 \in Nat /\ e1 \in Nat /\ e0 <= e1 /\ e1 <= ts
  <2>1. e0 \in Nat /\ e0 <= e1
    BY RoundEndsAscend
  <2>2. j + 1 \in Nat
    OBVIOUS
  <2>3. e1 \in Nat /\ e1 <= ts
    BY <2>2, RoundEndsAscend
  <2> QED
    BY <2>1, <2>3
<1>7. from <= e0
  BY <1>1, <1>2, <1>4, <1>5
<1>8. j = 0 => j * Week = 0
  BY <1>2
<1>9. e0 = ts \/ e0 >= floor + j * Week
  BY <1>1, <1>2, <1>4, <1>8
<1>10. ASSUME NEW end \in Nat, end % Week = 0, end > e0
       PROVE  end >= e1 /\ (week > ts => end > e1)
  <2>1. CASE e0 = ts
    BY <1>6, <1>10, <2>1
  <2>2. CASE e0 >= floor + j * Week
    <3>1. end > floor + j * Week
      BY <1>1, <1>2, <1>6, <1>10, <2>2
    <3>2. end >= week
      BY <1>10, <3>1, NextWeek
    <3> QED
      BY <1>1, <1>2, <1>3, <3>2
  <2> QED
    BY <1>9, <2>1, <2>2
<1>11. week <= ts => e1 = week /\ e1 > e0 /\ e1 > from
  <2> SUFFICES ASSUME week <= ts PROVE e1 = week /\ e1 > e0 /\ e1 > from
    OBVIOUS
  <2>1. e1 = week
    BY <1>1, <1>2, <1>3
  <2> QED
    BY <1>1, <1>2, <1>4, <2>1
<1> QED
  BY <1>6, <1>7, <1>10, <1>11

\* The walk over the weeks keeps a point the sum over the locks, if it was and
\* the table of slopes is in line with them.
LEMMA WalkIsSum ==
    ASSUME NEW slopes, NEW locks \in [Token -> Lock],
           \A t \in Token : locks[t].end % Week = 0,
           NEW ts \in Nat, ts <= Horizon,
           NEW p0, p0.ts \in Nat, p0.ts <= ts,
           IsSumOf(p0, locks, p0.ts), SlopesMatch(slopes, locks, p0.ts),
           NEW m \in 0..Rounds(p0.ts, ts)
    PROVE  IsSumOf(Walk(p0, slopes, ts)[m], locks, RoundEnd(p0.ts, m, ts))
<1> DEFINE from == p0.ts
           n == Rounds(from, ts)
           walk == Walk(p0, slopes, ts)
           T(i) == RoundEnd(from, i, ts)
           week(i) == FloorWeek(from) + i * Week
           N == {i \in Nat : i <= n => IsSumOf(walk[i], locks, T(i))}
<1>1. n \in Nat
  BY RoundsPositive
<1>2. \A t \in Token : SlopeOf(locks[t]) \in Nat /\ locks[t].end \in Nat
  BY SlopeFacts
<1>3. ASSUME NEW i \in Nat
      PROVE  /\ T(i) \in Nat /\ T(i + 1) \in Nat /\ from <= T(i) /\ T(i) <= T(i + 1)
             /\ T(i + 1) <= ts
             /\ \A t \in Token : locks[t].end > T(i)
                   => locks[t].end >= T(i + 1) /\ (week(i + 1) > ts => locks[t].end > T(i + 1))
             /\ week(i + 1) <= ts => /\ T(i + 1) = week(i + 1)
                                     /\ T(i + 1) > T(i) /\ T(i + 1) > from
  BY <1>2, RoundTimes
<1>4. 0 \in N
  <2>1. walk[0].bias = p0.bias /\ walk[0].slope = p0.slope
    BY WalkRounds
  <2>2. T(0) = from
    BY DEF RoundEnd
  <2>3. IsSumOf(walk[0], locks, from)
    BY <2>1, Zenon DEF IsSumOf
  <2> QED
    BY <2>2, <2>3
<1>5. ASSUME NEW i \in Nat, i \in N PROVE i + 1 \in N
  <2> SUFFICES ASSUME i + 1 <= n PROVE IsSumOf(walk[i + 1], locks, T(i + 1))
    BY <1>5
  <2> DEFINE dSlope == RoundSlope(slopes, from, i + 1, ts)
             w == Decay(walk[i], T(i + 1) - T(i), dSlope)
             gone == Passing(locks, T(i), T(i + 1))
  <2>1. IsSumOf(walk[i], locks, T(i))
    BY <1>1, <1>5
  <2>2. dSlope = 0 - SumFunctionOnSet(gone, Token)
    <3>1. CASE week(i + 1) > ts
      <4>1. dSlope = 0
        BY <3>1 DEF RoundSlope
      <4>2. \A t \in Token : gone[t] = 0
        BY <1>2, <1>3, <3>1 DEF Passing
      <4> HIDE DEF gone
      <4>3. SumFunctionOnSet(gone, Token) = 0
        BY <4>2, SumOfZeros
      <4> QED
        BY <4>1, <4>3
    <3>2. CASE ~(week(i + 1) > ts)
      <4>1. week(i + 1) \in Nat
        <5>1. FloorWeek(from) \in Nat
          BY FloorWeekFacts
        <5>2. (i + 1) * Week \in Nat
          BY EscrowAssumption
        <5> QED
          BY <5>1, <5>2
      <4>2. week(i + 1) <= ts
        BY <3>2, <4>1
      <4>3. T(i + 1) = week(i + 1) /\ T(i + 1) > T(i) /\ T(i + 1) > from
        BY <1>3, <4>2
      <4>4. T(i + 1) \in Times
        BY <1>3, EscrowAssumption DEF Times
      <4>5. dSlope = slopes[T(i + 1)]
        BY <3>2, <4>3 DEF RoundSlope
      <4>6. slopes[T(i + 1)] = 0 - SumFunctionOnSet(EndingAt(locks, T(i + 1)), Token)
        BY <4>3, <4>4 DEF SlopesMatch
      <4> DEFINE ending == EndingAt(locks, T(i + 1))
      <4>7. \A t \in Token : gone[t] = ending[t]
        <5> SUFFICES ASSUME NEW t \in Token PROVE gone[t] = ending[t]
          OBVIOUS
        <5>1. locks[t].end > T(i) => locks[t].end >= T(i + 1)
          BY <1>3
        <5>2. T(i) \in Nat /\ T(i + 1) \in Nat /\ locks[t].end \in Nat
          BY <1>2, <1>3
        <5>3. gone[t] = IF locks[t].end > T(i) /\ locks[t].end <= T(i + 1)
                        THEN SlopeOf(locks[t]) ELSE 0
          BY DEF Passing
        <5>4. ending[t] = IF locks[t].end = T(i + 1) THEN SlopeOf(locks[t]) ELSE 0
          BY DEF EndingAt
        <5> HIDE DEF T, gone, ending
        <5> QED
          BY <4>3, <5>1, <5>2, <5>3, <5>4
      <4> HIDE DEF gone, ending
      <4>8. SumFunctionOnSet(gone, Token) = SumFunctionOnSet(ending, Token)
        BY <4>7, TokenFinite, SumSame
      <4> QED
        BY <4>5, <4>6, <4>8 DEF ending
    <3> QED
      BY <3>1, <3>2
  <2>3. IsSumOf(w, locks, T(i + 1))
    <3> DEFINE e0 == T(i)
               e1 == T(i + 1)
               point == walk[i]
    <3>1. /\ e0 \in Nat /\ e1 \in Nat /\ e0 <= e1
          /\ \A t \in Token : locks[t].end > e0 => locks[t].end >= e1
      BY <1>3
    <3>2. IsSumOf(point, locks, e0) /\ dSlope = 0 - SumFunctionOnSet(Passing(locks, e0, e1), Token)
      BY <2>1, <2>2
    <3> HIDE DEF e0, e1, point, dSlope
    <3>3. IsSumOf(Decay(point, e1 - e0, dSlope), locks, e1)
      BY <3>1, <3>2, RoundIsSum
    <3> QED
      BY <3>3 DEF e0, e1, point
  <2>4. walk[i + 1].bias = w.bias /\ walk[i + 1].slope = w.slope
    <3>1. i + 1 \in 0..n /\ i + 1 > 0 /\ (i + 1) - 1 = i
      BY <1>1
    <3>2. w = Decay(walk[(i + 1) - 1], T(i + 1) - T((i + 1) - 1), dSlope)
      BY <3>1
    <3> HIDE DEF w
    <3> QED
      BY <3>1, <3>2, WalkRound
  <2> HIDE DEF w, walk
  <2> QED
    BY <2>3, <2>4, Zenon DEF IsSumOf
<1>6. m \in N
  <2> HIDE DEF N, n
  <2> QED
    BY <1>1, <1>4, <1>5, NatSetInduction
<1> QED
  BY <1>1, <1>6

\* A point with one lock's weight replaced is the sum over the locks with that
\* lock replaced.
LEMMA AddUserIsSum ==
    ASSUME NEW locks \in [Token -> Lock], NEW t \in Token, NEW new \in Lock,
           NEW ts \in Nat, NEW w, IsSumOf(w, locks, ts),
           NEW after, after = [locks EXCEPT ![t] = new],
           NEW uOld, uOld = UserPoint(locks[t], ts),
           NEW uNew, uNew = UserPoint(new, ts),
           NEW p, p.slope = NonNeg(w.slope + uNew.slope - uOld.slope),
                  p.bias = NonNeg(w.bias + uNew.bias - uOld.bias)
    PROVE  IsSumOf(p, after, ts)
<1> DEFINE s0 == SlopesAt(locks, ts)
           s1 == SlopesAt(after, ts)
           b0 == BiasesAt(locks, ts)
           b1 == BiasesAt(after, ts)
           Sum(f) == SumFunctionOnSet(f, Token)
<1>1. after \in [Token -> Lock] /\ after[t] = new /\ locks[t] \in Lock
  OBVIOUS
<1>2. \A u \in Token : /\ s0[u] \in Nat /\ b0[u] \in Nat
                       /\ s1[u] \in Nat /\ b1[u] \in Nat
  BY <1>1, WeightsType
<1>3. \A u \in Token \ {t} : s1[u] = s0[u] /\ b1[u] = b0[u]
  <2>1. \A u \in Token \ {t} : after[u] = locks[u]
    OBVIOUS
  <2> QED
    BY <2>1 DEF SlopesAt, BiasesAt
<1>4. uOld.slope = s0[t] /\ uOld.bias = b0[t]
  BY <1>1, SlopeFacts DEF SlopesAt, BiasesAt
<1>5. uNew.slope = s1[t] /\ uNew.bias = b1[t]
  BY <1>1, SlopeFacts DEF SlopesAt, BiasesAt
<1>6. w.slope = Sum(s0) /\ w.bias = Sum(b0)
  BY Zenon DEF IsSumOf
<1> HIDE DEF s0, s1, b0, b1
<1>7. Sum(s1) = Sum(s0) - s0[t] + s1[t]
  BY <1>2, <1>3, TokenFinite, SumChangedAt
<1>8. Sum(b1) = Sum(b0) - b0[t] + b1[t]
  BY <1>2, <1>3, TokenFinite, SumChangedAt
<1>9. Sum(s0) \in Nat /\ Sum(b0) \in Nat /\ Sum(s1) \in Nat /\ Sum(b1) \in Nat
  BY <1>2, TokenFinite, SumIsNat
<1>10. NonNeg(w.slope + uNew.slope - uOld.slope) = Sum(s1)
  BY <1>2, <1>4, <1>5, <1>6, <1>7, <1>9 DEF NonNeg
<1>11. NonNeg(w.bias + uNew.bias - uOld.bias) = Sum(b1)
  BY <1>2, <1>4, <1>5, <1>6, <1>8, <1>9 DEF NonNeg
<1> QED
  BY <1>10, <1>11 DEF IsSumOf, s1, b1

\* The last point that the global half of a checkpoint adds.
LEMMA GlobalCheckPointLast ==
    ASSUME NEW b, NEW ts \in Nat, NEW uOld, NEW uNew,
           BookTypeOK(b), b.points[b.epoch].ts <= ts,
           NEW g, g = GlobalCheckPoint(b, ts, uOld, uNew),
           NEW p0, p0 = LastPoint(b, ts),
           NEW w, w = Walk(p0, b.slopes, ts)[Rounds(p0.ts, ts)]
    PROVE  /\ p0.ts \in Nat /\ p0.ts <= ts
           /\ g.epoch > 0
           /\ g.points[g.epoch].slope = NonNeg(w.slope + uNew.slope - uOld.slope)
           /\ g.points[g.epoch].bias = NonNeg(w.bias + uNew.bias - uOld.bias)
           /\ g.points[g.epoch].ts = RoundEnd(p0.ts, Rounds(p0.ts, ts), ts)
<1> DEFINE n == Rounds(p0.ts, ts)
           walk == Walk(p0, b.slopes, ts)
<1>1. b.epoch \in Nat /\ b.points[b.epoch].ts \in Nat
  BY DEF BookTypeOK
<1>2. p0.ts \in Nat /\ p0.ts <= ts
  BY <1>1 DEF LastPoint, ZeroPoint
<1>3. n \in Nat /\ n > 0
  <2>1. n \in Nat \ {0}
    BY <1>2, RoundsPositive
  <2> HIDE DEF n
  <2> QED
    BY <2>1
<1>4. /\ g.epoch = b.epoch + n
      /\ g.points = [e \in 0..(b.epoch + n) |->
                        IF e <= b.epoch THEN b.points[e]
                        ELSE IF e < b.epoch + n THEN walk[e - b.epoch]
                        ELSE AddUser(walk[n], uOld, uNew)]
  BY DEF GlobalCheckPoint, BookTypeOK
<1>5. w = [bias |-> w.bias, slope |-> w.slope, ts |-> RoundEnd(p0.ts, n, ts)]
  <2>1. n \in 0..n
    BY <1>3
  <2> QED
    BY <2>1 DEF Walk
<1> HIDE DEF n, walk
<1>6. g.points[g.epoch] = AddUser(w, uOld, uNew)
  BY <1>1, <1>3, <1>4 DEF n, walk
<1>7. PICK x, y, z : w = [bias |-> x, slope |-> y, ts |-> z]
                     /\ x = w.bias /\ y = w.slope /\ z = RoundEnd(p0.ts, n, ts)
  BY <1>5
<1>8. /\ AddUser(w, uOld, uNew).slope = NonNeg(w.slope + uNew.slope - uOld.slope)
      /\ AddUser(w, uOld, uNew).bias = NonNeg(w.bias + uNew.bias - uOld.bias)
      /\ AddUser(w, uOld, uNew).ts = RoundEnd(p0.ts, n, ts)
  BY <1>7 DEF AddUser
<1> QED
  BY <1>1, <1>2, <1>3, <1>4, <1>6, <1>8 DEF n

\* The last point of a book is the sum over the locks, and its table of slopes
\* is in line with them from that point on.  As long as there is no point there
\* is no lock.
Summed(b, locks, ts) ==
    LET p == LastPoint(b, ts)
    IN  /\ b.epoch = 0 => \A t \in Token : locks[t] = NoLock
        /\ IsSumOf(p, locks, p.ts)
        /\ SlopesMatch(b.slopes, locks, p.ts)

\* A call at ts finds the last point no more than MaxIterations weeks old.
InReach(b, ts) ==
    b.epoch > 0 => ts <= FloorWeek(b.points[b.epoch].ts) + Week * MaxIterations

\* Where the walk of a checkpoint ends.
LEMMA WalkEnds ==
    ASSUME NEW b, BookTypeOK(b), NEW ts \in Nat, ts <= Horizon,
           b.points[b.epoch].ts <= ts,
           NEW locks \in [Token -> Lock], \A t \in Token : locks[t].end % Week = 0,
           Summed(b, locks, ts),
           NEW p0, p0 = LastPoint(b, ts),
           NEW to, to = RoundEnd(p0.ts, Rounds(p0.ts, ts), ts)
    PROVE  /\ IsSumOf(Walk(p0, b.slopes, ts)[Rounds(p0.ts, ts)], locks, to)
           /\ to \in Nat /\ to <= ts
           /\ SlopesMatch(b.slopes, locks, to)
           /\ InReach(b, ts) => to = ts
<1> DEFINE n == Rounds(p0.ts, ts)
<1>1. b.epoch \in Nat /\ b.points[b.epoch].ts \in Nat
  BY DEF BookTypeOK
<1>2. p0.ts \in Nat /\ p0.ts <= ts
  BY <1>1 DEF LastPoint, ZeroPoint
<1>3. IsSumOf(p0, locks, p0.ts) /\ SlopesMatch(b.slopes, locks, p0.ts)
  BY DEF Summed
<1>4. n \in Nat \ {0}
  BY <1>2, RoundsPositive
<1>5. IsSumOf(Walk(p0, b.slopes, ts)[n], locks, to)
  <2>1. n \in 0..n
    <3> HIDE DEF n
    <3> QED
      BY <1>4
  <2> QED
    BY <1>2, <1>3, <2>1, WalkIsSum
<1>6. to \in Nat /\ to <= ts /\ p0.ts <= to
  <2> HIDE DEF n
  <2>1. n - 1 \in Nat /\ (n - 1) + 1 = n
    BY <1>4
  <2>2. /\ RoundEnd(p0.ts, (n - 1) + 1, ts) \in Nat
        /\ p0.ts <= RoundEnd(p0.ts, n - 1, ts)
        /\ RoundEnd(p0.ts, n - 1, ts) \in Nat
        /\ RoundEnd(p0.ts, n - 1, ts) <= RoundEnd(p0.ts, (n - 1) + 1, ts)
        /\ RoundEnd(p0.ts, (n - 1) + 1, ts) <= ts
    BY <1>2, <2>1, RoundTimes
  <2>3. to = RoundEnd(p0.ts, (n - 1) + 1, ts)
    BY <2>1 DEF n
  <2> QED
    BY <1>2, <2>2, <2>3
<1>7. SlopesMatch(b.slopes, locks, to)
  BY <1>2, <1>3, <1>6, SlopesMatchLater
<1>8. ASSUME InReach(b, ts) PROVE to = ts
  <2>1. ts <= FloorWeek(p0.ts) + Week * MaxIterations
    <3>1. CASE b.epoch > 0
      BY <1>8, <3>1 DEF InReach, LastPoint
    <3>2. CASE ~(b.epoch > 0)
      <4>1. p0.ts = ts
        BY <3>2 DEF LastPoint, ZeroPoint
      <4>2. FloorWeek(ts) \in Nat /\ ts < FloorWeek(ts) + Week
        BY FloorWeekFacts
      <4>3. Week \in Nat /\ Week * MaxIterations \in Nat /\ Week * MaxIterations >= Week
        <5>1. Week \in Nat /\ MaxIterations \in Nat /\ MaxIterations - 1 \in Nat
          BY EscrowAssumption
        <5>2. Week * (MaxIterations - 1) \in Nat
          BY <5>1
        <5>3. Week * MaxIterations = Week * (MaxIterations - 1) + Week
          BY <5>1
        <5> QED
          BY <5>1, <5>2, <5>3
      <4> QED
        BY <4>1, <4>2, <4>3
    <3> QED
      BY <3>1, <3>2
  <2> QED
    BY <1>2, <2>1, LastRoundReaches
<1> QED
  BY <1>5, <1>6, <1>7, <1>8

\* A checkpoint without a token leaves a book whose last point is the sum.
LEMMA GlobalCheckPointSums ==
    ASSUME NEW b, BookTypeOK(b), NEW ts \in Nat, ts <= Horizon,
           b.points[b.epoch].ts <= ts,
           NEW locks \in [Token -> Lock], \A t \in Token : locks[t].end % Week = 0,
           Summed(b, locks, ts),
           NEW g, g = GlobalCheckPoint(b, ts, ZeroPoint(ts), ZeroPoint(ts))
    PROVE  Summed(g, locks, ts)
<1> DEFINE p0 == LastPoint(b, ts)
           n == Rounds(p0.ts, ts)
           to == RoundEnd(p0.ts, n, ts)
           w == Walk(p0, b.slopes, ts)[n]
           last == g.points[g.epoch]
<1>1. IsSumOf(w, locks, to) /\ to \in Nat /\ SlopesMatch(b.slopes, locks, to)
  BY WalkEnds
<1>2. /\ g.epoch > 0
      /\ last.slope = NonNeg(w.slope + ZeroPoint(ts).slope - ZeroPoint(ts).slope)
      /\ last.bias = NonNeg(w.bias + ZeroPoint(ts).bias - ZeroPoint(ts).bias)
      /\ last.ts = to
  BY GlobalCheckPointLast
<1>3. ZeroPoint(ts).slope = 0 /\ ZeroPoint(ts).bias = 0
  BY DEF ZeroPoint
<1>4. BookTypeOK(g) /\ g.slopes = b.slopes
  BY GlobalCheckPointAppends
<1> HIDE DEF w, to, n, p0
<1>5. w.slope \in Nat /\ w.bias \in Nat
  BY <1>1, WeightSumsType DEF IsSumOf
<1>6. last.slope = w.slope /\ last.bias = w.bias
  BY <1>2, <1>3, <1>5 DEF NonNeg
<1>7. LastPoint(g, ts) = last /\ g.epoch # 0
  BY <1>2 DEF LastPoint
<1> HIDE DEF last
<1>8. IsSumOf(last, locks, last.ts)
  BY <1>1, <1>2, <1>6, Zenon DEF IsSumOf
<1> QED
  BY <1>1, <1>2, <1>4, <1>7, <1>8 DEF Summed

\* So does the checkpoint of a lock, as long as the walk comes to the present.
LEMMA CheckPointedSums ==
    ASSUME NEW b, BookTypeOK(b), NEW ts \in Nat, ts <= Horizon,
           b.points[b.epoch].ts <= ts, InReach(b, ts),
           NEW locks \in [Token -> Lock], \A t \in Token : locks[t].end % Week = 0,
           Summed(b, locks, ts),
           NEW t \in Token, NEW new \in Lock, new.end >= locks[t].end \/ new = NoLock,
           NEW c, c = CheckPointed(b, ts, t, locks[t], new),
           NEW after, after = [locks EXCEPT ![t] = new]
    PROVE  /\ Summed(c, after, ts)
           /\ c.points[c.epoch].ts = ts
<1> DEFINE uOld == UserPoint(locks[t], ts)
           uNew == UserPoint(new, ts)
           g == GlobalCheckPoint(b, ts, uOld, uNew)
           p0 == LastPoint(b, ts)
           n == Rounds(p0.ts, ts)
           to == RoundEnd(p0.ts, n, ts)
           w == Walk(p0, b.slopes, ts)[n]
           last == c.points[c.epoch]
<1>1. IsSumOf(w, locks, to) /\ SlopesMatch(b.slopes, locks, to) /\ to = ts
  BY WalkEnds
<1>2. /\ g.epoch > 0
      /\ g.points[g.epoch].slope = NonNeg(w.slope + uNew.slope - uOld.slope)
      /\ g.points[g.epoch].bias = NonNeg(w.bias + uNew.bias - uOld.bias)
      /\ g.points[g.epoch].ts = to
  BY GlobalCheckPointLast
<1>3. c.epoch = g.epoch /\ c.points = g.points
  BY CheckPointedParts
<1> HIDE DEF g, w, to, n, p0
<1>5. SlopesMatch(c.slopes, after, ts)
  BY <1>1, CheckPointedMatches
<1>6. c.epoch > 0 /\ last.ts = ts
  BY <1>1, <1>2, <1>3
<1>7. LastPoint(c, ts) = last /\ c.epoch # 0
  BY <1>6 DEF LastPoint
<1>8. /\ last.slope = NonNeg(w.slope + uNew.slope - uOld.slope)
      /\ last.bias = NonNeg(w.bias + uNew.bias - uOld.bias)
      /\ IsSumOf(w, locks, ts)
      /\ uOld = UserPoint(locks[t], ts) /\ uNew = UserPoint(new, ts)
  BY <1>1, <1>2, <1>3
<1> HIDE DEF last, uOld, uNew
<1>9. IsSumOf(last, after, ts)
  BY <1>8, AddUserIsSum
<1>10. Summed(c, after, ts)
  BY <1>5, <1>6, <1>7, <1>9 DEF Summed
<1> QED
  BY <1>6, <1>10 DEF last

\* Each call finds the last point no more than MaxIterations weeks old.
CallsInReach == [][book' # book => InReach(book, now)]_vars

GlobalInv == Summed(book, locked, now)

\* A step whose call finds the last point in reach keeps it the sum.
LEMMA NextGlobalInv ==
    ASSUME EscrowInv, GlobalInv, [EscrowNext]_vars, book' # book => InReach(book, now)
    PROVE  GlobalInv'
<1>1. /\ now \in Nat /\ now <= Horizon /\ locked \in [Token -> Lock]
      /\ BookTypeOK(book) /\ book.points[book.epoch].ts <= now
      /\ \A t \in Token : locked[t].end % Week = 0
      /\ Summed(book, locked, now)
      /\ book.epoch \in Nat
  BY EscrowInvFacts DEF GlobalInv
<1>2. CASE PassesTime
  <2>1. /\ book' = book /\ locked' = locked /\ now' \in Nat /\ now <= now'
    BY <1>1, <1>2 DEF PassesTime
  <2>2. CASE book.epoch > 0
    <3>1. LastPoint(book, now') = LastPoint(book, now)
      BY <2>2 DEF LastPoint
    <3> QED
      BY <1>1, <2>1, <3>1 DEF GlobalInv, Summed
  <2>3. CASE book.epoch = 0
    <3> DEFINE p == ZeroPoint(now')
               s == SlopesAt(locked, now')
               b == BiasesAt(locked, now')
    <3>1. LastPoint(book, now) = ZeroPoint(now) /\ LastPoint(book, now') = p
      BY <2>3 DEF LastPoint
    <3>2. p.bias = 0 /\ p.slope = 0 /\ p.ts = now' /\ ZeroPoint(now).ts = now
      BY DEF ZeroPoint
    <3>3. \A t \in Token : locked[t].end = 0
      BY <1>1, <2>3, NoLockType DEF Summed
    <3>4. \A t \in Token : s[t] = 0 /\ b[t] = 0
      BY <2>1, <3>3 DEF SlopesAt, BiasesAt
    <3>5. SlopesMatch(book.slopes, locked, now')
      BY <1>1, <2>1, <3>1, <3>2, SlopesMatchLater DEF Summed
    <3> HIDE DEF p, s, b
    <3>6. SumFunctionOnSet(s, Token) = 0 /\ SumFunctionOnSet(b, Token) = 0
      BY <3>4, SumOfZeros
    <3>7. IsSumOf(p, locked, now')
      BY <3>2, <3>6 DEF IsSumOf, s, b
    <3> QED
      BY <1>1, <2>1, <3>1, <3>2, <3>5, <3>7 DEF GlobalInv, Summed
  <2> QED
    BY <1>1, <2>2, <2>3
<1>3. CASE CheckPoint
  <2>1. /\ book' = GlobalCheckPoint(book, now, ZeroPoint(now), ZeroPoint(now))
        /\ now' = now /\ locked' = locked
    BY <1>3 DEF CheckPoint
  <2>2. Summed(book', locked, now)
    BY <1>1, <2>1, GlobalCheckPointSums
  <2> QED
    BY <2>1, <2>2 DEF GlobalInv
<1>4. ASSUME NEW t \in Token, NEW lock, Deposits(t, lock) PROVE GlobalInv'
  <2>1. /\ lock \in Lock /\ lock.end >= locked[t].end /\ locked[t] \in Lock
        /\ book' = CheckPointed(book, now, t, locked[t], lock)
        /\ locked' = [locked EXCEPT ![t] = lock]
        /\ now' = now
    BY <1>1, <1>4 DEF Deposits
  <2>2. book' # book
    <3>1. book'.epoch > book.epoch
      BY <1>1, <2>1, CheckPointedReaches
    <3> QED
      BY <1>1, <3>1
  <2>3. Summed(book', locked', now)
    BY <1>1, <2>1, <2>2, CheckPointedSums
  <2> QED
    BY <2>1, <2>3 DEF GlobalInv
<1>5. ASSUME NEW from \in Token, NEW to \in Token, NEW lock, Merges(from, to, lock)
      PROVE  GlobalInv'
  <2> DEFINE locks == [locked EXCEPT ![from] = NoLock]
             taken == CheckPointed(book, now, from, locked[from], NoLock)
  <2>1. /\ locks \in [Token -> Lock]
        /\ BookTypeOK(taken) /\ taken.points[taken.epoch].ts <= now
        /\ taken.epoch > book.epoch
        /\ book' = CheckPointed(taken, now, to, locks[to], lock)
        /\ locked' = [locks EXCEPT ![to] = lock]
        /\ lock \in Lock /\ lock.end >= locks[to].end
    BY <1>5, MergesBook
  <2>2. /\ taken = CheckPointed(book, now, from, locked[from], NoLock)
        /\ locks = [locked EXCEPT ![from] = NoLock]
        /\ locked[from] \in Lock /\ now' = now
    BY <1>1, <1>5 DEF Merges
  <2>3. \A t \in Token : locks[t].end % Week = 0
    <3>1. 0 % Week = 0
      BY EscrowAssumption
    <3> QED
      BY <1>1, <3>1, NoLockType
  <2> HIDE DEF locks, taken
  <2>4. book' # book
    <3>1. book'.epoch > taken.epoch /\ BookTypeOK(book') /\ taken.epoch \in Nat
      <4>1. locks[to] \in Lock
        BY <2>1
      <4>2. book'.epoch > taken.epoch /\ BookTypeOK(book')
        BY <1>1, <2>1, <4>1, CheckPointedReaches
      <4> QED
        BY <2>1, <4>2 DEF BookTypeOK
    <3>2. book'.epoch \in Nat
      BY <3>1 DEF BookTypeOK
    <3> QED
      BY <1>1, <2>1, <3>1, <3>2
  <2>5. Summed(taken, locks, now) /\ taken.points[taken.epoch].ts = now
    <3>1. InReach(book, now) /\ NoLock \in Lock
      BY <2>4, NoLockType
    <3>2. Summed(taken, locks, now)
      BY <1>1, <2>2, <3>1, CheckPointedSums
    <3>3. taken.points[taken.epoch].ts = now
      BY <1>1, <2>2, <3>1, CheckPointedSums
    <3> QED
      BY <3>2, <3>3
  <2>6. InReach(taken, now)
    <3>1. FloorWeek(now) \in Nat /\ now < FloorWeek(now) + Week
      BY <1>1, FloorWeekFacts
    <3>2. Week \in Nat /\ Week * MaxIterations \in Nat /\ Week * MaxIterations >= Week
      <4>1. Week \in Nat /\ MaxIterations \in Nat /\ MaxIterations - 1 \in Nat
        BY EscrowAssumption
      <4>2. Week * (MaxIterations - 1) \in Nat
        BY <4>1
      <4>3. Week * MaxIterations = Week * (MaxIterations - 1) + Week
        BY <4>1
      <4> QED
        BY <4>1, <4>2, <4>3
    <3> QED
      BY <1>1, <2>5, <3>1, <3>2 DEF InReach
  <2>7. Summed(book', locked', now)
    BY <1>1, <2>1, <2>3, <2>5, <2>6, CheckPointedSums
  <2> QED
    BY <2>2, <2>7 DEF GlobalInv
<1> QED
  BY <1>2, <1>3, <1>4, <1>5, StepCases

\* GlobalIsSum in terms of the sums over all tokens.
LEMMA GlobalInvIsSum ==
    ASSUME EscrowInv, GlobalInv
    PROVE  GlobalIsSum
<1> SUFFICES ASSUME book.epoch > 0
             PROVE  LET p == book.points[book.epoch]
                    IN  /\ p.slope = SumFunctionOnSet(Slopes, LiveAt(p.ts))
                        /\ p.bias = SumFunctionOnSet(
                             [t \in Token |-> Slope(t) * (locked[t].end - p.ts)], LiveAt(p.ts))
  BY DEF GlobalIsSum
<1> DEFINE p == book.points[book.epoch]
           ts == p.ts
           live == LiveAt(ts)
           biases == [t \in Token |-> Slope(t) * (locked[t].end - ts)]
           s == SlopesAt(locked, ts)
           b == BiasesAt(locked, ts)
<1>1. locked \in [Token -> Lock] /\ ts \in Nat
  BY EscrowInvFacts
<1>2. IsSumOf(p, locked, ts)
  BY DEF GlobalInv, Summed, LastPoint
<1>3. \A t \in Token : SlopeOf(locked[t]) \in Nat /\ locked[t].end \in Nat
  BY <1>1, SlopeFacts
<1>4. \A t \in Token : Slope(t) \in Nat /\ Slope(t) = SlopeOf(locked[t])
  BY <1>3 DEF Slope, SlopeOf
<1>5. live \subseteq Token /\ \A t \in Token : t \in live <=> locked[t].end > ts
  BY DEF LiveAt
<1>6. \A t \in live : Slopes[t] \in Int /\ s[t] = Slopes[t]
  BY <1>4, <1>5 DEF Slopes, SlopesAt
<1>7. \A t \in Token \ live : s[t] = 0 /\ b[t] = 0
  BY <1>5 DEF SlopesAt, BiasesAt
<1>8. \A t \in live : biases[t] \in Int /\ b[t] = biases[t]
  <2> SUFFICES ASSUME NEW t \in live PROVE biases[t] \in Int /\ b[t] = biases[t]
    OBVIOUS
  <2>1. t \in Token /\ locked[t].end > ts
    BY <1>5
  <2>2. biases[t] = Slope(t) * (locked[t].end - ts)
    BY <2>1
  <2>3. b[t] = SlopeOf(locked[t]) * (locked[t].end - ts)
    BY <2>1 DEF BiasesAt
  <2>4. Slope(t) * (locked[t].end - ts) \in Int
    BY <1>1, <1>3, <1>4, <2>1
  <2> QED
    BY <1>4, <2>1, <2>2, <2>3, <2>4
<1> HIDE DEF s, b, live, biases
<1>9. SumFunctionOnSet(s, Token) = SumFunctionOnSet(Slopes, live)
  BY <1>5, <1>6, <1>7, TokenFinite, SumOverSupport
<1>10. SumFunctionOnSet(b, Token) = SumFunctionOnSet(biases, live)
  BY <1>5, <1>7, <1>8, TokenFinite, SumOverSupport
<1>11. p.slope = SumFunctionOnSet(Slopes, live) /\ p.bias = SumFunctionOnSet(biases, live)
  BY <1>2, <1>9, <1>10 DEF IsSumOf, s, b
<1> QED
  BY <1>11 DEF live, biases

\* The constructor's book has no points, and its state no locks.
LEMMA InitGlobalInv == EscrowInit => GlobalInv
<1> SUFFICES ASSUME EscrowInit PROVE GlobalInv
  OBVIOUS
<1> DEFINE s == SlopesAt(locked, now)
           b == BiasesAt(locked, now)
           p == ZeroPoint(now)
<1>1. /\ now \in Nat /\ locked = [t \in Token |-> NoLock]
      /\ book.epoch = 0 /\ book.slopes = [t \in Times |-> 0]
  BY EscrowAssumption DEF EscrowInit, EmptyBook
<1>2. LastPoint(book, now) = p /\ p.bias = 0 /\ p.slope = 0 /\ p.ts = now
  BY <1>1 DEF LastPoint, ZeroPoint
<1>3. \A t \in Token : s[t] = 0 /\ b[t] = 0
  BY <1>1, NoLockType DEF SlopesAt, BiasesAt
<1>4. SlopesMatch(book.slopes, locked, now)
  <2> SUFFICES ASSUME NEW w \in Times
               PROVE  book.slopes[w] = 0 - SumFunctionOnSet(EndingAt(locked, w), Token)
    BY DEF SlopesMatch
  <2> DEFINE f == EndingAt(locked, w)
  <2>1. \A t \in Token : f[t] = 0
    <3>1. SlopeOf(NoLock) = 0
      BY EscrowAssumption DEF SlopeOf, NoLock
    <3> QED
      BY <1>1, <3>1 DEF EndingAt
  <2> HIDE DEF f
  <2>2. SumFunctionOnSet(f, Token) = 0
    BY <2>1, SumOfZeros
  <2> QED
    BY <1>1, <2>2 DEF f
<1> HIDE DEF p, s, b
<1>5. SumFunctionOnSet(s, Token) = 0 /\ SumFunctionOnSet(b, Token) = 0
  BY <1>3, SumOfZeros
<1>6. IsSumOf(p, locked, now)
  BY <1>2, <1>5 DEF IsSumOf, s, b
<1> QED
  BY <1>1, <1>2, <1>4, <1>6 DEF GlobalInv, Summed

\* As long as each call finds the last point no more than MaxIterations weeks
\* old, that point, computed from slope changes alone, is the sum of what all the
\* locks weigh that have not expired at its time, however many there are.
THEOREM GlobalPointIsSum == EscrowSpec /\ CallsInReach => []GlobalIsSum
<1>1. EscrowInv /\ GlobalInv /\ [EscrowNext]_vars /\ [book' # book => InReach(book, now)]_vars
        => GlobalInv'
  <2> SUFFICES ASSUME EscrowInv, GlobalInv, [EscrowNext]_vars,
                      [book' # book => InReach(book, now)]_vars
               PROVE  GlobalInv'
    OBVIOUS
  <2>1. book' # book => InReach(book, now)
    BY DEF vars
  <2> QED
    BY <2>1, NextGlobalInv
<1>2. EscrowInv /\ GlobalInv => GlobalIsSum
  BY GlobalInvIsSum
<1> QED
  BY <1>1, <1>2, InitGlobalInv, EscrowInvariant, PTL DEF EscrowSpec, CallsInReach

\* Called in reach, a checkpoint leaves a last point of the present,
LEMMA GlobalCheckPointNow ==
    ASSUME NEW b, NEW ts \in Nat, NEW uOld, NEW uNew,
           BookTypeOK(b), b.points[b.epoch].ts <= ts, InReach(b, ts),
           NEW g, g = GlobalCheckPoint(b, ts, uOld, uNew)
    PROVE  g.points[g.epoch].ts = ts
<1> DEFINE p0 == LastPoint(b, ts)
           w == Walk(p0, b.slopes, ts)[Rounds(p0.ts, ts)]
<1>1. /\ p0.ts \in Nat /\ p0.ts <= ts
      /\ g.points[g.epoch].ts = RoundEnd(p0.ts, Rounds(p0.ts, ts), ts)
  BY GlobalCheckPointLast
<1>2. ts <= FloorWeek(p0.ts) + Week * MaxIterations
  <2>1. CASE b.epoch > 0
    BY <2>1 DEF LastPoint, InReach
  <2>2. CASE ~(b.epoch > 0)
    <3>1. p0.ts = ts
      BY <2>2 DEF LastPoint, ZeroPoint
    <3>2. FloorWeek(ts) \in Nat /\ ts < FloorWeek(ts) + Week
      BY FloorWeekFacts
    <3>3. Week * MaxIterations \in Nat /\ Week * MaxIterations >= Week /\ Week \in Nat
      <4>1. Week \in Nat /\ MaxIterations \in Nat /\ MaxIterations - 1 \in Nat
        BY EscrowAssumption
      <4>2. Week * (MaxIterations - 1) \in Nat
        BY <4>1
      <4>3. Week * MaxIterations = Week * (MaxIterations - 1) + Week
        BY <4>1
      <4> QED
        BY <4>1, <4>2, <4>3
    <3> HIDE DEF p0
    <3> QED
      BY <3>1, <3>2, <3>3
  <2> QED
    BY <2>1, <2>2
<1> HIDE DEF p0
<1> QED
  BY <1>1, <1>2, LastRoundReaches

\* with a token or without.
LEMMA CheckPointedNow ==
    ASSUME NEW b, NEW ts \in Nat, NEW t, NEW old, NEW new,
           BookTypeOK(b), b.points[b.epoch].ts <= ts, InReach(b, ts),
           NEW c, c = CheckPointed(b, ts, t, old, new)
    PROVE  c.points[c.epoch].ts = ts
<1> DEFINE g == GlobalCheckPoint(b, ts, UserPoint(old, ts), UserPoint(new, ts))
<1>1. c.epoch = g.epoch /\ c.points = g.points
  BY CheckPointedParts
<1>2. g.points[g.epoch].ts = ts
  BY GlobalCheckPointNow
<1> HIDE DEF g
<1> QED
  BY <1>1, <1>2

\* So every step that changes the book or a lock leaves a last point of its time.
LEMMA NextNow ==
    ASSUME EscrowInv, [EscrowNext]_vars, book' # book => InReach(book, now)
    PROVE  \/ book' = book /\ locked' = locked
           \/ book'.points[book'.epoch].ts = now
<1> DEFINE Goal == \/ book' = book /\ locked' = locked
                   \/ book'.points[book'.epoch].ts = now
<1>1. /\ now \in Nat /\ locked \in [Token -> Lock]
      /\ BookTypeOK(book) /\ book.points[book.epoch].ts <= now
      /\ book.epoch \in Nat
  BY EscrowInvFacts
<1>2. CASE PassesTime
  BY <1>2 DEF PassesTime
<1>3. CASE CheckPoint
  <2>1. /\ book' = GlobalCheckPoint(book, now, ZeroPoint(now), ZeroPoint(now))
        /\ locked' = locked
    BY <1>3 DEF CheckPoint
  <2>2. CASE book' = book
    BY <2>1, <2>2
  <2>3. CASE book' # book
    BY <1>1, <2>1, <2>3, GlobalCheckPointNow
  <2> QED
    BY <2>2, <2>3
<1>4. ASSUME NEW t \in Token, NEW lock, Deposits(t, lock) PROVE Goal
  <2>1. /\ lock \in Lock /\ locked[t] \in Lock
        /\ book' = CheckPointed(book, now, t, locked[t], lock)
    BY <1>1, <1>4 DEF Deposits
  <2>2. book' # book
    <3>1. book'.epoch > book.epoch
      BY <1>1, <2>1, CheckPointedReaches
    <3> QED
      BY <1>1, <3>1
  <2> QED
    BY <1>1, <2>1, <2>2, CheckPointedNow
<1>5. ASSUME NEW from \in Token, NEW to \in Token, NEW lock, Merges(from, to, lock)
      PROVE  Goal
  <2> DEFINE locks == [locked EXCEPT ![from] = NoLock]
             taken == CheckPointed(book, now, from, locked[from], NoLock)
  <2>1. /\ locks \in [Token -> Lock]
        /\ BookTypeOK(taken) /\ taken.points[taken.epoch].ts <= now
        /\ taken.epoch > book.epoch
        /\ book' = CheckPointed(taken, now, to, locks[to], lock)
        /\ lock \in Lock
    BY <1>5, MergesBook
  <2>2. taken = CheckPointed(book, now, from, locked[from], NoLock)
    OBVIOUS
  <2> HIDE DEF locks, taken
  <2>3. locks[to] \in Lock
    BY <2>1
  <2>4. /\ BookTypeOK(book') /\ book'.epoch > taken.epoch
        /\ taken.epoch > 0 => ReachesFrom(taken.points[taken.epoch].ts,
                                          book'.points[book'.epoch].ts, now)
    BY <1>1, <2>1, <2>3, CheckPointedReaches
  <2>5. taken.epoch \in Nat /\ taken.epoch > 0 /\ book'.epoch \in Nat
    BY <1>1, <2>1, <2>4 DEF BookTypeOK
  <2>6. book' # book
    BY <1>1, <2>1, <2>4, <2>5
  <2>7. taken.points[taken.epoch].ts = now
    BY <1>1, <2>2, <2>6, CheckPointedNow
  <2>8. ReachesFrom(now, book'.points[book'.epoch].ts, now)
    BY <2>4, <2>5, <2>7
  <2>9. book'.points[book'.epoch].ts \in Nat
    BY <2>4, <2>5 DEF BookTypeOK
  <2>10. Week * (MaxIterations - 1) \in Nat
    BY EscrowAssumption
  <2> QED
    BY <1>1, <2>8, <2>9, <2>10 DEF ReachesFrom
<1> QED
  BY <1>2, <1>3, <1>4, <1>5, StepCases

\* While the clock has not run for longer than the loop over weeks can make up,
\* no call can find the last point out of reach.
THEOREM ShortClockReaches ==
    ASSUME Horizon <= FloorWeek(Start) + Week * MaxIterations
    PROVE  EscrowSpec => CallsInReach
<1> DEFINE Since == book.epoch > 0 => book.points[book.epoch].ts >= Start
<1>1. EscrowInit => Since
  BY EscrowAssumption DEF EscrowInit, EmptyBook
<1>2. EscrowInv /\ Since => InReach(book, now)
  <2> SUFFICES ASSUME EscrowInv, Since, book.epoch > 0
               PROVE  now <= FloorWeek(book.points[book.epoch].ts) + Week * MaxIterations
    BY DEF InReach
  <2> DEFINE ts == book.points[book.epoch].ts
             reach == Week * MaxIterations
  <2>1. /\ now \in Nat /\ now <= Horizon /\ Horizon \in Nat
        /\ ts \in Nat /\ Start \in Nat /\ ts >= Start
    BY EscrowInvFacts, EscrowAssumption
  <2>2. reach \in Nat
    BY EscrowAssumption
  <2> HIDE DEF ts, reach
  <2>3. FloorWeek(Start) <= FloorWeek(ts)
    <3>1. Start \div Week <= ts \div Week /\ Start \div Week \in Int /\ ts \div Week \in Int
      BY <2>1, EscrowAssumption
    <3> DEFINE a == Start \div Week
               b == ts \div Week
    <3> HIDE DEF a, b
    <3>2. Week \in Nat /\ b - a \in Nat
      BY <3>1, EscrowAssumption DEF a, b
    <3>3. a \in Int /\ b \in Int
      BY <3>1 DEF a, b
    <3>4. (b - a) * Week \in Nat /\ b * Week = a * Week + (b - a) * Week
      BY <3>2, <3>3
    <3>5. a * Week \in Int
      BY <3>2, <3>3
    <3>6. a * Week <= b * Week
      BY <3>4, <3>5
    <3> QED
      BY <3>6 DEF FloorWeek, a, b
  <2>4. FloorWeek(Start) \in Nat /\ FloorWeek(ts) \in Nat
    BY <2>1, FloorWeekFacts
  <2>5. Horizon <= FloorWeek(Start) + reach
    BY DEF reach
  <2> QED
    BY <2>1, <2>2, <2>3, <2>4, <2>5 DEF ts, reach
<1>3. EscrowInv /\ Since /\ [EscrowNext]_vars => Since'
  <2> SUFFICES ASSUME EscrowInv, Since, [EscrowNext]_vars PROVE Since'
    OBVIOUS
  <2>1. now \in Nat /\ now >= Start
    BY EscrowAssumption DEF EscrowInv, TypeOK
  <2>2. CASE book' = book
    BY <2>2
  <2>3. CASE book'.points[book'.epoch].ts = now
    BY <2>1, <2>3
  <2> QED
    BY <1>2, <2>2, <2>3, NextNow
<1>4. EscrowInv /\ Since => [book' # book => InReach(book, now)]_vars
  BY <1>2
<1> HIDE DEF Since
<1> QED
  BY <1>1, <1>3, <1>4, EscrowInvariant, PTL DEF EscrowSpec, CallsInReach
=============================================================================
