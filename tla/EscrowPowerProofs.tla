-------------------------- MODULE EscrowPowerProofs --------------------------
(***************************************************************************)
(* Proofs about the points of the tokens and the views that read them: what *)
(* a step changes of the histories, what a token weighs, what all weigh     *)
(* together, and the views by block.                                        *)
(*                                                                          *)
(* The code keys a user point by the digits of the id followed by those of  *)
(* the epoch, which does not keep all points apart.  What holds only while  *)
(* no two points share a key says so by assuming KeysUnique.                *)
(***************************************************************************)
EXTENDS EscrowViews, EscrowProofs, SearchProofs

-----------------------------------------------------------------------------
(* The records of the tokens.                                               *)

\* The epochs a token can have.
UserEpochs == 0..MaxEpoch

\* No two points share a key, of the tokens and epochs within the bounds.
KeysUnique ==
    \A t, u \in Token : \A e, f \in UserEpochs :
        UserPointKey(t, e) = UserPointKey(u, f) => t = u /\ e = f

\* That is so for ids of one digit, and of epochs up to the three digits that
\* the model gives a key.
LEMMA OneDigitKeys ==
    ASSUME MaxToken <= 9, MaxEpoch <= 999
    PROVE  KeysUnique
<1> SUFFICES ASSUME NEW t \in Token, NEW u \in Token,
                    NEW e \in UserEpochs, NEW f \in UserEpochs,
                    UserPointKey(t, e) = UserPointKey(u, f)
             PROVE  t = u /\ e = f
  BY DEF KeysUnique
<1>1. t \in 1..9 /\ u \in 1..9
  BY EscrowAssumption DEF Token
<1>2. e \in 0..999 /\ f \in 0..999
  BY EscrowAssumption DEF UserEpochs
<1>3. Shift(e) \in {10, 100, 1000} /\ Shift(f) \in {10, 100, 1000}
  BY DEF Shift
<1> QED
  BY <1>1, <1>2, <1>3 DEF UserPointKey, Shift

\* It is not so once ids have two digits and tokens eleven points.
LEMMA TwoDigitKeysCollide ==
    ASSUME MaxToken >= 11, MaxEpoch >= 11
    PROVE  ~KeysUnique
<1>1. 1 \in Token /\ 11 \in Token /\ 1 \in UserEpochs /\ 11 \in UserEpochs
  BY EscrowAssumption DEF Token, UserEpochs
<1>2. UserPointKey(1, 11) = 111 /\ UserPointKey(11, 1) = 111
  BY DEF UserPointKey, Shift
<1> QED
  BY <1>1, <1>2 DEF KeysUnique

\* What the book has recorded of the locks, by time `at`: a token has no more
\* points than there are global ones; every key in the history of points is
\* one of them; and a token's latest point is what its lock weighed when it
\* was recorded.
Recorded(b, locks, at) ==
    /\ \A t \in Token : b.userEpoch[t] <= b.epoch
    /\ \A k \in DOMAIN b.userPoints :
         \E t \in Token : \E e \in 1..b.userEpoch[t] : k = UserPointKey(t, e)
    /\ \A t \in Token :
         IF b.userEpoch[t] = 0 THEN locks[t] = NoLock
         ELSE LET k == UserPointKey(t, b.userEpoch[t])
              IN  /\ k \in DOMAIN b.userPoints
                  /\ \E ts \in 0..at : b.userPoints[k] = UserPoint(locks[t], ts)

\* The global history of book c continues that of b: it has every point of b,
\* and the times of the points it adds do not go back.
GoesOn(b, c) ==
    /\ c.epoch >= b.epoch
    /\ \A e \in 0..b.epoch : c.points[e] = b.points[e]
    /\ \A e \in b.epoch..(c.epoch - 1) :
          e > 0 => c.points[e].ts <= c.points[e + 1].ts

\* The book c continues book b: so do the histories of the tokens.
Continues(b, c) ==
    /\ GoesOn(b, c)
    /\ \A k \in DOMAIN b.userPoints :
          k \in DOMAIN c.userPoints /\ c.userPoints[k] = b.userPoints[k]

\* What is recorded by some time is recorded by any later one.
LEMMA RecordedLater ==
    ASSUME NEW b, NEW locks, NEW from \in Nat, NEW to \in Nat, from <= to,
           Recorded(b, locks, from)
    PROVE  Recorded(b, locks, to)
<1>1. 0..from \subseteq 0..to
  OBVIOUS
<1> QED
  BY <1>1 DEF Recorded

\* A checkpoint of token t keeps every global point,
LEMMA CheckPointedKeepsPoints ==
    ASSUME NEW b, NEW ts \in Nat, NEW t \in Token, NEW old \in Lock, NEW new \in Lock,
           BookTypeOK(b), b.points[b.epoch].ts <= ts,
           NEW c, c = CheckPointed(b, ts, t, old, new)
    PROVE  \A e \in 0..b.epoch : c.points[e] = b.points[e]
<1> DEFINE g == GlobalCheckPoint(b, ts, UserPoint(old, ts), UserPoint(new, ts))
<1>1. c.epoch = g.epoch /\ c.points = g.points
  BY CheckPointedParts
<1>2. \A e \in 0..b.epoch : g.points[e] = b.points[e]
  BY GlobalCheckPointAppends
<1> QED
  BY <1>1, <1>2

\* adds points that go forward in time,
LEMMA CheckPointedAscends ==
    ASSUME NEW b, NEW ts \in Nat, NEW t \in Token, NEW old \in Lock, NEW new \in Lock,
           BookTypeOK(b), b.points[b.epoch].ts <= ts,
           NEW c, c = CheckPointed(b, ts, t, old, new)
    PROVE  \A e \in b.epoch..(c.epoch - 1) : e > 0 => c.points[e].ts <= c.points[e + 1].ts
BY CheckPointedAppends

\* counts one more point of t,
LEMMA CheckPointedCounts ==
    ASSUME NEW b, NEW ts \in Nat, NEW t \in Token, NEW old \in Lock, NEW new \in Lock,
           BookTypeOK(b), b.points[b.epoch].ts <= ts,
           NEW c, c = CheckPointed(b, ts, t, old, new)
    PROVE  \A u \in Token :
              c.userEpoch[u] = IF u = t THEN b.userEpoch[t] + 1 ELSE b.userEpoch[u]
<1> DEFINE g == GlobalCheckPoint(b, ts, UserPoint(old, ts), UserPoint(new, ts))
<1>1. BookTypeOK(g) /\ g.userEpoch = b.userEpoch
  BY GlobalCheckPointAppends
<1> HIDE DEF g
<1>2. c = UserCheckPoint(g, ts, t, old, new)
  BY DEF CheckPointed, g
<1>3. c.userEpoch = [b.userEpoch EXCEPT ![t] = b.userEpoch[t] + 1]
  BY <1>1, <1>2 DEF UserCheckPoint, BookTypeOK
<1>4. b.userEpoch \in [Token -> Nat]
  BY DEF BookTypeOK
<1> QED
  BY <1>3, <1>4

\* and adds it to the history of t.
LEMMA CheckPointedAdds ==
    ASSUME NEW b, NEW ts \in Nat, NEW t \in Token, NEW old \in Lock, NEW new \in Lock,
           BookTypeOK(b), b.points[b.epoch].ts <= ts,
           NEW c, c = CheckPointed(b, ts, t, old, new)
    PROVE  c.userPoints = DictSet(b.userPoints, UserPointKey(t, b.userEpoch[t] + 1),
                                  UserPoint(new, ts))
<1> DEFINE g == GlobalCheckPoint(b, ts, UserPoint(old, ts), UserPoint(new, ts))
<1>1. BookTypeOK(g) /\ g.userEpoch = b.userEpoch /\ g.userPoints = b.userPoints
  BY GlobalCheckPointAppends
<1> HIDE DEF g
<1>2. c = UserCheckPoint(g, ts, t, old, new)
  BY DEF CheckPointed, g
<1> QED
  BY <1>1, <1>2 DEF UserCheckPoint, BookTypeOK

\* The point that a checkpoint adds to the history of token t gets a key of its
\* own; so no point that is there changes, and the book records t's new lock.
LEMMA CheckPointedRecords ==
    ASSUME KeysUnique,
           NEW b, BookTypeOK(b), NEW ts \in Nat, b.points[b.epoch].ts <= ts,
           NEW locks \in [Token -> Lock], NEW at \in Nat, at <= ts,
           Recorded(b, locks, at),
           NEW t \in Token, NEW new \in Lock,
           NEW c, c = CheckPointed(b, ts, t, locks[t], new), c.epoch <= MaxEpoch,
           NEW after, after = [locks EXCEPT ![t] = new]
    PROVE  /\ Recorded(c, after, ts)
           /\ Continues(b, c)
<1> DEFINE n == b.userEpoch[t] + 1
           key == UserPointKey(t, n)
<1>1. /\ \A u \in Token : b.userEpoch[u] \in Nat /\ b.userEpoch[u] <= b.epoch
      /\ b.epoch \in Nat
      /\ b.userEpoch \in [Token -> Nat]
  BY DEF Recorded, BookTypeOK
<1>2. locks[t] \in Lock
  OBVIOUS
<1>3. /\ BookTypeOK(c)
      /\ c.epoch > b.epoch
      /\ \A e \in 0..b.epoch : c.points[e] = b.points[e]
      /\ \A e \in b.epoch..(c.epoch - 1) : e > 0 => c.points[e].ts <= c.points[e + 1].ts
      /\ c.points[c.epoch].ts <= ts
      /\ \A u \in Token : c.userEpoch[u] = IF u = t THEN n ELSE b.userEpoch[u]
      /\ c.userPoints = DictSet(b.userPoints, key, UserPoint(new, ts))
  <2>1. /\ BookTypeOK(c)
        /\ c.epoch > b.epoch
        /\ c.points[c.epoch].ts <= ts
    BY <1>2, CheckPointedReaches
  <2>2. \A e \in 0..b.epoch : c.points[e] = b.points[e]
    BY <1>2, CheckPointedKeepsPoints
  <2>3. \A e \in b.epoch..(c.epoch - 1) : e > 0 => c.points[e].ts <= c.points[e + 1].ts
    BY <1>2, CheckPointedAscends
  <2>4. \A u \in Token :
           c.userEpoch[u] = IF u = t THEN b.userEpoch[t] + 1 ELSE b.userEpoch[u]
    <3>1. BookTypeOK(b) /\ ts \in Nat /\ b.points[b.epoch].ts <= ts
      OBVIOUS
    <3>2. t \in Token /\ new \in Lock /\ c = CheckPointed(b, ts, t, locks[t], new)
      OBVIOUS
    <3> QED
      BY ONLY <1>2, <3>1, <3>2, CheckPointedCounts
  <2>5. c.userPoints = DictSet(b.userPoints, UserPointKey(t, b.userEpoch[t] + 1),
                               UserPoint(new, ts))
    BY <1>2, CheckPointedAdds
  <2> QED
    BY <2>1, <2>2, <2>3, <2>4, <2>5
<1>5. c.epoch \in Nat /\ c.epoch <= MaxEpoch /\ MaxEpoch \in Nat
  BY <1>3, EscrowAssumption DEF BookTypeOK
<1>6. n \in UserEpochs /\ n \in Nat /\ n # 0 /\ n <= c.epoch
  <2>1. b.epoch < c.epoch
    BY <1>3
  <2>2. b.userEpoch[t] \in Nat /\ b.userEpoch[t] <= b.epoch
    BY <1>1
  <2>3. b.epoch \in Nat /\ c.epoch \in Nat /\ c.epoch <= MaxEpoch /\ MaxEpoch \in Nat
    BY <1>1, <1>5
  <2>4. n = b.userEpoch[t] + 1
    OBVIOUS
  <2> HIDE DEF n
  <2>5. b.userEpoch[t] + 1 \in Nat /\ b.userEpoch[t] + 1 <= c.epoch
    BY <2>1, <2>2, <2>3
  <2>6. b.userEpoch[t] + 1 \in UserEpochs
    <3> DEFINE m == b.userEpoch[t] + 1
    <3>1. m \in Nat /\ m >= 1 /\ m <= MaxEpoch /\ MaxEpoch \in Nat
      BY <2>2, <2>3, <2>5
    <3> HIDE DEF m
    <3>2. m \in UserEpochs
      BY ONLY <3>1 DEF UserEpochs
    <3> QED
      BY <3>2 DEF m
  <2>7. b.userEpoch[t] + 1 # 0
    BY <2>2
  <2> QED
    BY <2>4, <2>5, <2>6, <2>7, Zenon
<1>7. \A u \in Token : \A e \in 1..b.userEpoch[u] : UserPointKey(u, e) # key
  <2> SUFFICES ASSUME NEW u \in Token, NEW e \in 1..b.userEpoch[u],
                      UserPointKey(u, e) = key
               PROVE  FALSE
    OBVIOUS
  <2>1. e \in UserEpochs
    <3>1. b.userEpoch[u] \in Nat /\ b.userEpoch[u] <= b.epoch /\ b.epoch < c.epoch
      BY <1>1, <1>3
    <3> QED
      BY <1>1, <1>5, <3>1 DEF UserEpochs
  <2>2. PICK m \in UserEpochs : m = n /\ UserPointKey(u, e) = UserPointKey(t, m)
    BY <1>6
  <2>3. u = t /\ e = m
    BY <2>1, <2>2 DEF KeysUnique
  <2> QED
    BY <1>1, <2>2, <2>3
<1>8. key \notin DOMAIN b.userPoints
  BY <1>7 DEF Recorded
<1>9. \A k \in DOMAIN b.userPoints :
         k \in DOMAIN c.userPoints /\ c.userPoints[k] = b.userPoints[k]
  BY <1>3, <1>8 DEF DictSet
<1>10. \A u \in Token : c.userEpoch[u] = IF u = t THEN n ELSE b.userEpoch[u]
  BY <1>1, <1>3
<1>11. \A u \in Token : c.userEpoch[u] <= c.epoch
  <2> SUFFICES ASSUME NEW u \in Token PROVE c.userEpoch[u] <= c.epoch
    OBVIOUS
  <2>1. c.epoch \in Nat /\ c.epoch > b.epoch
    BY <1>3, <1>5
  <2> QED
    BY <1>1, <1>6, <1>10, <2>1
<1>12. \A k \in DOMAIN c.userPoints :
         \E u \in Token : \E e \in 1..c.userEpoch[u] : k = UserPointKey(u, e)
  <2> SUFFICES ASSUME NEW k \in DOMAIN c.userPoints
               PROVE  \E u \in Token : \E e \in 1..c.userEpoch[u] : k = UserPointKey(u, e)
    OBVIOUS
  <2>1. CASE k = key
    <3>1. n \in 1..c.userEpoch[t]
      BY <1>1, <1>6, <1>10
    <3> QED
      BY <2>1, <3>1
  <2>2. CASE k # key
    <3>1. k \in DOMAIN b.userPoints
      BY <1>3, <2>2 DEF DictSet
    <3>2. PICK u \in Token : \E e \in 1..b.userEpoch[u] : k = UserPointKey(u, e)
      BY <3>1 DEF Recorded
    <3>3. PICK e \in 1..b.userEpoch[u] : k = UserPointKey(u, e)
      BY <3>2
    <3>4. e \in 1..c.userEpoch[u]
      BY <1>1, <1>10
    <3> QED
      BY <3>3, <3>4
  <2> QED
    BY <2>1, <2>2
<1>13. ASSUME NEW u \in Token
       PROVE  IF c.userEpoch[u] = 0 THEN after[u] = NoLock
              ELSE LET k == UserPointKey(u, c.userEpoch[u])
                   IN  /\ k \in DOMAIN c.userPoints
                       /\ \E s \in 0..ts : c.userPoints[k] = UserPoint(after[u], s)
  <2>1. CASE u = t
    <3>1. c.userEpoch[u] = n /\ n # 0 /\ after[u] = new
      BY <1>6, <1>10, <2>1
    <3>2. key \in DOMAIN c.userPoints /\ c.userPoints[key] = UserPoint(new, ts)
      BY <1>3 DEF DictSet
    <3>3. ts \in 0..ts
      OBVIOUS
    <3> QED
      BY <2>1, <3>1, <3>2, <3>3
  <2>2. CASE u # t
    <3>1. c.userEpoch[u] = b.userEpoch[u] /\ after[u] = locks[u]
      BY <1>10, <2>2
    <3>2. 0..at \subseteq 0..ts
      OBVIOUS
    <3> QED
      BY <1>9, <3>1, <3>2 DEF Recorded
  <2> QED
    BY <2>1, <2>2
<1>14. Recorded(c, after, ts)
  BY <1>11, <1>12, <1>13 DEF Recorded
<1>15. Continues(b, c)
  BY <1>1, <1>3, <1>5, <1>9 DEF Continues, GoesOn
<1> QED
  BY <1>14, <1>15

\* Continuing a history twice continues it,
LEMMA GoesOnTransitive ==
    ASSUME NEW b, NEW c, NEW d,
           BookTypeOK(b), BookTypeOK(c), BookTypeOK(d),
           GoesOn(b, c), GoesOn(c, d)
    PROVE  GoesOn(b, d)
<1>1. b.epoch \in Nat /\ c.epoch \in Nat /\ d.epoch \in Nat
  BY DEF BookTypeOK
<1>2. b.epoch <= c.epoch /\ c.epoch <= d.epoch
  BY DEF GoesOn
<1>3. \A e \in 0..b.epoch : d.points[e] = b.points[e]
  BY <1>1, <1>2 DEF GoesOn
<1>4. ASSUME NEW e \in b.epoch..(d.epoch - 1), e > 0
      PROVE  d.points[e].ts <= d.points[e + 1].ts
  <2>1. CASE e < c.epoch
    <3>1. c.points[e].ts <= c.points[e + 1].ts
      BY <1>1, <1>2, <1>4, <2>1 DEF GoesOn
    <3>2. e \in 0..c.epoch /\ e + 1 \in 0..c.epoch
      BY <1>1, <1>2, <1>4, <2>1
    <3> QED
      BY <3>1, <3>2 DEF GoesOn
  <2>2. CASE e >= c.epoch
    BY <1>1, <1>2, <1>4, <2>2 DEF GoesOn
  <2> QED
    BY <1>1, <2>1, <2>2
<1> QED
  BY <1>1, <1>2, <1>3, <1>4 DEF GoesOn

\* and continuing a book twice continues it.
LEMMA ContinuesTransitive ==
    ASSUME NEW b, NEW c, NEW d,
           BookTypeOK(b), BookTypeOK(c), BookTypeOK(d),
           Continues(b, c), Continues(c, d)
    PROVE  Continues(b, d)
<1>1. GoesOn(b, d)
  BY GoesOnTransitive DEF Continues
<1> QED
  BY <1>1 DEF Continues

\* A checkpoint for no token keeps what is recorded, and every point.
LEMMA GlobalCheckPointKeeps ==
    ASSUME NEW b, BookTypeOK(b), NEW ts \in Nat, b.points[b.epoch].ts <= ts,
           NEW locks, NEW at \in Nat, at <= ts, Recorded(b, locks, at),
           NEW g, g = GlobalCheckPoint(b, ts, ZeroPoint(ts), ZeroPoint(ts))
    PROVE  Recorded(g, locks, ts) /\ Continues(b, g)
<1>1. /\ BookTypeOK(g)
      /\ g.epoch > b.epoch
      /\ g.userEpoch = b.userEpoch
      /\ g.userPoints = b.userPoints
      /\ \A e \in 0..b.epoch : g.points[e] = b.points[e]
      /\ \A e \in b.epoch..(g.epoch - 1) : e > 0 => g.points[e].ts <= g.points[e + 1].ts
  BY GlobalCheckPointAppends
<1>2. ASSUME NEW u \in Token PROVE g.userEpoch[u] <= g.epoch
  <2>1. b.userEpoch[u] \in Nat /\ b.userEpoch[u] <= b.epoch
    BY DEF Recorded, BookTypeOK
  <2>2. b.epoch \in Nat /\ g.epoch \in Nat
    BY <1>1 DEF BookTypeOK
  <2> QED
    BY <1>1, <2>1, <2>2
<1>3. Recorded(b, locks, ts)
  BY RecordedLater
<1>4. Recorded(g, locks, ts)
  BY <1>1, <1>2, <1>3 DEF Recorded
<1>5. Continues(b, g)
  <2>1. b.epoch \in Nat /\ g.epoch \in Nat
    BY <1>1 DEF BookTypeOK
  <2> QED
    BY <1>1, <2>1 DEF Continues, GoesOn
<1> QED
  BY <1>4, <1>5

\* Every step continues the book and records what it does to the locks.
LEMMA NextRecorded ==
    ASSUME KeysUnique, EscrowInv, NEW at \in Nat, at <= now, Recorded(book, locked, at),
           book.epoch <= MaxEpoch, [EscrowNext]_vars
    PROVE  /\ Continues(book, book')
           /\ book'.epoch <= MaxEpoch
           /\ \/ book' = book /\ locked' = locked
              \/ now' = now /\ Recorded(book', locked', now)
<1> DEFINE Goal == /\ Continues(book, book')
                   /\ book'.epoch <= MaxEpoch
                   /\ \/ book' = book /\ locked' = locked
                      \/ now' = now /\ Recorded(book', locked', now)
<1>1. /\ now \in Nat /\ locked \in [Token -> Lock]
      /\ BookTypeOK(book) /\ book.points[book.epoch].ts <= now
      /\ book.epoch \in Nat
  BY EscrowInvFacts
<1>2. CASE PassesTime
  <2>1. book' = book /\ locked' = locked
    BY <1>2 DEF PassesTime
  <2>2. Continues(book, book)
    BY <1>1 DEF Continues, GoesOn
  <2> QED
    BY <2>1, <2>2
<1>3. CASE CheckPoint
  <2>1. /\ book' = GlobalCheckPoint(book, now, ZeroPoint(now), ZeroPoint(now))
        /\ book'.epoch <= MaxEpoch
        /\ now' = now /\ locked' = locked
    BY <1>3 DEF CheckPoint
  <2>2. Recorded(book', locked, now) /\ Continues(book, book')
    BY <1>1, <2>1, GlobalCheckPointKeeps
  <2> QED
    BY <2>1, <2>2
<1>4. ASSUME NEW t \in Token, NEW lock, Deposits(t, lock) PROVE Goal
  <2>1. /\ lock \in Lock
        /\ book' = CheckPointed(book, now, t, locked[t], lock)
        /\ book'.epoch <= MaxEpoch
        /\ locked' = [locked EXCEPT ![t] = lock]
        /\ now' = now
    BY <1>4 DEF Deposits
  <2>2. Recorded(book', locked', now) /\ Continues(book, book')
    BY <1>1, <2>1, CheckPointedRecords
  <2> QED
    BY <2>1, <2>2
<1>5. ASSUME NEW from \in Token, NEW to \in Token, NEW lock, Merges(from, to, lock)
      PROVE  Goal
  <2> DEFINE locks == [locked EXCEPT ![from] = NoLock]
             taken == CheckPointed(book, now, from, locked[from], NoLock)
  <2>1. /\ locks \in [Token -> Lock]
        /\ BookTypeOK(taken) /\ taken.points[taken.epoch].ts <= now
        /\ book' = CheckPointed(taken, now, to, locks[to], lock)
        /\ locked' = [locks EXCEPT ![to] = lock]
        /\ lock \in Lock
    BY <1>5, MergesBook
  <2>2. /\ taken = CheckPointed(book, now, from, locked[from], NoLock)
        /\ locks = [locked EXCEPT ![from] = NoLock]
    OBVIOUS
  <2>3. book'.epoch <= MaxEpoch /\ now' = now
    BY <1>5 DEF Merges
  <2> HIDE DEF locks, taken
\* The checkpoint of `from` stays within the bound, as the one of `to` does.
  <2>4. taken.epoch <= MaxEpoch
    <3>1. locks[to] \in Lock
      BY <2>1
    <3>2. BookTypeOK(book') /\ book'.epoch > taken.epoch
      BY <1>1, <2>1, <3>1, CheckPointedReaches
    <3>3. taken.epoch \in Nat /\ book'.epoch \in Nat
      BY <2>1, <3>2 DEF BookTypeOK
    <3> QED
      BY <2>3, <3>2, <3>3, EscrowAssumption
  <2>5. Recorded(taken, locks, now) /\ Continues(book, taken)
    BY <1>1, <2>2, <2>4, NoLockType, CheckPointedRecords
  <2>6. now <= now
    BY <1>1
  <2>7. Recorded(book', locked', now) /\ Continues(taken, book')
    BY <1>1, <2>1, <2>3, <2>5, <2>6, CheckPointedRecords
  <2>8. BookTypeOK(book')
    <3>1. locks[to] \in Lock
      BY <2>1
    <3> QED
      BY <1>1, <2>1, <3>1, CheckPointedReaches
  <2>9. Continues(book, book')
    BY <1>1, <2>1, <2>5, <2>7, <2>8, ContinuesTransitive
  <2> QED
    BY <2>3, <2>7, <2>9
<1> QED
  BY <1>2, <1>3, <1>4, <1>5, StepCases

\* What the book has recorded of the locks, by now.
PowerInv ==
    /\ Recorded(book, locked, now)
    /\ book.epoch <= MaxEpoch

LEMMA InitPowerInv == EscrowInit => PowerInv
<1> SUFFICES ASSUME EscrowInit PROVE PowerInv
  OBVIOUS
<1>1. Recorded(book, locked, now)
  BY EscrowAssumption DEF EscrowInit, EmptyBook, Recorded, EmptyDict
<1>2. book.epoch <= MaxEpoch
  BY EscrowAssumption DEF EscrowInit, EmptyBook
<1> QED
  BY <1>1, <1>2 DEF PowerInv

LEMMA NextPowerInv ==
    ASSUME KeysUnique, EscrowInv, EscrowInv', PowerInv, [EscrowNext]_vars
    PROVE  PowerInv' /\ Continues(book, book')
<1>1. /\ now \in Nat /\ now' \in Nat /\ now <= now
      /\ Recorded(book, locked, now) /\ book.epoch <= MaxEpoch
  <2>1. now' \in Nat
    BY EscrowAssumption DEF EscrowInv, TypeOK
  <2> QED
    BY <2>1, EscrowInvFacts DEF PowerInv
<1>2. now <= now'
  BY <1>1, StepCases DEF PassesTime, CheckPoint, Deposits, Merges
<1>3. /\ Continues(book, book')
      /\ book'.epoch <= MaxEpoch
      /\ \/ book' = book /\ locked' = locked
         \/ now' = now /\ Recorded(book', locked', now)
  BY <1>1, NextRecorded
<1>4. Recorded(book', locked', now')
  <2>1. CASE book' = book /\ locked' = locked
    BY <1>1, <1>2, <2>1, RecordedLater
  <2> QED
    BY <1>3, <2>1
<1> QED
  BY <1>3, <1>4 DEF PowerInv

\* The two invariants together hold in every reachable state, as long as no
\* two points share a key.
THEOREM RecordsInvariant ==
    ASSUME KeysUnique
    PROVE  EscrowSpec => [](EscrowInv /\ PowerInv)
<1>1. EscrowInv /\ PowerInv /\ [EscrowNext]_vars => (EscrowInv /\ PowerInv)'
  BY NextEscrowInv, NextPowerInv
<1> QED
  BY InitEscrowInv, InitPowerInv, <1>1, PTL DEF EscrowSpec

-----------------------------------------------------------------------------
(* What one token weighs.                                                   *)

\* What the point that a lock left at time ts says of a later time is what the
\* lock weighs then.
LEMMA PointWeighsLock ==
    ASSUME NEW lock \in Lock, NEW ts \in Nat, NEW at \in Nat, ts <= at
    PROVE  LET p == UserPoint(lock, ts)
           IN  NonNeg(p.bias - p.slope * (at - p.ts))
                 = (lock.amount \div MaxTime) * NonNeg(lock.end - at)
<1> DEFINE s == lock.amount \div MaxTime
           end == lock.end
           p == UserPoint(lock, ts)
<1>1. lock.amount \in Nat /\ end \in Nat /\ s \in Nat
  BY SlopeIsNat, EscrowAssumption DEF Lock, Times
<1>2. CASE end > ts /\ lock.amount > 0
  <2>1. p.bias = s * (end - ts) /\ p.slope = s /\ p.ts = ts
    BY <1>2 DEF UserPoint
  <2> HIDE DEF p, s, end
  <2>2. s * (end - ts) - s * (at - ts) = s * (end - at)
    BY <1>1
  <2>3. NonNeg(s * (end - at)) = s * NonNeg(end - at)
    <3>1. end - at \in Int
      BY <1>1
    <3> QED
      BY <1>1, <3>1, NonNegTimes
  <2>4. p.bias - p.slope * (at - p.ts) = s * (end - at)
    BY <2>1, <2>2
  <2> QED
    BY <2>3, <2>4 DEF p, s, end
<1>3. CASE ~(end > ts /\ lock.amount > 0)
  <2>1. p.bias = 0 /\ p.slope = 0 /\ p.ts = ts
    BY <1>3 DEF UserPoint, ZeroPoint
  <2>2. p.bias - p.slope * (at - p.ts) = 0
    BY <2>1
  <2>3. NonNeg(p.bias - p.slope * (at - p.ts)) = 0
    BY <2>2 DEF NonNeg
  <2>4. s * NonNeg(end - at) = 0
    <3>1. CASE end <= ts
      <4>1. NonNeg(end - at) = 0
        BY <1>1, <3>1 DEF NonNeg
      <4> QED
        BY <1>1, <4>1
    <3>2. CASE lock.amount = 0
      <4>1. s = 0
        BY <3>2, EscrowAssumption
      <4>2. NonNeg(end - at) \in Int
        BY <1>1 DEF NonNeg
      <4> QED
        BY <4>1, <4>2
    <3> QED
      BY <1>1, <1>3, <3>1, <3>2
  <2> QED
    BY <2>3, <2>4
<1> QED
  BY <1>2, <1>3

\* As long as no two user points share a key, the voting power of every token
\* is linear: the slope of its lock times what is left of it, now and at any
\* later time.
THEOREM VotingPowerOfEveryToken ==
    ASSUME KeysUnique
    PROVE  EscrowSpec => []VotingPowerIsLinear
<1>1. EscrowInv /\ PowerInv => VotingPowerIsLinear
  <2> SUFFICES ASSUME EscrowInv, PowerInv,
                      NEW t \in Token, NEW at \in now..(Horizon + MaxTime)
               PROVE  BalanceOfNFT(t, at) = Slope(t) * NonNeg(locked[t].end - at)
    BY DEF VotingPowerIsLinear
  <2>1. /\ now \in Nat /\ at \in Nat /\ now <= at
        /\ locked[t] \in Lock
        /\ book.userEpoch[t] \in Nat
        /\ Recorded(book, locked, now)
    BY EscrowAssumption DEF EscrowInv, PowerInv, TypeOK, BookTypeOK
  <2>2. CASE book.userEpoch[t] = 0
    <3>1. locked[t] = NoLock
      BY <2>1, <2>2 DEF Recorded
    <3>2. Slope(t) = 0
      BY <3>1, EscrowAssumption DEF Slope, NoLock
    <3>3. NonNeg(locked[t].end - at) \in Int
      BY <2>1, <3>1 DEF NonNeg, NoLock
    <3>4. Slope(t) * NonNeg(locked[t].end - at) = 0
      BY <3>2, <3>3
    <3> QED
      BY <2>2, <3>4 DEF BalanceOfNFT
  <2>3. CASE book.userEpoch[t] # 0
    <3> DEFINE k == UserPointKey(t, book.userEpoch[t])
               p == book.userPoints[k]
    <3>1. /\ k \in DOMAIN book.userPoints
          /\ \E ts \in 0..now : p = UserPoint(locked[t], ts)
      BY <2>1, <2>3 DEF Recorded
    <3>2. PICK ts \in 0..now : p = UserPoint(locked[t], ts)
      BY <3>1
    <3>3. ts \in Nat /\ ts <= at
      BY <2>1
    <3>4. GetUserPoint(t, book.userEpoch[t]) = p
      BY <3>1 DEF GetUserPoint, DictGetOr
    <3>5. BalanceOfNFT(t, at) = NonNeg(p.bias - p.slope * (at - p.ts))
      BY <2>3, <3>4 DEF BalanceOfNFT
    <3> HIDE DEF p
    <3> QED
      BY <2>1, <3>2, <3>3, <3>5, PointWeighsLock DEF Slope
  <2> QED
    BY <2>2, <2>3
<1> QED
  BY <1>1, RecordsInvariant, PTL

\* As long as no two user points share a key, the histories of points are
\* append-only and the global one goes forward in time.  (Without the assumption
\* the code overwrites points, and HistoriesAppendUnlessKeysCollide is what holds.)
THEOREM HistoriesAppend ==
    ASSUME KeysUnique
    PROVE  EscrowSpec => HistoryAppendOnly
<1>1. EscrowInv /\ EscrowInv' /\ PowerInv /\ [EscrowNext]_vars
        => [/\ book'.epoch >= book.epoch
            /\ \A e \in 0..book.epoch : book'.points[e] = book.points[e]
            /\ \A e \in book.epoch..(book'.epoch - 1) :
                 e > 0 => book'.points[e].ts <= book'.points[e + 1].ts
            /\ \A k \in DOMAIN book.userPoints :
                 book'.userPoints[k] = book.userPoints[k]]_vars
  BY NextPowerInv DEF Continues, GoesOn
<1> QED
  BY <1>1, RecordsInvariant, PTL DEF EscrowSpec, HistoryAppendOnly

\* Every key in the history of points is that of a point some token was given.
Keyed(b) ==
    \A k \in DOMAIN b.userPoints :
        \E u \in Token : \E e \in 1..b.userEpoch[u] : k = UserPointKey(u, e)

\* Between books b and c a token was given a point whose key, k, was already
\* that of an earlier point.
Collides(b, c, k) ==
    \E t, u \in Token : \E e \in 1..b.userEpoch[u] :
        /\ c.userEpoch[t] > b.userEpoch[t]
        /\ k = UserPointKey(u, e)
        /\ k = UserPointKey(t, c.userEpoch[t])

\* Of the points of b, c has changed only those with the key of a point that
\* one of the tokens `given` was given in between.
ChangesOnly(b, c, given) ==
    /\ \A k \in DOMAIN b.userPoints :
          /\ k \in DOMAIN c.userPoints
          /\ \/ c.userPoints[k] = b.userPoints[k]
             \/ \E t \in given : k = UserPointKey(t, c.userEpoch[t])
    /\ \A t \in Token :
          c.userEpoch[t] = IF t \in given THEN b.userEpoch[t] + 1 ELSE b.userEpoch[t]

\* A checkpoint of token t, whatever keys the points have.
LEMMA CheckPointedChanges ==
    ASSUME NEW b, BookTypeOK(b), NEW ts \in Nat, b.points[b.epoch].ts <= ts, Keyed(b),
           NEW t \in Token, NEW old \in Lock, NEW new \in Lock,
           NEW c, c = CheckPointed(b, ts, t, old, new)
    PROVE  Keyed(c) /\ GoesOn(b, c) /\ ChangesOnly(b, c, {t})
<1> DEFINE n == b.userEpoch[t] + 1
           key == UserPointKey(t, n)
<1>1. \A u \in Token : b.userEpoch[u] \in Nat
  BY DEF BookTypeOK
<1>2. BookTypeOK(c) /\ c.epoch > b.epoch
  BY CheckPointedReaches
<1>3. b.epoch \in Nat /\ c.epoch \in Nat
  BY <1>2 DEF BookTypeOK
<1>4. \A u \in Token : c.userEpoch[u] = IF u = t THEN n ELSE b.userEpoch[u]
  BY CheckPointedCounts
<1>5. c.userPoints = DictSet(b.userPoints, key, UserPoint(new, ts))
  BY CheckPointedAdds
<1>6. GoesOn(b, c)
  <2>1. \A e \in 0..b.epoch : c.points[e] = b.points[e]
    BY CheckPointedKeepsPoints
  <2>2. \A e \in b.epoch..(c.epoch - 1) : e > 0 => c.points[e].ts <= c.points[e + 1].ts
    BY CheckPointedAscends
  <2> QED
    BY <1>2, <1>3, <2>1, <2>2 DEF GoesOn
<1>7. ChangesOnly(b, c, {t})
  <2>1. key = UserPointKey(t, c.userEpoch[t])
    BY <1>4
  <2>2. \A k \in DOMAIN b.userPoints :
           k \in DOMAIN c.userPoints /\ (c.userPoints[k] = b.userPoints[k] \/ k = key)
    BY <1>5 DEF DictSet
  <2> QED
    BY <1>4, <2>1, <2>2 DEF ChangesOnly
<1>8. ASSUME NEW k \in DOMAIN c.userPoints
      PROVE  \E u \in Token : \E e \in 1..c.userEpoch[u] : k = UserPointKey(u, e)
  <2>1. CASE k = key
    <3>1. n \in 1..c.userEpoch[t]
      BY <1>1, <1>4
    <3> QED
      BY <2>1, <3>1
  <2>2. CASE k # key
    <3>1. k \in DOMAIN b.userPoints
      BY <1>5, <2>2 DEF DictSet
    <3>2. PICK u \in Token : \E e \in 1..b.userEpoch[u] : k = UserPointKey(u, e)
      BY <3>1 DEF Keyed
    <3>3. PICK e \in 1..b.userEpoch[u] : k = UserPointKey(u, e)
      BY <3>2
    <3>4. e \in 1..c.userEpoch[u]
      BY <1>1, <1>4
    <3> QED
      BY <3>3, <3>4
  <2> QED
    BY <2>1, <2>2
<1> QED
  BY <1>6, <1>7, <1>8 DEF Keyed

\* Every step, whatever keys the points have.
LEMMA NextChanges ==
    ASSUME EscrowInv, Keyed(book), [EscrowNext]_vars
    PROVE  /\ Keyed(book')
           /\ GoesOn(book, book')
           /\ \E given \in SUBSET Token : ChangesOnly(book, book', given)
<1> DEFINE Goal == /\ Keyed(book')
                   /\ GoesOn(book, book')
                   /\ \E given \in SUBSET Token : ChangesOnly(book, book', given)
<1>1. /\ now \in Nat /\ locked \in [Token -> Lock]
      /\ BookTypeOK(book) /\ book.points[book.epoch].ts <= now
      /\ book.epoch \in Nat
  BY EscrowInvFacts
<1>2. CASE PassesTime
  <2>1. book' = book
    BY <1>2 DEF PassesTime
  <2>2. GoesOn(book, book)
    BY <1>1 DEF GoesOn
  <2>3. ChangesOnly(book, book, {})
    BY DEF ChangesOnly
  <2> QED
    BY <2>1, <2>2, <2>3
<1>3. CASE CheckPoint
  <2>1. book' = GlobalCheckPoint(book, now, ZeroPoint(now), ZeroPoint(now))
    BY <1>3 DEF CheckPoint
  <2>2. /\ BookTypeOK(book')
        /\ book'.epoch > book.epoch
        /\ book'.userEpoch = book.userEpoch
        /\ book'.userPoints = book.userPoints
        /\ \A e \in 0..book.epoch : book'.points[e] = book.points[e]
        /\ \A e \in book.epoch..(book'.epoch - 1) :
              e > 0 => book'.points[e].ts <= book'.points[e + 1].ts
    BY <1>1, <2>1, GlobalCheckPointAppends
  <2>3. book'.epoch \in Nat
    BY <2>2 DEF BookTypeOK
  <2>4. Keyed(book')
    BY <2>2 DEF Keyed
  <2>5. GoesOn(book, book')
    BY <1>1, <2>2, <2>3 DEF GoesOn
  <2>6. ChangesOnly(book, book', {})
    BY <2>2 DEF ChangesOnly
  <2> QED
    BY <2>4, <2>5, <2>6
<1>4. ASSUME NEW t \in Token, NEW lock, Deposits(t, lock) PROVE Goal
  <2>1. lock \in Lock /\ locked[t] \in Lock /\ book' = CheckPointed(book, now, t, locked[t], lock)
    BY <1>1, <1>4 DEF Deposits
  <2>2. Keyed(book') /\ GoesOn(book, book') /\ ChangesOnly(book, book', {t})
    BY <1>1, <2>1, CheckPointedChanges
  <2> QED
    BY <2>2
<1>5. ASSUME NEW from \in Token, NEW to \in Token, NEW lock, Merges(from, to, lock)
      PROVE  Goal
  <2> DEFINE locks == [locked EXCEPT ![from] = NoLock]
             taken == CheckPointed(book, now, from, locked[from], NoLock)
  <2>1. /\ locks \in [Token -> Lock]
        /\ BookTypeOK(taken) /\ taken.points[taken.epoch].ts <= now
        /\ book' = CheckPointed(taken, now, to, locks[to], lock)
        /\ lock \in Lock
    BY <1>5, MergesBook
  <2>2. taken = CheckPointed(book, now, from, locked[from], NoLock)
    OBVIOUS
  <2>3. from # to
    BY <1>5 DEF Merges
  <2>4. locked[from] \in Lock /\ locks[to] \in Lock
    BY <1>1, <2>1
  <2> HIDE DEF locks, taken
  <2>5. Keyed(taken) /\ GoesOn(book, taken) /\ ChangesOnly(book, taken, {from})
    BY <1>1, <2>2, <2>4, NoLockType, CheckPointedChanges
  <2>6. Keyed(book') /\ GoesOn(taken, book') /\ ChangesOnly(taken, book', {to})
    BY <1>1, <2>1, <2>4, <2>5, CheckPointedChanges
  <2>7. BookTypeOK(book')
    BY <1>1, <2>1, <2>4, CheckPointedReaches
  <2>8. GoesOn(book, book')
    BY <1>1, <2>1, <2>5, <2>6, <2>7, GoesOnTransitive
  <2>9. /\ \A t \in Token : taken.userEpoch[t] = IF t = from THEN book.userEpoch[t] + 1
                                                 ELSE book.userEpoch[t]
        /\ \A t \in Token : book'.userEpoch[t] = IF t = to THEN taken.userEpoch[t] + 1
                                                 ELSE taken.userEpoch[t]
    BY <2>5, <2>6 DEF ChangesOnly
  <2>10. /\ \A t \in Token : book'.userEpoch[t] = IF t \in {from, to} THEN book.userEpoch[t] + 1
                                                  ELSE book.userEpoch[t]
         /\ book'.userEpoch[from] = taken.userEpoch[from]
    BY <2>3, <2>9
  <2>11. ASSUME NEW k \in DOMAIN book.userPoints
         PROVE  /\ k \in DOMAIN book'.userPoints
                /\ \/ book'.userPoints[k] = book.userPoints[k]
                   \/ \E t \in {from, to} : k = UserPointKey(t, book'.userEpoch[t])
    <3>1. /\ k \in DOMAIN taken.userPoints
          /\ taken.userPoints[k] = book.userPoints[k] \/ k = UserPointKey(from, taken.userEpoch[from])
      BY <2>5, <2>11 DEF ChangesOnly
    <3>2. /\ k \in DOMAIN book'.userPoints
          /\ book'.userPoints[k] = taken.userPoints[k] \/ k = UserPointKey(to, book'.userEpoch[to])
      BY <2>6, <3>1 DEF ChangesOnly
    <3> QED
      BY <2>10, <3>1, <3>2
  <2>12. ChangesOnly(book, book', {from, to})
    BY <2>10, <2>11 DEF ChangesOnly
  <2> QED
    BY <2>6, <2>8, <2>12
<1> QED
  BY <1>2, <1>3, <1>4, <1>5, StepCases

\* Whatever keys the points have, the global history is append-only and goes
\* forward in time, no user point disappears, and one changes only when a token
\* is given a point with the same key.
THEOREM HistoriesAppendUnlessKeysCollide ==
    EscrowSpec =>
      [][/\ GoesOn(book, book')
         /\ \A k \in DOMAIN book.userPoints :
              /\ k \in DOMAIN book'.userPoints
              /\ book'.userPoints[k] # book.userPoints[k] => Collides(book, book', k)]_vars
<1> DEFINE Appends ==
             /\ GoesOn(book, book')
             /\ \A k \in DOMAIN book.userPoints :
                  /\ k \in DOMAIN book'.userPoints
                  /\ book'.userPoints[k] # book.userPoints[k] => Collides(book, book', k)
<1>1. EscrowInit => Keyed(book)
  BY DEF EscrowInit, EmptyBook, Keyed, EmptyDict
<1>2. EscrowInv /\ Keyed(book) /\ [EscrowNext]_vars => Keyed(book)'
  BY NextChanges DEF Keyed
<1>3. EscrowSpec => [](EscrowInv /\ Keyed(book))
  BY InitEscrowInv, NextEscrowInv, <1>1, <1>2, PTL DEF EscrowSpec
<1>4. EscrowInv /\ Keyed(book) /\ [EscrowNext]_vars => Appends
  <2> SUFFICES ASSUME EscrowInv, Keyed(book), [EscrowNext]_vars PROVE Appends
    OBVIOUS
  <2>1. PICK given \in SUBSET Token : ChangesOnly(book, book', given)
    BY NextChanges
  <2>2. \A t \in Token : book.userEpoch[t] \in Nat
    BY EscrowInvFacts DEF BookTypeOK
  <2>3. ASSUME NEW k \in DOMAIN book.userPoints, book'.userPoints[k] # book.userPoints[k]
        PROVE  Collides(book, book', k)
    <3>1. PICK t \in given : k = UserPointKey(t, book'.userEpoch[t])
      BY <2>1, <2>3 DEF ChangesOnly
    <3>2. t \in Token /\ book'.userEpoch[t] = book.userEpoch[t] + 1
      BY <2>1, <3>1 DEF ChangesOnly
    <3>3. book'.userEpoch[t] > book.userEpoch[t]
      BY <2>2, <3>2
    <3>4. PICK u \in Token : \E e \in 1..book.userEpoch[u] : k = UserPointKey(u, e)
      BY <2>3 DEF Keyed
    <3> QED
      BY <3>1, <3>2, <3>3, <3>4 DEF Collides
  <2>4. GoesOn(book, book')
    BY NextChanges
  <2> QED
    BY <2>1, <2>3, <2>4 DEF ChangesOnly
<1>5. EscrowInv /\ Keyed(book) /\ [EscrowNext]_vars => [Appends]_vars
  BY <1>4
<1> HIDE DEF Appends
<1>6. EscrowSpec => [][Appends]_vars
  BY <1>3, <1>5, PTL DEF EscrowSpec
<1> QED
  BY <1>6 DEF Appends

-----------------------------------------------------------------------------
(* What all tokens weigh, as long as calls are in reach.                    *)

\* In reach, a token's point is never later than the last global one; and the
\* first global point is the constructor's.
ReachInv ==
    /\ Recorded(book, locked, book.points[book.epoch].ts)
    /\ book.points[0] = ZeroPoint(Start)

LEMMA InitReachInv == EscrowInit => ReachInv
BY EscrowAssumption DEF EscrowInit, EmptyBook, Recorded, EmptyDict, ReachInv

LEMMA NextReachInv ==
    ASSUME KeysUnique, EscrowInv, PowerInv, ReachInv, [EscrowNext]_vars,
           book' # book => InReach(book, now)
    PROVE  ReachInv'
<1> DEFINE at == book.points[book.epoch].ts
<1>1. /\ now \in Nat /\ at \in Nat /\ at <= now /\ book.epoch \in Nat
      /\ Recorded(book, locked, at) /\ book.epoch <= MaxEpoch
  BY EscrowInvFacts DEF ReachInv, PowerInv
<1> HIDE DEF at
<1>2. /\ Continues(book, book')
      /\ \/ book' = book /\ locked' = locked
         \/ now' = now /\ Recorded(book', locked', now)
  BY <1>1, NextRecorded
<1>3. book'.points[0] = ZeroPoint(Start)
  BY <1>1, <1>2 DEF ReachInv, Continues, GoesOn
<1>4. CASE book' = book /\ locked' = locked
  BY <1>3, <1>4 DEF ReachInv
<1>5. CASE ~(book' = book /\ locked' = locked)
  <2>1. book'.points[book'.epoch].ts = now
    BY <1>5, NextNow
  <2> QED
    BY <1>2, <1>3, <1>5, <2>1 DEF ReachInv
<1> QED
  BY <1>4, <1>5

\* The invariants of calls in reach, together.
SupplyInv == EscrowInv /\ PowerInv /\ GlobalInv /\ ReachInv

\* They hold in every reachable state, as long as no two points share a key.
THEOREM SupplyInvariant ==
    ASSUME KeysUnique
    PROVE  EscrowSpec /\ CallsInReach => []SupplyInv
<1>1. SupplyInv /\ [EscrowNext]_vars /\ [book' # book => InReach(book, now)]_vars
        => SupplyInv'
  <2> SUFFICES ASSUME SupplyInv, [EscrowNext]_vars,
                      [book' # book => InReach(book, now)]_vars
               PROVE  SupplyInv'
    OBVIOUS
  <2>1. book' # book => InReach(book, now)
    BY DEF vars
  <2>2. EscrowInv'
    BY NextEscrowInv DEF SupplyInv
  <2>3. PowerInv'
    BY <2>2, NextPowerInv DEF SupplyInv
  <2>4. GlobalInv'
    BY <2>1, NextGlobalInv DEF SupplyInv
  <2>5. ReachInv'
    BY <2>1, NextReachInv DEF SupplyInv
  <2> QED
    BY <2>2, <2>3, <2>4, <2>5 DEF SupplyInv
<1>2. EscrowInit => SupplyInv
  BY InitEscrowInv, InitPowerInv, InitGlobalInv, InitReachInv DEF SupplyInv
<1> QED
  BY <1>1, <1>2, PTL DEF EscrowSpec, CallsInReach

\* The rounds of _supply_at, as a table.
SupplyRow(w, point, at, i) ==
    IF i = 0 THEN point
    ELSE LET p == w[i - 1]
             t == RoundEnd(point.ts, i, at)
         IN  [bias  |-> p.bias - p.slope * (t - p.ts),
              slope |-> p.slope + RoundSlope(book.slopes, point.ts, i, at),
              ts    |-> p.ts + t]

IsSupplyTable(w, point, at) ==
    w = [i \in 0..(Rounds(point.ts, at) - 1) |-> SupplyRow(w, point, at, i)]

SupplyTable(point, at) == CHOOSE w : IsSupplyTable(w, point, at)

LEMMA SupplyIsOfTable ==
    ASSUME NEW point, NEW at,
           NEW n, n = Rounds(point.ts, at),
           NEW last, last = SupplyTable(point, at)[n - 1]
    PROVE  SupplyAt(point, at)
             = NonNeg(last.bias - last.slope * (RoundEnd(point.ts, n, at) - last.ts))
BY DEF SupplyAt, SupplyTable, IsSupplyTable, SupplyRow

\* Up to the end of the week after a point, one round suffices.
LEMMA OneRound ==
    ASSUME NEW from \in Nat, NEW at \in Nat, at <= FloorWeek(from) + Week
    PROVE  Rounds(from, at) = 1 /\ RoundEnd(from, 1, at) = at
<1> DEFINE x == at - FloorWeek(from) + Week - 1
           q == x \div Week
<1>1. FloorWeek(from) \in Nat /\ Week \in Nat /\ Week > 0
  BY FloorWeekFacts, EscrowAssumption
<1>2. x \in Int /\ x < 2 * Week
  BY <1>1
<1> HIDE DEF x
<1>3. q \in Int /\ q * Week <= x
  BY <1>1, <1>2
<1> HIDE DEF q
<1>4. q < 2
  <2> SUFFICES ASSUME q >= 2 PROVE FALSE
    BY <1>3
  <2>1. q - 2 \in Nat
    BY <1>3
  <2>2. (q - 2) * Week \in Nat
    BY <1>1, <2>1
  <2>3. q * Week = (q - 2) * Week + 2 * Week
    BY <1>1, <1>3
  <2> QED
    BY <1>1, <1>2, <1>3, <2>2, <2>3
<1>5. Rounds(from, at) = IF q < 1 THEN 1
                         ELSE IF q > MaxIterations THEN MaxIterations ELSE q
  BY DEF Rounds, q, x
<1>6. MaxIterations \in Nat /\ MaxIterations >= 1
  BY EscrowAssumption
<1>7. Rounds(from, at) = 1
  BY <1>3, <1>4, <1>5, <1>6
<1>8. RoundEnd(from, 1, at) = IF FloorWeek(from) + 1 * Week > at THEN at
                              ELSE FloorWeek(from) + 1 * Week
  BY DEF RoundEnd
<1>9. 1 * Week = Week
  BY <1>1
<1>10. RoundEnd(from, 1, at) = at
  BY <1>1, <1>8, <1>9
<1> QED
  BY <1>7, <1>10

\* Then _supply_at extends the point it is given, forwards or backwards.
LEMMA SupplyExtendsPoint ==
    ASSUME NEW point, point.ts \in Nat, NEW at \in Nat,
           at <= FloorWeek(point.ts) + Week
    PROVE  SupplyAt(point, at) = NonNeg(point.bias - point.slope * (at - point.ts))
<1> DEFINE g == [i \in 0..0 |-> point]
           w == SupplyTable(point, at)
<1>1. Rounds(point.ts, at) = 1 /\ RoundEnd(point.ts, 1, at) = at
  BY OneRound
<1>2. 0..(Rounds(point.ts, at) - 1) = 0..0 /\ Rounds(point.ts, at) - 1 = 0
  BY <1>1
<1>3. IsSupplyTable(g, point, at)
  <2>1. \A i \in 0..0 : SupplyRow(g, point, at, i) = point
    BY DEF SupplyRow
  <2> QED
    BY <1>2, <2>1 DEF IsSupplyTable
<1> HIDE DEF g
<1>4. \E k : IsSupplyTable(k, point, at)
  BY <1>3
<1>5. IsSupplyTable(w, point, at)
  BY ONLY <1>4, Zenon DEF SupplyTable
<1>6. w[0] = point
  <2> HIDE DEF w
  <2>1. w = [i \in 0..0 |-> SupplyRow(w, point, at, i)]
    BY <1>2, <1>5 DEF IsSupplyTable
  <2>2. w[0] = SupplyRow(w, point, at, 0)
    BY <2>1
  <2> QED
    BY <2>2 DEF SupplyRow
<1> QED
  BY <1>1, <1>2, <1>6, SupplyIsOfTable

\* The last point is the sum of what the locks weigh at its time, the one of
\* the constructor too.
LEMMA LastIsSum ==
    ASSUME SupplyInv, NEW p, p = book.points[book.epoch]
    PROVE  /\ p.ts \in Nat /\ p.ts <= now
           /\ IsSumOf(p, locked, p.ts)
           /\ locked \in [Token -> Lock]
           /\ \A t \in Token : locked[t].end % Week = 0
<1>1. /\ now \in Nat /\ p.ts \in Nat /\ p.ts <= now /\ book.epoch \in Nat
      /\ locked \in [Token -> Lock]
      /\ \A t \in Token : locked[t].end % Week = 0
  BY EscrowInvFacts DEF SupplyInv
<1>2. CASE book.epoch > 0
  BY <1>1, <1>2 DEF SupplyInv, GlobalInv, Summed, LastPoint
<1>3. CASE book.epoch = 0
  <2> DEFINE s == SlopesAt(locked, p.ts)
             b == BiasesAt(locked, p.ts)
  <2>1. p = ZeroPoint(Start)
    BY <1>3 DEF SupplyInv, ReachInv
  <2>2. p.bias = 0 /\ p.slope = 0
    BY <2>1 DEF ZeroPoint
  <2>3. \A t \in Token : locked[t].end = 0
    BY <1>3, NoLockType DEF SupplyInv, GlobalInv, Summed
  <2>4. \A t \in Token : s[t] = 0 /\ b[t] = 0
    BY <1>1, <2>3 DEF SlopesAt, BiasesAt
  <2> HIDE DEF s, b
  <2>5. SumFunctionOnSet(s, Token) = 0 /\ SumFunctionOnSet(b, Token) = 0
    BY <2>4, SumOfZeros
  <2> QED
    BY <1>1, <2>2, <2>5 DEF IsSumOf, s, b
<1> QED
  BY <1>1, <1>2, <1>3

\* What the locks that outlasted time ts weigh at time at, or would have weighed.
LiveWeights(locks, ts, at) ==
    [t \in Token |-> IF locks[t].end > ts
                     THEN SlopeOf(locks[t]) * (locks[t].end - at) ELSE 0]

\* A point that is their sum, extended to time at, is the sum of that.
LEMMA ExtendedIsSum ==
    ASSUME NEW locks \in [Token -> Lock], NEW ts \in Nat, NEW at \in Nat,
           NEW p, IsSumOf(p, locks, ts),
           \A t \in Token : locks[t].end > ts => locks[t].end >= at
    PROVE  NonNeg(p.bias - p.slope * (at - ts))
             = SumFunctionOnSet(LiveWeights(locks, ts, at), Token)
<1> DEFINE c == ts - at
           s == SlopesAt(locks, ts)
           b == BiasesAt(locks, ts)
           h == LiveWeights(locks, ts, at)
<1>1. c \in Int
  OBVIOUS
<1>2. ASSUME NEW t \in Token
      PROVE  /\ b[t] \in Nat /\ s[t] \in Nat
             /\ h[t] = b[t] + c * s[t]
             /\ h[t] \in Nat
  <2> DEFINE r == SlopeOf(locks[t])
             end == locks[t].end
  <2>1. r \in Nat /\ end \in Nat
    BY SlopeFacts
  <2>2. b[t] \in Nat /\ s[t] \in Nat
    BY WeightsType
  <2>3. /\ b[t] = IF end > ts THEN r * (end - ts) ELSE 0
        /\ s[t] = IF end > ts THEN r ELSE 0
        /\ h[t] = IF end > ts THEN r * (end - at) ELSE 0
    BY DEF BiasesAt, SlopesAt, LiveWeights
  <2>4. end > ts => end >= at
    OBVIOUS
  <2>5. c * s[t] = IF end > ts THEN (ts - at) * r ELSE 0
    BY <2>1, <2>3
  <2> HIDE DEF r, end, b, s, h, c
  <2>6. r * (end - at) = r * (end - ts) + (ts - at) * r
    BY <2>1
  <2>7. h[t] = b[t] + c * s[t]
    BY <2>1, <2>3, <2>5, <2>6
  <2>8. end > ts => r * (end - at) \in Nat
    <3> SUFFICES ASSUME end > ts PROVE r * (end - at) \in Nat
      OBVIOUS
    <3>1. end - at \in Nat
      BY <2>1, <2>4
    <3> QED
      BY <2>1, <3>1
  <2>9. h[t] \in Nat
    BY <2>3, <2>8
  <2> QED
    BY <2>2, <2>7, <2>9
<1>3. p.slope = SumFunctionOnSet(s, Token) /\ p.bias = SumFunctionOnSet(b, Token)
  BY DEF IsSumOf
<1>4. p.slope \in Nat /\ p.bias \in Nat
  BY <1>3, WeightSumsType
<1> HIDE DEF s, b, h
<1>5. SumFunctionOnSet(h, Token) \in Nat
  BY <1>2, TokenFinite, SumIsNat
<1>6. SumFunctionOnSet(h, Token) = SumFunctionOnSet(b, Token) + c * SumFunctionOnSet(s, Token)
  <2>1. \A t \in Token : b[t] \in Int /\ s[t] \in Int /\ h[t] = b[t] + c * s[t]
    BY <1>2
  <2> HIDE DEF c
  <2> QED
    BY <1>1, <2>1, TokenFinite, SumLinear
<1>7. SumFunctionOnSet(h, Token) = p.bias - p.slope * (at - ts)
  <2>1. c * p.slope = 0 - p.slope * (at - ts)
    BY <1>4
  <2>2. SumFunctionOnSet(h, Token) = p.bias + c * p.slope
    BY <1>3, <1>6
  <2>3. p.slope * (at - ts) \in Int
    BY <1>4
  <2> HIDE DEF c
  <2> QED
    BY <1>4, <2>1, <2>2, <2>3
<1> QED
  BY <1>5, <1>7 DEF NonNeg, h

\* A lock that outlasts a time outlasts the week of that time.
LEMMA LiveThroughWeek ==
    ASSUME NEW lock \in Lock, lock.end % Week = 0, NEW ts \in Nat, lock.end > ts
    PROVE  lock.end >= FloorWeek(ts) + Week
<1>1. FloorWeek(ts) \in Nat /\ FloorWeek(ts) <= ts /\ Week \in Nat /\ lock.end \in Nat
  BY FloorWeekFacts, SlopeFacts, EscrowAssumption
<1>2. 0 * Week = 0 /\ (0 + 1) * Week = Week
  BY <1>1
<1>3. lock.end > FloorWeek(ts) + 0 * Week
  BY <1>1, <1>2
<1>4. lock.end >= FloorWeek(ts) + (0 + 1) * Week
  <2>1. 0 \in Nat
    OBVIOUS
  <2> QED
    BY <1>1, <1>3, <2>1, NextWeek
<1> QED
  BY <1>2, <1>4

\* What balance_of_nft reads of a token is a point of its lock, of no later
\* than the last global point.
LEMMA BalanceReadsPoint ==
    ASSUME NEW at \in Nat, BookTypeOK(book), Recorded(book, locked, at),
           NEW t \in Token, book.userEpoch[t] # 0
    PROVE  \E ts \in 0..at :
              GetUserPoint(t, book.userEpoch[t]) = UserPoint(locked[t], ts)
<1> DEFINE k == UserPointKey(t, book.userEpoch[t])
<1>1. /\ k \in DOMAIN book.userPoints
      /\ \E ts \in 0..at : book.userPoints[k] = UserPoint(locked[t], ts)
  BY DEF Recorded
<1>2. GetUserPoint(t, book.userEpoch[t]) = book.userPoints[k]
  BY <1>1 DEF GetUserPoint, DictGetOr
<1> QED
  BY <1>1, <1>2

\* The power of a token at or after the last global point.
LEMMA BalanceFacts ==
    ASSUME SupplyInv, NEW p, p = book.points[book.epoch], NEW t \in Token,
           NEW at \in Nat, p.ts <= at
    PROVE  BalanceOfNFT(t, at) = Slope(t) * NonNeg(locked[t].end - at)
<1>1. /\ p.ts \in Nat /\ locked[t] \in Lock
      /\ BookTypeOK(book) /\ Recorded(book, locked, p.ts)
      /\ locked[t].end \in Nat
  <2>1. p.ts \in Nat /\ locked[t] \in Lock
    BY LastIsSum
  <2>2. BookTypeOK(book) /\ Recorded(book, locked, p.ts)
    BY EscrowInvFacts DEF SupplyInv, ReachInv
  <2> QED
    BY <2>1, <2>2, SlopeFacts
<1>2. CASE book.userEpoch[t] = 0
  <2>1. locked[t] = NoLock
    BY <1>1, <1>2 DEF Recorded
  <2>2. Slope(t) = 0 /\ locked[t].end = 0
    BY <2>1, EscrowAssumption DEF Slope, NoLock
  <2>3. NonNeg(locked[t].end - at) \in Int
    BY <1>1 DEF NonNeg
  <2>4. Slope(t) * NonNeg(locked[t].end - at) = 0
    BY <2>2, <2>3
  <2>5. BalanceOfNFT(t, at) = 0
    BY <1>2 DEF BalanceOfNFT
  <2> QED
    BY <2>4, <2>5
<1>3. CASE book.userEpoch[t] # 0
  <2>1. PICK ts \in 0..p.ts : GetUserPoint(t, book.userEpoch[t]) = UserPoint(locked[t], ts)
    BY <1>1, <1>3, BalanceReadsPoint
  <2> DEFINE u == UserPoint(locked[t], ts)
  <2>2. BalanceOfNFT(t, at) = NonNeg(u.bias - u.slope * (at - u.ts))
    BY <1>3, <2>1 DEF BalanceOfNFT
  <2>3. ts \in Nat /\ ts <= at
    BY <1>1
  <2>4. NonNeg(u.bias - u.slope * (at - u.ts))
          = (locked[t].amount \div MaxTime) * NonNeg(locked[t].end - at)
    BY <1>1, <2>3, PointWeighsLock
  <2> QED
    BY <2>2, <2>4 DEF Slope
<1> QED
  BY <1>2, <1>3

\* Until the end of the week of the last point, the weights of the locks that
\* outlasted it are the powers of all tokens.
LEMMA WeightsAreLinear ==
    ASSUME SupplyInv, NEW p, p = book.points[book.epoch],
           NEW at \in Nat, p.ts <= at, at <= FloorWeek(p.ts) + Week
    PROVE  /\ SumFunctionOnSet(LiveWeights(locked, p.ts, at), Token)
                = SumFunctionOnSet([t \in Token |-> Slope(t) * NonNeg(locked[t].end - at)], Token)
           /\ SupplyAt(p, at) = SumFunctionOnSet(LiveWeights(locked, p.ts, at), Token)
<1> DEFINE f == LiveWeights(locked, p.ts, at)
           g == [t \in Token |-> Slope(t) * NonNeg(locked[t].end - at)]
<1>1. /\ p.ts \in Nat /\ IsSumOf(p, locked, p.ts) /\ locked \in [Token -> Lock]
      /\ \A t \in Token : locked[t].end % Week = 0
  BY LastIsSum
<1>2. ASSUME NEW t \in Token
      PROVE  /\ locked[t].end > p.ts => locked[t].end >= at
             /\ f[t] = g[t]
  <2>1. locked[t] \in Lock /\ locked[t].end \in Nat /\ SlopeOf(locked[t]) \in Nat
    BY <1>1, SlopeFacts
  <2>2. Slope(t) = SlopeOf(locked[t])
    BY DEF Slope, SlopeOf
  <2>3. FloorWeek(p.ts) \in Nat /\ Week \in Nat
    BY <1>1, FloorWeekFacts, EscrowAssumption
  <2>4. locked[t].end > p.ts => locked[t].end >= at
    <3> SUFFICES ASSUME locked[t].end > p.ts PROVE locked[t].end >= at
      OBVIOUS
    <3>1. locked[t].end >= FloorWeek(p.ts) + Week
      BY <1>1, <2>1, LiveThroughWeek
    <3> QED
      BY <2>1, <2>3, <3>1
  <2>5. f[t] = IF locked[t].end > p.ts THEN SlopeOf(locked[t]) * (locked[t].end - at) ELSE 0
    BY DEF LiveWeights
  <2>6. g[t] = Slope(t) * NonNeg(locked[t].end - at)
    OBVIOUS
  <2> HIDE DEF f, g
  <2>7. CASE locked[t].end > p.ts
    <3>1. NonNeg(locked[t].end - at) = locked[t].end - at
      BY <2>1, <2>4, <2>7 DEF NonNeg
    <3> QED
      BY <2>2, <2>4, <2>5, <2>6, <2>7, <3>1
  <2>8. CASE ~(locked[t].end > p.ts)
    <3>1. NonNeg(locked[t].end - at) = 0
      BY <1>1, <2>1, <2>8 DEF NonNeg
    <3>2. Slope(t) * 0 = 0
      BY <2>1, <2>2
    <3> QED
      BY <2>5, <2>6, <2>8, <3>1, <3>2
  <2> QED
    BY <2>7, <2>8
<1>3. SupplyAt(p, at) = NonNeg(p.bias - p.slope * (at - p.ts))
  BY <1>1, SupplyExtendsPoint
<1>4. NonNeg(p.bias - p.slope * (at - p.ts)) = SumFunctionOnSet(f, Token)
  BY <1>1, <1>2, ExtendedIsSum
<1>5. \A t \in Token : f[t] = g[t]
  BY <1>2
<1> HIDE DEF f, g
<1>6. SumFunctionOnSet(f, Token) = SumFunctionOnSet(g, Token)
  BY <1>5, TokenFinite, SumSame
<1> QED
  BY <1>3, <1>4, <1>6 DEF f, g

\* As long as calls are in reach and no two user points share a key,
\* ve_total_supply is the sum of the powers of all tokens until the first week
\* boundary after the last checkpoint.
THEOREM SupplyOfEveryToken ==
    ASSUME KeysUnique
    PROVE  EscrowSpec /\ CallsInReach => []SupplyIsSumWithinWeek
<1>1. SupplyInv => SupplyIsSumWithinWeek
  <2> DEFINE p == book.points[book.epoch]
             f == BalancesAt(now)
             g == [t \in Token |-> Slope(t) * NonNeg(locked[t].end - now)]
  <2> SUFFICES ASSUME SupplyInv, now <= FloorWeek(p.ts) + Week
               PROVE  TotalSupplyAt(now) = SumFunctionOnSet(f, Token)
    BY DEF SupplyIsSumWithinWeek
  <2>1. now \in Nat /\ p.ts <= now
    BY EscrowInvFacts DEF SupplyInv
  <2>2. TotalSupplyAt(now) = SumFunctionOnSet(g, Token)
    BY <2>1, WeightsAreLinear DEF TotalSupplyAt
  <2>3. \A t \in Token : f[t] = g[t]
    BY <2>1, BalanceFacts DEF BalancesAt
  <2> HIDE DEF f, g
  <2>4. SumFunctionOnSet(f, Token) = SumFunctionOnSet(g, Token)
    BY <2>3, TokenFinite, SumSame
  <2> QED
    BY <2>2, <2>4
<1> QED
  BY <1>1, SupplyInvariant, PTL

-----------------------------------------------------------------------------
(* The views by block.                                                      *)

\* The epochs are few enough for the rounds of the search, as all numbers of 64
\* bits are.
EpochsAreSearched == MaxEpoch < Pow2[MaxRounds]

\* 2 to the number of rounds is a number.
LEMMA Pow2OfRoundsType == Pow2[MaxRounds] \in Nat
<1>1. 127 \in Nat /\ 127 < MaxRounds /\ MaxRounds = 127 + 1
  BY DEF MaxRounds
<1>2. Pow2[127] \in Nat /\ Pow2[127 + 1] = 2 * Pow2[127]
  BY <1>1, Pow2Facts
<1> QED
  BY <1>1, <1>2

\* Three digits are.
LEMMA ThreeDigitsAreSearched ==
    ASSUME MaxEpoch <= 999
    PROVE  EpochsAreSearched
<1> DEFINE p == Pow2[MaxRounds]
<1>1. p \in Nat /\ p > 999
  BY Pow2OfRounds, Pow2OfRoundsType
<1> HIDE DEF p
<1>2. MaxEpoch < p
  BY <1>1, EscrowAssumption
<1> QED
  BY <1>2 DEF p, EpochsAreSearched

\* In a history that is ascending the search finds the last entry where none is
\* above x, and the first where all the others are.
LEMMA FindsEnds ==
    ASSUME NEW n \in Nat, n < Pow2[MaxRounds],
           NEW h \in [0..n -> Int], Ascending(h), NEW x \in Int
    PROVE  /\ (\A i \in 0..n : h[i] <= x) => FindBlockEpoch(h, x, n) = n
           /\ (\A i \in 1..n : h[i] > x) => FindBlockEpoch(h, x, n) = 0
<1> DEFINE e == FindBlockEpoch(h, x, n)
<1>1. IsLastNotAbove(h, x, e)
  BY FindBlockEpochFinds
<1> HIDE DEF e
<1>2. e \in 0..n /\ (e = 0 \/ h[e] <= x) /\ \A i \in 0..n : i > e => h[i] > x
  BY <1>1 DEF IsLastNotAbove
<1>3. ASSUME \A i \in 0..n : h[i] <= x PROVE e = n
  BY <1>2, <1>3
<1>4. ASSUME \A i \in 1..n : h[i] > x PROVE e = 0
  BY <1>2, <1>4
<1> QED
  BY <1>3, <1>4 DEF e

\* The searches of the two views.
LEMMA BlockSearches ==
    ASSUME SupplyInv, EpochsAreSearched
    PROVE  /\ FindBlockEpoch(GlobalBlk, CurrentBlock, book.epoch) = book.epoch
           /\ FindBlockEpoch(GlobalBlk, CurrentBlock - 1, book.epoch) = 0
           /\ \A t \in Token :
                /\ FindBlockEpoch(UserBlk(t), CurrentBlock, book.userEpoch[t])
                     = book.userEpoch[t]
                /\ FindBlockEpoch(UserBlk(t), CurrentBlock - 1, book.userEpoch[t]) = 0
<1>1. /\ book.epoch \in Nat /\ book.epoch < Pow2[MaxRounds]
      /\ \A t \in Token : book.userEpoch[t] \in Nat /\ book.userEpoch[t] < Pow2[MaxRounds]
  <2>1. BookTypeOK(book) /\ Recorded(book, locked, now) /\ book.epoch <= MaxEpoch
    BY EscrowInvFacts DEF SupplyInv, PowerInv
  <2>2. book.epoch \in Nat /\ \A t \in Token : book.userEpoch[t] \in Nat
    BY <2>1 DEF BookTypeOK
  <2> DEFINE p == Pow2[MaxRounds]
  <2>3. p \in Nat /\ MaxEpoch < p /\ MaxEpoch \in Nat
    BY Pow2OfRoundsType, EscrowAssumption DEF EpochsAreSearched
  <2>4. \A t \in Token : book.userEpoch[t] <= book.epoch
    BY <2>1 DEF Recorded
  <2> HIDE DEF p
  <2>5. book.epoch < p /\ \A t \in Token : book.userEpoch[t] < p
    BY <2>1, <2>2, <2>3, <2>4
  <2> QED
    BY <2>2, <2>5 DEF p
<1>2. /\ FindBlockEpoch(GlobalBlk, CurrentBlock, book.epoch) = book.epoch
      /\ FindBlockEpoch(GlobalBlk, CurrentBlock - 1, book.epoch) = 0
  <2> DEFINE h == GlobalBlk
             n == book.epoch
  <2>1. h \in [0..n -> Int] /\ \A i \in 0..n : h[i] = 100
    BY DEF GlobalBlk, CurrentBlock
  <2> HIDE DEF h
  <2>2. Ascending(h)
    BY <2>1 DEF Ascending
  <2>3. n \in Nat /\ n < Pow2[MaxRounds]
    BY <1>1
  <2> HIDE DEF n
  <2>4. FindBlockEpoch(h, 100, n) = n
    BY <2>1, <2>2, <2>3, FindsEnds
  <2>5. FindBlockEpoch(h, 99, n) = 0
    BY <2>1, <2>2, <2>3, FindsEnds
  <2> QED
    BY <2>4, <2>5 DEF h, n, CurrentBlock
<1>3. ASSUME NEW t \in Token
      PROVE  /\ FindBlockEpoch(UserBlk(t), CurrentBlock, book.userEpoch[t]) = book.userEpoch[t]
             /\ FindBlockEpoch(UserBlk(t), CurrentBlock - 1, book.userEpoch[t]) = 0
  <2> DEFINE h == UserBlk(t)
             n == book.userEpoch[t]
  <2>1. h \in [0..n -> Int] /\ \A i \in 0..n : h[i] = IF i = 0 THEN 0 ELSE 100
    BY DEF UserBlk, CurrentBlock
  <2>2. n \in Nat /\ n < Pow2[MaxRounds]
    BY <1>1
  <2> HIDE DEF h, n
  <2>3. Ascending(h)
    BY <2>1, <2>2 DEF Ascending
  <2>4. FindBlockEpoch(h, 100, n) = n
    BY <2>1, <2>2, <2>3, FindsEnds
  <2>5. FindBlockEpoch(h, 99, n) = 0
    BY <2>1, <2>2, <2>3, FindsEnds
  <2> QED
    BY <2>4, <2>5 DEF h, n, CurrentBlock
<1> QED
  BY <1>2, <1>3

\* A token's entry 0 is in no dictionary: it reads as the default point.
LEMMA NoPointZero ==
    ASSUME KeysUnique, SupplyInv, NEW t \in Token
    PROVE  GetUserPoint(t, 0) = ZeroPoint(0)
<1>1. BookTypeOK(book) /\ Recorded(book, locked, now) /\ book.epoch <= MaxEpoch
  BY EscrowInvFacts DEF SupplyInv, PowerInv
<1>2. ASSUME UserPointKey(t, 0) \in DOMAIN book.userPoints PROVE FALSE
  <2>1. PICK u \in Token : \E e \in 1..book.userEpoch[u] : UserPointKey(t, 0) = UserPointKey(u, e)
    BY <1>1, <1>2 DEF Recorded
  <2>2. PICK e \in 1..book.userEpoch[u] : UserPointKey(t, 0) = UserPointKey(u, e)
    BY <2>1
  <2>3. /\ book.userEpoch[u] \in Nat /\ book.userEpoch[u] <= book.epoch
        /\ book.epoch \in Nat /\ book.epoch <= MaxEpoch /\ MaxEpoch \in Nat
    BY <1>1, EscrowAssumption DEF Recorded, BookTypeOK
  <2>4. e \in UserEpochs /\ 0 \in UserEpochs /\ e # 0
    BY <2>3 DEF UserEpochs
  <2> QED
    BY <2>2, <2>4 DEF KeysUnique
<1> QED
  BY <1>2 DEF GetUserPoint, DictGetOr

\* Every point has the same block, so no time is interpolated.
LEMMA NoTimeAfter ==
    ASSUME SupplyInv, NEW e, e = 0 \/ e = book.epoch, NEW block
    PROVE  TimeAfter(e, block) = 0
<1>1. book.epoch \in Nat
  BY EscrowInvFacts DEF SupplyInv
<1>2. GlobalBlk[e] = 100 /\ (e # book.epoch => GlobalBlk[e + 1] = 100)
  BY <1>1 DEF GlobalBlk, CurrentBlock
<1> QED
  BY <1>2 DEF TimeAfter, Interpolated, CurrentBlock

\* As long as calls are in reach and no two user points share a key, what
\* balance_of_at_nft says of the tokens adds up to what total_supply_at says,
\* for the present block and for one before it.
THEOREM BlockViewsAddUp ==
    ASSUME KeysUnique, EpochsAreSearched
    PROVE  EscrowSpec /\ CallsInReach => []BlockViewsAgree
<1>1. SupplyInv => BlockViewsAgree
  <2> SUFFICES ASSUME SupplyInv, NEW block \in {CurrentBlock - 1, CurrentBlock}
               PROVE  TotalSupplyAtBlock(block) =
                        SumFunctionOnSet([t \in Token |-> BalanceOfAtNFT(t, block)], Token)
    BY DEF BlockViewsAgree
  <2> DEFINE p == book.points[book.epoch]
             f == [t \in Token |-> BalanceOfAtNFT(t, block)]
  <2>1. p.ts \in Nat
    BY LastIsSum
  <2>2. CASE block = CurrentBlock
    <3> DEFINE g == [t \in Token |-> Slope(t) * NonNeg(locked[t].end - p.ts)]
    <3>1. p.ts + TimeAfter(book.epoch, block) = p.ts
      BY <2>1, NoTimeAfter
    <3>2. TotalSupplyAtBlock(block) = SupplyAt(p, p.ts)
      BY <2>2, <3>1, BlockSearches DEF TotalSupplyAtBlock
    <3>3. SupplyAt(p, p.ts) = SumFunctionOnSet(g, Token)
      <4>1. p.ts <= p.ts /\ p.ts <= FloorWeek(p.ts) + Week
        <5> DEFINE now1 == p.ts
                   floor == FloorWeek(now1)
        <5>1. now1 \in Nat /\ Week \in Nat
          BY <2>1, EscrowAssumption
        <5>2. floor \in Nat /\ now1 < floor + Week
          BY <5>1, FloorWeekFacts
        <5> HIDE DEF floor, now1
        <5>3. now1 <= now1 /\ now1 <= floor + Week
          BY <5>1, <5>2
        <5> QED
          BY <5>3 DEF floor, now1
      <4> QED
        BY <2>1, <4>1, WeightsAreLinear
    <3>4. ASSUME NEW t \in Token PROVE f[t] = g[t]
      <4> DEFINE u == GetUserPoint(t, book.userEpoch[t])
      <4>1. BalanceOfAtNFT(t, block) = NonNeg(u.bias - u.slope * (p.ts - u.ts))
        BY <2>2, <3>1, BlockSearches DEF BalanceOfAtNFT
      <4>2. BalanceOfNFT(t, p.ts) = Slope(t) * NonNeg(locked[t].end - p.ts)
        BY <2>1, BalanceFacts
      <4>3. BalanceOfAtNFT(t, block) = BalanceOfNFT(t, p.ts)
        <5>1. CASE book.userEpoch[t] # 0
          BY <4>1, <5>1 DEF BalanceOfNFT
        <5>2. CASE book.userEpoch[t] = 0
          <6>1. u = ZeroPoint(0)
            BY <5>2, NoPointZero
          <6>2. u.bias = 0 /\ u.slope = 0 /\ u.ts = 0
            BY <6>1 DEF ZeroPoint
          <6> HIDE DEF u
          <6>3. NonNeg(u.bias - u.slope * (p.ts - u.ts)) = 0
            BY <2>1, <6>2 DEF NonNeg
          <6> QED
            BY <4>1, <5>2, <6>3 DEF BalanceOfNFT
        <5> QED
          BY <5>1, <5>2
      <4> QED
        BY <4>2, <4>3
    <3> HIDE DEF f, g
    <3>5. SumFunctionOnSet(f, Token) = SumFunctionOnSet(g, Token)
      BY <3>4, TokenFinite, SumSame
    <3> QED
      BY <3>2, <3>3, <3>5 DEF f
  <2>3. CASE block = CurrentBlock - 1
    <3> DEFINE first == book.points[0]
    <3>1. first.bias = 0 /\ first.slope = 0 /\ first.ts = Start /\ Start \in Nat
      BY EscrowAssumption DEF SupplyInv, ReachInv, ZeroPoint
    <3> HIDE DEF first
    <3>2. first.ts + TimeAfter(0, block) = first.ts
      BY <3>1, NoTimeAfter
    <3>3. TotalSupplyAtBlock(block) = SupplyAt(first, first.ts)
      BY <2>3, <3>2, BlockSearches DEF TotalSupplyAtBlock, first
    <3>4. SupplyAt(first, first.ts) = 0
      <4>1. first.ts <= FloorWeek(first.ts) + Week /\ first.ts \in Nat
        BY <3>1, FloorWeekFacts, EscrowAssumption
      <4>2. SupplyAt(first, first.ts) = NonNeg(first.bias - first.slope * (first.ts - first.ts))
        BY <4>1, SupplyExtendsPoint
      <4> QED
        BY <3>1, <4>2 DEF NonNeg
    <3>5. ASSUME NEW t \in Token PROVE f[t] = 0
      <4> DEFINE u == GetUserPoint(t, 0)
      <4>1. u.bias = 0 /\ u.slope = 0 /\ u.ts = 0
        BY NoPointZero DEF ZeroPoint
      <4>2. BalanceOfAtNFT(t, block) = NonNeg(u.bias - u.slope * (first.ts - u.ts))
        BY <2>3, <3>2, BlockSearches DEF BalanceOfAtNFT, first
      <4> HIDE DEF u
      <4>3. NonNeg(u.bias - u.slope * (first.ts - u.ts)) = 0
        BY <3>1, <4>1 DEF NonNeg
      <4> QED
        BY <4>2, <4>3
    <3> HIDE DEF f
    <3>6. SumFunctionOnSet(f, Token) = 0
      BY <3>5, SumOfZeros
    <3> QED
      BY <3>3, <3>4, <3>6 DEF f
  <2> QED
    BY <2>2, <2>3
<1> QED
  BY <1>1, SupplyInvariant, PTL

\* So for a clock as long as the loop over weeks (255 of them, almost five years)
\* nothing has to be assumed of the calls, and for ids of one digit (and epochs
\* of three) nothing of the keys: the global point and the views of the total
\* are the sums they should be, in every reachable state.
THEOREM SumsOfShortClock ==
    ASSUME Horizon <= FloorWeek(Start) + Week * MaxIterations,
           MaxToken <= 9, MaxEpoch <= 999
    PROVE  EscrowSpec => [](/\ GlobalIsSum
                            /\ SupplyIsSumWithinWeek
                            /\ BlockViewsAgree)
<1>1. EscrowSpec => CallsInReach
  BY ShortClockReaches
<1>2. KeysUnique /\ EpochsAreSearched
  BY OneDigitKeys, ThreeDigitsAreSearched
<1> QED
  BY <1>1, <1>2, GlobalPointIsSum, SupplyOfEveryToken, BlockViewsAddUp, PTL
=============================================================================
