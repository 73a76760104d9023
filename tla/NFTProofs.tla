----------------------------- MODULE NFTProofs ------------------------------
(***************************************************************************)
(* Proofs about the ledger: its types, the agreement of the enumeration     *)
(* with the owners, the supply, and what a step may never do.               *)
(***************************************************************************)
EXTENDS NFTRefinement, FiniteSetTheorems, TLAPS

\* Setting a value in a dictionary keeps its type.
LEMMA DictSetType ==
    ASSUME NEW d, NEW K, NEW W, IsDict(d, K, W), NEW x \in K, NEW w \in W
    PROVE  IsDict(DictSet(d, x, w), K, W)
BY DEF IsDict, DictSet

\* And so does removing one.
LEMMA DictRemoveType ==
    ASSUME NEW d, NEW K, NEW W, IsDict(d, K, W), NEW x
    PROVE  IsDict(DictRemove(d, x), K, W)
BY DEF IsDict, DictRemove

\* Giving an unowned token to k, in Owners and in OwnedTokens, keeps the two in
\* agreement (mint, and the second half of a transfer).
LEMMA SetTokenEnumerates ==
    ASSUME NEW o, NEW own, NEW k \in Key, NEW t \in Token,
           OwnedTypeOK(o), IsDict(own, Token, Key), Enumerates(o, own),
           t \notin DOMAIN own
    PROVE  /\ OwnedTypeOK(SetToken(o, k, t))
           /\ IsDict(DictSet(own, t, k), Token, Key)
           /\ Enumerates(SetToken(o, k, t), DictSet(own, t, k))
<1> DEFINE n == o.balances[k]
           p == SetToken(o, k, t)
           to == DictSet(own, t, k)
<1>1. n \in Nat /\ <<k, n>> \notin DOMAIN o.tokens /\ <<k, t>> \notin DOMAIN o.indexes
  <2>1. n \in Nat
    BY DEF OwnedTypeOK
  <2>2. <<k, n>> \notin DOMAIN o.tokens
    <3>1. <<k, n>> \in DOMAIN o.tokens => <<k, n>>[2] < o.balances[<<k, n>>[1]]
      BY DEF Enumerates, SlotsAreOwnedTokens
    <3> QED
      BY <2>1, <3>1
  <2>3. <<k, t>> \notin DOMAIN o.indexes
    BY DEF Enumerates, IndexesAreOwnedTokens
  <2> QED
    BY <2>1, <2>2, <2>3
<1>2. /\ p.indexes = DictSet(o.indexes, <<k, t>>, n)
      /\ p.tokens = DictSet(o.tokens, <<k, n>>, t)
      /\ p.balances = [o.balances EXCEPT ![k] = n + 1]
  BY DEF SetToken
<1>3. OwnedTypeOK(p)
  BY <1>1, <1>2 DEF OwnedTypeOK, IsDict, DictSet
<1>4. IsDict(to, Token, Key)
  BY DEF IsDict, DictSet
<1>5. IndexesAreOwnedTokens(p, to)
  BY <1>1, <1>2 DEF Enumerates, IndexesAreOwnedTokens, IsDict, DictSet
<1>6. IndexesPointBack(p, to)
  <2> SUFFICES ASSUME NEW u \in DOMAIN to
               PROVE  LET index == p.indexes[<<to[u], u>>]
                      IN  /\ index < p.balances[to[u]]
                          /\ p.tokens[<<to[u], index>>] = u
    BY DEF IndexesPointBack
  <2>1. CASE u = t
    <3>1. to[u] = k /\ p.indexes[<<k, t>>] = n /\ p.tokens[<<k, n>>] = t
      BY <1>2, <2>1 DEF DictSet
    <3>2. p.balances[k] = n + 1
      BY <1>2 DEF OwnedTypeOK
    <3> QED
      BY <1>1, <2>1, <3>1, <3>2
  <2>2. CASE u # t
    <3> DEFINE h == own[u]
               j == o.indexes[<<h, u>>]
    <3>1. u \in DOMAIN own /\ to[u] = h /\ h \in Key /\ u \in Token
      BY <2>2 DEF DictSet, IsDict
    <3>2. <<h, u>> \in DOMAIN o.indexes /\ j \in Nat
      BY <3>1 DEF Enumerates, IndexesAreOwnedTokens, OwnedTypeOK, IsDict
    <3>3. j < o.balances[h] /\ o.balances[h] \in Nat /\ o.tokens[<<h, j>>] = u
      BY <3>1 DEF Enumerates, IndexesPointBack, OwnedTypeOK
    <3>4. <<h, j>> \in DOMAIN o.tokens
      BY <3>1, <3>2, <3>3 DEF Enumerates, SlotsAreOwnedTokens
    <3>5. p.indexes[<<h, u>>] = j
      BY <1>2, <2>2, <3>2 DEF DictSet
    <3>6. p.tokens[<<h, j>>] = u
      BY <1>1, <1>2, <3>3, <3>4 DEF DictSet
    <3>7. j < p.balances[h]
      BY <1>1, <1>2, <3>1, <3>2, <3>3 DEF OwnedTypeOK
    <3> QED
      BY <3>1, <3>5, <3>6, <3>7
  <2> QED
    BY <2>1, <2>2
<1>7. SlotsAreOwnedTokens(p, to)
  BY <1>1, <1>2 DEF Enumerates, SlotsAreOwnedTokens, IndexesAreOwnedTokens,
                    OwnedTypeOK, IsDict, DictSet
<1> QED
  BY <1>3, <1>4, <1>5, <1>6, <1>7 DEF Enumerates

\* Taking a token from its owner, in Owners and in OwnedTokens, keeps the two in
\* agreement: swap-and-pop moves the last token into the hole (burn, and the
\* first half of a transfer).  The revert branches are never taken.
LEMMA RemoveTokenEnumerates ==
    ASSUME NEW o, NEW own, NEW k \in Key, NEW t \in DOMAIN own,
           OwnedTypeOK(o), IsDict(own, Token, Key), Enumerates(o, own),
           own[t] = k
    PROVE  /\ CanRemove(o, k, t)
           /\ OwnedTypeOK(RemoveToken(o, k, t))
           /\ IsDict(DictRemove(own, t), Token, Key)
           /\ Enumerates(RemoveToken(o, k, t), DictRemove(own, t))
<1> DEFINE n == o.balances[k]
           i == o.indexes[<<k, t>>]
           last == o.tokens[<<k, n - 1>>]
           p == RemoveToken(o, k, t)
           from == DictRemove(own, t)
<1>1. /\ t \in Token
      /\ n \in Nat
      /\ <<k, t>> \in DOMAIN o.indexes
      /\ i \in Nat
      /\ i < n
      /\ o.tokens[<<k, i>>] = t
  BY DEF OwnedTypeOK, Enumerates, IndexesAreOwnedTokens, IndexesPointBack, IsDict
<1>2. /\ <<k, n - 1>> \in DOMAIN o.tokens
      /\ <<k, i>> \in DOMAIN o.tokens
  BY <1>1 DEF Enumerates, SlotsAreOwnedTokens
<1>3. /\ last \in DOMAIN own
      /\ last \in Token
      /\ own[last] = k
      /\ o.indexes[<<k, last>>] = n - 1
      /\ <<k, last>> \in DOMAIN o.indexes
  <2>1. LET q == <<k, n - 1>>
        IN  /\ o.tokens[q] \in DOMAIN own
            /\ own[o.tokens[q]] = q[1]
            /\ o.indexes[<<q[1], o.tokens[q]>>] = q[2]
    BY <1>2 DEF Enumerates, SlotsAreOwnedTokens
  <2> QED
    BY <2>1 DEF Enumerates, IndexesAreOwnedTokens, IsDict
<1>4. CanRemove(o, k, t)
  BY <1>1, <1>2 DEF CanRemove, DictHas
<1>5. IsDict(from, Token, Key)
  BY DEF IsDict, DictRemove
<1>6. p.balances = [o.balances EXCEPT ![k] = n - 1]
  BY <1>1 DEF RemoveToken
\* Another token keeps a slot of its own.
<1>7. ASSUME NEW u \in DOMAIN own, u # t
      PROVE  /\ own[u] \in Key
             /\ u \in Token
             /\ <<own[u], u>> \in DOMAIN o.indexes
             /\ o.indexes[<<own[u], u>>] \in Nat
             /\ o.indexes[<<own[u], u>>] < o.balances[own[u]]
             /\ o.balances[own[u]] \in Nat
             /\ o.tokens[<<own[u], o.indexes[<<own[u], u>>]>>] = u
             /\ <<own[u], o.indexes[<<own[u], u>>]>> \in DOMAIN o.tokens
             /\ own[u] = k => o.indexes[<<own[u], u>>] # i
  <2>1. /\ own[u] \in Key
        /\ u \in Token
        /\ <<own[u], u>> \in DOMAIN o.indexes
        /\ o.indexes[<<own[u], u>>] \in Nat
        /\ o.indexes[<<own[u], u>>] < o.balances[own[u]]
        /\ o.balances[own[u]] \in Nat
        /\ o.tokens[<<own[u], o.indexes[<<own[u], u>>]>>] = u
    BY DEF OwnedTypeOK, Enumerates, IndexesAreOwnedTokens, IndexesPointBack, IsDict
  <2>2. <<own[u], o.indexes[<<own[u], u>>]>> \in DOMAIN o.tokens
    BY <2>1 DEF Enumerates, SlotsAreOwnedTokens
  <2>3. own[u] = k => o.indexes[<<own[u], u>>] # i
    BY <1>1, <1>7, <2>1
  <2> QED
    BY <2>1, <2>2, <2>3
\* A slot in use holds a token of its key, numbered by the slot.
<1>8. ASSUME NEW q \in DOMAIN o.tokens
       PROVE  /\ q = <<q[1], q[2]>>
              /\ q[1] \in Key
              /\ q[2] \in Nat
              /\ q[2] < o.balances[q[1]]
              /\ o.tokens[q] \in DOMAIN own
              /\ own[o.tokens[q]] = q[1]
              /\ <<q[1], o.tokens[q]>> \in DOMAIN o.indexes
              /\ o.indexes[<<q[1], o.tokens[q]>>] = q[2]
  <2>1. /\ q = <<q[1], q[2]>>
        /\ q[1] \in Key
        /\ q[2] \in Nat
    BY DEF OwnedTypeOK, IsDict
  <2>2. /\ q[2] < o.balances[q[1]]
        /\ o.tokens[q] \in DOMAIN own
        /\ own[o.tokens[q]] = q[1]
        /\ o.indexes[<<q[1], o.tokens[q]>>] = q[2]
    BY DEF Enumerates, SlotsAreOwnedTokens
  <2>3. <<q[1], o.tokens[q]>> \in DOMAIN o.indexes
    BY <2>1, <2>2 DEF Enumerates, IndexesAreOwnedTokens, IsDict
  <2> QED
    BY <2>1, <2>2, <2>3
<1>9. CASE i = n - 1
  <2>1. last = t
    BY <1>1, <1>9
  <2>2. /\ p.indexes = DictRemove(o.indexes, <<k, t>>)
        /\ p.tokens = DictRemove(o.tokens, <<k, n - 1>>)
    BY <1>1, <1>9 DEF RemoveToken
  <2>3. OwnedTypeOK(p)
    BY <1>1, <1>6, <2>2 DEF OwnedTypeOK, IsDict, DictRemove
  <2>4. IndexesAreOwnedTokens(p, from)
    BY <1>1, <2>2 DEF Enumerates, IndexesAreOwnedTokens, IsDict, DictRemove
  <2>5. IndexesPointBack(p, from)
    <3> SUFFICES ASSUME NEW u \in DOMAIN from
                 PROVE  LET index == p.indexes[<<from[u], u>>]
                        IN  /\ index < p.balances[from[u]]
                            /\ p.tokens[<<from[u], index>>] = u
      BY DEF IndexesPointBack
    <3> DEFINE h == own[u]
               j == o.indexes[<<own[u], u>>]
    <3>1. u \in DOMAIN own /\ u # t /\ from[u] = h
      BY DEF DictRemove
    <3>2. p.indexes[<<h, u>>] = j
      <4>1. <<h, u>> \in DOMAIN o.indexes /\ <<h, u>> # <<k, t>>
        BY <1>7, <3>1
      <4> QED
        BY <2>2, <4>1 DEF DictRemove
    <3>3. <<h, j>> # <<k, n - 1>>
      BY <1>7, <1>9, <3>1
    <3>4. p.tokens[<<h, j>>] = u
      BY <1>7, <2>2, <3>1, <3>3 DEF DictRemove
    <3>5. j < p.balances[h]
      <4>1. h = k => j # n - 1
        BY <1>9, <1>7, <3>1
      <4>2. h \in Key /\ j \in Nat /\ j < o.balances[h] /\ o.balances[h] \in Nat
        BY <1>7, <3>1
      <4>3. p.balances[h] = IF h = k THEN n - 1 ELSE o.balances[h]
        BY <1>6, <4>2 DEF OwnedTypeOK
      <4> QED
        BY <1>1, <4>1, <4>2, <4>3
    <3> QED
      BY <3>1, <3>2, <3>4, <3>5
  <2>6. SlotsAreOwnedTokens(p, from)
    <3>1. ASSUME NEW h \in Key, NEW j \in 0..(p.balances[h] - 1)
          PROVE  <<h, j>> \in DOMAIN p.tokens
      <4>1. /\ j \in 0..(o.balances[h] - 1)
            /\ <<h, j>> # <<k, n - 1>>
        BY <1>1, <1>6, <3>1 DEF OwnedTypeOK
      <4>2. <<h, j>> \in DOMAIN o.tokens
        BY <4>1 DEF Enumerates, SlotsAreOwnedTokens
      <4> QED
        BY <2>2, <4>1, <4>2 DEF DictRemove
    <3>2. ASSUME NEW q \in DOMAIN p.tokens
          PROVE  LET u == p.tokens[q]
                 IN  /\ q[2] < p.balances[q[1]]
                     /\ u \in DOMAIN from
                     /\ from[u] = q[1]
                     /\ p.indexes[<<q[1], u>>] = q[2]
      <4>1. q \in DOMAIN o.tokens /\ q # <<k, n - 1>> /\ p.tokens[q] = o.tokens[q]
        BY <2>2 DEF DictRemove
      <4>2. o.tokens[q] # t
        <5>1. o.tokens[q] = t => q = <<k, i>>
          <6>1. q = <<q[1], q[2]>> /\ own[o.tokens[q]] = q[1]
            BY <1>8, <4>1
          <6>2. o.indexes[<<q[1], o.tokens[q]>>] = q[2]
            BY <1>8, <4>1
          <6>3. o.tokens[q] = t => q[1] = k /\ q[2] = i
            BY <6>1, <6>2
          <6> QED
            BY <6>1, <6>3
        <5> QED
          BY <1>9, <4>1, <5>1
      <4>3. q[2] < p.balances[q[1]]
        <5>1. q[1] = k => q[2] # n - 1
          BY <1>8, <4>1
        <5>2. q[1] \in Key /\ q[2] \in Nat /\ q[2] < o.balances[q[1]]
          BY <1>8, <4>1
        <5>3. /\ p.balances[q[1]] = IF q[1] = k THEN n - 1 ELSE o.balances[q[1]]
              /\ o.balances[q[1]] \in Nat
          BY <1>6, <5>2 DEF OwnedTypeOK
        <5> QED
          BY <1>1, <5>1, <5>2, <5>3
      <4>4. o.tokens[q] \in DOMAIN from /\ from[o.tokens[q]] = q[1]
        BY <1>8, <4>1, <4>2 DEF DictRemove
      <4>5. p.indexes[<<q[1], o.tokens[q]>>] = q[2]
        BY <1>8, <2>2, <4>1, <4>2 DEF DictRemove
      <4> QED
        BY <4>1, <4>3, <4>4, <4>5
    <3> QED
      BY <3>1, <3>2 DEF SlotsAreOwnedTokens
  <2> QED
    BY <1>4, <1>5, <2>3, <2>4, <2>5, <2>6 DEF Enumerates
<1>10. CASE i < n - 1
  <2>1. last # t
    BY <1>1, <1>3, <1>10
  <2>2. /\ p.indexes = DictRemove(DictSet(o.indexes, <<k, last>>, i), <<k, t>>)
        /\ p.tokens = DictRemove(DictSet(o.tokens, <<k, i>>, last), <<k, n - 1>>)
    BY <1>1, <1>10 DEF RemoveToken
  <2>3. OwnedTypeOK(p)
    <3>1. <<k, last>> \in Key \X Token /\ <<k, i>> \in Key \X Nat
      BY <1>1, <1>3
    <3>2. IsDict(DictSet(o.indexes, <<k, last>>, i), Key \X Token, Nat)
      BY <1>1, <3>1, DictSetType DEF OwnedTypeOK
    <3>3. IsDict(p.indexes, Key \X Token, Nat)
      BY <2>2, <3>2, DictRemoveType
    <3>4. IsDict(DictSet(o.tokens, <<k, i>>, last), Key \X Nat, Token)
      BY <1>3, <3>1, DictSetType DEF OwnedTypeOK
    <3>5. IsDict(p.tokens, Key \X Nat, Token)
      BY <2>2, <3>4, DictRemoveType
    <3>6. p.balances \in [Key -> Nat]
      BY <1>1, <1>6, <1>10 DEF OwnedTypeOK
    <3> QED
      BY <3>3, <3>5, <3>6 DEF OwnedTypeOK
  <2>4. IndexesAreOwnedTokens(p, from)
    <3>1. DOMAIN p.indexes = DOMAIN o.indexes \ {<<k, t>>}
      BY <1>3, <2>2 DEF DictRemove, DictSet
    <3>2. DOMAIN from = DOMAIN own \ {t} /\ \A u \in DOMAIN from : from[u] = own[u]
      BY DEF DictRemove
    <3>3. ASSUME NEW h \in Key, NEW u \in Token
          PROVE  <<h, u>> \in DOMAIN p.indexes <=> u \in DOMAIN from /\ from[u] = h
      <4>1. <<h, u>> \in DOMAIN o.indexes <=> u \in DOMAIN own /\ own[u] = h
        BY DEF Enumerates, IndexesAreOwnedTokens
      <4>2. <<h, u>> = <<k, t>> <=> h = k /\ u = t
        OBVIOUS
      <4> QED
        BY <3>1, <3>2, <4>1, <4>2
    <3> QED
      BY <3>3 DEF IndexesAreOwnedTokens
  <2>5. IndexesPointBack(p, from)
    <3> SUFFICES ASSUME NEW u \in DOMAIN from
                 PROVE  LET index == p.indexes[<<from[u], u>>]
                        IN  /\ index < p.balances[from[u]]
                            /\ p.tokens[<<from[u], index>>] = u
      BY DEF IndexesPointBack
    <3> DEFINE h == own[u]
               j == o.indexes[<<own[u], u>>]
    <3>1. u \in DOMAIN own /\ u # t /\ from[u] = h
      BY DEF DictRemove
    <3>2. CASE u = last
      <4>1. h = k /\ p.indexes[<<k, last>>] = i
        BY <1>3, <2>1, <2>2, <3>2 DEF DictRemove, DictSet
      <4>2. p.tokens[<<k, i>>] = last
        <5>1. <<k, i>> # <<k, n - 1>>
          BY <1>1, <1>10
        <5> QED
          BY <1>2, <2>2, <5>1 DEF DictRemove, DictSet
      <4>3. i < p.balances[k]
        BY <1>1, <1>6, <1>10 DEF OwnedTypeOK
      <4> QED
        BY <3>1, <3>2, <4>1, <4>2, <4>3
    <3>3. CASE u # last
      <4>1. p.indexes[<<h, u>>] = j
        <5>1. /\ <<h, u>> \in DOMAIN o.indexes
              /\ <<h, u>> # <<k, t>>
              /\ <<h, u>> # <<k, last>>
          BY <1>7, <3>1, <3>3
        <5> QED
          BY <2>2, <5>1 DEF DictRemove, DictSet
      <4>2. <<h, j>> # <<k, n - 1>> /\ <<h, j>> # <<k, i>>
        BY <1>7, <3>1, <3>3
      <4>3. p.tokens[<<h, j>>] = u
        <5> DEFINE q == <<h, j>>
        <5>1. q \in DOMAIN o.tokens /\ o.tokens[q] = u
          BY <1>7, <3>1
        <5>2. q # <<k, n - 1>> /\ q # <<k, i>>
          BY <4>2
        <5> HIDE DEF q
        <5>3. p.tokens[q] = u
          BY ONLY <2>2, <5>1, <5>2 DEF DictRemove, DictSet
        <5> QED
          BY <5>3 DEF q
      <4>4. j < p.balances[h]
        <5>1. h = k => j # n - 1
          BY <1>7, <3>1, <4>2
        <5>2. h \in Key /\ j \in Nat /\ j < o.balances[h] /\ o.balances[h] \in Nat
          BY <1>7, <3>1
        <5>3. p.balances[h] = IF h = k THEN n - 1 ELSE o.balances[h]
          BY <1>6, <5>2 DEF OwnedTypeOK
        <5> QED
          BY <1>1, <5>1, <5>2, <5>3
      <4> QED
        BY <3>1, <4>1, <4>3, <4>4
    <3> QED
      BY <3>2, <3>3
  <2>6. SlotsAreOwnedTokens(p, from)
    <3>1. ASSUME NEW h \in Key, NEW j \in 0..(p.balances[h] - 1)
          PROVE  <<h, j>> \in DOMAIN p.tokens
      <4>1. /\ j \in 0..(o.balances[h] - 1)
            /\ <<h, j>> # <<k, n - 1>>
        BY <1>1, <1>6, <3>1 DEF OwnedTypeOK
      <4>2. <<h, j>> \in DOMAIN o.tokens
        BY <4>1 DEF Enumerates, SlotsAreOwnedTokens
      <4> QED
        BY <2>2, <4>1, <4>2 DEF DictRemove, DictSet
    <3>2. ASSUME NEW q \in DOMAIN p.tokens
          PROVE  LET u == p.tokens[q]
                 IN  /\ q[2] < p.balances[q[1]]
                     /\ u \in DOMAIN from
                     /\ from[u] = q[1]
                     /\ p.indexes[<<q[1], u>>] = q[2]
      <4>1. q \in DOMAIN o.tokens /\ q # <<k, n - 1>>
        BY <1>2, <2>2 DEF DictRemove, DictSet
      <4>2. q[2] < p.balances[q[1]]
        <5>1. q[1] = k => q[2] # n - 1
          BY <1>8, <4>1
        <5>2. q[1] \in Key /\ q[2] \in Nat /\ q[2] < o.balances[q[1]]
          BY <1>8, <4>1
        <5>3. /\ p.balances[q[1]] = IF q[1] = k THEN n - 1 ELSE o.balances[q[1]]
              /\ o.balances[q[1]] \in Nat
          BY <1>6, <5>2 DEF OwnedTypeOK
        <5> QED
          BY <1>1, <5>1, <5>2, <5>3
      <4>3. CASE q = <<k, i>>
        <5>1. p.tokens[q] = last
          BY <2>2, <4>1, <4>3 DEF DictRemove, DictSet
        <5>2. last \in DOMAIN from /\ from[last] = k
          BY <1>3, <2>1 DEF DictRemove
        <5>3. p.indexes[<<k, last>>] = i
          BY <1>3, <2>1, <2>2 DEF DictRemove, DictSet
        <5> QED
          BY <4>2, <4>3, <5>1, <5>2, <5>3
      <4>4. CASE q # <<k, i>>
        <5>1. p.tokens[q] = o.tokens[q]
          BY <2>2, <4>1, <4>4 DEF DictRemove, DictSet
        <5>2. o.tokens[q] # t /\ o.tokens[q] # last
          <6>1. o.tokens[q] = t => q = <<k, i>>
            <7>1. q = <<q[1], q[2]>> /\ own[o.tokens[q]] = q[1]
              BY <1>8, <4>1
            <7>2. o.indexes[<<q[1], o.tokens[q]>>] = q[2]
              BY <1>8, <4>1
            <7>3. o.tokens[q] = t => q[1] = k /\ q[2] = i
              BY <7>1, <7>2
            <7> QED
              BY <7>1, <7>3
          <6>2. o.tokens[q] = last => q = <<k, n - 1>>
            <7>1. q = <<q[1], q[2]>> /\ own[o.tokens[q]] = q[1]
              BY <1>8, <4>1
            <7>2. o.indexes[<<q[1], o.tokens[q]>>] = q[2]
              BY <1>8, <4>1
            <7>3. o.tokens[q] = last => q[1] = k /\ q[2] = n - 1
              BY <1>3, <7>1, <7>2
            <7> QED
              BY <7>1, <7>3
          <6> QED
            BY <4>1, <4>4, <6>1, <6>2
        <5>3. o.tokens[q] \in DOMAIN from /\ from[o.tokens[q]] = q[1]
          BY <1>8, <4>1, <5>2 DEF DictRemove
        <5>4. p.indexes[<<q[1], o.tokens[q]>>] = q[2]
          <6> DEFINE u == o.tokens[q]
                     z == <<q[1], u>>
          <6>1. z \in DOMAIN o.indexes /\ o.indexes[z] = q[2]
            BY <1>8, <4>1
          <6>2. z # <<k, t>> /\ z # <<k, last>>
            BY <5>2
          <6> HIDE DEF z
          <6>3. p.indexes[z] = q[2]
            BY ONLY <2>2, <6>1, <6>2 DEF DictRemove, DictSet
          <6> QED
            BY <6>3 DEF z
        <5> QED
          BY <4>2, <5>1, <5>3, <5>4
      <4> QED
        BY <4>3, <4>4
    <3> QED
      BY <3>1, <3>2 DEF SlotsAreOwnedTokens
  <2> QED
    BY <1>4, <1>5, <2>3, <2>4, <2>5, <2>6 DEF Enumerates
<1> QED
  BY <1>1, <1>9, <1>10

\* Both halves of a transfer of one token.
LEMMA MoveEnumerates ==
    ASSUME NEW o, NEW own, NEW from \in Key, NEW to \in Key, NEW t \in DOMAIN own,
           OwnedTypeOK(o), IsDict(own, Token, Key), Enumerates(o, own),
           own[t] = from
    PROVE  /\ OwnedTypeOK(Move(o, from, to, t))
           /\ IsDict(DictSet(own, t, to), Token, Key)
           /\ Enumerates(Move(o, from, to, t), DictSet(own, t, to))
<1> DEFINE o1 == RemoveToken(o, from, t)
           own1 == DictRemove(own, t)
<1>1. t \in Token
  BY DEF IsDict
<1>2. OwnedTypeOK(o1) /\ IsDict(own1, Token, Key) /\ Enumerates(o1, own1)
  BY RemoveTokenEnumerates
<1>3. t \notin DOMAIN own1
  BY DEF DictRemove
<1>4. /\ OwnedTypeOK(SetToken(o1, to, t))
      /\ IsDict(DictSet(own1, t, to), Token, Key)
      /\ Enumerates(SetToken(o1, to, t), DictSet(own1, t, to))
  BY <1>1, <1>2, <1>3, SetTokenEnumerates
<1>5. DictSet(own1, t, to) = DictSet(own, t, to)
  BY DEF DictSet, DictRemove
<1> QED
  BY <1>4, <1>5 DEF Move

\* Owners after a transfer of all the ids of a vector.
Given(own, batch, to) == [t \in DOMAIN own |-> IF t \in Ids(batch) THEN to ELSE own[t]]

\* A whole transfer keeps Owners and OwnedTokens in agreement.  An id that is
\* in the vector twice passes the second removal only if it still belongs to
\* the sender, which is then the recipient too.
LEMMA MoveAllEnumerates ==
    ASSUME NEW o, NEW own, NEW from \in Key, NEW to \in Key, NEW batch \in Batch,
           OwnedTypeOK(o), IsDict(own, Token, Key), Enumerates(o, own),
           \A t \in Ids(batch) : t \in DOMAIN own /\ own[t] = from,
           CanMoveAll(o, from, to, batch)
    PROVE  /\ OwnedTypeOK(MoveAll(o, from, to, batch))
           /\ IsDict(Given(own, batch, to), Token, Key)
           /\ Enumerates(MoveAll(o, from, to, batch), Given(own, batch, to))
<1>1. CASE \E t \in Token : batch = <<t>>
  <2>1. PICK t \in Token : batch = <<t>>
    BY <1>1
  <2>2. /\ Ids(batch) = {t}
        /\ Len(batch) # 2
        /\ batch[1] = t
    BY <2>1 DEF Ids
  <2>3. Given(own, batch, to) = DictSet(own, t, to)
    BY <2>2 DEF Given, DictSet
  <2>4. MoveAll(o, from, to, batch) = Move(o, from, to, t)
    BY <2>2 DEF MoveAll
  <2> QED
    BY <2>2, <2>3, <2>4, MoveEnumerates
<1>2. CASE batch \in Token \X Token
  <2>1. PICK t \in Token, u \in Token : batch = <<t, u>>
    BY <1>2
  <2>2. /\ Ids(batch) = {t, u}
        /\ Len(batch) = 2
        /\ batch[1] = t
        /\ batch[2] = u
    BY <2>1 DEF Ids
  <2> DEFINE o1 == Move(o, from, to, t)
             own1 == DictSet(own, t, to)
  <2>3. OwnedTypeOK(o1) /\ IsDict(own1, Token, Key) /\ Enumerates(o1, own1)
    BY <2>2, MoveEnumerates
  <2>4. u \in DOMAIN own1 /\ own1[u] = from
    BY <2>1, <2>2, <2>3 DEF CanMoveAll, CanRemove, DictHas, Enumerates,
                            IndexesAreOwnedTokens
  <2>5. /\ OwnedTypeOK(Move(o1, from, to, u))
        /\ IsDict(DictSet(own1, u, to), Token, Key)
        /\ Enumerates(Move(o1, from, to, u), DictSet(own1, u, to))
    BY <2>3, <2>4, MoveEnumerates
  <2>6. Given(own, batch, to) = DictSet(own1, u, to)
    BY <2>2 DEF Given, DictSet
  <2>7. MoveAll(o, from, to, batch) = Move(o1, from, to, u)
    BY <2>2 DEF MoveAll
  <2> QED
    BY <2>5, <2>6, <2>7
<1> QED
  BY <1>1, <1>2 DEF Batch

-----------------------------------------------------------------------------

\* The inductive invariant: types, agreement and supply.
NFTInv ==
    /\ NFTTypeOK
    /\ EnumerationMatchesOwnership
    /\ SupplyIsLiveTokens

\* The constructor's empty ledger satisfies the invariant.
LEMMA InitNFTInv == NFTInit => NFTInv
<1> SUFFICES ASSUME NFTInit PROVE NFTInv
  OBVIOUS
<1>1. NFTTypeOK
  BY DEF NFTInit, NFTTypeOK, OwnedTypeOK, IsDict, EmptyDict
<1>2. EnumerationMatchesOwnership
  BY DEF NFTInit, EnumerationMatchesOwnership, Enumerates, IndexesAreOwnedTokens,
         IndexesPointBack, SlotsAreOwnedTokens, EmptyDict
<1>3. SupplyIsLiveTokens
  <2>1. DOMAIN owners = {} /\ DOMAIN metadata = {}
    BY DEF NFTInit, EmptyDict
  <2> QED
    BY <2>1, FS_EmptySet DEF NFTInit, SupplyIsLiveTokens
<1> QED
  BY <1>1, <1>2, <1>3 DEF NFTInv

\* The tokens that have an owner are finitely many.
LEMMA LiveTokensFinite ==
    ASSUME NFTTypeOK
    PROVE  IsFiniteSet(DOMAIN owners)
<1>1. DOMAIN owners \subseteq 1..MaxToken
  BY DEF NFTTypeOK, IsDict, Token
<1>2. IsFiniteSet(1..MaxToken)
  BY NFTAssumption, FS_Interval
<1> QED
  BY <1>1, <1>2, FS_Subset

\* create_lock mints a token nobody owns.
LEMMA MintKeepsInv ==
    ASSUME NFTInv, NEW c \in Key, NEW to \in Key, Mint(c, to)
    PROVE  NFTInv'
<1> DEFINE t == NextTokenId
<1>1. /\ t \in Token
      /\ t \notin DOMAIN owners
      /\ owners' = DictSet(owners, t, to)
      /\ owned' = SetToken(owned, to, t)
      /\ metadata' = DictSet(metadata, t, EmptyMeta)
  BY DEF Mint, DictHas
<1>2. /\ OwnedTypeOK(owned')
      /\ IsDict(owners', Token, Key)
      /\ Enumerates(owned', owners')
  BY <1>1, SetTokenEnumerates DEF NFTInv, NFTTypeOK, EnumerationMatchesOwnership
<1>3. NFTTypeOK'
  <2>1. DOMAIN owned' = {"indexes", "tokens", "balances"}
    BY <1>1 DEF SetToken
  <2>2. IsDict(metadata', Token, Metas)
    BY <1>1, NFTAssumption DEF NFTInv, NFTTypeOK, IsDict, DictSet
  <2> QED
    BY <1>2, <2>1, <2>2 DEF NFTInv, NFTTypeOK, Mint
<1>4. SupplyIsLiveTokens'
  <2>1. DOMAIN owners' = DOMAIN owners \cup {t} /\ DOMAIN metadata' = DOMAIN metadata \cup {t}
    BY <1>1 DEF DictSet
  <2>2. Cardinality(DOMAIN owners') = Cardinality(DOMAIN owners) + 1
    BY <1>1, <2>1, LiveTokensFinite, FS_AddElement DEF NFTInv
  <2> QED
    BY <2>1, <2>2 DEF NFTInv, SupplyIsLiveTokens, Mint
<1> QED
  BY <1>2, <1>3, <1>4 DEF NFTInv, EnumerationMatchesOwnership

\* merge burns a token its enumeration has, and lowers the supply.
LEMMA BurnKeepsInv ==
    ASSUME NFTInv, NEW c \in Key, NEW from \in Token, NEW to \in Token,
           Burn(c, from, to)
    PROVE  NFTInv'
<1> DEFINE k == owners[from]
<1>1. /\ from \in DOMAIN owners
      /\ k \in Key
      /\ owned' = RemoveToken(owned, k, from)
      /\ owners' = DictRemove(owners, from)
      /\ metadata' = DictRemove(metadata, from)
      /\ allowances' = DictRemove(allowances, <<k, from>>)
  BY DEF Burn, IsApprovedOrOwner, DictHas, NFTInv, NFTTypeOK, IsDict
<1>2. /\ OwnedTypeOK(owned')
      /\ IsDict(owners', Token, Key)
      /\ Enumerates(owned', owners')
  BY <1>1, RemoveTokenEnumerates DEF NFTInv, NFTTypeOK, EnumerationMatchesOwnership
<1>3. /\ DOMAIN owners' = DOMAIN owners \ {from}
      /\ DOMAIN metadata' = DOMAIN metadata \ {from}
  BY <1>1 DEF DictRemove
<1>4. /\ Cardinality(DOMAIN owners') = Cardinality(DOMAIN owners) - 1
      /\ IsFiniteSet(DOMAIN owners')
  BY <1>1, <1>3, LiveTokensFinite, FS_RemoveElement DEF NFTInv
<1>5. SupplyIsLiveTokens'
  BY <1>3, <1>4 DEF NFTInv, SupplyIsLiveTokens, Burn
<1>6. NFTTypeOK'
  <2>1. DOMAIN owned' = {"indexes", "tokens", "balances"}
    BY <1>1 DEF RemoveToken
  <2>2. IsDict(metadata', Token, Metas)
    BY <1>1 DEF NFTInv, NFTTypeOK, IsDict, DictRemove
  <2>3. IsDict(allowances', Key \X Token, Key)
    BY <1>1 DEF NFTInv, NFTTypeOK, IsDict, DictRemove
  <2>4. totalSupply' \in Nat
    BY <1>4, <1>5, FS_CardinalityType DEF SupplyIsLiveTokens
  <2>5. caller' \in Key
    BY DEF Burn
  <2> QED
    BY <1>2, <2>1, <2>2, <2>3, <2>4, <2>5 DEF NFTTypeOK
<1> QED
  BY <1>2, <1>5, <1>6 DEF NFTInv, EnumerationMatchesOwnership

\* approve writes allowances only.
LEMMA ApproveKeepsInv ==
    ASSUME NFTInv, NEW c \in Key, NEW spender \in Key, NEW batch \in Batch,
           Approve(c, spender, batch)
    PROVE  NFTInv'
<1>1. Ids(batch) \subseteq Token
  BY DEF AllOwnedBy, Approve, DictHas, NFTInv, NFTTypeOK, IsDict
<1>2. IsDict(allowances', Key \X Token, Key)
  BY <1>1 DEF Approve, NFTInv, NFTTypeOK, IsDict
<1> QED
  BY <1>2 DEF Approve, NFTInv, NFTTypeOK, SupplyIsLiveTokens, EnumerationMatchesOwnership

\* transfer_from changes the enumeration and the owners alike.
LEMMA TransferKeepsInv ==
    ASSUME NFTInv, NEW c \in Key, NEW owner \in Key, NEW recipient \in Key,
           NEW batch \in Batch, TransferFrom(c, owner, recipient, batch)
    PROVE  NFTInv'
<1>1. /\ owned' = MoveAll(owned, owner, recipient, batch)
      /\ owners' = Given(owners, batch, recipient)
      /\ \A t \in Ids(batch) : t \in DOMAIN owners /\ owners[t] = owner
      /\ CanMoveAll(owned, owner, recipient, batch)
  BY DEF TransferFrom, Given, AllOwnedBy, DictHas
<1>2. /\ OwnedTypeOK(owned')
      /\ IsDict(owners', Token, Key)
      /\ Enumerates(owned', owners')
  BY <1>1, MoveAllEnumerates DEF NFTInv, NFTTypeOK, EnumerationMatchesOwnership
<1>3. SupplyIsLiveTokens'
  <2>1. DOMAIN owners' = DOMAIN owners
    BY <1>1 DEF Given
  <2> QED
    BY <2>1 DEF NFTInv, SupplyIsLiveTokens, TransferFrom
<1>4. NFTTypeOK'
  <2>1. DOMAIN owned' = {"indexes", "tokens", "balances"}
    BY <1>1 DEF MoveAll, Move, SetToken
  <2>2. IsDict(allowances', Key \X Token, Key)
    BY DEF TransferFrom, SpendApprovals, NFTInv, NFTTypeOK, IsDict
  <2> QED
    BY <1>2, <2>1, <2>2 DEF NFTInv, NFTTypeOK, TransferFrom
<1> QED
  BY <1>2, <1>3, <1>4 DEF NFTInv, EnumerationMatchesOwnership

\* update_token_meta changes the metadata of a token that exists.
LEMMA SetTokenMetaKeepsInv ==
    ASSUME NFTInv, NEW c \in Key, NEW t \in Token, NEW meta \in Metas,
           SetTokenMeta(c, t, meta)
    PROVE  NFTInv'
<1>1. t \in DOMAIN metadata /\ metadata' = DictSet(metadata, t, meta)
  BY DEF SetTokenMeta, DictHas, NFTInv, SupplyIsLiveTokens
<1>2. IsDict(metadata', Token, Metas) /\ DOMAIN metadata' = DOMAIN metadata
  BY <1>1 DEF DictSet, NFTInv, NFTTypeOK, IsDict
<1> QED
  BY <1>2 DEF SetTokenMeta, NFTInv, NFTTypeOK, SupplyIsLiveTokens,
              EnumerationMatchesOwnership

\* Every step of the ledger keeps the invariant.
LEMMA NextNFTInv == NFTInv /\ [NFTNext]_vars => NFTInv'
<1> SUFFICES ASSUME NFTInv, [NFTNext]_vars PROVE NFTInv'
  OBVIOUS
<1>1. ASSUME NFTNext PROVE NFTInv'
  BY <1>1, MintKeepsInv, BurnKeepsInv, ApproveKeepsInv, TransferKeepsInv,
     SetTokenMetaKeepsInv DEF NFTNext
<1>2. CASE UNCHANGED vars
  BY <1>2 DEF vars, NFTInv, NFTTypeOK, SupplyIsLiveTokens, EnumerationMatchesOwnership
<1> QED
  BY <1>1, <1>2

\* Every reachable state of the ledger is well typed.
THEOREM NFTTypeCorrect == NFTSpec => []NFTTypeOK
<1>1. NFTInv => NFTTypeOK
  BY DEF NFTInv
<1> QED
  BY <1>1, InitNFTInv, NextNFTInv, PTL DEF NFTSpec

\* For every number of keys and tokens, the enumeration of a key's tokens and
\* the owners always agree.
THEOREM EnumerationCorrect == NFTSpec => []EnumerationMatchesOwnership
<1>1. NFTInv => EnumerationMatchesOwnership
  BY DEF NFTInv
<1> QED
  BY <1>1, InitNFTInv, NextNFTInv, PTL DEF NFTSpec

\* For every number of keys and tokens, TOTAL_SUPPLY counts the tokens that
\* have an owner.
THEOREM SupplyCorrect == NFTSpec => []SupplyIsLiveTokens
<1>1. NFTInv => SupplyIsLiveTokens
  BY DEF NFTInv
<1> QED
  BY <1>1, InitNFTInv, NextNFTInv, PTL DEF NFTSpec

-----------------------------------------------------------------------------
(* What a step may never do.                                                *)

\* No step takes a token from its owner unless the owner, or the spender it
\* approved for the token, made the call.
THEOREM OwnerChangesAreAuthorised == NFTSpec => OwnerChangeAuthorised
<1> DEFINE Authorised ==
        \A t \in DOMAIN owners :
          t \notin DOMAIN owners' \/ owners'[t] # owners[t]
            => caller' = owners[t] \/ IsApproved(owners[t], t, caller')
<1>1. [NFTNext]_vars => [Authorised]_vars
  <2> SUFFICES ASSUME NFTNext PROVE Authorised
    OBVIOUS
  <2>1. ASSUME NEW c \in Key, NEW to \in Key, Mint(c, to) PROVE Authorised
    BY <2>1 DEF Mint, DictSet, DictHas
  <2>2. ASSUME NEW c \in Key, NEW from \in Token, NEW to \in Token, Burn(c, from, to)
        PROVE  Authorised
    BY <2>2 DEF Burn, DictRemove, IsApprovedOrOwner
  <2>3. ASSUME NEW c \in Key, NEW spender \in Key, NEW batch \in Batch,
               Approve(c, spender, batch)
        PROVE  Authorised
    BY <2>3 DEF Approve
  <2>4. ASSUME NEW c \in Key, NEW owner \in Key, NEW recipient \in Key,
               NEW batch \in Batch, TransferFrom(c, owner, recipient, batch)
        PROVE  Authorised
    <3> SUFFICES ASSUME NEW t \in DOMAIN owners,
                        t \notin DOMAIN owners' \/ owners'[t] # owners[t]
                 PROVE  caller' = owners[t] \/ IsApproved(owners[t], t, caller')
      OBVIOUS
    <3>1. t \in Ids(batch)
      BY <2>4 DEF TransferFrom
    <3>2. owners[t] = owner /\ caller' = c
      BY <2>4, <3>1 DEF TransferFrom, AllOwnedBy
    <3>3. c = owner \/ IsApproved(owner, t, c)
      BY <2>4, <3>1 DEF TransferFrom, SpendApprovals
    <3> QED
      BY <3>2, <3>3
  <2>5. ASSUME NEW c \in Key, NEW t \in Token, NEW meta \in Metas,
               SetTokenMeta(c, t, meta)
        PROVE  Authorised
    BY <2>5 DEF SetTokenMeta
  <2> QED
    BY <2>1, <2>2, <2>3, <2>4, <2>5 DEF NFTNext
<1> QED
  BY <1>1, PTL DEF NFTSpec, OwnerChangeAuthorised

\* An approval is written only by the key it is an approval of, for a token it
\* owns, and the spender that moves or burns a token has used its approval up.
THEOREM ApprovalsAreGivenAndSpent == NFTSpec => ApprovalsAreOwnersAndUsedOnce
<1> DEFINE Proper ==
        /\ \A p \in DOMAIN allowances' :
             p \notin DOMAIN allowances \/ allowances'[p] # allowances[p]
                 => caller' = p[1] /\ DictHas(owners, p[2]) /\ owners[p[2]] = p[1]
        /\ \A t \in DOMAIN owners :
             /\ t \notin DOMAIN owners' \/ owners'[t] # owners[t]
             /\ caller' # owners[t]
             => ~DictHas(allowances', <<owners[t], t>>)
<1>1. [NFTNext]_vars => [Proper]_vars
  <2> SUFFICES ASSUME NFTNext PROVE Proper
    OBVIOUS
  <2>1. ASSUME NEW c \in Key, NEW to \in Key, Mint(c, to) PROVE Proper
    BY <2>1 DEF Mint, DictSet, DictHas
  <2>2. ASSUME NEW c \in Key, NEW from \in Token, NEW to \in Token, Burn(c, from, to)
        PROVE  Proper
    BY <2>2 DEF Burn, DictRemove, DictHas
  <2>3. ASSUME NEW c \in Key, NEW spender \in Key, NEW batch \in Batch,
               Approve(c, spender, batch)
        PROVE  Proper
    <3>1. ASSUME NEW p \in DOMAIN allowances',
                 p \notin DOMAIN allowances \/ allowances'[p] # allowances[p]
          PROVE  caller' = p[1] /\ DictHas(owners, p[2]) /\ owners[p[2]] = p[1]
      <4>1. p[1] = c /\ p[2] \in Ids(batch)
        <5>1. CASE p \in {c} \X Ids(batch)
          BY <5>1
        <5>2. CASE p \notin {c} \X Ids(batch)
          <6>1. p \in DOMAIN allowances
            BY <2>3, <5>2 DEF Approve
          <6>2. allowances'[p] = IF p[1] = c /\ p[2] \in Ids(batch)
                                 THEN spender ELSE allowances[p]
            BY <2>3, <6>1 DEF Approve
          <6> QED
            BY <3>1, <6>1, <6>2
        <5> QED
          BY <5>1, <5>2
      <4> QED
        BY <2>3, <4>1 DEF Approve, AllOwnedBy
    <3>2. UNCHANGED owners
      BY <2>3 DEF Approve
    <3> QED
      BY <3>1, <3>2
  <2>4. ASSUME NEW c \in Key, NEW owner \in Key, NEW recipient \in Key,
               NEW batch \in Batch, TransferFrom(c, owner, recipient, batch)
        PROVE  Proper
    <3>1. \A p \in DOMAIN allowances' :
             p \in DOMAIN allowances /\ allowances'[p] = allowances[p]
      BY <2>4 DEF TransferFrom, SpendApprovals
    <3>2. ASSUME NEW t \in DOMAIN owners,
                 t \notin DOMAIN owners' \/ owners'[t] # owners[t],
                 caller' # owners[t]
          PROVE  ~DictHas(allowances', <<owners[t], t>>)
      <4>1. t \in Ids(batch)
        BY <2>4, <3>2 DEF TransferFrom
      <4>2. owners[t] = owner /\ caller' = c
        BY <2>4, <4>1 DEF TransferFrom, AllOwnedBy
      <4>3. DOMAIN allowances' = DOMAIN allowances \ ({owner} \X Ids(batch))
        BY <2>4, <3>2, <4>2 DEF TransferFrom, SpendApprovals
      <4> QED
        BY <4>1, <4>2, <4>3 DEF DictHas
    <3> QED
      BY <3>1, <3>2
  <2>5. ASSUME NEW c \in Key, NEW t \in Token, NEW meta \in Metas,
               SetTokenMeta(c, t, meta)
        PROVE  Proper
    BY <2>5 DEF SetTokenMeta
  <2> QED
    BY <2>1, <2>2, <2>3, <2>4, <2>5 DEF NFTNext
<1> QED
  BY <1>1, PTL DEF NFTSpec, ApprovalsAreOwnersAndUsedOnce

\* Once token 2 is the only one left, no lock is ever created again, whatever
\* the keys and however large token ids may get.
THEOREM WedgeIsPermanent == NFTSpec => WedgedForEver
<1>1. [NFTNext]_vars => [Wedged => Wedged']_vars
  <2> SUFFICES ASSUME NFTNext, Wedged PROVE Wedged'
    OBVIOUS
  <2>1. ASSUME NEW c \in Key, NEW to \in Key, Mint(c, to) PROVE FALSE
    BY <2>1 DEF Mint, NextTokenId, DictHas, Wedged
  <2>2. ASSUME NEW c \in Key, NEW from \in Token, NEW to \in Token, Burn(c, from, to)
        PROVE  FALSE
    BY <2>2 DEF Burn, IsApprovedOrOwner, DictHas, Wedged
  <2>3. ASSUME NEW c \in Key, NEW spender \in Key, NEW batch \in Batch,
               Approve(c, spender, batch)
        PROVE  Wedged'
    BY <2>3 DEF Approve, Wedged
  <2>4. ASSUME NEW c \in Key, NEW owner \in Key, NEW recipient \in Key,
               NEW batch \in Batch, TransferFrom(c, owner, recipient, batch)
        PROVE  Wedged'
    BY <2>4 DEF TransferFrom, Wedged
  <2>5. ASSUME NEW c \in Key, NEW t \in Token, NEW meta \in Metas,
               SetTokenMeta(c, t, meta)
        PROVE  Wedged'
    BY <2>5 DEF SetTokenMeta, Wedged
  <2> QED
    BY <2>1, <2>2, <2>3, <2>4, <2>5 DEF NFTNext
<1> QED
  BY <1>1, PTL DEF NFTSpec, WedgedForEver

-----------------------------------------------------------------------------
(* Refinement.                                                              *)

\* The tokens that owner_of gives to a key.
Held(own, k) == {t \in DOMAIN own : own[t] = k}

\* What the enumeration lists is what owner_of gives to the key.
LEMMA EnumeratedIsHeld ==
    ASSUME NFTInv, NEW k \in Key
    PROVE  Enumerated(k) = Held(owners, k)
<1>1. ASSUME NEW i \in 0..(owned.balances[k] - 1)
      PROVE  owned.tokens[<<k, i>>] \in Held(owners, k)
  <2>1. <<k, i>> \in DOMAIN owned.tokens
    BY DEF NFTInv, EnumerationMatchesOwnership, Enumerates, SlotsAreOwnedTokens
  <2>2. /\ owned.tokens[<<k, i>>] \in DOMAIN owners
        /\ owners[owned.tokens[<<k, i>>]] = <<k, i>>[1]
    BY <2>1 DEF NFTInv, EnumerationMatchesOwnership, Enumerates, SlotsAreOwnedTokens
  <2> QED
    BY <2>2 DEF Held
<1>2. ASSUME NEW t \in Held(owners, k)
      PROVE  \E i \in 0..(owned.balances[k] - 1) : owned.tokens[<<k, i>>] = t
  <2> DEFINE i == owned.indexes[<<k, t>>]
  <2>1. /\ t \in DOMAIN owners
        /\ t \in Token
        /\ owners[t] = k
    BY DEF Held, NFTInv, NFTTypeOK, IsDict
  <2>2. i \in Nat /\ owned.balances[k] \in Nat
    BY <2>1 DEF NFTInv, NFTTypeOK, OwnedTypeOK, IsDict, EnumerationMatchesOwnership,
                Enumerates, IndexesAreOwnedTokens
  <2>3. i < owned.balances[k] /\ owned.tokens[<<k, i>>] = t
    BY <2>1 DEF NFTInv, EnumerationMatchesOwnership, Enumerates, IndexesPointBack
  <2>4. i \in 0..(owned.balances[k] - 1)
    BY <2>2, <2>3
  <2> QED
    BY <2>3, <2>4
<1> QED
  BY <1>1, <1>2 DEF Enumerated

\* The abstract state, before and after a step.
Holding(own) == [k \in Key |-> Held(own, k)]

\* A mint issues a token nobody holds.
LEMMA MintIssues ==
    ASSUME NFTInv, NEW c \in Key, NEW to \in Key, Mint(c, to)
    PROVE  /\ NextTokenId \in Token
           /\ \A h \in Key : NextTokenId \notin Holding(owners)[h]
           /\ Holding(owners') =
                [Holding(owners) EXCEPT ![to] = Holding(owners)[to] \cup {NextTokenId}]
<1>1. /\ NextTokenId \in Token
      /\ NextTokenId \notin DOMAIN owners
      /\ owners' = DictSet(owners, NextTokenId, to)
  BY DEF Mint, DictHas
<1>2. ASSUME NEW h \in Key
      PROVE  Held(owners', h) = IF h = to THEN Held(owners, h) \cup {NextTokenId}
                                ELSE Held(owners, h)
  BY <1>1 DEF Held, DictSet
<1>3. \A h \in Key : NextTokenId \notin Holding(owners)[h]
  BY <1>1 DEF Holding, Held
<1>4. Holding(owners') =
        [Holding(owners) EXCEPT ![to] = Holding(owners)[to] \cup {NextTokenId}]
  BY <1>2 DEF Holding
<1> QED
  BY <1>1, <1>3, <1>4

\* A burn retires the token from its holder.
LEMMA BurnRetires ==
    ASSUME NFTInv, NEW c \in Key, NEW from \in Token, NEW to \in Token,
           Burn(c, from, to)
    PROVE  /\ owners[from] \in Key
           /\ from \in Holding(owners)[owners[from]]
           /\ Holding(owners') =
                [Holding(owners) EXCEPT ![owners[from]] =
                    Holding(owners)[owners[from]] \ {from}]
<1>1. /\ from \in DOMAIN owners
      /\ owners[from] \in Key
      /\ owners' = DictRemove(owners, from)
  BY DEF Burn, IsApprovedOrOwner, DictHas, NFTInv, NFTTypeOK, IsDict
<1>2. ASSUME NEW h \in Key
      PROVE  Held(owners', h) = IF h = owners[from] THEN Held(owners, h) \ {from}
                                ELSE Held(owners, h)
  BY <1>1 DEF Held, DictRemove
<1> QED
  BY <1>1, <1>2 DEF Holding, Held

\* A transfer gives tokens of one holder to another.
LEMMA TransferGives ==
    ASSUME NFTInv, NEW c \in Key, NEW owner \in Key, NEW recipient \in Key,
           NEW batch \in Batch, TransferFrom(c, owner, recipient, batch)
    PROVE  \/ /\ owner = recipient
              /\ Holding(owners') = Holding(owners)
           \/ /\ owner # recipient
              /\ Ids(batch) \subseteq Holding(owners)[owner]
              /\ Holding(owners') =
                   [Holding(owners) EXCEPT
                      ![owner] = Holding(owners)[owner] \ Ids(batch),
                      ![recipient] = Holding(owners)[recipient] \cup Ids(batch)]
<1>1. /\ owners' = Given(owners, batch, recipient)
      /\ \A t \in Ids(batch) : t \in DOMAIN owners /\ owners[t] = owner
  BY DEF TransferFrom, Given, AllOwnedBy, DictHas
<1>2. CASE owner = recipient
  <2>1. ASSUME NEW h \in Key PROVE Held(owners', h) = Held(owners, h)
    BY <1>1, <1>2 DEF Held, Given
  <2> QED
    BY <1>2, <2>1 DEF Holding
<1>3. CASE owner # recipient
  <2>1. ASSUME NEW h \in Key
        PROVE  Held(owners', h) = IF h = owner THEN Held(owners, h) \ Ids(batch)
                                  ELSE IF h = recipient THEN Held(owners, h) \cup Ids(batch)
                                  ELSE Held(owners, h)
    BY <1>1, <1>3 DEF Held, Given
  <2>2. Ids(batch) \subseteq Held(owners, owner)
    BY <1>1 DEF Held
  <2> QED
    BY <1>3, <2>1, <2>2 DEF Holding
<1> QED
  BY <1>2, <1>3

\* The ledger, for every number of keys and tokens, implements Holdings.
THEOREM LedgerImplementsHoldings == NFTSpec => EnumerationIsALedger
<1> DEFINE abs == [k \in Key |-> Enumerated(k)]
<1>1. NFTInv => abs = Holding(owners)
  BY EnumeratedIsHeld DEF Holding
<1>2. NFTInv' => abs' = Holding(owners')
  <2> SUFFICES ASSUME NFTInv' PROVE abs' = Holding(owners')
    OBVIOUS
  <2>1. (abs = Holding(owners))'
    BY <1>1, PTL
  <2> QED
    BY <2>1 DEF Holding, Held
<1>3. NFTInit => Abstract!Init
  BY DEF NFTInit, Abstract!Init, Enumerated
<1>4. NFTInv /\ NFTInv' /\ [NFTNext]_vars => [Abstract!Next]_abs
  <2> SUFFICES ASSUME NFTInv, NFTInv', [NFTNext]_vars PROVE [Abstract!Next]_abs
    OBVIOUS
  <2>1. abs = Holding(owners) /\ abs' = Holding(owners')
    BY <1>1, <1>2
  <2>2. ASSUME NEW c \in Key, NEW to \in Key, Mint(c, to) PROVE Abstract!Next
    BY <2>1, <2>2, MintIssues DEF Abstract!Next, Abstract!Issue
  <2>3. ASSUME NEW c \in Key, NEW from \in Token, NEW to \in Token, Burn(c, from, to)
        PROVE  Abstract!Next
    <3>1. PICK k \in Key :
            /\ from \in Holding(owners)[k]
            /\ Holding(owners') = [Holding(owners) EXCEPT ![k] = Holding(owners)[k] \ {from}]
      BY <2>3, BurnRetires
    <3>2. Abstract!Retire(k, from)
      BY <2>1, <3>1 DEF Abstract!Retire
    <3> QED
      BY <3>2 DEF Abstract!Next
  <2>4. ASSUME NEW c \in Key, NEW owner \in Key, NEW recipient \in Key,
               NEW batch \in Batch, TransferFrom(c, owner, recipient, batch)
        PROVE  [Abstract!Next]_abs
    BY <2>1, <2>4, TransferGives DEF Abstract!Next, Abstract!Give
  <2>5. CASE owners' = owners
    BY <2>1, <2>5
  <2> QED
    BY <2>2, <2>3, <2>4, <2>5 DEF NFTNext, Approve, SetTokenMeta, vars
<1> QED
  BY <1>3, <1>4, InitNFTInv, NextNFTInv, PTL
     DEF NFTSpec, EnumerationIsALedger, Abstract!Spec
=============================================================================
