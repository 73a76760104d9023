--------------------------- MODULE NFTEventsProofs --------------------------
(***************************************************************************)
(* Proof that the events of the ledger tell a reader who owns what.         *)
(***************************************************************************)
EXTENDS NFTEvents, NFTProofs

\* A dictionary is nothing but its keys and their values.
IsFunction(d) == d = [k \in DOMAIN d |-> d[k]]

\* What the reader knows, and what it rests on.
EventsInv ==
    /\ NFTInv
    /\ IsFunction(owners)
    /\ IsFunction(metadata)
    /\ EventsTellLedger

\* The constructor's state satisfies the invariant.
LEMMA InitEventsInv == EventsInit => EventsInv
<1> SUFFICES ASSUME EventsInit PROVE EventsInv
  OBVIOUS
<1>1. NFTInv
  BY InitNFTInv DEF EventsInit
<1>2. IsFunction(owners) /\ IsFunction(metadata)
  BY DEF EventsInit, NFTInit, EmptyDict, IsFunction
<1>3. EventsTellLedger
  BY DEF EventsInit, NFTInit, EventsTellLedger, EmptyDict
<1> QED
  BY <1>1, <1>2, <1>3 DEF EventsInv

\* The events of a mint.
LEMMA MintTold ==
    ASSUME EventsInv, NEW c \in Key, NEW to \in Key,
           Mint(c, to), Reads(MintEvents(to, {NextTokenId}))
    PROVE  IsFunction(owners)' /\ IsFunction(metadata)' /\ EventsTellLedger'
<1> DEFINE ev == MintEvents(to, {NextTokenId})
           e  == Event("mint", to, to, NextTokenId)
<1>1. ev = {e} /\ e.kind = "mint" /\ e.to = to /\ e.token = NextTokenId
  BY DEF MintEvents, Event
<1>2. /\ owners' = DictSet(owners, NextTokenId, to)
      /\ metadata' = DictSet(metadata, NextTokenId, EmptyMeta)
      /\ allowances' = allowances
  BY DEF Mint
<1> HIDE DEF ev, e
<1>3. OwnersTold(owners, ev) = owners'
  <2> DEFINE moved == {x \in ev : x.kind = "mint"
                          \/ (/\ x.kind = "transfer"
                              /\ DictHas(owners, x.token)
                              /\ owners[x.token] = x.from)}
             gained == {x.token : x \in moved}
  <2>1. moved = {e} /\ gained = {NextTokenId}
    BY <1>1
  <2>2. Tokens(ev, {"burn"}) = {}
    BY <1>1 DEF Tokens
  <2>3. OwnersTold(owners, ev)
          = [t \in (DOMAIN owners \ Tokens(ev, {"burn"})) \cup gained |->
               IF t \in gained THEN (CHOOSE x \in moved : x.token = t).to
               ELSE owners[t]]
    BY DEF OwnersTold
  <2> HIDE DEF moved, gained
  <2>4. (CHOOSE x \in moved : x.token = NextTokenId).to = to
    BY <1>1, <2>1
  <2> QED
    BY <1>2, <2>1, <2>2, <2>3, <2>4 DEF DictSet
<1>4. MetadataTold(metadata, ev) = metadata'
  <2>1. Tokens(ev, {"burn"}) = {} /\ Tokens(ev, {"mint", "metadata"}) = {NextTokenId}
    BY <1>1 DEF Tokens
  <2> QED
    BY <1>2, <2>1 DEF MetadataTold, DictSet
<1>5. \A p \in DOMAIN told.spenders :
         /\ p \in DOMAIN SpendersTold(told.spenders, ev)
         /\ SpendersTold(told.spenders, ev)[p] = told.spenders[p]
  BY <1>1 DEF SpendersTold
<1>6. EventsTellLedger'
  BY <1>2, <1>3, <1>4, <1>5 DEF Reads, EventsInv, EventsTellLedger, DictHas, ev
<1> QED
  BY <1>2, <1>6 DEF DictSet, IsFunction

\* The events of a burn.
LEMMA BurnTold ==
    ASSUME EventsInv, NEW c \in Key, NEW from \in Token, NEW to \in Token,
           Burn(c, from, to), Reads(BurnEvents(owners[from], {from}))
    PROVE  IsFunction(owners)' /\ IsFunction(metadata)' /\ EventsTellLedger'
<1> DEFINE owner == owners[from]
           ev == BurnEvents(owner, {from})
           e  == Event("burn", owner, owner, from)
<1>1. ev = {e} /\ e.kind = "burn" /\ e.from = owner /\ e.token = from
  BY DEF BurnEvents, Event
<1>2. /\ owners' = DictRemove(owners, from)
      /\ metadata' = DictRemove(metadata, from)
      /\ allowances' = DictRemove(allowances, <<owner, from>>)
  BY DEF Burn
<1> HIDE DEF ev, e, owner
<1>3. OwnersTold(owners, ev) = owners'
  <2>1. {x \in ev : x.kind = "mint"
              \/ (x.kind = "transfer" /\ DictHas(owners, x.token)
                    /\ owners[x.token] = x.from)} = {}
    BY <1>1
  <2>2. Tokens(ev, {"burn"}) = {from}
    BY <1>1 DEF Tokens
  <2> QED
    BY <1>2, <2>1, <2>2 DEF OwnersTold, DictRemove
<1>4. MetadataTold(metadata, ev) = metadata'
  <2>1. Tokens(ev, {"burn"}) = {from} /\ Tokens(ev, {"mint", "metadata"}) = {}
    BY <1>1 DEF Tokens
  <2> QED
    BY <1>2, <2>1 DEF MetadataTold, DictRemove
<1>5. \A p \in DOMAIN told.spenders \ {<<owner, from>>} :
         /\ p \in DOMAIN SpendersTold(told.spenders, ev)
         /\ SpendersTold(told.spenders, ev)[p] = told.spenders[p]
  BY <1>1 DEF SpendersTold
<1>6. EventsTellLedger'
  BY <1>2, <1>3, <1>4, <1>5
     DEF Reads, EventsInv, EventsTellLedger, DictHas, DictRemove, ev, owner
<1> QED
  BY <1>2, <1>6 DEF DictRemove, IsFunction

\* The events of an approval.
LEMMA ApproveTold ==
    ASSUME EventsInv, NEW c \in Key, NEW spender \in Key, NEW batch \in Batch,
           Approve(c, spender, batch), Reads(ApproveEvents(c, spender, Ids(batch)))
    PROVE  IsFunction(owners)' /\ IsFunction(metadata)' /\ EventsTellLedger'
<1> DEFINE ev == ApproveEvents(c, spender, Ids(batch))
<1>1. /\ \A e \in ev : /\ e.kind = "approve" /\ e.from = c /\ e.to = spender
                       /\ e.token \in Ids(batch)
      /\ \A t \in Ids(batch) : \E e \in ev : e.from = c /\ e.token = t
  <2>1. ASSUME NEW e \in ev
        PROVE  /\ e.kind = "approve" /\ e.from = c /\ e.to = spender
               /\ e.token \in Ids(batch)
    <3>1. PICK t \in Ids(batch) : e = Event("approve", c, spender, t)
      BY DEF ApproveEvents
    <3> QED
      BY <3>1 DEF Event
  <2>2. ASSUME NEW t \in Ids(batch)
        PROVE  \E e \in ev : e.from = c /\ e.token = t
    <3>1. Event("approve", c, spender, t) \in ev
      BY DEF ApproveEvents
    <3> QED
      BY <3>1 DEF Event
  <2> HIDE DEF ev
  <2> QED
    BY <2>1, <2>2
<1>2. /\ owners' = owners /\ metadata' = metadata
      /\ allowances' = [p \in DOMAIN allowances \cup ({c} \X Ids(batch)) |->
             IF p[1] = c /\ p[2] \in Ids(batch) THEN spender ELSE allowances[p]]
  BY DEF Approve
<1> HIDE DEF ev
<1>3. OwnersTold(owners, ev) = owners'
  <2>1. {x \in ev : x.kind = "mint"
              \/ (x.kind = "transfer" /\ DictHas(owners, x.token)
                    /\ owners[x.token] = x.from)} = {}
    BY <1>1
  <2>2. Tokens(ev, {"burn"}) = {}
    BY <1>1 DEF Tokens
  <2>3. OwnersTold(owners, ev) = [t \in DOMAIN owners |-> owners[t]]
    BY <2>1, <2>2 DEF OwnersTold
  <2>4. owners = [t \in DOMAIN owners |-> owners[t]]
    BY DEF EventsInv, IsFunction
  <2> QED
    BY <1>2, <2>3, <2>4
<1>4. MetadataTold(metadata, ev) = metadata'
  <2>1. Tokens(ev, {"burn"}) = {} /\ Tokens(ev, {"mint", "metadata"}) = {}
    BY <1>1 DEF Tokens
  <2> QED
    BY <1>2, <2>1 DEF MetadataTold, EventsInv, IsFunction
<1>5. ASSUME NEW p \in DOMAIN allowances'
      PROVE  /\ p \in DOMAIN SpendersTold(told.spenders, ev)
             /\ SpendersTold(told.spenders, ev)[p] = allowances'[p]
  <2> DEFINE approvals == {e \in ev : e.kind = "approve"}
             named == {<<e.from, e.token>> : e \in approvals}
             lapsed == {<<e.from, e.token>> : e \in {f \in ev : f.kind = "burn"}}
  <2>1. approvals = ev /\ lapsed = {}
    BY <1>1
  <2>2. named = {c} \X Ids(batch)
    BY <1>1, <2>1
  <2>3. SpendersTold(told.spenders, ev)
          = [q \in (DOMAIN told.spenders \ lapsed) \cup named |->
               IF q \in named
               THEN (CHOOSE e \in approvals : <<e.from, e.token>> = q).to
               ELSE told.spenders[q]]
    BY DEF SpendersTold
  <2> HIDE DEF approvals, named, lapsed
  <2>4. CASE p \in {c} \X Ids(batch)
    <3>1. \E e \in approvals : <<e.from, e.token>> = p
      BY <1>1, <2>1, <2>4
    <3>2. (CHOOSE e \in approvals : <<e.from, e.token>> = p) \in approvals
      BY <3>1
    <3>3. (CHOOSE e \in approvals : <<e.from, e.token>> = p).to = spender
      BY <1>1, <2>1, <3>2
    <3> QED
      BY <1>2, <2>2, <2>3, <2>4, <3>3
  <2>5. CASE p \notin {c} \X Ids(batch)
    <3>1. p \in DOMAIN allowances /\ p \in Key \X Token
      BY <1>2, <2>5 DEF EventsInv, NFTInv, NFTTypeOK, IsDict
    <3>2. ~(p[1] = c /\ p[2] \in Ids(batch))
      BY <2>5, <3>1
    <3>3. allowances'[p] = allowances[p]
      BY <1>2, <3>1, <3>2
    <3>4. p \in DOMAIN told.spenders /\ told.spenders[p] = allowances[p]
      BY <3>1 DEF EventsInv, EventsTellLedger, DictHas
    <3> QED
      BY <2>1, <2>2, <2>3, <2>5, <3>3, <3>4
  <2> QED
    BY <2>4, <2>5
<1>6. EventsTellLedger'
  BY <1>3, <1>4, <1>5 DEF Reads, EventsInv, EventsTellLedger, DictHas, ev
<1> QED
  BY <1>2, <1>6 DEF EventsInv, IsFunction

\* The events of a transfer.
LEMMA TransferTold ==
    ASSUME EventsInv, NEW c \in Key, NEW owner \in Key, NEW recipient \in Key,
           NEW batch \in Batch,
           TransferFrom(c, owner, recipient, batch),
           Reads(TransferEvents(owner, recipient, Ids(batch)))
    PROVE  IsFunction(owners)' /\ IsFunction(metadata)' /\ EventsTellLedger'
<1> DEFINE ev == TransferEvents(owner, recipient, Ids(batch))
           moved == {x \in ev : x.kind = "mint"
                        \/ (/\ x.kind = "transfer"
                            /\ DictHas(owners, x.token)
                            /\ owners[x.token] = x.from)}
           gained == {e.token : e \in moved}
<1>1. /\ \A e \in ev : /\ e.kind = "transfer" /\ e.from = owner /\ e.to = recipient
                       /\ e.token \in Ids(batch)
      /\ \A t \in Ids(batch) : \E e \in ev : e.token = t
  <2>1. ASSUME NEW e \in ev
        PROVE  /\ e.kind = "transfer" /\ e.from = owner /\ e.to = recipient
               /\ e.token \in Ids(batch)
    <3>1. PICK t \in Ids(batch) : e = Event("transfer", owner, recipient, t)
      BY DEF TransferEvents
    <3> QED
      BY <3>1 DEF Event
  <2>2. ASSUME NEW t \in Ids(batch)
        PROVE  \E e \in ev : e.token = t
    <3>1. Event("transfer", owner, recipient, t) \in ev
      BY DEF TransferEvents
    <3> QED
      BY <3>1 DEF Event
  <2> HIDE DEF ev
  <2> QED
    BY <2>1, <2>2
<1>2. /\ owners' = [t \in DOMAIN owners |->
                       IF t \in Ids(batch) THEN recipient ELSE owners[t]]
      /\ metadata' = metadata
      /\ \A t \in Ids(batch) : t \in DOMAIN owners /\ owners[t] = owner
  BY DEF TransferFrom, AllOwnedBy, DictHas
<1>3. \A p \in DOMAIN allowances' :
         p \in DOMAIN allowances /\ allowances'[p] = allowances[p]
  BY DEF TransferFrom, SpendApprovals
<1> HIDE DEF ev
<1>4. moved = ev
  BY <1>1, <1>2 DEF DictHas
<1>5. gained = Ids(batch) /\ Ids(batch) \subseteq DOMAIN owners
  BY <1>1, <1>2, <1>4
<1>6. OwnersTold(owners, ev) = owners'
  <2>1. Tokens(ev, {"burn"}) = {}
    BY <1>1 DEF Tokens
  <2>2. OwnersTold(owners, ev)
          = [t \in (DOMAIN owners \ Tokens(ev, {"burn"})) \cup gained |->
               IF t \in gained THEN (CHOOSE e \in moved : e.token = t).to
               ELSE owners[t]]
    BY DEF OwnersTold
  <2> HIDE DEF moved, gained
  <2>3. ASSUME NEW t \in Ids(batch)
        PROVE  (CHOOSE e \in moved : e.token = t).to = recipient
    <3>1. \E e \in moved : e.token = t
      BY <1>1, <1>4
    <3>2. (CHOOSE e \in moved : e.token = t) \in moved
      BY <3>1
    <3> QED
      BY <1>1, <1>4, <3>2
  <2>4. (DOMAIN owners \ Tokens(ev, {"burn"})) \cup gained = DOMAIN owners
    BY <1>5, <2>1
  <2> QED
    BY <1>2, <1>5, <2>2, <2>3, <2>4
<1>7. MetadataTold(metadata, ev) = metadata'
  <2>1. Tokens(ev, {"burn"}) = {} /\ Tokens(ev, {"mint", "metadata"}) = {}
    BY <1>1 DEF Tokens
  <2> QED
    BY <1>2, <2>1 DEF MetadataTold, EventsInv, IsFunction
<1>8. \A p \in DOMAIN told.spenders :
         /\ p \in DOMAIN SpendersTold(told.spenders, ev)
         /\ SpendersTold(told.spenders, ev)[p] = told.spenders[p]
  BY <1>1 DEF SpendersTold
<1>9. EventsTellLedger'
  BY <1>3, <1>6, <1>7, <1>8 DEF Reads, EventsInv, EventsTellLedger, DictHas, ev
<1> QED
  BY <1>2, <1>9 DEF EventsInv, IsFunction

\* The event of new metadata.
LEMMA MetadataUpdateTold ==
    ASSUME EventsInv, NEW c \in Key, NEW t \in Token, NEW meta \in Metas,
           SetTokenMeta(c, t, meta), Reads(MetadataUpdateEvents(c, t))
    PROVE  IsFunction(owners)' /\ IsFunction(metadata)' /\ EventsTellLedger'
<1> DEFINE ev == MetadataUpdateEvents(c, t)
           e  == Event("metadata", c, c, t)
<1>1. ev = {e} /\ e.kind = "metadata" /\ e.token = t
  BY DEF MetadataUpdateEvents, Event
<1>2. /\ owners' = owners /\ allowances' = allowances
      /\ metadata' = DictSet(metadata, t, meta)
  BY DEF SetTokenMeta
<1> HIDE DEF ev, e
<1>3. OwnersTold(owners, ev) = owners'
  <2>1. {x \in ev : x.kind = "mint"
              \/ (x.kind = "transfer" /\ DictHas(owners, x.token)
                    /\ owners[x.token] = x.from)} = {}
    BY <1>1
  <2>2. Tokens(ev, {"burn"}) = {}
    BY <1>1 DEF Tokens
  <2>3. OwnersTold(owners, ev) = [i \in DOMAIN owners |-> owners[i]]
    BY <2>1, <2>2 DEF OwnersTold
  <2>4. owners = [i \in DOMAIN owners |-> owners[i]]
    BY DEF EventsInv, IsFunction
  <2> QED
    BY <1>2, <2>3, <2>4
<1>4. MetadataTold(metadata, ev) = metadata'
  <2>1. Tokens(ev, {"burn"}) = {} /\ Tokens(ev, {"mint", "metadata"}) = {t}
    BY <1>1 DEF Tokens
  <2> QED
    BY <1>2, <2>1 DEF MetadataTold, DictSet
<1>5. \A p \in DOMAIN told.spenders :
         /\ p \in DOMAIN SpendersTold(told.spenders, ev)
         /\ SpendersTold(told.spenders, ev)[p] = told.spenders[p]
  BY <1>1 DEF SpendersTold
<1>6. EventsTellLedger'
  BY <1>2, <1>3, <1>4, <1>5 DEF Reads, EventsInv, EventsTellLedger, DictHas, ev
<1> QED
  BY <1>2, <1>6 DEF DictSet, EventsInv, IsFunction

\* Every step keeps the invariant.
LEMMA NextEventsInv == EventsInv /\ [EventsNext]_eventsVars => EventsInv'
<1> SUFFICES ASSUME EventsInv, [EventsNext]_eventsVars PROVE EventsInv'
  OBVIOUS
<1>1. NFTInv'
  <2>1. [NFTNext]_vars
    BY DEF EventsNext, eventsVars, NFTNext
  <2> QED
    BY <2>1, NextNFTInv DEF EventsInv
<1>2. CASE UNCHANGED eventsVars
  BY <1>1, <1>2 DEF EventsInv, eventsVars, vars, EventsTellLedger, IsFunction
<1>3. ASSUME NEW c \in Key, NEW to \in Key,
             Mint(c, to), Reads(MintEvents(to, {NextTokenId}))
      PROVE  EventsInv'
  BY <1>1, <1>3, MintTold DEF EventsInv
<1>4. ASSUME NEW c \in Key, NEW from \in Token, NEW to \in Token,
             Burn(c, from, to), Reads(BurnEvents(owners[from], {from}))
      PROVE  EventsInv'
  BY <1>1, <1>4, BurnTold DEF EventsInv
<1>5. ASSUME NEW c \in Key, NEW spender \in Key, NEW batch \in Batch,
             Approve(c, spender, batch), Reads(ApproveEvents(c, spender, Ids(batch)))
      PROVE  EventsInv'
  BY <1>1, <1>5, ApproveTold DEF EventsInv
<1>6. ASSUME NEW c \in Key, NEW owner \in Key, NEW recipient \in Key, NEW batch \in Batch,
             TransferFrom(c, owner, recipient, batch),
             Reads(TransferEvents(owner, recipient, Ids(batch)))
      PROVE  EventsInv'
  BY <1>1, <1>6, TransferTold DEF EventsInv
<1>7. ASSUME NEW c \in Key, NEW t \in Token, NEW meta \in Metas,
             SetTokenMeta(c, t, meta), Reads(MetadataUpdateEvents(c, t))
      PROVE  EventsInv'
  BY <1>1, <1>7, MetadataUpdateTold DEF EventsInv
<1> QED
  BY <1>2, <1>3, <1>4, <1>5, <1>6, <1>7 DEF EventsNext

\* For any keys, tokens and metadata, a reader of the events knows the owner
\* and the metadata of every token and every spender that could move one.
THEOREM EventsTell == EventsSpec => []EventsTellLedger
<1>1. EventsInv => EventsTellLedger
  BY DEF EventsInv
<1> QED
  BY <1>1, InitEventsInv, NextEventsInv, PTL DEF EventsSpec
=============================================================================
