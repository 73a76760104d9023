----------------------------- MODULE NFTEvents ------------------------------
(***************************************************************************)
(* The events of the ledger (src/ve/src/event.rs, emit of src/ve/src/       *)
(* data.rs) and a reader that knows the contract by them only.              *)
(*                                                                          *)
(* emit writes every event to a fresh URef, one for every token id of the   *)
(* call: the events of a call have no order and are a set.  The reader      *)
(* takes in the events of a call before those of the next.                  *)
(***************************************************************************)
EXTENDS NFT

VARIABLE told   \* what the reader makes of the events so far

eventsVars == <<vars, told>>

\* An event about token t.  from is owner or sender, to is recipient or
\* spender; a key that the kind has no use for is left as given.
Event(kind, from, to, t) == [kind |-> kind, from |-> from, to |-> to, token |-> t]

MintEvents(recipient, ids) == {Event("mint", recipient, recipient, t) : t \in ids}

BurnEvents(owner, ids) == {Event("burn", owner, owner, t) : t \in ids}

ApproveEvents(owner, spender, ids) == {Event("approve", owner, spender, t) : t \in ids}

\* Mutant of TransferEvents: the keys change places.
TransferEventsSwapped(sender, recipient, ids) ==
    {Event("transfer", recipient, sender, t) : t \in ids}

TransferEvents(sender, recipient, ids) ==
    {Event("transfer", sender, recipient, t) : t \in ids}

MetadataUpdateEvents(c, t) == {Event("metadata", c, c, t)}

-----------------------------------------------------------------------------
(* The reader.                                                              *)

Tokens(events, kinds) == {e.token : e \in {f \in events : f.kind \in kinds}}

\* Owners change hands as the events say, when the reader has them as owned by
\* the key that the event names.
OwnersTold(known, events) ==
    LET moved  == {e \in events : e.kind = "mint"
                        \/ /\ e.kind = "transfer"
                           /\ DictHas(known, e.token)
                           /\ known[e.token] = e.from}
        gained == {e.token : e \in moved}
    IN  [t \in (DOMAIN known \ Tokens(events, {"burn"})) \cup gained |->
            IF t \in gained THEN (CHOOSE e \in moved : e.token = t).to ELSE known[t]]

\* A spender is taken to be approved until another is or the token is burnt:
\* no event says that an approval was used up.
SpendersTold(known, events) ==
    LET approvals == {e \in events : e.kind = "approve"}
        named     == {<<e.from, e.token>> : e \in approvals}
        lapsed    == {<<e.from, e.token>> : e \in {f \in events : f.kind = "burn"}}
    IN  [p \in (DOMAIN known \ lapsed) \cup named |->
            IF p \in named
            THEN (CHOOSE e \in approvals : <<e.from, e.token>> = p).to
            ELSE known[p]]

\* Metadata are read (token_meta) when an event says they are new.
MetadataTold(known, events) ==
    LET fresh == Tokens(events, {"mint", "metadata"})
    IN  [t \in (DOMAIN known \ Tokens(events, {"burn"})) \cup fresh |->
            IF t \in fresh THEN metadata'[t] ELSE known[t]]

Reads(events) ==
    told' = [owners   |-> OwnersTold(told.owners, events),
             spenders |-> SpendersTold(told.spenders, events),
             metadata |-> MetadataTold(told.metadata, events)]

-----------------------------------------------------------------------------
(* The entry points with what they emit.                                    *)

EventsInit ==
    /\ NFTInit
    /\ told = [owners |-> EmptyDict, spenders |-> EmptyDict, metadata |-> EmptyDict]

EventsNext ==
    \E c \in Key :
        \/ \E to \in Key :
              Mint(c, to) /\ Reads(MintEvents(to, {NextTokenId}))
        \/ \E from, to \in Token :
              Burn(c, from, to) /\ Reads(BurnEvents(owners[from], {from}))
        \/ \E spender \in Key, batch \in Batch :
              /\ Approve(c, spender, batch)
              /\ Reads(ApproveEvents(c, spender, Ids(batch)))
        \/ \E owner, recipient \in Key, batch \in Batch :
              /\ TransferFrom(c, owner, recipient, batch)
              /\ Reads(TransferEvents(owner, recipient, Ids(batch)))
        \/ \E t \in Token, meta \in Metas :
              SetTokenMeta(c, t, meta) /\ Reads(MetadataUpdateEvents(c, t))

EventsSpec == EventsInit /\ [][EventsNext]_eventsVars

-----------------------------------------------------------------------------
(* Properties.                                                              *)

\* Whoever follows the events, in whatever order those of one call come, knows
\* the owner and the metadata of every token, and of no token that was burnt;
\* and knows every spender who could move a token, though it may take a
\* spender for approved whose approval is used up.
EventsTellLedger ==
    /\ told.owners = owners
    /\ told.metadata = metadata
    /\ \A p \in DOMAIN allowances :
          DictHas(told.spenders, p) /\ told.spenders[p] = allowances[p]
=============================================================================
