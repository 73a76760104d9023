-------------------------------- MODULE NFT ---------------------------------
(***************************************************************************)
(* The CEP-47 ledger of the contract: src/ve/src/data.rs (its storage),     *)
(* src/ve/src/cep47.rs (its operations), and the places where the escrow    *)
(* drives it: create_lock mints and merge burns (src/ve/src/vedata.rs).     *)
(*                                                                          *)
(* A deploy runs alone and a revert undoes everything it wrote, so an entry *)
(* point is one action and a path that reverts is a step that is not taken. *)
(*                                                                          *)
(* Entry points take vectors of token ids.  Vectors of one and of two ids   *)
(* are modelled, the same id twice included: the second id is processed in  *)
(* the state the first one left.                                            *)
(***************************************************************************)
EXTENDS Dict, Naturals, Sequences, FiniteSets

CONSTANTS
    Key,        \* accounts and contracts that hold tokens or make calls
    MaxToken,   \* bound: the largest token id minted
    Metas,      \* metadata values
    EmptyMeta   \* the empty map, a new token's metadata

ASSUME NFTAssumption ==
    /\ MaxToken \in Nat \ {0}
    /\ EmptyMeta \in Metas

VARIABLES
    owners,       \* Owners: token -> its owner
    owned,        \* OwnedTokens: the enumeration of every owner's tokens
    metadata,     \* Metadata: token -> its metadata
    allowances,   \* Allowances: <<owner, token>> -> the approved spender
    totalSupply,  \* TOTAL_SUPPLY
    caller        \* the immediate caller of the last call

vars == <<owners, owned, metadata, allowances, totalSupply, caller>>

Token == 1..MaxToken

\* The token id vectors of a call.
Batch == {<<t>> : t \in Token} \cup (Token \X Token)

\* The ids of a vector.
Ids(batch) == {batch[i] : i \in DOMAIN batch}

-----------------------------------------------------------------------------
(* OwnedTokens: every owner's tokens are numbered 0 .. balance - 1.         *)

\* Mutant of SetToken: the new token overwrites the last slot.
SetTokenOverLast(o, k, t) ==
    LET slot == IF o.balances[k] = 0 THEN 0 ELSE o.balances[k] - 1
    IN  [indexes  |-> DictSet(o.indexes, <<k, t>>, slot),
         tokens   |-> DictSet(o.tokens, <<k, slot>>, t),
         balances |-> [o.balances EXCEPT ![k] = @ + 1]]

\* The token takes the first free number of its owner.
SetToken(o, k, t) ==
    LET length == o.balances[k]
    IN  [indexes  |-> DictSet(o.indexes, <<k, t>>, length),
         tokens   |-> DictSet(o.tokens, <<k, length>>, t),
         balances |-> [o.balances EXCEPT ![k] = length + 1]]

\* Mutant of RemoveToken: the token moved into the hole keeps its old index.
RemoveTokenStaleIndex(o, k, t) ==
    LET length == o.balances[k]
        index  == o.indexes[<<k, t>>]
        last   == o.tokens[<<k, length - 1>>]
    IN  [indexes  |-> DictRemove(o.indexes, <<k, t>>),
         tokens   |-> IF length > index + 1
                      THEN DictRemove(DictSet(o.tokens, <<k, index>>, last),
                                      <<k, length - 1>>)
                      ELSE DictRemove(o.tokens, <<k, length - 1>>),
         balances |-> [o.balances EXCEPT ![k] = length - 1]]

\* remove_token unwraps the token's index and, unless the token is its
\* owner's last, the last token's number: absent, the deploy reverts.
CanRemove(o, k, t) ==
    /\ DictHas(o.indexes, <<k, t>>)
    /\ o.balances[k] > o.indexes[<<k, t>>] + 1
           => DictHas(o.tokens, <<k, o.balances[k] - 1>>)

\* The owner's last token is moved into the hole the removed one leaves.
RemoveToken(o, k, t) ==
    LET length  == o.balances[k]
        index   == o.indexes[<<k, t>>]
        last    == o.tokens[<<k, length - 1>>]
        isLast  == length = index + 1
        isInner == length > index + 1
    IN  [indexes  |-> DictRemove(IF isInner
                                 THEN DictSet(o.indexes, <<k, last>>, index)
                                 ELSE o.indexes,
                                 <<k, t>>),
         tokens   |-> CASE isLast -> DictRemove(o.tokens, <<k, length - 1>>)
                        [] isInner ->
                             DictRemove(DictSet(o.tokens, <<k, index>>, last),
                                        <<k, length - 1>>)
                        [] OTHER -> o.tokens,
         balances |-> IF isLast \/ isInner
                      THEN [o.balances EXCEPT ![k] = length - 1]
                      ELSE o.balances]

\* One round of the loop of transfer_from_internal.
Move(o, from, to, t) == SetToken(RemoveToken(o, from, t), to, t)

\* The whole loop: the second id finds what the first one left.
CanMoveAll(o, from, to, batch) ==
    /\ CanRemove(o, from, batch[1])
    /\ Len(batch) = 2 => CanRemove(Move(o, from, to, batch[1]), from, batch[2])

MoveAll(o, from, to, batch) ==
    IF Len(batch) = 2
    THEN Move(Move(o, from, to, batch[1]), from, to, batch[2])
    ELSE Move(o, from, to, batch[1])

-----------------------------------------------------------------------------
(* Authorisation.                                                           *)

\* is_approved.
IsApproved(owner, t, spender) ==
    /\ DictHas(allowances, <<owner, t>>)
    /\ allowances[<<owner, t>>] = spender

\* owner_of(..).unwrap() traps when the token has no owner.
IsApprovedOrOwner(t, spender) ==
    /\ DictHas(owners, t)
    /\ owners[t] = spender \/ IsApproved(owners[t], t, spender)

\* The owner check of burn_internal and transfer_from_internal.
AllOwnedBy(owner, batch) ==
    \A t \in Ids(batch) : DictHas(owners, t) /\ owners[t] = owner

-----------------------------------------------------------------------------
(* The entry points.                                                        *)

NFTInit ==
    /\ owners = EmptyDict
    /\ owned = [indexes |-> EmptyDict, tokens |-> EmptyDict,
                balances |-> [k \in Key |-> 0]]
    /\ metadata = EmptyDict
    /\ allowances = EmptyDict
    /\ totalSupply = 0
    /\ caller \in Key

\* The id _create_lock gives to the token it mints.
NextTokenId == totalSupply + 1

\* Mutant of Mint: an id that is in use is minted over.
MintOverwriting(c, to) ==
    /\ NextTokenId \in Token
    /\ owners' = DictSet(owners, NextTokenId, to)
    /\ metadata' = DictSet(metadata, NextTokenId, EmptyMeta)
    /\ owned' = SetToken(owned, to, NextTokenId)
    /\ totalSupply' = totalSupply + 1
    /\ caller' = c
    /\ UNCHANGED allowances

\* The ledger's part of create_lock (to is the caller) and of
\* create_lock_for.  mint fails with TokenIdAlreadyExists on an id in use.
Mint(c, to) ==
    /\ NextTokenId \in Token
    /\ ~DictHas(owners, NextTokenId)
    /\ metadata' = DictSet(metadata, NextTokenId, EmptyMeta)
    /\ owners' = DictSet(owners, NextTokenId, to)
    /\ owned' = SetToken(owned, to, NextTokenId)
    /\ totalSupply' = totalSupply + 1
    /\ caller' = c
    /\ UNCHANGED allowances

\* Mutant of Burn: burn counts the token, and burn_internal again.
BurnCountedTwice(c, from, to) ==
    LET owner == owners[from]
    IN  /\ from # to
        /\ IsApprovedOrOwner(from, c)
        /\ IsApprovedOrOwner(to, c)
        /\ CanRemove(owned, owner, from)
        /\ owned' = RemoveToken(owned, owner, from)
        /\ metadata' = DictRemove(metadata, from)
        /\ owners' = DictRemove(owners, from)
        /\ allowances' = DictRemove(allowances, <<owner, from>>)
        /\ totalSupply' = totalSupply - 2
        /\ caller' = c

\* The ledger's part of merge: _burn_nft(from), burn and burn_internal.
Burn(c, from, to) ==
    LET owner == owners[from]
    IN  /\ from # to
        /\ IsApprovedOrOwner(from, c)
        /\ IsApprovedOrOwner(to, c)
        /\ CanRemove(owned, owner, from)
        /\ owned' = RemoveToken(owned, owner, from)
        /\ metadata' = DictRemove(metadata, from)
        /\ owners' = DictRemove(owners, from)
        /\ allowances' = DictRemove(allowances, <<owner, from>>)
        /\ totalSupply' = totalSupply - 1
        /\ caller' = c

\* approve: the caller names a spender for tokens it owns.
Approve(c, spender, batch) ==
    /\ AllOwnedBy(c, batch)
    /\ allowances' =
         [p \in DOMAIN allowances \cup ({c} \X Ids(batch)) |->
             IF p[1] = c /\ p[2] \in Ids(batch) THEN spender ELSE allowances[p]]
    /\ caller' = c
    /\ UNCHANGED <<owners, owned, metadata, totalSupply>>

\* Mutant of SpendApprovals: the approvals are checked and kept.
KeepApprovals(c, owner, batch) ==
    /\ c # owner => \A t \in Ids(batch) : IsApproved(owner, t, c)
    /\ UNCHANGED allowances

\* Mutant of SpendApprovals: approvals are used up without being looked at.
SpendUnchecked(c, owner, batch) ==
    \/ /\ c = owner
       /\ UNCHANGED allowances
    \/ /\ c # owner
       /\ allowances' = [p \in DOMAIN allowances \ ({owner} \X Ids(batch)) |->
                            allowances[p]]

\* A spender uses up its approval for every id, so the same id twice fails.
SpendApprovals(c, owner, batch) ==
    \/ /\ c = owner
       /\ UNCHANGED allowances
    \/ /\ c # owner
       /\ Len(batch) = 2 => batch[1] # batch[2]
       /\ \A t \in Ids(batch) : IsApproved(owner, t, c)
       /\ allowances' = [p \in DOMAIN allowances \ ({owner} \X Ids(batch)) |->
                            allowances[p]]

\* transfer_from; transfer is transfer_from with the caller as owner.
TransferFrom(c, owner, recipient, batch) ==
    /\ SpendApprovals(c, owner, batch)
    /\ AllOwnedBy(owner, batch)
    /\ CanMoveAll(owned, owner, recipient, batch)
    /\ owned' = MoveAll(owned, owner, recipient, batch)
    /\ owners' = [t \in DOMAIN owners |->
                     IF t \in Ids(batch) THEN recipient ELSE owners[t]]
    /\ caller' = c
    /\ UNCHANGED <<metadata, totalSupply>>

\* update_token_meta: any caller, any token that exists.
SetTokenMeta(c, t, meta) ==
    /\ DictHas(owners, t)
    /\ metadata' = DictSet(metadata, t, meta)
    /\ caller' = c
    /\ UNCHANGED <<owners, owned, allowances, totalSupply>>

NFTNext ==
    \E c \in Key :
        \/ \E to \in Key : Mint(c, to)
        \/ \E from, to \in Token : Burn(c, from, to)
        \/ \E spender \in Key, batch \in Batch : Approve(c, spender, batch)
        \/ \E owner, recipient \in Key, batch \in Batch :
               TransferFrom(c, owner, recipient, batch)
        \/ \E t \in Token, meta \in Metas : SetTokenMeta(c, t, meta)

NFTSpec == NFTInit /\ [][NFTNext]_vars

-----------------------------------------------------------------------------
(* Properties.                                                              *)

OwnedTypeOK(o) ==
    /\ IsDict(o.indexes, Key \X Token, Nat)
    /\ IsDict(o.tokens, Key \X Nat, Token)
    /\ o.balances \in [Key -> Nat]

NFTTypeOK ==
    /\ IsDict(owners, Token, Key)
    /\ DOMAIN owned = {"indexes", "tokens", "balances"}
    /\ OwnedTypeOK(owned)
    /\ IsDict(metadata, Token, Metas)
    /\ IsDict(allowances, Key \X Token, Key)
    /\ totalSupply \in Nat
    /\ caller \in Key

\* The index dictionary has a key's owned tokens and no other.
IndexesAreOwnedTokens(o, own) ==
    \A k \in Key, t \in Token :
        <<k, t>> \in DOMAIN o.indexes <=> t \in DOMAIN own /\ own[t] = k

\* A token's index is below its owner's balance and leads back to the token.
IndexesPointBack(o, own) ==
    \A t \in DOMAIN own :
        LET index == o.indexes[<<own[t], t>>]
        IN  /\ index < o.balances[own[t]]
            /\ o.tokens[<<own[t], index>>] = t

\* The slots in use are those below the balance, and hold tokens of the key.
SlotsAreOwnedTokens(o, own) ==
    /\ \A k \in Key : \A i \in 0..(o.balances[k] - 1) : <<k, i>> \in DOMAIN o.tokens
    /\ \A p \in DOMAIN o.tokens :
         LET t == o.tokens[p]
         IN  /\ p[2] < o.balances[p[1]]
             /\ t \in DOMAIN own
             /\ own[t] = p[1]
             /\ o.indexes[<<p[1], t>>] = p[2]

\* o numbers the tokens that own gives to every key.
Enumerates(o, own) ==
    /\ IndexesAreOwnedTokens(o, own)
    /\ IndexesPointBack(o, own)
    /\ SlotsAreOwnedTokens(o, own)

\* The three dictionaries of OwnedTokens and Owners always describe the same
\* holdings: numbering a key's tokens 0 .. balance - 1 lists exactly the tokens
\* owner_of gives to it, each once, whatever the order of mints, swap-and-pop
\* removals, self-transfers and vectors that name an id twice.
EnumerationMatchesOwnership == Enumerates(owned, owners)

\* TOTAL_SUPPLY, kept by arithmetic in mint and burn, is the number of tokens
\* that have an owner, and exactly those have metadata.
SupplyIsLiveTokens ==
    /\ totalSupply = Cardinality(DOMAIN owners)
    /\ DOMAIN metadata = DOMAIN owners

\* A token that has an owner changes hands, or disappears, only in a call made
\* by that owner or by the spender that owner had approved for it.
OwnerChangeAuthorised ==
    [][\A t \in DOMAIN owners :
         t \notin DOMAIN owners' \/ owners'[t] # owners[t]
             => caller' = owners[t] \/ IsApproved(owners[t], t, caller')]_vars

\* An approval is written only by the key it is an approval of, while it owns
\* the token; and a spender that moves a token has used its approval up.
ApprovalsAreOwnersAndUsedOnce ==
    [][/\ \A p \in DOMAIN allowances' :
            p \notin DOMAIN allowances \/ allowances'[p] # allowances[p]
                => caller' = p[1] /\ DictHas(owners, p[2]) /\ owners[p[2]] = p[1]
       /\ \A t \in DOMAIN owners :
            /\ t \notin DOMAIN owners' \/ owners'[t] # owners[t]
            /\ caller' # owners[t]
            => ~DictHas(allowances', <<owners[t], t>>)]_vars

\* Wedged: token 2 is the only token left, so TOTAL_SUPPLY + 1 is its own id.
Wedged == DOMAIN owners = {2} /\ totalSupply = 1

\* _create_lock numbers tokens by the supply, which merge lowers.  Once merges
\* leave token 2 alone, no lock is ever created again: minting collides with
\* token 2, and merging needs a second token.
WedgedForEver == [][Wedged => Wedged']_vars
=============================================================================
