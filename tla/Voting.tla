------------------------------- MODULE Voting -------------------------------
(***************************************************************************)
(* DAO voting of src/ve/src/vedata.rs on top of the ledger of module NFT:   *)
(* every account has a history of checkpoints, vectors of the tokens that   *)
(* vote through it.  A key delegates all its tokens at once; create_lock    *)
(* and merge touch the checkpoints of one token; the transfers of the       *)
(* ledger do not touch them.                                                *)
(*                                                                          *)
(* utils::is_null compares the 33 bytes of a key with 32 zeros and is never *)
(* true: the null key is an account like any other, and has checkpoints.    *)
(*                                                                          *)
(* Nothing sets the timestamp of a checkpoint, which stays 0.  That is no   *)
(* block time, so _find_what_checkpoint_to_write never finds a checkpoint   *)
(* of the present to write over; and no timestamp asked for is earlier, so  *)
(* _get_past_votes_index answers every one with the latest.                 *)
(***************************************************************************)
EXTENDS NFT, Search, FiniteSetsExt

CONSTANTS
    NullKey,       \* utils::null_key
    MaxDelegates   \* MAX_DELEGATES

ASSUME VotingAssumption ==
    /\ NullKey \notin Key
    /\ MaxDelegates \in Nat

VARIABLES
    delegate,     \* DELEGATES, with the null key for keys it lacks
    checkpoints   \* NUM_CHECKPOINTS and CHECKPOINTS of every account

votingVars == <<vars, delegate, checkpoints>>

Account == Key \cup {NullKey}

-----------------------------------------------------------------------------
(* A checkpoint: how often its vector has each token.  No code reads the    *)
(* order.                                                                   *)

Nothing == [t \in Token |-> 0]

Size(cp) == SumFunctionOnSet(cp, Token)

\* Mutant of Without: one is taken off without looking.
WithoutOnce(cp, S) == [t \in Token |-> IF t \in S THEN cp[t] - 1 ELSE cp[t]]

\* The copying loop that leaves tokens out.
Without(cp, S) == [t \in Token |-> IF t \in S THEN 0 ELSE cp[t]]

Plus(cp, more) == [t \in Token |-> cp[t] + more[t]]

\* get_check_point, of index i from 0.
CheckPointAt(a, i) ==
    IF i < Len(checkpoints[a]) THEN checkpoints[a][i + 1] ELSE Nothing

\* The checkpoint that the code changing one starts from.
LastOf(history) == IF history = <<>> THEN Nothing ELSE history[Len(history)]

Last(a) == LastOf(checkpoints[a])

-----------------------------------------------------------------------------
(* Moving votes.                                                            *)

\* TooManyTokenIds, looked at in the state that the source's half left.
TokenMoveFits(cps, src, dst, t) ==
    src # dst => Size(LastOf(cps[dst])) + 1 <= MaxDelegates

\* _move_token_delegates: the source loses the token, and so does the
\* destination, which never gets it.
TokenMoved(cps, src, dst, t) ==
    IF src = dst THEN cps
    ELSE [cps EXCEPT ![src] = Append(@, Without(LastOf(@), {t})),
                     ![dst] = Append(@, Without(LastOf(@), {t}))]

\* The tokens the enumeration of the ledger lists for k.
HeldBy(k) ==
    [t \in Token |->
        Cardinality({i \in 0..(owned.balances[k] - 1) : owned.tokens[<<k, i>>] = t})]

\* Mutant of CanMoveAllVotes: a vector may be as long as it likes.
CanMoveAnyNumber(k, src, dst) ==
    src # dst => \A t \in Token : Last(src)[t] > 0 => DictHas(owners, t)

\* owner_of(..).unwrap() of every token the source votes with, and
\* TooManyTokenIds of the destination.
CanMoveAllVotes(k, src, dst) ==
    src # dst =>
        /\ \A t \in Token : Last(src)[t] > 0 => DictHas(owners, t)
        /\ Size(Last(dst)) + owned.balances[k] <= MaxDelegates

\* Mutant of AllVotesMoved: the source keeps the tokens of k.
AllVotesCopied(k, src, dst) ==
    IF src = dst THEN checkpoints
    ELSE [checkpoints EXCEPT ![src] = Append(@, LastOf(@)),
                             ![dst] = Append(@, Plus(LastOf(@), HeldBy(k)))]

\* Mutant of AllVotesMoved: what the source keeps goes to the destination too.
AllVotesHandedOver(k, src, dst) ==
    LET kept == Without(Last(src), {t \in DOMAIN owners : owners[t] = k})
    IN  IF src = dst THEN checkpoints
        ELSE [checkpoints EXCEPT
                ![src] = Append(@, kept),
                ![dst] = Append(@, Plus(Plus(LastOf(@), HeldBy(k)), kept))]

\* _move_all_delegates: the source keeps the tokens that k does not own, the
\* destination gets all that k owns.
AllVotesMoved(k, src, dst) ==
    IF src = dst THEN checkpoints
    ELSE [checkpoints EXCEPT
            ![src] = Append(@, Without(LastOf(@), {t \in DOMAIN owners : owners[t] = k})),
            ![dst] = Append(@, Plus(LastOf(@), HeldBy(k)))]

-----------------------------------------------------------------------------
(* The entry points.                                                        *)

VotingInit ==
    /\ NFTInit
    /\ delegate = [k \in Key |-> NullKey]
    /\ checkpoints = [a \in Account |-> <<>>]

\* delegate.
Delegate(c, delegatee) ==
    /\ CanMoveAllVotes(c, delegate[c], delegatee)
    /\ delegate' = [delegate EXCEPT ![c] = delegatee]
    /\ checkpoints' = AllVotesMoved(c, delegate[c], delegatee)
    /\ caller' = c
    /\ UNCHANGED <<owners, owned, metadata, allowances, totalSupply>>

\* create_lock and create_lock_for: after the mint the new token is moved
\* from the null key to its owner's delegate.
CreateLock(c, to) ==
    /\ Mint(c, to)
    /\ TokenMoveFits(checkpoints, NullKey, delegate[to], NextTokenId)
    /\ checkpoints' = TokenMoved(checkpoints, NullKey, delegate[to], NextTokenId)
    /\ UNCHANGED delegate

\* Mutant of Merge: the token is not moved from its owner's delegate.
MergeForgettingDelegate(c, from, to) ==
    LET owner == owners[from]
    IN  /\ Burn(c, from, to)
        /\ TokenMoveFits(checkpoints, owner, NullKey, from)
        /\ checkpoints' = TokenMoved(checkpoints, owner, NullKey, from)
        /\ UNCHANGED delegate

\* merge: after the burn the token is moved to the null key, first from its
\* owner, then from its owner's delegate.
Merge(c, from, to) ==
    LET owner == owners[from]
        once  == TokenMoved(checkpoints, owner, NullKey, from)
    IN  /\ Burn(c, from, to)
        /\ TokenMoveFits(checkpoints, owner, NullKey, from)
        /\ TokenMoveFits(once, delegate[owner], NullKey, from)
        /\ checkpoints' = TokenMoved(once, delegate[owner], NullKey, from)
        /\ UNCHANGED delegate

\* The calls of the ledger that leave voting alone.
Approval(c, spender, batch) ==
    Approve(c, spender, batch) /\ UNCHANGED <<delegate, checkpoints>>

Transfer(c, owner, recipient, batch) ==
    TransferFrom(c, owner, recipient, batch) /\ UNCHANGED <<delegate, checkpoints>>

UpdateTokenMeta(c, t, meta) ==
    SetTokenMeta(c, t, meta) /\ UNCHANGED <<delegate, checkpoints>>

VotingNext ==
    \E c \in Key :
        \/ \E delegatee \in Account : Delegate(c, delegatee)
        \/ \E to \in Key : CreateLock(c, to)
        \/ \E from, to \in Token : Merge(c, from, to)
        \/ \E spender \in Key, batch \in Batch : Approval(c, spender, batch)
        \/ \E owner, recipient \in Key, batch \in Batch :
               Transfer(c, owner, recipient, batch)
        \/ \E t \in Token, meta \in Metas : UpdateTokenMeta(c, t, meta)

VotingSpec == VotingInit /\ [][VotingNext]_votingVars

-----------------------------------------------------------------------------
(* The views, as the tokens whose voting power they add up.                 *)

\* get_votes.
VotesOf(a) == CheckPointAt(a, Len(checkpoints[a]))

\* The timestamps of an account's checkpoints.
Timestamps(a) == [i \in 0..(Len(checkpoints[a]) - 1) |-> 0]

\* get_past_votes.
PastVotesOf(a, at) ==
    CheckPointAt(a, PastVotesIndex(Timestamps(a), Len(checkpoints[a]), at))

-----------------------------------------------------------------------------
(* Properties.                                                              *)

VotingTypeOK ==
    /\ NFTTypeOK
    /\ delegate \in [Key -> Account]
    /\ DOMAIN checkpoints = Account
    /\ \A a \in Account : checkpoints[a] \in Seq([Token -> Nat])

\* No vector of tokens is ever longer than MAX_DELEGATES, through any mix of
\* delegations, transfers, new locks and merges: the loops over one are bounded.
WithinMaxDelegates == \A a \in Account : Size(Last(a)) <= MaxDelegates

\* An account comes to vote with a token, or to vote with it once more, only in
\* the delegate call by which the token's present owner turns to that account:
\* no key hands on the votes of others, and no transfer, lock or merge gives any.
VotesAreGivenByOwner ==
    [][\A a \in Account, t \in Token :
         Last(a)'[t] > Last(a)[t] =>
             /\ t \in DOMAIN owners
             /\ caller' = owners[t]
             /\ delegate[caller'] # a
             /\ delegate'[caller'] = a]_votingVars

\* The comment of get_votes says it gets the current votes of the account: the
\* tokens it adds up are those of the account's latest checkpoint.
VotesAreCurrent == \A a \in Account : VotesOf(a) = Last(a)
=============================================================================
