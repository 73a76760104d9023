--------------------------- MODULE VotingHistory ---------------------------
(***************************************************************************)
(* Voting with a history: which tokens were ever transferred.  Transfers    *)
(* do not touch the checkpoints, so the two keep apart only what becomes    *)
(* of the tokens that never were.                                           *)
(***************************************************************************)
EXTENDS Voting

\* Keys have 33 bytes.
ASSUME HistoryAssumption == IsFiniteSet(Key)

VARIABLE moved   \* the tokens that some time passed from a key to another

HistoryInit == VotingInit /\ moved = {}

HistoryNext ==
    /\ VotingNext
    /\ moved' = moved \cup
         {t \in DOMAIN owners \cap DOMAIN owners' : owners'[t] # owners[t]}

historyVars == <<votingVars, moved>>

HistorySpec == HistoryInit /\ [][HistoryNext]_historyVars

-----------------------------------------------------------------------------
(* Properties.                                                              *)

\* A token that was never transferred votes at most once, in the checkpoint of
\* the account its owner delegates to, whatever was delegated back and forth,
\* burnt and minted again.  (A transferred token may vote for two accounts.)
UnmovedTokensVoteOnce ==
    \A t \in Token \ moved :
        /\ SumFunctionOnSet([a \in Account |-> Last(a)[t]], Account) <= 1
        /\ \A a \in Account :
              Last(a)[t] > 0 => t \in DOMAIN owners /\ delegate[owners[t]] = a

\* Account a votes with token t, which no key owns.
Stray(a, t) == ~DictHas(owners, t) /\ Last(a)[t] > 0

\* A merge leaves the token it burns in an account's checkpoint only where some
\* transfer had moved the token past that account.  There owner_of(..).unwrap()
\* traps, and the keys that delegate to the account are stuck with it, until a
\* new lock happens to get the burnt token's id: nothing else takes it away.
StrayVotesFreeze ==
    [][\A a \in Account, t \in Token :
         /\ ~Stray(a, t) /\ Stray(a, t)' =>
               t \in moved /\ t \in DOMAIN owners \ DOMAIN owners'
         /\ Stray(a, t) =>
               /\ \A k \in Key : delegate[k] = a => delegate'[k] = a
               /\ Stray(a, t)' \/ t \in DOMAIN owners']_historyVars
=============================================================================
