---------------------------- MODULE NFTRefinement ---------------------------
(***************************************************************************)
(* The ledger implements Holdings: a key holds the tokens that              *)
(* get_token_by_index enumerates for it.                                    *)
(***************************************************************************)
EXTENDS NFT

\* The tokens enumerated for a key: slots 0 .. balance - 1.
Enumerated(k) == {owned.tokens[<<k, i>>] : i \in 0..(owned.balances[k] - 1)}

Abstract == INSTANCE Holdings
    WITH holding <- [k \in Key |-> Enumerated(k)], Token <- Token

\* The enumeration that balance_of and get_token_by_index show is a ledger of
\* disjoint sets of tokens that changes by issuing a token nobody holds,
\* retiring a held one, and giving tokens away, and in no other way.
EnumerationIsALedger == Abstract!Spec
=============================================================================
