------------------------------- MODULE MCNFT --------------------------------
(***************************************************************************)
(* The ledger for TLC.                                                      *)
(***************************************************************************)
EXTENDS NFTRefinement, NFTEvents, TLC

CONSTANT MaxTold   \* bound: the approvals that a client knows of at a time

KeySymmetry == Permutations(Key)

\* What a client knows of approvals grows until its owner burns the token.  It
\* knows of as many pairs of an owner and a token as MaxTold at any time.
BoundedNext == EventsNext /\ Cardinality(DOMAIN told'.spenders) <= MaxTold

BoundedSpec == EventsInit /\ [][BoundedNext]_eventsVars

\* The last caller is read by action properties only, in its primed form; the
\* metadata only for which tokens have them and whether the reader knows them.
LedgerView ==
    <<owners, owned, allowances, totalSupply, DOMAIN metadata,
      told.owners, told.spenders, told.metadata = metadata>>
=============================================================================
