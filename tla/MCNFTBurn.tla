----------------------------- MODULE MCNFTBurn ------------------------------
(***************************************************************************)
(* The ledger with a history of the tokens that were burnt.                 *)
(***************************************************************************)
EXTENDS NFT, TLC

VARIABLE burnt   \* the ids whose token was burnt at some time

MCInit == NFTInit /\ burnt = {}

MCNext == NFTNext /\ burnt' = burnt \cup (DOMAIN owners \ DOMAIN owners')

MCSpec == MCInit /\ [][MCNext]_<<vars, burnt>>

\* Contract-Interaction-Tutorial.md says burning removes a token permanently
\* from circulation: an id that was burnt has no owner any more.
BurntStaysBurnt == burnt \cap DOMAIN owners = {}
=============================================================================
