---------------------------- MODULE MCEscrowKeys ----------------------------
(***************************************************************************)
(* Behaviours of the escrow in which locks are created and the first one is *)
(* added to, with token ids of two digits.                                  *)
(***************************************************************************)
EXTENDS Escrow

KeysNext ==
    \/ CreateLock(4, 4)
    \/ DepositFor(1, 4)

KeysSpec == EscrowInit /\ [][KeysNext]_vars
=============================================================================
