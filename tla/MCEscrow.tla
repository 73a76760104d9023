------------------------------ MODULE MCEscrow ------------------------------
(***************************************************************************)
(* The escrow and its views for TLC.                                        *)
(***************************************************************************)
EXTENDS EscrowViews

\* The search by block finds the last entry not above the block in every
\* ascending history of up to six entries and four blocks, equal ones included.
ASSUME SearchFindsLastNotAbove ==
    \A n \in 0..5 : \A h \in [0..n -> 0..3] : Ascending(h) =>
        \A x \in 0..3 : IsLastNotAbove(h, x, FindBlockEpoch(h, x, n))

\* No step reads a point but the last of each history, so the earlier ones
\* and the epoch numbers are left out of the state TLC compares.  The views by
\* block read the first global point, which never changes, and the last.  (A
\* configuration whose property reads earlier points uses no view.)
CurrentView ==
    <<now, minted, locked, veSupply, escrowed, book.slopes,
      IF book.epoch = 0 THEN NoLock ELSE book.points[book.epoch],
      [t \in Token |-> GetUserPoint(t, book.userEpoch[t])]>>
=============================================================================
