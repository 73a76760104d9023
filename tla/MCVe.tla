-------------------------------- MODULE MCVe --------------------------------
(***************************************************************************)
(* The whole contract for TLC.                                              *)
(***************************************************************************)
EXTENDS Ve

\* Vectors of one id.
MCBatches == {<<t>> : t \in Token}

\* No step reads the last caller, the art proxy, VE_SUPPLY, what gauges and
\* metadata store, a token's points (the views are not called here), or a global
\* point or a checkpoint but the last.
CurrentView ==
    <<owners, owned, allowances, totalSupply, delegate,
      [a \in Account |-> Last(a)],
      now, locked, book.slopes,
      IF book.epoch = 0 THEN E!NoLock ELSE book.points[book.epoch],
      escrowed, open, owed, nested, isLocked, team, voter>>
=============================================================================
