----------------------------- MODULE EscrowViews ----------------------------
(***************************************************************************)
(* The views of the escrow by block number.  current_block_number() is a    *)
(* constant, so every point that was recorded has that block: POINT_HISTORY *)
(* from entry 0, which the constructor writes, and a token's own history    *)
(* from entry 1, entry 0 being the default point of block 0.                *)
(***************************************************************************)
EXTENDS Escrow, Search

CurrentBlock == 100

\* The blocks of the global points, and of the points of token t.
GlobalBlk == [e \in 0..book.epoch |-> CurrentBlock]

UserBlk(t) == [e \in 0..book.userEpoch[t] |-> IF e = 0 THEN 0 ELSE CurrentBlock]

\* How far block lies between two points: of dBlock blocks that took dT.
Interpolated(block, blk, dBlock, dT) ==
    IF dBlock = 0 THEN 0 ELSE (dT * (block - blk)) \div dBlock

\* The time from the point of an epoch to block; the last point is followed
\* by the present.
TimeAfter(epoch, block) ==
    LET blk  == GlobalBlk[epoch]
        last == epoch = book.epoch
        next == IF last THEN [blk |-> CurrentBlock, ts |-> now]
                ELSE [blk |-> GlobalBlk[epoch + 1], ts |-> book.points[epoch + 1].ts]
    IN  Interpolated(block, blk, next.blk - blk, next.ts - book.points[epoch].ts)

\* Mutant of BalanceOfAtNFT: the global history is searched up to the number
\* of the token's points.
BalanceOfAtNFTMixedEpochs(t, block) ==
    LET userEpoch == FindBlockEpoch(UserBlk(t), block, book.userEpoch[t])
        p         == GetUserPoint(t, userEpoch)
        epoch     == FindBlockEpoch(GlobalBlk, block, book.userEpoch[t])
        blockTime == book.points[epoch].ts + TimeAfter(epoch, block)
    IN  NonNeg(p.bias - p.slope * (blockTime - p.ts))

\* _balance_of_at_nft, for a block that is not in the future (InvalidBlock).
BalanceOfAtNFT(t, block) ==
    LET userEpoch == FindBlockEpoch(UserBlk(t), block, book.userEpoch[t])
        p         == GetUserPoint(t, userEpoch)
        epoch     == FindBlockEpoch(GlobalBlk, block, book.epoch)
        blockTime == book.points[epoch].ts + TimeAfter(epoch, block)
    IN  NonNeg(p.bias - p.slope * (blockTime - p.ts))

\* total_supply_at, for such a block.
TotalSupplyAtBlock(block) ==
    LET epoch == FindBlockEpoch(GlobalBlk, block, book.epoch)
        point == book.points[epoch]
    IN  SupplyAt(point, point.ts + TimeAfter(epoch, block))

-----------------------------------------------------------------------------
(* Properties.                                                              *)

\* balance_of_at_nft and total_supply_at find their points by two searches in
\* two histories and estimate the time of the block from the one of them; what
\* they answer fits: the powers of the tokens add up to the total.  (With the
\* constant block number that is the total of the last checkpoint for the
\* present block, however long ago it was, and nothing for an earlier one.)
BlockViewsAgree ==
    \A block \in {CurrentBlock - 1, CurrentBlock} :
        TotalSupplyAtBlock(block) =
            SumFunctionOnSet([t \in Token |-> BalanceOfAtNFT(t, block)], Token)
=============================================================================
