------------------------------ MODULE MCVoting ------------------------------
(***************************************************************************)
(* Voting, and which tokens were transferred, for TLC.                      *)
(***************************************************************************)
EXTENDS VotingHistory, TLC

\* The search by time finds an entry of that time or the last one before it, in
\* every ascending history of up to six entries and four times.
ASSUME SearchFindsIndexAt ==
    \A n \in 1..6 : \A h \in [0..(n - 1) -> 0..3] : Ascending(h) =>
        \A x \in 0..3 : IsIndexAt(h, x, PastVotesIndex(h, n, x))

KeySymmetry == Permutations(Key)

\* No step reads a checkpoint but the latest, nor the last caller.
CurrentView ==
    <<owners, owned, metadata, allowances, totalSupply, delegate,
      [a \in Account |-> Last(a)], moved>>
=============================================================================
