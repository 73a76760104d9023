------------------------------ MODULE Holdings ------------------------------
(***************************************************************************)
(* What the CEP-47 ledger promises: every key holds a set of tokens, no     *)
(* token is held twice, and a call issues one token, retires one, or gives  *)
(* tokens of one key to another.                                            *)
(***************************************************************************)
CONSTANTS Key, Token

VARIABLE holding   \* the tokens each key holds

TypeOK == holding \in [Key -> SUBSET Token]

Init == holding = [k \in Key |-> {}]

Issue(k, t) ==
    /\ \A h \in Key : t \notin holding[h]
    /\ holding' = [holding EXCEPT ![k] = @ \cup {t}]

Retire(k, t) ==
    /\ t \in holding[k]
    /\ holding' = [holding EXCEPT ![k] = @ \ {t}]

Give(k, h, tokens) ==
    /\ k # h
    /\ tokens \subseteq holding[k]
    /\ holding' = [holding EXCEPT ![k] = @ \ tokens, ![h] = @ \cup tokens]

Next ==
    \E k \in Key :
        \/ \E t \in Token : Issue(k, t) \/ Retire(k, t)
        \/ \E h \in Key : \E tokens \in SUBSET holding[k] : Give(k, h, tokens)

Spec == Init /\ [][Next]_holding
=============================================================================
