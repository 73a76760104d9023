-------------------------------- MODULE Dict --------------------------------
(***************************************************************************)
(* The dictionaries of src/ve/src/dict.rs.  A dictionary maps keys to       *)
(* optional values: set writes Some(value), remove writes None, and get     *)
(* reads an absent key and a removed one alike.  A dictionary is therefore  *)
(* the partial function of the keys whose last write was a set.             *)
(***************************************************************************)

\* Dict::get followed by is_some.
DictHas(d, k) == k \in DOMAIN d

\* Dict::get followed by unwrap_or(v).
DictGetOr(d, k, v) == IF k \in DOMAIN d THEN d[k] ELSE v

\* Dict::set.
DictSet(d, k, v) ==
    [x \in DOMAIN d \cup {k} |-> IF x = k THEN v ELSE d[x]]

\* Dict::remove.
DictRemove(d, k) == [x \in DOMAIN d \ {k} |-> d[x]]

\* A dictionary nothing was written to (Dict::init).
EmptyDict == [x \in {} |-> x]

\* A dictionary whose keys satisfy K and whose values are in V.
IsDict(d, K, V) ==
    /\ DOMAIN d \subseteq K
    /\ \A k \in DOMAIN d : d[k] \in V
=============================================================================
