-------------------------------- MODULE KVMap --------------------------------
(***************************************************************************)
(* What a Dictionary promises its callers: a finite map from keys to       *)
(* values, and the result of every call (insert's "inserted" flag,         *)
(* operator[]'s value, find's value or end(), erase's flag).  Buckets,     *)
(* tombstones, growth and the epoch are invisible at this level.           *)
(***************************************************************************)
EXTENDS TLC

CONSTANTS Keys, Vals, DefaultValue, NotFound

VARIABLES
    map,   \* the key -> value function the table represents
    ret    \* the result of the last call

EmptyMap == [k \in {} |-> NotFound]

Init ==
    /\ map = EmptyMap
    /\ ret = <<"none">>

\* insert(pair): adds the pair unless the key is present.
Insert(k, v) ==
    /\ ret' = <<"insert", k, k \notin DOMAIN map>>
    /\ map' = IF k \in DOMAIN map THEN map ELSE map @@ (k :> v)

\* operator[]: the key's value, after adding (k, ValueTy()) if absent.
Subscript(k) ==
    /\ ret' = <<"subscript", k, IF k \in DOMAIN map THEN map[k] ELSE DefaultValue>>
    /\ map' = IF k \in DOMAIN map THEN map ELSE map @@ (k :> DefaultValue)

Find(k) ==
    /\ ret' = <<"find", k, IF k \in DOMAIN map THEN map[k] ELSE NotFound>>
    /\ UNCHANGED map

Erase(k) ==
    /\ ret' = <<"erase", k, k \in DOMAIN map>>
    /\ map' = [x \in DOMAIN map \ {k} |-> map[x]]

Clear ==
    /\ ret' = <<"clear">>
    /\ map' = EmptyMap

Next ==
    \/ \E k \in Keys, v \in Vals : Insert(k, v)
    \/ \E k \in Keys : Subscript(k) \/ Find(k) \/ Erase(k)
    \/ Clear

Spec == Init /\ [][Next]_<<map, ret>>

=============================================================================
