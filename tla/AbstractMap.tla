---------------------------- MODULE AbstractMap ----------------------------
(***************************************************************************)
(* What avl_map promises as an ordered map with unique keys: a set of      *)
(* keys, changed by insertion of an absent key (emplace, operator[], and   *)
(* insert of a node handle), erasure and clear.  Mapped values are left    *)
(* out, as in AvlMap.                                                      *)
(***************************************************************************)
EXTENDS Integers

CONSTANT Keys

VARIABLE keys   \* the keys in the map

Init == keys = {}

Insert(k) == k \notin keys /\ keys' = keys \cup {k}

Erase(k) == k \in keys /\ keys' = keys \ {k}

Clear == keys' = {}

Next == Clear \/ \E k \in Keys : Insert(k) \/ Erase(k)

Spec == Init /\ [][Next]_keys

=============================================================================
