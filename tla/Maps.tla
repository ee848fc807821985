-------------------------------- MODULE Maps --------------------------------
(***************************************************************************)
(* Partial functions: a std::map<K,V> of the server, or a table with a     *)
(* primary key.                                                            *)
(***************************************************************************)
EXTENDS Functions

IsMap(f, K, V) == DOMAIN f \subseteq K /\ f \in [DOMAIN f -> V]

Put(f, k, v) == [x \in DOMAIN f \cup {k} |-> IF x = k THEN v ELSE f[x]]

\* std::map::insert does nothing for a key that is taken.
Insert(f, k, v) == IF k \in DOMAIN f THEN f ELSE Put(f, k, v)

Erase(f, k) == Restrict(f, DOMAIN f \ {k})

Empty == [x \in {} |-> x]
=============================================================================
