-------------------------------- MODULE Maps --------------------------------
(***************************************************************************)
(* A std::map is a function whose domain is the set of its keys.           *)
(***************************************************************************)

\* m[k] = v of a std::map: adds the key or replaces its value.
Store(m, k, v) == [x \in DOMAIN m \cup {k} |-> IF x = k THEN v ELSE m[x]]

=============================================================================
