---------------------------- MODULE AbstractMap ----------------------------
(***************************************************************************)
(* What a table promises: a finite map from keys to values that is changed *)
(* one key at a time, or emptied.                                          *)
(***************************************************************************)
CONSTANTS Keys, Values

VARIABLE map

Maps == UNION {[S -> Values] : S \in SUBSET Keys}

Init == map = [k \in {} |-> CHOOSE v \in Values : TRUE]

Put(k, v) ==
  map' = [j \in DOMAIN map \cup {k} |-> IF j = k THEN v ELSE map[j]]

Remove(k) ==
  /\ k \in DOMAIN map
  /\ map' = [j \in DOMAIN map \ {k} |-> map[j]]

Clear == map' = [k \in {} |-> CHOOSE v \in Values : TRUE]

Next ==
  \/ \E k \in Keys : Remove(k) \/ \E v \in Values : Put(k, v)
  \/ Clear

Spec == Init /\ [][Next]_map
=============================================================================
