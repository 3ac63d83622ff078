------------------------------- MODULE LuaMap -------------------------------
(***************************************************************************)
(* What a Lua table promises: a map from keys to values, and a traversal   *)
(* that visits each key once while no key is added.                        *)
(***************************************************************************)
CONSTANT Pairs    \* keys and the values they may be given

VARIABLES map, walking, seen

mapVars == <<map, walking, seen>>

MapInit == map = <<>> /\ walking = FALSE /\ seen = {}

Add(k, v) ==
    /\ k \notin DOMAIN map
    /\ map' = [x \in DOMAIN map \cup {k} |-> IF x = k THEN v ELSE map[x]]
    /\ walking' = FALSE /\ seen' = {}

Overwrite(k, v) == k \in DOMAIN map /\ map' = [map EXCEPT ![k] = v] /\ UNCHANGED <<walking, seen>>

Delete(k) ==
    /\ k \in DOMAIN map
    /\ map' = [x \in DOMAIN map \ {k} |-> map[x]]
    /\ UNCHANGED <<walking, seen>>

Begin == ~walking /\ walking' = TRUE /\ seen' = {} /\ UNCHANGED map

Visit == walking /\ UNCHANGED <<map, walking>> /\ \E k \in DOMAIN map \ seen : seen' = seen \cup {k}

End == walking /\ DOMAIN map \subseteq seen /\ walking' = FALSE /\ seen' = {} /\ UNCHANGED map

MapNext ==
    \/ map' # map /\ \E x \in Pairs : Add(x[1], x[2]) \/ Overwrite(x[1], x[2]) \/ Delete(x[1])
    \/ Begin \/ Visit \/ End

MapSpec == MapInit /\ [][MapNext]_mapVars

=============================================================================
