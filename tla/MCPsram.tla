------------------------------- MODULE MCPsram ------------------------------
(***************************************************************************)
(* The memory of the Lua state, in behaviours of their own that are chosen *)
(* at the start (part): the allocator on a heap of a few bytes, the limit  *)
(* below its size; the collector under programs with two or three objects  *)
(* of the kinds it tells apart; a table with a few keys, some of which     *)
(* collide; a table of more integers, with gaps, for its length;           *)
(* table.sort with orders that have ties, and with no order.  The parts    *)
(* that do not run stay as they started.                                   *)
(***************************************************************************)
EXTENDS PsramAllocator, LuaGC, LuaTable, LuaSort, TLC

VARIABLE part

CONSTANTS p1, p2, p3, b1, b2, b3, b4

memVars == <<part, vars, gcVars, tableVars, sortVars>>

-----------------------------------------------------------------------------
Objects3(a, b, c, finalizable, stack, full, modes) ==
    [kind |-> 1 :> a @@ 2 :> b @@ 3 :> c @@ 9 :> "thread", finalizable |-> finalizable,
     stack |-> stack, full |-> full, modes |-> modes]

MCPrograms ==
    {Objects3("table", "weakvalue", "none", {1}, 2, FALSE, FALSE),
     Objects3("table", "closure", "none", {1}, 2, TRUE, FALSE),
     Objects3("userdata", "ephemeron", "userdata", {}, 3, FALSE, FALSE),
     Objects3("table", "weakvalue", "string", {1}, 1, FALSE, FALSE),
     Objects3("table", "allweak", "none", {}, 2, FALSE, FALSE),
     Objects3("closure", "table", "none", {}, 2, FALSE, TRUE),
     Objects3("table", "userdata", "none", {1}, 1, TRUE, TRUE)}

-----------------------------------------------------------------------------
IntKey(n) == <<"int", n>>
StringKey == <<"str", 1>>

MCPairs == {<<IntKey(n), n>> : n \in 1 .. 6 \cup {8, 9, 15}} \cup {<<StringKey, 4>>}
MCHash == StringKey :> 2
MCStart == {<<0, 0>>, <<4, 0>>, <<0, 4>>, <<2, 2>>, <<8, 0>>, <<0, 8>>, <<2, 8>>, <<4, 4>>}

(* Few keys, in every order.                                               *)
FewKeys == {x \in MCPairs : x[2] <= 4 /\ x[1] # IntKey(4)}
FewKeysNext == (\E x \in FewKeys : Set(x)) \/ ClearKeys \/ StartWalk \/ Next1 \/ Length

(* Integers, those that go to the hash in increasing order and to stay.    *)
LengthNext ==
    \/ Length \/ UNCHANGED tableVars
    \/ \E x \in MCPairs :
        /\ x[1] # StringKey /\ (keyinarray(t, x[1]) \/ IntKeys(t) \subseteq 1 .. x[1][2] - 1)
        /\ Set(x)

-----------------------------------------------------------------------------
MemInit ==
    /\ part \in {"allocator", "collector", "table", "length", "sort"}
    /\ Init /\ GcInit /\ TableInit /\ SortInit
    /\ part # "collector" => program = CHOOSE x \in Programs : TRUE
    /\ part = "table" => asize(t) <= 4 /\ sizenode(t) <= 4
    /\ part = "length" => asize(t) + sizenode(t) > 7
    /\ part \notin {"table", "length"} => asize(t) = 0 /\ t.dummy
    /\ part # "sort" => at = "done" /\ order = AnyAnswer

MemNext ==
    \/ part = "allocator" /\ Next /\ UNCHANGED <<part, gcVars, tableVars, sortVars>>
    \/ part = "collector" /\ GcNext /\ UNCHANGED <<part, vars, tableVars, sortVars>>
    \/ part = "table" /\ FewKeysNext /\ UNCHANGED <<part, vars, gcVars, sortVars>>
    \/ part = "length" /\ LengthNext /\ UNCHANGED <<part, vars, gcVars, sortVars>>
    \/ part = "sort" /\ SortNext /\ UNCHANGED <<part, vars, gcVars, tableVars>>
    \/ part = "sort" /\ at \in {"done", "error"} /\ UNCHANGED memVars

(* The fairness of the modules, each in its part.                          *)
MemSpec ==
    /\ MemInit /\ [][MemNext]_memVars
    /\ WF_vars(part = "allocator" /\ Allocation)
    /\ WF_gcVars(part = "collector" /\ SingleStep)
    /\ WF_sortVars(part = "sort" /\ SortNext)

=============================================================================
