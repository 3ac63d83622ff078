--------------------------- MODULE PsramAllocator ---------------------------
(***************************************************************************)
(* The allocator the Lua state gets its memory from: PSRAM of the heap,    *)
(* with a counter that is to keep Lua below LUA_MAX_PSRAM.  Lua answers a  *)
(* refusal with an emergency collection and asks once more.                *)
(***************************************************************************)
EXTENDS Integers, FiniteSets

CONSTANTS
    Ptrs,           \* addresses of blocks
    Bytes,          \* the PSRAM of the heap
    MaxPsram,       \* LUA_MAX_PSRAM
    Tags,           \* type codes Lua passes as the old size of a new block
    NoRequest

ASSUME PsramAssumption ==
    /\ IsFiniteSet(Bytes)
    /\ MaxPsram \in Nat
    /\ Tags \subseteq Nat
    /\ NoRequest \notin [ptr : Ptrs, osize : Nat, nsize : Nat \ {0}, blocked : BOOLEAN]

VARIABLES
    block,      \* the bytes each block occupies; none: the address is not in use
    usage,      \* luaCurrentMemoryUsage
    garbage,    \* the blocks a full collection frees
    request,    \* the allocation Lua waits for
    stage       \* "idle", or how far it is: "first", "collect", "retry"

vars == <<block, usage, garbage, request, stage>>

Stages == {"idle", "first", "collect", "retry"}
Requests == [ptr : Ptrs, osize : Nat, nsize : Nat \ {0}, blocked : BOOLEAN]

Used == UNION {block[p] : p \in Ptrs}
Allocated == {p \in Ptrs : block[p] # {}}

-----------------------------------------------------------------------------
(* lua_psram_allocator. *)

(* A slip: a new block is charged without the type code Lua passes as its  *)
(* old size.                                                               *)
GrowthFromTag(r) == r.nsize - r.osize

(* differenz: osize is no size when there was no block.                    *)
Growth(r) == r.nsize - (IF block[r.ptr] = {} THEN 0 ELSE r.osize)

(* A slip: the limit is checked before the growth.                         *)
OverLimitBefore(r) == Growth(r) > 0 /\ usage >= MaxPsram

OverLimit(r) == Growth(r) > 0 /\ usage + Growth(r) > MaxPsram

(* heap_caps_realloc: bytes no other block occupies, or the null pointer.  *)
Places(r) == {s \in SUBSET ((Bytes \ Used) \cup block[r.ptr]) : Cardinality(s) = r.nsize}

Grant(r) ==
    /\ ~OverLimit(r)
    /\ \E s \in Places(r) : block' = [block EXCEPT ![r.ptr] = s]
    /\ usage' = usage + Growth(r)

(* A slip: what is freed stays charged.                                    *)
FreeUncounted(p) ==
    /\ block' = [block EXCEPT ![p] = {}]
    /\ usage' = usage

Free(p) ==
    LET osize == Cardinality(block[p])
    IN  /\ block' = [block EXCEPT ![p] = {}]
        /\ usage' = IF usage >= osize THEN usage - osize ELSE 0

-----------------------------------------------------------------------------
(* luaM_malloc_, luaM_realloc_ and luaM_free_ of the interpreter. *)

(* blocked: the state is not complete, or a collection step is under way.  *)
Ask(p, osize, nsize, blocked) ==
    /\ stage = "idle"
    /\ p \notin garbage
    /\ block[p] # {} => osize = Cardinality(block[p])
    /\ request' = [ptr |-> p, osize |-> osize, nsize |-> nsize, blocked |-> blocked]
    /\ stage' = "first"
    /\ UNCHANGED <<block, usage, garbage>>

Answered == stage' = "idle" /\ request' = NoRequest

Try ==
    /\ stage \in {"first", "retry"}
    /\ Grant(request)
    /\ Answered
    /\ UNCHANGED garbage

(* The first try failed, for the limit or because the heap is fragmented or*)
(* taken by other buffers, which it may always be: tryagain collects,      *)
(* unless it must not.                                                     *)
StartEmergency ==
    /\ stage = "first"
    /\ ~request.blocked
    /\ stage' = "collect"
    /\ UNCHANGED <<block, usage, garbage, request>>

(* luaC_fullgc frees one block after the other.                            *)
EmergencyFree(p) ==
    /\ stage = "collect"
    /\ p \in garbage
    /\ Free(p)
    /\ garbage' = garbage \ {p}
    /\ UNCHANGED <<request, stage>>

EndEmergency ==
    /\ stage = "collect"
    /\ garbage = {}
    /\ stage' = "retry"
    /\ UNCHANGED <<block, usage, garbage, request>>

(* A slip: a refused second try collects again.                            *)
DenyOnlyBlocked ==
    /\ \/ stage = "first" /\ request.blocked
       \/ stage = "retry"
    /\ stage' = IF request.blocked THEN "idle" ELSE "collect"
    /\ request' = IF request.blocked THEN NoRequest ELSE request
    /\ UNCHANGED <<block, usage, garbage>>

(* luaM_error: the block, if there was one, stays as it is.                *)
Deny ==
    /\ \/ stage = "first" /\ request.blocked
       \/ stage = "retry"
    /\ Answered
    /\ UNCHANGED <<block, usage, garbage>>

(* Nothing refers to a block any more; the collector frees it some time,   *)
(* and some blocks the interpreter frees itself.                           *)
Drop(p) ==
    /\ stage = "idle"
    /\ p \in Allocated \ garbage
    /\ garbage' = garbage \cup {p}
    /\ UNCHANGED <<block, usage, request, stage>>

(* A slip: the collector keeps a block the interpreter freed itself.       *)
ReleaseKept(p) ==
    /\ stage = "idle"
    /\ p \in Allocated
    /\ Free(p)
    /\ UNCHANGED <<garbage, request, stage>>

Release(p) ==
    /\ stage = "idle"
    /\ p \in Allocated
    /\ Free(p)
    /\ garbage' = garbage \ {p}
    /\ UNCHANGED <<request, stage>>

-----------------------------------------------------------------------------
Init ==
    /\ block = [p \in Ptrs |-> {}]
    /\ usage = 0
    /\ garbage = {}
    /\ request = NoRequest
    /\ stage = "idle"

Program == \E p \in Ptrs :
    \/ \E n \in 1 .. MaxPsram + 1, blocked \in BOOLEAN :
           \/ \E tag \in Tags : block[p] = {} /\ Ask(p, tag, n, blocked)
           \/ block[p] # {} /\ Ask(p, Cardinality(block[p]), n, blocked)
    \/ Drop(p)
    \/ Release(p)

Allocation == Try \/ StartEmergency \/ (\E p \in Ptrs : EmergencyFree(p)) \/ EndEmergency \/ Deny

Next == Program \/ Allocation

(* An allocation is one call of a C function, which runs to its end.       *)
Spec == Init /\ [][Next]_vars /\ WF_vars(Allocation)

-----------------------------------------------------------------------------
(* Properties. *)

(* What is garbage is allocated, and never the block Lua asks to resize.   *)
TypeOK ==
    /\ block \in [Ptrs -> SUBSET Bytes]
    /\ usage \in Nat
    /\ garbage \subseteq Allocated
    /\ request \in Requests \cup {NoRequest}
    /\ stage \in Stages
    /\ stage = "idle" <=> request = NoRequest
    /\ request # NoRequest => /\ request.ptr \notin garbage
                              /\ block[request.ptr] # {}
                                    => request.osize = Cardinality(block[request.ptr])

(* Two blocks never share a byte (which the heap sees to).                 *)
BlocksDisjoint == \A p, q \in Ptrs : p # q => block[p] \cap block[q] = {}

(* luaCurrentMemoryUsage is what Lua's blocks occupy, over every sequence  *)
(* of growing, shrinking, failing and freeing: the clamp at 0 is never     *)
(* needed, nothing is charged twice and nothing is forgotten.              *)
UsageExact == usage = Cardinality(Used)

(* "1 MB Limit fuer Lua": the limit is never exceeded.                     *)
WithinLimit == Cardinality(Used) <= MaxPsram

Live == UNION {block[p] : p \in Ptrs \ garbage}

(* The limit makes an allocation fail only when the blocks in use leave no *)
(* room for it: dropped blocks never count against a program, unless the   *)
(* interpreter must not collect.                                           *)
DeniedOnlyWhenFull ==
    [][ Deny /\ ~request.blocked /\ OverLimit(request) =>
          Cardinality(Live) - Cardinality(block[request.ptr]) + request.nsize > MaxPsram ]_vars

(* Every allocation is answered: there is one emergency collection, not an *)
(* endless row of them.                                                    *)
EveryRequestAnswered == stage # "idle" ~> stage = "idle"

=============================================================================
