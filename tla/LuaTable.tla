------------------------------ MODULE LuaTable ------------------------------
(***************************************************************************)
(* Tables of the Lua state (ltable.c): an array and a hash of chained      *)
(* nodes, rehashed when a key finds no free node, and traversed by "next". *)
(* The array keeps the values of 1, 2, ...; node n has a key, a value and  *)
(* the distance to the next node of its chain.  Memory may run out.        *)
(***************************************************************************)
EXTENDS Integers, FiniteSets, FiniteSetsExt

CONSTANTS
    Pairs,        \* keys and the values that they may be given
    Hash,         \* hash values, of keys that are no integers
    Start,        \* sizes that a table may be created with
    LIMFORLAST,   \* smaller hash parts have no lastfree
    MAXINT,       \* the largest integer
    Seeds         \* random numbers that "#" may use

VARIABLES t, walking, key, seen

tableVars == <<t, walking, key, seen>>

Empty == 0              \* no value
NilKey == <<"nil">>
Dead(k) == <<"dead", k>>
IsIntKey(k) == k[1] = "int"
Keys == {x[1] : x \in Pairs}
Collectable(k) == k[1] \in {"str", "obj"}

sizenode(h) == Cardinality(DOMAIN h.node)
ceillog2(n) == CHOOSE i \in 0 .. n : 2^i >= n /\ (i = 0 \/ 2^(i - 1) < n)

(* mainpositionTV: an odd divisor for integers and pointers.               *)
mainposition(h, k) ==
    LET odd == IF sizenode(h) = 1 THEN 1 ELSE sizenode(h) - 1 IN
    CASE k[1] = "int" -> k[2] % odd
      [] k[1] = "obj" -> Hash[k] % odd
      [] k[1] = "str" -> Hash[k] % sizenode(h)

-----------------------------------------------------------------------------
(* Lookup: the first node of the chain with this key.                      *)
equalkey(k, n, deadok) == n.key = k \/ (deadok /\ Collectable(k) /\ n.key = Dead(k))

Slot(h, k, deadok) ==
    LET F[n \in DOMAIN h.node] ==
            IF equalkey(k, h.node[n], deadok) THEN n
            ELSE IF h.node[n].next = 0 THEN -1 ELSE F[n + h.node[n].next]
    IN F[mainposition(h, k)]

keyinarray(h, k) == IsIntKey(k) /\ k[2] \in DOMAIN h.array

luaH_get(h, k) ==
    IF keyinarray(h, k) THEN h.array[k[2]]
    ELSE LET n == Slot(h, k, FALSE) IN IF n = -1 THEN Empty ELSE h.node[n].val

-----------------------------------------------------------------------------
(* Insertion: Brent's variation.                                           *)
getfreepos(h) ==
    LET limit == IF sizenode(h) >= 2^LIMFORLAST THEN h.lastfree ELSE sizenode(h)
        free == {n \in 0 .. limit - 1 : h.node[n].key = NilKey}
    IN IF free = {} THEN -1 ELSE Max(free)

(* A slip: the node that is moved is left in the chain where it was.       *)
MovedAlone(h, mp, f, othern) ==
    [h EXCEPT !.node[f] = [h.node[mp] EXCEPT !.next = IF @ = 0 THEN 0 ELSE @ + mp - f],
              !.node[mp].next = 0, !.node[mp].val = Empty]

(* The node at mp moves to f; the chain that starts at othern leads to it. *)
Moved(h, mp, f, othern) ==
    LET F[n \in DOMAIN h.node] == IF n + h.node[n].next = mp THEN n ELSE F[n + h.node[n].next]
        before == F[othern]
    IN [h EXCEPT !.node = [@ EXCEPT ![before].next = f - before,
                                    ![f] = [h.node[mp] EXCEPT !.next = IF @ = 0 THEN 0 ELSE @ + mp - f],
                                    ![mp].next = 0, ![mp].val = Empty]]

(* A slip: the colliding node stays where it is, the new key is linked to  *)
(* its chain.                                                              *)
insertkeyLinks(h, k, v) ==
    LET mp == mainposition(h, k)
        f == getfreepos(h)
        nx == h.node[mp].next
        put(x, n) == [x EXCEPT !.node[n].key = k, !.node[n].val = v]
    IN CASE h.node[mp].val = Empty /\ ~h.dummy -> [h |-> put(h, mp), done |-> TRUE]
         [] h.dummy \/ f = -1 -> [h |-> h, done |-> FALSE]
         [] OTHER -> [h |-> put([h EXCEPT !.node[f].next = IF nx = 0 THEN 0 ELSE mp + nx - f, !.node[mp].next = f - mp], f),
                      done |-> TRUE]

insertkey(h, k, v) ==
    LET mp == mainposition(h, k)
        busy == h.node[mp].val # Empty \/ h.dummy
        f == getfreepos(h)
        u == [h EXCEPT !.lastfree = IF f = -1 \/ sizenode(h) < 2^LIMFORLAST THEN 0 ELSE f]
        othern == mainposition(h, h.node[mp].key)
        put(x, n) == [x EXCEPT !.node[n].key = k, !.node[n].val = v]
    IN CASE ~busy -> [h |-> put(h, mp), done |-> TRUE]
         [] busy /\ (h.dummy \/ f = -1) -> [h |-> IF h.dummy THEN h ELSE u, done |-> FALSE]
         [] OTHER ->
              [h |-> IF othern # mp THEN put(Moved(u, mp, f, othern), mp)
                     ELSE LET nx == h.node[mp].next IN
                          put([u EXCEPT !.node[f].next = IF nx = 0 THEN 0 ELSE mp + nx - f,
                                        !.node[mp].next = f - mp], f),
               done |-> TRUE]

newcheckedkey(h, k, v) ==
    IF keyinarray(h, k) THEN [h EXCEPT !.array[k[2]] = v] ELSE insertkey(h, k, v).h

-----------------------------------------------------------------------------
(* Rehash.                                                                 *)
FreeNode == [key |-> NilKey, val |-> Empty, next |-> 0]

setnodevector(h, size) ==
    LET n == IF size = 0 THEN 1 ELSE 2^ceillog2(size)
    IN [h EXCEPT !.dummy = size = 0, !.lastfree = IF n >= 2^LIMFORLAST THEN n ELSE 0, !.node = [i \in 0 .. n - 1 |-> FreeNode]]

HashPart(h, from) == [h EXCEPT !.node = from.node, !.dummy = from.dummy, !.lastfree = from.lastfree]

reinserthash(old, h) ==
    LET R[j \in 0 .. sizenode(old)] ==
            IF j = 0 THEN h
            ELSE LET n == old.node[j - 1] IN IF n.val = Empty THEN R[j - 1] ELSE newcheckedkey(R[j - 1], n.key, n.val)
    IN R[sizenode(old)]

(* What the array loses goes to the hash part of h.                        *)
reinsertOldSlice(h, oldasize, newasize) ==
    LET R[i \in newasize .. oldasize] ==
            IF i = newasize THEN h
            ELSE IF h.array[i] = Empty THEN R[i - 1] ELSE insertkey(R[i - 1], <<"int", i>>, h.array[i]).h
    IN R[oldasize]

asize(h) == Cardinality(DOMAIN h.array)

(* A slip: the new hash part stays when there is no memory for the array.  *)
luaH_resizeKeepsHash(h, newasize, nhsize, nomemory) ==
    LET new == setnodevector(h, nhsize)
        kept == IF newasize < asize(h) THEN HashPart(h, reinsertOldSlice(HashPart(h, new), asize(h), newasize)) ELSE HashPart(h, new)
    IN IF nomemory THEN kept
       ELSE reinserthash(h, [kept EXCEPT !.array = [i \in 1 .. newasize |-> IF i <= asize(h) THEN h.array[i] ELSE Empty],
                                         !.hint = IF newasize > 0 THEN newasize \div 2 ELSE @])

(* luaH_resize: the old hash part is back in place when memory may run out.*)
luaH_resize(h, newasize, nhsize, nomemory) ==
    LET new == setnodevector(h, nhsize)
        part == IF newasize < asize(h) THEN reinsertOldSlice(HashPart(h, new), asize(h), newasize) ELSE new
        back == HashPart(HashPart(h, part), h)
    IN IF nomemory THEN back
       ELSE reinserthash(back, [HashPart(back, part) EXCEPT
                                  !.array = [i \in 1 .. newasize |-> IF i <= asize(h) THEN back.array[i] ELSE Empty],
                                  !.hint = IF newasize > 0 THEN newasize \div 2 ELSE @])

IntKeys(h) ==
    {i \in DOMAIN h.array : h.array[i] # Empty}
    \cup {h.node[n].key[2] : n \in {m \in DOMAIN h.node : h.node[m].val # Empty /\ IsIntKey(h.node[m].key)}}

(* computesizes: the largest power of two with a third of it in use; ks    *)
(* are the integer keys that may be in the array.                          *)
computesizes(ks) ==
    LET na == Cardinality(ks)
        used(i) == Cardinality({k \in ks : k <= 2^i})
        new(i) == \E k \in ks : k <= 2^i /\ (i = 0 \/ k > 2^(i - 1))
        sizes == {i \in 0 .. na + 1 : 2^i <= 3 * na /\ new(i) /\ 2^i <= 3 * used(i)}
    IN IF sizes = {} THEN [size |-> 0, na |-> 0] ELSE [size |-> 2^Max(sizes), na |-> used(Max(sizes))]

ArrayIndices(ks) == {k \in ks : k >= 1}

rehash(h, k, nomemory) ==
    LET live == {n \in DOMAIN h.node : h.node[n].val # Empty}
        inhash == {h.node[n].key[2] : n \in {m \in live : IsIntKey(h.node[m].key)}}
        new == IF IsIntKey(k) THEN {k[2]} ELSE {}
        candidates == ArrayIndices(inhash \cup new)
        inarray == {i \in DOMAIN h.array : h.array[i] # Empty}
        c == computesizes(ArrayIndices(IntKeys(h) \cup new))
        total == 1 + Cardinality(live)
        nsize == IF candidates = {} THEN total ELSE total + Cardinality(inarray) - c.na
        deleted == Cardinality(live) < sizenode(h)
    IN luaH_resize(h, IF candidates = {} THEN asize(h) ELSE c.size,
                   IF deleted THEN nsize + nsize \div 4 ELSE nsize, nomemory)

luaH_newkey(h, k, v, nomemory) ==
    LET i == insertkey(h, k, v) IN
    IF v = Empty THEN h
    ELSE IF i.done THEN i.h
    ELSE LET r == rehash(i.h, k, nomemory) IN IF nomemory THEN r ELSE newcheckedkey(r, k, v)

luaH_set(h, k, v, nomemory) ==
    LET n == Slot(h, k, FALSE) IN
    CASE keyinarray(h, k) -> [h EXCEPT !.array[k[2]] = v]
      [] ~keyinarray(h, k) /\ n # -1 -> [h EXCEPT !.node[n].val = v]
      [] OTHER -> luaH_newkey(h, k, v, nomemory)

-----------------------------------------------------------------------------
(* "next": the place after key k, in the array and then in the nodes.      *)
findindex(h, k) ==
    CASE k = NilKey -> 0
      [] k # NilKey /\ keyinarray(h, k) -> k[2]
      [] OTHER -> LET n == Slot(h, k, TRUE) IN IF n = -1 THEN -1 ELSE n + 1 + asize(h)

(* The places after i that have a value; the key at a place.               *)
PlacesAfter(h, i) ==
    {j \in i + 1 .. asize(h) + sizenode(h) :
        IF j <= asize(h) THEN h.array[j] # Empty ELSE h.node[j - asize(h) - 1].val # Empty}
KeyAt(h, j) == IF j <= asize(h) THEN <<"int", j>> ELSE h.node[j - asize(h) - 1].key

-----------------------------------------------------------------------------
(* "#": a border, near the one found last.  absent: the keys without value.*)
binsearch(absent, lo, hi) ==
    LET B[i, j \in Nat] ==
            IF j - i <= 1 THEN i
            ELSE LET m == (i + j) \div 2 IN IF m \in absent THEN B[i, m] ELSE B[m, j]
    IN B[lo, hi]

hashkeyisempty(h, k) == LET n == Slot(h, <<"int", k>>, FALSE) IN n = -1 \/ h.node[n].val = Empty

(* A slip: the lower bound is set after the upper one has been doubled.    *)
hash_searchLate(h, seed) ==
    LET absent == {k \in 1 .. MAXINT + 1 : hashkeyisempty(h, k)}
        i0 == asize(h) + 1
        n == IF asize(h) > 0 THEN ceillog2(asize(h)) ELSE 0
        incr == (seed % 2^n) + 1
        S[i, j, rnd \in Nat] ==
            IF j \in absent THEN binsearch(absent, i, j)
            ELSE IF j <= (MAXINT \div 2) - 1 THEN LET d == j * 2 + (rnd % 2) IN S[d, d, rnd \div 2]
            ELSE IF MAXINT \in absent THEN binsearch(absent, j, MAXINT) ELSE MAXINT
    IN S[i0, IF incr <= MAXINT - i0 THEN i0 + incr ELSE i0 + 1, seed \div 2^n]

(* From a present element, j is doubled until it is absent or too large.   *)
hash_search(h, seed) ==
    LET absent == {k \in 1 .. MAXINT + 1 : hashkeyisempty(h, k)}
        i0 == asize(h) + 1
        n == IF asize(h) > 0 THEN ceillog2(asize(h)) ELSE 0
        incr == (seed % 2^n) + 1
        j0 == IF incr <= MAXINT - i0 THEN i0 + incr ELSE i0 + 1
        S[i, j, rnd \in Nat] ==
            IF j \in absent THEN binsearch(absent, i, j)
            ELSE IF j <= (MAXINT \div 2) - 1 THEN S[j, j * 2 + (rnd % 2), rnd \div 2]
            ELSE IF MAXINT \in absent THEN binsearch(absent, j, MAXINT) ELSE MAXINT
    IN S[i0, j0, seed \div 2^n]

(* The border in the array; its size if the last element is present.       *)
arrayLength(h) ==
    LET absent == {k \in 1 .. asize(h) : h.array[k] = Empty}
        limit == IF h.hint = 0 THEN 1 ELSE h.hint
        below == {i \in 1 .. limit - 1 : i >= limit - 4 /\ i \notin absent}
        above == {i \in limit + 1 .. asize(h) : i <= limit + 4 /\ i \in absent}
        last == IF limit + 4 <= asize(h) THEN limit + 4 ELSE asize(h)
        low == IF limit - 4 >= 1 THEN limit - 4 ELSE 1
    IN CASE limit \in absent /\ below # {} -> Max(below)
         [] limit \in absent /\ below = {} -> binsearch(absent, 0, low)
         [] limit \notin absent /\ above # {} -> Min(above) - 1
         [] limit \notin absent /\ above = {} /\ asize(h) \in absent -> binsearch(absent, last, asize(h))
         [] OTHER -> asize(h)

luaH_getn(h, seed) ==
    LET n == IF asize(h) = 0 THEN 0 ELSE arrayLength(h) IN
    IF n < asize(h) \/ h.dummy THEN n
    ELSE IF hashkeyisempty(h, asize(h) + 1) THEN asize(h) ELSE hash_search(h, seed)

-----------------------------------------------------------------------------
TableInit ==
    /\ \E s \in Start : t = luaH_resize(setnodevector([array |-> <<>>, node |-> <<>>, dummy |-> TRUE, lastfree |-> 0, hint |-> 0], 0),
                                        s[1], s[2], FALSE)
    /\ walking = FALSE /\ key = NilKey /\ seen = {}

(* An assignment; a new key ends the traversal, which would be undefined.  *)
Set(x) ==
    \E remove, nomemory \in BOOLEAN :
        LET v == IF remove THEN Empty ELSE x[2] IN
        /\ nomemory => ~remove /\ luaH_get(t, x[1]) = Empty
        /\ t' = luaH_set(t, x[1], v, nomemory)
        /\ IF luaH_get(t, x[1]) = Empty /\ luaH_get(t', x[1]) # Empty
           THEN walking' = FALSE /\ key' = NilKey /\ seen' = {} ELSE UNCHANGED <<walking, key, seen>>

(* The collector: keys without a value are no longer references.           *)
ClearKeys ==
    /\ t' = [t EXCEPT !.node = [n \in DOMAIN @ |->
                IF @[n].val = Empty /\ Collectable(@[n].key) THEN [@[n] EXCEPT !.key = Dead(@)] ELSE @[n]]]
    /\ UNCHANGED <<walking, key, seen>>

StartWalk == ~walking /\ walking' = TRUE /\ key' = NilKey /\ seen' = {} /\ UNCHANGED t

(* luaH_next; a key that is not found raises an error.                     *)
Next1 ==
    /\ walking
    /\ LET i == findindex(t, key)
           places == PlacesAfter(t, i)
           k == KeyAt(t, Min(places))
       IN CASE i = -1 -> seen' = {NilKey} /\ UNCHANGED <<walking, key>>
            [] i # -1 /\ places # {} -> key' = k /\ seen' = seen \cup {k} /\ UNCHANGED walking
            [] OTHER -> walking' = FALSE /\ key' = NilKey /\ seen' = {}
    /\ UNCHANGED t

(* The array remembers the border that was found.                          *)
Length ==
    /\ DOMAIN t.array # {} /\ t' = [t EXCEPT !.hint = arrayLength(t)]
    /\ UNCHANGED <<walking, key, seen>>

TableNext == (\E x \in Pairs : Set(x)) \/ ClearKeys \/ StartWalk \/ Next1 \/ Length

TableSpec == TableInit /\ [][TableNext]_tableVars

-----------------------------------------------------------------------------
Contents(h) == [k \in {x \in Keys : luaH_get(h, x) # Empty} |-> luaH_get(h, k)]

(***************************************************************************)
(* A table is the map that its keys are looked up in: insertions that move *)
(* nodes, rehashes and rehashes that fail for want of memory change nothing*)
(* else, and a traversal visits each key once, even if elements are removed*)
(* on the way and the collector has cleared their keys (ltable.c).         *)
(***************************************************************************)
Map == INSTANCE LuaMap WITH map <- Contents(t)
TableIsMap == Map!MapSpec

(***************************************************************************)
(* "#" is a border: the element there is present, and the next one is not  *)
(* (luaH_getn), whatever the hint and the random numbers are.              *)
(***************************************************************************)
LengthIsBorder ==
    \A seed \in Seeds :
        LET n == luaH_getn(t, seed)
            present(i) == luaH_get(t, <<"int", i>>) # Empty
        IN (n = 0 \/ present(n)) /\ (n = MAXINT \/ ~present(n + 1))

(***************************************************************************)
(* The main invariant that ltable.c states: if an element is not in its    *)
(* main position, then the colliding element is in its own main position.  *)
(***************************************************************************)
CollidingNodeAtHome ==
    \A n \in DOMAIN t.node :
        LET mp == mainposition(t, t.node[n].key) IN
        t.node[n].val # Empty /\ mp # n /\ t.node[mp].val # Empty => mainposition(t, t.node[mp].key) = mp

=============================================================================
