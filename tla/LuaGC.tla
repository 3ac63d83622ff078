------------------------------- MODULE LuaGC -------------------------------
(***************************************************************************)
(* The collector of the Lua state (lgc.c): marking and sweeping in steps   *)
(* between those of the program, the barriers, weak tables, finalizers and *)
(* the generational mode.  A list is the set of its members; the pointers  *)
(* that divide allgc by age are the ages themselves.  Sizes and debts      *)
(* decide when a step is done and when modes change: here, at any time.    *)
(***************************************************************************)
EXTENDS Integers, FiniteSets, Sequences

CONSTANTS
    Objects, Main,   \* the objects and the main thread
    NoObject,        \* a key that is no object
    MaxEntries,      \* bound: entries of an object
    Programs         \* what a program may do: the kinds of its objects, those
                     \* it gives finalizers, how many values its stack has,
                     \* whether it asks for full collections, changes the mode

All == Objects \cup {Main}
Kinds == {"none", "string", "userdata", "closure", "table", "weakvalue", "ephemeron", "allweak", "thread"}

(* Of the objects, only tables and userdata can have finalizers.           *)
ASSUME GcAssumption ==
    /\ IsFiniteSet(Objects) /\ Main \notin Objects /\ NoObject \notin All
    /\ \A p \in Programs :
           /\ p.kind \in [All -> Kinds] /\ \A o \in All : p.kind[o] = "thread" <=> o = Main
           /\ p.finalizable \subseteq {o \in Objects : p.kind[o] \notin {"none", "string", "closure"}}

VARIABLES
    program,
    gcstate, goal,   \* goal: states still to be reached without the program
    gckind, currentwhite, gcemergency,
    color, age,
    entries,         \* pairs of key and value; the thread's are its stack
    list,            \* "free", or the list the object is in
    grays,           \* the lists of gray objects and of weak tables
    sweepgc          \* the members of the swept list not yet swept

gcVars == <<program, gcstate, goal, gckind, currentwhite, gcemergency, color, age,
            entries, list, grays, sweepgc>>
mode == <<gckind, gcemergency, program>>
heap == <<color, age, grays>>

kind == program.kind

White(i) == i
Black == 2
Gray == 3
otherwhite == 1 - currentwhite

Young == {"new", "survival"}
isold(o) == age[o] \notin Young
iswhite(o) == color[o] \in {0, 1}
IsWhite(c, o) == c[o] \in {0, 1}

NoGrays == [gray |-> {}, grayagain |-> {}, saved |-> {}, weak |-> {}, allweak |-> {}, ephemeron |-> {}]

AtomicStates == {"atomic", "again", "converge", "resurrect", "converge2", "marked"}
SweepStates == {"swpallgc", "swpfinobj", "swptobefnz", "swpend"}
keepinvariant == gcstate \in {"propagate", "enteratomic"} \cup AtomicStates

InList(l) == {o \in Objects : list[o] = l}
Existing == {o \in Objects : list[o] # "free"}
Stack == {e[2] : e \in entries[Main]}

(* The program and its finalizers run between the steps of the collector.  *)
ProgramRuns == goal = <<>> /\ gcstate \notin AtomicStates

-----------------------------------------------------------------------------
(* Marking (reallymarkobject): what refers to nothing is black at once,    *)
(* others wait.                                                            *)
Leaf(o) == kind[o] \in {"string", "userdata"}

MarkedColor(c, m) ==
    [o \in All |-> IF o \in m /\ IsWhite(c, o) THEN (IF Leaf(o) THEN Black ELSE Gray) ELSE c[o]]

MarkedGrays(c, g, m) ==
    [g EXCEPT !.gray = @ \cup {o \in m : IsWhite(c, o) /\ ~Leaf(o)}]

Ends(es) == {e[1] : e \in es} \cup {e[2] : e \in es}

(* A weak entry is cleared for a white object, but never for a string.     *)
Cleared(c, o) == o # NoObject /\ IsWhite(c, o) /\ kind[o] # "string"

Strings(s) == {o \in s \ {NoObject} : kind[o] = "string"}

(* What a traversal of o marks.                                            *)
Traversed(c, o) ==
    LET es == entries[o]
        keys == {e[1] : e \in es}
        values == {e[2] : e \in es}
    IN (CASE kind[o] = "weakvalue" -> keys \cup Strings(values)
          [] kind[o] = "ephemeron" ->
                 Strings(keys) \cup {e[2] : e \in {d \in es : ~Cleared(c, d[1])}}
          [] kind[o] = "allweak" -> {}
          [] OTHER -> keys \cup values) \ {NoObject}

(* The list a traversed object goes to, "none" when it stays black.  An    *)
(* entry is judged when it is visited: here before the traversal marks     *)
(* anything, the order in which entries with white keys come first.        *)
ListAfter(c, o, st) ==
    LET es == entries[o]
        hasclears == \E e \in es : Cleared(c, e[1])
        hasww == \E e \in es : Cleared(c, e[1]) /\ IsWhite(c, e[2])
        again == IF age[o] = "touched1" THEN "grayagain" ELSE "none"
    IN CASE kind[o] = "weakvalue" ->
              IF st = "propagate" THEN "grayagain"
              ELSE IF \E e \in es : Cleared(c, e[2]) THEN "weak" ELSE again
         [] kind[o] = "ephemeron" ->
              IF st = "propagate" THEN "grayagain"
              ELSE IF hasww THEN "ephemeron" ELSE IF hasclears THEN "allweak" ELSE again
         [] kind[o] = "allweak" -> IF st = "propagate" THEN "grayagain" ELSE "allweak"
         [] kind[o] = "thread" -> IF st = "propagate" \/ isold(o) THEN "grayagain" ELSE "none"
         [] OTHER -> again

(* propagatemark: traverse the gray object o, found in the list from.      *)
Traverse(o, from) ==
    LET c0 == [color EXCEPT ![o] = Black]
        m == Traversed(c0, o)
        c1 == MarkedColor(c0, m)
        g1 == MarkedGrays(c0, [grays EXCEPT ![from] = @ \ {o}], m)
        l == ListAfter(c0, o, gcstate)
    IN /\ color' = IF l = "none" THEN c1 ELSE [c1 EXCEPT ![o] = Gray]
       /\ grays' = IF l = "none" THEN g1 ELSE [g1 EXCEPT ![l] = @ \cup {o}]
       /\ age' = IF l = "none" /\ age[o] = "touched2" THEN [age EXCEPT ![o] = "old"] ELSE age

Mark(m) ==
    /\ color' = MarkedColor(color, m)
    /\ grays' = MarkedGrays(color, grays, m)

-----------------------------------------------------------------------------
(* Barriers.  A slip: the sweep phase keeps its black objects as they are, *)
(* and so does the marking of a traversed table.                           *)
BarrierNeverBack(o, v) == UNCHANGED heap

(* luaC_barrier_: the white v becomes known through the black o.           *)
BarrierForward(o, v) ==
    IF color[o] # Black \/ v = NoObject \/ ~iswhite(v) THEN UNCHANGED heap
    ELSE IF keepinvariant
         THEN /\ Mark({v})
              /\ age' = IF isold(o) THEN [age EXCEPT ![v] = "old0"] ELSE age
         ELSE /\ color' = IF gckind = "genminor" THEN color ELSE [color EXCEPT ![o] = currentwhite]
              /\ UNCHANGED <<age, grays>>

(* luaC_barrierback_: the black o has to be traversed again.               *)
BarrierBack(o, v) ==
    IF color[o] # Black \/ v = NoObject \/ ~iswhite(v) THEN UNCHANGED heap
    ELSE /\ color' = [color EXCEPT ![o] = Gray]
         /\ grays' = IF age[o] = "touched2" THEN grays ELSE [grays EXCEPT !.grayagain = @ \cup {o}]
         /\ age' = IF isold(o) THEN [age EXCEPT ![o] = "touched1"] ELSE age

-----------------------------------------------------------------------------
(* The program: objects are created on the stack, stored in one another,   *)
(* read back and forgotten.                                                *)
NewObject(o) ==
    /\ ProgramRuns /\ list[o] = "free" /\ kind[o] # "none" /\ Cardinality(Stack) < program.stack
    /\ \A p \in Objects : kind[p] = kind[o] /\ list[p] = "free" => o <= p
    /\ list' = [list EXCEPT ![o] = "allgc"]
    /\ color' = [color EXCEPT ![o] = White(currentwhite)]
    /\ age' = [age EXCEPT ![o] = "new"]
    /\ entries' = [entries EXCEPT ![Main] = @ \cup {<<NoObject, o>>}]
    /\ UNCHANGED <<mode, gcstate, goal, currentwhite, grays, sweepgc>>

Forget(v) ==
    /\ ProgramRuns /\ v \in Stack
    /\ entries' = [entries EXCEPT ![Main] = @ \ {<<NoObject, v>>}]
    /\ UNCHANGED <<mode, gcstate, goal, currentwhite, heap, list, sweepgc>>

Get(t, v) ==
    /\ ProgramRuns /\ t \in Stack /\ v \in Ends(entries[t]) \ ({NoObject} \cup Stack)
    /\ Cardinality(Stack) < program.stack
    /\ entries' = [entries EXCEPT ![Main] = @ \cup {<<NoObject, v>>}]
    /\ UNCHANGED <<mode, gcstate, goal, currentwhite, heap, list, sweepgc>>

IsTable(o) == kind[o] \in {"table", "weakvalue", "ephemeron", "allweak"}

(* A table gets a value (where keys are weak, under a key), a closure an   *)
(* upvalue.  In a strong table a key counts as one more value.             *)
Put(t, k, v) ==
    /\ ProgramRuns /\ t \in Stack /\ v \in Stack
    /\ k = NoObject \/ (k \in Stack /\ kind[t] \in {"ephemeron", "allweak"})
    /\ Cardinality(entries[t]) < MaxEntries /\ <<k, v>> \notin entries[t]
    /\ entries' = [entries EXCEPT ![t] = @ \cup {<<k, v>>}]
    /\ \/ IsTable(t) /\ BarrierBack(t, IF k # NoObject /\ iswhite(k) THEN k ELSE v)
       \/ kind[t] = "closure" /\ k = NoObject /\ BarrierForward(t, v)
    /\ UNCHANGED <<mode, gcstate, goal, currentwhite, list, sweepgc>>

Erase(t, e) ==
    /\ ProgramRuns /\ t \in Stack /\ e \in entries[t]
    /\ entries' = [entries EXCEPT ![t] = @ \ {e}]
    /\ UNCHANGED <<mode, gcstate, goal, currentwhite, heap, list, sweepgc>>

(* luaC_checkfinalizer, by setmetatable with a __gc.                       *)
SetFinalizer(o) ==
    /\ ProgramRuns /\ o \in Stack \cap program.finalizable /\ list[o] = "allgc"
    /\ list' = [list EXCEPT ![o] = "finobj"]
    /\ color' = IF gcstate \in SweepStates THEN [color EXCEPT ![o] = White(currentwhite)] ELSE color
    /\ sweepgc' = sweepgc \ {o}
    /\ UNCHANGED <<mode, gcstate, goal, currentwhite, age, grays, entries>>

-----------------------------------------------------------------------------
(* luaC_runtilstate: a state that was to be reached is.  A collection asked *)
(* for by the allocator ends with its last one.                             *)
Reach(st) ==
    /\ gcstate' = st
    /\ goal' = IF goal # <<>> /\ Head(goal) = st THEN Tail(goal) ELSE goal
    /\ gcemergency' = (gcemergency /\ goal' # <<>>)

Aim(targets) ==
    goal' = IF Head(targets) = gcstate' THEN Tail(targets) ELSE targets

(* GCSpause: the roots are the thread, the registry and what is left to    *)
(* be finalized.                                                           *)
RestartCollection ==
    /\ gcstate = "pause"
    /\ LET roots == {Main} \cup InList("tobefnz")
       IN /\ color' = MarkedColor(color, roots)
          /\ grays' = MarkedGrays(color, NoGrays, roots)
    /\ Reach("propagate")
    /\ UNCHANGED <<program, gckind, currentwhite, age, entries, list, sweepgc>>

PropagateMark ==
    /\ gcstate = "propagate" /\ gckind # "genminor" /\ goal = <<>>
    /\ \E o \in grays.gray : Traverse(o, "gray")
    /\ UNCHANGED <<mode, gcstate, goal, currentwhite, entries, list, sweepgc>>

EndPropagate ==
    /\ gcstate = "propagate" /\ gckind # "genminor" /\ (goal # <<>> \/ grays.gray = {})
    /\ Reach("enteratomic")
    /\ UNCHANGED <<program, gckind, currentwhite, heap, entries, list, sweepgc>>

(* atomic(): the thread may have changed, and what was put aside during    *)
(* the propagation is traversed at the end.                                *)
Atomic ==
    /\ gcstate = "enteratomic"
    /\ color' = MarkedColor(color, {Main})
    /\ grays' = MarkedGrays(color, [grays EXCEPT !.saved = grays.grayagain, !.grayagain = {}], {Main})
    /\ Reach("atomic")
    /\ UNCHANGED <<program, gckind, currentwhite, age, entries, list, sweepgc>>

PropagateAll ==
    /\ gcstate \in AtomicStates /\ grays.gray # {}
    /\ Traverse(CHOOSE o \in grays.gray : TRUE, "gray")
    /\ UNCHANGED <<mode, gcstate, goal, currentwhite, entries, list, sweepgc>>

TraverseGrayAgain ==
    /\ gcstate = "atomic" /\ grays.gray = {}
    /\ grays' = [grays EXCEPT !.gray = grays.saved, !.saved = {}]
    /\ Reach("again")
    /\ UNCHANGED <<program, gckind, currentwhite, color, age, entries, list, sweepgc>>

EndGrayAgain ==
    /\ gcstate \in {"again", "resurrect"} /\ grays.gray = {}
    /\ Reach(IF gcstate = "again" THEN "converge" ELSE "converge2")
    /\ UNCHANGED <<program, gckind, currentwhite, heap, entries, list, sweepgc>>

(* convergeephemerons: until no ephemeron table marks anything more.       *)
Marks(o) == \E v \in Traversed(color, o) : iswhite(v)
Converging == \E o \in grays.ephemeron : Marks(o)

ConvergeEphemerons ==
    /\ gcstate \in {"converge", "converge2"} /\ grays.gray = {}
    /\ \E o \in grays.ephemeron : Marks(o) /\ Traverse(o, "ephemeron")
    /\ UNCHANGED <<mode, gcstate, goal, currentwhite, entries, list, sweepgc>>

(* clearbyvalues and clearbykeys on the tables l.                          *)
ClearedBy(l, i) ==
    [o \in All |-> IF o \in l THEN {e \in entries[o] : ~Cleared(color, e[i])} ELSE entries[o]]

StringsIn(l, i) == Strings({e[i] : e \in UNION {entries[o] : o \in l}})

(* Weak values go before the objects with finalizers are brought back.     *)
SeparateToBeFinalized ==
    LET l == grays.weak \cup grays.allweak
        fin == {o \in InList("finobj") : iswhite(o)}
        m == StringsIn(l, 2) \cup fin \cup InList("tobefnz")
    IN /\ gcstate = "converge" /\ grays.gray = {} /\ ~Converging
       /\ entries' = ClearedBy(l, 2)
       /\ list' = [o \in Objects |-> IF o \in fin THEN "tobefnz" ELSE list[o]]
       /\ Mark(m)
       /\ Reach("resurrect")
       /\ UNCHANGED <<program, gckind, currentwhite, age, sweepgc>>

(* Weak keys go after, and the values of tables that were brought back.    *)
ClearWeak ==
    LET byKey == grays.ephemeron \cup grays.allweak
        byValue == grays.weak \cup grays.allweak
        kept(e, o) == (o \in byKey => ~Cleared(color, e[1])) /\ (o \in byValue => ~Cleared(color, e[2]))
    IN /\ entries' = [o \in All |-> {e \in entries[o] : kept(e, o)}]
       /\ color' = MarkedColor(color, StringsIn(byKey, 1) \cup StringsIn(byValue, 2))

(* A slip: the two whites are not exchanged.                               *)
EndAtomicSameWhite ==
    /\ gcstate = "converge2" /\ grays.gray = {} /\ ~Converging
    /\ ClearWeak
    /\ Reach("marked")
    /\ UNCHANGED <<program, gckind, currentwhite, age, list, grays, sweepgc>>

EndAtomic ==
    /\ gcstate = "converge2" /\ grays.gray = {} /\ ~Converging
    /\ ClearWeak
    /\ currentwhite' = otherwhite
    /\ Reach("marked")
    /\ UNCHANGED <<program, gckind, age, list, grays, sweepgc>>

-----------------------------------------------------------------------------
(* Freed objects are forgotten by the lists, which mean nothing then.      *)
Without(g, dead) == [l \in DOMAIN g |-> g[l] \ dead]

FreeObjects(dead) ==
    /\ list' = [o \in Objects |-> IF o \in dead THEN "free" ELSE list[o]]
    /\ entries' = [o \in All |-> IF o \in dead THEN {} ELSE entries[o]]
    /\ sweepgc' = sweepgc \ dead

EnterSweep ==
    /\ sweepgc' = InList("allgc") \cup {Main}
    /\ gcstate' = "swpallgc"

Sweeping == gcstate = "marked" /\ goal \notin {<<"gen">>, <<"young">>}

StartSweep ==
    /\ Sweeping
    /\ EnterSweep
    /\ UNCHANGED <<mode, goal, currentwhite, heap, entries, list>>

(* A slip: objects created since the marking are not told from dead ones.  *)
SweptNewToo(s) == {o \in s : iswhite(o)}

(* sweeplist: dead objects have the other white.                           *)
Swept(s) == {o \in s : color[o] = White(otherwhite)}

(* One step sweeps some objects of a list, a full collection all of them.  *)
SweepList ==
    /\ gcstate \in SweepStates /\ sweepgc # {}
    /\ \E s \in IF goal = <<>> THEN {{o} : o \in sweepgc} ELSE {sweepgc} :
          LET dead == Swept(s)
          IN /\ list' = [o \in Objects |-> IF o \in dead THEN "free" ELSE list[o]]
             /\ entries' = [o \in All |-> IF o \in dead THEN {} ELSE entries[o]]
             /\ color' = [o \in All |-> IF o \in s THEN White(IF o \in dead THEN 0 ELSE currentwhite) ELSE color[o]]
             /\ age' = [o \in All |-> IF o \in s THEN "new" ELSE age[o]]
             /\ grays' = Without(grays, s)
             /\ sweepgc' = sweepgc \ s
    /\ UNCHANGED <<mode, gcstate, goal, currentwhite>>

SweepNext ==
    /\ gcstate \in SweepStates /\ sweepgc = {}
    /\ CASE gcstate = "swpallgc" -> sweepgc' = InList("finobj") /\ Reach("swpfinobj")
         [] gcstate = "swpfinobj" -> sweepgc' = InList("tobefnz") /\ Reach("swptobefnz")
         [] gcstate = "swptobefnz" -> sweepgc' = {} /\ Reach("swpend")
         [] gcstate = "swpend" -> sweepgc' = {} /\ Reach("callfin")
    /\ UNCHANGED <<program, gckind, currentwhite, heap, entries, list>>

(* GCTM: the object is an ordinary one again; its finalizer may keep it.   *)
CallFinalizer(o) ==
    /\ o \in InList("tobefnz") /\ ~gcemergency
    /\ gcstate = "callfin" \/ goal = <<"fin">>
    /\ list' = [list EXCEPT ![o] = "allgc"]
    /\ entries' \in {entries} \cup
          (IF Cardinality(Stack) < program.stack THEN {[entries EXCEPT ![Main] = @ \cup {<<NoObject, o>>}]} ELSE {})
    /\ UNCHANGED <<mode, gcstate, goal, currentwhite, heap, sweepgc>>

EndCycle ==
    /\ gcstate = "callfin" /\ (InList("tobefnz") = {} \/ gcemergency)
    /\ Reach("pause")
    /\ UNCHANGED <<program, gckind, currentwhite, heap, entries, list, sweepgc>>

(* luaC_fullgc, by collectgarbage() or an allocation that failed.  Without *)
(* the generational mode: what is black becomes white first.  (The two     *)
(* differ where there are objects with finalizers.)                        *)
FullGC(emergency) ==
    /\ program.full /\ ProgramRuns
    /\ emergency => InList("finobj") \cup InList("tobefnz") # {}
    /\ gcemergency' = emergency
    /\ IF keepinvariant THEN EnterSweep ELSE UNCHANGED <<gcstate, sweepgc>>
    /\ IF gckind = "genminor"
       THEN gckind' = "inc" /\ Aim(<<"pause", "propagate", "gen">>)
       ELSE UNCHANGED gckind /\ Aim(<<"pause", "callfin", "pause">>)
    /\ UNCHANGED <<program, currentwhite, heap, entries, list>>

-----------------------------------------------------------------------------
(* luaC_changemode, by collectgarbage("generational"), here at the start of*)
(* a program, and ("incremental").                                         *)
ChangeMode ==
    /\ program.modes /\ ProgramRuns /\ (gckind = "genminor" \/ Existing = {})
    /\ IF gckind = "genminor"
       THEN gckind' = "inc" /\ EnterSweep /\ UNCHANGED goal
       ELSE gckind' = "inc" /\ UNCHANGED <<gcstate, sweepgc>> /\ Aim(<<"pause", "propagate", "gen">>)
    /\ UNCHANGED <<program, gcemergency, currentwhite, heap, entries, list>>

(* correctgraylists: what was touched in this cycle stays in a list, and   *)
(* so do threads.                                                          *)
Grayish(g) == g.grayagain \cup g.weak \cup g.allweak \cup g.ephemeron

(* finishgencycle on colors c, ages a and lists g.                         *)
FinishGenCycle(c, a, g) ==
    LET in == {o \in Grayish(g) : ~IsWhite(c, o)}
        touched == {o \in in : a[o] = "touched1"}
        thread == {o \in in \ touched : kind[o] = "thread"}
    IN /\ color' = [o \in All |-> IF o \in in \ thread THEN Black ELSE c[o]]
       /\ age' = [o \in All |-> IF o \in touched THEN "touched2"
                                ELSE IF o \in in /\ a[o] = "touched2" THEN "old" ELSE a[o]]
       /\ grays' = [NoGrays EXCEPT !.grayagain = touched \cup thread]
       /\ gcstate' = "propagate"
       /\ goal' = IF gcemergency THEN <<>> ELSE <<"fin">>
       /\ gcemergency' = FALSE

EndPending ==
    /\ goal = <<"fin">> /\ InList("tobefnz") = {}
    /\ goal' = <<>>
    /\ UNCHANGED <<mode, gcstate, currentwhite, heap, entries, list, sweepgc>>

(* atomic2gen: everything that is left is old.  Also taken by a major      *)
(* collection that found enough to free (checkmajorminor).                 *)
Atomic2Gen ==
    /\ gcstate = "marked"
    /\ goal = <<"gen">> \/ (goal = <<>> /\ gckind = "genmajor")
    /\ LET dead == {o \in Existing : iswhite(o)}
       IN /\ FreeObjects(dead)
          /\ FinishGenCycle([o \in All |-> IF o \in dead THEN White(0) ELSE IF o = Main THEN Gray ELSE Black],
                            [o \in All |-> IF o \in dead \/ o \in InList("free") THEN "new" ELSE "old"],
                            [NoGrays EXCEPT !.grayagain = {Main}])
    /\ gckind' = "genminor"
    /\ UNCHANGED <<program, currentwhite>>

(* youngcollection up to atomic(): objects that were caught in between     *)
(* become old, and are traversed once more.                                *)
YoungCollection ==
    /\ gckind = "genminor" /\ ProgramRuns
    /\ LET m == {o \in Existing : age[o] = "old1"}
           b == {o \in m : color[o] = Black /\ ~Leaf(o)}
       IN /\ age' = [o \in All |-> IF o \in m THEN "old" ELSE age[o]]
          /\ color' = [o \in All |-> IF o \in b THEN Gray ELSE color[o]]
          /\ grays' = [grays EXCEPT !.gray = @ \cup b]
    /\ gcstate' = "enteratomic" /\ goal' = <<"young">>
    /\ UNCHANGED <<mode, currentwhite, entries, list, sweepgc>>

NextAge(a) ==
    CASE a = "new" -> "survival" [] a = "survival" -> "old1" [] a = "old0" -> "old1"
      [] a = "old1" -> "old" [] OTHER -> a

(* sweepgen on the three lists, and the end of youngcollection: enough     *)
(* became old for a major collection, or not.                              *)
SweepYoung ==
    /\ gcstate = "marked" /\ goal = <<"young">>
    /\ LET dead == {o \in Existing : iswhite(o)}
           c == [o \in All |-> IF o \in dead THEN White(0) ELSE IF age[o] = "new" THEN currentwhite ELSE color[o]]
           a == [o \in All |-> IF o \in dead \/ o \in InList("free") THEN "new" ELSE NextAge(age[o])]
       IN \/ /\ gckind' = "genmajor"
             /\ color' = c /\ age' = a /\ grays' = Without(grays, dead)
             /\ list' = [o \in Objects |-> IF o \in dead THEN "free" ELSE list[o]]
             /\ entries' = [o \in All |-> IF o \in dead THEN {} ELSE entries[o]]
             /\ sweepgc' = (InList("allgc") \ dead) \cup {Main}
             /\ gcstate' = "swpallgc" /\ goal' = <<>>
             /\ UNCHANGED gcemergency
          \/ /\ UNCHANGED gckind
             /\ FreeObjects(dead)
             /\ FinishGenCycle(c, a, Without(grays, dead))
    /\ UNCHANGED <<program, currentwhite>>

-----------------------------------------------------------------------------
GcInit ==
    /\ program \in Programs
    /\ gcstate = "pause" /\ goal = <<>>
    /\ gckind = "inc" /\ currentwhite = 0 /\ gcemergency = FALSE
    /\ color = [o \in All |-> White(0)]
    /\ age = [o \in All |-> "new"]
    /\ entries = [o \in All |-> {}]
    /\ list = [o \in Objects |-> "free"]
    /\ grays = NoGrays
    /\ sweepgc = {}

Mutator ==
    \/ \E o \in Objects : NewObject(o) \/ Forget(o) \/ SetFinalizer(o)
    \/ \E t, v \in Objects : Get(t, v) \/ (\E k \in Objects \cup {NoObject} : Put(t, k, v))
    \/ \E t \in Objects : \E e \in entries[t] : Erase(t, e)

(* luaC_step, and what a collection under way does without the program.    *)
SingleStep ==
    \/ RestartCollection \/ PropagateMark \/ EndPropagate
    \/ Atomic \/ PropagateAll \/ TraverseGrayAgain \/ EndGrayAgain \/ ConvergeEphemerons
    \/ SeparateToBeFinalized \/ EndAtomic
    \/ StartSweep \/ SweepList \/ SweepNext
    \/ (\E o \in Objects : CallFinalizer(o)) \/ EndCycle \/ EndPending
    \/ Atomic2Gen \/ SweepYoung

GcNext ==
    \/ Mutator
    \/ SingleStep
    \/ (\E e \in BOOLEAN : FullGC(e)) \/ ChangeMode \/ YoungCollection

(* A program that goes on allocating has the collector do its steps.       *)
GcFairness == WF_gcVars(SingleStep)

GcSpec == GcInit /\ [][GcNext]_gcVars /\ GcFairness

-----------------------------------------------------------------------------
(* What the program can get at from the objects roots: what weak tables    *)
(* hold it can get as long as they hold it.                                *)
StrongStep(s) ==
    s \cup UNION {(CASE kind[o] \in {"weakvalue", "allweak"} -> Strings(Ends(entries[o]))
                     [] kind[o] = "ephemeron" ->
                           Strings(Ends(entries[o])) \cup
                           {e[2] : e \in {d \in entries[o] : d[1] \in s \cup {NoObject} \/ kind[d[1]] = "string"}}
                     [] OTHER -> Ends(entries[o])) \ {NoObject} : o \in s}

Reachable(roots) ==
    LET R[i \in 0 .. Cardinality(All)] == IF i = 0 THEN roots ELSE StrongStep(R[i - 1])
    IN R[Cardinality(All)]

(* No object is freed that the program, or a finalizer that is still to be *)
(* called, can get hold of: neither through references nor out of a weak   *)
(* table, whatever steps the collector and the program take in turn and    *)
(* whichever mode the collector works in.                                  *)
NoDanglingReference ==
    \A o \in Reachable({Main} \cup InList("finobj") \cup InList("tobefnz")) :
        Ends(entries[o]) \ {NoObject} \subseteq Existing

(* Only garbage is handed to a finalizer: separatetobefnz takes no object  *)
(* the program can reach through strong references.                        *)
FinalizesGarbage ==
    [][\A o \in Objects :
          list[o] = "finobj" /\ list'[o] = "tobefnz" => o \notin Reachable({Main})]_gcVars

(* Garbage goes: an object out of reach is freed or comes back within      *)
(* reach, through a finalizer or a weak table.                             *)
GarbageIsFreed ==
    \A o \in Objects :
        (~program.full /\ ~program.modes /\ o \in Existing /\ o \notin Reachable({Main})) ~> (o \notin Existing \/ o \in Reachable({Main}))

=============================================================================
