--------------------------- MODULE LuaMemoryProofs --------------------------
(***************************************************************************)
(* The collector never frees what the program can get hold of, and hands   *)
(* only garbage to finalizers: in every order of its steps and those of    *)
(* the program, in the incremental and in the generational mode.           *)
(*                                                                         *)
(* The counter of the allocator is exact and the limit holds, for every    *)
(* heap, every limit and every sequence of allocations.  Both need that    *)
(* blocks are disjoint, and that a pending request knows the size of the   *)
(* block it resizes, whatever the collector frees in between.              *)
(***************************************************************************)
EXTENDS LuaGC, PsramAllocator, Extrema

Ages == {"new", "survival", "old0", "old1", "old", "touched1", "touched2"}
Lists == {"gray", "grayagain", "saved", "weak", "allweak", "ephemeron"}
States == {"pause", "propagate", "enteratomic", "callfin"} \cup AtomicStates \cup SweepStates
Goals == {<<>>, <<"pause", "callfin", "pause">>, <<"callfin", "pause">>, <<"pause">>,
          <<"pause", "propagate", "gen">>, <<"propagate", "gen">>, <<"gen">>, <<"young">>, <<"fin">>}

GcTypeOK ==
    /\ program \in Programs
    /\ gcstate \in States /\ goal \in Goals
    /\ gckind \in {"inc", "genminor", "genmajor"}
    /\ currentwhite \in {0, 1}
    /\ color \in [All -> 0 .. 3]
    /\ age \in [All -> Ages]
    /\ entries \in [All -> SUBSET ((Objects \cup {NoObject}) \X Objects)]
    /\ list \in [Objects -> {"free", "allgc", "finobj", "tobefnz"}]
    /\ grays \in [Lists -> SUBSET All]
    /\ sweepgc \subseteq All

-----------------------------------------------------------------------------
(* The inductive invariant. *)

(* Objects there are, the thread included.                                 *)
There == Existing \cup {Main}
Refs(o) == Ends(entries[o]) \ {NoObject}
Dead(o) == color[o] = White(otherwhite)
Alive == {o \in Existing : ~Dead(o)}

KindsFit ==
    \A o \in Objects : /\ Leaf(o) \/ list[o] = "free" => entries[o] = {}
                       /\ list[o] = "finobj" => kind[o] # "string"

(* A young collection is under way or the program runs.                    *)
Control ==
    /\ gckind = "genminor" =>
           IF gcstate = "propagate" THEN goal \in {<<>>, <<"fin">>}
           ELSE gcstate \in {"enteratomic"} \cup AtomicStates /\ goal = <<"young">>
    /\ goal \in {<<"young">>, <<"fin">>} => gckind = "genminor"

(* Dead objects wait in the first list that is swept, from when all that   *)
(* is alive was traversed; and what is not dead refers to nothing dead.    *)
DeadOnlyInSweep ==
    /\ gcstate \notin {"marked", "swpallgc"} => \A o \in There : ~Dead(o)
    /\ gcstate = "swpallgc" => \A o \in There : Dead(o) => o \in sweepgc
    /\ gcstate = "marked" => /\ grays.gray \cup grays.saved = {}
                             /\ \A o \in Existing : color[o] # White(currentwhite)

Closed ==
    /\ InList("finobj") \cup InList("tobefnz") \subseteq Alive
    /\ ~Dead(Main)
    /\ \A o \in There : ~Dead(o) => Refs(o) \subseteq Alive

(* What the sweep has passed is new and white.                             *)
ToSweep ==
    CASE gcstate = "swpallgc" -> sweepgc \cup InList("finobj") \cup InList("tobefnz")
      [] gcstate = "swpfinobj" -> sweepgc \cup InList("tobefnz")
      [] gcstate = "swptobefnz" -> sweepgc
      [] OTHER -> {}

SweptIsNew ==
    /\ gcstate = "swpfinobj" => sweepgc \subseteq InList("finobj")
    /\ gcstate = "swptobefnz" => sweepgc \subseteq InList("tobefnz")
    /\ gcstate \in SweepStates \cup {"callfin", "pause"} =>
           \A o \in There \ ToSweep : color[o] = White(currentwhite) /\ age[o] = "new"

AllNewInIncremental ==
    gckind # "genminor" /\ gcstate \in {"propagate", "enteratomic"} \cup AtomicStates =>
        \A o \in There : age[o] = "new"

(* The tricolor invariant: what is marked and refers to something white is *)
(* still to be traversed.                                                  *)
RefsMarked(o) == \A p \in Refs(o) : ~iswhite(p)

Propagating ==
    gcstate \in {"propagate", "enteratomic"} =>
        /\ grays.saved \cup grays.weak \cup grays.allweak \cup grays.ephemeron = {}
        /\ Main \in grays.gray \cup grays.grayagain /\ ~iswhite(Main)
        /\ \A o \in Existing : color[o] = Gray => o \in grays.gray \cup grays.grayagain
        /\ gckind # "genminor" \/ gcstate = "enteratomic" =>
               \A o \in Existing : color[o] = Black => o \in grays.gray \cup grays.grayagain \/ RefsMarked(o)

(* A weak table that was traversed: what may be white in it is cleared at  *)
(* the end, because of the list it is in.                                  *)
Finished(o) ==
    \/ RefsMarked(o)
    \/ kind[o] = "weakvalue" /\ o \in grays.weak /\ \A e \in entries[o] : e[1] = NoObject \/ ~iswhite(e[1])
    \/ kind[o] = "allweak" /\ o \in grays.allweak
    \/ kind[o] = "ephemeron" /\ o \in grays.ephemeron
    \/ kind[o] = "ephemeron" /\ o \in grays.allweak /\ \A e \in entries[o] : ~iswhite(e[2])

InAtomic ==
    gcstate \in AtomicStates \ {"marked"} =>
        /\ ~iswhite(Main)
        /\ gcstate # "atomic" => grays.saved = {}
        /\ \A o \in There : ~iswhite(o) => o \in grays.gray \cup grays.saved \/ Finished(o)
        /\ gcstate \in {"resurrect", "converge2"} =>
               \A o \in InList("finobj") \cup InList("tobefnz") : ~iswhite(o)

(* Between young collections: white is young; an old object refers to      *)
(* nothing young, unless it waits to be traversed.                         *)
OlderRefs(o) ==
    /\ age[o] = "old" => \A p \in Refs(o) : age[p] \notin Young
    /\ age[o] \in {"old1", "touched2"} => \A p \in Refs(o) : age[p] # "new"

BetweenYoung ==
    gckind = "genminor" /\ gcstate = "propagate" =>
        /\ age[Main] = "old"
        /\ \A o \in Existing :
               /\ iswhite(o) <=> age[o] \in Young
               /\ age[o] \in {"touched1", "touched2"} => o \in grays.grayagain
               /\ age[o] = "old0" => o \in grays.gray \/ Leaf(o)
               /\ color[o] = Gray => age[o] \in {"old0", "touched1"}
               /\ OlderRefs(o)

(* In a young collection: what will be old refers to nothing that will not *)
(* be marked in the next one.                                              *)
Listed(o) == \E l \in Lists : o \in grays[l]

InYoung ==
    gckind = "genminor" /\ gcstate # "propagate" =>
        /\ age[Main] = "old" /\ Listed(Main) /\ ~iswhite(Main)
        /\ \A o \in Existing :
               /\ age[o] # "old1"
               /\ age[o] \in {"touched1", "touched2"} => Listed(o)
               /\ color[o] = Gray => Listed(o)
               /\ age[o] \in {"old", "touched2"} => \A p \in Refs(o) : age[p] # "new"

GcInv ==
    /\ GcTypeOK /\ KindsFit /\ Control /\ DeadOnlyInSweep /\ Closed
    /\ SweptIsNew /\ AllNewInIncremental /\ Propagating /\ InAtomic
    /\ BetweenYoung /\ InYoung

-----------------------------------------------------------------------------
(* Marking and traversing. *)

(* Marking makes white objects black if they refer to nothing, and gray in *)
(* the list of gray objects otherwise (reallymarkobject).                  *)
LEMMA MarkFacts ==
    ASSUME NEW c \in [All -> 0 .. 3], NEW g \in [Lists -> SUBSET All], NEW m \in SUBSET All
    PROVE  /\ MarkedColor(c, m) \in [All -> 0 .. 3]
           /\ MarkedGrays(c, g, m) \in [Lists -> SUBSET All]
           /\ \A l \in Lists : /\ g[l] \subseteq MarkedGrays(c, g, m)[l]
                               /\ l # "gray" => MarkedGrays(c, g, m)[l] = g[l]
           /\ \A o \in All :
                 \/ ~(o \in m /\ IsWhite(c, o)) /\ MarkedColor(c, m)[o] = c[o]
                 \/ /\ o \in m /\ IsWhite(c, o)
                    /\ \/ Leaf(o) /\ MarkedColor(c, m)[o] = Black
                       \/ ~Leaf(o) /\ MarkedColor(c, m)[o] = Gray /\ o \in MarkedGrays(c, g, m)["gray"]
PROOF
<1>1. MarkedColor(c, m) \in [All -> 0 .. 3]
  BY DEF MarkedColor, Black, Gray
<1>2. MarkedGrays(c, g, m) = [g EXCEPT !["gray"] = g["gray"] \cup {o \in m : IsWhite(c, o) /\ ~Leaf(o)}]
  BY DEF MarkedGrays
<1>3. "gray" \in Lists
  BY DEF Lists
<1> QED
  BY <1>1, <1>2, <1>3 DEF MarkedColor

(* Only objects are ever marked: what an object refers to.                 *)
LEMMA TraversedInRefs ==
    ASSUME GcTypeOK, NEW o \in All, NEW c
    PROVE  /\ Traversed(c, o) \subseteq Refs(o)
           /\ Refs(o) \subseteq Objects
PROOF
<1>1. entries[o] \subseteq (Objects \cup {NoObject}) \X Objects
  BY DEF GcTypeOK
<1>2. \A e \in entries[o] : e[1] \in Objects \cup {NoObject} /\ e[2] \in Objects
  BY <1>1
<1>3. Refs(o) \subseteq Objects
  BY <1>2 DEF Refs, Ends
<1>4. Traversed(c, o) \subseteq Refs(o)
  BY DEF Traversed, Refs, Ends, Strings
<1> QED
  BY <1>3, <1>4

(* What one traversal does to the colors, the ages and the lists: the      *)
(* object is finished, or waits in a list for the end of the collection    *)
(* (propagatemark, genlink).                                               *)
AfterTraversal(o, from) ==
    /\ color' \in [All -> 0 .. 3] /\ grays' \in [Lists -> SUBSET All] /\ age' \in [All -> Ages]
    /\ ~IsWhite(color', o)
    /\ \A p \in All \ {o} :
          \/ color'[p] = color[p]
          \/ /\ iswhite(p)
             /\ \/ Leaf(p) /\ color'[p] = Black
                \/ ~Leaf(p) /\ color'[p] = Gray /\ p \in grays'["gray"]
    /\ \A l \in Lists : grays[l] \subseteq grays'[l] \cup {o} /\ (l # from => grays[l] \subseteq grays'[l])
    /\ grays'["saved"] = grays["saved"]
    /\ gcstate = "propagate" => /\ \A l \in {"weak", "allweak", "ephemeron"} : grays'[l] = grays[l]
                                /\ o \in grays'["grayagain"] \/ RefsMarked(o)'
    /\ gcstate # "propagate" => Finished(o)'
    /\ color'[o] = Gray => \E l \in Lists : o \in grays'[l]
    /\ gcstate = "propagate" /\ color'[o] = Gray => o \in grays'["grayagain"]
    /\ \A p \in All \ {o} : age'[p] = age[p]
    /\ \/ age'[o] = age[o] /\ (age[o] \in {"touched1", "touched2"} => \E l \in Lists : o \in grays'[l])
       \/ age[o] = "touched2" /\ age'[o] = "old"
    /\ kind[o] = "thread" /\ (gcstate = "propagate" \/ isold(o)) => o \in grays'["grayagain"]

LEMMA TraverseFacts ==
    ASSUME GcTypeOK, UNCHANGED <<program, entries>>,
           NEW from \in {"gray", "ephemeron"}, gcstate = "propagate" => from = "gray",
           NEW o \in grays[from], Traverse(o, from)
    PROVE  AfterTraversal(o, from)
PROOF
<1> DEFINE c0 == [color EXCEPT ![o] = Black]
           m == Traversed(c0, o)
           g0 == [grays EXCEPT ![from] = @ \ {o}]
           c1 == MarkedColor(c0, m)
           g1 == MarkedGrays(c0, g0, m)
           l == ListAfter(c0, o, gcstate)
<1>0. o \in All /\ from \in Lists
  BY DEF GcTypeOK, Lists
<1>1. c0 \in [All -> 0 .. 3] /\ c0[o] = Black /\ \A p \in All \ {o} : c0[p] = color[p]
  BY <1>0 DEF GcTypeOK, Black
<1>2. g0 \in [Lists -> SUBSET All] /\ g0[from] = grays[from] \ {o}
      /\ \A k \in Lists \ {from} : g0[k] = grays[k]
  BY <1>0 DEF GcTypeOK
<1>3. m \subseteq Refs(o) /\ Refs(o) \subseteq Objects /\ m \in SUBSET All
  BY <1>0, TraversedInRefs DEF All
<1>4. /\ color' = IF l = "none" THEN c1 ELSE [c1 EXCEPT ![o] = Gray]
      /\ grays' = IF l = "none" THEN g1 ELSE [g1 EXCEPT ![l] = @ \cup {o}]
      /\ age' = IF l = "none" /\ age[o] = "touched2" THEN [age EXCEPT ![o] = "old"] ELSE age
  BY DEF Traverse
<1>5. l \in {"none", "grayagain", "weak", "ephemeron", "allweak"}
  BY DEF ListAfter
<1>6. /\ c1 \in [All -> 0 .. 3] /\ g1 \in [Lists -> SUBSET All]
      /\ \A k \in Lists : /\ g0[k] \subseteq g1[k]
                          /\ k # "gray" => g1[k] = g0[k]
      /\ \A p \in All :
            \/ ~(p \in m /\ IsWhite(c0, p)) /\ c1[p] = c0[p]
            \/ /\ p \in m /\ IsWhite(c0, p)
               /\ \/ Leaf(p) /\ c1[p] = Black
                  \/ ~Leaf(p) /\ c1[p] = Gray /\ p \in g1["gray"]
  <2> HIDE DEF c0, g0, m
  <2> QED
    BY <1>1, <1>2, <1>3, MarkFacts
<1>7. \A p \in m : ~IsWhite(c1, p)
  <2> HIDE DEF c0, g0, m, c1, g1
  <2> QED
    BY <1>6, <1>3 DEF IsWhite, Black, Gray
<1>8. c1[o] = Black
  <2> HIDE DEF g0, m, c1, g1
  <2> QED
    BY <1>0, <1>1, <1>6 DEF IsWhite, Black
<1>9. /\ l = "none" => \/ kind[o] \notin {"weakvalue", "ephemeron", "allweak"}
                       \/ kind[o] = "weakvalue" /\ \A e \in entries[o] : ~Cleared(c0, e[2])
                       \/ kind[o] = "ephemeron" /\ \A e \in entries[o] : ~Cleared(c0, e[1])
      /\ l = "none" => age[o] # "touched1" \/ kind[o] = "thread"
      /\ l = "none" /\ kind[o] = "thread" => ~isold(o)
      /\ gcstate = "propagate" => l \in {"none", "grayagain"}
      /\ gcstate = "propagate" /\ l = "none" => kind[o] \notin {"weakvalue", "ephemeron", "allweak"}
      /\ l = "grayagain" /\ gcstate # "propagate" =>
             \/ kind[o] \notin {"weakvalue", "ephemeron", "allweak"}
             \/ kind[o] = "weakvalue" /\ \A e \in entries[o] : ~Cleared(c0, e[2])
             \/ kind[o] = "ephemeron" /\ \A e \in entries[o] : ~Cleared(c0, e[1])
      /\ l = "weak" => kind[o] = "weakvalue"
      /\ l = "ephemeron" => kind[o] = "ephemeron"
      /\ l = "allweak" => \/ kind[o] = "allweak"
                          \/ kind[o] = "ephemeron" /\ \A e \in entries[o] : ~(Cleared(c0, e[1]) /\ IsWhite(c0, e[2]))
      /\ kind[o] = "thread" /\ (gcstate = "propagate" \/ isold(o)) => l = "grayagain"
  <2> HIDE DEF c0, g0, m, c1, g1
  <2> QED
    BY DEF ListAfter, isold, Young
<1>10. /\ kind[o] \notin {"weakvalue", "ephemeron", "allweak"} => m = Refs(o)
       /\ kind[o] = "weakvalue" => \A e \in entries[o] : /\ e[1] = NoObject \/ e[1] \in m
                                                         /\ kind[e[2]] = "string" => e[2] \in m
       /\ kind[o] = "ephemeron" => \A e \in entries[o] : /\ kind[e[1]] = "string" => e[1] = NoObject \/ e[1] \in m
                                                         /\ Cleared(c0, e[1]) \/ e[2] \in m
  <2> HIDE DEF c0
  <2>1. \A e \in entries[o] : e[2] # NoObject
    BY <1>0, GcAssumption DEF GcTypeOK, All
  <2> QED
    BY <2>1 DEF Traversed, Refs, Ends, Strings
<1>11. RefsMarked(o)' <=> \A p \in Refs(o) : ~IsWhite(color', p)
  BY DEF RefsMarked, Refs, iswhite, IsWhite
<1>12. \A p \in All : IsWhite(color', p) => IsWhite(c1, p)
  <2> HIDE DEF c0, g0, m, c1, g1, l
  <2> QED
    BY <1>0, <1>4, <1>6 DEF IsWhite, Gray
<1>13. \A p \in m : ~IsWhite(color', p)
  <2> HIDE DEF c0, g0, m, c1, g1, l
  <2> QED
    BY <1>3, <1>7, <1>12 DEF All
<1>14. /\ color' \in [All -> 0 .. 3] /\ grays' \in [Lists -> SUBSET All] /\ age' \in [All -> Ages]
       /\ ~IsWhite(color', o)
  <2> HIDE DEF c0, g0, m, c1, g1, l
  <2>1. l # "none" => l \in Lists
    BY <1>5 DEF Lists
  <2>2. age' \in [All -> Ages]
    BY <1>0, <1>4 DEF GcTypeOK, Ages
  <2>3. color' \in [All -> 0 .. 3] /\ ~IsWhite(color', o)
    BY <1>0, <1>4, <1>6, <1>8 DEF IsWhite, Gray, Black
  <2>4. grays' \in [Lists -> SUBSET All]
    BY <1>0, <1>4, <1>6, <2>1
  <2> QED
    BY <2>2, <2>3, <2>4
<1>15. \A p \in All \ {o} :
          \/ color'[p] = color[p]
          \/ /\ iswhite(p)
             /\ \/ Leaf(p) /\ color'[p] = Black
                \/ ~Leaf(p) /\ color'[p] = Gray /\ p \in grays'["gray"]
  <2> HIDE DEF c0, g0, m, c1, g1, l
  <2> SUFFICES ASSUME NEW p \in All \ {o}
               PROVE  \/ color'[p] = color[p]
                      \/ /\ iswhite(p)
                         /\ \/ Leaf(p) /\ color'[p] = Black
                            \/ ~Leaf(p) /\ color'[p] = Gray /\ p \in grays'["gray"]
    OBVIOUS
  <2>1. color'[p] = c1[p]
    BY <1>0, <1>4, <1>6
  <2>2. g1["gray"] \subseteq grays'["gray"]
    BY <1>4, <1>5, <1>6 DEF Lists
  <2>3. IsWhite(c0, p) => iswhite(p)
    BY <1>1 DEF IsWhite, iswhite
  <2> QED
    BY <1>1, <1>6, <2>1, <2>2, <2>3
<1>16. /\ \A k \in Lists : grays[k] \subseteq grays'[k] \cup {o} /\ (k # from => grays[k] \subseteq grays'[k])
       /\ grays'["saved"] = grays["saved"]
       /\ l # "none" => o \in grays'[l]
       /\ \A k \in Lists \ {l, "gray", from} : grays'[k] = grays[k]
  <2> HIDE DEF c0, g0, m, c1, g1, l
  <2>1. \A k \in Lists : g1[k] \subseteq grays'[k] /\ (k # l => grays'[k] = g1[k])
    BY <1>4, <1>5, <1>6 DEF Lists
  <2>2. l # "none" => o \in grays'[l]
    BY <1>4, <1>5, <1>6 DEF Lists
  <2>3. \A k \in Lists : grays[k] \subseteq g1[k] \cup {o} /\ (k # from => grays[k] \subseteq g1[k])
    BY <1>2, <1>6
  <2>4. grays'["saved"] = grays["saved"]
    BY <1>2, <1>4, <1>5, <1>6 DEF Lists
  <2> QED
    BY <1>2, <1>6, <2>1, <2>2, <2>3, <2>4
<1>17. color'[o] = Gray => l # "none" /\ o \in grays'[l] /\ l \in Lists
  <2> HIDE DEF c0, g0, m, c1, g1, l
  <2> QED
    BY <1>4, <1>5, <1>8, <1>16 DEF Lists, Gray, Black
<1>18. gcstate = "propagate" => /\ \A k \in {"weak", "allweak", "ephemeron"} : grays'[k] = grays[k]
                                /\ o \in grays'["grayagain"] \/ RefsMarked(o)'
                                /\ color'[o] = Gray => o \in grays'["grayagain"]
  <2> HIDE DEF c0, g0, m, c1, g1, l
  <2> QED
    BY <1>9, <1>10, <1>11, <1>13, <1>16, <1>17 DEF Lists
<1>19. ASSUME gcstate # "propagate"
       PROVE  Finished(o)'
  <2> HIDE DEF c0, g0, m, c1, g1, l
  <2>0. kind' = kind /\ entries' = entries
    BY DEF kind
  <2>1. CASE kind[o] \notin {"weakvalue", "ephemeron", "allweak"}
    BY <1>10, <1>11, <1>13, <2>1 DEF Finished
  <2>2. CASE kind[o] = "weakvalue" /\ l = "weak"
    <3>1. \A e \in entries[o] : e[1] = NoObject \/ ~IsWhite(color', e[1])
      BY <1>10, <1>13, <2>2
    <3> QED
      BY <1>16, <2>0, <2>2, <3>1 DEF Finished, iswhite, IsWhite
  <2>3. CASE kind[o] = "allweak" /\ l = "allweak"
    BY <1>16, <2>0, <2>3 DEF Finished
  <2>4. CASE kind[o] = "ephemeron" /\ l = "ephemeron"
    BY <1>16, <2>0, <2>4 DEF Finished
  <2>5. CASE kind[o] = "ephemeron" /\ l = "allweak"
    <3>1. ASSUME NEW e \in entries[o]
          PROVE  ~IsWhite(color', e[2])
      <4>1. e[2] \in All
        BY <1>0 DEF GcTypeOK, All
      <4>2. CASE Cleared(c0, e[1])
        <5>1. ~IsWhite(c0, e[2])
          BY <1>9, <2>5, <4>2
        <5>2. ~IsWhite(c1, e[2])
          BY <1>6, <4>1, <5>1 DEF IsWhite
        <5> QED
          BY <1>12, <4>1, <5>2
      <4> QED
        BY <1>10, <1>13, <2>5, <4>2
    <3> QED
      BY <1>16, <2>0, <2>5, <3>1 DEF Finished, iswhite, IsWhite
  <2>6. CASE kind[o] = "weakvalue" /\ l \in {"none", "grayagain"}
    <3>1. ASSUME NEW e \in entries[o]
          PROVE  ~IsWhite(color', e[2]) /\ (e[1] = NoObject \/ ~IsWhite(color', e[1]))
      <4>1. e[2] \in All /\ e[2] # NoObject
        BY <1>0, GcAssumption DEF GcTypeOK, All
      <4>2. ~Cleared(c0, e[2])
        BY <1>9, <1>19, <2>6
      <4>3. CASE ~IsWhite(c0, e[2])
        <5>1. ~IsWhite(c1, e[2])
          BY <1>6, <4>1, <4>3 DEF IsWhite
        <5> QED
          BY <1>10, <1>12, <1>13, <2>6, <4>1, <5>1
      <4>4. CASE kind[e[2]] = "string"
        BY <1>10, <1>13, <2>6, <4>4
      <4> QED
        BY <4>1, <4>2, <4>3, <4>4 DEF Cleared
    <3>2. \A p \in Refs(o) : ~IsWhite(color', p)
      BY <3>1 DEF Refs, Ends
    <3> QED
      BY <1>11, <3>2 DEF Finished
  <2>7. CASE kind[o] = "ephemeron" /\ l \in {"none", "grayagain"}
    <3>1. ASSUME NEW e \in entries[o]
          PROVE  ~IsWhite(color', e[2]) /\ (e[1] = NoObject \/ ~IsWhite(color', e[1]))
      <4>1. e[2] \in All /\ (e[1] = NoObject \/ e[1] \in All)
        BY <1>0 DEF GcTypeOK, All
      <4>2. ~Cleared(c0, e[1])
        BY <1>9, <1>19, <2>7
      <4>3. ~IsWhite(color', e[2])
        BY <1>10, <1>13, <2>7, <4>2
      <4>4. CASE e[1] # NoObject /\ ~IsWhite(c0, e[1])
        <5>1. ~IsWhite(c1, e[1])
          BY <1>6, <4>1, <4>4 DEF IsWhite
        <5> QED
          BY <1>12, <4>1, <4>3, <4>4, <5>1
      <4>5. CASE kind[e[1]] = "string"
        BY <1>10, <1>13, <2>7, <4>3, <4>5
      <4> QED
        BY <4>2, <4>3, <4>4, <4>5 DEF Cleared
    <3>2. \A p \in Refs(o) : ~IsWhite(color', p)
      BY <3>1 DEF Refs, Ends
    <3> QED
      BY <1>11, <3>2 DEF Finished
  <2> QED
    BY <1>5, <1>9, <1>19, <2>1, <2>2, <2>3, <2>4, <2>5, <2>6, <2>7 DEF ListAfter
<1>20. /\ \A p \in All \ {o} : age'[p] = age[p]
       /\ \/ age'[o] = age[o] /\ (age[o] \in {"touched1", "touched2"} => \E k \in Lists : o \in grays'[k])
          \/ age[o] = "touched2" /\ age'[o] = "old"
  <2> HIDE DEF c0, g0, m, c1, g1, l
  <2>0. age \in [All -> Ages]
    BY DEF GcTypeOK
  <2>1. CASE l = "none" /\ age[o] = "touched2"
    BY <1>0, <1>4, <2>0, <2>1
  <2>2. CASE l = "none" /\ age[o] # "touched2"
    <3>1. age[o] = "touched1" => kind[o] = "thread" /\ isold(o)
      BY <1>9, <2>2 DEF isold, Young
    <3> QED
      BY <1>4, <1>9, <2>2, <3>1
  <2>3. CASE l # "none"
    BY <1>4, <1>5, <1>16, <2>3 DEF Lists
  <2> QED
    BY <2>1, <2>2, <2>3
<1> HIDE DEF c0, g0, m, c1, g1, l
<1> QED
  BY <1>9, <1>14, <1>15, <1>16, <1>17, <1>18, <1>19, <1>20 DEF AfterTraversal

-----------------------------------------------------------------------------
(* Steps that change neither the objects nor the lists of gray ones.       *)

SameHeap == UNCHANGED <<program, currentwhite, color, age, grays, entries, list>>

LEMMA SameHeapFacts ==
    ASSUME SameHeap
    PROVE  /\ kind' = kind /\ There' = There /\ Existing' = Existing /\ Alive' = Alive
           /\ \A l : InList(l)' = InList(l)
           /\ \A o : /\ Leaf(o)' <=> Leaf(o)
                     /\ Refs(o)' = Refs(o)
                     /\ iswhite(o)' <=> iswhite(o)
                     /\ Dead(o)' <=> Dead(o)
                     /\ RefsMarked(o)' <=> RefsMarked(o)
                     /\ Finished(o)' <=> Finished(o)
                     /\ OlderRefs(o)' <=> OlderRefs(o)
                     /\ Listed(o)' <=> Listed(o)
           /\ KindsFit' <=> KindsFit
           /\ Closed' <=> Closed
PROOF
<1>1. /\ kind' = kind /\ There' = There /\ Existing' = Existing /\ Alive' = Alive
      /\ \A l : InList(l)' = InList(l)
  BY DEF SameHeap, kind, There, Existing, Alive, InList, Dead, otherwhite
<1>2. \A o : /\ Leaf(o)' <=> Leaf(o)
             /\ Refs(o)' = Refs(o)
             /\ iswhite(o)' <=> iswhite(o)
             /\ Dead(o)' <=> Dead(o)
             /\ Listed(o)' <=> Listed(o)
  BY <1>1 DEF SameHeap, Leaf, Refs, iswhite, Dead, otherwhite, Listed
<1>3. \A o : /\ RefsMarked(o)' <=> RefsMarked(o)
             /\ OlderRefs(o)' <=> OlderRefs(o)
  BY <1>2 DEF SameHeap, RefsMarked, OlderRefs
<1>4. \A o : Finished(o)' <=> Finished(o)
  BY <1>1, <1>2, <1>3 DEF SameHeap, Finished
<1>5. KindsFit' <=> KindsFit
  BY <1>1, <1>2 DEF SameHeap, KindsFit
<1>6. Closed' <=> Closed
  BY <1>1, <1>2 DEF Closed
<1> QED
  BY <1>1, <1>2, <1>3, <1>4, <1>5, <1>6

(* States reached one after the other (luaC_runtilstate).                  *)
LEMMA ReachFacts ==
    ASSUME GcTypeOK, NEW st \in States, Reach(st)
    PROVE  /\ gcstate' = st /\ goal' \in Goals /\ gcstate' \in States
           /\ goal' = goal \/ goal' \notin {<<"young">>, <<"fin">>}
           /\ goal \in {<<"young">>, <<"fin">>} => goal' = goal
PROOF
<1>1. gcstate' = st /\ goal' = IF goal # <<>> /\ Head(goal) = st THEN Tail(goal) ELSE goal
  BY DEF Reach
<1>2. goal \in Goals
  BY DEF GcTypeOK
<1>3. /\ Tail(<<"pause", "callfin", "pause">>) = <<"callfin", "pause">>
      /\ Tail(<<"callfin", "pause">>) = <<"pause">>
      /\ Tail(<<"pause", "propagate", "gen">>) = <<"propagate", "gen">>
      /\ Tail(<<"propagate", "gen">>) = <<"gen">>
      /\ \A g : Tail(<<g>>) = <<>>
  OBVIOUS
<1>4. goal # <<>> => Tail(goal) \in Goals \ {<<"young">>, <<"fin">>}
  <2> DEFINE Tails == {<<"callfin", "pause">>, <<"pause">>, <<"propagate", "gen">>, <<"gen">>, <<>>}
  <2>1. goal # <<>> => Tail(goal) \in Tails
    BY <1>2, <1>3, Zenon DEF Goals
  <2>2. Tails \subseteq Goals \ {<<"young">>, <<"fin">>}
    BY DEF Goals
  <2> QED
    BY <2>1, <2>2
<1>5. goal \in {<<"young">>, <<"fin">>} => Head(goal) \in {"young", "fin"}
  OBVIOUS
<1>6. {"young", "fin"} \cap States = {}
  BY DEF States, AtomicStates, SweepStates
<1> QED
  BY <1>1, <1>2, <1>4, <1>5, <1>6

LEMMA EndPropagateKeeps == GcInv /\ EndPropagate => GcInv'
PROOF
<1> SUFFICES ASSUME GcInv, EndPropagate
             PROVE  GcInv'
  OBVIOUS
<1>1. SameHeap /\ gckind' = gckind /\ sweepgc' = sweepgc
      /\ gcstate = "propagate" /\ gckind # "genminor"
  BY DEF EndPropagate, SameHeap, heap
<1>2. gcstate' = "enteratomic" /\ goal' \in Goals /\ goal' \notin {<<"young">>, <<"fin">>}
  <2>1. Reach("enteratomic")
    BY DEF EndPropagate
  <2>2. goal \notin {<<"young">>, <<"fin">>}
    BY <1>1 DEF GcInv, Control
  <2> QED
    BY <2>1, <2>2, ReachFacts DEF GcInv, States
<1>3. GcTypeOK'
  BY <1>1, <1>2 DEF GcInv, GcTypeOK, SameHeap, States
<1>4. Control' /\ BetweenYoung' /\ InYoung'
  BY <1>1, <1>2 DEF Control, BetweenYoung, InYoung
<1>5. KindsFit' /\ Closed'
  BY <1>1, SameHeapFacts DEF GcInv
<1>6. DeadOnlyInSweep' /\ SweptIsNew' /\ AllNewInIncremental' /\ InAtomic'
  BY <1>1, <1>2, SameHeapFacts DEF GcInv, SameHeap, DeadOnlyInSweep, SweptIsNew, AllNewInIncremental, InAtomic, AtomicStates, SweepStates
<1>7. Propagating'
  BY <1>1, <1>2, SameHeapFacts DEF GcInv, SameHeap, Propagating
<1> QED
  BY <1>3, <1>4, <1>5, <1>6, <1>7 DEF GcInv

LEMMA AimFacts ==
    ASSUME NEW targets \in {<<"pause", "callfin", "pause">>, <<"pause", "propagate", "gen">>}, Aim(targets)
    PROVE  goal' \in Goals \ {<<"young">>, <<"fin">>}
PROOF
<1>1. /\ Tail(<<"pause", "callfin", "pause">>) = <<"callfin", "pause">>
      /\ Tail(<<"pause", "propagate", "gen">>) = <<"propagate", "gen">>
  OBVIOUS
<1> DEFINE Aims == {<<"pause", "callfin", "pause">>, <<"callfin", "pause">>,
                    <<"pause", "propagate", "gen">>, <<"propagate", "gen">>}
<1>2. goal' \in Aims
  BY <1>1, Zenon DEF Aim
<1>3. Aims \subseteq Goals \ {<<"young">>, <<"fin">>}
  BY DEF Goals
<1> QED
  BY <1>2, <1>3

LEMMA EndGrayAgainKeeps == GcInv /\ EndGrayAgain => GcInv'
PROOF
<1> SUFFICES ASSUME GcInv, EndGrayAgain
             PROVE  GcInv'
  OBVIOUS
<1>1. SameHeap /\ gckind' = gckind /\ sweepgc' = sweepgc
  BY DEF EndGrayAgain, SameHeap, heap
<1>2. /\ \/ gcstate = "again" /\ gcstate' = "converge"
         \/ gcstate = "resurrect" /\ gcstate' = "converge2"
      /\ goal' \in Goals /\ (goal' = goal \/ goal' \notin {<<"young">>, <<"fin">>})
      /\ goal = <<"young">> => goal' = goal
  <2>1. Reach(IF gcstate = "again" THEN "converge" ELSE "converge2") /\ gcstate \in {"again", "resurrect"}
    BY DEF EndGrayAgain
  <2>2. "converge" \in States /\ "converge2" \in States
    BY DEF States, AtomicStates
  <2> QED
    BY <2>1, <2>2, ReachFacts DEF GcInv
<1>3. GcTypeOK'
  BY <1>1, <1>2 DEF GcInv, GcTypeOK, SameHeap, States, AtomicStates
<1>4. Control'
  BY <1>1, <1>2 DEF GcInv, Control, AtomicStates
<1>5. BetweenYoung' /\ InYoung'
  BY <1>1, <1>2, SameHeapFacts DEF GcInv, SameHeap, BetweenYoung, InYoung
<1>6. KindsFit' /\ Closed'
  BY <1>1, SameHeapFacts DEF GcInv
<1>7. DeadOnlyInSweep' /\ SweptIsNew' /\ AllNewInIncremental' /\ Propagating'
  BY <1>1, <1>2, SameHeapFacts DEF GcInv, SameHeap, DeadOnlyInSweep, SweptIsNew, AllNewInIncremental, Propagating, AtomicStates, SweepStates
<1>8. InAtomic'
  BY <1>1, <1>2, SameHeapFacts DEF GcInv, SameHeap, InAtomic, AtomicStates
<1> QED
  BY <1>3, <1>4, <1>5, <1>6, <1>7, <1>8 DEF GcInv

(* entersweep, from states in which nothing is dead but what waits in allgc. *)
LEMMA EnterSweepKeeps ==
    ASSUME GcInv, SameHeap, EnterSweep, gckind' # "genminor", gckind' \in {"inc", "genmajor"},
           goal' \in Goals \ {<<"young">>, <<"fin">>}
    PROVE  GcInv'
PROOF
<1>1. gcstate' = "swpallgc" /\ sweepgc' = InList("allgc") \cup {Main}
  BY DEF EnterSweep
<1>2. GcTypeOK'
  <2>1. sweepgc' \subseteq All
    BY <1>1 DEF InList, All
  <2> QED
    BY <1>1, <2>1 DEF GcInv, GcTypeOK, SameHeap, States, SweepStates
<1>3. Control' /\ BetweenYoung' /\ InYoung' /\ Propagating' /\ InAtomic' /\ AllNewInIncremental'
  BY <1>1 DEF Control, BetweenYoung, InYoung, Propagating, InAtomic, AllNewInIncremental, AtomicStates
<1>4. KindsFit' /\ Closed'
  BY SameHeapFacts DEF GcInv
<1>5. There \subseteq InList("allgc") \cup InList("finobj") \cup InList("tobefnz") \cup {Main}
  BY DEF GcInv, GcTypeOK, There, Existing, InList
<1>6. SweptIsNew'
  BY <1>1, <1>5, SameHeapFacts DEF SweptIsNew, ToSweep
<1>7. DeadOnlyInSweep'
  BY <1>1, <1>5, SameHeapFacts DEF DeadOnlyInSweep, GcInv, Closed, Alive
<1> QED
  BY <1>2, <1>3, <1>4, <1>6, <1>7 DEF GcInv

LEMMA StartSweepKeeps == GcInv /\ StartSweep => GcInv'
PROOF
<1> SUFFICES ASSUME GcInv, StartSweep
             PROVE  GcInv'
  OBVIOUS
<1>1. SameHeap /\ EnterSweep /\ gckind' = gckind /\ goal' = goal
  BY DEF StartSweep, SameHeap, heap, mode
<1>2. gckind # "genminor" /\ goal \notin {<<"young">>, <<"fin">>}
  BY DEF StartSweep, Sweeping, GcInv, Control
<1> QED
  BY <1>1, <1>2, EnterSweepKeeps DEF GcInv, GcTypeOK

LEMMA SweepNextKeeps == GcInv /\ SweepNext => GcInv'
PROOF
<1> SUFFICES ASSUME GcInv, SweepNext
             PROVE  GcInv'
  OBVIOUS
<1>1. SameHeap /\ gckind' = gckind /\ sweepgc = {}
  BY DEF SweepNext, SameHeap, heap
<1>2. gckind # "genminor" /\ goal \notin {<<"young">>, <<"fin">>}
  BY DEF SweepNext, SweepStates, AtomicStates, GcInv, Control
<1>3. /\ \/ gcstate = "swpallgc" /\ gcstate' = "swpfinobj" /\ sweepgc' = InList("finobj")
         \/ gcstate = "swpfinobj" /\ gcstate' = "swptobefnz" /\ sweepgc' = InList("tobefnz")
         \/ gcstate = "swptobefnz" /\ gcstate' = "swpend" /\ sweepgc' = {}
         \/ gcstate = "swpend" /\ gcstate' = "callfin" /\ sweepgc' = {}
      /\ goal' \in Goals /\ goal' \notin {<<"young">>, <<"fin">>}
  <2>1. \E st \in {"swpfinobj", "swptobefnz", "swpend", "callfin"} : Reach(st)
    BY DEF SweepNext, SweepStates
  <2>2. {"swpfinobj", "swptobefnz", "swpend", "callfin"} \subseteq States
    BY DEF States, SweepStates
  <2>3. goal' \in Goals /\ goal' \notin {<<"young">>, <<"fin">>}
    BY <1>2, <2>1, <2>2, ReachFacts DEF GcInv
  <2>4. \/ gcstate = "swpallgc" /\ gcstate' = "swpfinobj" /\ sweepgc' = InList("finobj")
        \/ gcstate = "swpfinobj" /\ gcstate' = "swptobefnz" /\ sweepgc' = InList("tobefnz")
        \/ gcstate = "swptobefnz" /\ gcstate' = "swpend" /\ sweepgc' = {}
        \/ gcstate = "swpend" /\ gcstate' = "callfin" /\ sweepgc' = {}
    BY DEF SweepNext, SweepStates, Reach
  <2> QED
    BY <2>3, <2>4
<1>4. GcTypeOK'
  <2>1. sweepgc' \subseteq All
    BY <1>3 DEF InList, All
  <2> QED
    BY <1>1, <1>3, <2>1 DEF GcInv, GcTypeOK, SameHeap, States, SweepStates
<1>5. Control' /\ BetweenYoung' /\ InYoung' /\ Propagating' /\ InAtomic' /\ AllNewInIncremental'
  BY <1>1, <1>2, <1>3 DEF Control, BetweenYoung, InYoung, Propagating, InAtomic, AllNewInIncremental, AtomicStates
<1>6. KindsFit' /\ Closed'
  BY <1>1, SameHeapFacts DEF GcInv
<1>7. DeadOnlyInSweep'
  BY <1>1, <1>3, SameHeapFacts DEF DeadOnlyInSweep, GcInv
<1>8. SweptIsNew'
  BY <1>1, <1>3, SameHeapFacts DEF SweptIsNew, GcInv, SameHeap, ToSweep, SweepStates
<1> QED
  BY <1>4, <1>5, <1>6, <1>7, <1>8 DEF GcInv

LEMMA EndCycleKeeps == GcInv /\ EndCycle => GcInv'
PROOF
<1> SUFFICES ASSUME GcInv, EndCycle
             PROVE  GcInv'
  OBVIOUS
<1>1. SameHeap /\ gckind' = gckind /\ sweepgc' = sweepgc /\ gcstate = "callfin"
  BY DEF EndCycle, SameHeap, heap
<1>2. gckind # "genminor" /\ goal \notin {<<"young">>, <<"fin">>}
  BY <1>1 DEF AtomicStates, GcInv, Control
<1>3. gcstate' = "pause" /\ goal' \in Goals /\ goal' \notin {<<"young">>, <<"fin">>}
  BY <1>2, ReachFacts DEF EndCycle, GcInv, States
<1>4. GcTypeOK'
  BY <1>1, <1>3 DEF GcInv, GcTypeOK, SameHeap, States
<1>5. Control' /\ BetweenYoung' /\ InYoung' /\ Propagating' /\ InAtomic' /\ AllNewInIncremental'
  BY <1>1, <1>2, <1>3 DEF Control, BetweenYoung, InYoung, Propagating, InAtomic, AllNewInIncremental, AtomicStates
<1>6. KindsFit' /\ Closed'
  BY <1>1, SameHeapFacts DEF GcInv
<1>7. DeadOnlyInSweep' /\ SweptIsNew'
  BY <1>1, <1>3, SameHeapFacts DEF DeadOnlyInSweep, SweptIsNew, GcInv, SameHeap, ToSweep, SweepStates
<1> QED
  BY <1>4, <1>5, <1>6, <1>7 DEF GcInv

LEMMA EndPendingKeeps == GcInv /\ EndPending => GcInv'
PROOF
<1> SUFFICES ASSUME GcInv, EndPending
             PROVE  GcInv'
  OBVIOUS
<1>1. SameHeap /\ UNCHANGED <<gckind, gcstate, sweepgc>> /\ goal = <<"fin">> /\ goal' = <<>>
  BY DEF EndPending, SameHeap, heap, mode
<1>2. gckind = "genminor" /\ gcstate = "propagate"
  BY <1>1 DEF GcInv, Control
<1>3. GcTypeOK'
  BY <1>1 DEF GcInv, GcTypeOK, SameHeap, Goals
<1>4. Control' /\ InYoung' /\ InAtomic' /\ AllNewInIncremental' /\ SweptIsNew'
  BY <1>1, <1>2 DEF Control, InYoung, InAtomic, AllNewInIncremental, SweptIsNew, SweepStates, AtomicStates
<1>5. KindsFit' /\ Closed'
  BY <1>1, SameHeapFacts DEF GcInv
<1>6. DeadOnlyInSweep' /\ Propagating' /\ BetweenYoung'
  BY <1>1, <1>2, SameHeapFacts DEF DeadOnlyInSweep, Propagating, BetweenYoung, GcInv, SameHeap
<1> QED
  BY <1>3, <1>4, <1>5, <1>6 DEF GcInv

LEMMA FullGCKeeps == \A e \in BOOLEAN : GcInv /\ FullGC(e) => GcInv'
PROOF
<1> SUFFICES ASSUME NEW e \in BOOLEAN, GcInv, FullGC(e)
             PROVE  GcInv'
  OBVIOUS
<1>1. SameHeap /\ gcstate \notin AtomicStates /\ goal = <<>>
  BY DEF FullGC, SameHeap, heap, ProgramRuns
<1>2. goal' \in Goals \ {<<"young">>, <<"fin">>}
  BY AimFacts DEF FullGC
<1>3. gckind' # "genminor" /\ gckind' \in {"inc", "genmajor"}
  BY DEF FullGC, GcInv, GcTypeOK
<1>4. CASE keepinvariant
  BY <1>1, <1>2, <1>3, <1>4, EnterSweepKeeps DEF FullGC
<1>5. CASE ~keepinvariant
  <2>1. UNCHANGED <<gcstate, sweepgc>> /\ gcstate \notin {"propagate", "enteratomic"} \cup AtomicStates
    BY <1>5 DEF FullGC, keepinvariant
  <2>2. GcTypeOK'
    BY <1>1, <1>2, <1>3, <2>1 DEF GcInv, GcTypeOK, SameHeap
  <2>3. Control' /\ BetweenYoung' /\ InYoung' /\ Propagating' /\ InAtomic' /\ AllNewInIncremental'
    BY <1>2, <1>3, <2>1 DEF Control, BetweenYoung, InYoung, Propagating, InAtomic, AllNewInIncremental, AtomicStates
  <2>4. KindsFit' /\ Closed'
    BY <1>1, SameHeapFacts DEF GcInv
  <2>5. DeadOnlyInSweep' /\ SweptIsNew'
    BY <1>1, <2>1, SameHeapFacts DEF DeadOnlyInSweep, SweptIsNew, GcInv, SameHeap, ToSweep
  <2> QED
    BY <2>2, <2>3, <2>4, <2>5 DEF GcInv
<1> QED
  BY <1>4, <1>5

LEMMA ChangeModeKeeps == GcInv /\ ChangeMode => GcInv'
PROOF
<1> SUFFICES ASSUME GcInv, ChangeMode
             PROVE  GcInv'
  OBVIOUS
<1>1. SameHeap /\ gcstate \notin AtomicStates /\ goal = <<>> /\ gckind' = "inc"
  BY DEF ChangeMode, SameHeap, heap, ProgramRuns
<1>2. CASE gckind = "genminor"
  <2>1. goal' = <<>> /\ EnterSweep
    BY <1>1, <1>2 DEF ChangeMode
  <2>2. goal' \in Goals \ {<<"young">>, <<"fin">>}
    BY <2>1 DEF Goals
  <2> QED
    BY <1>1, <2>1, <2>2, EnterSweepKeeps
<1>3. CASE gckind # "genminor"
  <2>1. UNCHANGED <<gcstate, sweepgc>> /\ goal' \in Goals \ {<<"young">>, <<"fin">>}
    BY <1>3, AimFacts DEF ChangeMode
  <2>2. GcTypeOK'
    BY <1>1, <2>1 DEF GcInv, GcTypeOK, SameHeap
  <2>3. Control' /\ BetweenYoung' /\ InYoung'
    BY <1>1, <2>1 DEF Control, BetweenYoung, InYoung
  <2>4. KindsFit' /\ Closed'
    BY <1>1, SameHeapFacts DEF GcInv
  <2>5. DeadOnlyInSweep' /\ SweptIsNew' /\ AllNewInIncremental'
    BY <1>1, <1>3, <2>1, SameHeapFacts DEF DeadOnlyInSweep, SweptIsNew, AllNewInIncremental, GcInv, SameHeap, ToSweep
  <2>6. Propagating' /\ InAtomic'
    BY <1>1, <1>3, <2>1, SameHeapFacts DEF Propagating, InAtomic, GcInv, SameHeap
  <2> QED
    BY <2>2, <2>3, <2>4, <2>5, <2>6 DEF GcInv
<1> QED
  BY <1>2, <1>3

-----------------------------------------------------------------------------
(* Steps of the program. *)

(* The program runs while nothing is traversed; all it has is alive.       *)
LEMMA ProgramFacts ==
    ASSUME GcInv, ProgramRuns
    PROVE  /\ goal = <<>> /\ gcstate \in {"pause", "propagate", "enteratomic", "callfin"} \cup SweepStates
           /\ gcstate \notin AtomicStates
           /\ gckind = "genminor" => gcstate = "propagate"
           /\ Stack \subseteq Alive /\ Alive \subseteq Existing /\ Existing \subseteq Objects
           /\ Main \notin Objects /\ NoObject \notin All
PROOF
<1>1. goal = <<>> /\ gcstate \notin AtomicStates
  BY DEF ProgramRuns
<1>2. gcstate \in {"pause", "propagate", "enteratomic", "callfin"} \cup SweepStates
  BY <1>1 DEF GcInv, GcTypeOK, States
<1>3. gckind = "genminor" => gcstate = "propagate"
  BY <1>1 DEF GcInv, Control
<1>4. Alive \subseteq Existing /\ Existing \subseteq Objects
  BY DEF Alive, Existing
<1>5. Main \notin Objects /\ NoObject \notin All
  BY GcAssumption
<1>6. Refs(Main) \subseteq Alive
  BY DEF GcInv, Closed, There
<1>7. Stack \subseteq Refs(Main)
  <2>1. \A e \in entries[Main] : e[2] \in Objects
    BY DEF GcInv, GcTypeOK, All
  <2> QED
    BY <1>5, <2>1 DEF Stack, Refs, Ends, All
<1> QED
  BY <1>1, <1>2, <1>3, <1>4, <1>5, <1>6, <1>7

(* References are forgotten, or come to the stack.                         *)
LEMMA OnlyStackGrows ==
    ASSUME GcInv, ProgramRuns, UNCHANGED <<mode, gcstate, goal, currentwhite, heap, list, sweepgc>>,
           entries' \in [All -> SUBSET ((Objects \cup {NoObject}) \X Objects)],
           \A o \in Objects : entries'[o] \subseteq entries[o],
           Refs(Main)' \subseteq Alive
    PROVE  GcInv'
PROOF
<1>1. /\ program' = program /\ gckind' = gckind /\ color' = color /\ age' = age /\ grays' = grays
      /\ list' = list /\ gcstate' = gcstate /\ goal' = goal /\ currentwhite' = currentwhite /\ sweepgc' = sweepgc
  BY DEF mode, heap
<1>2. /\ kind' = kind /\ There' = There /\ Existing' = Existing /\ Alive' = Alive /\ ToSweep' = ToSweep
      /\ InList("finobj")' = InList("finobj") /\ InList("tobefnz")' = InList("tobefnz")
      /\ \A o : /\ Leaf(o)' <=> Leaf(o)
                /\ iswhite(o)' <=> iswhite(o)
                /\ Dead(o)' <=> Dead(o)
  BY <1>1 DEF kind, There, Existing, Alive, InList, Dead, otherwhite, Leaf, iswhite, ToSweep
<1>3. \A o \in Objects : Refs(o)' \subseteq Refs(o)
  BY DEF Refs, Ends
<1>4. Existing \subseteq Objects /\ Main \notin Objects
  BY ProgramFacts
<1>5. \A o \in Objects : /\ RefsMarked(o) => RefsMarked(o)'
                         /\ OlderRefs(o) => OlderRefs(o)'
  BY <1>1, <1>2, <1>3 DEF RefsMarked, OlderRefs
<1>6. GcTypeOK'
  BY <1>1 DEF GcInv, GcTypeOK, mode
<1>7. KindsFit'
  BY <1>1, <1>2 DEF GcInv, KindsFit
<1>8. Control' /\ InYoung' /\ InAtomic'
  BY <1>1, ProgramFacts DEF GcInv, Control, InYoung, InAtomic
<1>9. Closed'
  BY <1>1, <1>2, <1>3, <1>4 DEF GcInv, Closed, There
<1>10. DeadOnlyInSweep' /\ SweptIsNew' /\ AllNewInIncremental'
  BY <1>1, <1>2 DEF GcInv, DeadOnlyInSweep, SweptIsNew, AllNewInIncremental
<1>11. Propagating' /\ BetweenYoung'
  BY <1>1, <1>2, <1>4, <1>5 DEF GcInv, Propagating, BetweenYoung
<1> QED
  BY <1>6, <1>7, <1>8, <1>9, <1>10, <1>11 DEF GcInv

LEMMA ForgetKeeps == \A v \in Objects : GcInv /\ Forget(v) => GcInv'
PROOF
<1> SUFFICES ASSUME NEW v \in Objects, GcInv, Forget(v)
             PROVE  GcInv'
  OBVIOUS
<1>1. entries \in [All -> SUBSET ((Objects \cup {NoObject}) \X Objects)] /\ Main \in All
  BY DEF GcInv, GcTypeOK, All
<1>2. ProgramRuns /\ entries' = [entries EXCEPT ![Main] = @ \ {<<NoObject, v>>}]
      /\ UNCHANGED <<mode, gcstate, goal, currentwhite, heap, list, sweepgc>>
  BY DEF Forget
<1>3. entries' \in [All -> SUBSET ((Objects \cup {NoObject}) \X Objects)]
  BY <1>1, <1>2
<1>4. \A o \in All : entries'[o] \subseteq entries[o]
  BY <1>1, <1>2
<1>5. Refs(Main)' \subseteq Refs(Main) /\ Refs(Main) \subseteq Alive
  BY <1>1, <1>4 DEF Refs, Ends, GcInv, Closed, There
<1> QED
  BY <1>2, <1>3, <1>4, <1>5, OnlyStackGrows DEF All

LEMMA EraseKeeps == \A t \in Objects : \A e \in entries[t] : GcInv /\ Erase(t, e) => GcInv'
PROOF
<1> SUFFICES ASSUME NEW t \in Objects, NEW e \in entries[t], GcInv, Erase(t, e)
             PROVE  GcInv'
  OBVIOUS
<1>1. entries \in [All -> SUBSET ((Objects \cup {NoObject}) \X Objects)] /\ Main \in All
  BY DEF GcInv, GcTypeOK, All
<1>2. ProgramRuns /\ entries' = [entries EXCEPT ![t] = @ \ {e}]
      /\ UNCHANGED <<mode, gcstate, goal, currentwhite, heap, list, sweepgc>>
  BY DEF Erase
<1>3. entries' \in [All -> SUBSET ((Objects \cup {NoObject}) \X Objects)]
  BY <1>1, <1>2 DEF All
<1>4. \A o \in All : entries'[o] \subseteq entries[o]
  BY <1>1, <1>2
<1>5. Refs(Main)' \subseteq Refs(Main) /\ Refs(Main) \subseteq Alive
  BY <1>1, <1>4 DEF Refs, Ends, GcInv, Closed, There
<1> QED
  BY <1>2, <1>3, <1>4, <1>5, OnlyStackGrows DEF All

(* An object comes to the stack.                                           *)
LEMMA PushKeepsClosed ==
    ASSUME GcInv, NEW v \in Alive, entries' = [entries EXCEPT ![Main] = @ \cup {<<NoObject, v>>}]
    PROVE  /\ entries' \in [All -> SUBSET ((Objects \cup {NoObject}) \X Objects)]
           /\ \A o \in Objects : entries'[o] = entries[o]
           /\ Refs(Main)' \subseteq Alive
PROOF
<1>1. entries \in [All -> SUBSET ((Objects \cup {NoObject}) \X Objects)] /\ Main \in All /\ Main \notin Objects
  BY GcAssumption DEF GcInv, GcTypeOK, All
<1>2. v \in Objects
  BY DEF Alive, Existing
<1>3. <<NoObject, v>> \in (Objects \cup {NoObject}) \X Objects
  BY <1>2
<1>4. entries' \in [All -> SUBSET ((Objects \cup {NoObject}) \X Objects)]
  BY <1>1, <1>3
<1>5. \A o \in Objects : entries'[o] = entries[o]
  BY <1>1 DEF All
<1>6. Refs(Main)' \subseteq Refs(Main) \cup {v}
  BY <1>1 DEF Refs, Ends
<1>7. Refs(Main) \subseteq Alive
  BY DEF GcInv, Closed, There
<1> QED
  BY <1>4, <1>5, <1>6, <1>7

LEMMA GetKeeps == \A t, v \in Objects : GcInv /\ Get(t, v) => GcInv'
PROOF
<1> SUFFICES ASSUME NEW t \in Objects, NEW v \in Objects, GcInv, Get(t, v)
             PROVE  GcInv'
  OBVIOUS
<1>1. ProgramRuns /\ entries' = [entries EXCEPT ![Main] = @ \cup {<<NoObject, v>>}]
      /\ UNCHANGED <<mode, gcstate, goal, currentwhite, heap, list, sweepgc>>
      /\ t \in Stack /\ v \in Refs(t)
  BY DEF Get, Refs
<1>2. v \in Alive
  <2>1. t \in There /\ ~Dead(t)
    BY <1>1, ProgramFacts DEF Alive, There
  <2> QED
    BY <1>1, <2>1 DEF GcInv, Closed
<1> QED
  BY <1>1, <1>2, PushKeepsClosed, OnlyStackGrows

LEMMA SetFinalizerKeeps == \A o \in Objects : GcInv /\ SetFinalizer(o) => GcInv'
PROOF
<1> SUFFICES ASSUME NEW o \in Objects, GcInv, SetFinalizer(o)
             PROVE  GcInv'
  OBVIOUS
<1>1. /\ ProgramRuns /\ o \in Stack /\ o \in program.finalizable /\ list[o] = "allgc"
      /\ list' = [list EXCEPT ![o] = "finobj"] /\ sweepgc' = sweepgc \ {o}
      /\ color' = IF gcstate \in SweepStates THEN [color EXCEPT ![o] = White(currentwhite)] ELSE color
      /\ program' = program /\ gckind' = gckind /\ gcstate' = gcstate /\ goal' = goal
      /\ currentwhite' = currentwhite /\ age' = age /\ grays' = grays /\ entries' = entries
  BY DEF SetFinalizer, mode
<1>2. /\ list \in [Objects -> {"free", "allgc", "finobj", "tobefnz"}] /\ color \in [All -> 0 .. 3]
      /\ currentwhite \in {0, 1} /\ o \in Alive /\ o \in All
      /\ Existing \subseteq Objects /\ Main \notin Objects
  BY <1>1, ProgramFacts DEF GcInv, GcTypeOK, All
<1>3. /\ kind' = kind /\ There' = There /\ Existing' = Existing
      /\ InList("finobj")' = InList("finobj") \cup {o} /\ InList("tobefnz")' = InList("tobefnz")
      /\ \A p : Leaf(p)' <=> Leaf(p)
      /\ \A p : Refs(p)' = Refs(p)
  BY <1>1, <1>2 DEF kind, There, Existing, InList, Leaf, Refs
<1>4. \A p \in All : /\ Dead(p)' <=> Dead(p)
                     /\ p # o => color'[p] = color[p]
                     /\ gcstate \notin SweepStates => color'[p] = color[p]
  <2>1. ~Dead(o) /\ White(currentwhite) # White(otherwhite)
    BY <1>2 DEF Alive, otherwhite, White
  <2> QED
    BY <1>1, <1>2, <2>1 DEF Dead, otherwhite
<1>5. Alive' = Alive /\ There \subseteq All
  BY <1>2, <1>3, <1>4 DEF Alive, There, All
<1>6. GcTypeOK'
  BY <1>1, <1>2 DEF GcInv, GcTypeOK, SetFinalizer, mode, White
<1>7. KindsFit'
  <2>1. kind[o] # "string"
    BY <1>1, GcAssumption DEF GcInv, GcTypeOK, kind
  <2> QED
    BY <1>1, <1>2, <1>3, <2>1 DEF GcInv, KindsFit
<1>8. Control' /\ InYoung' /\ InAtomic'
  BY <1>1, ProgramFacts DEF GcInv, Control, InYoung, InAtomic
<1>9. Closed'
  BY <1>2, <1>3, <1>4, <1>5 DEF GcInv, Closed, All
<1>10. DeadOnlyInSweep'
  <2>1. ~Dead(o) /\ gcstate # "marked"
    BY <1>1, <1>2, ProgramFacts DEF Alive, AtomicStates
  <2> QED
    BY <1>1, <1>3, <1>4, <1>5, <2>1 DEF GcInv, DeadOnlyInSweep
<1>11. SweptIsNew'
  <2>1. ToSweep \subseteq ToSweep' \cup {o} /\ (gcstate = "swpallgc" => o \in ToSweep')
    BY <1>1, <1>3 DEF ToSweep
  <2>2. gcstate \in SweepStates \cup {"callfin", "pause"} /\ gcstate # "swpallgc" => o \notin ToSweep
    BY <1>1, <1>2, ProgramFacts DEF GcInv, SweptIsNew, ToSweep, InList, SweepStates
  <2> QED
    BY <1>1, <1>3, <1>4, <1>5, <2>1, <2>2 DEF GcInv, SweptIsNew
<1>12. AllNewInIncremental'
  BY <1>1, <1>3 DEF GcInv, AllNewInIncremental
<1>13. Propagating' /\ BetweenYoung'
  <2>1. gcstate \in {"propagate", "enteratomic"} => color' = color
    BY <1>1 DEF SweepStates
  <2>2. gcstate \in {"propagate", "enteratomic"} =>
            \A p : /\ iswhite(p)' <=> iswhite(p)
                   /\ RefsMarked(p)' <=> RefsMarked(p)
                   /\ OlderRefs(p)' <=> OlderRefs(p)
    BY <1>1, <1>3, <2>1 DEF iswhite, RefsMarked, OlderRefs
  <2> QED
    BY <1>1, <1>3, <2>1, <2>2 DEF GcInv, Propagating, BetweenYoung
<1> QED
  BY <1>6, <1>7, <1>8, <1>9, <1>10, <1>11, <1>12, <1>13 DEF GcInv

LEMMA NewObjectKeeps == \A o \in Objects : GcInv /\ NewObject(o) => GcInv'
PROOF
<1> SUFFICES ASSUME NEW o \in Objects, GcInv, NewObject(o)
             PROVE  GcInv'
  OBVIOUS
<1>1. /\ ProgramRuns /\ list[o] = "free" /\ kind[o] # "none"
      /\ list' = [list EXCEPT ![o] = "allgc"]
      /\ color' = [color EXCEPT ![o] = White(currentwhite)]
      /\ age' = [age EXCEPT ![o] = "new"]
      /\ entries' = [entries EXCEPT ![Main] = @ \cup {<<NoObject, o>>}]
      /\ program' = program /\ gckind' = gckind /\ gcstate' = gcstate /\ goal' = goal
      /\ currentwhite' = currentwhite /\ grays' = grays /\ sweepgc' = sweepgc
  BY DEF NewObject, mode
<1>2. /\ list \in [Objects -> {"free", "allgc", "finobj", "tobefnz"}] /\ color \in [All -> 0 .. 3]
      /\ currentwhite \in {0, 1} /\ age \in [All -> Ages] /\ o \in All /\ Main \in All /\ Main # o
      /\ entries \in [All -> SUBSET ((Objects \cup {NoObject}) \X Objects)]
      /\ Existing \subseteq Objects /\ Main \notin Objects /\ o \notin Existing
  BY <1>1, ProgramFacts DEF GcInv, GcTypeOK, All, Existing
<1>3. /\ kind' = kind /\ There' = There \cup {o} /\ Existing' = Existing \cup {o}
      /\ InList("finobj")' = InList("finobj") /\ InList("tobefnz")' = InList("tobefnz")
      /\ ToSweep' = ToSweep
      /\ \A p : Leaf(p)' <=> Leaf(p)
  <2>1. InList("finobj")' = InList("finobj") /\ InList("tobefnz")' = InList("tobefnz")
    BY <1>1, <1>2 DEF InList
  <2> QED
    BY <1>1, <1>2, <2>1 DEF kind, There, Existing, Leaf, ToSweep
<1>4. /\ color'[o] = White(currentwhite) /\ age'[o] = "new" /\ ~Dead(o)' /\ iswhite(o)'
      /\ \A p \in All \ {o} : /\ Dead(p)' <=> Dead(p)
                              /\ iswhite(p)' <=> iswhite(p)
                              /\ color'[p] = color[p] /\ age'[p] = age[p]
  BY <1>1, <1>2 DEF Dead, iswhite, White, otherwhite
<1>5. /\ Alive' = Alive \cup {o} /\ Alive \subseteq Existing /\ There \subseteq All \ {o}
  BY <1>2, <1>3, <1>4 DEF Alive, There, All
<1>6. /\ Refs(o)' = {} /\ Refs(Main)' \subseteq Refs(Main) \cup {o}
      /\ \A p \in Existing : Refs(p)' = Refs(p) /\ entries'[p] = entries[p]
  <2>1. entries[o] = {}
    BY <1>1 DEF GcInv, KindsFit
  <2> QED
    BY <1>1, <1>2, <2>1 DEF Refs, Ends, All
<1>7. \A p \in There : ~Dead(p) => Refs(p) \subseteq All \ {o}
  BY <1>2, <1>5 DEF GcInv, Closed, All
<1>8. GcTypeOK'
  <2>1. entries' \in [All -> SUBSET ((Objects \cup {NoObject}) \X Objects)]
    <3>1. <<NoObject, o>> \in (Objects \cup {NoObject}) \X Objects
      OBVIOUS
    <3> QED
      BY <1>1, <1>2, <3>1
  <2> QED
    BY <1>1, <1>2, <2>1 DEF GcInv, GcTypeOK, White, Ages
<1>9. KindsFit'
  BY <1>1, <1>2, <1>3 DEF GcInv, KindsFit
<1>10. Control' /\ InYoung' /\ InAtomic'
  BY <1>1, ProgramFacts DEF GcInv, Control, InYoung, InAtomic
<1>11. Closed'
  <2>1. ~Dead(Main)' /\ InList("finobj")' \cup InList("tobefnz")' \subseteq Alive'
    BY <1>2, <1>3, <1>4, <1>5 DEF GcInv, Closed
  <2>2. ASSUME NEW p \in There', ~Dead(p)'
        PROVE  Refs(p)' \subseteq Alive'
    <3>1. CASE p = o
      BY <1>6, <3>1
    <3>2. CASE p = Main
      BY <1>2, <1>4, <1>5, <1>6, <2>2, <3>2 DEF GcInv, Closed, There
    <3>3. CASE p \in Existing
      BY <1>3, <1>4, <1>5, <1>6, <2>2, <3>3 DEF GcInv, Closed, There
    <3> QED
      BY <1>3, <3>1, <3>2, <3>3 DEF There
  <2> QED
    BY <2>1, <2>2 DEF Closed
<1>12. DeadOnlyInSweep' /\ SweptIsNew' /\ AllNewInIncremental'
  <2>1. gcstate # "marked"
    BY <1>1, ProgramFacts DEF AtomicStates
  <2>2. DeadOnlyInSweep'
    BY <1>1, <1>3, <1>4, <1>5, <2>1 DEF GcInv, DeadOnlyInSweep
  <2>3. SweptIsNew' /\ AllNewInIncremental'
    BY <1>1, <1>3, <1>4, <1>5 DEF GcInv, SweptIsNew, AllNewInIncremental
  <2> QED
    BY <2>2, <2>3
<1>13. ASSUME gcstate \in {"propagate", "enteratomic"}
       PROVE  \A p \in Existing : /\ Refs(p) \subseteq All \ {o}
                                  /\ RefsMarked(p) => RefsMarked(p)'
                                  /\ OlderRefs(p) => OlderRefs(p)'
  <2>1. \A p \in Existing : Refs(p) \subseteq All \ {o}
    BY <1>7, <1>13 DEF GcInv, DeadOnlyInSweep, There
  <2> QED
    BY <1>2, <1>4, <1>5, <1>6, <2>1 DEF RefsMarked, OlderRefs, There
<1>14. Propagating'
  BY <1>1, <1>2, <1>3, <1>4, <1>5, <1>13 DEF GcInv, Propagating, There, White, Gray, Black
<1>15. BetweenYoung'
  <2> SUFFICES ASSUME gckind = "genminor", gcstate = "propagate"
               PROVE  BetweenYoung'
    BY <1>1 DEF BetweenYoung
  <2>1. OlderRefs(o)'
    BY <1>4 DEF OlderRefs
  <2>2. color'[o] # Gray
    BY <1>2, <1>4 DEF White, Gray
  <2> QED
    BY <1>1, <1>2, <1>3, <1>4, <1>5, <1>13, <2>1, <2>2 DEF GcInv, BetweenYoung, There, Young
<1> QED
  BY <1>8, <1>9, <1>10, <1>11, <1>12, <1>14, <1>15 DEF GcInv

(* What is left of colors, ages and lists when the program stores v, under *)
(* k, in t: nothing white came into a black t, or t is to be traversed     *)
(* again, or v is marked, or the sweep is on.                              *)
BarrierEffect(t, k, v) ==
    \/ /\ UNCHANGED heap
       /\ color[t] # Black \/ (~iswhite(v) /\ (k = NoObject \/ ~iswhite(k)))
    \/ /\ color[t] = Black
       /\ color' = [color EXCEPT ![t] = Gray]
       /\ age' = IF isold(t) THEN [age EXCEPT ![t] = "touched1"] ELSE age
       /\ grays' = IF age[t] = "touched2" THEN grays ELSE [grays EXCEPT !["grayagain"] = @ \cup {t}]
    \/ /\ color[t] = Black /\ k = NoObject /\ iswhite(v) /\ gcstate \in {"propagate", "enteratomic"}
       /\ color' = MarkedColor(color, {v}) /\ grays' = MarkedGrays(color, grays, {v})
       /\ age' = IF isold(t) THEN [age EXCEPT ![v] = "old0"] ELSE age
    \/ /\ color[t] = Black /\ gcstate \in SweepStates \cup {"callfin", "pause"}
       /\ UNCHANGED <<age, grays>>
       /\ color' = color \/ color' = [color EXCEPT ![t] = White(currentwhite)]

LEMMA StoreKeeps ==
    ASSUME GcInv, ProgramRuns, NEW t \in Stack, NEW v \in Stack, NEW k \in Stack \cup {NoObject},
           ~Leaf(t), BarrierEffect(t, k, v),
           entries' = [entries EXCEPT ![t] = @ \cup {<<k, v>>}],
           UNCHANGED <<mode, gcstate, goal, currentwhite, list, sweepgc>>
    PROVE  GcInv'
PROOF
<1>1. /\ program' = program /\ gckind' = gckind /\ gcstate' = gcstate /\ goal' = goal
      /\ currentwhite' = currentwhite /\ list' = list /\ sweepgc' = sweepgc
      /\ gcstate \in {"pause", "propagate", "enteratomic", "callfin"} \cup SweepStates
      /\ gcstate \notin AtomicStates /\ (gckind = "genminor" => gcstate = "propagate")
  BY ProgramFacts DEF mode
<1>2. /\ color \in [All -> 0 .. 3] /\ age \in [All -> Ages] /\ grays \in [Lists -> SUBSET All]
      /\ currentwhite \in {0, 1} /\ Main \in All /\ Main \notin Objects
      /\ entries \in [All -> SUBSET ((Objects \cup {NoObject}) \X Objects)]
      /\ Existing \subseteq Objects /\ Alive \subseteq Existing /\ Objects \subseteq All /\ NoObject \notin All
      /\ t \in Alive /\ v \in Alive /\ k \in Alive \cup {NoObject}
  BY ProgramFacts DEF GcInv, GcTypeOK, All
<1>3. /\ kind' = kind /\ There' = There /\ Existing' = Existing
      /\ InList("finobj")' = InList("finobj") /\ InList("tobefnz")' = InList("tobefnz")
      /\ ToSweep' = ToSweep
      /\ \A p : Leaf(p)' <=> Leaf(p)
  <2>1. InList("finobj")' = InList("finobj") /\ InList("tobefnz")' = InList("tobefnz")
    BY <1>1 DEF InList
  <2> QED
    BY <1>1, <2>1 DEF kind, There, Existing, Leaf, ToSweep
<1>4. /\ Refs(t)' = Refs(t) \cup ({k, v} \ {NoObject})
      /\ \A p \in All \ {t} : Refs(p)' = Refs(p) /\ entries'[p] = entries[p]
  <2>1. entries'[t] = entries[t] \cup {<<k, v>>} /\ \A p \in All \ {t} : entries'[p] = entries[p]
    BY <1>2
  <2>2. Ends(entries'[t]) = Ends(entries[t]) \cup {k, v}
    <3>1. PICK es, es2 : es = entries[t] /\ es2 = entries'[t]
      OBVIOUS
    <3>2. es2 = es \cup {<<k, v>>}
      BY <2>1, <3>1
    <3>3. /\ \A x : x \in Ends(es) <=> \E e \in es : x = e[1] \/ x = e[2]
          /\ \A x : x \in Ends(es2) <=> \E e \in es2 : x = e[1] \/ x = e[2]
      BY DEF Ends
    <3>4. <<k, v>>[1] = k /\ <<k, v>>[2] = v
      OBVIOUS
    <3>5. ASSUME NEW x \in Ends(es2)
          PROVE  x \in Ends(es) \cup {k, v}
      <4>1. PICK e \in es2 : x = e[1] \/ x = e[2]
        BY <3>3
      <4> QED
        BY <3>2, <3>3, <3>4, <4>1
    <3>6. ASSUME NEW x \in Ends(es) \cup {k, v}
          PROVE  x \in Ends(es2)
      <4>1. <<k, v>> \in es2 /\ es \subseteq es2
        BY <3>2
      <4> QED
        BY <3>3, <3>4, <4>1, Zenon
    <3>7. Ends(es2) = Ends(es) \cup {k, v}
      BY <3>5, <3>6, Zenon
    <3> QED
      BY <3>1, <3>7
  <2> QED
    BY <2>1, <2>2 DEF Refs
<1>5. \A p \in There : p \in All /\ Refs(p) \subseteq All
  <2>1. \A p \in All : \A e \in entries[p] : e[1] \in Objects \cup {NoObject} /\ e[2] \in Objects
    BY <1>2
  <2> QED
    BY <1>2, <2>1 DEF Refs, Ends, There
<1>6. /\ color' \in [All -> 0 .. 3] /\ age' \in [All -> Ages] /\ grays' \in [Lists -> SUBSET All]
      /\ \A p \in All \ {t, v} : color'[p] = color[p] /\ age'[p] = age[p]
      /\ \A l \in Lists : grays[l] \subseteq grays'[l] /\ (l \notin {"gray", "grayagain"} => grays'[l] = grays[l])
  <2> HIDE DEF BarrierEffect
  <2>1. {v} \in SUBSET All
    BY <1>2
  <2>2. "grayagain" \in Lists /\ {"touched1", "old0"} \subseteq Ages
    BY DEF Lists, Ages
  <2>3. CASE UNCHANGED heap
    BY <1>2, <2>3 DEF heap
  <2>4. CASE /\ color' = [color EXCEPT ![t] = Gray]
             /\ age' = IF isold(t) THEN [age EXCEPT ![t] = "touched1"] ELSE age
             /\ grays' = IF age[t] = "touched2" THEN grays ELSE [grays EXCEPT !["grayagain"] = @ \cup {t}]
    BY <1>2, <2>2, <2>4 DEF Gray
  <2>5. CASE /\ color' = MarkedColor(color, {v}) /\ grays' = MarkedGrays(color, grays, {v})
             /\ age' = IF isold(t) THEN [age EXCEPT ![v] = "old0"] ELSE age
    BY <1>2, <2>1, <2>2, <2>5, MarkFacts
  <2>6. CASE /\ UNCHANGED <<age, grays>>
             /\ color' = color \/ color' = [color EXCEPT ![t] = White(currentwhite)]
    BY <1>2, <2>6 DEF White
  <2> QED
    BY <2>3, <2>4, <2>5, <2>6 DEF BarrierEffect
<1>7. \A p \in All : Dead(p)' <=> Dead(p)
  <2>1. ~Dead(t) /\ ~Dead(v)
    BY <1>2 DEF Alive
  <2>2. {v} \in SUBSET All /\ t \in All /\ v \in All
    BY <1>2
  <2>3. color'[t] # White(otherwhite) /\ color'[v] # White(otherwhite)
    <3>1. CASE UNCHANGED heap
      BY <2>1, <3>1 DEF heap, Dead
    <3>2. CASE color' = [color EXCEPT ![t] = Gray]
      BY <1>2, <2>1, <2>2, <3>2 DEF Dead, Gray, White, otherwhite
    <3>3. CASE color' = MarkedColor(color, {v})
      BY <1>2, <2>1, <2>2, <3>3, MarkFacts DEF Dead, Gray, Black, White, otherwhite
    <3>4. CASE color' = color \/ color' = [color EXCEPT ![t] = White(currentwhite)]
      BY <1>2, <2>1, <2>2, <3>4 DEF Dead, White, otherwhite
    <3> QED
      BY <3>1, <3>2, <3>3, <3>4 DEF BarrierEffect
  <2> QED
    BY <1>1, <1>6, <2>1, <2>2, <2>3 DEF Dead, otherwhite
<1>8. Alive' = Alive
  BY <1>2, <1>3, <1>7 DEF Alive
<1>9. GcTypeOK'
  <2>1. <<k, v>> \in (Objects \cup {NoObject}) \X Objects
    BY <1>2
  <2>2. entries' \in [All -> SUBSET ((Objects \cup {NoObject}) \X Objects)]
    BY <1>2, <2>1
  <2> QED
    BY <1>1, <1>6, <2>2 DEF GcInv, GcTypeOK, mode
<1>10. KindsFit'
  <2>1. list[t] # "free"
    BY <1>2 DEF Existing
  <2> QED
    BY <1>1, <1>2, <1>3, <1>4, <2>1 DEF GcInv, KindsFit
<1>11. Control' /\ InYoung' /\ InAtomic'
  BY <1>1 DEF GcInv, Control, InYoung, InAtomic
<1>12. Closed'
  BY <1>2, <1>3, <1>4, <1>5, <1>7, <1>8 DEF GcInv, Closed
<1>13. DeadOnlyInSweep'
  <2>1. gcstate # "marked"
    BY <1>1 DEF AtomicStates
  <2> QED
    BY <1>1, <1>3, <1>5, <1>7, <2>1 DEF GcInv, DeadOnlyInSweep
<1>14. SweptIsNew'
  <2> SUFFICES ASSUME gcstate \in SweepStates \cup {"callfin", "pause"}, NEW p \in There \ ToSweep
               PROVE  color'[p] = White(currentwhite) /\ age'[p] = "new"
    BY <1>1, <1>3 DEF GcInv, SweptIsNew
  <2>1. color[p] = White(currentwhite) /\ age[p] = "new" /\ p \in All
    BY <1>5 DEF GcInv, SweptIsNew
  <2>2. gcstate \notin {"propagate", "enteratomic"}
    BY DEF SweepStates
  <2>3. color[t] = Black => p # t
    BY <1>2, <2>1 DEF White, Black
  <2>4. CASE UNCHANGED heap
    BY <2>1, <2>4 DEF heap
  <2>5. CASE ~UNCHANGED heap
    BY <1>2, <2>1, <2>2, <2>3, <2>5 DEF BarrierEffect
  <2> QED
    BY <2>4, <2>5
<1>15. AllNewInIncremental'
  <2> SUFFICES ASSUME gckind # "genminor", gcstate \in {"propagate", "enteratomic"}
               PROVE  \A p \in There : age'[p] = "new"
    BY <1>1, <1>3 DEF AllNewInIncremental
  <2>1. \A p \in There : age[p] = "new"
    BY DEF GcInv, AllNewInIncremental
  <2>2. ~isold(t)
    BY <1>2, <2>1 DEF isold, Young, There
  <2> QED
    BY <2>1, <2>2 DEF BarrierEffect, heap
<1>16. ASSUME gcstate \in {"propagate", "enteratomic"}
       PROVE  /\ \A p \in There : ~Dead(p) /\ Refs(p) \subseteq Existing
              /\ \A p \in All : ~iswhite(p) => ~iswhite(p)'
              /\ \A p \in Existing : RefsMarked(p) => p = t \/ RefsMarked(p)'
  <2>1. \A p \in There : ~Dead(p) /\ Refs(p) \subseteq Existing
    BY <1>2, <1>16 DEF GcInv, DeadOnlyInSweep, Closed
  <2>2. {v} \in SUBSET All /\ t \in All /\ v \in All /\ gcstate \notin SweepStates \cup {"callfin", "pause"}
    BY <1>2, <1>16 DEF SweepStates
  <2>3. \A p \in All : ~iswhite(p) => ~iswhite(p)'
    <3>1. CASE UNCHANGED heap
      BY <3>1 DEF heap, iswhite
    <3>2. CASE color' = [color EXCEPT ![t] = Gray]
      BY <1>2, <3>2 DEF iswhite, Gray
    <3>3. CASE color' = MarkedColor(color, {v})
      BY <1>2, <2>2, <3>3, MarkFacts DEF iswhite, Gray, Black
    <3> QED
      BY <2>2, <3>1, <3>2, <3>3 DEF BarrierEffect
  <2> QED
    BY <1>2, <1>4, <2>1, <2>3 DEF RefsMarked, There
<1>17. ASSUME gcstate \in {"propagate", "enteratomic"}, color[t] = Black
       PROVE  \/ UNCHANGED heap /\ ~iswhite(v) /\ (k = NoObject \/ ~iswhite(k))
              \/ /\ color'[t] = Gray /\ t \in grays'["grayagain"]
                 /\ v # t => color'[v] = color[v] /\ age'[v] = age[v]
                 /\ isold(t) => age'[t] = "touched1"
              \/ /\ k = NoObject /\ iswhite(v) /\ v # t /\ color'[t] = Black /\ age'[t] = age[t]
                 /\ \/ Leaf(v) /\ color'[v] = Black
                    \/ ~Leaf(v) /\ color'[v] = Gray /\ v \in grays'["gray"]
                 /\ isold(t) => age'[v] = "old0"
  <2>1. gcstate \notin SweepStates \cup {"callfin", "pause"}
    BY <1>17 DEF SweepStates
  <2>2. t \in All /\ v \in All /\ {v} \in SUBSET All /\ t \in Existing /\ "grayagain" \in Lists
    BY <1>2 DEF Lists
  <2>3. CASE /\ color' = [color EXCEPT ![t] = Gray]
             /\ age' = IF isold(t) THEN [age EXCEPT ![t] = "touched1"] ELSE age
             /\ grays' = IF age[t] = "touched2" THEN grays ELSE [grays EXCEPT !["grayagain"] = @ \cup {t}]
    <3>1. age[t] = "touched2" => t \in grays["grayagain"]
      <4>1. gckind # "genminor" => age[t] = "new"
        BY <1>17, <2>2 DEF GcInv, AllNewInIncremental, There
      <4>2. gckind = "genminor" /\ age[t] = "touched2" => t \in grays.grayagain
        BY <1>1, <2>2 DEF GcInv, BetweenYoung
      <4> QED
        BY <4>1, <4>2
    <3> QED
      BY <1>2, <2>2, <2>3, <3>1
  <2>4. CASE /\ k = NoObject /\ iswhite(v)
             /\ color' = MarkedColor(color, {v}) /\ grays' = MarkedGrays(color, grays, {v})
             /\ age' = IF isold(t) THEN [age EXCEPT ![v] = "old0"] ELSE age
    <3>1. v # t
      BY <1>17, <2>4 DEF iswhite, Black
    <3>2. IsWhite(color, v) /\ ~IsWhite(color, t)
      BY <1>17, <2>4 DEF IsWhite, iswhite, Black
    <3> QED
      BY <1>2, <1>17, <2>2, <2>4, <3>1, <3>2, MarkFacts
  <2> QED
    BY <1>17, <2>1, <2>3, <2>4 DEF BarrierEffect
<1>18. Propagating'
  <2> SUFFICES ASSUME gcstate \in {"propagate", "enteratomic"}
               PROVE  Propagating'
    BY <1>1 DEF Propagating
  <2>1. color[t] # Black => UNCHANGED heap
    BY DEF BarrierEffect
  <2>2. /\ grays'.saved \cup grays'.weak \cup grays'.allweak \cup grays'.ephemeron = {}
        /\ Main \in grays'.gray \cup grays'.grayagain /\ ~iswhite(Main)'
    BY <1>2, <1>6, <1>16 DEF GcInv, Propagating, Lists
  <2>3. /\ t \in Existing /\ v \in Existing /\ Existing \subseteq All
        /\ grays.gray \subseteq grays'.gray /\ grays.grayagain \subseteq grays'.grayagain
    BY <1>2, <1>6 DEF Lists
  <2>4. \A p \in Existing : color'[p] = Gray => p \in grays'.gray \cup grays'.grayagain
    <3>1. \A p \in Existing : color[p] = Gray => p \in grays.gray \cup grays.grayagain
      BY DEF GcInv, Propagating
    <3>2. CASE UNCHANGED heap
      BY <3>1, <3>2 DEF heap
    <3>3. CASE color[t] = Black /\ ~UNCHANGED heap
      BY <1>6, <1>17, <2>3, <3>1, <3>3 DEF Black, Gray
    <3> QED
      BY <2>1, <3>2, <3>3
  <2>5. ASSUME gckind # "genminor" \/ gcstate = "enteratomic", NEW p \in Existing, color'[p] = Black
        PROVE  p \in grays'.gray \cup grays'.grayagain \/ RefsMarked(p)'
    <3>1. color[p] = Black => p \in grays.gray \cup grays.grayagain \/ RefsMarked(p)
      BY <2>5 DEF GcInv, Propagating
    <3>2. CASE p # t /\ color[p] = Black
      BY <1>16, <2>3, <3>1, <3>2
    <3>3. CASE p # t /\ color[p] # Black
      <4>1. p = v /\ color[t] = Black /\ Leaf(v)
        BY <1>6, <1>17, <2>1, <2>3, <2>5, <3>3 DEF heap, Gray, Black
      <4>2. entries[v] = {}
        BY <1>2, <4>1 DEF GcInv, KindsFit
      <4>3. Refs(v)' = {}
        BY <1>4, <2>3, <3>3, <4>1, <4>2 DEF Refs, Ends
      <4> QED
        BY <4>1, <4>3 DEF RefsMarked
    <3>4. CASE p = t
      <4>1. color[t] = Black
        BY <2>1, <2>5, <3>4 DEF heap
      <4>2. color'[t] # Gray
        BY <2>5, <3>4 DEF Gray, Black
      <4>3. ~iswhite(v)' /\ (k = NoObject \/ ~iswhite(k)')
        BY <1>16, <1>17, <2>3, <4>1, <4>2, <1>2 DEF iswhite, Gray, Black
      <4> QED
        BY <1>4, <1>16, <2>3, <3>1, <3>4, <4>1, <4>3 DEF RefsMarked, There
    <3> QED
      BY <3>2, <3>3, <3>4
  <2> QED
    BY <1>1, <1>3, <2>2, <2>4, <2>5 DEF Propagating
<1>19. BetweenYoung'
  <2> SUFFICES ASSUME gckind = "genminor", gcstate = "propagate"
               PROVE  BetweenYoung'
    BY <1>1 DEF BetweenYoung
  <2>1. color[t] # Black => UNCHANGED heap
    BY DEF BarrierEffect
  <2>2. /\ t \in Existing /\ v \in Existing /\ Existing \subseteq All
        /\ grays.gray \subseteq grays'.gray /\ grays.grayagain \subseteq grays'.grayagain
    BY <1>2, <1>6 DEF Lists
  <2>3. /\ age[Main] = "old"
        /\ \A p \in Existing :
               /\ iswhite(p) <=> age[p] \in Young
               /\ age[p] \in {"touched1", "touched2"} => p \in grays.grayagain
               /\ age[p] = "old0" => p \in grays.gray \/ Leaf(p)
               /\ color[p] = Gray => age[p] \in {"old0", "touched1"}
               /\ OlderRefs(p)
    BY DEF GcInv, BetweenYoung
  <2>4. color[t] = Black => isold(t)
    BY <2>2, <2>3 DEF isold, iswhite, Black
  <2>5. age'[Main] = "old"
    BY <1>2, <1>6, <2>3
  <2>6. ASSUME NEW p \in Existing
        PROVE  /\ iswhite(p)' <=> age'[p] \in Young
               /\ age'[p] \in {"touched1", "touched2"} => p \in grays'.grayagain
               /\ age'[p] = "old0" => p \in grays'.gray \/ Leaf(p)
               /\ color'[p] = Gray => age'[p] \in {"old0", "touched1"}
    <3>1. CASE UNCHANGED heap
      BY <2>3, <3>1 DEF heap, iswhite
    <3>2. CASE p \notin {t, v}
      BY <1>6, <2>2, <2>3, <3>2 DEF iswhite
    <3>3. CASE color[t] = Black /\ ~UNCHANGED heap /\ p \in {t, v}
      BY <1>17, <2>2, <2>3, <2>4, <3>3 DEF iswhite, Young, Gray, Black
    <3> QED
      BY <2>1, <3>1, <3>2, <3>3
  <2>7. \A q \in Existing : /\ age[q] \notin Young => age'[q] \notin Young
                            /\ age[q] # "new" => age'[q] # "new"
    <3>1. CASE UNCHANGED heap
      BY <3>1 DEF heap
    <3>2. CASE color[t] = Black /\ ~UNCHANGED heap
      BY <1>6, <1>17, <2>2, <2>4, <3>2 DEF Young
    <3> QED
      BY <2>1, <3>1, <3>2
  <2>8. ASSUME NEW p \in Existing
        PROVE  OlderRefs(p)'
    <3>1. Refs(p) \subseteq Existing
      BY <1>16 DEF There
    <3>2. CASE p # t /\ age'[p] = age[p]
      <4>1. Refs(p)' = Refs(p)
        BY <1>4, <2>2, <3>2
      <4>2. OlderRefs(p)
        BY <2>3
      <4> QED
        BY <2>7, <3>1, <3>2, <4>1, <4>2 DEF OlderRefs
    <3>3. CASE p # t /\ age'[p] # age[p]
      <4>1. p = v /\ color[t] = Black
        BY <1>6, <2>1, <2>2, <3>3 DEF heap
      <4>2. age'[p] = "old0"
        BY <1>17, <2>4, <3>3, <4>1 DEF heap
      <4> QED
        BY <4>2 DEF OlderRefs
    <3>4. CASE p = t /\ color[t] = Black
      <4>1. CASE UNCHANGED heap /\ ~iswhite(v) /\ (k = NoObject \/ ~iswhite(k))
        <5>1. age[v] \notin Young /\ (k = NoObject \/ age[k] \notin Young)
          BY <1>2, <2>3, <4>1
        <5> QED
          BY <1>4, <2>3, <3>4, <4>1, <5>1 DEF OlderRefs, heap, Young
      <4>2. CASE age'[t] = "touched1"
        BY <3>4, <4>2 DEF OlderRefs
      <4>3. CASE k = NoObject /\ age'[v] = "old0" /\ age'[t] = age[t]
        <5>1. OlderRefs(t) /\ Refs(t)' = Refs(t) \cup {v}
          BY <1>2, <1>4, <2>2, <2>3, <4>3
        <5> QED
          BY <2>7, <3>1, <3>4, <4>3, <5>1 DEF OlderRefs, Young
      <4> QED
        BY <1>17, <2>4, <3>4, <4>1, <4>2, <4>3
    <3>5. CASE p = t /\ color[t] # Black
      <4>1. age[t] \in Young \cup {"old0", "touched1"}
        BY <1>2, <2>2, <2>3, <3>5 DEF iswhite, Black, Gray
      <4> QED
        BY <2>1, <3>5, <4>1 DEF OlderRefs, heap, Young
    <3> QED
      BY <3>2, <3>3, <3>4, <3>5
  <2> QED
    BY <1>1, <1>3, <2>5, <2>6, <2>8 DEF BetweenYoung
<1> QED
  BY <1>9, <1>10, <1>11, <1>12, <1>13, <1>14, <1>15, <1>18, <1>19 DEF GcInv

LEMMA PutKeeps ==
    \A t, v \in Objects : \A k \in Objects \cup {NoObject} : GcInv /\ Put(t, k, v) => GcInv'
PROOF
<1> SUFFICES ASSUME NEW t \in Objects, NEW v \in Objects, NEW k \in Objects \cup {NoObject}, GcInv, Put(t, k, v)
             PROVE  GcInv'
  OBVIOUS
<1>1. /\ ProgramRuns /\ t \in Stack /\ v \in Stack /\ k \in Stack \cup {NoObject}
      /\ entries' = [entries EXCEPT ![t] = @ \cup {<<k, v>>}]
      /\ UNCHANGED <<mode, gcstate, goal, currentwhite, list, sweepgc>>
  BY DEF Put
<1>2. ~Leaf(t)
  BY DEF Put, IsTable, Leaf
<1>3. /\ v # NoObject /\ gcstate \notin AtomicStates /\ gcstate \in States
      /\ color \in [All -> 0 .. 3] /\ age \in [All -> Ages] /\ t \in All
  BY <1>1, GcAssumption DEF ProgramRuns, GcInv, GcTypeOK, All
<1>4. CASE BarrierBack(t, IF k # NoObject /\ iswhite(k) THEN k ELSE v)
  <2>1. BarrierEffect(t, k, v)
    <3>1. CASE UNCHANGED heap
      <4>1. CASE color[t] # Black
        BY <3>1, <4>1 DEF BarrierEffect
      <4>2. CASE color[t] = Black
        <5>1. ~iswhite(v) /\ (k = NoObject \/ ~iswhite(k))
          <6>1. ASSUME k # NoObject, iswhite(k)
                PROVE  FALSE
            <7>1. color' = [color EXCEPT ![t] = Gray]
              BY <1>4, <4>2, <6>1 DEF BarrierBack
            <7> QED
              BY <1>3, <3>1, <4>2, <7>1 DEF heap, Gray, Black
          <6>2. ASSUME k = NoObject \/ ~iswhite(k), iswhite(v)
                PROVE  FALSE
            <7>1. color' = [color EXCEPT ![t] = Gray]
              BY <1>3, <1>4, <4>2, <6>2 DEF BarrierBack
            <7> QED
              BY <1>3, <3>1, <4>2, <7>1 DEF heap, Gray, Black
          <6> QED
            BY <6>1, <6>2
        <5> QED
          BY <3>1, <5>1 DEF BarrierEffect
      <4> QED
        BY <4>1, <4>2
    <3>2. CASE ~UNCHANGED heap
      BY <1>4, <3>2 DEF BarrierBack, BarrierEffect
    <3> QED
      BY <3>1, <3>2
  <2> QED
    BY <1>1, <1>2, <2>1, StoreKeeps
<1>5. CASE k = NoObject /\ BarrierForward(t, v)
  <2>1. BarrierEffect(t, k, v)
    <3>1. CASE color[t] # Black \/ ~iswhite(v)
      BY <1>5, <3>1 DEF BarrierForward, BarrierEffect
    <3>2. CASE color[t] = Black /\ iswhite(v) /\ keepinvariant
      <4>1. gcstate \in {"propagate", "enteratomic"}
        BY <1>3, <3>2 DEF keepinvariant
      <4> QED
        BY <1>3, <1>5, <3>2, <4>1 DEF BarrierForward, BarrierEffect, Mark
    <3>3. CASE color[t] = Black /\ iswhite(v) /\ ~keepinvariant
      <4>1. gcstate \in SweepStates \cup {"callfin", "pause"}
        BY <1>3, <3>3 DEF keepinvariant, States
      <4> QED
        BY <1>3, <1>5, <3>3, <4>1 DEF BarrierForward, BarrierEffect, White
    <3> QED
      BY <3>1, <3>2, <3>3
  <2> QED
    BY <1>1, <1>2, <1>5, <2>1, StoreKeeps
<1> QED
  BY <1>4, <1>5 DEF Put

-----------------------------------------------------------------------------
(* Steps that mark. *)

(* Objects are marked, weak entries removed, objects handed to their       *)
(* finalizers.                                                             *)
Marking ==
    /\ program' = program
    /\ \A p \in All : entries'[p] \subseteq entries[p]
    /\ \A o \in Objects : list'[o] = list[o] \/ (list[o] = "finobj" /\ list'[o] = "tobefnz")
    /\ \A p \in All : color'[p] = color[p] \/ color'[p] \in {Black, Gray}

LEMMA MarkingFacts ==
    ASSUME GcInv, Marking
    PROVE  /\ kind' = kind /\ There' = There /\ Existing' = Existing
           /\ Existing \subseteq Objects /\ Objects \subseteq All /\ There \subseteq All
           /\ InList("finobj")' \cup InList("tobefnz")' = InList("finobj") \cup InList("tobefnz")
           /\ InList("finobj")' \subseteq InList("finobj")
           /\ InList("free")' = InList("free")
           /\ \A p : Leaf(p)' <=> Leaf(p)
           /\ \A p \in All : /\ Refs(p)' \subseteq Refs(p)
                             /\ currentwhite' = currentwhite /\ Dead(p)' => Dead(p)
                             /\ ~iswhite(p) => ~iswhite(p)'
                             /\ Leaf(p) => RefsMarked(p)'
           /\ \A p \in All : RefsMarked(p) => RefsMarked(p)'
           /\ KindsFit'
PROOF
<1>1. kind' = kind /\ \A p : Leaf(p)' <=> Leaf(p)
  BY DEF Marking, kind, Leaf
<1>2. Existing \subseteq Objects /\ Objects \subseteq All /\ There \subseteq All
  BY DEF Existing, There, All
<1>3. \A o \in Objects : /\ list'[o] = "free" <=> list[o] = "free"
                         /\ list'[o] = "finobj" => list[o] = "finobj"
                         /\ list'[o] \in {"finobj", "tobefnz"} <=> list[o] \in {"finobj", "tobefnz"}
  BY DEF Marking
<1>4. /\ There' = There /\ Existing' = Existing /\ InList("free")' = InList("free")
      /\ InList("finobj")' \cup InList("tobefnz")' = InList("finobj") \cup InList("tobefnz")
      /\ InList("finobj")' \subseteq InList("finobj")
  BY <1>3 DEF There, Existing, InList
<1>5. \A p \in All : Refs(p)' \subseteq Refs(p)
  BY DEF Marking, Refs, Ends
<1>6. currentwhite \in {0, 1}
  BY DEF GcInv, GcTypeOK
<1>7. \A p \in All : /\ currentwhite' = currentwhite /\ Dead(p)' => Dead(p)
                     /\ ~iswhite(p) => ~iswhite(p)'
  BY <1>6 DEF Marking, Dead, White, otherwhite, iswhite, Black, Gray
<1>8. \A p \in All : Refs(p) \subseteq Objects
  <2>1. \A p \in All : \A e \in entries[p] : e[1] \in Objects \cup {NoObject} /\ e[2] \in Objects
    BY DEF GcInv, GcTypeOK
  <2> QED
    BY <2>1 DEF Refs, Ends
<1>9. \A p \in All : RefsMarked(p) => RefsMarked(p)'
  BY <1>2, <1>5, <1>7, <1>8 DEF RefsMarked
<1>10. \A p \in All : Leaf(p) => RefsMarked(p)'
  <2>1. \A p \in All : Leaf(p) => p \in Objects
    BY GcAssumption DEF GcInv, GcTypeOK, Leaf, kind, All
  <2>2. \A p \in All : Leaf(p) => entries[p] = {}
    BY <2>1 DEF GcInv, KindsFit
  <2>3. \A p \in All : Leaf(p) => Refs(p) = {}
    BY <2>2 DEF Refs, Ends
  <2> QED
    BY <1>5, <2>3 DEF RefsMarked
<1>11. KindsFit'
  <2>1. \A o \in Objects : entries[o] = {} => entries'[o] = {}
    BY <1>2 DEF Marking
  <2> QED
    BY <1>1, <1>3, <2>1 DEF GcInv, KindsFit
<1> QED
  BY <1>1, <1>2, <1>4, <1>5, <1>7, <1>9, <1>10, <1>11

(* Before the whites are exchanged nothing is dead.                        *)
LEMMA MarkingKeepsAlive ==
    ASSUME GcInv, Marking, currentwhite' = currentwhite, gcstate \notin {"marked", "swpallgc"}
    PROVE  /\ \A p \in There : ~Dead(p)'
           /\ Alive' = Existing /\ Alive = Existing
           /\ \A p \in There : Refs(p) \subseteq Existing
           /\ Closed'
PROOF
<1>1. \A p \in There : ~Dead(p)
  BY DEF GcInv, DeadOnlyInSweep
<1>2. \A p \in There : ~Dead(p)'
  BY <1>1, MarkingFacts
<1>3. Alive' = Existing /\ Alive = Existing
  BY <1>1, <1>2, MarkingFacts DEF Alive, There
<1>4. \A p \in There : Refs(p) \subseteq Existing
  BY <1>1, <1>3 DEF GcInv, Closed
<1>5. InList("finobj") \cup InList("tobefnz") \subseteq Existing
  BY <1>3 DEF GcInv, Closed
<1>6. Closed'
  BY <1>2, <1>3, <1>4, <1>5, MarkingFacts DEF Closed, There
<1> QED
  BY <1>2, <1>3, <1>4, <1>6

(* A traversed object stays finished while others are marked and traversed.*)
LEMMA FinishedStays ==
    ASSUME GcInv, Marking, grays' \in [Lists -> SUBSET All],
           NEW o \in All, Finished(o),
           grays.weak \subseteq grays'.weak, grays.allweak \subseteq grays'.allweak,
           o \in grays.ephemeron => o \in grays'.ephemeron
    PROVE  Finished(o)'
PROOF
<1>1. kind' = kind /\ entries'[o] \subseteq entries[o]
  BY MarkingFacts DEF Marking
<1>2. \A e \in entries[o] : e[1] \in All \cup {NoObject} /\ e[2] \in All
  BY DEF GcInv, GcTypeOK, All
<1>3. \A p \in All : ~iswhite(p) => ~iswhite(p)'
  BY MarkingFacts
<1>4. CASE RefsMarked(o)
  BY <1>4, MarkingFacts DEF Finished
<1>5. CASE kind[o] = "weakvalue" /\ o \in grays.weak /\ \A e \in entries[o] : e[1] = NoObject \/ ~iswhite(e[1])
  <2>1. \A e \in entries'[o] : e[1] = NoObject \/ ~iswhite(e[1])'
    BY <1>1, <1>2, <1>3, <1>5
  <2> QED
    BY <1>1, <1>5, <2>1 DEF Finished
<1>6. CASE kind[o] = "allweak" /\ o \in grays.allweak
  BY <1>1, <1>6 DEF Finished
<1>7. CASE kind[o] = "ephemeron" /\ o \in grays.ephemeron
  BY <1>1, <1>7 DEF Finished
<1>8. CASE kind[o] = "ephemeron" /\ o \in grays.allweak /\ \A e \in entries[o] : ~iswhite(e[2])
  <2>1. \A e \in entries'[o] : ~iswhite(e[2])'
    BY <1>1, <1>2, <1>3, <1>8
  <2> QED
    BY <1>1, <1>8, <2>1 DEF Finished
<1> QED
  BY <1>4, <1>5, <1>6, <1>7, <1>8 DEF Finished

LEMMA RestartCollectionKeeps == GcInv /\ RestartCollection => GcInv'
PROOF
<1> SUFFICES ASSUME GcInv, RestartCollection
             PROVE  GcInv'
  OBVIOUS
<1> DEFINE roots == {Main} \cup InList("tobefnz")
<1>1. /\ gcstate = "pause" /\ color' = MarkedColor(color, roots) /\ grays' = MarkedGrays(color, NoGrays, roots)
      /\ Reach("propagate")
      /\ program' = program /\ gckind' = gckind /\ currentwhite' = currentwhite /\ age' = age
      /\ entries' = entries /\ list' = list /\ sweepgc' = sweepgc
  BY DEF RestartCollection
<1>2. gckind # "genminor" /\ goal \notin {<<"young">>, <<"fin">>}
  BY <1>1 DEF GcInv, Control, AtomicStates
<1>3. gcstate' = "propagate" /\ goal' \in Goals /\ goal' \notin {<<"young">>, <<"fin">>}
  BY <1>1, <1>2, ReachFacts DEF GcInv, States
<1>4. roots \in SUBSET All /\ color \in [All -> 0 .. 3] /\ NoGrays \in [Lists -> SUBSET All] /\ Main \in roots
      /\ Main \in All /\ ~Leaf(Main)
  <2>1. ~Leaf(Main) /\ Main \in All
    BY GcAssumption DEF GcInv, GcTypeOK, Leaf, kind, All
  <2> QED
    BY <2>1 DEF GcInv, GcTypeOK, InList, All, NoGrays, Lists
<1>5. \A p \in There : color[p] = White(currentwhite) /\ age[p] = "new"
  BY <1>1 DEF GcInv, SweptIsNew, ToSweep
<1>6. There \subseteq All /\ Main \in There /\ currentwhite \in {0, 1}
  BY DEF There, Existing, All, GcInv, GcTypeOK
<1>7. /\ color' \in [All -> 0 .. 3] /\ grays' \in [Lists -> SUBSET All]
      /\ \A l \in Lists \ {"gray"} : grays'[l] = NoGrays[l]
      /\ \A p \in All :
            \/ ~(p \in roots /\ IsWhite(color, p)) /\ color'[p] = color[p]
            \/ /\ p \in roots /\ IsWhite(color, p)
               /\ \/ Leaf(p) /\ color'[p] = Black
                  \/ ~Leaf(p) /\ color'[p] = Gray /\ p \in grays'["gray"]
  <2> HIDE DEF roots
  <2> QED
    BY <1>1, <1>4, MarkFacts
<1> HIDE DEF roots
<1>8. Marking
  BY <1>1, <1>7 DEF Marking
<1>9. GcTypeOK'
  BY <1>1, <1>3, <1>7 DEF GcInv, GcTypeOK, States
<1>10. Control' /\ InAtomic' /\ BetweenYoung' /\ InYoung' /\ SweptIsNew'
  BY <1>1, <1>2, <1>3 DEF Control, InAtomic, BetweenYoung, InYoung, SweptIsNew, AtomicStates, SweepStates
<1>11. KindsFit' /\ Closed'
  BY <1>1, <1>8, MarkingFacts, MarkingKeepsAlive
<1>12. DeadOnlyInSweep'
  BY <1>1, <1>3, <1>8, MarkingFacts, MarkingKeepsAlive DEF DeadOnlyInSweep
<1>13. AllNewInIncremental'
  BY <1>1, <1>5, <1>8, MarkingFacts DEF AllNewInIncremental
<1>14. Propagating'
  <2>1. Main \in grays'["gray"] /\ ~iswhite(Main)'
    BY <1>4, <1>5, <1>6, <1>7 DEF IsWhite, White, iswhite, Gray
  <2>2. grays'["saved"] \cup grays'["weak"] \cup grays'["allweak"] \cup grays'["ephemeron"] = {}
    BY <1>7 DEF Lists, NoGrays
  <2>3. \A p \in Existing : /\ color'[p] = Gray => p \in grays'["gray"]
                            /\ color'[p] = Black => RefsMarked(p)'
    BY <1>5, <1>6, <1>7, <1>8, MarkingFacts DEF White, Gray, Black, There
  <2> QED
    BY <1>3, <1>8, <2>1, <2>2, <2>3, MarkingFacts DEF Propagating
<1> QED
  BY <1>9, <1>10, <1>11, <1>12, <1>13, <1>14 DEF GcInv

LEMMA AtomicKeeps == GcInv /\ Atomic => GcInv'
PROOF
<1> SUFFICES ASSUME GcInv, Atomic
             PROVE  GcInv'
  OBVIOUS
<1> DEFINE g == [grays EXCEPT !["saved"] = grays["grayagain"], !["grayagain"] = {}]
<1>1. /\ gcstate = "enteratomic" /\ color' = MarkedColor(color, {Main}) /\ grays' = MarkedGrays(color, g, {Main})
      /\ Reach("atomic")
      /\ program' = program /\ gckind' = gckind /\ currentwhite' = currentwhite /\ age' = age
      /\ entries' = entries /\ list' = list /\ sweepgc' = sweepgc
  BY DEF Atomic
<1>2. /\ color \in [All -> 0 .. 3] /\ grays \in [Lists -> SUBSET All] /\ {Main} \in SUBSET All /\ Main \notin Objects
      /\ There = Existing \cup {Main} /\ Existing \subseteq Objects /\ Objects \subseteq All
  BY GcAssumption DEF GcInv, GcTypeOK, All, There, Existing
<1>3. /\ g \in [Lists -> SUBSET All] /\ g["saved"] = grays["grayagain"] /\ g["grayagain"] = {}
      /\ \A l \in Lists \ {"saved", "grayagain"} : g[l] = grays[l]
  BY <1>2 DEF Lists
<1>4. /\ gcstate' = "atomic" /\ goal' \in Goals /\ "atomic" \in States
      /\ goal' \in {<<"young">>, <<"fin">>} => goal' = goal
      /\ goal \in {<<"young">>, <<"fin">>} => goal' = goal
  <2>1. "atomic" \in States
    BY DEF States, AtomicStates
  <2> QED
    BY <1>1, <2>1, ReachFacts DEF GcInv
<1>5. /\ color' \in [All -> 0 .. 3] /\ grays' \in [Lists -> SUBSET All]
      /\ \A l \in Lists : g[l] \subseteq grays'[l] /\ (l # "gray" => grays'[l] = g[l])
      /\ \A p \in All : color'[p] = color[p] \/ color'[p] \in {Black, Gray}
      /\ \A p \in Existing : color'[p] = color[p]
  <2> HIDE DEF g
  <2>1. \A p \in Existing : p \in All /\ p \notin {Main}
    BY <1>2
  <2>2. /\ color' \in [All -> 0 .. 3] /\ grays' \in [Lists -> SUBSET All]
        /\ \A l \in Lists : g[l] \subseteq grays'[l] /\ (l # "gray" => grays'[l] = g[l])
        /\ \A p \in All : \/ color'[p] = color[p]
                          \/ p \in {Main} /\ color'[p] \in {Black, Gray}
    BY <1>1, <1>2, <1>3, MarkFacts
  <2> QED
    BY <2>1, <2>2
<1> HIDE DEF g
<1>6. Marking
  BY <1>1, <1>5 DEF Marking
<1>7. GcTypeOK'
  BY <1>1, <1>4, <1>5 DEF GcInv, GcTypeOK
<1>8. Control' /\ BetweenYoung' /\ SweptIsNew' /\ Propagating'
  BY <1>1, <1>4 DEF GcInv, Control, BetweenYoung, SweptIsNew, Propagating, AtomicStates, SweepStates
<1>9. KindsFit' /\ Closed'
  BY <1>1, <1>6, MarkingFacts, MarkingKeepsAlive
<1>10. DeadOnlyInSweep' /\ AllNewInIncremental'
  BY <1>1, <1>4, <1>6, MarkingFacts, MarkingKeepsAlive DEF GcInv, DeadOnlyInSweep, AllNewInIncremental
<1>11. /\ grays["gray"] \cup grays["grayagain"] \subseteq grays'["gray"] \cup grays'["saved"]
       /\ \A p : Listed(p) => Listed(p)'
  <2>1. \A l \in Lists \ {"grayagain"} : l = "saved" \/ grays[l] \subseteq grays'[l]
    BY <1>3, <1>5
  <2>2. grays["grayagain"] \subseteq grays'["saved"] /\ grays["gray"] \subseteq grays'["gray"]
    BY <1>3, <1>5 DEF Lists
  <2>3. grays["saved"] = {}
    BY <1>1 DEF GcInv, Propagating
  <2> QED
    BY <2>1, <2>2, <2>3 DEF Listed, Lists
<1>12. InAtomic'
  <2>1. ~iswhite(Main)' /\ Main \in grays'["gray"] \cup grays'["saved"]
    BY <1>1, <1>2, <1>6, <1>11, MarkingFacts DEF GcInv, Propagating
  <2>2. ASSUME NEW p \in Existing, ~iswhite(p)'
        PROVE  p \in grays'["gray"] \cup grays'["saved"] \/ Finished(p)'
    <3>1. color[p] \in {Black, Gray}
      BY <1>2, <1>5, <2>2 DEF iswhite, Black, Gray
    <3>2. p \in grays["gray"] \cup grays["grayagain"] \/ RefsMarked(p)
      BY <1>1, <3>1 DEF GcInv, Propagating
    <3>3. RefsMarked(p) => Finished(p)'
      BY <1>2, <1>6, MarkingFacts DEF Finished
    <3> QED
      BY <1>11, <3>2, <3>3
  <2> QED
    BY <1>2, <1>4, <1>6, <2>1, <2>2, MarkingFacts DEF InAtomic
<1>13. InYoung'
  <2>1. \A p \in Existing : Refs(p)' \subseteq Refs(p)
    BY <1>2, <1>6, MarkingFacts
  <2> QED
    BY <1>1, <1>2, <1>4, <1>5, <1>6, <1>11, <2>1, MarkingFacts DEF GcInv, InYoung
<1> QED
  BY <1>7, <1>8, <1>9, <1>10, <1>12, <1>13 DEF GcInv

LEMMA TraverseGrayAgainKeeps == GcInv /\ TraverseGrayAgain => GcInv'
PROOF
<1> SUFFICES ASSUME GcInv, TraverseGrayAgain
             PROVE  GcInv'
  OBVIOUS
<1>1. /\ gcstate = "atomic" /\ grays.gray = {} /\ grays' = [grays EXCEPT !.gray = grays.saved, !.saved = {}]
      /\ Reach("again")
      /\ program' = program /\ gckind' = gckind /\ currentwhite' = currentwhite /\ age' = age /\ color' = color
      /\ entries' = entries /\ list' = list /\ sweepgc' = sweepgc
  BY DEF TraverseGrayAgain
<1>2. grays \in [Lists -> SUBSET All] /\ There \subseteq All
  BY DEF GcInv, GcTypeOK, There, Existing, All
<1>3. /\ grays' \in [Lists -> SUBSET All] /\ grays'["gray"] = grays["saved"] /\ grays'["saved"] = {}
      /\ \A l \in Lists \ {"gray", "saved"} : grays'[l] = grays[l]
  BY <1>1, <1>2 DEF Lists
<1>4. /\ gcstate' = "again" /\ goal' \in Goals /\ "again" \in States
      /\ goal' \in {<<"young">>, <<"fin">>} => goal' = goal
      /\ goal \in {<<"young">>, <<"fin">>} => goal' = goal
  <2>1. "again" \in States
    BY DEF States, AtomicStates
  <2> QED
    BY <1>1, <2>1, ReachFacts DEF GcInv
<1>5. Marking
  BY <1>1 DEF Marking
<1>6. GcTypeOK'
  BY <1>1, <1>3, <1>4 DEF GcInv, GcTypeOK
<1>7. Control' /\ BetweenYoung' /\ SweptIsNew' /\ Propagating'
  BY <1>1, <1>4 DEF GcInv, Control, BetweenYoung, SweptIsNew, Propagating, AtomicStates, SweepStates
<1>8. KindsFit' /\ Closed'
  BY <1>1, <1>5, MarkingFacts, MarkingKeepsAlive
<1>9. DeadOnlyInSweep' /\ AllNewInIncremental'
  BY <1>1, <1>4, <1>5, MarkingFacts, MarkingKeepsAlive DEF GcInv, DeadOnlyInSweep, AllNewInIncremental, AtomicStates
<1>10. \A p : Listed(p) => Listed(p)'
  BY <1>1, <1>3 DEF Listed, Lists
<1>11. InAtomic'
  <2>1. \A p \in There : Finished(p) => Finished(p)'
    BY <1>2, <1>3, <1>5, FinishedStays DEF Lists
  <2>2. \A p : iswhite(p)' <=> iswhite(p)
    BY <1>1 DEF iswhite
  <2>3. /\ ~iswhite(Main)
        /\ \A p \in There : ~iswhite(p) => p \in grays.gray \cup grays.saved \/ Finished(p)
    BY <1>1 DEF GcInv, InAtomic, AtomicStates
  <2> QED
    BY <1>1, <1>3, <1>4, <1>5, <2>1, <2>2, <2>3, MarkingFacts DEF InAtomic
<1>12. InYoung'
  <2>1. \A p \in Existing : Refs(p)' \subseteq Refs(p)
    BY <1>1 DEF Refs
  <2>2. iswhite(Main)' <=> iswhite(Main)
    BY <1>1 DEF iswhite
  <2> QED
    BY <1>1, <1>2, <1>4, <1>5, <1>10, <2>1, <2>2, MarkingFacts DEF GcInv, InYoung
<1> QED
  BY <1>6, <1>7, <1>8, <1>9, <1>11, <1>12 DEF GcInv

(* propagatemark: by a step of the incremental collector, or in the atomic *)
(* phase, where ephemeron tables are traversed again too.                  *)
LEMMA TraverseKeeps ==
    ASSUME GcInv, gcstate \in {"propagate"} \cup (AtomicStates \ {"marked"}),
           NEW from \in {"gray", "ephemeron"},
           gcstate = "propagate" => from = "gray" /\ gckind # "genminor",
           NEW o \in grays[from], Traverse(o, from),
           UNCHANGED <<mode, gcstate, goal, currentwhite, entries, list, sweepgc>>
    PROVE  GcInv'
PROOF
<1>1. /\ program' = program /\ gckind' = gckind /\ gcstate' = gcstate /\ goal' = goal
      /\ currentwhite' = currentwhite /\ entries' = entries /\ list' = list /\ sweepgc' = sweepgc
  BY DEF mode
<1>2. AfterTraversal(o, from)
  BY <1>1, TraverseFacts DEF GcInv
<1>3. /\ color \in [All -> 0 .. 3] /\ grays \in [Lists -> SUBSET All] /\ from \in Lists /\ o \in All
      /\ There = Existing \cup {Main} /\ Existing \subseteq Objects /\ Objects \subseteq All /\ Main \in All
      /\ age \in [All -> Ages]
  BY DEF GcInv, GcTypeOK, All, There, Existing, Lists
<1>4. Marking
  <2>1. color'[o] \in {Black, Gray}
    BY <1>2, <1>3 DEF AfterTraversal, IsWhite, Black, Gray
  <2> QED
    BY <1>1, <1>2, <2>1 DEF Marking, AfterTraversal
<1>5. GcTypeOK'
  BY <1>1, <1>2 DEF GcInv, GcTypeOK, AfterTraversal
<1>6. Control' /\ SweptIsNew'
  BY <1>1 DEF GcInv, Control, SweptIsNew, AtomicStates, SweepStates
<1>7. KindsFit' /\ Closed' /\ DeadOnlyInSweep'
  <2>1. gcstate \notin {"marked", "swpallgc"}
    BY DEF AtomicStates
  <2> QED
    BY <1>1, <1>4, <2>1, MarkingFacts, MarkingKeepsAlive DEF DeadOnlyInSweep
<1>8. AllNewInIncremental'
  <2> SUFFICES ASSUME gckind # "genminor", NEW p \in There, age[p] = "new"
               PROVE  age'[p] = "new"
    BY <1>1, <1>4, MarkingFacts DEF GcInv, AllNewInIncremental
  <2> QED
    BY <1>2, <1>3 DEF AfterTraversal
<1>9. BetweenYoung'
  BY <1>1 DEF BetweenYoung, AtomicStates
<1>10. \A p \in All \ {o} : \A l \in Lists : p \in grays[l] => p \in grays'[l]
  BY <1>2 DEF AfterTraversal
<1>11. \A p \in All \ {o} : Leaf(p) => RefsMarked(p)'
  BY <1>4, MarkingFacts
<1>12. Propagating'
  <2> SUFFICES ASSUME gcstate = "propagate"
               PROVE  Propagating'
    BY <1>1 DEF Propagating, AtomicStates
  <2>1. gckind # "genminor"
    OBVIOUS
  <2>2. /\ grays["saved"] \cup grays["weak"] \cup grays["allweak"] \cup grays["ephemeron"] = {}
        /\ Main \in grays["gray"] \cup grays["grayagain"] /\ ~iswhite(Main)
        /\ \A p \in Existing : color[p] = Gray => p \in grays["gray"] \cup grays["grayagain"]
        /\ \A p \in Existing : color[p] = Black => p \in grays["gray"] \cup grays["grayagain"] \/ RefsMarked(p)
    BY <2>1 DEF GcInv, Propagating
  <2>3. grays'["saved"] \cup grays'["weak"] \cup grays'["allweak"] \cup grays'["ephemeron"] = {}
    BY <1>2, <2>2 DEF AfterTraversal
  <2>4. kind[Main] = "thread"
    BY GcAssumption DEF GcInv, GcTypeOK, kind, All
  <2>5. Main \in grays'["gray"] \cup grays'["grayagain"] /\ ~iswhite(Main)'
    BY <1>2, <1>3, <1>4, <1>10, <2>2, <2>4, MarkingFacts DEF AfterTraversal, Lists
  <2>6. ASSUME NEW p \in Existing
        PROVE  /\ color'[p] = Gray => p \in grays'["gray"] \cup grays'["grayagain"]
               /\ color'[p] = Black => p \in grays'["gray"] \cup grays'["grayagain"] \/ RefsMarked(p)'
    <3>0. p \in All /\ "gray" \in Lists /\ "grayagain" \in Lists
      BY <1>3 DEF Lists
    <3>1. CASE p = o
      BY <1>2, <3>1 DEF AfterTraversal
    <3>2. CASE p # o /\ color'[p] = color[p]
      BY <1>4, <1>10, <2>2, <3>0, <3>2, MarkingFacts
    <3>3. CASE p # o /\ color'[p] # color[p]
      BY <1>2, <1>11, <3>0, <3>3 DEF AfterTraversal, Gray, Black
    <3> QED
      BY <3>1, <3>2, <3>3
  <2> QED
    BY <1>1, <1>4, <2>3, <2>5, <2>6, MarkingFacts DEF Propagating
<1>13. InAtomic'
  <2> SUFFICES ASSUME gcstate \in AtomicStates \ {"marked"}
               PROVE  InAtomic'
    BY <1>1 DEF InAtomic
  <2>1. /\ ~iswhite(Main)
        /\ gcstate # "atomic" => grays["saved"] = {}
        /\ \A p \in There : ~iswhite(p) => p \in grays["gray"] \cup grays["saved"] \/ Finished(p)
        /\ gcstate \in {"resurrect", "converge2"} =>
               \A p \in InList("finobj") \cup InList("tobefnz") : ~iswhite(p)
    BY DEF GcInv, InAtomic
  <2>2. ~iswhite(Main)' /\ grays'["saved"] = grays["saved"]
    BY <1>2, <1>3, <1>4, <2>1, MarkingFacts DEF AfterTraversal
  <2>3. gcstate \in {"resurrect", "converge2"} =>
            \A p \in InList("finobj")' \cup InList("tobefnz")' : ~iswhite(p)'
    BY <1>3, <1>4, <2>1, MarkingFacts DEF InList
  <2>4. ASSUME NEW p \in There, ~iswhite(p)'
        PROVE  p \in grays'["gray"] \cup grays'["saved"] \/ Finished(p)'
    <3>0. p \in All /\ {"gray", "saved", "weak", "allweak", "ephemeron"} \subseteq Lists /\ gcstate # "propagate"
      BY <1>3 DEF Lists, AtomicStates
    <3>1. CASE p = o
      BY <1>2, <3>0, <3>1 DEF AfterTraversal
    <3>2. CASE p # o /\ p \in grays["gray"] \cup grays["saved"]
      BY <1>10, <3>0, <3>2
    <3>3. CASE p # o /\ Finished(p)
      <4>1. grays["weak"] \subseteq grays'["weak"] /\ grays["allweak"] \subseteq grays'["allweak"]
        BY <1>2, <3>0 DEF AfterTraversal
      <4>2. p \in grays["ephemeron"] => p \in grays'["ephemeron"]
        BY <1>10, <3>0, <3>3
      <4>3. grays' \in [Lists -> SUBSET All]
        BY <1>2 DEF AfterTraversal
      <4> QED
        BY <1>4, <3>0, <3>3, <4>1, <4>2, <4>3, FinishedStays
    <3>4. CASE p # o /\ iswhite(p)
      <4>1. \/ Leaf(p)
            \/ p \in grays'["gray"]
        BY <1>2, <2>4, <3>0, <3>4 DEF AfterTraversal, iswhite
      <4> QED
        BY <1>11, <3>0, <3>4, <4>1 DEF Finished
    <3> QED
      BY <2>1, <3>1, <3>2, <3>3, <3>4
  <2> QED
    BY <1>1, <1>4, <2>1, <2>2, <2>3, <2>4, MarkingFacts DEF InAtomic
<1>14. InYoung'
  <2> SUFFICES ASSUME gckind = "genminor", gcstate # "propagate"
               PROVE  InYoung'
    BY <1>1 DEF InYoung
  <2>1. /\ age[Main] = "old" /\ Listed(Main) /\ ~iswhite(Main)
        /\ \A p \in Existing :
               /\ age[p] # "old1"
               /\ age[p] \in {"touched1", "touched2"} => Listed(p)
               /\ color[p] = Gray => Listed(p)
               /\ age[p] \in {"old", "touched2"} => \A q \in Refs(p) : age[q] # "new"
    BY DEF GcInv, InYoung
  <2>2. \A p \in All \ {o} : Listed(p) => Listed(p)'
    BY <1>10 DEF Listed
  <2>3. kind[Main] = "thread" /\ "grayagain" \in Lists /\ "gray" \in Lists
    BY GcAssumption DEF GcInv, GcTypeOK, kind, All, Lists
  <2>4. age'[Main] = "old" /\ Listed(Main)' /\ ~iswhite(Main)'
    BY <1>2, <1>3, <1>4, <2>1, <2>2, <2>3, MarkingFacts DEF AfterTraversal, Listed, isold, Young
  <2>5. \A p \in All : /\ age'[p] = age[p] \/ (age[p] = "touched2" /\ age'[p] = "old")
    BY <1>2 DEF AfterTraversal
  <2>6. ASSUME NEW p \in Existing
        PROVE  /\ age'[p] # "old1"
               /\ age'[p] \in {"touched1", "touched2"} => Listed(p)'
               /\ color'[p] = Gray => Listed(p)'
    <3>0. p \in All
      BY <1>3
    <3>1. CASE p = o
      BY <1>2, <2>1, <3>0, <3>1 DEF AfterTraversal, Listed
    <3>2. CASE p # o
      <4>1. color'[p] # color[p] /\ color'[p] = Gray => p \in grays'["gray"]
        BY <1>2, <3>0, <3>2 DEF AfterTraversal, Gray, Black
      <4>2. p \in grays'["gray"] => Listed(p)'
        BY <2>3 DEF Listed
      <4> QED
        BY <1>2, <2>1, <2>2, <3>0, <3>2, <4>1, <4>2 DEF AfterTraversal
    <3> QED
      BY <3>1, <3>2
  <2>7. ASSUME NEW p \in Existing, age'[p] \in {"old", "touched2"}, NEW q \in Refs(p)'
        PROVE  age'[q] # "new"
    <3>1. Refs(p)' = Refs(p) /\ p \in All /\ p \in There
      BY <1>1, <1>3 DEF Refs
    <3>2. age[p] \in {"old", "touched2"}
      BY <2>5, <2>7, <3>1
    <3>3. q \in All
      <4>1. q \in Refs(p) /\ Refs(p) \subseteq Objects
        BY <2>7, <3>1, TraversedInRefs DEF GcInv
      <4> QED
        BY <1>3, <4>1
    <3> QED
      BY <2>1, <2>5, <3>1, <3>2, <3>3, <2>7
  <2> QED
    BY <1>1, <1>4, <2>4, <2>6, <2>7, MarkingFacts DEF InYoung
<1> QED
  BY <1>5, <1>6, <1>7, <1>8, <1>9, <1>12, <1>13, <1>14 DEF GcInv

LEMMA PropagateMarkKeeps == GcInv /\ PropagateMark => GcInv'
PROOF
<1> SUFFICES ASSUME GcInv, PropagateMark
             PROVE  GcInv'
  OBVIOUS
<1>1. PICK o \in grays.gray : Traverse(o, "gray")
  BY DEF PropagateMark
<1>2. /\ gcstate = "propagate" /\ gckind # "genminor" /\ o \in grays["gray"]
      /\ UNCHANGED <<mode, gcstate, goal, currentwhite, entries, list, sweepgc>>
  BY DEF PropagateMark
<1> QED
  BY <1>1, <1>2, TraverseKeeps

LEMMA PropagateAllKeeps == GcInv /\ PropagateAll => GcInv'
PROOF
<1> SUFFICES ASSUME GcInv, PropagateAll
             PROVE  GcInv'
  OBVIOUS
<1>1. PICK o \in grays.gray : o = CHOOSE p \in grays.gray : TRUE
  BY DEF PropagateAll
<1>2. Traverse(o, "gray")
  BY <1>1 DEF PropagateAll
<1>3. /\ o \in grays["gray"] /\ gcstate \in AtomicStates
      /\ UNCHANGED <<mode, gcstate, goal, currentwhite, entries, list, sweepgc>>
  BY DEF PropagateAll
<1>4. gcstate # "marked" /\ gcstate # "propagate"
  BY DEF PropagateAll, GcInv, DeadOnlyInSweep, AtomicStates
<1> QED
  BY <1>2, <1>3, <1>4, TraverseKeeps

LEMMA ConvergeEphemeronsKeeps == GcInv /\ ConvergeEphemerons => GcInv'
PROOF
<1> SUFFICES ASSUME GcInv, ConvergeEphemerons
             PROVE  GcInv'
  OBVIOUS
<1>1. PICK o \in grays.ephemeron : Traverse(o, "ephemeron")
  BY DEF ConvergeEphemerons
<1>2. /\ gcstate \in {"converge", "converge2"} /\ o \in grays["ephemeron"]
      /\ UNCHANGED <<mode, gcstate, goal, currentwhite, entries, list, sweepgc>>
  BY DEF ConvergeEphemerons
<1>3. gcstate \in AtomicStates \ {"marked"} /\ gcstate # "propagate"
  BY <1>2 DEF AtomicStates
<1> QED
  BY <1>1, <1>2, <1>3, TraverseKeeps

LEMMA SeparateToBeFinalizedKeeps == GcInv /\ SeparateToBeFinalized => GcInv'
PROOF
<1> SUFFICES ASSUME GcInv, SeparateToBeFinalized
             PROVE  GcInv'
  OBVIOUS
<1> DEFINE l == grays.weak \cup grays.allweak
           fin == {o \in InList("finobj") : iswhite(o)}
           m == StringsIn(l, 2) \cup fin \cup InList("tobefnz")
<1>1. /\ gcstate = "converge" /\ grays.gray = {} /\ Reach("resurrect")
      /\ entries' = ClearedBy(l, 2)
      /\ list' = [o \in Objects |-> IF o \in fin THEN "tobefnz" ELSE list[o]]
      /\ color' = MarkedColor(color, m) /\ grays' = MarkedGrays(color, grays, m)
      /\ program' = program /\ gckind' = gckind /\ currentwhite' = currentwhite /\ age' = age /\ sweepgc' = sweepgc
  BY DEF SeparateToBeFinalized, Mark
<1>2. /\ color \in [All -> 0 .. 3] /\ grays \in [Lists -> SUBSET All] /\ Main \in All
      /\ list \in [Objects -> {"free", "allgc", "finobj", "tobefnz"}]
      /\ There = Existing \cup {Main} /\ Existing \subseteq Objects /\ Objects \subseteq All
      /\ entries \in [All -> SUBSET ((Objects \cup {NoObject}) \X Objects)]
  BY DEF GcInv, GcTypeOK, All, There, Existing
<1>3. m \in SUBSET All
  <2>1. l \subseteq All
    BY <1>2 DEF Lists
  <2>2. \A o \in l : \A e \in entries[o] : e[2] \in Objects
    BY <1>2, <2>1
  <2>3. StringsIn(l, 2) \subseteq Objects
    <3> HIDE DEF l
    <3> QED
      BY <2>2 DEF StringsIn, Strings
  <2> QED
    BY <1>2, <2>3 DEF InList
<1>4. /\ color' \in [All -> 0 .. 3] /\ grays' \in [Lists -> SUBSET All]
      /\ \A k \in Lists : grays[k] \subseteq grays'[k] /\ (k # "gray" => grays'[k] = grays[k])
      /\ \A p \in All :
            \/ ~(p \in m /\ IsWhite(color, p)) /\ color'[p] = color[p]
            \/ /\ p \in m /\ IsWhite(color, p)
               /\ \/ Leaf(p) /\ color'[p] = Black
                  \/ ~Leaf(p) /\ color'[p] = Gray /\ p \in grays'["gray"]
  <2> HIDE DEF m
  <2> QED
    BY <1>1, <1>2, <1>3, MarkFacts
<1>5. \A o \in Objects : \/ o \notin fin /\ list'[o] = list[o]
                         \/ o \in fin /\ list[o] = "finobj" /\ list'[o] = "tobefnz"
  BY <1>1 DEF InList
<1>6. \A p \in All : entries'[p] \subseteq entries[p]
  BY <1>1 DEF ClearedBy
<1>7. InList("tobefnz")' = InList("tobefnz") \cup fin /\ InList("finobj")' = InList("finobj") \ fin
  BY <1>5 DEF InList
<1>8. InList("tobefnz") \cup fin \subseteq m
  OBVIOUS
<1>9. InList("finobj") \ fin \subseteq {o \in Objects : ~iswhite(o)}
  BY DEF InList
<1>10. entries' \in [All -> SUBSET ((Objects \cup {NoObject}) \X Objects)]
  <2>1. \A p \in All : ClearedBy(l, 2)[p] \subseteq entries[p] /\ entries[p] \in SUBSET ((Objects \cup {NoObject}) \X Objects)
    BY <1>1, <1>2, <1>6
  <2>2. ClearedBy(l, 2) = [p \in All |-> ClearedBy(l, 2)[p]]
    BY DEF ClearedBy
  <2> QED
    BY <1>1, <2>1, <2>2
<1>11. list' \in [Objects -> {"free", "allgc", "finobj", "tobefnz"}]
  BY <1>1, <1>2
<1> HIDE DEF l, fin, m
<1>12. Marking
  BY <1>1, <1>4, <1>5, <1>6 DEF Marking
<1>13. /\ gcstate' = "resurrect" /\ goal' \in Goals /\ "resurrect" \in States
       /\ goal' \in {<<"young">>, <<"fin">>} => goal' = goal
       /\ goal \in {<<"young">>, <<"fin">>} => goal' = goal
  <2>1. "resurrect" \in States
    BY DEF States, AtomicStates
  <2> QED
    BY <1>1, <2>1, ReachFacts DEF GcInv
<1>14. GcTypeOK'
  BY <1>1, <1>4, <1>10, <1>11, <1>13 DEF GcInv, GcTypeOK
<1>15. Control' /\ BetweenYoung' /\ SweptIsNew' /\ Propagating'
  BY <1>1, <1>13 DEF GcInv, Control, BetweenYoung, SweptIsNew, Propagating, AtomicStates, SweepStates
<1>16. KindsFit' /\ Closed' /\ DeadOnlyInSweep' /\ AllNewInIncremental'
  BY <1>1, <1>12, <1>13, MarkingFacts, MarkingKeepsAlive DEF GcInv, DeadOnlyInSweep, AllNewInIncremental, AtomicStates
<1>17. InAtomic'
  <2>1. /\ ~iswhite(Main) /\ grays["saved"] = {} /\ grays["gray"] = {}
        /\ \A p \in There : ~iswhite(p) => Finished(p)
    BY <1>1 DEF GcInv, InAtomic, AtomicStates
  <2>2. ASSUME NEW p \in There, ~iswhite(p)'
        PROVE  p \in grays'["gray"] \/ Finished(p)'
    <3>0. p \in All /\ {"weak", "allweak", "ephemeron"} \subseteq Lists
      BY <1>2 DEF Lists
    <3>1. CASE iswhite(p)
      BY <1>4, <1>12, <2>2, <3>0, <3>1, MarkingFacts DEF iswhite, Finished
    <3>2. CASE ~iswhite(p)
      <4>1. Finished(p)
        BY <2>1, <3>2
      <4>2. grays["weak"] \subseteq grays'["weak"] /\ grays["allweak"] \subseteq grays'["allweak"]
            /\ grays["ephemeron"] \subseteq grays'["ephemeron"]
        BY <1>4, <3>0
      <4> QED
        BY <1>4, <1>12, <3>0, <4>1, <4>2, FinishedStays
    <3> QED
      BY <3>1, <3>2
  <2>3. ASSUME NEW p \in InList("finobj")' \cup InList("tobefnz")'
        PROVE  ~iswhite(p)'
    <3>1. p \in m \/ (p \in Objects /\ ~iswhite(p))
      BY <1>7, <1>8, <1>9
    <3>2. p \in All
      BY <1>2, <1>3, <3>1
    <3> QED
      BY <1>4, <1>12, <3>1, <3>2, MarkingFacts DEF iswhite, IsWhite, Gray, Black
  <2>4. ~iswhite(Main)' /\ grays'["saved"] = {}
    BY <1>2, <1>4, <1>12, <2>1, MarkingFacts DEF Lists
  <2> QED
    BY <1>12, <1>13, <2>2, <2>3, <2>4, MarkingFacts DEF InAtomic
<1>18. InYoung'
  <2>1. \A p : Listed(p) => Listed(p)'
    BY <1>4 DEF Listed
  <2>2. \A p \in Existing : color'[p] = Gray => color[p] = Gray \/ Listed(p)'
    BY <1>2, <1>4 DEF Listed, Lists, Gray, Black
  <2>3. \A p \in Existing : Refs(p)' \subseteq Refs(p)
    BY <1>2, <1>12, MarkingFacts
  <2>4. ~iswhite(Main) => ~iswhite(Main)'
    BY <1>2, <1>12, MarkingFacts
  <2> QED
    BY <1>1, <1>12, <1>13, <2>1, <2>2, <2>3, <2>4, MarkingFacts DEF GcInv, InYoung
<1> QED
  BY <1>14, <1>15, <1>16, <1>17, <1>18 DEF GcInv

(* What is marked at the end refers, once the weak tables are cleared, to  *)
(* nothing white.                                                          *)
LEMMA ClearWeakFacts ==
    ASSUME GcInv, gcstate = "converge2", grays.gray = {}, ~Converging, ClearWeak, program' = program,
           UNCHANGED <<list, grays>>
    PROVE  /\ Marking
           /\ color' \in [All -> 0 .. 3]
           /\ entries' \in [All -> SUBSET ((Objects \cup {NoObject}) \X Objects)]
           /\ \A p \in There : color'[p] = Gray => color[p] = Gray
           /\ \A p \in There : ~iswhite(p)' => RefsMarked(p)'
PROOF
<1> DEFINE byKey == grays.ephemeron \cup grays.allweak
           byValue == grays.weak \cup grays.allweak
           m == StringsIn(byKey, 1) \cup StringsIn(byValue, 2)
           kept(e, o) == (o \in byKey => ~Cleared(color, e[1])) /\ (o \in byValue => ~Cleared(color, e[2]))
<1>1. /\ color \in [All -> 0 .. 3] /\ grays \in [Lists -> SUBSET All]
      /\ There = Existing \cup {Main} /\ There \subseteq All /\ NoObject \notin All
      /\ entries \in [All -> SUBSET ((Objects \cup {NoObject}) \X Objects)]
  BY GcAssumption DEF GcInv, GcTypeOK, All, There, Existing
<1>2. \A o \in All : \A e \in entries[o] : e[1] \in All \cup {NoObject} /\ e[2] \in All
  BY <1>1 DEF All
<1>3. \A p \in m : kind[p] = "string" /\ p \in All
  <2>1. byKey \subseteq All /\ byValue \subseteq All
    BY <1>1 DEF Lists
  <2> HIDE DEF byKey, byValue
  <2> QED
    BY <1>2, <2>1 DEF StringsIn, Strings
<1>4. m \in SUBSET All
  BY <1>3
<1>5. color' = MarkedColor(color, m) /\ entries' = [o \in All |-> {e \in entries[o] : kept(e, o)}]
  BY DEF ClearWeak
<1>6. /\ color' \in [All -> 0 .. 3]
      /\ \A p \in All : \/ ~(p \in m /\ IsWhite(color, p)) /\ color'[p] = color[p]
                        \/ p \in m /\ IsWhite(color, p) /\ Leaf(p) /\ color'[p] = Black
  <2> HIDE DEF m
  <2>1. \A p \in m : Leaf(p)
    BY <1>3 DEF Leaf
  <2> QED
    BY <1>1, <1>4, <1>5, <2>1, MarkFacts
<1>7. \A p \in All : entries'[p] \subseteq entries[p] /\ \A e \in entries'[p] : kept(e, p)
  BY <1>5
<1>8. entries' \in [All -> SUBSET ((Objects \cup {NoObject}) \X Objects)]
  <2>1. \A p \in All : {e \in entries[p] : kept(e, p)} \subseteq entries[p] /\ entries[p] \in SUBSET ((Objects \cup {NoObject}) \X Objects)
    BY <1>1
  <2> HIDE DEF kept
  <2> QED
    BY <1>5, <2>1
<1>9. Marking
  <2> HIDE DEF m
  <2> QED
    BY <1>6, <1>7 DEF Marking
<1>10. \A p \in There : color'[p] = Gray => color[p] = Gray
  <2> HIDE DEF m
  <2> QED
    BY <1>1, <1>6 DEF Gray, Black
<1>11. \A p \in m : ~iswhite(p)'
  <2> HIDE DEF m
  <2> QED
    BY <1>3, <1>6 DEF iswhite, IsWhite, Black
<1>12. ASSUME NEW p \in There, ~iswhite(p)
       PROVE  RefsMarked(p)'
  <2>0. p \in All /\ kind' = kind
    BY <1>1, <1>9, MarkingFacts
  <2>1. Finished(p)
    BY <1>12 DEF GcInv, InAtomic, AtomicStates
  <2>2. \A q \in All : ~iswhite(q) => ~iswhite(q)'
    BY <1>9, MarkingFacts
  <2>3. CASE RefsMarked(p)
    BY <1>9, <2>0, <2>3, MarkingFacts
  <2>4. p \in byKey => \A e \in entries'[p] : e[1] = NoObject \/ ~iswhite(e[1])'
    <3> SUFFICES ASSUME p \in byKey, NEW e \in entries'[p], e[1] # NoObject
                 PROVE  ~iswhite(e[1])'
      OBVIOUS
    <3>1. e \in entries[p] /\ e[1] \in All
      BY <1>2, <1>7, <2>0
    <3>2. ~IsWhite(color, e[1]) \/ kind[e[1]] = "string"
      BY <1>7, <2>0 DEF Cleared
    <3>3. kind[e[1]] = "string" => e[1] \in m
      BY <3>1 DEF StringsIn, Strings
    <3> QED
      BY <1>11, <2>2, <3>1, <3>2, <3>3 DEF iswhite, IsWhite
  <2>5. p \in byValue => \A e \in entries'[p] : ~iswhite(e[2])'
    <3> SUFFICES ASSUME p \in byValue, NEW e \in entries'[p]
                 PROVE  ~iswhite(e[2])'
      OBVIOUS
    <3>1. e \in entries[p] /\ e[2] \in All /\ e[2] # NoObject
      BY <1>1, <1>2, <1>7, <2>0
    <3>2. ~IsWhite(color, e[2]) \/ kind[e[2]] = "string"
      BY <1>7, <2>0, <3>1 DEF Cleared
    <3>3. kind[e[2]] = "string" => e[2] \in m
      BY <3>1 DEF StringsIn, Strings
    <3> QED
      BY <1>11, <2>2, <3>1, <3>2, <3>3 DEF iswhite, IsWhite
  <2>6. p \in byKey \/ ~RefsMarked(p) => \A e \in entries'[p] : e[1] = NoObject \/ ~iswhite(e[1])'
    <3>1. CASE p \in byKey
      BY <2>4, <3>1
    <3>2. CASE kind[p] = "weakvalue" /\ \A e \in entries[p] : e[1] = NoObject \/ ~iswhite(e[1])
      BY <1>2, <1>7, <2>0, <2>2, <3>2
    <3> QED
      BY <2>1, <3>1, <3>2 DEF Finished
  <2>7. ~RefsMarked(p) => \A e \in entries'[p] : ~iswhite(e[2])'
    <3>1. CASE p \in byValue
      BY <2>5, <3>1
    <3>2. CASE kind[p] = "ephemeron" /\ p \in grays.ephemeron
      <4> SUFFICES ASSUME NEW e \in entries'[p]
                   PROVE  ~iswhite(e[2])'
        OBVIOUS
      <4>1. e \in entries[p] /\ e[2] \in All /\ e[2] # NoObject
        BY <1>1, <1>2, <1>7, <2>0
      <4>2. ~Cleared(color, e[1])
        BY <1>7, <2>0, <3>2
      <4>3. e[2] \in Traversed(color, p)
        BY <3>2, <4>1, <4>2 DEF Traversed
      <4>4. ~iswhite(e[2])
        BY <3>2, <4>3 DEF Converging, Marks
      <4> QED
        BY <2>2, <4>1, <4>4
    <3> QED
      BY <2>1, <3>1, <3>2 DEF Finished
  <2>8. CASE ~RefsMarked(p)
    <3>1. \A e \in entries'[p] : ~iswhite(e[2])' /\ (e[1] = NoObject \/ ~iswhite(e[1])')
      BY <2>6, <2>7, <2>8
    <3> QED
      BY <3>1 DEF RefsMarked, Refs, Ends
  <2> QED
    BY <2>3, <2>8
<1>13. ASSUME NEW p \in There, iswhite(p), ~iswhite(p)'
       PROVE  RefsMarked(p)'
  <2>1. Leaf(p) /\ p \in All
    <3> HIDE DEF m
    <3> QED
      BY <1>1, <1>6, <1>13 DEF iswhite
  <2> QED
    BY <1>9, <2>1, MarkingFacts
<1> QED
  BY <1>6, <1>8, <1>9, <1>10, <1>12, <1>13

LEMMA EndAtomicKeeps == GcInv /\ EndAtomic => GcInv'
PROOF
<1> SUFFICES ASSUME GcInv, EndAtomic
             PROVE  GcInv'
  OBVIOUS
<1>1. /\ gcstate = "converge2" /\ grays.gray = {} /\ ~Converging /\ ClearWeak /\ Reach("marked")
      /\ currentwhite' = otherwhite
      /\ program' = program /\ gckind' = gckind /\ age' = age /\ list' = list /\ grays' = grays /\ sweepgc' = sweepgc
  BY DEF EndAtomic
<1>2. /\ Marking
      /\ color' \in [All -> 0 .. 3]
      /\ entries' \in [All -> SUBSET ((Objects \cup {NoObject}) \X Objects)]
      /\ \A p \in There : color'[p] = Gray => color[p] = Gray
      /\ \A p \in There : ~iswhite(p)' => RefsMarked(p)'
  BY <1>1, ClearWeakFacts
<1>3. /\ gcstate' = "marked" /\ goal' \in Goals /\ "marked" \in States
      /\ goal' \in {<<"young">>, <<"fin">>} => goal' = goal
      /\ goal \in {<<"young">>, <<"fin">>} => goal' = goal
  <2>1. "marked" \in States
    BY DEF States, AtomicStates
  <2> QED
    BY <1>1, <2>1, ReachFacts DEF GcInv
<1>4. currentwhite \in {0, 1} /\ currentwhite' \in {0, 1} /\ otherwhite' = currentwhite /\ There \subseteq All
      /\ There = Existing \cup {Main} /\ Existing \subseteq Objects
  BY <1>1 DEF GcInv, GcTypeOK, otherwhite, There, Existing, All
<1>5. GcTypeOK'
  BY <1>1, <1>2, <1>3, <1>4 DEF GcInv, GcTypeOK
<1>6. Control' /\ BetweenYoung' /\ SweptIsNew' /\ Propagating' /\ InAtomic'
  BY <1>1, <1>3 DEF GcInv, Control, BetweenYoung, SweptIsNew, Propagating, InAtomic, AtomicStates, SweepStates
<1>7. KindsFit' /\ AllNewInIncremental'
  BY <1>1, <1>2, <1>3, MarkingFacts DEF GcInv, AllNewInIncremental, AtomicStates
<1>8. \A p \in There : ~Dead(p) /\ Refs(p) \subseteq Existing
  BY <1>1 DEF GcInv, DeadOnlyInSweep, Closed, Alive
<1>9. \A p \in There : Dead(p)' <=> iswhite(p)'
  <2> SUFFICES ASSUME NEW p \in There
               PROVE  Dead(p)' <=> iswhite(p)'
    OBVIOUS
  <2>1. color[p] # White(otherwhite)
    BY <1>8 DEF Dead
  <2>2. color'[p] = color[p] \/ color'[p] \in {Black, Gray}
    BY <1>2, <1>4 DEF Marking
  <2>3. Dead(p)' <=> color'[p] = currentwhite
    BY <1>4 DEF Dead, White
  <2>4. iswhite(p)' <=> color'[p] \in {0, 1}
    BY DEF iswhite
  <2>5. color'[p] \in {0, 1} <=> color'[p] = currentwhite
    BY <1>4, <2>1, <2>2 DEF White, Black, Gray, otherwhite
  <2> QED
    BY <2>3, <2>4, <2>5
<1>10. Alive' = {p \in Existing : ~iswhite(p)'}
  BY <1>2, <1>4, <1>9, MarkingFacts DEF Alive
<1>11. /\ ~iswhite(Main)
       /\ \A p \in InList("finobj") \cup InList("tobefnz") : ~iswhite(p)
  BY <1>1 DEF GcInv, InAtomic, AtomicStates
<1>12. Closed'
  <2>1. InList("finobj")' \cup InList("tobefnz")' \subseteq Alive'
    <3>1. InList("finobj") \cup InList("tobefnz") \subseteq Existing
      BY DEF InList, Existing
    <3> QED
      BY <1>2, <1>4, <1>10, <1>11, <3>1, MarkingFacts
  <2>2. ~Dead(Main)'
    BY <1>2, <1>4, <1>9, <1>11, MarkingFacts
  <2>3. ASSUME NEW p \in There, ~Dead(p)'
        PROVE  Refs(p)' \subseteq Alive'
    <3>1. RefsMarked(p)' /\ Refs(p)' \subseteq Existing
      BY <1>2, <1>4, <1>8, <1>9, <2>3, MarkingFacts
    <3> QED
      BY <1>10, <3>1 DEF RefsMarked
  <2> QED
    BY <1>2, <2>1, <2>2, <2>3, MarkingFacts DEF Closed
<1>13. DeadOnlyInSweep'
  <2>1. grays'.gray \cup grays'.saved = {}
    BY <1>1 DEF GcInv, InAtomic, AtomicStates
  <2>2. \A p \in Existing : color'[p] # White(otherwhite)
    <3> SUFFICES ASSUME NEW p \in Existing
                 PROVE  color'[p] # White(otherwhite)
      OBVIOUS
    <3>1. color[p] # White(otherwhite) /\ p \in All
      BY <1>4, <1>8 DEF Dead
    <3> QED
      BY <1>2, <1>4, <3>1 DEF Marking, White, Black, Gray, otherwhite
  <2> QED
    BY <1>1, <1>2, <1>3, <2>1, <2>2, MarkingFacts DEF DeadOnlyInSweep
<1>14. InYoung'
  <2>1. \A p : Listed(p)' <=> Listed(p)
    BY <1>1 DEF Listed
  <2>2. \A p \in Existing : Refs(p)' \subseteq Refs(p)
    BY <1>2, <1>4, MarkingFacts
  <2>3. ~iswhite(Main) => ~iswhite(Main)'
    BY <1>2, <1>4, MarkingFacts
  <2> QED
    BY <1>1, <1>2, <1>3, <1>4, <2>1, <2>2, <2>3, MarkingFacts DEF GcInv, InYoung
<1> QED
  BY <1>5, <1>6, <1>7, <1>12, <1>13, <1>14 DEF GcInv

-----------------------------------------------------------------------------
(* Steps that free, or call finalizers. *)

(* Only dead objects are freed: what is alive refers to nothing that goes. *)
Freeing(dead) ==
    /\ program' = program
    /\ list' = [o \in Objects |-> IF o \in dead THEN "free" ELSE list[o]]
    /\ entries' = [o \in All |-> IF o \in dead THEN {} ELSE entries[o]]

LEMMA FreeingFacts ==
    ASSUME GcInv, NEW dead \in SUBSET Objects, \A o \in dead : Dead(o), Freeing(dead)
    PROVE  /\ kind' = kind
           /\ Existing' = Existing \ dead /\ There' = There \ dead /\ There' = Existing' \cup {Main}
           /\ Existing \subseteq Objects /\ There \subseteq All /\ Main \notin dead /\ Main \notin Objects
           /\ Alive \subseteq Existing'
           /\ InList("finobj")' = InList("finobj") /\ InList("tobefnz")' = InList("tobefnz")
           /\ \A p : Leaf(p)' <=> Leaf(p)
           /\ \A p \in There' : Refs(p)' = Refs(p)
           /\ KindsFit'
           /\ entries' \in [All -> SUBSET ((Objects \cup {NoObject}) \X Objects)]
           /\ list' \in [Objects -> {"free", "allgc", "finobj", "tobefnz"}]
PROOF
<1>1. /\ entries \in [All -> SUBSET ((Objects \cup {NoObject}) \X Objects)]
      /\ list \in [Objects -> {"free", "allgc", "finobj", "tobefnz"}]
      /\ Main \notin Objects /\ Main \notin dead
  BY GcAssumption DEF GcInv, GcTypeOK
<1>2. kind' = kind /\ \A p : Leaf(p)' <=> Leaf(p)
  BY DEF Freeing, kind, Leaf
<1>3. Existing' = Existing \ dead
  BY DEF Freeing, Existing
<1>4. There' = There \ dead /\ There' = Existing' \cup {Main}
  BY <1>1, <1>3 DEF There
<1>5. Existing \subseteq Objects /\ There \subseteq All
  BY DEF Existing, There, All
<1>6. Alive \subseteq Existing'
  BY <1>3 DEF Alive
<1>7. InList("finobj") \cap dead = {} /\ InList("tobefnz") \cap dead = {}
  BY DEF GcInv, Closed, Alive
<1>8. InList("finobj")' = InList("finobj") /\ InList("tobefnz")' = InList("tobefnz")
  <2>1. ASSUME NEW l \in {"finobj", "tobefnz"}, NEW o \in Objects
        PROVE  list'[o] = l <=> list[o] = l
    <3>1. list[o] = l => o \notin dead
      BY <1>7, <2>1 DEF InList
    <3> QED
      BY <2>1, <3>1 DEF Freeing
  <2> QED
    BY <2>1 DEF InList
<1>9. \A p \in There' : Refs(p)' = Refs(p)
  BY <1>4, <1>5 DEF Freeing, Refs
<1>10. KindsFit'
  BY <1>2 DEF Freeing, All, GcInv, KindsFit
<1>11. entries' \in [All -> SUBSET ((Objects \cup {NoObject}) \X Objects)]
  BY <1>1 DEF Freeing
<1>12. list' \in [Objects -> {"free", "allgc", "finobj", "tobefnz"}]
  BY <1>1 DEF Freeing
<1> QED
  BY <1>1, <1>2, <1>3, <1>4, <1>5, <1>6, <1>8, <1>9, <1>10, <1>11, <1>12

(* If in addition no more objects are dead than before, what is alive      *)
(* still refers to nothing dead.                                           *)
LEMMA FreeingKeepsClosed ==
    ASSUME GcInv, NEW dead \in SUBSET Objects, \A o \in dead : Dead(o), Freeing(dead),
           \A p \in There \ dead : Dead(p)' <=> Dead(p)
    PROVE  Closed'
PROOF
<1>1. Alive \subseteq Alive'
  BY FreeingFacts DEF Alive, There
<1>2. \A p \in There' : ~Dead(p)' => ~Dead(p) /\ p \in There
  BY FreeingFacts
<1>3. ~Dead(Main)'
  BY FreeingFacts DEF GcInv, Closed, There
<1> QED
  BY <1>1, <1>2, <1>3, FreeingFacts DEF GcInv, Closed

LEMMA SweepListKeeps == GcInv /\ SweepList => GcInv'
PROOF
<1> SUFFICES ASSUME GcInv, SweepList
             PROVE  GcInv'
  OBVIOUS
<1>1. gcstate \in SweepStates
      /\ program' = program /\ gckind' = gckind /\ gcstate' = gcstate /\ goal' = goal /\ currentwhite' = currentwhite
  BY DEF SweepList, mode
<1>2. PICK s \in SUBSET sweepgc :
         /\ list' = [o \in Objects |-> IF o \in Swept(s) THEN "free" ELSE list[o]]
         /\ entries' = [o \in All |-> IF o \in Swept(s) THEN {} ELSE entries[o]]
         /\ color' = [o \in All |-> IF o \in s THEN White(IF o \in Swept(s) THEN 0 ELSE currentwhite) ELSE color[o]]
         /\ age' = [o \in All |-> IF o \in s THEN "new" ELSE age[o]]
         /\ grays' = Without(grays, s)
         /\ sweepgc' = sweepgc \ s
  BY DEF SweepList
<1>3. /\ color \in [All -> 0 .. 3] /\ age \in [All -> Ages] /\ grays \in [Lists -> SUBSET All]
      /\ currentwhite \in {0, 1} /\ sweepgc \subseteq All /\ s \subseteq All /\ "new" \in Ages
  BY <1>2 DEF GcInv, GcTypeOK, Ages
<1>4. PICK dead : dead = Swept(s)
  OBVIOUS
<1>5. dead \in SUBSET Objects /\ (\A o \in dead : Dead(o)) /\ \A o \in s \ dead : ~Dead(o)
  <2>1. (\A o \in dead : Dead(o)) /\ \A o \in s \ dead : ~Dead(o)
    BY <1>4 DEF Swept, Dead
  <2>2. dead \subseteq All
    BY <1>3, <1>4 DEF Swept
  <2> QED
    BY <2>1, <2>2 DEF GcInv, Closed, All
<1>6. Freeing(dead)
  BY <1>1, <1>2, <1>4 DEF Freeing
<1>7. \A p \in There \ dead : /\ p \in s => color'[p] = White(currentwhite) /\ age'[p] = "new"
                              /\ p \notin s => color'[p] = color[p] /\ age'[p] = age[p]
  BY <1>2, <1>4, <1>5, <1>6, FreeingFacts
<1>8. \A p \in There \ dead : Dead(p)' <=> Dead(p)
  <2>1. otherwhite' = otherwhite /\ White(currentwhite) # White(otherwhite)
    BY <1>1, <1>3 DEF otherwhite, White
  <2> QED
    BY <1>5, <1>7, <2>1 DEF Dead
<1>9. \A p \in There \ dead : p \in s => ~Dead(p)
  BY <1>5
<1>10. GcTypeOK'
  <2>1. color' \in [All -> 0 .. 3]
    BY <1>2, <1>3 DEF White
  <2>2. age' \in [All -> Ages]
    BY <1>2, <1>3
  <2>3. grays' \in [Lists -> SUBSET All]
    BY <1>2, <1>3 DEF Without
  <2> QED
    BY <1>1, <1>2, <1>3, <1>5, <1>6, <2>1, <2>2, <2>3, FreeingFacts DEF GcInv, GcTypeOK
<1>11. Control' /\ AllNewInIncremental' /\ Propagating' /\ InAtomic' /\ BetweenYoung' /\ InYoung'
  BY <1>1 DEF GcInv, Control, AllNewInIncremental, Propagating, InAtomic, BetweenYoung, InYoung, AtomicStates, SweepStates
<1>12. KindsFit' /\ Closed'
  BY <1>5, <1>6, <1>8, FreeingFacts, FreeingKeepsClosed
<1>13. DeadOnlyInSweep'
  <2>1. gcstate # "marked" /\ gcstate' # "marked"
    BY <1>1 DEF SweepStates
  <2>2. \A p \in There' : p \in There \ dead
    BY <1>5, <1>6, FreeingFacts
  <2> QED
    BY <1>1, <1>2, <1>8, <1>9, <2>1, <2>2 DEF GcInv, DeadOnlyInSweep
<1>14. SweptIsNew'
  <2>1. \A p \in There' : p \in There \ dead
    BY <1>5, <1>6, FreeingFacts
  <2>2. InList("finobj")' = InList("finobj") /\ InList("tobefnz")' = InList("tobefnz")
    BY <1>5, <1>6, FreeingFacts
  <2>3. \A p : p \notin s /\ p \notin ToSweep' => p \notin ToSweep
    BY <1>1, <1>2, <2>2 DEF ToSweep
  <2>4. ASSUME NEW p \in There', p \notin ToSweep'
        PROVE  color'[p] = White(currentwhite) /\ age'[p] = "new"
    <3>1. CASE p \in s
      BY <1>7, <2>1, <3>1
    <3>2. CASE p \notin s
      BY <1>1, <1>7, <2>1, <2>3, <2>4, <3>2 DEF GcInv, SweptIsNew
    <3> QED
      BY <3>1, <3>2
  <2> QED
    BY <1>1, <1>2, <2>2, <2>4 DEF GcInv, SweptIsNew
<1> QED
  BY <1>10, <1>11, <1>12, <1>13, <1>14 DEF GcInv

LEMMA CallFinalizerKeeps == \A o \in Objects : GcInv /\ CallFinalizer(o) => GcInv'
PROOF
<1> SUFFICES ASSUME NEW o \in Objects, GcInv, CallFinalizer(o)
             PROVE  GcInv'
  OBVIOUS
<1>1. /\ o \in InList("tobefnz") /\ list' = [list EXCEPT ![o] = "allgc"]
      /\ gcstate = "callfin" \/ goal = <<"fin">>
      /\ \/ entries' = entries
         \/ entries' = [entries EXCEPT ![Main] = @ \cup {<<NoObject, o>>}]
      /\ program' = program /\ gckind' = gckind /\ gcstate' = gcstate /\ goal' = goal /\ currentwhite' = currentwhite
      /\ color' = color /\ age' = age /\ grays' = grays /\ sweepgc' = sweepgc
  BY DEF CallFinalizer, mode, heap
<1>2. gcstate = "callfin" \/ (gcstate = "propagate" /\ gckind = "genminor")
  BY <1>1 DEF GcInv, Control, AtomicStates
<1>3. /\ list \in [Objects -> {"free", "allgc", "finobj", "tobefnz"}] /\ Existing \subseteq Objects
      /\ entries \in [All -> SUBSET ((Objects \cup {NoObject}) \X Objects)]
      /\ Main \notin Objects /\ Main \in All /\ There = Existing \cup {Main} /\ Objects \subseteq All
  BY GcAssumption DEF GcInv, GcTypeOK, Existing, There, All
<1>4. /\ kind' = kind /\ There' = There /\ Existing' = Existing
      /\ InList("finobj")' = InList("finobj") /\ InList("tobefnz")' = InList("tobefnz") \ {o}
      /\ \A p : /\ Leaf(p)' <=> Leaf(p)
                /\ iswhite(p)' <=> iswhite(p)
                /\ Dead(p)' <=> Dead(p)
  BY <1>1, <1>3 DEF kind, There, Existing, InList, Leaf, iswhite, Dead, otherwhite
<1>5. Alive' = Alive /\ o \in Alive
  BY <1>1, <1>4 DEF Alive, GcInv, Closed
<1>6. /\ entries' \in [All -> SUBSET ((Objects \cup {NoObject}) \X Objects)]
      /\ \A p \in Objects : entries'[p] = entries[p]
      /\ Refs(Main)' \subseteq Alive
  <2>1. CASE entries' = entries
    BY <1>3, <2>1 DEF GcInv, Closed, Refs
  <2>2. CASE entries' = [entries EXCEPT ![Main] = @ \cup {<<NoObject, o>>}]
    BY <1>5, <2>2, PushKeepsClosed
  <2> QED
    BY <1>1, <2>1, <2>2
<1>7. \A p \in Objects : /\ Refs(p)' = Refs(p)
                         /\ OlderRefs(p)' <=> OlderRefs(p)
  <2>1. \A p \in Objects : Refs(p)' = Refs(p)
    BY <1>6 DEF Refs
  <2> QED
    BY <1>1, <2>1 DEF OlderRefs
<1>8. GcTypeOK'
  <2>1. list' \in [Objects -> {"free", "allgc", "finobj", "tobefnz"}]
    BY <1>1, <1>3
  <2> QED
    BY <1>1, <1>6, <2>1 DEF GcInv, GcTypeOK
<1>9. KindsFit' /\ Closed'
  <2>1. KindsFit'
    <3>1. list[o] # "free"
      BY <1>1 DEF InList
    <3> QED
      BY <1>1, <1>3, <1>4, <1>6, <3>1 DEF GcInv, KindsFit
  <2>2. Closed'
    BY <1>3, <1>4, <1>5, <1>6, <1>7 DEF GcInv, Closed
  <2> QED
    BY <2>1, <2>2
<1>10. Control' /\ DeadOnlyInSweep'
  BY <1>1, <1>2, <1>4 DEF GcInv, Control, DeadOnlyInSweep
<1>11. SweptIsNew' /\ AllNewInIncremental' /\ InAtomic' /\ InYoung'
  <2>1. gcstate = "callfin" => ToSweep = {} /\ ToSweep' = {}
    BY <1>1 DEF ToSweep
  <2>2. SweptIsNew'
    BY <1>1, <1>2, <1>4, <2>1 DEF GcInv, SweptIsNew, SweepStates
  <2>3. AllNewInIncremental'
    BY <1>1, <1>2 DEF AllNewInIncremental, AtomicStates
  <2>4. InAtomic'
    BY <1>1, <1>2 DEF InAtomic, AtomicStates
  <2>5. InYoung'
    <3>1. gcstate = "callfin" => gckind # "genminor"
      BY DEF GcInv, Control, AtomicStates
    <3> QED
      BY <1>1, <1>2, <3>1 DEF InYoung
  <2> QED
    BY <2>2, <2>3, <2>4, <2>5
<1>12. Propagating' /\ BetweenYoung'
  BY <1>1, <1>2, <1>3, <1>4, <1>7 DEF GcInv, Propagating, BetweenYoung
<1> QED
  BY <1>8, <1>9, <1>10, <1>11, <1>12 DEF GcInv

LEMMA Atomic2GenKeeps == GcInv /\ Atomic2Gen => GcInv'
PROOF
<1> SUFFICES ASSUME GcInv, Atomic2Gen
             PROVE  GcInv'
  OBVIOUS
<1>1. PICK dead : dead = {o \in Existing : iswhite(o)}
  OBVIOUS
<1> DEFINE c == [o \in All |-> IF o \in dead THEN White(0) ELSE IF o = Main THEN Gray ELSE Black]
           a == [o \in All |-> IF o \in dead \/ o \in InList("free") THEN "new" ELSE "old"]
           g == [NoGrays EXCEPT !.grayagain = {Main}]
<1>2. /\ gcstate = "marked" /\ goal \in {<<"gen">>, <<>>}
      /\ FreeObjects(dead) /\ FinishGenCycle(c, a, g)
      /\ gckind' = "genminor" /\ program' = program /\ currentwhite' = currentwhite
  BY <1>1 DEF Atomic2Gen
<1>3. /\ color \in [All -> 0 .. 3] /\ currentwhite \in {0, 1} /\ Main \in All /\ Main \notin Objects
      /\ sweepgc \subseteq All
  BY GcAssumption DEF GcInv, GcTypeOK, All
<1>4. dead \in SUBSET Objects /\ (\A o \in dead : Dead(o)) /\ \A o \in Existing \ dead : ~Dead(o)
  <2>1. \A o \in Existing : o \in Objects /\ o \in All
    BY DEF Existing, All
  <2>2. ASSUME NEW o \in Existing
        PROVE  Dead(o) <=> iswhite(o)
    <3>1. color[o] # White(currentwhite)
      BY <1>2 DEF GcInv, DeadOnlyInSweep
    <3>2. color[o] \in 0 .. 3
      BY <1>3, <2>1
    <3> QED
      BY <1>3, <3>1, <3>2 DEF Dead, iswhite, White, otherwhite
  <2> QED
    BY <1>1, <2>1, <2>2
<1>5. Freeing(dead)
  BY <1>2 DEF Freeing, FreeObjects
<1>6. c[Main] = Gray /\ a[Main] = "old" /\ Main \notin dead
  BY <1>3, <1>4 DEF InList
<1>7. Grayish(g) = {Main}
  BY DEF Grayish, NoGrays
<1>8. /\ \A o \in Existing' : color'[o] = Black /\ age'[o] = "old"
      /\ color'[Main] = Gray /\ age'[Main] = "old"
      /\ color' \in [All -> 0 .. 3] /\ age' \in [All -> Ages]
      /\ grays' = [NoGrays EXCEPT !.grayagain = {Main}]
      /\ gcstate' = "propagate" /\ goal' \in {<<>>, <<"fin">>}
  <2> DEFINE in == {o \in Grayish(g) : ~IsWhite(c, o)}
             touched == {o \in in : a[o] = "touched1"}
             thread == {o \in in \ touched : kind[o] = "thread"}
  <2>1. in = {Main} /\ touched = {} /\ thread = {Main}
    <3>1. kind[Main] = "thread"
      BY GcAssumption, <1>3 DEF GcInv, GcTypeOK, kind
    <3> HIDE DEF c, a, g
    <3> QED
      BY <1>6, <1>7, <3>1 DEF IsWhite, Gray
  <2>2. /\ color' = [o \in All |-> IF o \in in \ thread THEN Black ELSE c[o]]
        /\ age' = [o \in All |-> IF o \in touched THEN "touched2"
                                 ELSE IF o \in in /\ a[o] = "touched2" THEN "old" ELSE a[o]]
        /\ grays' = [NoGrays EXCEPT !.grayagain = touched \cup thread]
        /\ gcstate' = "propagate"
        /\ goal' \in {<<>>, <<"fin">>}
    BY <1>2 DEF FinishGenCycle
  <2> HIDE DEF in, touched, thread
  <2>3. color' = [o \in All |-> c[o]] /\ age' = [o \in All |-> a[o]]
    BY <1>6, <2>1, <2>2
  <2>4. \A o \in Existing' : o \in All /\ o \notin dead /\ o \notin InList("free") /\ o # Main
    BY <1>3, <1>4, <1>5, FreeingFacts DEF InList, All, Existing
  <2>5. color' \in [All -> 0 .. 3] /\ age' \in [All -> Ages]
    BY <2>3 DEF White, Gray, Black, Ages
  <2> QED
    BY <1>3, <1>6, <2>1, <2>2, <2>3, <2>4, <2>5
<1> HIDE DEF c, a, g
<1>9. /\ grays' \in [Lists -> SUBSET All] /\ grays'["grayagain"] = {Main}
      /\ \A l \in Lists \ {"grayagain"} : grays'[l] = {}
  BY <1>3, <1>8 DEF NoGrays, Lists
<1>10. \A o \in There \ dead : ~Dead(o)' /\ ~Dead(o)
  <2>1. \A o \in There \ dead : color'[o] \in {Black, Gray}
    BY <1>4, <1>5, <1>8, FreeingFacts
  <2>2. \A o \in There \ dead : ~Dead(o)
    BY <1>4 DEF There, GcInv, Closed
  <2> QED
    BY <1>2, <1>3, <2>1, <2>2 DEF Dead, Gray, Black, White, otherwhite
<1>11. GcTypeOK'
  <2>1. sweepgc' \subseteq All
    BY <1>2, <1>3 DEF FreeObjects
  <2>2. goal' \in Goals /\ gcstate' \in States
    BY <1>8 DEF Goals, States
  <2> QED
    BY <1>2, <1>4, <1>5, <1>8, <1>9, <2>1, <2>2, FreeingFacts DEF GcInv, GcTypeOK
<1>12. Control' /\ SweptIsNew' /\ AllNewInIncremental' /\ InAtomic' /\ InYoung'
  BY <1>2, <1>8 DEF Control, SweptIsNew, AllNewInIncremental, InAtomic, InYoung, AtomicStates, SweepStates
<1>13. KindsFit' /\ Closed'
  BY <1>4, <1>5, <1>10, FreeingFacts, FreeingKeepsClosed
<1>14. DeadOnlyInSweep'
  BY <1>4, <1>5, <1>8, <1>10, FreeingFacts DEF DeadOnlyInSweep
<1>15. Propagating'
  BY <1>2, <1>8, <1>9 DEF Propagating, Lists, iswhite, Gray, Black
<1>16. BetweenYoung'
  <2>1. \A p \in Existing' : Refs(p)' \subseteq Existing'
    <3>1. \A p \in Existing' : p \in There' /\ p \in There \ dead
      BY <1>4, <1>5, FreeingFacts
    <3>2. \A p \in Existing' : Refs(p)' \subseteq Alive
      BY <1>4, <1>5, <1>10, <3>1, FreeingFacts DEF GcInv, Closed
    <3> QED
      BY <1>4, <1>5, <3>2, FreeingFacts
  <2>2. \A p \in Existing' : OlderRefs(p)'
    BY <1>8, <2>1 DEF OlderRefs, Young
  <2>3. \A p \in Existing' : ~iswhite(p)' /\ age'[p] \notin Young
    BY <1>8 DEF iswhite, Black, Young
  <2> QED
    BY <1>8, <2>2, <2>3 DEF BetweenYoung, Black, Gray
<1> QED
  BY <1>11, <1>12, <1>13, <1>14, <1>15, <1>16 DEF GcInv

LEMMA YoungCollectionKeeps == GcInv /\ YoungCollection => GcInv'
PROOF
<1> SUFFICES ASSUME GcInv, YoungCollection
             PROVE  GcInv'
  OBVIOUS
<1> DEFINE m == {o \in Existing : age[o] = "old1"}
           b == {o \in m : color[o] = Black /\ ~Leaf(o)}
<1>1. /\ gckind = "genminor" /\ ProgramRuns
      /\ age' = [o \in All |-> IF o \in m THEN "old" ELSE age[o]]
      /\ color' = [o \in All |-> IF o \in b THEN Gray ELSE color[o]]
      /\ grays' = [grays EXCEPT !.gray = @ \cup b]
      /\ gcstate' = "enteratomic" /\ goal' = <<"young">>
      /\ program' = program /\ gckind' = gckind /\ currentwhite' = currentwhite
      /\ entries' = entries /\ list' = list /\ sweepgc' = sweepgc
  BY DEF YoungCollection, mode
<1>2. gcstate = "propagate"
  BY <1>1, ProgramFacts
<1>3. /\ color \in [All -> 0 .. 3] /\ age \in [All -> Ages] /\ grays \in [Lists -> SUBSET All]
      /\ Main \in All /\ Main \notin Objects /\ Existing \subseteq Objects /\ Objects \subseteq All
      /\ There = Existing \cup {Main}
  BY GcAssumption DEF GcInv, GcTypeOK, All, Existing, There
<1>4. m \subseteq Existing /\ b \subseteq m
  OBVIOUS
<1>5. /\ grays' \in [Lists -> SUBSET All] /\ grays'["gray"] = grays["gray"] \cup b
      /\ \A l \in Lists \ {"gray"} : grays'[l] = grays[l]
  BY <1>1, <1>3, <1>4 DEF Lists
<1>6. /\ \A p \in All : color'[p] = color[p] \/ (p \in b /\ color'[p] = Gray)
      /\ \A p \in All : p \in b => color'[p] = Gray
      /\ \A p \in All : (p \in m /\ age'[p] = "old") \/ (p \notin m /\ age'[p] = age[p])
      /\ color' \in [All -> 0 .. 3] /\ age' \in [All -> Ages]
  BY <1>1, <1>3 DEF Gray, Ages
<1>7. /\ \A p \in Existing : age[p] = "old1" <=> p \in m
      /\ \A p \in m : color[p] = Black => p \in b \/ Leaf(p)
  OBVIOUS
<1> HIDE DEF m, b
<1>8. Marking
  BY <1>1, <1>6 DEF Marking
<1>9. GcTypeOK'
  BY <1>1, <1>5, <1>6 DEF GcInv, GcTypeOK, States, Goals
<1>10. Control' /\ SweptIsNew' /\ AllNewInIncremental' /\ InAtomic' /\ BetweenYoung'
  BY <1>1 DEF Control, SweptIsNew, AllNewInIncremental, InAtomic, BetweenYoung, AtomicStates, SweepStates
<1>11. KindsFit' /\ Closed' /\ DeadOnlyInSweep'
  BY <1>1, <1>2, <1>8, MarkingFacts, MarkingKeepsAlive DEF DeadOnlyInSweep
<1>12. /\ age[Main] = "old"
       /\ \A p \in Existing :
             /\ iswhite(p) <=> age[p] \in Young
             /\ age[p] \in {"touched1", "touched2"} => p \in grays["grayagain"]
             /\ age[p] = "old0" => p \in grays["gray"] \/ Leaf(p)
             /\ color[p] = Gray => age[p] \in {"old0", "touched1"}
             /\ OlderRefs(p)
  BY <1>1, <1>2 DEF GcInv, BetweenYoung
<1>13. /\ grays["saved"] \cup grays["weak"] \cup grays["allweak"] \cup grays["ephemeron"] = {}
       /\ Main \in grays["gray"] \cup grays["grayagain"] /\ ~iswhite(Main)
       /\ \A p \in Existing : color[p] = Gray => p \in grays["gray"] \cup grays["grayagain"]
  BY <1>2 DEF GcInv, Propagating
<1>14. \A p \in There : Refs(p) \subseteq Existing /\ Refs(p)' = Refs(p)
  BY <1>1, <1>2, <1>8, MarkingKeepsAlive DEF Refs
<1>15. \A p \in Existing : color'[p] = Gray => p \in grays'["gray"] \cup grays'["grayagain"]
  BY <1>3, <1>5, <1>6, <1>13 DEF Lists
<1>16. Propagating'
  <2>1. grays'["saved"] \cup grays'["weak"] \cup grays'["allweak"] \cup grays'["ephemeron"] = {}
    BY <1>5, <1>13 DEF Lists
  <2>2. Main \in grays'["gray"] \cup grays'["grayagain"] /\ ~iswhite(Main)'
    BY <1>3, <1>5, <1>8, <1>13, MarkingFacts DEF Lists
  <2>3. ASSUME NEW p \in Existing, color'[p] = Black
        PROVE  p \in grays'["gray"] \cup grays'["grayagain"] \/ RefsMarked(p)'
    <3>0. p \in All /\ p \in There /\ grays["gray"] \subseteq grays'["gray"] /\ grays'["grayagain"] = grays["grayagain"]
      BY <1>3, <1>5 DEF Lists
    <3>1. color[p] = Black /\ p \notin b
      BY <1>6, <2>3, <3>0 DEF Gray, Black
    <3>2. CASE Leaf(p)
      BY <1>8, <3>0, <3>2, MarkingFacts
    <3>3. CASE age[p] = "old"
      <4>1. \A q \in Refs(p) : ~iswhite(q)
        BY <1>12, <1>14, <3>0, <3>3 DEF OlderRefs
      <4> QED
        BY <1>8, <3>0, <4>1, MarkingFacts DEF RefsMarked
    <3>4. CASE age[p] # "old" /\ ~Leaf(p)
      <4>1. age[p] \notin Young
        BY <1>12, <3>1 DEF iswhite, Black
      <4>2. age[p] # "old1"
        BY <1>7, <3>1, <3>4
      <4>3. age[p] \in {"old0", "touched1", "touched2"}
        BY <1>3, <3>0, <3>4, <4>1, <4>2 DEF Ages, Young
      <4> QED
        BY <1>12, <3>0, <3>4, <4>3
    <3> QED
      BY <3>2, <3>3, <3>4
  <2> QED
    BY <1>1, <1>8, <1>15, <2>1, <2>2, <2>3, MarkingFacts DEF Propagating
<1>17. InYoung'
  <2>1. \A p : p \in grays'["gray"] \cup grays'["grayagain"] => Listed(p)'
    BY DEF Listed, Lists
  <2>2. age'[Main] = "old" /\ Listed(Main)' /\ ~iswhite(Main)'
    BY <1>3, <1>4, <1>5, <1>6, <1>8, <1>12, <1>13, <2>1, MarkingFacts DEF Lists
  <2>3. ASSUME NEW p \in Existing
        PROVE  /\ age'[p] # "old1"
               /\ age'[p] \in {"touched1", "touched2"} => Listed(p)'
               /\ color'[p] = Gray => Listed(p)'
    <3>1. p \in All /\ grays'["grayagain"] = grays["grayagain"]
      BY <1>3, <1>5 DEF Lists
    <3> QED
      BY <1>6, <1>7, <1>12, <1>15, <2>1, <3>1
  <2>4. ASSUME NEW p \in Existing, age'[p] \in {"old", "touched2"}, NEW q \in Refs(p)'
        PROVE  age'[q] # "new"
    <3>1. q \in Refs(p) /\ p \in All /\ q \in All /\ q \in Existing
      BY <1>3, <1>14, <2>4
    <3>2. age[p] \in {"old", "old1", "touched2"}
      BY <1>6, <1>7, <2>4, <3>1
    <3>3. age[q] # "new"
      BY <1>12, <3>1, <3>2 DEF OlderRefs, Young
    <3> QED
      BY <1>6, <3>1, <3>3
  <2> QED
    BY <1>1, <1>8, <2>2, <2>3, <2>4, MarkingFacts DEF InYoung
<1> QED
  BY <1>9, <1>10, <1>11, <1>16, <1>17 DEF GcInv

LEMMA SweepYoungKeeps == GcInv /\ SweepYoung => GcInv'
PROOF
<1> SUFFICES ASSUME GcInv, SweepYoung
             PROVE  GcInv'
  OBVIOUS
<1>1. PICK dead : dead = {o \in Existing : iswhite(o)}
  OBVIOUS
<1> DEFINE c == [o \in All |-> IF o \in dead THEN White(0) ELSE IF age[o] = "new" THEN currentwhite ELSE color[o]]
           a == [o \in All |-> IF o \in dead \/ o \in InList("free") THEN "new" ELSE NextAge(age[o])]
<1>2. /\ gcstate = "marked" /\ goal = <<"young">> /\ program' = program /\ currentwhite' = currentwhite
      /\ \/ /\ gckind' = "genmajor"
            /\ color' = c /\ age' = a /\ grays' = Without(grays, dead)
            /\ list' = [o \in Objects |-> IF o \in dead THEN "free" ELSE list[o]]
            /\ entries' = [o \in All |-> IF o \in dead THEN {} ELSE entries[o]]
            /\ sweepgc' = (InList("allgc") \ dead) \cup {Main}
            /\ gcstate' = "swpallgc" /\ goal' = <<>>
         \/ /\ gckind' = gckind
            /\ FreeObjects(dead)
            /\ FinishGenCycle(c, a, Without(grays, dead))
  BY <1>1 DEF SweepYoung
<1>3. gckind = "genminor"
  BY <1>2 DEF GcInv, Control
<1>4. /\ color \in [All -> 0 .. 3] /\ age \in [All -> Ages] /\ grays \in [Lists -> SUBSET All]
      /\ currentwhite \in {0, 1} /\ Main \in All /\ Main \notin Objects
      /\ sweepgc \subseteq All /\ Existing \subseteq Objects /\ Objects \subseteq All
  BY GcAssumption DEF GcInv, GcTypeOK, All, Existing
<1>5. dead \in SUBSET Objects /\ (\A o \in dead : Dead(o)) /\ \A o \in Existing \ dead : ~Dead(o) /\ ~iswhite(o)
  <2>1. ASSUME NEW o \in Existing
        PROVE  Dead(o) <=> iswhite(o)
    <3>1. color[o] # White(currentwhite)
      BY <1>2 DEF GcInv, DeadOnlyInSweep
    <3>2. color[o] \in 0 .. 3
      BY <1>4
    <3> QED
      BY <1>4, <3>1, <3>2 DEF Dead, iswhite, White, otherwhite
  <2> QED
    BY <1>1, <1>4, <2>1
<1>6. Freeing(dead)
  BY <1>2 DEF Freeing, FreeObjects
<1>7. /\ c \in [All -> 0 .. 3] /\ a \in [All -> Ages]
      /\ \A p \in Existing \ dead : /\ a[p] = NextAge(age[p])
                                    /\ c[p] = IF age[p] = "new" THEN currentwhite ELSE color[p]
  <2>1. \A p \in All : NextAge(age[p]) \in Ages
    BY <1>4 DEF NextAge, Ages
  <2>2. "new" \in Ages
    BY DEF Ages
  <2>3. \A p \in Existing \ dead : p \notin InList("free") /\ p \in All
    BY <1>4 DEF Existing, InList
  <2> QED
    BY <1>4, <2>1, <2>2, <2>3 DEF White
<1>8. /\ age[Main] = "old" /\ Listed(Main) /\ ~iswhite(Main)
      /\ grays.gray \cup grays.saved = {}
      /\ \A p \in Existing :
             /\ age[p] # "old1"
             /\ age[p] \in {"touched1", "touched2"} => Listed(p)
             /\ color[p] = Gray => Listed(p)
             /\ age[p] \in {"old", "touched2"} => \A q \in Refs(p) : age[q] # "new"
  BY <1>2, <1>3 DEF GcInv, InYoung, DeadOnlyInSweep
<1>9. a[Main] = "old" /\ c[Main] = color[Main] /\ Main \notin dead /\ ~IsWhite(c, Main)
  <2>1. Main \notin dead /\ Main \notin InList("free")
    BY <1>4, <1>5 DEF InList
  <2> QED
    BY <1>4, <1>8, <2>1 DEF NextAge, iswhite, IsWhite
<1>10. \A p \in There' : p \in There \ dead /\ (p \in Existing' => p \in Existing \ dead) /\ p \in All
  BY <1>5, <1>6, FreeingFacts
<1>11. Without(grays, dead) \in [Lists -> SUBSET All] /\ \A l \in Lists : Without(grays, dead)[l] = grays[l] \ dead
  BY <1>4 DEF Without
<1> HIDE DEF c, a
<1>12. \A p \in There' : Refs(p)' = Refs(p) /\ Refs(p) \subseteq Alive /\ Alive \subseteq Existing'
  <2>1. \A p \in There \ dead : ~Dead(p)
    BY <1>5 DEF There, GcInv, Closed
  <2> QED
    BY <1>5, <1>6, <1>10, <2>1, FreeingFacts DEF GcInv, Closed
<1>13. CASE gckind' = "genmajor"
  <2>1. /\ color' = c /\ age' = a /\ grays' = Without(grays, dead)
        /\ sweepgc' = (InList("allgc") \ dead) \cup {Main}
        /\ gcstate' = "swpallgc" /\ goal' = <<>>
    BY <1>2, <1>3, <1>13
  <2>2. \A p \in There \ dead : ~Dead(p)' /\ ~Dead(p)
    <3>1. \A p \in There \ dead : ~Dead(p)
      BY <1>5 DEF There, GcInv, Closed
    <3>2. \A p \in There \ dead : c[p] = color[p] \/ c[p] = currentwhite
      BY <1>7, <1>9 DEF There
    <3>3. currentwhite # White(otherwhite) /\ otherwhite' = otherwhite
      BY <1>2, <1>4 DEF White, otherwhite
    <3> QED
      BY <2>1, <3>1, <3>2, <3>3 DEF Dead
  <2>3. GcTypeOK'
    <3>1. sweepgc' \subseteq All
      BY <1>4, <2>1 DEF InList
    <3>2. goal' \in Goals /\ gcstate' \in States
      BY <2>1 DEF Goals, States, SweepStates
    <3> QED
      BY <1>2, <1>5, <1>6, <1>7, <1>11, <1>13, <2>1, <3>1, <3>2, FreeingFacts DEF GcInv, GcTypeOK
  <2>4. Control' /\ AllNewInIncremental' /\ Propagating' /\ InAtomic' /\ BetweenYoung' /\ InYoung'
    BY <1>13, <2>1 DEF Control, AllNewInIncremental, Propagating, InAtomic, BetweenYoung, InYoung, AtomicStates
  <2>5. KindsFit' /\ Closed'
    BY <1>5, <1>6, <2>2, FreeingFacts, FreeingKeepsClosed
  <2>6. DeadOnlyInSweep'
    BY <1>10, <2>1, <2>2 DEF DeadOnlyInSweep
  <2>7. SweptIsNew'
    <3>1. ToSweep' = (InList("allgc") \ dead) \cup {Main} \cup InList("finobj") \cup InList("tobefnz")
      BY <1>5, <1>6, <2>1, FreeingFacts DEF ToSweep
    <3>2. Existing \subseteq InList("allgc") \cup InList("finobj") \cup InList("tobefnz")
      BY DEF GcInv, GcTypeOK, Existing, InList
    <3> QED
      BY <1>10, <2>1, <3>1, <3>2 DEF SweptIsNew, There
  <2> QED
    BY <2>3, <2>4, <2>5, <2>6, <2>7 DEF GcInv
<1>14. CASE gckind' # "genmajor"
  <2> DEFINE g == Without(grays, dead)
             in == {o \in Grayish(g) : ~IsWhite(c, o)}
             touched == {o \in in : a[o] = "touched1"}
             thread == {o \in in \ touched : kind[o] = "thread"}
  <2>1. /\ color' = [o \in All |-> IF o \in in \ thread THEN Black ELSE c[o]]
        /\ age' = [o \in All |-> IF o \in touched THEN "touched2"
                                 ELSE IF o \in in /\ a[o] = "touched2" THEN "old" ELSE a[o]]
        /\ grays' = [NoGrays EXCEPT !.grayagain = touched \cup thread]
        /\ gcstate' = "propagate" /\ goal' \in {<<>>, <<"fin">>}
        /\ gckind' = "genminor" /\ FreeObjects(dead)
    BY <1>2, <1>3, <1>14 DEF FinishGenCycle
  <2>2. \A p \in All : p \in in <=> (Listed(p) /\ p \notin dead /\ ~IsWhite(c, p))
    <3>1. \A p : p \in Grayish(g) <=> (Listed(p) /\ p \notin dead)
      BY <1>8, <1>11 DEF Grayish, Listed, Lists
    <3> HIDE DEF g
    <3> QED
      BY <3>1
  <2>3. in \subseteq All /\ touched \cup thread \subseteq All
    BY <1>11 DEF Grayish, Lists
  <2>4. \A p \in touched : p \in in /\ a[p] = "touched1"
    OBVIOUS
  <2>5. \A p \in in : a[p] = "touched1" => p \in touched
    OBVIOUS
  <2>6. \A p \in thread : p \in in /\ p \notin touched /\ kind[p] = "thread"
    OBVIOUS
  <2>7. \A p \in in : p \notin touched /\ kind[p] = "thread" => p \in thread
    OBVIOUS
  <2> HIDE DEF g, in, touched, thread
  <2>8. \A o \in All : kind[o] = "thread" <=> o = Main
    BY GcAssumption DEF GcInv, GcTypeOK, kind
  <2>9. /\ color' \in [All -> 0 .. 3] /\ age' \in [All -> Ages]
        /\ grays' \in [Lists -> SUBSET All] /\ grays'["grayagain"] = touched \cup thread
        /\ \A l \in Lists \ {"grayagain"} : grays'[l] = {}
    <3>1. color' \in [All -> 0 .. 3]
      BY <1>7, <2>1 DEF Black
    <3>2. age' \in [All -> Ages]
      BY <1>7, <2>1 DEF Ages
    <3> QED
      BY <2>1, <2>3, <3>1, <3>2 DEF NoGrays, Lists
  <2>10. /\ age'[Main] = "old" /\ Main \in grays'["grayagain"] /\ ~iswhite(Main)' /\ color'[Main] = color[Main]
    <3>1. Main \in in /\ Main \in thread /\ Main \notin touched
      BY <1>4, <1>8, <1>9, <2>2, <2>4, <2>7, <2>8
    <3> QED
      BY <1>4, <1>8, <1>9, <2>1, <2>9, <3>1 DEF iswhite
  <2>11. ASSUME NEW p \in Existing'
         PROVE  /\ p \in Existing \ dead /\ p \in All /\ ~iswhite(p)
                /\ age[p] = "new" => color'[p] = currentwhite /\ age'[p] = "survival"
                /\ age[p] # "new" => color'[p] \in {Black, color[p]} /\ color'[p] = Black
                /\ age[p] \in {"survival", "old0"} => age'[p] = "old1"
                /\ age[p] \in {"old", "touched2"} => age'[p] = "old"
                /\ age[p] = "touched1" => age'[p] = "touched2" /\ p \in grays'["grayagain"]
    <3>1. p \in Existing \ dead /\ p \in All /\ ~iswhite(p) /\ p # Main /\ kind[p] # "thread"
      <4>1. p \in Existing \ dead
        BY <1>5, <1>6, <2>11, FreeingFacts
      <4> QED
        BY <1>4, <1>5, <2>8, <4>1
    <3>2. a[p] = NextAge(age[p]) /\ c[p] = (IF age[p] = "new" THEN currentwhite ELSE color[p])
      BY <1>7, <3>1
    <3>3. color[p] \in {Black, Gray}
      BY <1>4, <3>1 DEF iswhite, Black, Gray
    <3>4. /\ color'[p] = IF p \in in \ thread THEN Black ELSE c[p]
          /\ age'[p] = IF p \in touched THEN "touched2"
                       ELSE IF p \in in /\ a[p] = "touched2" THEN "old" ELSE a[p]
      BY <2>1, <3>1
    <3>5. p \notin thread
      BY <2>6, <3>1
    <3>6. age[p] # "new" => ~IsWhite(c, p)
      BY <3>1, <3>2 DEF IsWhite, iswhite
    <3>7. age[p] = "new" => p \notin in
      BY <1>4, <2>2, <3>1, <3>2 DEF IsWhite
    <3>8. age[p] # "new" => color'[p] = Black
      <4>1. color[p] = Gray /\ age[p] # "new" => p \in in
        BY <1>8, <2>2, <3>1, <3>6
      <4> QED
        BY <3>2, <3>3, <3>4, <3>5, <4>1
    <3>9. age[p] = "new" => color'[p] = currentwhite /\ age'[p] = "survival"
      BY <2>4, <3>2, <3>4, <3>7 DEF NextAge
    <3>10. age[p] \in {"survival", "old0"} => age'[p] = "old1"
      BY <2>4, <3>2, <3>4 DEF NextAge
    <3>11. age[p] \in {"touched1", "touched2"} => p \in in
      BY <1>8, <2>2, <3>1, <3>6
    <3>12. age[p] \in {"old", "touched2"} => age'[p] = "old"
      BY <2>4, <3>2, <3>4, <3>11 DEF NextAge
    <3>13. age[p] = "touched1" => age'[p] = "touched2" /\ p \in grays'["grayagain"]
      BY <2>5, <2>9, <3>2, <3>4, <3>11 DEF NextAge
    <3> QED
      BY <3>1, <3>8, <3>9, <3>10, <3>12, <3>13
  <2>12. \A p \in Existing' : age[p] \in {"new", "survival", "old0", "old", "touched1", "touched2"}
    BY <1>4, <1>8, <2>11 DEF Ages
  <2>13. \A p \in Existing' : /\ iswhite(p)' <=> age'[p] \in Young
                              /\ age'[p] \in {"touched1", "touched2"} => p \in grays'["grayagain"]
                              /\ age'[p] # "old0" /\ age'[p] # "new" /\ color'[p] # Gray
                              /\ age'[p] \in Young <=> age[p] = "new"
    <3> SUFFICES ASSUME NEW p \in Existing'
                 PROVE  /\ iswhite(p)' <=> age'[p] \in Young
                        /\ age'[p] \in {"touched1", "touched2"} => p \in grays'["grayagain"]
                        /\ age'[p] # "old0" /\ age'[p] # "new" /\ color'[p] # Gray
                        /\ age'[p] \in Young <=> age[p] = "new"
      OBVIOUS
    <3>1. CASE age[p] = "new"
      BY <1>4, <2>11, <3>1 DEF iswhite, Young, Gray
    <3>2. CASE age[p] # "new"
      <4>1. ~iswhite(p)' /\ color'[p] # Gray
        BY <2>11, <3>2 DEF iswhite, Black, Gray
      <4>2. age'[p] \in {"old1", "old", "touched2"}
        BY <2>11, <2>12, <3>2
      <4>3. age'[p] = "touched2" => p \in grays'["grayagain"]
        BY <2>11, <2>12, <3>2
      <4> QED
        BY <3>2, <4>1, <4>2, <4>3 DEF Young
    <3> QED
      BY <3>1, <3>2
  <2>14. \A p \in There \ dead : ~Dead(p)' /\ ~Dead(p)
    <3>1. \A p \in There \ dead : ~Dead(p)
      BY <1>5 DEF There, GcInv, Closed
    <3>2. currentwhite # White(otherwhite) /\ otherwhite' = otherwhite /\ Black # White(otherwhite)
      BY <1>2, <1>4 DEF White, otherwhite, Black
    <3>3. ASSUME NEW p \in There \ dead
          PROVE  color'[p] # White(otherwhite)
      <4>1. CASE p = Main
        BY <2>10, <3>1, <4>1 DEF Dead
      <4>2. CASE p \in Existing
        <5>1. p \in Existing'
          BY <1>5, <1>6, <4>2, FreeingFacts
        <5> QED
          BY <2>11, <3>2, <5>1
      <4> QED
        BY <4>1, <4>2 DEF There
    <3> QED
      BY <3>1, <3>2, <3>3 DEF Dead
  <2>15. GcTypeOK'
    <3>1. sweepgc' \subseteq All
      BY <1>4, <2>1 DEF FreeObjects
    <3>2. goal' \in Goals /\ gcstate' \in States
      BY <2>1 DEF Goals, States
    <3> QED
      BY <1>2, <1>5, <1>6, <2>1, <2>9, <3>1, <3>2, FreeingFacts DEF GcInv, GcTypeOK
  <2>16. Control' /\ SweptIsNew' /\ AllNewInIncremental' /\ InAtomic' /\ InYoung'
    BY <2>1 DEF Control, SweptIsNew, AllNewInIncremental, InAtomic, InYoung, AtomicStates, SweepStates
  <2>17. KindsFit' /\ Closed'
    BY <1>5, <1>6, <2>14, FreeingFacts, FreeingKeepsClosed
  <2>18. DeadOnlyInSweep'
    BY <1>10, <2>1, <2>14 DEF DeadOnlyInSweep
  <2>19. Propagating'
    BY <2>1, <2>9, <2>10, <2>13 DEF Propagating, Lists
  <2>20. BetweenYoung'
    <3>1. ASSUME NEW p \in Existing'
          PROVE  OlderRefs(p)'
      <4>1. Refs(p)' = Refs(p) /\ Refs(p) \subseteq Existing'
        BY <1>5, <1>6, <1>12, <3>1, FreeingFacts
      <4>2. age'[p] = "old" => age[p] \in {"old", "touched2"}
        BY <2>11, <2>12
      <4>3. age[p] \in {"old", "touched2"} => \A q \in Refs(p) : age[q] # "new"
        BY <1>8, <2>11
      <4> QED
        BY <2>13, <4>1, <4>2, <4>3 DEF OlderRefs
    <3> QED
      BY <2>10, <2>13, <3>1 DEF BetweenYoung
  <2> QED
    BY <2>15, <2>16, <2>17, <2>18, <2>19, <2>20 DEF GcInv
<1> QED
  BY <1>13, <1>14

LEMMA InitInv == GcInit => GcInv
PROOF
<1> SUFFICES ASSUME GcInit
             PROVE  GcInv
  OBVIOUS
<1>1. Existing = {} /\ \A l \in {"allgc", "finobj", "tobefnz"} : InList(l) = {}
  BY DEF GcInit, Existing, InList
<1>2. There = {Main} /\ Main \in All
  BY <1>1 DEF There, All
<1>3. Refs(Main) = {} /\ ~Dead(Main) /\ Alive = {}
  BY <1>1, <1>2 DEF GcInit, Refs, Ends, Dead, White, otherwhite, Alive
<1>4. GcTypeOK
  BY DEF GcInit, GcTypeOK, States, Goals, White, Ages, NoGrays, Lists
<1>5. KindsFit
  BY <1>2 DEF GcInit, KindsFit, All
<1>6. Control /\ Propagating /\ InAtomic /\ BetweenYoung /\ InYoung /\ AllNewInIncremental
  BY DEF GcInit, Control, Propagating, InAtomic, BetweenYoung, InYoung, AllNewInIncremental, AtomicStates
<1>7. Closed /\ DeadOnlyInSweep
  BY <1>1, <1>2, <1>3 DEF GcInit, Closed, DeadOnlyInSweep
<1>8. SweptIsNew
  BY <1>2 DEF GcInit, SweptIsNew
<1> QED
  BY <1>4, <1>5, <1>6, <1>7, <1>8 DEF GcInv

LEMMA NextInv == GcInv /\ [GcNext]_gcVars => GcInv'
PROOF
<1> SUFFICES ASSUME GcInv, [GcNext]_gcVars
             PROVE  GcInv'
  OBVIOUS
<1>1. CASE Mutator
  BY <1>1, NewObjectKeeps, ForgetKeeps, SetFinalizerKeeps, GetKeeps, PutKeeps, EraseKeeps DEF Mutator
<1>2. CASE SingleStep
  BY <1>2, RestartCollectionKeeps, PropagateMarkKeeps, EndPropagateKeeps, AtomicKeeps, PropagateAllKeeps,
     TraverseGrayAgainKeeps, EndGrayAgainKeeps, ConvergeEphemeronsKeeps, SeparateToBeFinalizedKeeps,
     EndAtomicKeeps, StartSweepKeeps, SweepListKeeps, SweepNextKeeps, CallFinalizerKeeps, EndCycleKeeps,
     EndPendingKeeps, Atomic2GenKeeps, SweepYoungKeeps DEF SingleStep
<1>3. CASE (\E e \in BOOLEAN : FullGC(e)) \/ ChangeMode \/ YoungCollection
  BY <1>3, FullGCKeeps, ChangeModeKeeps, YoungCollectionKeeps
<1>4. CASE UNCHANGED gcVars
  <2>1. SameHeap /\ UNCHANGED <<gckind, gcstate, goal, sweepgc>>
    BY <1>4 DEF gcVars, SameHeap
  <2>2. GcTypeOK' /\ Control'
    BY <2>1 DEF GcInv, GcTypeOK, Control, SameHeap
  <2>3. DeadOnlyInSweep' /\ SweptIsNew' /\ AllNewInIncremental'
    BY <2>1, SameHeapFacts DEF GcInv, DeadOnlyInSweep, SweptIsNew, AllNewInIncremental, SameHeap, ToSweep
  <2>4. Propagating' /\ InAtomic' /\ BetweenYoung' /\ InYoung'
    BY <2>1, SameHeapFacts DEF GcInv, Propagating, InAtomic, BetweenYoung, InYoung, SameHeap
  <2> QED
    BY <2>1, <2>2, <2>3, <2>4, SameHeapFacts DEF GcInv
<1> QED
  BY <1>1, <1>2, <1>3, <1>4 DEF GcNext

-----------------------------------------------------------------------------
(* The safety of the collector. *)

THEOREM GcInvariant == GcSpec => []GcInv
PROOF
<1> QED
  BY InitInv, NextInv, PTL DEF GcSpec

(* The sets that the reachable objects are computed from, one reference    *)
(* further each.                                                           *)
Steps(f, n, roots) == f = [i \in 0 .. n |-> IF i = 0 THEN roots ELSE StrongStep(f[i - 1])]

LEMMA StepsExist ==
    ASSUME NEW roots, NEW n \in Nat
    PROVE  \E f : Steps(f, n, roots)
PROOF
<1> DEFINE K == {k \in Nat : ~ \E f : Steps(f, k, roots)}
<1> SUFFICES ASSUME K # {}
             PROVE  FALSE
  OBVIOUS
<1>1. PICK k \in K : \A j \in K : k <= j
  <2> HIDE DEF K
  <2>1. K \subseteq Nat
    BY DEF K
  <2> QED
    BY ONLY K # {}, <2>1, MinOfNat
<1>2. k \in Nat
  OBVIOUS
<1>3. CASE k = 0
  <2> DEFINE f == [i \in 0 .. 0 |-> roots]
  <2>1. Steps(f, k, roots)
    BY <1>3 DEF Steps
  <2> QED
    BY <2>1
<1>4. CASE k # 0
  <2>1. k - 1 \in Nat /\ k - 1 \notin K
    BY <1>1, <1>2, <1>4
  <2>2. PICK f : Steps(f, k - 1, roots)
    BY <2>1
  <2> DEFINE h == [i \in 0 .. k |-> IF i = k THEN StrongStep(f[k - 1]) ELSE f[i]]
  <2>3. ASSUME NEW i \in 0 .. k
        PROVE  h[i] = IF i = 0 THEN roots ELSE StrongStep(h[i - 1])
    <3>1. CASE i = k
      <4>1. h[i] = StrongStep(f[k - 1]) /\ h[k - 1] = f[k - 1]
        BY <1>2, <1>4, <3>1, <2>1
      <4> QED
        BY <1>4, <3>1, <4>1
    <3>2. CASE i # k
      <4>1. i \in 0 .. k - 1 /\ h[i] = f[i]
        BY <1>2, <3>2
      <4>2. f[i] = IF i = 0 THEN roots ELSE StrongStep(f[i - 1])
        BY <2>2, <4>1, Zenon DEF Steps
      <4>3. i # 0 => h[i - 1] = f[i - 1]
        BY <1>2, <4>1
      <4> HIDE DEF h
      <4> QED
        BY <4>1, <4>2, <4>3
    <3> QED
      BY <3>1, <3>2
  <2>4. h = [i \in 0 .. k |-> h[i]]
    OBVIOUS
  <2>5. Steps(h, k, roots)
    <3> HIDE DEF h
    <3> QED
      BY <2>3, <2>4 DEF Steps
  <2> QED
    BY <2>5
<1> QED
  BY <1>3, <1>4

(* What is closed under references and holds the roots holds everything    *)
(* within reach.                                                           *)
LEMMA ReachableWithin ==
    ASSUME NEW roots, NEW s, roots \subseteq s, \A x \in SUBSET s : StrongStep(x) \subseteq s
    PROVE  Reachable(roots) \subseteq s
PROOF
<1> DEFINE n == Cardinality(All)
<1>1. n \in Nat
  <2>1. IsFiniteSet(Objects)
    BY GcAssumption
  <2>2. IsFiniteSet(Objects \cup {Main})
    BY <2>1, FS_AddElement
  <2> QED
    BY <2>2, FS_CardinalityType DEF All
<1> HIDE DEF n
<1> DEFINE R == CHOOSE f : Steps(f, n, roots)
<1>2. Steps(R, n, roots)
  BY <1>1, StepsExist
<1>3. Reachable(roots) = R[n]
  BY DEF Reachable, Steps, n
<1> HIDE DEF R
<1> DEFINE K == {k \in Nat : k <= n /\ ~(R[k] \subseteq s)}
<1>4. K = {}
  <2> SUFFICES ASSUME K # {}
               PROVE  FALSE
    OBVIOUS
  <2>1. PICK k \in K : \A j \in K : k <= j
    <3> HIDE DEF K
    <3>1. K \subseteq Nat
      BY DEF K
    <3> QED
      BY ONLY K # {}, <3>1, MinOfNat
  <2>2. k \in 0 .. n
    BY <1>1
  <2>3. R[k] = IF k = 0 THEN roots ELSE StrongStep(R[k - 1])
    BY <1>2, <2>2, Zenon DEF Steps
  <2>4. CASE k = 0
    BY <2>3, <2>4
  <2>5. CASE k # 0
    <3>1. k - 1 \in Nat /\ k - 1 <= n /\ k - 1 \notin K
      BY <1>1, <2>1, <2>2, <2>5
    <3>2. R[k - 1] \in SUBSET s
      BY <3>1
    <3>3. R[k] \subseteq s
      BY <2>3, <2>5, <3>2
    <3> QED
      BY <3>3
  <2> QED
    BY <2>4, <2>5
<1> QED
  BY <1>1, <1>3, <1>4

LEMMA StrongStepInRefs ==
    ASSUME NEW x, GcTypeOK, x \subseteq All
    PROVE  \A p \in StrongStep(x) : p \in x \/ \E o \in x : p \in Refs(o)
PROOF
<1>1. ASSUME NEW o \in x
      PROVE  \A p \in (CASE kind[o] \in {"weakvalue", "allweak"} -> Strings(Ends(entries[o]))
                         [] kind[o] = "ephemeron" ->
                               Strings(Ends(entries[o])) \cup
                               {e[2] : e \in {d \in entries[o] : d[1] \in x \cup {NoObject} \/ kind[d[1]] = "string"}}
                         [] OTHER -> Ends(entries[o])) \ {NoObject} : p \in Refs(o)
  <2>1. Strings(Ends(entries[o])) \subseteq Refs(o) \cup {NoObject}
    BY DEF Strings, Refs
  <2>2. {e[2] : e \in {d \in entries[o] : d[1] \in x \cup {NoObject} \/ kind[d[1]] = "string"}} \subseteq Ends(entries[o])
    BY DEF Ends
  <2> QED
    BY <2>1, <2>2 DEF Refs
<1> QED
  BY <1>1 DEF StrongStep

(* No object is freed that the program, or a finalizer still to be called, *)
(* can get hold of: whatever the number of objects and the program, in     *)
(* every order of the steps and in every mode.                             *)
THEOREM GcNoDangling == GcSpec => []NoDanglingReference
PROOF
<1>1. GcInv => NoDanglingReference
  <2> SUFFICES ASSUME GcInv
               PROVE  NoDanglingReference
    OBVIOUS
  <2>1. PICK s, roots : s = Alive \cup {Main} /\ roots = {Main} \cup InList("finobj") \cup InList("tobefnz")
    OBVIOUS
  <2>2. roots \subseteq s /\ s \subseteq All
    BY <2>1 DEF GcInv, Closed, Alive, Existing, All
  <2>3. \A o \in s : Refs(o) \subseteq Alive
    BY <2>1 DEF GcInv, Closed, Alive, There
  <2>4. ASSUME NEW x \in SUBSET s
        PROVE  StrongStep(x) \subseteq s
    <3>1. \A p \in StrongStep(x) : p \in x \/ \E o \in x : p \in Refs(o)
      BY <2>2, StrongStepInRefs DEF GcInv
    <3> QED
      BY <2>1, <2>3, <3>1
  <2>5. Reachable(roots) \subseteq s
    BY <2>2, <2>4, ReachableWithin
  <2>6. \A o \in Reachable(roots) : Refs(o) \subseteq Existing
    BY <2>3, <2>5 DEF Alive
  <2> QED
    BY <2>1, <2>6 DEF NoDanglingReference, Refs
<1> QED
  BY <1>1, GcInvariant, PTL

(* Only separatetobefnz hands objects to their finalizers.                 *)
LEMMA OnlySeparated ==
    ASSUME GcInv, [GcNext]_gcVars, ~SeparateToBeFinalized, NEW o \in Objects, list[o] = "finobj"
    PROVE  list'[o] # "tobefnz"
PROOF
<1>0. list \in [Objects -> {"free", "allgc", "finobj", "tobefnz"}]
  BY DEF GcInv, GcTypeOK
<1>1. CASE list' = list
  BY <1>1
<1>2. CASE \E p \in Objects, l \in {"allgc", "finobj"} : list' = [list EXCEPT ![p] = l]
  BY <1>0, <1>2
<1>3. CASE \E dead : list' = [p \in Objects |-> IF p \in dead THEN "free" ELSE list[p]]
  BY <1>0, <1>3
<1>4. ASSUME Mutator
      PROVE  list' = list \/ \E p \in Objects, l \in {"allgc", "finobj"} : list' = [list EXCEPT ![p] = l]
  <2>1. \A p \in Objects : NewObject(p) => list' = [list EXCEPT ![p] = "allgc"]
    BY DEF NewObject
  <2>2. \A p \in Objects : SetFinalizer(p) => list' = [list EXCEPT ![p] = "finobj"]
    BY DEF SetFinalizer
  <2>3. \A p \in Objects : Forget(p) => list' = list
    BY DEF Forget
  <2>4. \A t, v \in Objects : Get(t, v) => list' = list
    BY DEF Get
  <2>5. \A t, v \in Objects : \A k \in Objects \cup {NoObject} : Put(t, k, v) => list' = list
    BY DEF Put
  <2>6. \A t \in Objects : \A e \in entries[t] : Erase(t, e) => list' = list
    BY DEF Erase
  <2> QED
    BY <1>4, <2>1, <2>2, <2>3, <2>4, <2>5, <2>6 DEF Mutator
<1>5. ASSUME RestartCollection \/ PropagateMark \/ EndPropagate \/ Atomic \/ PropagateAll \/ TraverseGrayAgain
               \/ EndGrayAgain \/ ConvergeEphemerons \/ EndAtomic \/ StartSweep \/ SweepNext \/ EndCycle \/ EndPending
      PROVE  list' = list
  BY <1>5 DEF RestartCollection, PropagateMark, EndPropagate, Atomic, PropagateAll, TraverseGrayAgain,
     EndGrayAgain, ConvergeEphemerons, EndAtomic, StartSweep, SweepNext, EndCycle, EndPending
<1>6. ASSUME SweepList \/ Atomic2Gen \/ SweepYoung
      PROVE  \E dead : list' = [p \in Objects |-> IF p \in dead THEN "free" ELSE list[p]]
  BY <1>6 DEF SweepList, Atomic2Gen, SweepYoung, FreeObjects
<1>7. ASSUME NEW p \in Objects, CallFinalizer(p)
      PROVE  \E l \in {"allgc", "finobj"} : list' = [list EXCEPT ![p] = l]
  BY <1>7 DEF CallFinalizer
<1>8. ASSUME (\E e \in BOOLEAN : FullGC(e)) \/ ChangeMode \/ YoungCollection
      PROVE  list' = list
  BY <1>8 DEF FullGC, ChangeMode, YoungCollection
<1>9. UNCHANGED gcVars => list' = list
  BY DEF gcVars
<1> QED
  BY <1>1, <1>2, <1>3, <1>4, <1>5, <1>6, <1>7, <1>8, <1>9 DEF GcNext, SingleStep

(* When the objects with finalizers are separated, what is marked, and the *)
(* strings, are closed under strong references.                            *)
LEMMA MarkedIsClosed ==
    ASSUME GcInv, gcstate = "converge", grays.gray = {}, ~Converging,
           NEW s, s = {o \in There : ~iswhite(o)} \cup {o \in Objects : kind[o] = "string"},
           NEW x \in SUBSET s
    PROVE  StrongStep(x) \subseteq s
PROOF
<1>1. /\ entries \in [All -> SUBSET ((Objects \cup {NoObject}) \X Objects)]
      /\ s \subseteq All /\ There \subseteq All /\ NoObject \notin All
  BY GcAssumption DEF GcInv, GcTypeOK, All, There, Existing
<1>2. \A o \in All : \A e \in entries[o] : e[1] \in Objects \cup {NoObject} /\ e[2] \in Objects
  BY <1>1
<1>3. \A o \in There : Refs(o) \subseteq Existing
  BY DEF GcInv, DeadOnlyInSweep, Closed, Alive
<1>4. ASSUME NEW o \in All
      PROVE  Strings(Ends(entries[o])) \subseteq s
  BY <1>2, <1>4 DEF Strings, Ends
<1> DEFINE From(o) == (CASE kind[o] \in {"weakvalue", "allweak"} -> Strings(Ends(entries[o]))
                         [] kind[o] = "ephemeron" ->
                               Strings(Ends(entries[o])) \cup
                               {e[2] : e \in {d \in entries[o] : d[1] \in x \cup {NoObject} \/ kind[d[1]] = "string"}}
                         [] OTHER -> Ends(entries[o])) \ {NoObject}
<1>5. ASSUME NEW o \in x
      PROVE  From(o) \subseteq s
  <2>0. o \in s /\ o \in All
    BY <1>1
  <2>1. From(o) \subseteq Refs(o)
    <3>1. Strings(Ends(entries[o])) \subseteq Refs(o) \cup {NoObject}
      BY DEF Strings, Refs
    <3>2. {e[2] : e \in {d \in entries[o] : d[1] \in x \cup {NoObject} \/ kind[d[1]] = "string"}} \subseteq Ends(entries[o])
      BY DEF Ends
    <3> QED
      BY <3>1, <3>2 DEF Refs
  <2>2. CASE o \in Objects /\ kind[o] = "string"
    <3>1. entries[o] = {}
      BY <2>2 DEF GcInv, KindsFit, Leaf
    <3>2. Refs(o) = {}
      BY <3>1 DEF Refs, Ends
    <3> QED
      BY <2>1, <3>2
  <2>3. CASE o \in There /\ ~iswhite(o)
    <3>1. Finished(o)
      BY <2>3 DEF GcInv, InAtomic, AtomicStates
    <3>2. CASE RefsMarked(o)
      <4>1. Refs(o) \subseteq s
        BY <1>3, <2>3, <3>2 DEF RefsMarked, There
      <4> HIDE DEF From
      <4> QED
        BY <2>1, <4>1
    <3>3. CASE kind[o] \in {"weakvalue", "allweak"}
      BY <1>4, <2>0, <3>3
    <3>4. CASE kind[o] = "ephemeron" /\ ~RefsMarked(o)
      <4>1. ASSUME NEW e \in entries[o], e[1] \in x \cup {NoObject} \/ kind[e[1]] = "string"
            PROVE  e[2] \in s
        <5>1. e[2] \in Refs(o) /\ e[2] # NoObject
          BY <1>1, <1>2, <2>0 DEF Refs, Ends, All
        <5>2. e[2] \in There
          BY <1>3, <2>3, <5>1 DEF There
        <5>3. CASE o \in grays.ephemeron
          <6>1. e[1] = NoObject \/ ~iswhite(e[1]) \/ kind[e[1]] = "string"
            BY <4>1
          <6>2. ~Cleared(color, e[1])
            BY <6>1 DEF Cleared, IsWhite, iswhite
          <6>3. e[2] \in Traversed(color, o)
            BY <3>4, <5>1, <6>2 DEF Traversed
          <6> QED
            BY <5>2, <5>3, <6>3 DEF Converging, Marks
        <5>4. CASE \A d \in entries[o] : ~iswhite(d[2])
          BY <5>2, <5>4
        <5> QED
          BY <3>1, <3>4, <5>3, <5>4 DEF Finished
      <4> QED
        BY <1>4, <2>0, <3>4, <4>1
    <3> QED
      BY <3>1, <3>2, <3>3, <3>4 DEF Finished
  <2> QED
    BY <2>0, <2>2, <2>3
<1>6. StrongStep(x) = x \cup UNION {From(o) : o \in x}
  BY DEF StrongStep
<1> HIDE DEF From
<1> QED
  BY <1>5, <1>6

(* Only garbage is handed to a finalizer: nothing that the program can     *)
(* reach through strong references, whatever the number of objects and the *)
(* program.                                                                *)
THEOREM GcFinalizesGarbage == GcSpec => FinalizesGarbage
PROOF
<1> DEFINE A == \A o \in Objects : list[o] = "finobj" /\ list'[o] = "tobefnz" => o \notin Reachable({Main})
<1>1. GcInv /\ [GcNext]_gcVars => [A]_gcVars
  <2> SUFFICES ASSUME GcInv, [GcNext]_gcVars, NEW o \in Objects, list[o] = "finobj", list'[o] = "tobefnz"
               PROVE  o \notin Reachable({Main})
    OBVIOUS
  <2>1. SeparateToBeFinalized
    BY OnlySeparated
  <2>2. gcstate = "converge" /\ grays.gray = {} /\ ~Converging
    BY <2>1 DEF SeparateToBeFinalized
  <2>3. iswhite(o) /\ kind[o] # "string" /\ o # Main
    BY <2>1, GcAssumption DEF SeparateToBeFinalized, InList, GcInv, KindsFit
  <2>4. PICK s : s = {p \in There : ~iswhite(p)} \cup {p \in Objects : kind[p] = "string"}
    OBVIOUS
  <2>5. Main \in s
    BY <2>2, <2>4 DEF GcInv, InAtomic, AtomicStates, There
  <2>6. \A x \in SUBSET s : StrongStep(x) \subseteq s
    BY <2>2, <2>4, MarkedIsClosed
  <2>7. Reachable({Main}) \subseteq s
    BY <2>5, <2>6, ReachableWithin
  <2> QED
    BY <2>3, <2>4, <2>7
<1> QED
  BY <1>1, GcInvariant, PTL DEF GcSpec, FinalizesGarbage

-----------------------------------------------------------------------------
(* The allocator. *)

USE PsramAssumption

PsramInv == TypeOK /\ BlocksDisjoint /\ UsageExact /\ WithinLimit

(* Disjoint finite sets have together as many elements as both.            *)
LEMMA DisjointUnion ==
    ASSUME NEW S, NEW T, IsFiniteSet(S), IsFiniteSet(T), S \cap T = {}
    PROVE  Cardinality(S \cup T) = Cardinality(S) + Cardinality(T)
<1>1. Cardinality(S \cup T) = Cardinality(S) + Cardinality(T) - Cardinality(S \cap T)
  BY FS_Union
<1>2. Cardinality(S \cap T) = 0
  BY FS_EmptySet
<1>3. Cardinality(S) \in Nat /\ Cardinality(T) \in Nat
  BY FS_CardinalityType
<1> QED
  BY ONLY <1>1, <1>2, <1>3

(* The bytes of all blocks are finitely many.                              *)
LEMMA UsedFinite ==
    ASSUME TypeOK
    PROVE  /\ Used \subseteq Bytes
           /\ IsFiniteSet(Used) /\ Cardinality(Used) \in Nat
           /\ \A p \in Ptrs : /\ block[p] \subseteq Used
                              /\ IsFiniteSet(block[p]) /\ Cardinality(block[p]) \in Nat
<1>1. Used \subseteq Bytes /\ \A p \in Ptrs : block[p] \subseteq Used
  BY DEF Used, TypeOK
<1>2. IsFiniteSet(Used)
  BY <1>1, FS_Subset
<1>3. \A p \in Ptrs : IsFiniteSet(block[p])
  BY <1>1, <1>2, FS_Subset
<1> QED
  BY <1>1, <1>2, <1>3, FS_CardinalityType

(* Replacing one block by a set of unused bytes of size n changes the      *)
(* number of used bytes by the difference of the sizes, and keeps blocks   *)
(* disjoint.                                                               *)
LEMMA ReplaceBlock ==
    ASSUME TypeOK, BlocksDisjoint, NEW p \in Ptrs,
           NEW s \in SUBSET ((Bytes \ Used) \cup block[p]),
           block' = [block EXCEPT ![p] = s]
    PROVE  /\ block' \in [Ptrs -> SUBSET Bytes]
           /\ BlocksDisjoint'
           /\ Cardinality(Used') = Cardinality(Used) - Cardinality(block[p]) + Cardinality(s)
           /\ Cardinality(s) \in Nat
<1> DEFINE rest == UNION {block[q] : q \in Ptrs \ {p}}
<1>1. /\ block \in [Ptrs -> SUBSET Bytes] /\ s \subseteq Bytes
      /\ block'[p] = s /\ \A q \in Ptrs \ {p} : block'[q] = block[q]
  BY UsedFinite DEF TypeOK
<1>2. Used = rest \cup block[p] /\ Used' = rest \cup s
  BY <1>1 DEF Used
<1>3. rest \cap block[p] = {}
  BY DEF BlocksDisjoint
<1>4. rest \cap s = {}
  BY <1>2, <1>3
<1>5. BlocksDisjoint'
  <2>1. \A q \in Ptrs \ {p} : block[q] \cap s = {}
    BY <1>4
  <2> QED
    BY <1>1, <2>1 DEF BlocksDisjoint
<1>6. IsFiniteSet(rest) /\ IsFiniteSet(block[p]) /\ IsFiniteSet(s)
  <2>1. rest \subseteq Bytes /\ s \subseteq Bytes /\ block[p] \subseteq Bytes
    BY <1>1
  <2> QED
    BY <2>1, FS_Subset
<1> HIDE DEF rest
<1>7. Cardinality(Used) = Cardinality(rest) + Cardinality(block[p])
  BY <1>2, <1>3, <1>6, DisjointUnion
<1>8. Cardinality(Used') = Cardinality(rest) + Cardinality(s)
  BY <1>2, <1>4, <1>6, DisjointUnion
<1>9. Cardinality(rest) \in Nat /\ Cardinality(block[p]) \in Nat /\ Cardinality(s) \in Nat
  BY <1>6, FS_CardinalityType
<1>10. Cardinality(Used') = Cardinality(Used) - Cardinality(block[p]) + Cardinality(s)
  BY <1>7, <1>8, <1>9
<1> QED
  BY <1>1, <1>5, <1>9, <1>10

(* A block is freed: the counter goes down by its size, without the clamp. *)
LEMMA FreeKeeps ==
    ASSUME PsramInv, NEW p \in Ptrs, Free(p)
    PROVE  /\ block' \in [Ptrs -> SUBSET Bytes] /\ usage' \in Nat
           /\ block'[p] = {} /\ \A q \in Ptrs \ {p} : block'[q] = block[q]
           /\ BlocksDisjoint' /\ UsageExact' /\ WithinLimit'
<1>1. block' = [block EXCEPT ![p] = {}] /\ {} \in SUBSET ((Bytes \ Used) \cup block[p])
  BY DEF Free
<1>2. /\ block' \in [Ptrs -> SUBSET Bytes] /\ BlocksDisjoint'
      /\ Cardinality(Used') = Cardinality(Used) - Cardinality(block[p]) + Cardinality({})
  BY <1>1, ReplaceBlock DEF PsramInv
<1>3. Cardinality({}) = 0
  BY FS_EmptySet
<1>4. /\ Cardinality(Used) \in Nat /\ Cardinality(block[p]) \in Nat
      /\ Cardinality(block[p]) <= Cardinality(Used)
  <2>1. IsFiniteSet(Used) /\ block[p] \in SUBSET Used
    BY UsedFinite DEF PsramInv
  <2>2. Cardinality(block[p]) <= Cardinality(Used)
    BY ONLY <2>1, FS_Subset
  <2> QED
    BY <2>2, UsedFinite DEF PsramInv
<1>5. usage = Cardinality(Used) /\ Cardinality(Used) <= MaxPsram
  BY DEF PsramInv, UsageExact, WithinLimit
<1>6. usage' = usage - Cardinality(block[p])
  <2> DEFINE n == Cardinality(block[p])
  <2>1. usage' = IF usage >= n THEN usage - n ELSE 0
    BY DEF Free
  <2> HIDE DEF n
  <2>2. usage >= n
    BY <1>4, <1>5 DEF n
  <2>3. usage' = usage - n
    BY ONLY <2>1, <2>2
  <2> QED
    BY <2>3 DEF n
<1>7. usage' = Cardinality(Used') /\ usage' \in Nat /\ usage' <= MaxPsram
  <2>1. Cardinality(Used') = Cardinality(Used) - Cardinality(block[p])
    BY ONLY <1>2, <1>3, <1>4
  <2> QED
    BY ONLY <1>4, <1>5, <1>6, <2>1, PsramAssumption
<1>8. block'[p] = {} /\ \A q \in Ptrs \ {p} : block'[q] = block[q]
  BY <1>1 DEF PsramInv, TypeOK
<1>9. WithinLimit'
  <2>1. Cardinality(Used') <= MaxPsram
    BY ONLY <1>7
  <2> QED
    BY <2>1 DEF WithinLimit, Used
<1> QED
  BY <1>2, <1>7, <1>8, <1>9 DEF UsageExact

(* A pending request is charged the difference of the sizes: the old size  *)
(* it carries is that of its block, or is not counted.                     *)
LEMMA GrowthIsDifference ==
    ASSUME TypeOK, request \in Requests
    PROVE  Growth(request) = request.nsize - Cardinality(block[request.ptr])
<1> DEFINE p == request.ptr
           n == request.nsize
<1>1. p \in Ptrs /\ n \in Nat \ {0} /\ request.osize \in Nat
  BY DEF Requests
<1>2. CASE block[p] = {}
  <2>1. Growth(request) = n - 0
    BY <1>2 DEF Growth
  <2>2. Cardinality(block[p]) = 0
    BY <1>2, FS_EmptySet
  <2> QED
    BY <2>1, <2>2
<1>3. CASE block[p] # {}
  <2>1. request.osize = Cardinality(block[p])
    <3>1. request # NoRequest
      BY DEF Requests
    <3> QED
      BY <1>3, <3>1 DEF TypeOK
  <2>2. Growth(request) = n - request.osize
    BY <1>3 DEF Growth
  <2> QED
    BY ONLY <2>1, <2>2
<1> QED
  BY <1>2, <1>3

(* A granted request: the counter grows by the difference of the sizes.    *)
LEMMA GrantKeeps ==
    ASSUME PsramInv, request \in Requests, Grant(request)
    PROVE  /\ block' \in [Ptrs -> SUBSET Bytes] /\ usage' \in Nat
           /\ block'[request.ptr] # {}
           /\ \A q \in Ptrs \ {request.ptr} : block'[q] = block[q]
           /\ BlocksDisjoint' /\ UsageExact' /\ WithinLimit'
<1> DEFINE p == request.ptr
           n == request.nsize
<1>1. p \in Ptrs /\ n \in Nat \ {0} /\ request.osize \in Nat
  BY DEF Requests
<1>2. PICK s \in Places(request) : block' = [block EXCEPT ![p] = s]
  BY DEF Grant
<1>3. s \in SUBSET ((Bytes \ Used) \cup block[p]) /\ Cardinality(s) = n
  BY <1>2 DEF Places
<1>4. /\ block' \in [Ptrs -> SUBSET Bytes] /\ BlocksDisjoint'
      /\ Cardinality(Used') = Cardinality(Used) - Cardinality(block[p]) + n
  BY <1>1, <1>2, <1>3, ReplaceBlock DEF PsramInv
<1>5. Cardinality(Used) \in Nat /\ Cardinality(block[p]) \in Nat
  BY <1>1, UsedFinite DEF PsramInv
<1>6. Growth(request) = n - Cardinality(block[p])
  BY GrowthIsDifference DEF PsramInv
<1>7. usage = Cardinality(Used) /\ usage <= MaxPsram
  BY DEF PsramInv, UsageExact, WithinLimit
<1> DEFINE g == Growth(request)
<1>8. usage' = usage + g /\ ~(g > 0 /\ usage + g > MaxPsram)
  BY DEF Grant, OverLimit
<1> DEFINE k == Cardinality(block[p])
           u == Cardinality(Used)
           v == Cardinality(Used')
<1>9. v \in Nat
  <2>1. \A q \in Ptrs : block'[q] \subseteq Bytes
    BY <1>4
  <2>2. Used' \subseteq Bytes
    BY <2>1 DEF Used
  <2> QED
    BY <2>2, FS_Subset, FS_CardinalityType
<1>10. usage' = v /\ v <= MaxPsram
  <2>1. g = n - k /\ v = u - k + n /\ usage = u
    BY <1>4, <1>6, <1>7
  <2> HIDE DEF n, g, k, u, v
  <2>2. u \in Nat /\ k \in Nat /\ n \in Nat
    BY <1>1, <1>5 DEF u, k, n
  <2>3. usage' = v
    BY ONLY <1>8, <2>1, <2>2
  <2>4. CASE g > 0
    BY ONLY <1>8, <2>1, <2>2, <2>3, <2>4, PsramAssumption
  <2>5. CASE ~(g > 0)
    <3>1. v <= usage
      BY ONLY <2>1, <2>2, <2>5
    <3> QED
      BY ONLY <1>7, <2>1, <2>2, <2>3, <3>1, PsramAssumption
  <2> QED
    BY ONLY <2>3, <2>4, <2>5
<1>11. block'[p] = s /\ s # {} /\ \A q \in Ptrs \ {p} : block'[q] = block[q]
  <2>1. s # {}
    BY <1>1, <1>3, FS_EmptySet
  <2> QED
    BY <1>1, <1>2, <2>1 DEF PsramInv, TypeOK
<1>12. UsageExact' /\ WithinLimit'
  BY <1>10 DEF UsageExact, WithinLimit
<1>13. usage' \in Nat
  BY <1>9, <1>10
<1> QED
  BY <1>4, <1>11, <1>12, <1>13

(* The invariant holds at first, without any block.                        *)
LEMMA InvInit == Init => PsramInv
<1> SUFFICES ASSUME Init PROVE PsramInv
  OBVIOUS
<1>1. Used = {} /\ Cardinality(Used) = 0
  <2>1. Used = {}
    BY DEF Init, Used
  <2> QED
    BY <2>1, FS_EmptySet
<1>2. TypeOK
  BY DEF Init, TypeOK, Stages
<1>3. BlocksDisjoint
  BY DEF Init, BlocksDisjoint
<1>4. UsageExact /\ WithinLimit
  BY <1>1 DEF Init, UsageExact, WithinLimit
<1> QED
  BY <1>2, <1>3, <1>4 DEF PsramInv

(* Every step keeps the invariant.                                         *)
LEMMA InvStep == PsramInv /\ [Next]_vars => PsramInv'
<1> SUFFICES ASSUME PsramInv, [Next]_vars
             PROVE  PsramInv'
  OBVIOUS
<1>1. ASSUME NEW p \in Ptrs, NEW n \in 1 .. MaxPsram + 1, NEW b \in BOOLEAN,
             NEW osize \in Nat, Ask(p, osize, n, b)
      PROVE  PsramInv'
  <2>1. request' \in Requests
    BY <1>1 DEF Ask, Requests
  <2>2. request' # NoRequest /\ request'.ptr = p /\ request'.osize = osize
    BY <1>1, <2>1 DEF Ask, Requests
  <2>3. TypeOK'
    BY <1>1, <2>1, <2>2 DEF Ask, PsramInv, TypeOK, Stages, Allocated
  <2> QED
    BY <1>1, <2>3 DEF Ask, PsramInv, BlocksDisjoint, UsageExact, WithinLimit, Used
<1>2. ASSUME NEW p \in Ptrs, Drop(p) \/ StartEmergency \/ EndEmergency \/ Deny
      PROVE  PsramInv'
  <2>1. UNCHANGED <<block, usage>>
    BY <1>2 DEF Drop, StartEmergency, EndEmergency, Deny
  <2>2. TypeOK'
    <3>1. CASE Drop(p)
      BY <3>1 DEF Drop, PsramInv, TypeOK, Allocated
    <3>2. CASE StartEmergency \/ EndEmergency
      BY <3>2 DEF StartEmergency, EndEmergency, PsramInv, TypeOK, Stages, Allocated
    <3>3. CASE Deny
      BY <3>3 DEF Deny, Answered, PsramInv, TypeOK, Stages, Allocated
    <3> QED
      BY <1>2, <3>1, <3>2, <3>3
  <2> QED
    BY <2>1, <2>2 DEF PsramInv, BlocksDisjoint, UsageExact, WithinLimit, Used
<1>3. ASSUME NEW p \in Ptrs, Release(p) \/ EmergencyFree(p)
      PROVE  PsramInv'
  <2>1. Free(p)
    BY <1>3 DEF Release, EmergencyFree
  <2>2. /\ block' \in [Ptrs -> SUBSET Bytes] /\ usage' \in Nat
        /\ block'[p] = {} /\ \A q \in Ptrs \ {p} : block'[q] = block[q]
        /\ BlocksDisjoint' /\ UsageExact' /\ WithinLimit'
    BY <2>1, FreeKeeps
  <2>3. /\ garbage' = garbage \ {p} /\ request' = request /\ stage' = stage
        /\ stage = "idle" \/ p \in garbage
    BY <1>3 DEF Release, EmergencyFree
  <2>4. garbage' \subseteq Allocated'
    BY <2>2, <2>3 DEF PsramInv, TypeOK, Allocated
  <2>5. request # NoRequest => request.ptr \in Ptrs /\ block'[request.ptr] = block[request.ptr]
    BY <2>2, <2>3 DEF PsramInv, TypeOK, Requests
  <2>6. TypeOK'
    BY <2>2, <2>3, <2>4, <2>5 DEF PsramInv, TypeOK
  <2> QED
    BY <2>2, <2>6 DEF PsramInv
<1>4. ASSUME Try
      PROVE  PsramInv'
  <2>1. request \in Requests
    BY <1>4 DEF Try, PsramInv, TypeOK
  <2>2. /\ block' \in [Ptrs -> SUBSET Bytes] /\ usage' \in Nat
        /\ block'[request.ptr] # {}
        /\ \A q \in Ptrs \ {request.ptr} : block'[q] = block[q]
        /\ BlocksDisjoint' /\ UsageExact' /\ WithinLimit'
    BY <1>4, <2>1, GrantKeeps DEF Try
  <2>3. garbage' = garbage /\ request' = NoRequest /\ stage' = "idle"
    BY <1>4 DEF Try, Answered
  <2>4. garbage' \subseteq Allocated'
    BY <2>2, <2>3 DEF PsramInv, TypeOK, Allocated
  <2>5. TypeOK'
    BY <2>2, <2>3, <2>4 DEF TypeOK, Stages
  <2> QED
    BY <2>2, <2>5 DEF PsramInv
<1>5. CASE UNCHANGED vars
  BY <1>5 DEF vars, PsramInv, TypeOK, Allocated, BlocksDisjoint, UsageExact, WithinLimit, Used
<1>6. CASE Program
  <2>1. \A p \in Ptrs : Cardinality(block[p]) \in Nat
    BY UsedFinite DEF PsramInv
  <2> QED
    BY <1>1, <1>2, <1>3, <1>6, <2>1 DEF Program
<1>7. CASE Allocation
  BY <1>2, <1>3, <1>4, <1>7 DEF Allocation, PsramInv, TypeOK, Requests, StartEmergency, EndEmergency, Deny
<1> QED
  BY <1>5, <1>6, <1>7 DEF Next

(* Every variable keeps its type, and what the collector frees is never    *)
(* the block Lua is waiting to resize.                                     *)
THEOREM PsramTypeCorrect == Spec => []TypeOK
<1>1. PsramInv => TypeOK
  BY DEF PsramInv
<1> QED
  BY <1>1, InvInit, InvStep, PTL DEF Spec

(* luaCurrentMemoryUsage is always what Lua's blocks occupy.               *)
THEOREM PsramUsageExact == Spec => []UsageExact
<1>1. PsramInv => UsageExact
  BY DEF PsramInv
<1> QED
  BY <1>1, InvInit, InvStep, PTL DEF Spec

(* Lua never occupies more than LUA_MAX_PSRAM.                             *)
THEOREM PsramWithinLimit == Spec => []WithinLimit
<1>1. PsramInv => WithinLimit
  BY DEF PsramInv
<1> QED
  BY <1>1, InvInit, InvStep, PTL DEF Spec

-----------------------------------------------------------------------------
(* Refusals. *)

(* The second try comes after a full collection: no garbage is left.       *)
CollectedBeforeRetry == stage = "retry" => garbage = {}

LEMMA RetryKept ==
    CollectedBeforeRetry /\ [Next]_vars => CollectedBeforeRetry'
<1> SUFFICES ASSUME CollectedBeforeRetry, [Next]_vars, stage' = "retry"
             PROVE  garbage' = {}
  BY DEF CollectedBeforeRetry
<1>1. CASE Program
  BY <1>1 DEF Program, Ask, Drop, Release
<1>2. CASE Try \/ Deny \/ StartEmergency
  BY <1>2 DEF Try, Deny, StartEmergency, Answered
<1>3. CASE \E p \in Ptrs : EmergencyFree(p)
  BY <1>3 DEF EmergencyFree
<1>4. CASE EndEmergency
  BY <1>4 DEF EndEmergency
<1>5. CASE UNCHANGED vars
  BY <1>5 DEF vars, CollectedBeforeRetry
<1> QED
  BY <1>1, <1>2, <1>3, <1>4, <1>5 DEF Next, Allocation

(* A refusal for the limit, when collecting was allowed: it is the second  *)
(* one, so every block is in use, and the counter is what they occupy.     *)
LEMMA RefusedWhenFull ==
    ASSUME PsramInv, CollectedBeforeRetry, Deny, ~request.blocked, OverLimit(request)
    PROVE  Cardinality(Live) - Cardinality(block[request.ptr]) + request.nsize > MaxPsram
<1>1. stage = "retry"
  BY DEF Deny
<1>2. request \in Requests
  BY <1>1 DEF PsramInv, TypeOK
<1>3. Live = Used
  BY <1>1 DEF CollectedBeforeRetry, Live, Used
<1> DEFINE n == request.nsize
           k == Cardinality(block[request.ptr])
           g == Growth(request)
           u == Cardinality(Used)
<1>4. g = n - k /\ usage = u
  BY <1>2, GrowthIsDifference DEF PsramInv, UsageExact
<1>5. usage + g > MaxPsram
  BY DEF OverLimit
<1>6. n \in Nat /\ k \in Nat /\ u \in Nat
  BY <1>2, UsedFinite DEF PsramInv, Requests
<1> HIDE DEF n, k, g, u
<1>7. u - k + n > MaxPsram
  BY ONLY <1>4, <1>5, <1>6, PsramAssumption
<1> QED
  BY <1>3, <1>7 DEF n, k, u

(* Unless the interpreter must not collect, an allocation fails for the    *)
(* limit only when the blocks still referred to leave no room for it.      *)
THEOREM PsramDeniesOnlyWhenFull == Spec => DeniedOnlyWhenFull
<1>1. Init => PsramInv /\ CollectedBeforeRetry
  BY InvInit DEF Init, CollectedBeforeRetry
<1>2. PsramInv /\ CollectedBeforeRetry /\ [Next]_vars => (PsramInv /\ CollectedBeforeRetry)'
  BY InvStep, RetryKept
<1>3. PsramInv /\ CollectedBeforeRetry =>
        [ Deny /\ ~request.blocked /\ OverLimit(request) =>
            Cardinality(Live) - Cardinality(block[request.ptr]) + request.nsize > MaxPsram ]_vars
  BY RefusedWhenFull
<1> QED
  BY <1>1, <1>2, <1>3, PTL DEF Spec, DeniedOnlyWhenFull

=============================================================================
