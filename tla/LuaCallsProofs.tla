--------------------------- MODULE LuaCallsProofs ---------------------------
(***************************************************************************)
(* The C calls are counted right and coroutines leave no C function behind *)
(* that calls back, for any number of threads, however calls, errors,      *)
(* coroutines and closing functions are nested.                            *)
(***************************************************************************)
EXTENDS LuaCalls, Extrema, SequenceTheorems

USE CallsAssumption

-----------------------------------------------------------------------------
(* Types. *)

Statuses == {"OK", "YIELD", "ERRRUN"}
Library == {"pcall", "dofile", "callback", "resume", "wrap", "close", "closeself"}

Thens == [what : {"closing"}, ci : Nat, level : Nat, status : Statuses] \cup [what : {"resume"}]
CFrame == [f : {"C"}, t : Threads, fn : {"host"} \cup Library, co : Threads, at : Statuses \cup {"closed"}, ci : Nat]
Frame ==
    CFrame
    \cup [f : {"protected"}, t : Threads, n : Nat \X Nat, then : Thens]
    \cup [f : {"call"}, t : Threads, inc : {one, nyci, <<0, 0>>}, ci : Nat]
    \cup [f : {"execute", "unroll"}, t : Threads]
    \cup [f : {"close"}, t : Threads, level : Nat, yy : BOOLEAN]

CallInfo == [fn : {"base", "lua", "yield"} \cup Library, func : Nat, fresh : BOOLEAN, ypcall : BOOLEAN,
             recst : Statuses, ret : BOOLEAN]

State == [cs : Seq(Frame), ci : [Threads -> Seq(CallInfo)], tbc : [Threads -> Seq(Nat)], st : [Threads -> Statuses],
          unstarted : SUBSET Threads, n : [Threads -> Nat \X Nat]]

-----------------------------------------------------------------------------
(* Which function may have called which. *)

Is(e, fns) == e.f = "C" /\ e.fn \in fns
Switches(e) == Is(e, {"resume", "wrap", "close"})
Resumes(e) == Is(e, {"resume", "wrap"}) /\ e.at = "OK"
Closing(e) == e.f = "protected" /\ e.then.what = "closing"
Resuming(e) == e.f = "protected" /\ e.then.what = "resume"

CalledC(e, b) ==
    /\ b.f = "execute" /\ b.t = e.t /\ e.fn \in Library
    /\ e.fn \notin {"wrap", "closeself"} => e.at = "OK"
    /\ e.fn = "wrap" => e.at \in {"OK", "closed"}
    /\ e.fn = "closeself" => e.at \in Statuses /\ e.t # Main
    /\ Switches(e) => e.co # e.t /\ e.co # Main

(* A protected call is made by a C function, to close or to resume.        *)
ProtectedBy(e, b) ==
    IF e.then.what = "resume" THEN Resumes(b) /\ e.t = b.co
    ELSE \/ Is(b, {"host", "pcall", "closeself"}) /\ b.t = e.t
         \/ (Is(b, {"close"}) \/ (Is(b, {"wrap"}) /\ b.at = "closed")) /\ b.co = e.t /\ e.then.ci = 1

CalledBy(e, b) ==
    /\ e.t = b.t
    /\ \/ Is(b, {"pcall", "dofile"}) /\ e.inc \in {one, nyci}
       \/ Is(b, {"callback"}) /\ e.inc = nyci
       \/ Closing(b) /\ e.inc = nyci
       \/ Resuming(b) /\ e.inc = <<0, 0>>
       \/ b.f = "execute" /\ e.inc = one
       \/ b.f = "close" /\ e.inc = IF b.yy THEN one ELSE nyci

Below(e, b) ==
    /\ e.f = "C" => CalledC(e, b)
    /\ e.f = "protected" => ProtectedBy(e, b)
    /\ e.f = "call" => CalledBy(e, b)
    /\ e.f = "execute" => b.f \in {"call", "unroll"} /\ b.t = e.t
    /\ e.f = "close" => b.t = e.t /\ (b.f \in {"execute", "unroll"} \/ (Closing(b) /\ e.yy = FALSE))
    /\ e.f = "unroll" => b.t = e.t /\ Resuming(b)

Grammar(cs) ==
    /\ cs # <<>> /\ Is(cs[1], {"host"}) /\ cs[1].t = Main
    /\ \A m \in 2 .. Len(cs) : Below(cs[m], cs[m - 1])

(* A thread that let another one run does not come back before that ends.  *)
Apart(cs) ==
    \A m \in 1 .. Len(cs) : Switches(cs[m]) => \A i \in 1 .. m, j \in m + 1 .. Len(cs) : cs[i].t # cs[j].t

-----------------------------------------------------------------------------
(* What is counted. *)

ClosesSelf(e, t) == Is(e, {"closeself"}) /\ e.t = t
Counts(e) == (e.f = "call" /\ e.inc[1] = 1) \/ Resumes(e)
Bars(e, t) == e.f = "call" /\ e.t = t /\ e.inc[2] = 1

(* A thread that closes itself counts anew the calls that cannot yield.    *)
Calls(cs, m) == Cardinality({j \in 1 .. m : Counts(cs[j])})
Barred(cs, m, t) == {j \in 1 .. m : Bars(cs[j], t) /\ \A i \in j .. m : ~ClosesSelf(cs[i], t)}
Counted(cs, m, t) == <<Calls(cs, m), Cardinality(Barred(cs, m, t)) + (IF t = Main THEN 1 ELSE 0)>>

(* The count a protected call restores, and that of a thread that waits    *)
(* for another one.                                                        *)
CountsKept(cs, n) ==
    \A m \in 1 .. Len(cs) :
        /\ cs[m].f = "protected" => cs[m].n = Counted(cs, m - 1, cs[m].t) /\ cs[m].n[1] < ERRORCCALLS
        /\ Switches(cs[m]) => n[cs[m].t] = Counted(cs, m - 1, cs[m].t) /\ n[cs[m].t][1] < ERRORCCALLS

-----------------------------------------------------------------------------
(* The threads, and their lists of calls. *)

ThreadsRun(cs, st, new) ==
    /\ \A m \in 1 .. Len(cs) : st[cs[m].t] = "OK" /\ cs[m].t \notin new
    /\ \A t \in new : st[t] # "YIELD"

(* What lies under a thread that closes itself is never returned to.       *)
Live(cs, m) == \A j \in m .. Len(cs) : ~ClosesSelf(cs[j], cs[m].t)

(* Where a frame stands in the list of calls of its thread.                *)
Again(cs, m) == m > 1 /\ cs[m].f = "execute" /\ cs[m - 1].f = "unroll"
Leveled(cs, m) == cs[m].f = "call" \/ Closing(cs[m]) \/ (cs[m].f = "C" /\ cs[m].fn # "closeself") \/ Again(cs, m)
Level(e) == IF e.f = "protected" THEN e.then.ci ELSE IF e.f = "execute" THEN 2 ELSE e.ci

LevelsIn(cs, ci) ==
    \A m \in 1 .. Len(cs) : Live(cs, m) /\ Leveled(cs, m) =>
        LET e == cs[m] IN
        /\ Level(e) \in 1 .. Len(ci[e.t])
        /\ e.f = "call" => ci[e.t][e.ci].fresh /\ e.ci > 1
        /\ e.f = "C" /\ m > 1 => e.ci > 1

LevelsGrow(cs) ==
    \A m, j \in 1 .. Len(cs) :
        m < j /\ cs[j].t = cs[m].t /\ Live(cs, m) /\ Leveled(cs, m) /\ Leveled(cs, j) =>
            IF cs[j].f = "protected" THEN Level(cs[m]) <= Level(cs[j]) ELSE Level(cs[m]) < Level(cs[j])

(* Functions that call back are on the C stack, and above every pcall that *)
(* a coroutine recovers to.                                                *)
CallbackOf(cs, t, k) == \E m \in 1 .. Len(cs) : Is(cs[m], {"callback"}) /\ cs[m].t = t /\ cs[m].ci = k /\ Live(cs, m)
CallbacksRun(cs, ci, st) ==
    \A t \in Threads : st[t] # "ERRRUN" => \A k \in 1 .. Len(ci[t]) : ci[t][k].fn = "callback" => CallbackOf(cs, t, k)

EntriesOf(list, status) ==
    /\ Len(list) >= 1
    /\ Len(list) >= 2 => list[2].fresh
    /\ status = "YIELD" => Len(list) >= 2
    /\ \A k \in 1 .. Len(list) : list[k].ypcall => \A i \in 1 .. k : list[i].fn # "callback"

Entries(ci, st) == \A t \in Threads : EntriesOf(ci[t], st[t])

Sound(s) ==
    /\ Grammar(s.cs) /\ Apart(s.cs) /\ CountsKept(s.cs, s.n)
    /\ ThreadsRun(s.cs, s.st, s.unstarted)
    /\ LevelsIn(s.cs, s.ci) /\ LevelsGrow(s.cs)
    /\ CallbacksRun(s.cs, s.ci, s.st) /\ Entries(s.ci, s.st)

CountedUp(s, t) == s.n[t] = Counted(s.cs, Len(s.cs), t) /\ s.n[t][1] < ERRORCCALLS

Good(s) == Sound(s) /\ CountedUp(s, Last(s.cs).t)

CallsInv == Now \in State /\ (cstack # <<>> => Good(Now))

-----------------------------------------------------------------------------
(* Lemmas on counts. *)

(* The counts are natural numbers, and so are those of the sets they       *)
(* count.                                                                  *)
LEMMA CallsFinite ==
    ASSUME NEW cs, NEW m \in Nat
    PROVE  IsFiniteSet({j \in 1 .. m : Counts(cs[j])}) /\ Calls(cs, m) \in Nat
PROOF
<1>1. IsFiniteSet(1 .. m)
  BY FS_Interval
<1>2. {j \in 1 .. m : Counts(cs[j])} \in SUBSET (1 .. m)
  OBVIOUS
<1>3. IsFiniteSet({j \in 1 .. m : Counts(cs[j])})
  BY <1>1, <1>2, FS_Subset
<1> QED
  BY <1>3, FS_CardinalityType DEF Calls

(* So is that of the calls that cannot yield.                              *)
LEMMA BarredFinite ==
    ASSUME NEW cs, NEW m \in Nat, NEW t
    PROVE  IsFiniteSet(Barred(cs, m, t)) /\ Cardinality(Barred(cs, m, t)) \in Nat
PROOF
<1>1. IsFiniteSet(1 .. m)
  BY FS_Interval
<1>2. Barred(cs, m, t) \in SUBSET (1 .. m)
  BY DEF Barred
<1>3. IsFiniteSet(Barred(cs, m, t))
  BY <1>1, <1>2, FS_Subset
<1> QED
  BY <1>3, FS_CardinalityType

(* Both counts are natural numbers.                                        *)
LEMMA CountedType ==
    ASSUME NEW cs, NEW m \in Nat, NEW t
    PROVE  Counted(cs, m, t) \in Nat \X Nat
PROOF
<1>1. Calls(cs, m) \in Nat /\ Cardinality(Barred(cs, m, t)) \in Nat
  BY CallsFinite, BarredFinite
<1>2. Cardinality(Barred(cs, m, t)) + (IF t = Main THEN 1 ELSE 0) \in Nat
  BY <1>1
<1> QED
  BY <1>1, <1>2 DEF Counted

(* The counts depend on the frames below only.                             *)
Agree(cs, ds, m) == \A j \in 1 .. m : cs[j] = ds[j]

(* Counted up to a frame, stacks that agree so far are counted alike.      *)
LEMMA CountsOfPrefix ==
    ASSUME NEW cs, NEW ds, NEW m \in Nat, NEW t, Agree(cs, ds, m)
    PROVE  Counted(cs, m, t) = Counted(ds, m, t)
PROOF
<1> USE DEF Agree
<1>1. {j \in 1 .. m : Counts(cs[j])} = {j \in 1 .. m : Counts(ds[j])}
  OBVIOUS
<1>2. \A j \in 1 .. m : (\A i \in j .. m : ~ClosesSelf(cs[i], t)) <=> (\A i \in j .. m : ~ClosesSelf(ds[i], t))
  OBVIOUS
<1>3. Barred(cs, m, t) = Barred(ds, m, t)
  BY <1>2 DEF Barred
<1> QED
  BY <1>1, <1>3 DEF Counted, Calls

(* One more frame adds what it counts.                                     *)
LEMMA CallsStep ==
    ASSUME NEW cs, NEW m \in Nat
    PROVE  Calls(cs, m + 1) = Calls(cs, m) + (IF Counts(cs[m + 1]) THEN 1 ELSE 0)
PROOF
<1> DEFINE S == {j \in 1 .. m : Counts(cs[j])}
           T == {j \in 1 .. m + 1 : Counts(cs[j])}
<1>1. IsFiniteSet(S) /\ m + 1 \notin S
  BY CallsFinite
<1>2. T = IF Counts(cs[m + 1]) THEN S \cup {m + 1} ELSE S
  <2>1. \A j \in 1 .. m + 1 : j \in 1 .. m \/ j = m + 1
    OBVIOUS
  <2> QED
    BY <2>1
<1> HIDE DEF S
<1>3. Cardinality(S \cup {m + 1}) = Cardinality(S) + 1
  BY <1>1, FS_AddElement
<1>4. Calls(cs, m) = Cardinality(S) /\ Calls(cs, m + 1) = Cardinality(T) /\ Calls(cs, m) \in Nat
  BY CallsFinite DEF Calls, S
<1> HIDE DEF T
<1> QED
  BY <1>2, <1>3, <1>4

(* One frame more bars its thread or not; a thread that closes itself      *)
(* starts anew.                                                            *)
LEMMA BarredStep ==
    ASSUME NEW cs, NEW m \in Nat, NEW t
    PROVE  Cardinality(Barred(cs, m + 1, t)) =
               IF ClosesSelf(cs[m + 1], t) THEN 0
               ELSE Cardinality(Barred(cs, m, t)) + (IF Bars(cs[m + 1], t) THEN 1 ELSE 0)
PROOF
<1> DEFINE S == Barred(cs, m, t)
           T == Barred(cs, m + 1, t)
           e == cs[m + 1]
<1>1. CASE ClosesSelf(e, t)
  <2>1. T = {}
    BY <1>1 DEF Barred
  <2> QED
    BY <1>1, <2>1, FS_EmptySet
<1>2. CASE ~ClosesSelf(e, t)
  <2>1. IsFiniteSet(S) /\ m + 1 \notin S
    <3>1. IsFiniteSet(S)
      BY BarredFinite
    <3>2. \A j \in S : j \in 1 .. m
      BY DEF Barred
    <3> HIDE DEF S
    <3> QED
      BY <3>1, <3>2
  <2>2. ASSUME NEW j \in 1 .. m
        PROVE  (\A i \in j .. m + 1 : ~ClosesSelf(cs[i], t)) <=> (\A i \in j .. m : ~ClosesSelf(cs[i], t))
    <3>1. \A i \in j .. m + 1 : i \in j .. m \/ i = m + 1
      OBVIOUS
    <3> QED
      BY <1>2, <3>1
  <2>3. \A i \in m + 1 .. m + 1 : i = m + 1
    OBVIOUS
  <2>4. T = IF Bars(e, t) THEN S \cup {m + 1} ELSE S
    <3>1. \A j \in 1 .. m : j \in T <=> j \in S
      BY <2>2 DEF Barred
    <3>2. m + 1 \in T <=> Bars(e, t)
      BY <1>2, <2>3 DEF Barred
    <3>3. \A j \in T : j \in 1 .. m \/ j = m + 1
      BY DEF Barred
    <3>4. \A j \in S : j \in 1 .. m
      BY DEF Barred
    <3> HIDE DEF S, T, e
    <3> QED
      BY <2>1, <3>1, <3>2, <3>3, <3>4
  <2>5. Cardinality(S) \in Nat
    BY BarredFinite
  <2> HIDE DEF S, T, e
  <2>6. Cardinality(S \cup {m + 1}) = Cardinality(S) + 1
    BY <2>1, FS_AddElement
  <2>7. Cardinality(T) = Cardinality(S) + (IF Bars(e, t) THEN 1 ELSE 0)
    BY <2>4, <2>5, <2>6
  <2> QED
    BY <1>2, <2>7 DEF S, T, e
<1> QED
  BY <1>1, <1>2

(* Both counts, one frame higher.                                          *)
LEMMA CountedStep ==
    ASSUME NEW cs, NEW m \in Nat, NEW t
    PROVE  Counted(cs, m + 1, t) =
               <<Counted(cs, m, t)[1] + (IF Counts(cs[m + 1]) THEN 1 ELSE 0),
                 IF ClosesSelf(cs[m + 1], t) THEN (IF t = Main THEN 1 ELSE 0)
                 ELSE Counted(cs, m, t)[2] + (IF Bars(cs[m + 1], t) THEN 1 ELSE 0)>>
PROOF
<1>1. Cardinality(Barred(cs, m, t)) \in Nat
  BY BarredFinite
<1>2. CASE ClosesSelf(cs[m + 1], t)
  BY <1>1, <1>2, CallsStep, BarredStep DEF Counted
<1>3. CASE ~ClosesSelf(cs[m + 1], t)
  BY <1>1, <1>3, CallsStep, BarredStep DEF Counted
<1> QED
  BY <1>2, <1>3

(* A thread that has no frame counts nothing of its own.                   *)
LEMMA CountedNew ==
    ASSUME NEW cs, NEW m \in Nat, NEW t, \A j \in 1 .. m : cs[j].t # t
    PROVE  Counted(cs, m, t) = <<Calls(cs, m), IF t = Main THEN 1 ELSE 0>>
PROOF
<1>1. Barred(cs, m, t) = {}
  BY DEF Barred, Bars
<1> QED
  BY <1>1, FS_EmptySet DEF Counted

-----------------------------------------------------------------------------
(* Lemmas on steps of the C stack and of the lists of calls. *)

(* The fields of a frame.                                                  *)
LEMMA FrameFields ==
    ASSUME NEW e \in Frame
    PROVE  /\ e.f \in {"C", "protected", "call", "execute", "unroll", "close"} /\ e.t \in Threads
           /\ e.f = "C" => e.ci \in Nat /\ e.co \in Threads /\ e.fn \in {"host"} \cup Library /\ e.at \in Statuses \cup {"closed"}
           /\ e.f = "protected" => e.n \in Nat \X Nat /\ e.then.what \in {"closing", "resume"}
           /\ Closing(e) => e.then.ci \in Nat /\ e.then.level \in Nat /\ e.then.status \in Statuses
           /\ e.f = "call" => e.ci \in Nat /\ e.inc \in {one, nyci, <<0, 0>>}
           /\ e.f = "close" => e.level \in Nat /\ e.yy \in BOOLEAN
PROOF
  BY DEF Frame, CFrame, Thens, Closing

(* The fields of a state.                                                  *)
LEMMA StateFields ==
    ASSUME NEW s \in State
    PROVE  /\ s.cs \in Seq(Frame) /\ s.ci \in [Threads -> Seq(CallInfo)] /\ s.tbc \in [Threads -> Seq(Nat)]
           /\ s.st \in [Threads -> Statuses] /\ s.unstarted \in SUBSET Threads /\ s.n \in [Threads -> Nat \X Nat]
           /\ \A t \in Threads : Len(s.ci[t]) \in Nat
           /\ Len(s.cs) \in Nat
           /\ \A m \in 1 .. Len(s.cs) : s.cs[m] \in Frame /\ s.cs[m].t \in Threads
PROOF
<1>1. /\ s.cs \in Seq(Frame) /\ s.ci \in [Threads -> Seq(CallInfo)] /\ s.tbc \in [Threads -> Seq(Nat)]
      /\ s.st \in [Threads -> Statuses] /\ s.unstarted \in SUBSET Threads /\ s.n \in [Threads -> Nat \X Nat]
  BY DEF State
<1>2. \A t \in Threads : Len(s.ci[t]) \in Nat
  BY <1>1
<1>3. \A m \in 1 .. Len(s.cs) : s.cs[m] \in Frame
  BY <1>1, ElementOfSeq
<1> QED
  BY <1>1, <1>2, <1>3, FrameFields

(* Frames of the thread at the top are not separated by those of others,   *)
(* and it does not wait.                                                   *)
LEMMA TopContiguous ==
    ASSUME NEW s \in State, Sound(s), NEW m \in 1 .. Len(s.cs), NEW j \in m .. Len(s.cs),
           s.cs[m].t = Last(s.cs).t
    PROVE  s.cs[j].t = Last(s.cs).t
PROOF
<1> DEFINE cs == s.cs
           t == Last(cs).t
           S == {i \in m .. Len(cs) : cs[i].t # t}
<1>0. Len(cs) \in Nat /\ cs \in Seq(Frame) /\ t = cs[Len(cs)].t
  BY StateFields DEF Last
<1> SUFFICES ASSUME S # {}
             PROVE  FALSE
  BY <1>0
<1>1. S \in SUBSET Nat
  BY <1>0
<1> DEFINE i == Min(S)
<1>2. i \in S /\ \A x \in S : i <= x
  BY <1>1, MinOfNat
<1> HIDE DEF i
<1>3. i \in m + 1 .. Len(cs) - 1 /\ cs[i].t # t /\ cs[i - 1].t = t
  <2>1. i # m /\ i # Len(cs)
    BY <1>0, <1>2
  <2>2. i - 1 \notin S
    BY <1>2
  <2> QED
    BY <1>0, <1>2, <2>1, <2>2
<1>4. Below(cs[i], cs[i - 1]) /\ Apart(cs)
  BY <1>0, <1>3 DEF Sound, Grammar
<1>5. cs[i] \in Frame
  BY <1>0, <1>3, StateFields
<1>6. Switches(cs[i - 1])
  BY <1>3, <1>4, <1>5, FrameFields DEF Below, CalledC, ProtectedBy, CalledBy, Switches, Resumes, Is
<1> QED
  BY <1>0, <1>3, <1>4, <1>6 DEF Apart

(* A frame that does not close its thread is pushed.                       *)
LEMMA PushSound ==
    ASSUME NEW s \in State, NEW r \in State, Sound(s), NEW e \in Frame, NEW x \in CallInfo,
           r.cs = Append(s.cs, e), Below(e, Last(s.cs)), ~Is(e, {"closeself"}),
           IF Switches(Last(s.cs)) THEN \A m \in 1 .. Len(s.cs) : s.cs[m].t # e.t ELSE e.t = Last(s.cs).t,
           s.st[e.t] = "OK", e.t \notin s.unstarted, r.st = s.st, r.unstarted = s.unstarted,
           \A u \in Threads : u # e.t => r.n[u] = s.n[u] /\ r.ci[u] = s.ci[u],
           e.f = "protected" => e.n = Counted(s.cs, Len(s.cs), e.t) /\ e.n[1] < ERRORCCALLS,
           Switches(e) => r.n[e.t] = Counted(s.cs, Len(s.cs), e.t) /\ r.n[e.t][1] < ERRORCCALLS,
           r.ci[e.t] = IF e.f \in {"C", "call"} THEN Append(s.ci[e.t], x) ELSE s.ci[e.t],
           x.ypcall = FALSE,
           e.f \in {"C", "call"} => e.ci = Len(s.ci[e.t]) + 1,
           e.f = "call" => x.fresh /\ x.fn # "callback",
           e.f = "C" => x.fn = e.fn /\ Len(s.ci[e.t]) >= 2,
           Closing(e) => e.then.ci = Len(s.ci[e.t]),
           e.f = "execute" /\ Last(s.cs).f = "unroll" => Len(s.ci[e.t]) >= 2
    PROVE  Sound(r)
PROOF
<1> DEFINE cs == s.cs
           ds == r.cs
           N == Len(s.cs)
           t == e.t
<1>1. /\ cs \in Seq(Frame) /\ N \in Nat \ {0} /\ Last(cs) = cs[N] /\ t \in Threads
      /\ \A m \in 1 .. N : cs[m] \in Frame /\ cs[m].t \in Threads
      /\ s.ci[t] \in Seq(CallInfo) /\ Len(s.ci[t]) \in Nat /\ s.ci[t] # <<>>
  BY StateFields, FrameFields DEF Last, Sound, Grammar, Entries, EntriesOf
<1>2. /\ ds \in Seq(Frame) /\ Len(ds) = N + 1 /\ ds[N + 1] = e /\ \A m \in 1 .. N : ds[m] = cs[m]
      /\ ds # <<>>
  BY <1>1
<1>3. /\ Grammar(cs) /\ Apart(cs) /\ CountsKept(cs, s.n) /\ ThreadsRun(cs, s.st, s.unstarted)
      /\ LevelsIn(cs, s.ci) /\ LevelsGrow(cs) /\ CallbacksRun(cs, s.ci, s.st) /\ Entries(s.ci, s.st)
  BY DEF Sound
<1>4. \A m \in 1 .. N : Switches(cs[m]) => cs[m].t # t
  BY <1>1, <1>3 DEF Apart
<1>5. \A m \in 1 .. N : Live(ds, m) <=> Live(cs, m)
  <2>1. \A u : ~ClosesSelf(e, u)
    BY DEF ClosesSelf
  <2>2. \A m \in 1 .. N : \A j \in m .. N + 1 : j \in m .. N \/ j = N + 1
    BY <1>1
  <2> QED
    BY <1>1, <1>2, <2>1, <2>2 DEF Live
<1>6. \A m \in 1 .. N : Leveled(ds, m) <=> Leveled(cs, m)
  BY <1>1, <1>2 DEF Leveled, Again
<1>7. \A m \in 1 .. N + 1 : m \in 1 .. N \/ m = N + 1
  BY <1>1
<1>8. /\ Len(r.ci[t]) = IF e.f \in {"C", "call"} THEN Len(s.ci[t]) + 1 ELSE Len(s.ci[t])
      /\ \A k \in 1 .. Len(s.ci[t]) : r.ci[t][k] = s.ci[t][k]
      /\ e.f \in {"C", "call"} => r.ci[t][Len(s.ci[t]) + 1] = x
  BY <1>1
<1>g. Grammar(ds)
  BY <1>1, <1>2, <1>3 DEF Grammar
<1>a. Apart(ds)
  <2> SUFFICES ASSUME NEW m \in 1 .. N + 1, Switches(ds[m]), NEW i \in 1 .. m, NEW j \in m + 1 .. N + 1
               PROVE  ds[i].t # ds[j].t
    BY <1>2 DEF Apart
  <2>1. m \in 1 .. N /\ i \in 1 .. N /\ Switches(cs[m]) /\ ds[i] = cs[i]
    BY <1>1, <1>2
  <2>2. CASE j \in 1 .. N
    BY <1>2, <1>3, <2>1, <2>2 DEF Apart
  <2>3. CASE j = N + 1 /\ Switches(cs[N])
    BY <1>1, <1>2, <2>1, <2>3
  <2>4. CASE j = N + 1 /\ ~Switches(cs[N])
    BY <1>1, <1>2, <1>3, <2>1, <2>4 DEF Apart
  <2> QED
    BY <1>1, <2>2, <2>3, <2>4
<1>c. CountsKept(ds, r.n)
  <2>1. ASSUME NEW m \in 1 .. N + 1, NEW u
        PROVE  Counted(ds, m - 1, u) = Counted(cs, m - 1, u)
    <3> DEFINE k == m - 1
    <3>1. k \in Nat /\ Agree(cs, ds, k)
      BY <1>1, <1>2 DEF Agree
    <3> HIDE DEF k
    <3>2. Counted(ds, k, u) = Counted(cs, k, u)
      BY <3>1, CountsOfPrefix
    <3> QED
      BY <3>2 DEF k
  <2>2. \A m \in 1 .. N : Switches(ds[m]) => r.n[ds[m].t] = s.n[ds[m].t]
    BY <1>1, <1>2, <1>4
  <2>3. ASSUME NEW m \in 1 .. N
        PROVE  /\ ds[m].f = "protected" => ds[m].n = Counted(ds, m - 1, ds[m].t) /\ ds[m].n[1] < ERRORCCALLS
               /\ Switches(ds[m]) => r.n[ds[m].t] = Counted(ds, m - 1, ds[m].t) /\ r.n[ds[m].t][1] < ERRORCCALLS
    <3>1. ds[m] = cs[m] /\ Counted(ds, m - 1, cs[m].t) = Counted(cs, m - 1, cs[m].t)
      BY <1>1, <1>2, <2>1
    <3> QED
      BY <1>3, <2>2, <3>1 DEF CountsKept
  <2>4. Counted(ds, N, t) = Counted(cs, N, t)
    <3>1. N + 1 \in 1 .. N + 1 /\ (N + 1) - 1 = N
      BY <1>1
    <3> QED
      BY <2>1, <3>1
  <2> QED
    BY <1>1, <1>2, <1>7, <2>3, <2>4 DEF CountsKept
<1>t. ThreadsRun(ds, r.st, r.unstarted)
  BY <1>1, <1>2, <1>3, <1>7 DEF ThreadsRun
<1>i. LevelsIn(ds, r.ci)
  <2>1. ASSUME NEW m \in 1 .. N, Live(ds, m), Leveled(ds, m)
        PROVE  /\ Level(ds[m]) \in 1 .. Len(r.ci[ds[m].t])
               /\ ds[m].f = "call" => r.ci[ds[m].t][ds[m].ci].fresh /\ ds[m].ci > 1
               /\ ds[m].f = "C" /\ m > 1 => ds[m].ci > 1
    <3>1. /\ Level(cs[m]) \in 1 .. Len(s.ci[cs[m].t])
          /\ cs[m].f = "call" => s.ci[cs[m].t][cs[m].ci].fresh /\ cs[m].ci > 1
          /\ cs[m].f = "C" /\ m > 1 => cs[m].ci > 1
      BY <1>3, <1>5, <1>6, <2>1 DEF LevelsIn
    <3>2. ds[m] = cs[m]
      BY <1>2
    <3>3. CASE cs[m].t # t
      <4>1. r.ci[cs[m].t] = s.ci[cs[m].t]
        BY <1>1, <3>3
      <4> QED
        BY <3>1, <3>2, <4>1
    <3>4. CASE cs[m].t = t
      <4>1. Level(cs[m]) \in 1 .. Len(r.ci[t])
        BY <1>1, <1>8, <3>1, <3>4
      <4>2. ASSUME cs[m].f = "call"
            PROVE  r.ci[t][cs[m].ci].fresh
        <5>1. Level(cs[m]) = cs[m].ci
          BY <4>2 DEF Level
        <5> QED
          BY <1>8, <3>1, <3>4, <4>2, <5>1
      <4> QED
        BY <3>1, <3>2, <3>4, <4>1, <4>2
    <3> QED
      BY <3>3, <3>4
  <2>2. ASSUME Leveled(ds, N + 1)
        PROVE  /\ Level(e) \in 1 .. Len(r.ci[t])
               /\ e.f = "call" => r.ci[t][e.ci].fresh /\ e.ci > 1
               /\ e.f = "C" => e.ci > 1
    <3>1. CASE e.f \in {"C", "call"}
      BY <1>1, <1>8, <3>1 DEF Level
    <3>2. CASE Closing(e)
      BY <1>1, <1>8, <3>2 DEF Level, Closing
    <3>3. CASE e.f = "execute"
      BY <1>1, <1>2, <1>8, <2>2, <3>3 DEF Level, Leveled, Again, Closing
    <3> QED
      BY <1>2, <2>2, <3>1, <3>2, <3>3 DEF Leveled, Again
  <2> QED
    BY <1>1, <1>2, <1>7, <2>1, <2>2 DEF LevelsIn
<1>l. LevelsGrow(ds)
  <2> SUFFICES ASSUME NEW m \in 1 .. N + 1, NEW j \in 1 .. N + 1, m < j, ds[j].t = ds[m].t, Live(ds, m),
                      Leveled(ds, m), Leveled(ds, j)
               PROVE  IF ds[j].f = "protected" THEN Level(ds[m]) <= Level(ds[j]) ELSE Level(ds[m]) < Level(ds[j])
    BY <1>2 DEF LevelsGrow
  <2>1. m \in 1 .. N /\ Live(cs, m) /\ Leveled(cs, m) /\ ds[m] = cs[m]
    BY <1>1, <1>2, <1>5, <1>6
  <2>2. CASE j \in 1 .. N
    <3>1. Leveled(cs, j) /\ ds[j] = cs[j]
      BY <1>2, <1>6, <2>2
    <3>2. m < j /\ cs[j].t = cs[m].t
      BY <2>1, <3>1
    <3>3. IF cs[j].f = "protected" THEN Level(cs[m]) <= Level(cs[j]) ELSE Level(cs[m]) < Level(cs[j])
      BY <1>3, <2>1, <2>2, <3>1, <3>2 DEF LevelsGrow
    <3>4. Level(ds[m]) = Level(cs[m]) /\ Level(ds[j]) = Level(cs[j]) /\ ds[j].f = cs[j].f
      BY <2>1, <3>1
    <3>5. CASE cs[j].f = "protected"
      BY <3>3, <3>4, <3>5
    <3>6. CASE cs[j].f # "protected"
      BY <3>3, <3>4, <3>6
    <3> QED
      BY <3>5, <3>6
  <2>3. CASE j = N + 1
    <3>1. cs[m].t = t /\ Level(cs[m]) \in 1 .. Len(s.ci[t])
      BY <1>2, <1>3, <2>1, <2>3 DEF LevelsIn
    <3>0. Level(ds[m]) \in 1 .. Len(s.ci[t]) /\ ds[j] = e
      BY <1>2, <2>1, <2>3, <3>1
    <3>2. CASE e.f \in {"C", "call"}
      <4>1. Level(e) = Len(s.ci[t]) + 1 /\ e.f # "protected"
        BY <3>2 DEF Level
      <4> QED
        BY <1>1, <3>0, <4>1
    <3>3. CASE Closing(e)
      <4>1. Level(e) = Len(s.ci[t]) /\ e.f = "protected"
        BY <3>3 DEF Level, Closing
      <4> QED
        BY <1>1, <3>0, <4>1
    <3>4. CASE e.f = "execute" /\ cs[N].f = "unroll"
      <4>a. Is(cs[1], {"host"}) /\ \A z \in 2 .. N : Below(cs[z], cs[z - 1])
        BY <1>3 DEF Grammar
      <4>b. cs[1].f = "C" /\ N # 1
        BY <4>a, <3>4 DEF Is
      <4>i. N \in Nat \ {0}
        BY <1>1
      <4>c. N > 1 /\ N \in 2 .. N
        <5>1. N # 1
          BY <4>b
        <5> HIDE DEF N
        <5> QED
          BY ONLY <4>i, <5>1
      <4>d. Below(cs[N], cs[N - 1])
        BY <4>a, <4>c
      <4>e. cs[N].t = t
        BY <1>1, <3>4 DEF Switches, Is
      <4>1. N > 1 /\ Resuming(cs[N - 1]) /\ cs[N - 1].t = t /\ cs[N].t = t
        BY ONLY <3>4, <4>c, <4>d, <4>e DEF Below
      <4>f. cs[N - 1].f = "protected" /\ cs[N - 1].then.what = "resume" /\ N - 1 # 1
        BY <4>b, <4>1 DEF Resuming
      <4>g. N > 2 /\ N - 1 \in 2 .. N /\ (N - 1) - 1 = N - 2
        <5>1. N - 1 # 1
          BY <4>f
        <5> HIDE DEF N
        <5> QED
          BY ONLY <4>c, <4>i, <5>1
      <4>h. Below(cs[N - 1], cs[N - 2])
        BY <4>a, <4>g
      <4>2. N > 2 /\ Resumes(cs[N - 2])
        BY ONLY <4>f, <4>g, <4>h DEF Below, ProtectedBy
      <4>3. Switches(cs[N - 2]) /\ N - 2 \in 1 .. N /\ N - 1 \in (N - 2) + 1 .. N
        BY <1>1, <4>2 DEF Resumes, Switches, Is
      <4>0. \A i \in 1 .. N - 2 : cs[i].t # t
        <5> SUFFICES ASSUME NEW i \in 1 .. N - 2
                     PROVE  cs[i].t # cs[N - 1].t
          BY <4>1
        <5> QED
          BY <1>3, <4>3 DEF Apart
      <4>4. m \in {N - 1, N}
        BY <1>1, <2>1, <3>1, <4>0
      <4>5. ~Leveled(cs, N) /\ ~Leveled(cs, N - 1)
        BY <3>4, <4>1 DEF Leveled, Again, Closing, Resuming
      <4> QED
        BY <2>1, <4>4, <4>5
    <3>5. \/ e.f \in {"C", "call"}
          \/ Closing(e)
          \/ e.f = "execute" /\ cs[N].f = "unroll"
      <4>1. Leveled(ds, N + 1) /\ ds[(N + 1) - 1] = cs[N]
        BY <1>1, <1>2, <2>3
      <4> QED
        BY <1>2, <4>1 DEF Leveled, Again
    <3> QED
      BY <3>2, <3>3, <3>4, <3>5
  <2> QED
    BY <2>2, <2>3
<1>k. CallbacksRun(ds, r.ci, r.st)
  <2> SUFFICES ASSUME NEW u \in Threads, r.st[u] # "ERRRUN", NEW k \in 1 .. Len(r.ci[u]), r.ci[u][k].fn = "callback"
               PROVE  CallbackOf(ds, u, k)
    BY DEF CallbacksRun
  <2>1. CASE k \in 1 .. Len(s.ci[u]) /\ s.ci[u][k].fn = "callback"
    <3>1. PICK m \in 1 .. N : Is(cs[m], {"callback"}) /\ cs[m].t = u /\ cs[m].ci = k /\ Live(cs, m)
      BY <1>3, <2>1 DEF CallbacksRun, CallbackOf
    <3>2. m \in 1 .. Len(ds) /\ ds[m] = cs[m]
      BY <1>1, <1>2
    <3>3. Live(ds, m)
      BY <1>5, <3>1
    <3> QED
      BY <3>1, <3>2, <3>3 DEF CallbackOf
  <2>2. CASE u = t /\ e.f = "C" /\ k = Len(s.ci[t]) + 1
    <3>1. Is(e, {"callback"}) /\ e.ci = k
      BY <1>8, <2>2 DEF Is
    <3>2. Live(ds, N + 1)
      BY <1>1, <1>2 DEF Live, ClosesSelf
    <3>3. N + 1 \in 1 .. Len(ds)
      BY <1>1, <1>2
    <3> QED
      BY <1>2, <2>2, <3>1, <3>2, <3>3 DEF CallbackOf
  <2>3. CASE u = t /\ ~(e.f = "C" /\ k = Len(s.ci[t]) + 1)
    <3>1. CASE k \in 1 .. Len(s.ci[t])
      BY <1>8, <2>1, <2>3, <3>1
    <3>2. CASE k \notin 1 .. Len(s.ci[t])
      <4>1. k \in 1 .. Len(r.ci[t])
        BY <2>3
      <4>2. e.f \in {"C", "call"} /\ k = Len(s.ci[t]) + 1
        BY <1>1, <1>8, <3>2, <4>1
      <4>3. e.f = "call" /\ r.ci[t][k] = x
        BY <1>8, <2>3, <4>2
      <4> QED
        BY <2>3, <4>3
    <3> QED
      BY <3>1, <3>2
  <2>4. CASE u # t
    BY <2>1, <2>4
  <2> QED
    BY <2>2, <2>3, <2>4
<1>e. Entries(r.ci, r.st)
  <2> SUFFICES ASSUME NEW u \in Threads
               PROVE  EntriesOf(r.ci[u], r.st[u])
    BY DEF Entries
  <2>1. EntriesOf(s.ci[u], s.st[u])
    BY <1>3 DEF Entries
  <2>2. CASE u # t
    BY <2>1, <2>2
  <2>3. CASE u = t /\ e.f \notin {"C", "call"}
    BY <2>1, <2>3
  <2>4. CASE u = t /\ e.f \in {"C", "call"}
    <3>1. Len(r.ci[t]) = Len(s.ci[t]) + 1 /\ Len(s.ci[t]) >= 1 /\ r.st[t] = "OK"
      BY <1>8, <2>1, <2>4 DEF EntriesOf
    <3>2. r.ci[t][2].fresh
      BY <1>1, <1>8, <2>1, <2>4, <3>1 DEF EntriesOf
    <3>3. ASSUME NEW k \in 1 .. Len(r.ci[t]), r.ci[t][k].ypcall, NEW i \in 1 .. k
          PROVE  r.ci[t][i].fn # "callback"
      <4>1. k \in 1 .. Len(s.ci[t])
        BY <1>1, <1>8, <2>4, <3>1, <3>3
      <4> QED
        BY <1>1, <1>8, <2>1, <2>4, <3>3, <4>1 DEF EntriesOf
    <3>4. EntriesOf(r.ci[t], r.st[t])
      BY <1>1, <3>1, <3>2, <3>3 DEF EntriesOf
    <3> QED
      BY <2>4, <3>4
  <2> QED
    BY <2>2, <2>3, <2>4
<1> QED
  BY <1>g, <1>a, <1>c, <1>t, <1>i, <1>l, <1>k, <1>e DEF Sound

(* Frames of a thread are cut, and entries of its list of calls are cut    *)
(* (or one that does not call back is appended).                           *)
Same(a, b) == a.fn = b.fn /\ a.fresh = b.fresh /\ a.ypcall = b.ypcall
Plain(a) == a.fn # "callback" /\ ~a.ypcall

(* The C stack is cut and the list of calls of its thread with it, as      *)
(* returns and jumps within a thread do.                                   *)
LEMMA CutSound ==
    ASSUME NEW s \in State, NEW r \in State, Sound(s), NEW t \in Threads, NEW i \in 2 .. Len(s.cs) + 1,
           r.cs = SubSeq(s.cs, 1, i - 1), r.st = s.st, r.unstarted = s.unstarted,
           \A j \in i .. Len(s.cs) : s.cs[j].t = t /\ ~Is(s.cs[j], {"closeself"}),
           \A m \in 1 .. i - 1 : Switches(s.cs[m]) => s.cs[m].t # t,
           \A u \in Threads : u # t => r.n[u] = s.n[u] /\ r.ci[u] = s.ci[u],
           Len(r.ci[t]) >= 1, Len(r.ci[t]) <= Len(s.ci[t]) \/ Len(s.ci[t]) >= 2,
           s.st[t] = "OK",
           \A k \in 1 .. Len(r.ci[t]) : IF k <= Len(s.ci[t]) THEN Same(r.ci[t][k], s.ci[t][k]) ELSE Plain(r.ci[t][k]),
           \A m \in 1 .. i - 1 : s.cs[m].t = t /\ Live(s.cs, m) /\ Leveled(s.cs, m) => Level(s.cs[m]) <= Len(r.ci[t]),
           \A m \in i .. Len(s.cs) : Is(s.cs[m], {"callback"}) => s.cs[m].ci > Len(r.ci[t])
    PROVE  Sound(r)
PROOF
<1> DEFINE cs == s.cs
           ds == r.cs
           M == i - 1
<1>1. /\ cs \in Seq(Frame) /\ Len(cs) \in Nat /\ M \in 1 .. Len(cs) /\ M \in Nat
      /\ \A m \in 1 .. Len(cs) : cs[m] \in Frame /\ cs[m].t \in Threads
      /\ r.ci[t] \in Seq(CallInfo) /\ s.ci[t] \in Seq(CallInfo) /\ Len(s.ci[t]) \in Nat /\ Len(r.ci[t]) \in Nat
  BY StateFields
<1>2. Len(ds) = M /\ ds # <<>> /\ \A m \in 1 .. M : ds[m] = cs[m] /\ m \in 1 .. Len(cs)
  <2>1. ds = SubSeq(cs, 1, M)
    OBVIOUS
  <2>2. \A m \in 1 .. M : cs[m] \in Frame /\ m \in 1 .. Len(cs)
    BY <1>1
  <2> HIDE DEF M, ds, cs
  <2>3. ds \in Seq(Frame) /\ Len(ds) = M /\ \A m \in 1 .. M : ds[m] = cs[m]
    BY <1>1, <2>1, <2>2, SubSeqProperties
  <2> QED
    BY <1>1, <2>2, <2>3
<1>3. /\ Grammar(cs) /\ Apart(cs) /\ CountsKept(cs, s.n) /\ ThreadsRun(cs, s.st, s.unstarted)
      /\ LevelsIn(cs, s.ci) /\ LevelsGrow(cs) /\ CallbacksRun(cs, s.ci, s.st) /\ Entries(s.ci, s.st)
  BY DEF Sound
<1>4. ASSUME NEW m \in 1 .. M
      PROVE  Live(ds, m) <=> Live(cs, m)
  <2>1. \A j \in m .. M : ds[j] = cs[j] /\ j \in m .. Len(cs)
    BY <1>1, <1>2
  <2>2. \A j \in m .. Len(cs) : j \in m .. M \/ j \in i .. Len(cs)
    BY <1>1
  <2>3. \A j \in i .. Len(cs) : ~ClosesSelf(cs[j], cs[m].t)
    BY DEF ClosesSelf
  <2> QED
    BY <1>2, <2>1, <2>2, <2>3 DEF Live
<1>5. \A m \in 1 .. M : Leveled(ds, m) <=> Leveled(cs, m)
  BY <1>1, <1>2 DEF Leveled, Again
<1>g. Grammar(ds)
  <2>1. \A m \in 2 .. M : ds[m] = cs[m] /\ ds[m - 1] = cs[m - 1] /\ m \in 2 .. Len(cs)
    BY <1>1, <1>2
  <2>2. ds[1] = cs[1]
    BY <1>1, <1>2
  <2> QED
    BY <1>2, <1>3, <2>1, <2>2 DEF Grammar
<1>a. Apart(ds)
  <2>1. \A m \in 1 .. M : ds[m] = cs[m] /\ m \in 1 .. Len(cs)
    BY <1>2
  <2>2. \A m \in 1 .. M : \A a \in 1 .. m : a \in 1 .. M
    BY <1>1
  <2>3. \A m \in 1 .. M : \A b \in m + 1 .. M : b \in 1 .. M /\ b \in m + 1 .. Len(cs)
    BY <1>1
  <2>4. Len(ds) = M /\ Apart(cs)
    BY <1>2, <1>3
  <2> HIDE DEF cs, ds, M
  <2>5. ASSUME NEW m \in 1 .. M, Switches(ds[m]), NEW a \in 1 .. m, NEW b \in m + 1 .. M
        PROVE  ds[a].t # ds[b].t
    <3>1. m \in 1 .. Len(cs) /\ Switches(cs[m]) /\ ds[a] = cs[a] /\ ds[b] = cs[b] /\ b \in m + 1 .. Len(cs)
      BY ONLY <2>1, <2>2, <2>3, <2>5
    <3> QED
      BY ONLY <2>4, <2>5, <3>1 DEF Apart
  <2> QED
    BY ONLY <2>4, <2>5 DEF Apart
<1>c. CountsKept(ds, r.n)
  <2> SUFFICES ASSUME NEW m \in 1 .. M
               PROVE  /\ ds[m].f = "protected" => ds[m].n = Counted(ds, m - 1, ds[m].t) /\ ds[m].n[1] < ERRORCCALLS
                      /\ Switches(ds[m]) => r.n[ds[m].t] = Counted(ds, m - 1, ds[m].t) /\ r.n[ds[m].t][1] < ERRORCCALLS
    BY <1>2 DEF CountsKept
  <2>1. Counted(ds, m - 1, cs[m].t) = Counted(cs, m - 1, cs[m].t)
    <3> DEFINE k == m - 1
    <3>1. k \in Nat /\ Agree(ds, cs, k)
      BY <1>1, <1>2 DEF Agree
    <3> HIDE DEF k
    <3>2. Counted(ds, k, cs[m].t) = Counted(cs, k, cs[m].t)
      BY <3>1, CountsOfPrefix
    <3> QED
      BY <3>2 DEF k
  <2>2. ds[m] = cs[m] /\ m \in 1 .. Len(cs) /\ cs[m].t \in Threads
    BY <1>1, <1>2
  <2>3. Switches(cs[m]) => r.n[cs[m].t] = s.n[cs[m].t]
    BY <1>1, <2>2
  <2> QED
    BY <1>3, <2>1, <2>2, <2>3 DEF CountsKept
<1>t. ThreadsRun(ds, r.st, r.unstarted)
  BY <1>1, <1>2, <1>3 DEF ThreadsRun
<1>i. LevelsIn(ds, r.ci)
  <2> SUFFICES ASSUME NEW m \in 1 .. M, Live(ds, m), Leveled(ds, m)
               PROVE  /\ Level(ds[m]) \in 1 .. Len(r.ci[ds[m].t])
                      /\ ds[m].f = "call" => r.ci[ds[m].t][ds[m].ci].fresh /\ ds[m].ci > 1
                      /\ ds[m].f = "C" /\ m > 1 => ds[m].ci > 1
    BY <1>2 DEF LevelsIn
  <2>0. ds[m] = cs[m] /\ m \in 1 .. Len(cs) /\ Live(cs, m) /\ Leveled(cs, m) /\ cs[m].t \in Threads
    BY <1>1, <1>2, <1>4, <1>5
  <2>1. /\ Level(cs[m]) \in 1 .. Len(s.ci[cs[m].t])
        /\ cs[m].f = "call" => s.ci[cs[m].t][cs[m].ci].fresh /\ cs[m].ci > 1
        /\ cs[m].f = "C" /\ m > 1 => cs[m].ci > 1
    BY <1>3, <2>0 DEF LevelsIn
  <2>2. CASE cs[m].t # t
    <3>1. r.ci[cs[m].t] = s.ci[cs[m].t]
      BY <2>0, <2>2
    <3> QED
      BY <2>0, <2>1, <3>1
  <2>3. CASE cs[m].t = t
    <3>1. Level(cs[m]) \in 1 .. Len(r.ci[t])
      BY <1>1, <2>0, <2>1, <2>3
    <3>2. ASSUME cs[m].f = "call"
          PROVE  r.ci[t][cs[m].ci].fresh
      <4>1. Level(cs[m]) = cs[m].ci
        BY <3>2 DEF Level
      <4> DEFINE k == cs[m].ci
      <4>3. k \in 1 .. Len(r.ci[t]) /\ k <= Len(s.ci[t])
        BY <1>1, <2>1, <2>3, <3>1, <4>1
      <4> HIDE DEF k
      <4>4. Same(r.ci[t][k], s.ci[t][k])
        BY <4>3
      <4>2. Same(r.ci[t][cs[m].ci], s.ci[t][cs[m].ci])
        BY <4>4 DEF k
      <4> QED
        BY <2>1, <2>3, <3>2, <4>2 DEF Same
    <3> QED
      BY <2>0, <2>1, <2>3, <3>1, <3>2
  <2> QED
    BY <2>2, <2>3
<1>l. LevelsGrow(ds)
  <2> SUFFICES ASSUME NEW m \in 1 .. M, NEW j \in 1 .. M, m < j, ds[j].t = ds[m].t, Live(ds, m),
                      Leveled(ds, m), Leveled(ds, j)
               PROVE  IF ds[j].f = "protected" THEN Level(ds[m]) <= Level(ds[j]) ELSE Level(ds[m]) < Level(ds[j])
    BY <1>2 DEF LevelsGrow
  <2>1. /\ m \in 1 .. Len(cs) /\ Live(cs, m) /\ Leveled(cs, m) /\ ds[m] = cs[m]
        /\ j \in 1 .. Len(cs) /\ Leveled(cs, j) /\ ds[j] = cs[j]
    BY <1>2, <1>4, <1>5
  <2>2. IF cs[j].f = "protected" THEN Level(cs[m]) <= Level(cs[j]) ELSE Level(cs[m]) < Level(cs[j])
    BY <1>3, <2>1 DEF LevelsGrow
  <2> QED
    BY <2>1, <2>2
<1>k. CallbacksRun(ds, r.ci, r.st)
  <2> SUFFICES ASSUME NEW u \in Threads, r.st[u] # "ERRRUN", NEW k \in 1 .. Len(r.ci[u]), r.ci[u][k].fn = "callback"
               PROVE  CallbackOf(ds, u, k)
    BY DEF CallbacksRun
  <2>1. k \in 1 .. Len(s.ci[u]) /\ s.ci[u][k].fn = "callback"
    <3>1. CASE u # t
      BY <3>1
    <3>2. CASE u = t
      BY <1>1, <3>2 DEF Same, Plain
    <3> QED
      BY <3>1, <3>2
  <2>2. PICK m \in 1 .. Len(cs) : Is(cs[m], {"callback"}) /\ cs[m].t = u /\ cs[m].ci = k /\ Live(cs, m)
    BY <1>3, <2>1 DEF CallbacksRun, CallbackOf
  <2>3. m \in 1 .. M
    <3> SUFFICES ASSUME m \in i .. Len(cs)
                 PROVE  FALSE
      BY <1>1
    <3>1. u = t /\ cs[m].ci > Len(r.ci[t])
      BY <2>2
    <3> QED
      BY <1>1, <2>2, <3>1
  <2>4. ds[m] = cs[m] /\ Live(ds, m) /\ m \in 1 .. Len(ds)
    BY <1>2, <1>4, <2>2, <2>3
  <2> QED
    BY <2>2, <2>4 DEF CallbackOf
<1>e. Entries(r.ci, r.st)
  <2> SUFFICES ASSUME NEW u \in Threads
               PROVE  EntriesOf(r.ci[u], r.st[u])
    BY DEF Entries
  <2>1. EntriesOf(s.ci[u], s.st[u])
    BY <1>3 DEF Entries
  <2>2. CASE u # t
    BY <2>1, <2>2
  <2>3. CASE u = t
    <3>1. EntriesOf(s.ci[t], "OK")
      BY <2>1, <2>3
    <3>2. Len(r.ci[t]) >= 2 => r.ci[t][2].fresh
      BY <1>1, <3>1 DEF EntriesOf, Same
    <3>3. ASSUME NEW k \in 1 .. Len(r.ci[t]), r.ci[t][k].ypcall, NEW a \in 1 .. k
          PROVE  r.ci[t][a].fn # "callback"
      <4>0. k \in 1 .. Len(s.ci[t])
        BY <1>1, <3>3 DEF Plain
      <4>1. k \in 1 .. Len(s.ci[t]) /\ s.ci[t][k].ypcall
        BY <3>3, <4>0 DEF Same
      <4>2. s.ci[t][a].fn # "callback"
        BY <3>1, <4>1 DEF EntriesOf
      <4>3. Same(r.ci[t][a], s.ci[t][a])
        BY <1>1, <4>1
      <4> QED
        BY <4>2, <4>3 DEF Same
    <3>4. EntriesOf(r.ci[t], "OK")
      BY <1>1, <3>2, <3>3 DEF EntriesOf
    <3> QED
      BY <2>3, <3>4
  <2> QED
    BY <2>2, <2>3
<1> QED
  BY <1>g, <1>a, <1>c, <1>t, <1>i, <1>l, <1>k, <1>e DEF Sound

(* All frames of a thread are cut, if it has any: its list of calls and    *)
(* status may change.                                                      *)
NoCallback(list) == \A k \in 1 .. Len(list) : list[k].fn # "callback"

(* All frames of a thread are left at once, as when it yields, ends or     *)
(* fails.                                                                  *)
LEMMA DropSound ==
    ASSUME NEW s \in State, NEW r \in State, Sound(s), NEW t \in Threads, NEW i \in 2 .. Len(s.cs) + 1,
           r.cs = SubSeq(s.cs, 1, i - 1),
           \A j \in i .. Len(s.cs) : s.cs[j].t = t,
           \A m \in 1 .. i - 1 : s.cs[m].t # t,
           \A u \in Threads : u # t => r.n[u] = s.n[u] /\ r.ci[u] = s.ci[u] /\ r.st[u] = s.st[u],
           r.unstarted \subseteq s.unstarted, r.st[t] = "YIELD" => t \notin r.unstarted,
           EntriesOf(r.ci[t], r.st[t]), r.st[t] = "ERRRUN" \/ NoCallback(r.ci[t])
    PROVE  Sound(r)
PROOF
<1> DEFINE cs == s.cs
           ds == r.cs
           M == i - 1
<1>1. /\ cs \in Seq(Frame) /\ Len(cs) \in Nat /\ M \in 1 .. Len(cs) /\ M \in Nat
      /\ \A m \in 1 .. Len(cs) : cs[m] \in Frame /\ cs[m].t \in Threads
      /\ r.unstarted \in SUBSET Threads
  BY StateFields
<1>2. Len(ds) = M /\ ds # <<>> /\ \A m \in 1 .. M : ds[m] = cs[m] /\ m \in 1 .. Len(cs) /\ cs[m].t \in Threads
  <2>1. ds = SubSeq(cs, 1, M)
    OBVIOUS
  <2>2. \A m \in 1 .. M : cs[m] \in Frame /\ m \in 1 .. Len(cs) /\ cs[m].t \in Threads
    BY <1>1
  <2> HIDE DEF M, ds, cs
  <2>3. ds \in Seq(Frame) /\ Len(ds) = M /\ \A m \in 1 .. M : ds[m] = cs[m]
    BY <1>1, <2>1, <2>2, SubSeqProperties
  <2>4. ds # <<>>
    BY ONLY <1>1, <2>3
  <2> QED
    BY ONLY <2>2, <2>3, <2>4
<1>3. /\ Grammar(cs) /\ Apart(cs) /\ CountsKept(cs, s.n) /\ ThreadsRun(cs, s.st, s.unstarted)
      /\ LevelsIn(cs, s.ci) /\ LevelsGrow(cs) /\ CallbacksRun(cs, s.ci, s.st) /\ Entries(s.ci, s.st)
  BY DEF Sound
<1>0. \A m \in 1 .. M : cs[m].t # t /\ r.ci[cs[m].t] = s.ci[cs[m].t] /\ r.st[cs[m].t] = s.st[cs[m].t] /\ r.n[cs[m].t] = s.n[cs[m].t]
  BY <1>2
<1>4. ASSUME NEW m \in 1 .. M
      PROVE  Live(ds, m) <=> Live(cs, m)
  <2>1. \A j \in m .. M : ds[j] = cs[j] /\ j \in m .. Len(cs)
    BY <1>1, <1>2
  <2>2. \A j \in m .. Len(cs) : j \in m .. M \/ j \in i .. Len(cs)
    BY <1>1
  <2>3. \A j \in i .. Len(cs) : ~ClosesSelf(cs[j], cs[m].t)
    BY <1>0 DEF ClosesSelf
  <2> QED
    BY <1>2, <2>1, <2>2, <2>3 DEF Live
<1>5. \A m \in 1 .. M : Leveled(ds, m) <=> Leveled(cs, m)
  BY <1>1, <1>2 DEF Leveled, Again
<1>g. Grammar(ds)
  <2>1. \A m \in 2 .. M : ds[m] = cs[m] /\ ds[m - 1] = cs[m - 1] /\ m \in 2 .. Len(cs)
    BY <1>1, <1>2
  <2>2. ds[1] = cs[1]
    BY <1>1, <1>2
  <2> QED
    BY <1>2, <1>3, <2>1, <2>2 DEF Grammar
<1>a. Apart(ds)
  <2>1. \A m \in 1 .. M : ds[m] = cs[m] /\ m \in 1 .. Len(cs)
    BY <1>2
  <2>2. \A m \in 1 .. M : \A a \in 1 .. m : a \in 1 .. M
    BY <1>1
  <2>3. \A m \in 1 .. M : \A b \in m + 1 .. M : b \in 1 .. M /\ b \in m + 1 .. Len(cs)
    BY <1>1
  <2>4. Len(ds) = M /\ Apart(cs)
    BY <1>2, <1>3
  <2> HIDE DEF cs, ds, M
  <2>5. ASSUME NEW m \in 1 .. M, Switches(ds[m]), NEW a \in 1 .. m, NEW b \in m + 1 .. M
        PROVE  ds[a].t # ds[b].t
    <3>1. m \in 1 .. Len(cs) /\ Switches(cs[m]) /\ ds[a] = cs[a] /\ ds[b] = cs[b] /\ b \in m + 1 .. Len(cs)
      BY ONLY <2>1, <2>2, <2>3, <2>5
    <3> QED
      BY ONLY <2>4, <2>5, <3>1 DEF Apart
  <2> QED
    BY ONLY <2>4, <2>5 DEF Apart
<1>c. CountsKept(ds, r.n)
  <2> SUFFICES ASSUME NEW m \in 1 .. M
               PROVE  /\ ds[m].f = "protected" => ds[m].n = Counted(ds, m - 1, ds[m].t) /\ ds[m].n[1] < ERRORCCALLS
                      /\ Switches(ds[m]) => r.n[ds[m].t] = Counted(ds, m - 1, ds[m].t) /\ r.n[ds[m].t][1] < ERRORCCALLS
    BY <1>2 DEF CountsKept
  <2>1. Counted(ds, m - 1, cs[m].t) = Counted(cs, m - 1, cs[m].t)
    <3> DEFINE k == m - 1
    <3>1. k \in Nat /\ Agree(ds, cs, k)
      BY <1>1, <1>2 DEF Agree
    <3> HIDE DEF k
    <3>2. Counted(ds, k, cs[m].t) = Counted(cs, k, cs[m].t)
      BY <3>1, CountsOfPrefix
    <3> QED
      BY <3>2 DEF k
  <2>2. ds[m] = cs[m] /\ m \in 1 .. Len(cs) /\ r.n[cs[m].t] = s.n[cs[m].t]
    BY <1>0, <1>2
  <2> QED
    BY <1>3, <2>1, <2>2 DEF CountsKept
<1>t. ThreadsRun(ds, r.st, r.unstarted)
  <2>1. \A m \in 1 .. M : r.st[ds[m].t] = "OK" /\ ds[m].t \notin r.unstarted
    BY <1>0, <1>2, <1>3 DEF ThreadsRun
  <2>2. \A u \in r.unstarted : r.st[u] # "YIELD"
    BY <1>1, <1>3 DEF ThreadsRun
  <2> QED
    BY <1>2, <2>1, <2>2 DEF ThreadsRun
<1>i. LevelsIn(ds, r.ci)
  <2> SUFFICES ASSUME NEW m \in 1 .. M, Live(ds, m), Leveled(ds, m)
               PROVE  /\ Level(ds[m]) \in 1 .. Len(r.ci[ds[m].t])
                      /\ ds[m].f = "call" => r.ci[ds[m].t][ds[m].ci].fresh /\ ds[m].ci > 1
                      /\ ds[m].f = "C" /\ m > 1 => ds[m].ci > 1
    BY <1>2 DEF LevelsIn
  <2>0. ds[m] = cs[m] /\ m \in 1 .. Len(cs) /\ Live(cs, m) /\ Leveled(cs, m) /\ r.ci[cs[m].t] = s.ci[cs[m].t]
    BY <1>0, <1>2, <1>4, <1>5
  <2> QED
    BY <1>3, <2>0 DEF LevelsIn
<1>l. LevelsGrow(ds)
  <2> SUFFICES ASSUME NEW m \in 1 .. M, NEW j \in 1 .. M, m < j, ds[j].t = ds[m].t, Live(ds, m),
                      Leveled(ds, m), Leveled(ds, j)
               PROVE  IF ds[j].f = "protected" THEN Level(ds[m]) <= Level(ds[j]) ELSE Level(ds[m]) < Level(ds[j])
    BY <1>2 DEF LevelsGrow
  <2>1. /\ m \in 1 .. Len(cs) /\ Live(cs, m) /\ Leveled(cs, m) /\ ds[m] = cs[m]
        /\ j \in 1 .. Len(cs) /\ Leveled(cs, j) /\ ds[j] = cs[j]
    BY <1>2, <1>4, <1>5
  <2>2. IF cs[j].f = "protected" THEN Level(cs[m]) <= Level(cs[j]) ELSE Level(cs[m]) < Level(cs[j])
    BY <1>3, <2>1 DEF LevelsGrow
  <2> QED
    BY <2>1, <2>2
<1>k. CallbacksRun(ds, r.ci, r.st)
  <2> SUFFICES ASSUME NEW u \in Threads, r.st[u] # "ERRRUN", NEW k \in 1 .. Len(r.ci[u]), r.ci[u][k].fn = "callback"
               PROVE  CallbackOf(ds, u, k)
    BY DEF CallbacksRun
  <2>1. u # t
    BY DEF NoCallback
  <2>2. s.st[u] # "ERRRUN" /\ k \in 1 .. Len(s.ci[u]) /\ s.ci[u][k].fn = "callback"
    BY <2>1
  <2>3. PICK m \in 1 .. Len(cs) : Is(cs[m], {"callback"}) /\ cs[m].t = u /\ cs[m].ci = k /\ Live(cs, m)
    BY <1>3, <2>2 DEF CallbacksRun, CallbackOf
  <2>4. m \in 1 .. M
    BY <1>1, <2>1, <2>3
  <2>5. ds[m] = cs[m] /\ Live(ds, m) /\ m \in 1 .. Len(ds)
    BY <1>2, <1>4, <2>3, <2>4
  <2> QED
    BY <2>3, <2>5 DEF CallbackOf
<1>e. Entries(r.ci, r.st)
  <2> SUFFICES ASSUME NEW u \in Threads
               PROVE  EntriesOf(r.ci[u], r.st[u])
    BY DEF Entries
  <2>1. CASE u # t
    BY <1>3, <2>1 DEF Entries
  <2>2. CASE u = t
    BY <2>2
  <2> QED
    BY <2>1, <2>2
<1> QED
  BY <1>g, <1>a, <1>c, <1>t, <1>i, <1>l, <1>k, <1>e DEF Sound

(* A thread that was reset has its base entry only.                        *)
LEMMA BaseEntries ==
    /\ base_ci \in CallInfo /\ <<base_ci>> \in Seq(CallInfo)
    /\ EntriesOf(<<base_ci>>, "OK") /\ NoCallback(<<base_ci>>)
PROOF
<1>1. base_ci \in CallInfo /\ base_ci.fn = "base" /\ base_ci.ypcall = FALSE
  BY DEF base_ci, Info, CallInfo, Statuses
<1> HIDE DEF base_ci
<1>2. Len(<<base_ci>>) = 1 /\ <<base_ci>>[1] = base_ci
  OBVIOUS
<1>3. \A k \in 1 .. 1 : k = 1
  OBVIOUS
<1> QED
  BY <1>1, <1>2, <1>3 DEF EntriesOf, NoCallback

(* A thread closes itself: what it has on the C stack is never returned    *)
(* to, and its list of calls is reset.                                     *)
LEMMA SelfSound ==
    ASSUME NEW s \in State, NEW r \in State, Sound(s), NEW e \in Frame,
           r.cs = Append(s.cs, e), Is(e, {"closeself"}), e.at \in Statuses, e.t # Main,
           e.t = Last(s.cs).t, Last(s.cs).f = "execute",
           r.st = s.st, r.unstarted = s.unstarted,
           \A u \in Threads : u # e.t => r.n[u] = s.n[u] /\ r.ci[u] = s.ci[u],
           r.ci[e.t] = <<base_ci>>
    PROVE  Sound(r)
PROOF
<1> DEFINE cs == s.cs
           ds == r.cs
           N == Len(s.cs)
           t == e.t
<1>1. /\ cs \in Seq(Frame) /\ N \in Nat \ {0} /\ Last(cs) = cs[N] /\ t \in Threads
      /\ \A m \in 1 .. N : cs[m] \in Frame /\ cs[m].t \in Threads
  BY StateFields, FrameFields DEF Last, Sound, Grammar
<1>2. /\ ds \in Seq(Frame) /\ Len(ds) = N + 1 /\ ds[N + 1] = e /\ \A m \in 1 .. N : ds[m] = cs[m]
      /\ ds # <<>>
  BY <1>1
<1>3. /\ Grammar(cs) /\ Apart(cs) /\ CountsKept(cs, s.n) /\ ThreadsRun(cs, s.st, s.unstarted)
      /\ LevelsIn(cs, s.ci) /\ LevelsGrow(cs) /\ CallbacksRun(cs, s.ci, s.st) /\ Entries(s.ci, s.st)
  BY DEF Sound
<1>4. \A m \in 1 .. N : Switches(cs[m]) => cs[m].t # t
  <2>1. ~Switches(cs[N])
    BY <1>1 DEF Switches, Is
  <2> QED
    BY <1>1, <1>3, <2>1 DEF Apart
<1>5. \A m \in 1 .. N : IF cs[m].t = t THEN ~Live(ds, m) ELSE Live(ds, m) <=> Live(cs, m)
  <2>1. \A m \in 1 .. N : \A j \in m .. N + 1 : j \in m .. N \/ j = N + 1
    BY <1>1
  <2>2. \A u : ClosesSelf(e, u) <=> u = t
    BY DEF ClosesSelf
  <2>3. ASSUME NEW m \in 1 .. N
        PROVE  N + 1 \in m .. N + 1 /\ ds[m] = cs[m] /\ \A j \in m .. N : ds[j] = cs[j]
    BY <1>1, <1>2
  <2>4. ASSUME NEW m \in 1 .. N, cs[m].t = t
        PROVE  ~Live(ds, m)
    BY <1>2, <2>2, <2>3, <2>4 DEF Live
  <2>5. ASSUME NEW m \in 1 .. N, cs[m].t # t
        PROVE  Live(ds, m) <=> Live(cs, m)
    BY <1>1, <1>2, <2>1, <2>2, <2>3, <2>5 DEF Live
  <2> QED
    BY <2>4, <2>5
<1>6. \A m \in 1 .. N : Leveled(ds, m) <=> Leveled(cs, m)
  BY <1>1, <1>2 DEF Leveled, Again
<1>7. \A m \in 1 .. N + 1 : m \in 1 .. N \/ m = N + 1
  BY <1>1
<1>8. ~Leveled(ds, N + 1)
  BY <1>2 DEF Leveled, Again, Closing, Is
<1>9. Len(r.ci[t]) = 1 /\ r.ci[t][1] = base_ci
  OBVIOUS
<1>g. Grammar(ds)
  <2>1. Below(e, cs[N])
    BY <1>1, FrameFields DEF Below, CalledC, Is, Library, Switches
  <2>2. \A m \in 2 .. N : ds[m] = cs[m] /\ ds[m - 1] = cs[m - 1]
    BY <1>1, <1>2
  <2>3. \A m \in 2 .. N + 1 : m \in 2 .. N \/ (m = N + 1 /\ ds[m] = e /\ ds[m - 1] = cs[N])
    BY <1>1, <1>2
  <2>4. ds[1] = cs[1]
    BY <1>1, <1>2
  <2> QED
    BY <1>2, <1>3, <2>1, <2>2, <2>3, <2>4 DEF Grammar
<1>a. Apart(ds)
  <2> SUFFICES ASSUME NEW m \in 1 .. N + 1, Switches(ds[m]), NEW i \in 1 .. m, NEW j \in m + 1 .. N + 1
               PROVE  ds[i].t # ds[j].t
    BY <1>2 DEF Apart
  <2>1. m \in 1 .. N /\ i \in 1 .. N /\ Switches(cs[m]) /\ ds[i] = cs[i]
    BY <1>1, <1>2
  <2>2. CASE j \in 1 .. N
    BY <1>2, <1>3, <2>1, <2>2 DEF Apart
  <2>3. CASE j = N + 1
    <3>1. m # N
      BY <1>1, <1>4, <2>1
    <3>2. N \in m + 1 .. N /\ ds[j].t = cs[N].t
      BY <1>1, <1>2, <2>1, <2>3, <3>1
    <3> QED
      BY <1>3, <2>1, <3>2 DEF Apart
  <2> QED
    BY <1>1, <2>2, <2>3
<1>c. CountsKept(ds, r.n)
  <2>0. ~Switches(e) /\ e.f # "protected"
    BY DEF Switches, Is
  <2> SUFFICES ASSUME NEW m \in 1 .. N
               PROVE  /\ ds[m].f = "protected" => ds[m].n = Counted(ds, m - 1, ds[m].t) /\ ds[m].n[1] < ERRORCCALLS
                      /\ Switches(ds[m]) => r.n[ds[m].t] = Counted(ds, m - 1, ds[m].t) /\ r.n[ds[m].t][1] < ERRORCCALLS
    BY <1>2, <1>7, <2>0 DEF CountsKept
  <2>1. Counted(ds, m - 1, cs[m].t) = Counted(cs, m - 1, cs[m].t)
    <3> DEFINE k == m - 1
    <3>1. k \in Nat /\ Agree(ds, cs, k)
      BY <1>1, <1>2 DEF Agree
    <3> HIDE DEF k
    <3>2. Counted(ds, k, cs[m].t) = Counted(cs, k, cs[m].t)
      BY <3>1, CountsOfPrefix
    <3> QED
      BY <3>2 DEF k
  <2>2. ds[m] = cs[m] /\ cs[m].t \in Threads
    BY <1>1, <1>2
  <2>3. Switches(cs[m]) => r.n[cs[m].t] = s.n[cs[m].t]
    BY <1>4, <2>2
  <2> QED
    BY <1>3, <2>1, <2>2, <2>3 DEF CountsKept
<1>t. ThreadsRun(ds, r.st, r.unstarted)
  BY <1>1, <1>2, <1>3, <1>7 DEF ThreadsRun
<1>i. LevelsIn(ds, r.ci)
  <2> SUFFICES ASSUME NEW m \in 1 .. N, Live(ds, m), Leveled(ds, m)
               PROVE  /\ Level(ds[m]) \in 1 .. Len(r.ci[ds[m].t])
                      /\ ds[m].f = "call" => r.ci[ds[m].t][ds[m].ci].fresh /\ ds[m].ci > 1
                      /\ ds[m].f = "C" /\ m > 1 => ds[m].ci > 1
    BY <1>2, <1>7, <1>8 DEF LevelsIn
  <2>1. cs[m].t # t
    BY <1>5
  <2>2. ds[m] = cs[m] /\ Live(cs, m) /\ Leveled(cs, m) /\ r.ci[cs[m].t] = s.ci[cs[m].t]
    BY <1>1, <1>2, <1>5, <1>6, <2>1
  <2> QED
    BY <1>3, <2>2 DEF LevelsIn
<1>l. LevelsGrow(ds)
  <2> SUFFICES ASSUME NEW m \in 1 .. N, NEW j \in 1 .. N, m < j, ds[j].t = ds[m].t, Live(ds, m),
                      Leveled(ds, m), Leveled(ds, j)
               PROVE  IF ds[j].f = "protected" THEN Level(ds[m]) <= Level(ds[j]) ELSE Level(ds[m]) < Level(ds[j])
    BY <1>2, <1>7, <1>8 DEF LevelsGrow
  <2>1. Live(cs, m) /\ Leveled(cs, m) /\ ds[m] = cs[m] /\ Leveled(cs, j) /\ ds[j] = cs[j]
    BY <1>2, <1>5, <1>6
  <2>2. IF cs[j].f = "protected" THEN Level(cs[m]) <= Level(cs[j]) ELSE Level(cs[m]) < Level(cs[j])
    BY <1>3, <2>1 DEF LevelsGrow
  <2> QED
    BY <2>1, <2>2
<1>k. CallbacksRun(ds, r.ci, r.st)
  <2> SUFFICES ASSUME NEW u \in Threads, r.st[u] # "ERRRUN", NEW k \in 1 .. Len(r.ci[u]), r.ci[u][k].fn = "callback"
               PROVE  CallbackOf(ds, u, k)
    BY DEF CallbacksRun
  <2>1. u # t
    BY <1>9 DEF base_ci, Info
  <2>2. s.st[u] # "ERRRUN" /\ k \in 1 .. Len(s.ci[u]) /\ s.ci[u][k].fn = "callback"
    BY <2>1
  <2>3. PICK m \in 1 .. N : Is(cs[m], {"callback"}) /\ cs[m].t = u /\ cs[m].ci = k /\ Live(cs, m)
    BY <1>3, <2>2 DEF CallbacksRun, CallbackOf
  <2>4. ds[m] = cs[m] /\ Live(ds, m) /\ m \in 1 .. Len(ds)
    BY <1>1, <1>2, <1>5, <2>1, <2>3
  <2> QED
    BY <2>3, <2>4 DEF CallbackOf
<1>e. Entries(r.ci, r.st)
  <2> SUFFICES ASSUME NEW u \in Threads
               PROVE  EntriesOf(r.ci[u], r.st[u])
    BY DEF Entries
  <2>1. CASE u # t
    BY <1>3, <2>1 DEF Entries
  <2>2. CASE u = t
    <3>1. r.st[t] = "OK"
      BY <1>1, <1>3 DEF ThreadsRun
    <3> QED
      BY <2>2, <3>1, BaseEntries
  <2> QED
    BY <2>1, <2>2
<1> QED
  BY <1>g, <1>a, <1>c, <1>t, <1>i, <1>l, <1>k, <1>e DEF Sound

-----------------------------------------------------------------------------
(* Lemmas on the operators of the model. *)

(* Setting one field leaves the others.                                    *)
LEMMA SetFields ==
    ASSUME NEW s \in State
    PROVE  /\ \A c \in Seq(Frame) :
                LET r == [s EXCEPT !.cs = c] IN
                /\ r \in State /\ r.cs = c /\ r.ci = s.ci /\ r.tbc = s.tbc /\ r.st = s.st /\ r.unstarted = s.unstarted /\ r.n = s.n
           /\ \A t \in Threads, l \in Seq(CallInfo) :
                LET r == [s EXCEPT !.ci[t] = l] IN
                /\ r \in State /\ r.cs = s.cs /\ r.ci = [s.ci EXCEPT ![t] = l] /\ r.tbc = s.tbc /\ r.st = s.st
                /\ r.unstarted = s.unstarted /\ r.n = s.n
           /\ \A t \in Threads, m \in Nat \X Nat :
                LET r == [s EXCEPT !.n[t] = m] IN
                /\ r \in State /\ r.cs = s.cs /\ r.ci = s.ci /\ r.tbc = s.tbc /\ r.st = s.st
                /\ r.unstarted = s.unstarted /\ r.n = [s.n EXCEPT ![t] = m]
           /\ \A t \in Threads, x \in Statuses :
                LET r == [s EXCEPT !.st[t] = x] IN
                /\ r \in State /\ r.cs = s.cs /\ r.ci = s.ci /\ r.tbc = s.tbc /\ r.st = [s.st EXCEPT ![t] = x]
                /\ r.unstarted = s.unstarted /\ r.n = s.n
PROOF
<1>1. ASSUME NEW c \in Seq(Frame)
      PROVE  LET r == [s EXCEPT !.cs = c] IN
             /\ r \in State /\ r.cs = c /\ r.ci = s.ci /\ r.tbc = s.tbc /\ r.st = s.st /\ r.unstarted = s.unstarted /\ r.n = s.n
  BY DEF State
<1>2. ASSUME NEW t \in Threads, NEW l \in Seq(CallInfo)
      PROVE  LET r == [s EXCEPT !.ci[t] = l] IN
             /\ r \in State /\ r.cs = s.cs /\ r.ci = [s.ci EXCEPT ![t] = l] /\ r.tbc = s.tbc /\ r.st = s.st
             /\ r.unstarted = s.unstarted /\ r.n = s.n
  BY DEF State
<1>3. ASSUME NEW t \in Threads, NEW m \in Nat \X Nat
      PROVE  LET r == [s EXCEPT !.n[t] = m] IN
             /\ r \in State /\ r.cs = s.cs /\ r.ci = s.ci /\ r.tbc = s.tbc /\ r.st = s.st
             /\ r.unstarted = s.unstarted /\ r.n = [s.n EXCEPT ![t] = m]
  BY DEF State
<1>4. ASSUME NEW t \in Threads, NEW x \in Statuses
      PROVE  LET r == [s EXCEPT !.st[t] = x] IN
             /\ r \in State /\ r.cs = s.cs /\ r.ci = s.ci /\ r.tbc = s.tbc /\ r.st = [s.st EXCEPT ![t] = x]
             /\ r.unstarted = s.unstarted /\ r.n = s.n
  BY DEF State
<1> QED
  BY <1>1, <1>2, <1>3, <1>4

(* The numbers in a sequence are bounded, so Max has its meaning in Free.  *)
LEMMA SeqBounded ==
    ASSUME NEW q \in Seq(Nat)
    PROVE  \E b \in Nat : \A i \in 1 .. Len(q) : q[i] <= b
PROOF
<1> DEFINE N == Len(q)
           Bound(n) == \E b \in Nat : \A i \in 1 .. n : q[i] <= b
           S == {n \in 0 .. N : ~Bound(n)}
<1>0. N \in Nat /\ \A i \in 1 .. N : q[i] \in Nat
  OBVIOUS
<1>1. Bound(0)
  <2>1. \A i \in 1 .. 0 : q[i] <= 0
    OBVIOUS
  <2> QED
    BY <2>1
<1> HIDE DEF N
<1>2. ASSUME NEW n \in 1 .. N, Bound(n - 1)
      PROVE  Bound(n)
  <2>1. PICK b \in Nat : \A i \in 1 .. n - 1 : q[i] <= b
    BY <1>2
  <2>2. PICK c \in Nat : b <= c /\ q[n] <= c
    <3>1. q[n] \in Nat /\ (b <= q[n] \/ q[n] <= b)
      BY <1>0
    <3> QED
      BY <3>1
  <2>3. \A i \in 1 .. n : q[i] <= c
    <3> SUFFICES ASSUME NEW i \in 1 .. n
                 PROVE  q[i] <= c
      OBVIOUS
    <3>1. q[i] \in Nat /\ (i \in 1 .. n - 1 \/ i = n)
      BY <1>0
    <3> QED
      BY <2>1, <2>2, <3>1
  <2> QED
    BY <2>3
<1> HIDE DEF Bound
<1>3. CASE S = {}
  <2>1. Bound(N)
    BY <1>0, <1>3
  <2> QED
    BY <2>1 DEF Bound, N
<1>4. CASE S # {}
  <2>1. S \in SUBSET Nat
    BY <1>0
  <2> DEFINE n == Min(S)
  <2>2. n \in S /\ \A x \in S : n <= x
    BY <1>4, <2>1, MinOfNat
  <2> HIDE DEF n
  <2>3. n \in 1 .. N /\ ~Bound(n)
    BY <1>0, <1>1, <2>2
  <2>4. n - 1 \notin S
    BY <1>0, <2>2, <2>3
  <2>5. Bound(n - 1)
    BY <1>0, <2>3, <2>4
  <2> QED
    BY <1>2, <2>3, <2>5
<1> QED
  BY <1>3, <1>4

(* The next free place of a stack is a number.                             *)
LEMMA FreeType ==
    ASSUME NEW s \in State, NEW t \in Threads, Len(s.ci[t]) >= 1
    PROVE  Free(s, t) \in Nat /\ TopCi(s, t) \in CallInfo
PROOF
<1>1. s.ci[t] \in Seq(CallInfo) /\ s.tbc[t] \in Seq(Nat)
  BY StateFields
<1>2. TopCi(s, t) \in CallInfo
  BY <1>1 DEF TopCi, Last
<1>3. TopCi(s, t).func \in Nat
  BY <1>2 DEF CallInfo
<1> DEFINE f == TopCi(s, t).func
           q == s.tbc[t]
           S == {f} \cup ToSet(q)
<1>4. PICK b \in Nat : \A i \in 1 .. Len(q) : q[i] <= b
  BY <1>1, SeqBounded
<1>5. \A x \in ToSet(q) : x \in Nat /\ x <= b
  BY <1>1, <1>4 DEF ToSet
<1> DEFINE c == IF f <= b THEN b ELSE f
<1>6. c \in Nat /\ S \in SUBSET (0 .. c) /\ S # {}
  BY <1>3, <1>5
<1>7. Max(S) \in S
  BY <1>6, MaxOfBounded
<1>8. Max(S) \in Nat
  BY <1>3, <1>5, <1>7
<1> QED
  BY <1>2, <1>8 DEF Free

(* A new CallInfo is not fresh and recovers nothing.                       *)
LEMMA InfoType ==
    ASSUME NEW fn \in {"base", "lua", "yield"} \cup Library, NEW func \in Nat
    PROVE  /\ Info(fn, func) \in CallInfo /\ Info(fn, func).fn = fn /\ Info(fn, func).fresh = FALSE
           /\ Info(fn, func).ypcall = FALSE
PROOF
  BY DEF Info, CallInfo, Statuses

(* What counts with one more frame.                                        *)
LEMMA CountedAppend ==
    ASSUME NEW cs \in Seq(Frame), NEW e \in Frame, NEW t
    PROVE  Counted(Append(cs, e), Len(cs) + 1, t) =
               <<Counted(cs, Len(cs), t)[1] + (IF Counts(e) THEN 1 ELSE 0),
                 IF ClosesSelf(e, t) THEN (IF t = Main THEN 1 ELSE 0)
                 ELSE Counted(cs, Len(cs), t)[2] + (IF Bars(e, t) THEN 1 ELSE 0)>>
PROOF
<1> DEFINE ds == Append(cs, e)
           N == Len(cs)
<1>1. N \in Nat /\ ds[N + 1] = e /\ Agree(ds, cs, N)
  BY DEF Agree
<1> HIDE DEF ds, N
<1>2. Counted(ds, N, t) = Counted(cs, N, t)
  BY <1>1, CountsOfPrefix
<1>3. Counted(ds, N + 1, t) =
          <<Counted(ds, N, t)[1] + (IF Counts(e) THEN 1 ELSE 0),
            IF ClosesSelf(e, t) THEN (IF t = Main THEN 1 ELSE 0)
            ELSE Counted(ds, N, t)[2] + (IF Bars(e, t) THEN 1 ELSE 0)>>
  BY <1>1, CountedStep
<1> QED
  BY <1>2, <1>3 DEF ds, N

(* A frame that counts for nothing leaves the counts.                      *)
LEMMA CountedSame ==
    ASSUME NEW cs \in Seq(Frame), NEW e \in Frame, NEW t, ~Counts(e), ~ClosesSelf(e, t), ~Bars(e, t)
    PROVE  Counted(Append(cs, e), Len(cs) + 1, t) = Counted(cs, Len(cs), t)
PROOF
<1>1. Counted(cs, Len(cs), t) \in Nat \X Nat
  BY CountedType
<1> QED
  BY <1>1, CountedAppend

(* luaD_rawrunprotected. *)
LEMMA ProtectSound ==
    ASSUME NEW s \in State, Sound(s), NEW t \in Threads, CountedUp(s, t), NEW then \in Thens,
           ProtectedBy([f |-> "protected", t |-> t, n |-> s.n[t], then |-> then], Last(s.cs)),
           then.what = "closing" => then.ci = Len(s.ci[t]),
           Switches(Last(s.cs)) => \A m \in 1 .. Len(s.cs) : s.cs[m].t # t,
           s.st[t] = "OK", t \notin s.unstarted
    PROVE  LET r == luaD_rawrunprotected(s, t, then)
               e == [f |-> "protected", t |-> t, n |-> s.n[t], then |-> then]
           IN /\ r \in State /\ Sound(r) /\ CountedUp(r, t)
              /\ e \in Frame /\ r.cs = Append(s.cs, e) /\ Last(r.cs) = e /\ Len(r.cs) = Len(s.cs) + 1
              /\ r.ci = s.ci /\ r.st = s.st /\ r.tbc = s.tbc /\ r.unstarted = s.unstarted /\ r.n = s.n
PROOF
<1> DEFINE r == luaD_rawrunprotected(s, t, then)
           e == [f |-> "protected", t |-> t, n |-> s.n[t], then |-> then]
<1>1. e \in Frame /\ e.f = "protected" /\ e.t = t /\ e.n = s.n[t] /\ e.then = then
  BY StateFields DEF Frame
<1>2. /\ r \in State /\ r.cs = Append(s.cs, e) /\ r.ci = s.ci /\ r.st = s.st /\ r.tbc = s.tbc
      /\ r.unstarted = s.unstarted /\ r.n = s.n
  <2>1. Append(s.cs, e) \in Seq(Frame)
    BY <1>1, StateFields
  <2>2. r = [s EXCEPT !.cs = Append(s.cs, e)]
    BY DEF luaD_rawrunprotected
  <2> HIDE DEF r, e
  <2> QED
    BY <2>1, <2>2, SetFields
<1>3. s.cs \in Seq(Frame) /\ Len(s.cs) \in Nat
  BY StateFields
<1>4. Last(r.cs) = e /\ Len(r.cs) = Len(s.cs) + 1
  BY <1>1, <1>2, <1>3 DEF Last
<1>5. ProtectedBy(e, Last(s.cs))
  OBVIOUS
<1> HIDE DEF r, e
<1>6. /\ Below(e, Last(s.cs)) /\ ~Is(e, {"closeself"}) /\ ~Switches(e) /\ ~Counts(e) /\ ~ClosesSelf(e, t) /\ ~Bars(e, t)
      /\ e.f \notin {"C", "call", "execute"}
  BY <1>1, <1>5 DEF Below, Is, Switches, Counts, Resumes, ClosesSelf, Bars
<1>7. ~Switches(Last(s.cs)) => Last(s.cs).t = t
  BY <1>1, <1>5 DEF ProtectedBy, Switches, Resumes, Is
<1>8. e.n = Counted(s.cs, Len(s.cs), e.t) /\ e.n[1] < ERRORCCALLS
  BY <1>1 DEF CountedUp
<1>9. Closing(e) => e.then.ci = Len(s.ci[e.t])
  BY <1>1 DEF Closing
<1>10. base_ci \in CallInfo /\ base_ci.ypcall = FALSE
  BY InfoType DEF base_ci
<1>11. Sound(r)
  BY <1>1, <1>2, <1>6, <1>7, <1>8, <1>9, <1>10, PushSound
<1>12. CountedUp(r, t)
  BY <1>1, <1>2, <1>3, <1>4, <1>6, CountedSame DEF CountedUp
<1> QED
  BY <1>1, <1>2, <1>4, <1>11, <1>12 DEF r, e

(* luaF_close. *)
LEMMA CloseGood ==
    ASSUME NEW s \in State, Sound(s), NEW t \in Threads, CountedUp(s, t), NEW level \in Nat, NEW yy \in BOOLEAN,
           Last(s.cs).t = t,
           Last(s.cs).f \in {"execute", "unroll"} \/ (Closing(Last(s.cs)) /\ yy = FALSE)
    PROVE  luaF_close(s, t, level, yy) \in State /\ Good(luaF_close(s, t, level, yy))
PROOF
<1> DEFINE r == luaF_close(s, t, level, yy)
           e == [f |-> "close", t |-> t, level |-> level, yy |-> yy]
<1>1. e \in Frame /\ e.f = "close" /\ e.t = t /\ e.yy = yy
  BY DEF Frame
<1>2. /\ r \in State /\ r.cs = Append(s.cs, e) /\ r.ci = s.ci /\ r.st = s.st /\ r.tbc = s.tbc
      /\ r.unstarted = s.unstarted /\ r.n = s.n
  <2>1. Append(s.cs, e) \in Seq(Frame)
    BY <1>1, StateFields
  <2>2. r = [s EXCEPT !.cs = Append(s.cs, e)]
    BY DEF luaF_close
  <2> HIDE DEF r, e
  <2> QED
    BY <2>1, <2>2, SetFields
<1>3. s.cs \in Seq(Frame) /\ Len(s.cs) \in Nat /\ s.cs # <<>> /\ Last(s.cs) = s.cs[Len(s.cs)]
  BY StateFields DEF Last, Sound, Grammar
<1>4. Last(r.cs) = e /\ Len(r.cs) = Len(s.cs) + 1
  BY <1>1, <1>2, <1>3 DEF Last
<1> HIDE DEF r, e
<1>5. s.st[t] = "OK" /\ t \notin s.unstarted
  BY <1>3 DEF Sound, ThreadsRun
<1>6. /\ Below(e, Last(s.cs)) /\ ~Is(e, {"closeself"}) /\ ~Switches(e) /\ ~Counts(e) /\ ~ClosesSelf(e, t) /\ ~Bars(e, t)
      /\ e.f \notin {"C", "call", "execute", "protected"} /\ ~Closing(e) /\ ~Switches(Last(s.cs))
  BY <1>1 DEF Below, Is, Switches, Counts, Resumes, ClosesSelf, Bars, Closing
<1>7. base_ci \in CallInfo /\ base_ci.ypcall = FALSE
  BY InfoType DEF base_ci
<1>8. Sound(r)
  BY <1>1, <1>2, <1>5, <1>6, <1>7, PushSound
<1>9. CountedUp(r, t)
  BY <1>1, <1>2, <1>3, <1>4, <1>6, CountedSame DEF CountedUp
<1> QED
  BY <1>1, <1>2, <1>4, <1>8, <1>9 DEF Good, r

(* luaD_closeprotected. *)
Closes(b, t, ci) ==
    \/ Is(b, {"host", "pcall", "closeself"}) /\ b.t = t
    \/ (Is(b, {"close"}) \/ (Is(b, {"wrap"}) /\ b.at = "closed")) /\ b.co = t /\ ci = 1

(* luaD_closeprotected.                                                    *)
LEMMA CloseProtectedGood ==
    ASSUME NEW s \in State, Sound(s), NEW t \in Threads, CountedUp(s, t), NEW level \in Nat, NEW st \in Statuses,
           Closes(Last(s.cs), t, Len(s.ci[t])),
           Switches(Last(s.cs)) => \A m \in 1 .. Len(s.cs) : s.cs[m].t # t,
           s.st[t] = "OK", t \notin s.unstarted
    PROVE  luaD_closeprotected(s, t, level, st) \in State /\ Good(luaD_closeprotected(s, t, level, st))
PROOF
<1> DEFINE then == [what |-> "closing", ci |-> Len(s.ci[t]), level |-> level, status |-> st]
           r == luaD_rawrunprotected(s, t, then)
           e == [f |-> "protected", t |-> t, n |-> s.n[t], then |-> then]
<1>1. Len(s.ci[t]) \in Nat
  BY StateFields
<1>2. then \in Thens /\ then.what = "closing" /\ then.ci = Len(s.ci[t])
  BY <1>1 DEF Thens
<1>3. e.then = then /\ e.t = t /\ e.f = "protected"
  OBVIOUS
<1>4. ProtectedBy(e, Last(s.cs))
  BY <1>2, <1>3 DEF ProtectedBy, Closes
<1> HIDE DEF then
<1>5. r \in State /\ Sound(r) /\ CountedUp(r, t) /\ Last(r.cs) = e
  BY <1>2, <1>4, ProtectSound
<1>6. Last(r.cs).t = t /\ Closing(Last(r.cs))
  BY <1>2, <1>5 DEF Closing
<1> HIDE DEF r, e
<1>7. luaF_close(r, t, level, FALSE) \in State /\ Good(luaF_close(r, t, level, FALSE))
  BY <1>5, <1>6, CloseGood
<1> QED
  BY <1>7 DEF luaD_closeprotected, r, then

(* Nor does taking it away change them.                                    *)
LEMMA CountedTop ==
    ASSUME NEW cs, NEW m \in Nat \ {0}, NEW t, ~Counts(cs[m]), ~ClosesSelf(cs[m], t), ~Bars(cs[m], t)
    PROVE  Counted(cs, m, t) = Counted(cs, m - 1, t)
PROOF
<1> DEFINE k == m - 1
<1>1. k \in Nat /\ m = k + 1
  OBVIOUS
<1> HIDE DEF k
<1>2. Counted(cs, k, t) \in Nat \X Nat
  BY <1>1, CountedType
<1>3. Counted(cs, k + 1, t) = Counted(cs, k, t)
  BY <1>1, <1>2, CountedStep
<1> QED
  BY <1>1, <1>3 DEF k

(* The first k elements of a sequence.                                     *)
LEMMA SubSeqOf ==
    ASSUME NEW S, NEW q \in Seq(S), NEW k \in 0 .. Len(q)
    PROVE  /\ SubSeq(q, 1, k) \in Seq(S) /\ Len(SubSeq(q, 1, k)) = k /\ Agree(SubSeq(q, 1, k), q, k)
PROOF
<1>1. k \in Int /\ \A i \in 1 .. k : q[i] \in S
  BY LenProperties
<1>2. /\ SubSeq(q, 1, k) \in Seq(S) /\ Len(SubSeq(q, 1, k)) = (IF 1 <= k THEN k - 1 + 1 ELSE 0)
      /\ \A i \in 1 .. k - 1 + 1 : SubSeq(q, 1, k)[i] = q[1 + i - 1]
  BY <1>1, SubSeqProperties
<1>3. \A i \in 1 .. k : i \in 1 .. k - 1 + 1 /\ 1 + i - 1 = i
  OBVIOUS
<1>4. Len(SubSeq(q, 1, k)) = k
  BY <1>2
<1> QED
  BY <1>2, <1>3, <1>4 DEF Agree

(* What the frame at the top of a sound state is.                          *)
LEMMA TopFields ==
    ASSUME NEW s \in State, Sound(s)
    PROVE  /\ s.cs \in Seq(Frame) /\ Len(s.cs) \in Nat \ {0} /\ Last(s.cs) = s.cs[Len(s.cs)]
           /\ Last(s.cs) \in Frame /\ Last(s.cs).t \in Threads
           /\ s.st[Last(s.cs).t] = "OK" /\ Last(s.cs).t \notin s.unstarted
           /\ Len(s.cs) > 1 => Below(Last(s.cs), s.cs[Len(s.cs) - 1]) /\ s.cs[Len(s.cs) - 1] \in Frame
           /\ Len(s.cs) = 1 => Is(Last(s.cs), {"host"})
PROOF
<1>1. s.cs \in Seq(Frame) /\ Len(s.cs) \in Nat \ {0} /\ Last(s.cs) = s.cs[Len(s.cs)]
  BY StateFields DEF Last, Sound, Grammar
<1>2. Last(s.cs) \in Frame /\ Last(s.cs).t \in Threads
  BY <1>1, FrameFields
<1>3. s.st[Last(s.cs).t] = "OK" /\ Last(s.cs).t \notin s.unstarted
  BY <1>1 DEF Sound, ThreadsRun
<1>4. Len(s.cs) > 1 => Below(Last(s.cs), s.cs[Len(s.cs) - 1]) /\ s.cs[Len(s.cs) - 1] \in Frame
  BY <1>1 DEF Sound, Grammar
<1>5. Len(s.cs) = 1 => Is(Last(s.cs), {"host"})
  BY <1>1 DEF Sound, Grammar
<1> QED
  BY <1>1, <1>2, <1>3, <1>4, <1>5

(* The C function at the top notes how far it is.                          *)
LEMMA AtSound ==
    ASSUME NEW s \in State, Sound(s), NEW at \in Statuses \cup {"closed"},
           \/ Is(Last(s.cs), {"wrap"}) /\ at = "closed"
           \/ Is(Last(s.cs), {"closeself"}) /\ at \in Statuses
    PROVE  LET r == [s EXCEPT !.cs[Len(s.cs)].at = at]
           IN /\ r \in State /\ Sound(r) /\ Len(r.cs) = Len(s.cs)
              /\ r.cs \in Seq(Frame) /\ Last(r.cs) = [Last(s.cs) EXCEPT !.at = at]
              /\ \A m \in 1 .. Len(s.cs) - 1 : r.cs[m] = s.cs[m]
              /\ r.ci = s.ci /\ r.st = s.st /\ r.tbc = s.tbc /\ r.unstarted = s.unstarted /\ r.n = s.n
PROOF
<1> DEFINE cs == s.cs
           N == Len(s.cs)
           c == cs[N]
           e == [c EXCEPT !.at = at]
           ds == [cs EXCEPT ![N] = e]
           r == [s EXCEPT !.cs = ds]
<1>1. /\ cs \in Seq(Frame) /\ N \in Nat \ {0} /\ Last(cs) = c /\ c \in Frame /\ c.t \in Threads
      /\ \A m \in 1 .. N : cs[m] \in Frame /\ cs[m].t \in Threads
  BY TopFields, StateFields
<1>2. c \in CFrame /\ c.f = "C"
  BY <1>1 DEF Frame, Is
<1>3. /\ e \in Frame /\ e.f = "C" /\ e.t = c.t /\ e.fn = c.fn /\ e.co = c.co /\ e.ci = c.ci /\ e.at = at
  BY <1>2 DEF Frame, CFrame
<1>4. [s EXCEPT !.cs[Len(s.cs)].at = at] = r
  BY DEF State
<1> HIDE DEF e
<1>5. ds \in Seq(Frame) /\ Len(ds) = N /\ ds[N] = e /\ \A m \in 1 .. N : m # N => ds[m] = cs[m]
  BY <1>1, <1>3
<1> HIDE DEF ds
<1>6. /\ r \in State /\ r.cs = ds /\ r.ci = s.ci /\ r.st = s.st /\ r.tbc = s.tbc /\ r.unstarted = s.unstarted /\ r.n = s.n
  BY <1>5, SetFields
<1> HIDE DEF r
<1>7. /\ Grammar(cs) /\ Apart(cs) /\ CountsKept(cs, s.n) /\ ThreadsRun(cs, s.st, s.unstarted)
      /\ LevelsIn(cs, s.ci) /\ LevelsGrow(cs) /\ CallbacksRun(cs, s.ci, s.st) /\ Entries(s.ci, s.st)
  BY DEF Sound
<1>8. N > 1
  BY <1>1, <1>7 DEF Grammar, Is
<1>9. ASSUME NEW m \in 1 .. N
      PROVE  /\ ds[m].t = cs[m].t /\ ds[m].f = cs[m].f /\ (Switches(ds[m]) <=> Switches(cs[m]))
             /\ Leveled(ds, m) <=> Leveled(cs, m)
             /\ Is(ds[m], {"callback"}) <=> Is(cs[m], {"callback"})
             /\ Level(ds[m]) = Level(cs[m]) /\ (ds[m].f = "C" => ds[m].ci = cs[m].ci)
             /\ \A u : ClosesSelf(ds[m], u) <=> ClosesSelf(cs[m], u)
  <2>1. CASE m = N
    <3>1. ds[m] = e /\ cs[m] = c
      BY <1>5, <2>1
    <3>2. (Switches(e) <=> Switches(c)) /\ (Is(e, {"callback"}) <=> Is(c, {"callback"})) /\ Level(e) = Level(c)
          /\ \A u : ClosesSelf(e, u) <=> ClosesSelf(c, u)
      BY <1>2, <1>3 DEF Switches, Is, Level, ClosesSelf
    <3>3. (Leveled(ds, N) <=> e.fn # "closeself") /\ (Leveled(cs, N) <=> c.fn # "closeself")
      BY <1>2, <1>3, <1>5 DEF Leveled, Again, Closing
    <3> QED
      BY <1>2, <1>3, <2>1, <3>1, <3>2, <3>3
  <2>2. CASE m # N
    <3>1. ds[m] = cs[m]
      BY <1>5, <2>2
    <3>2. m > 1 => ds[m - 1] = cs[m - 1]
      BY <1>1, <1>5, <2>2
    <3> QED
      BY <3>1, <3>2 DEF Leveled, Again
  <2> QED
    BY <2>1, <2>2
<1>10. \A m \in 1 .. N : Live(ds, m) <=> Live(cs, m)
  <2>1. \A m \in 1 .. N : \A j \in m .. N : j \in 1 .. N
    BY <1>1
  <2> QED
    BY <1>5, <1>9, <2>1 DEF Live
<1>g. Grammar(ds)
  <2>1. Below(e, cs[N - 1])
    <3>1. Below(c, cs[N - 1])
      BY <1>1, <1>7, <1>8 DEF Grammar
    <3> QED
      BY <1>1, <1>2, <1>3, <3>1 DEF Below, CalledC, Is, Switches
  <2>2. \A m \in 2 .. N : m # N => Below(ds[m], ds[m - 1])
    <3> SUFFICES ASSUME NEW m \in 2 .. N, m # N
                 PROVE  Below(ds[m], ds[m - 1])
      OBVIOUS
    <3>1. ds[m] = cs[m] /\ ds[m - 1] = cs[m - 1]
      BY <1>1, <1>5
    <3> QED
      BY <1>7, <3>1 DEF Grammar
  <2>3. ds[N - 1] = cs[N - 1] /\ ds[1] = cs[1] /\ N \in 2 .. N /\ ds # <<>>
    BY <1>1, <1>5, <1>8
  <2> QED
    BY <1>5, <1>7, <2>1, <2>2, <2>3 DEF Grammar
<1>a. Apart(ds)
  <2> SUFFICES ASSUME NEW m \in 1 .. N, Switches(ds[m]), NEW a \in 1 .. m, NEW b \in m + 1 .. N
               PROVE  ds[a].t # ds[b].t
    BY <1>5 DEF Apart
  <2>1. Switches(cs[m]) /\ a \in 1 .. N /\ b \in 1 .. N
    BY <1>1, <1>9
  <2>2. cs[a].t # cs[b].t
    BY <1>7, <2>1 DEF Apart
  <2> QED
    BY <1>9, <2>1, <2>2
<1>c. CountsKept(ds, s.n)
  <2> SUFFICES ASSUME NEW m \in 1 .. N
               PROVE  /\ ds[m].f = "protected" => ds[m].n = Counted(ds, m - 1, ds[m].t) /\ ds[m].n[1] < ERRORCCALLS
                      /\ Switches(ds[m]) => s.n[ds[m].t] = Counted(ds, m - 1, ds[m].t) /\ s.n[ds[m].t][1] < ERRORCCALLS
    BY <1>5 DEF CountsKept
  <2>1. Counted(ds, m - 1, cs[m].t) = Counted(cs, m - 1, cs[m].t)
    <3> DEFINE k == m - 1
    <3>1. k \in Nat /\ Agree(ds, cs, k)
      BY <1>1, <1>5 DEF Agree
    <3> HIDE DEF k
    <3>2. Counted(ds, k, cs[m].t) = Counted(cs, k, cs[m].t)
      BY <3>1, CountsOfPrefix
    <3> QED
      BY <3>2 DEF k
  <2>2. ds[m].f = "protected" => ds[m] = cs[m]
    BY <1>2, <1>3, <1>5
  <2> QED
    BY <1>7, <1>9, <2>1, <2>2 DEF CountsKept
<1>t. ThreadsRun(ds, s.st, s.unstarted)
  BY <1>5, <1>7, <1>9 DEF ThreadsRun
<1>i. LevelsIn(ds, s.ci)
  <2> SUFFICES ASSUME NEW m \in 1 .. N, Live(ds, m), Leveled(ds, m)
               PROVE  /\ Level(ds[m]) \in 1 .. Len(s.ci[ds[m].t])
                      /\ ds[m].f = "call" => s.ci[ds[m].t][ds[m].ci].fresh /\ ds[m].ci > 1
                      /\ ds[m].f = "C" /\ m > 1 => ds[m].ci > 1
    BY <1>5 DEF LevelsIn
  <2>1. Live(cs, m) /\ Leveled(cs, m)
    BY <1>9, <1>10
  <2>2. /\ Level(cs[m]) \in 1 .. Len(s.ci[cs[m].t])
        /\ cs[m].f = "call" => s.ci[cs[m].t][cs[m].ci].fresh /\ cs[m].ci > 1
        /\ cs[m].f = "C" /\ m > 1 => cs[m].ci > 1
    BY <1>7, <2>1 DEF LevelsIn
  <2>3. ds[m].f = "call" => ds[m] = cs[m]
    BY <1>2, <1>3, <1>5
  <2> QED
    BY <1>9, <2>2, <2>3
<1>l. LevelsGrow(ds)
  <2> SUFFICES ASSUME NEW m \in 1 .. N, NEW j \in 1 .. N, m < j, ds[j].t = ds[m].t, Live(ds, m),
                      Leveled(ds, m), Leveled(ds, j)
               PROVE  IF ds[j].f = "protected" THEN Level(ds[m]) <= Level(ds[j]) ELSE Level(ds[m]) < Level(ds[j])
    BY <1>5 DEF LevelsGrow
  <2>1. Live(cs, m) /\ Leveled(cs, m) /\ Leveled(cs, j) /\ cs[j].t = cs[m].t
    BY <1>9, <1>10
  <2>2. IF cs[j].f = "protected" THEN Level(cs[m]) <= Level(cs[j]) ELSE Level(cs[m]) < Level(cs[j])
    BY <1>7, <2>1 DEF LevelsGrow
  <2>3. Level(ds[m]) = Level(cs[m]) /\ Level(ds[j]) = Level(cs[j]) /\ ds[j].f = cs[j].f
    BY <1>9
  <2> QED
    BY <2>2, <2>3
<1>k. CallbacksRun(ds, s.ci, s.st)
  <2> SUFFICES ASSUME NEW u \in Threads, s.st[u] # "ERRRUN", NEW k \in 1 .. Len(s.ci[u]), s.ci[u][k].fn = "callback"
               PROVE  CallbackOf(ds, u, k)
    BY DEF CallbacksRun
  <2>1. PICK m \in 1 .. N : Is(cs[m], {"callback"}) /\ cs[m].t = u /\ cs[m].ci = k /\ Live(cs, m)
    BY <1>7 DEF CallbacksRun, CallbackOf
  <2>2. Is(ds[m], {"callback"}) /\ ds[m].t = u /\ ds[m].ci = k /\ Live(ds, m)
    BY <1>9, <1>10, <2>1 DEF Is
  <2> QED
    BY <1>5, <2>2 DEF CallbackOf
<1>s. Sound(r)
  BY <1>6, <1>7, <1>g, <1>a, <1>c, <1>t, <1>i, <1>l, <1>k DEF Sound
<1>z. Last(ds) = [Last(cs) EXCEPT !.at = at]
  BY <1>1, <1>5 DEF Last, e
<1>y. \A m \in 1 .. N - 1 : ds[m] = cs[m]
  BY <1>1, <1>5
<1> QED
  BY <1>4, <1>5, <1>6, <1>s, <1>z, <1>y

(* A thread that is not on the C stack is closed by the function at its    *)
(* top.                                                                    *)
LEMMA CloseThreadGood ==
    ASSUME NEW s \in State, Sound(s), NEW t \in Threads, \A m \in 1 .. Len(s.cs) : s.cs[m].t # t, t # Main,
           Is(Last(s.cs), {"close"}) \/ (Is(Last(s.cs), {"wrap"}) /\ Last(s.cs).at = "closed"), Last(s.cs).co = t
    PROVE  lua_closethread(s, t, Last(s.cs).t) \in State /\ Good(lua_closethread(s, t, Last(s.cs).t))
PROOF
<1> DEFINE c == Last(s.cs)
           N == Len(s.cs)
           m0 == <<getCcalls(s, c.t), 0>>
           s1 == [s EXCEPT !.n[t] = m0]
           s2 == [s1 EXCEPT !.ci[t] = <<base_ci>>, !.st[t] = "OK", !.unstarted = @ \ {t}]
           st == IF s1.st[t] = "YIELD" THEN "OK" ELSE s1.st[t]
<1>1. /\ s.cs \in Seq(Frame) /\ N \in Nat \ {0} /\ c = s.cs[N] /\ c \in Frame /\ c.t \in Threads
  BY TopFields
<1>2. m0 \in Nat \X Nat
  BY <1>1, StateFields DEF getCcalls
<1>3. /\ s1 \in State /\ s1.cs = s.cs /\ s1.ci = s.ci /\ s1.tbc = s.tbc /\ s1.st = s.st /\ s1.unstarted = s.unstarted
      /\ s1.n = [s.n EXCEPT ![t] = m0]
  BY <1>2, SetFields
<1> HIDE DEF m0, s1
<1>4. /\ s2 \in State /\ s2.cs = s.cs /\ s2.ci = [s.ci EXCEPT ![t] = <<base_ci>>] /\ s2.st = [s.st EXCEPT ![t] = "OK"]
      /\ s2.unstarted = s.unstarted \ {t} /\ s2.n = s1.n
  BY <1>3, BaseEntries DEF State, Statuses
<1>5. st \in Statuses
  BY <1>3, StateFields DEF Statuses
<1> HIDE DEF s2, st
<1>6. /\ \A u \in Threads : u # t => s2.n[u] = s.n[u] /\ s2.ci[u] = s.ci[u] /\ s2.st[u] = s.st[u]
      /\ s2.ci[t] = <<base_ci>> /\ s2.st[t] = "OK" /\ s2.n[t] = m0
  <2>1. s.ci \in [Threads -> Seq(CallInfo)] /\ s.st \in [Threads -> Statuses] /\ s.n \in [Threads -> Nat \X Nat]
    BY StateFields
  <2>0. s2.n[t] = m0 /\ \A u \in Threads : u # t => s2.n[u] = s.n[u]
    BY <1>3, <1>4, <2>1
  <2>2. \A u \in Threads : u # t => s2.ci[u] = s.ci[u] /\ s2.st[u] = s.st[u]
    BY <1>4, <2>1
  <2>3. s2.ci[t] = <<base_ci>> /\ s2.st[t] = "OK"
    BY <1>4, <2>1
  <2> QED
    BY ONLY <2>0, <2>2, <2>3
<1>7. Sound(s2)
  <2> DEFINE i == N + 1
  <2>1. i \in 2 .. Len(s.cs) + 1 /\ i - 1 = Len(s.cs)
    BY <1>1
  <2>2. s2.cs = SubSeq(s.cs, 1, i - 1)
    BY <1>1, <1>4, <2>1, SubSeqFull
  <2>3. \A j \in i .. Len(s.cs) : s.cs[j].t = t
    BY <1>1
  <2>4. \A m \in 1 .. i - 1 : s.cs[m].t # t
    BY <2>1
  <2>5. EntriesOf(s2.ci[t], s2.st[t]) /\ NoCallback(s2.ci[t])
    BY <1>6, BaseEntries
  <2>6. s2.unstarted \subseteq s.unstarted /\ (s2.st[t] = "YIELD" => t \notin s2.unstarted)
    BY <1>4, <1>6
  <2> HIDE DEF i
  <2> QED
    BY <1>4, <1>6, <2>1, <2>2, <2>3, <2>4, <2>5, <2>6, DropSound
<1>8. Switches(c) /\ ~Counts(c) /\ \A u : ~ClosesSelf(c, u) /\ ~Bars(c, u)
  BY DEF Switches, Is, Counts, Resumes, ClosesSelf, Bars
<1>9. CountedUp(s2, t)
  <2>1. s.n[c.t] = Counted(s.cs, N - 1, c.t) /\ s.n[c.t][1] < ERRORCCALLS
    BY <1>1, <1>8 DEF Sound, CountsKept
  <2>2. Counted(s.cs, N, c.t) = Counted(s.cs, N - 1, c.t)
    BY <1>1, <1>8, CountedTop
  <2>3. Calls(s.cs, N) = s.n[c.t][1]
    BY <2>1, <2>2 DEF Counted
  <2>4. Counted(s.cs, N, t) = <<Calls(s.cs, N), 0>>
    BY <1>1, CountedNew
  <2>5. s2.n[t] = Counted(s.cs, N, t)
    BY <1>6, <2>3, <2>4 DEF m0, getCcalls
  <2>6. s2.n[t][1] = s.n[c.t][1]
    BY <1>6 DEF m0, getCcalls
  <2> QED
    BY <1>4, <2>1, <2>5, <2>6 DEF CountedUp
<1>10. Closes(Last(s2.cs), t, Len(s2.ci[t]))
  <2>1. Len(s2.ci[t]) = 1
    BY <1>6
  <2> QED
    BY <1>4, <2>1 DEF Closes
<1>11. luaD_closeprotected(s2, t, 1, st) \in State /\ Good(luaD_closeprotected(s2, t, 1, st))
  <2>1. 1 \in Nat /\ t \notin s2.unstarted /\ s2.st[t] = "OK" /\ \A m \in 1 .. Len(s2.cs) : s2.cs[m].t # t
    BY <1>4, <1>6
  <2> HIDE DEF c, N
  <2> QED
    BY <1>4, <1>5, <1>7, <1>9, <1>10, <2>1, CloseProtectedGood
<1> QED
  BY <1>11 DEF lua_closethread, luaE_resetthread, s1, s2, st, m0

(* A C function of the library goes on or returns.                         *)
GoodIfAny(s) == s \in State /\ (s.cs # <<>> => Good(s))

(* A C function of the library goes on after what it called.               *)
LEMMA FinishGood ==
    ASSUME NEW s \in State, Sound(s), NEW st \in Statuses, Last(s.cs).f = "C",
           Last(s.cs).fn \notin {"host", "resume", "wrap", "close"} => CountedUp(s, Last(s.cs).t)
    PROVE  GoodIfAny(FinishC(s, st))
PROOF
<1> DEFINE cs == s.cs
           N == Len(s.cs)
           c == Last(s.cs)
           t == c.t
<1>1. /\ cs \in Seq(Frame) /\ N \in Nat \ {0} /\ c = cs[N] /\ c \in Frame /\ t \in Threads
      /\ N > 1 => Below(c, cs[N - 1]) /\ cs[N - 1] \in Frame
      /\ N = 1 => Is(c, {"host"})
      /\ s.st[t] = "OK" /\ t \notin s.unstarted
  BY TopFields
<1>2. c.fn \in {"host"} \cup Library /\ c.ci \in Nat /\ c.at \in Statuses \cup {"closed"} /\ c.co \in Threads
  BY <1>1, FrameFields
<1>3. Caller(s) = c /\ Caller(s) = cs[N]
  BY <1>1 DEF Caller
<1>4. Front(cs) = SubSeq(cs, 1, N - 1) /\ Front(cs) \in Seq(Frame) /\ Len(Front(cs)) = N - 1
  BY <1>1, SubSeqOf DEF Front
<1> DEFINE p == Popped(s)
<1>5. p \in State /\ p.cs = Front(cs) /\ p.ci = s.ci /\ p.st = s.st /\ p.unstarted = s.unstarted /\ p.n = s.n
  <2>1. p = [s EXCEPT !.cs = Front(cs)]
    BY DEF Popped
  <2> HIDE DEF p
  <2> QED
    BY <1>4, <2>1, SetFields
<1>6. CASE c.fn = "host"
  <2>0. ASSUME N > 1
        PROVE  FALSE
    <3>1. CalledC(c, cs[N - 1])
      BY <1>1, <2>0 DEF Below
    <3> QED
      BY <1>6, <3>1 DEF CalledC, Library
  <2>1. N = 1
    <3> HIDE DEF N
    <3>1. N \in Nat /\ N # 0
      BY <1>1
    <3> QED
      BY <2>0, <3>1
  <2>2. p.cs = <<>>
    BY <1>4, <1>5, <2>1
  <2>3. FinishC(s, st) = p
    BY <1>3, <1>6 DEF FinishC
  <2> QED
    BY <1>5, <2>2, <2>3 DEF GoodIfAny
<1>7. CASE c.fn = "wrap" /\ c.at = "OK" /\ errorstatus(s.st[c.co])
  <2> DEFINE r == [s EXCEPT !.cs[Len(s.cs)].at = "closed"]
  <2>1. FinishC(s, st) = lua_closethread(r, c.co, c.t)
    BY <1>3, <1>7 DEF FinishC
  <2>2. Is(c, {"wrap"})
    BY <1>7 DEF Is
  <2>3. /\ r \in State /\ Sound(r) /\ Len(r.cs) = N
        /\ r.cs \in Seq(Frame) /\ Last(r.cs) = [c EXCEPT !.at = "closed"]
        /\ \A m \in 1 .. N - 1 : r.cs[m] = cs[m]
        /\ r.st = s.st
    BY <2>2, AtSound
  <2> HIDE DEF r
  <2>4. c \in CFrame
    BY <1>1 DEF Frame
  <2>5. Last(r.cs).at = "closed" /\ Last(r.cs).co = c.co /\ Last(r.cs).t = c.t /\ Is(Last(r.cs), {"wrap"})
    BY <1>7, <2>3, <2>4 DEF Is, CFrame
  <2>6. \A m \in 1 .. Len(r.cs) : r.cs[m].t # c.co
    BY <1>7, <2>3 DEF Sound, ThreadsRun, errorstatus
  <2>7. c.co # Main
    <3>1. N # 1 /\ Switches(c)
      BY <1>1, <1>7 DEF Is, Switches
    <3>3. N > 1
      <4> HIDE DEF N
      <4>1. N \in Nat /\ N # 0
        BY <1>1
      <4> QED
        BY <3>1, <4>1
    <3>2. CalledC(c, cs[N - 1])
      BY <1>1, <3>3 DEF Below
    <3> QED
      BY <3>1, <3>2 DEF CalledC
  <2>8. lua_closethread(r, c.co, c.t) \in State /\ Good(lua_closethread(r, c.co, c.t))
    BY <1>2, <2>3, <2>5, <2>6, <2>7, CloseThreadGood
  <2> QED
    BY <2>1, <2>8 DEF GoodIfAny
<1>8. CASE c.fn = "wrap" /\ c.at = "closed"
  <2>1. FinishC(s, st) = s
    BY <1>3, <1>8 DEF FinishC
  <2>2. Switches(c) /\ ~Counts(c) /\ ~ClosesSelf(c, t) /\ ~Bars(c, t)
    BY <1>8 DEF Switches, Is, Counts, Resumes, ClosesSelf, Bars
  <2>3. s.n[t] = Counted(cs, N - 1, t) /\ s.n[t][1] < ERRORCCALLS
    BY <1>1, <2>2 DEF Sound, CountsKept
  <2>4. Counted(cs, N, t) = Counted(cs, N - 1, t)
    BY <1>1, <2>2, CountedTop
  <2> QED
    BY <2>1, <2>3, <2>4 DEF GoodIfAny, Good, CountedUp
<1>9. CASE c.fn = "closeself"
  <2> DEFINE r == [s EXCEPT !.cs[Len(s.cs)].at = st]
  <2>1. FinishC(s, st) = r
    BY <1>3, <1>9 DEF FinishC
  <2>2. Is(c, {"closeself"})
    BY <1>9 DEF Is
  <2>3. /\ r \in State /\ Sound(r) /\ Len(r.cs) = N
        /\ r.cs \in Seq(Frame) /\ Last(r.cs) = [c EXCEPT !.at = st]
        /\ \A m \in 1 .. N - 1 : r.cs[m] = cs[m]
        /\ r.n = s.n
    BY <2>2, AtSound
  <2> HIDE DEF r
  <2>4. c \in CFrame
    BY <1>1 DEF Frame
  <2>5. Last(r.cs).t = t /\ Is(Last(r.cs), {"closeself"}) /\ Last(r.cs) = r.cs[N]
    BY <1>9, <2>3, <2>4 DEF Is, CFrame, Last
  <2>6. Counted(r.cs, N, t) = Counted(cs, N, t)
    <3> DEFINE k == N - 1
    <3>1. k \in Nat /\ N = k + 1 /\ Agree(r.cs, cs, k)
      BY <1>1, <2>3 DEF Agree
    <3> HIDE DEF k
    <3>2. Counted(r.cs, k, t) = Counted(cs, k, t)
      BY <3>1, CountsOfPrefix
    <3>3. ClosesSelf(r.cs[N], t) /\ ClosesSelf(c, t) /\ ~Counts(r.cs[N]) /\ ~Counts(c)
      BY <2>2, <2>5 DEF ClosesSelf, Counts, Resumes, Is
    <3>4. ~Counts(r.cs[k + 1]) /\ ~Counts(cs[k + 1]) /\ ClosesSelf(r.cs[k + 1], t) /\ ClosesSelf(cs[k + 1], t)
      BY <1>1, <3>1, <3>3
    <3> HIDE DEF N, cs
    <3>5. Counted(r.cs, k + 1, t) = <<Counted(r.cs, k, t)[1] + 0, IF t = Main THEN 1 ELSE 0>>
      BY <3>1, <3>4, CountedStep
    <3>6. Counted(cs, k + 1, t) = <<Counted(cs, k, t)[1] + 0, IF t = Main THEN 1 ELSE 0>>
      BY <3>1, <3>4, CountedStep
    <3> QED
      BY <3>1, <3>2, <3>5, <3>6
  <2>7. CountedUp(s, t)
    BY <1>9
  <2>8. CountedUp(r, t)
    BY <2>3, <2>6, <2>7 DEF CountedUp
  <2> QED
    BY <2>1, <2>3, <2>5, <2>8 DEF GoodIfAny, Good
<1>10. CASE /\ c.fn \notin {"host", "closeself"}
            /\ ~(c.fn = "wrap" /\ c.at = "OK" /\ errorstatus(s.st[c.co])) /\ ~(c.fn = "wrap" /\ c.at = "closed")
  <2> DEFINE r == poscall(p, t, c.ci)
             l == SubSeq(s.ci[t], 1, c.ci - 1)
  <2>1. FinishC(s, st) = r
    BY <1>3, <1>10 DEF FinishC
  <2>2. N > 1
    <3>1. N # 1
      BY <1>1, <1>10 DEF Is
    <3> HIDE DEF N
    <3>2. N \in Nat /\ N # 0
      BY <1>1
    <3> QED
      BY <3>1, <3>2
  <2>3. /\ Live(cs, N) /\ Leveled(cs, N) /\ Level(c) = c.ci
    <3>1. \A j \in N .. N : j = N
      BY <1>1
    <3> QED
      BY <1>1, <1>10, <3>1 DEF Live, Leveled, Level, ClosesSelf, Is
  <2>4. c.ci \in 2 .. Len(s.ci[t]) /\ s.ci[t] \in Seq(CallInfo) /\ Len(s.ci[t]) \in Nat
    <3>1. c.ci \in 1 .. Len(s.ci[t]) /\ c.ci > 1
      BY <1>1, <2>2, <2>3 DEF Sound, LevelsIn
    <3> QED
      BY <1>1, <3>1, StateFields
  <2>5. l \in Seq(CallInfo) /\ Len(l) = c.ci - 1 /\ \A k \in 1 .. c.ci - 1 : l[k] = s.ci[t][k]
    <3> DEFINE k == c.ci - 1
               q == s.ci[t]
    <3>1. k \in 0 .. Len(q) /\ q \in Seq(CallInfo) /\ l = SubSeq(q, 1, k)
      BY <2>4
    <3> HIDE DEF k, q, l
    <3>2. l \in Seq(CallInfo) /\ Len(l) = k /\ Agree(l, q, k)
      BY <3>1, SubSeqOf
    <3> QED
      BY <3>2 DEF Agree, k, q
  <2>6. r \in State /\ r.cs = Front(cs) /\ r.ci = [s.ci EXCEPT ![t] = l] /\ r.st = s.st /\ r.unstarted = s.unstarted /\ r.n = s.n
    <3>1. r = [p EXCEPT !.ci[t] = l]
      BY <1>5 DEF poscall
    <3> HIDE DEF r, l, p
    <3> QED
      BY <1>1, <1>5, <2>5, <3>1, SetFields
  <2> HIDE DEF r, l, p
  <2>7. r.ci[t] = l /\ \A u \in Threads : u # t => r.ci[u] = s.ci[u] /\ r.n[u] = s.n[u]
    BY <1>1, <2>6, StateFields
  <2>8. ~Is(c, {"closeself"})
    BY <1>10 DEF Is
  <2>9. \A m \in 1 .. N - 1 : Switches(cs[m]) => cs[m].t # t
    BY <1>1 DEF Sound, Apart
  <2>10. \A m \in 1 .. N - 1 : cs[m].t = t /\ Live(cs, m) /\ Leveled(cs, m) => Level(cs[m]) <= c.ci - 1
    <3>1. ASSUME NEW m \in 1 .. N - 1, cs[m].t = t, Live(cs, m), Leveled(cs, m)
          PROVE  Level(cs[m]) <= c.ci - 1
      <4>1. Level(cs[m]) < Level(c)
        BY <1>1, <2>3, <3>1 DEF Sound, LevelsGrow
      <4>2. Level(cs[m]) \in 1 .. Len(s.ci[t])
        BY <1>1, <3>1 DEF Sound, LevelsIn
      <4> QED
        BY <1>2, <2>3, <4>1, <4>2
    <3> QED
      BY <3>1
  <2>11. Sound(r)
    <3>1. N \in 2 .. Len(s.cs) + 1 /\ \A j \in N .. Len(s.cs) : j = N
      BY <1>1, <2>2
    <3>2. r.cs = SubSeq(s.cs, 1, N - 1)
      BY <1>4, <2>6
    <3>3. \A j \in N .. Len(s.cs) : s.cs[j].t = t /\ ~Is(s.cs[j], {"closeself"})
      BY <1>1, <2>8, <3>1
    <3>4. Len(r.ci[t]) = c.ci - 1 /\ Len(r.ci[t]) >= 1 /\ Len(r.ci[t]) <= Len(s.ci[t])
      BY <1>2, <2>4, <2>5, <2>7
    <3>5. \A k \in 1 .. Len(r.ci[t]) : IF k <= Len(s.ci[t]) THEN Same(r.ci[t][k], s.ci[t][k]) ELSE Plain(r.ci[t][k])
      BY <2>4, <2>5, <2>7, <3>4 DEF Same
    <3>6. \A m \in N .. Len(s.cs) : Is(s.cs[m], {"callback"}) => s.cs[m].ci > Len(r.ci[t])
      BY <1>1, <1>2, <3>1, <3>4
    <3>7. \A u \in Threads : u # t => r.n[u] = s.n[u] /\ r.ci[u] = s.ci[u]
      BY <2>7
    <3>8. \A m \in 1 .. N - 1 : s.cs[m].t = t /\ Live(s.cs, m) /\ Leveled(s.cs, m) => Level(s.cs[m]) <= Len(r.ci[t])
      BY <2>10, <3>4
    <3>9. s.st[t] = "OK" /\ t \in Threads /\ r.st = s.st /\ r.unstarted = s.unstarted /\ r \in State
      BY <1>1, <2>6
    <3> HIDE DEF N, t, c
    <3> QED
      BY <2>9, <3>1, <3>2, <3>3, <3>4, <3>5, <3>6, <3>7, <3>8, <3>9, CutSound
  <2>12. Last(r.cs) = cs[N - 1] /\ cs[N - 1].t = t /\ Len(r.cs) = N - 1 /\ Agree(r.cs, cs, N - 1)
    <3>1. cs[N - 1].t = t
      BY <1>1, <2>2 DEF Below, CalledC
    <3>2. Agree(Front(cs), cs, N - 1)
      BY <1>1, <1>4, SubSeqOf
    <3> QED
      BY <1>1, <1>4, <2>2, <2>6, <3>1, <3>2 DEF Last, Agree
  <2>13. s.n[t] = Counted(cs, N - 1, t) /\ s.n[t][1] < ERRORCCALLS
    <3>1. CASE c.fn \in {"resume", "wrap", "close"}
      BY <1>1, <3>1 DEF Sound, CountsKept, Switches, Is
    <3>2. CASE c.fn \notin {"resume", "wrap", "close"}
      <4>1. CountedUp(s, t)
        BY <1>10, <3>2
      <4>2. ~Counts(c) /\ ~ClosesSelf(c, t) /\ ~Bars(c, t)
        BY <2>8, <3>2 DEF Counts, Resumes, ClosesSelf, Bars, Is
      <4> QED
        BY <1>1, <4>1, <4>2, CountedTop DEF CountedUp
    <3> QED
      BY <3>1, <3>2
  <2>14. CountedUp(r, t)
    <3> DEFINE k == N - 1
    <3>1. k \in Nat /\ Agree(r.cs, cs, k)
      BY <1>1, <2>12
    <3> HIDE DEF k
    <3>2. Counted(r.cs, k, t) = Counted(cs, k, t)
      BY <3>1, CountsOfPrefix
    <3> QED
      BY <2>6, <2>12, <2>13, <3>2 DEF CountedUp, k
  <2> QED
    BY <2>1, <2>6, <2>11, <2>12, <2>14 DEF GoodIfAny, Good
<1> QED
  BY <1>2, <1>6, <1>7, <1>8, <1>9, <1>10

(* The counts of a thread that does not wait for another one change.       *)
LEMMA CountSound ==
    ASSUME NEW s \in State, Sound(s), NEW t \in Threads, NEW n \in Nat \X Nat,
           \A m \in 1 .. Len(s.cs) : Switches(s.cs[m]) => s.cs[m].t # t
    PROVE  LET r == [s EXCEPT !.n[t] = n]
           IN /\ r \in State /\ Sound(r) /\ r.n[t] = n
              /\ r.cs = s.cs /\ r.ci = s.ci /\ r.st = s.st /\ r.tbc = s.tbc /\ r.unstarted = s.unstarted
PROOF
<1> DEFINE r == [s EXCEPT !.n[t] = n]
<1>1. /\ r \in State /\ r.cs = s.cs /\ r.ci = s.ci /\ r.st = s.st /\ r.tbc = s.tbc /\ r.unstarted = s.unstarted
      /\ r.n = [s.n EXCEPT ![t] = n]
  BY SetFields
<1> HIDE DEF r
<1>2. r.n[t] = n /\ \A m \in 1 .. Len(s.cs) : Switches(s.cs[m]) => r.n[s.cs[m].t] = s.n[s.cs[m].t]
  BY <1>1, StateFields
<1>3. CountsKept(s.cs, r.n)
  BY <1>2 DEF Sound, CountsKept
<1> QED
  BY <1>1, <1>2, <1>3 DEF Sound, r

(* A frame that is not of a C function returns.                            *)
LEMMA PopSound ==
    ASSUME NEW s \in State, Sound(s), Last(s.cs).f # "C"
    PROVE  LET r == Popped(s)
               N == Len(s.cs)
           IN /\ r \in State /\ Sound(r) /\ N > 1 /\ Len(r.cs) = N - 1 /\ Agree(r.cs, s.cs, N - 1)
              /\ Last(r.cs) = s.cs[N - 1] /\ Below(Last(s.cs), Last(r.cs)) /\ Last(r.cs) \in Frame
              /\ r.ci = s.ci /\ r.st = s.st /\ r.tbc = s.tbc /\ r.unstarted = s.unstarted /\ r.n = s.n
              /\ \A m \in 1 .. N - 1 : Switches(s.cs[m]) => s.cs[m].t # Last(s.cs).t
PROOF
<1> DEFINE cs == s.cs
           N == Len(s.cs)
           c == Last(s.cs)
           t == c.t
           r == Popped(s)
<1>1. /\ cs \in Seq(Frame) /\ N \in Nat \ {0} /\ c = cs[N] /\ c \in Frame /\ t \in Threads
      /\ N > 1 => Below(c, cs[N - 1]) /\ cs[N - 1] \in Frame
      /\ N = 1 => Is(c, {"host"})
      /\ s.st[t] = "OK"
  BY TopFields
<1>2. N > 1
  <2>1. N # 1
    BY <1>1 DEF Is
  <2> HIDE DEF N
  <2>2. N \in Nat /\ N # 0
    BY <1>1
  <2> QED
    BY <2>1, <2>2
<1>3. /\ Front(cs) = SubSeq(cs, 1, N - 1) /\ Front(cs) \in Seq(Frame) /\ Len(Front(cs)) = N - 1
      /\ Agree(Front(cs), cs, N - 1)
  BY <1>1, SubSeqOf DEF Front
<1>4. r \in State /\ r.cs = Front(cs) /\ r.ci = s.ci /\ r.st = s.st /\ r.tbc = s.tbc /\ r.unstarted = s.unstarted /\ r.n = s.n
  <2>1. r = [s EXCEPT !.cs = Front(cs)]
    BY DEF Popped
  <2> HIDE DEF r
  <2> QED
    BY <1>3, <2>1, SetFields
<1> HIDE DEF r
<1>5. \A m \in 1 .. N - 1 : Switches(cs[m]) => cs[m].t # t
  BY <1>1 DEF Sound, Apart
<1>6. /\ Sound(s) /\ Len(s.ci[t]) \in Nat /\ Len(s.ci[t]) >= 1
  BY <1>1, StateFields DEF Sound, Entries, EntriesOf
<1>7. Sound(r)
  <2>1. N \in 2 .. Len(s.cs) + 1 /\ \A j \in N .. Len(s.cs) : j = N
    BY <1>1, <1>2
  <2>2. r.cs = SubSeq(s.cs, 1, N - 1)
    BY <1>3, <1>4
  <2>3. \A j \in N .. Len(s.cs) : s.cs[j].t = t /\ ~Is(s.cs[j], {"closeself"}) /\ ~Is(s.cs[j], {"callback"})
    BY <1>1, <2>1 DEF Is
  <2>4. r.ci[t] = s.ci[t] /\ \A u \in Threads : u # t => r.n[u] = s.n[u] /\ r.ci[u] = s.ci[u]
    BY <1>4
  <2>5. Len(r.ci[t]) >= 1 /\ Len(r.ci[t]) <= Len(s.ci[t])
    BY <1>6, <2>4
  <2>6. \A k \in 1 .. Len(r.ci[t]) : IF k <= Len(s.ci[t]) THEN Same(r.ci[t][k], s.ci[t][k]) ELSE Plain(r.ci[t][k])
    BY <1>6, <2>4 DEF Same
  <2>7. \A m \in 1 .. N - 1 : s.cs[m].t = t /\ Live(s.cs, m) /\ Leveled(s.cs, m) => Level(s.cs[m]) <= Len(r.ci[t])
    <3> SUFFICES ASSUME NEW m \in 1 .. N - 1, s.cs[m].t = t, Live(s.cs, m), Leveled(s.cs, m)
                 PROVE  Level(s.cs[m]) <= Len(r.ci[t])
      OBVIOUS
    <3>1. m \in 1 .. Len(s.cs)
      BY <1>1
    <3>2. Level(s.cs[m]) \in 1 .. Len(s.ci[t])
      BY <3>1 DEF Sound, LevelsIn
    <3> QED
      BY <1>6, <2>4, <3>2
  <2>8. s.st[t] = "OK" /\ t \in Threads /\ r.st = s.st /\ r.unstarted = s.unstarted /\ r \in State
    BY <1>1, <1>4
  <2>9. \A m \in N .. Len(s.cs) : Is(s.cs[m], {"callback"}) => s.cs[m].ci > Len(r.ci[t])
    BY <2>3
  <2> HIDE DEF N, t, c
  <2> QED
    BY <1>5, <2>1, <2>2, <2>3, <2>4, <2>5, <2>6, <2>7, <2>8, <2>9, CutSound
<1>8. Last(r.cs) = cs[N - 1] /\ Len(r.cs) = N - 1 /\ Agree(r.cs, cs, N - 1)
  BY <1>1, <1>2, <1>3, <1>4 DEF Last, Agree
<1> QED
  BY <1>1, <1>2, <1>4, <1>5, <1>7, <1>8 DEF r

(* Stacks that agree below their last frame are counted alike there.       *)
LEMMA AgreeCounted ==
    ASSUME NEW cs, NEW ds, NEW N \in Nat \ {0}, Agree(cs, ds, N - 1), NEW t
    PROVE  Counted(cs, N - 1, t) = Counted(ds, N - 1, t)
PROOF
<1> DEFINE k == N - 1
<1>1. k \in Nat /\ Agree(cs, ds, k)
  OBVIOUS
<1> HIDE DEF k
<1>2. Counted(cs, k, t) = Counted(ds, k, t)
  BY <1>1, CountsOfPrefix
<1> QED
  BY <1>2 DEF k

(* A protected call returns.                                               *)
LEMMA EndProtectedGood ==
    ASSUME NEW s \in State, Sound(s), NEW st \in Statuses, Last(s.cs).f = "protected"
    PROVE  GoodIfAny(EndProtected(s, st))
PROOF
<1> DEFINE N == Len(s.cs)
           p == Last(s.cs)
           t == p.t
           q == Popped(s)
           r == [q EXCEPT !.n[t] = p.n]
<1>1. /\ q \in State /\ Sound(q) /\ N > 1 /\ Len(q.cs) = N - 1 /\ Agree(q.cs, s.cs, N - 1)
      /\ Last(q.cs) = s.cs[N - 1] /\ Below(p, Last(q.cs)) /\ q.n = s.n
      /\ \A m \in 1 .. N - 1 : Switches(s.cs[m]) => s.cs[m].t # t
  BY PopSound
<1>2. N \in Nat \ {0} /\ p = s.cs[N] /\ p \in Frame /\ t \in Threads /\ p.n \in Nat \X Nat
  BY TopFields, FrameFields
<1>3. EndProtected(s, st) = FinishC(r, st)
  BY DEF EndProtected, Caller
<1>4. p.n = Counted(s.cs, N - 1, t) /\ p.n[1] < ERRORCCALLS
  BY <1>2 DEF Sound, CountsKept
<1> HIDE DEF q
<1>5. \A m \in 1 .. Len(q.cs) : Switches(q.cs[m]) => q.cs[m].t # t
  BY <1>1 DEF Agree
<1>6. r \in State /\ Sound(r) /\ r.n[t] = p.n /\ r.cs = q.cs
  <2> DEFINE n == p.n
  <2>1. n \in Nat \X Nat /\ t \in Threads /\ r = [q EXCEPT !.n[t] = n]
    BY <1>2
  <2>2. r.n[t] = n => r.n[t] = p.n
    OBVIOUS
  <2> HIDE DEF n, p, t, r
  <2>3. r \in State /\ Sound(r) /\ r.n[t] = n /\ r.cs = q.cs
    BY <1>1, <1>5, <2>1, CountSound
  <2> QED
    BY <2>2, <2>3
<1> HIDE DEF r
<1>7. ProtectedBy(p, Last(r.cs)) /\ Last(r.cs).f = "C"
  BY <1>1, <1>6 DEF Below, ProtectedBy, Resumes, Is
<1>8. ASSUME Last(r.cs).fn \notin {"host", "resume", "wrap", "close"}
      PROVE  CountedUp(r, Last(r.cs).t)
  <2>1. Last(r.cs).t = t
    BY <1>7, <1>8 DEF ProtectedBy, Resumes, Is
  <2>2. Counted(r.cs, N - 1, t) = Counted(s.cs, N - 1, t)
    BY <1>1, <1>2, <1>6, AgreeCounted
  <2> QED
    BY <1>1, <1>4, <1>6, <2>1, <2>2 DEF CountedUp
<1>9. GoodIfAny(FinishC(r, st))
  BY <1>6, <1>7, <1>8, FinishGood
<1> QED
  BY <1>3, <1>9

(* A loop that closes variables is done.                                   *)
LEMMA EndCloseGood ==
    ASSUME NEW s \in State, Good(s), Last(s.cs).f = "close"
    PROVE  GoodIfAny(EndClose(s))
PROOF
<1> DEFINE N == Len(s.cs)
           c == Last(s.cs)
           t == c.t
           r == Popped(s)
<1>1. /\ r \in State /\ Sound(r) /\ N > 1 /\ Len(r.cs) = N - 1 /\ Agree(r.cs, s.cs, N - 1)
      /\ Last(r.cs) = s.cs[N - 1] /\ Below(c, Last(r.cs)) /\ r.n = s.n /\ Last(r.cs) \in Frame
  BY PopSound DEF Good
<1>2. N \in Nat \ {0} /\ c = s.cs[N] /\ c \in Frame /\ t \in Threads
  BY TopFields DEF Good
<1>3. EndClose(s) = IF Last(r.cs).f = "protected" THEN EndProtected(r, Last(r.cs).then.status) ELSE r
  BY DEF EndClose, Caller
<1> HIDE DEF r
<1>4. /\ Last(r.cs).t = t
      /\ Last(r.cs).f \in {"execute", "unroll"} \/ Closing(Last(r.cs))
  BY <1>1 DEF Below
<1>5. CASE Closing(Last(r.cs))
  <2>1. Last(r.cs).f = "protected" /\ Last(r.cs).then.status \in Statuses
    BY <1>1, <1>5, FrameFields DEF Closing
  <2> QED
    BY <1>1, <1>3, <2>1, EndProtectedGood
<1>6. CASE Last(r.cs).f \in {"execute", "unroll"}
  <2>1. Counted(r.cs, N - 1, t) = Counted(s.cs, N - 1, t)
    <3> HIDE DEF N, t
    <3> QED
      BY <1>1, <1>2, AgreeCounted
  <2>2. ~Counts(c) /\ ~ClosesSelf(c, t) /\ ~Bars(c, t)
    BY DEF Counts, Resumes, ClosesSelf, Bars, Is
  <2>3. Counted(s.cs, N, t) = Counted(s.cs, N - 1, t)
    BY <1>2, <2>2, CountedTop
  <2>4. CountedUp(r, t)
    BY <1>1, <2>1, <2>3 DEF CountedUp, Good
  <2>5. EndClose(s) = r
    BY <1>3, <1>6
  <2> QED
    BY <1>1, <1>4, <2>4, <2>5 DEF GoodIfAny, Good
<1> QED
  BY <1>4, <1>5, <1>6

(* Where the function that runs stands in the list of calls of its thread. *)
LEMMA ExecLevel ==
    ASSUME NEW s \in State, Sound(s), Last(s.cs).f = "execute"
    PROVE  LET cs == s.cs
               N == Len(s.cs)
               t == Last(s.cs).t
               b == s.cs[N - 1]
               l == IF b.f = "call" THEN b.ci ELSE 2
           IN /\ N > 2 /\ cs[N] = Last(cs) /\ b \in Frame /\ b.f \in {"call", "unroll"} /\ b.t = t
              /\ t \in Threads /\ s.ci[t] \in Seq(CallInfo) /\ Len(s.ci[t]) \in Nat
              /\ l \in 2 .. Len(s.ci[t]) /\ s.ci[t][l].fresh
              /\ \A m \in 1 .. N - 2 : cs[m].t = t /\ Live(cs, m) /\ Leveled(cs, m) => Level(cs[m]) < l
              /\ \A m \in N - 1 .. N : Leveled(cs, m) => Level(cs[m]) = l
              /\ \A m \in 1 .. N : Switches(cs[m]) => cs[m].t # t
PROOF
<1> DEFINE cs == s.cs
           N == Len(s.cs)
           c == Last(s.cs)
           t == c.t
           b == s.cs[N - 1]
           l == IF b.f = "call" THEN b.ci ELSE 2
<1>1. /\ cs \in Seq(Frame) /\ N \in Nat \ {0} /\ c = cs[N] /\ c \in Frame /\ t \in Threads
      /\ \A m \in 1 .. N : cs[m] \in Frame
  BY TopFields, StateFields
<1>2. N > 1 /\ Below(c, b) /\ b \in Frame /\ \A m \in 1 .. N - 1 : Switches(cs[m]) => cs[m].t # t
  <2>1. Last(s.cs).f # "C"
    OBVIOUS
  <2> QED
    BY <2>1, PopSound
<1>3. b.f \in {"call", "unroll"} /\ b.t = t
  BY <1>2 DEF Below
<1>4. N # 2
  <2>1. cs[1].f = "C"
    BY DEF Sound, Grammar, Is
  <2>2. N = 2 => b = cs[1]
    OBVIOUS
  <2> QED
    BY <1>3, <2>1, <2>2
<1>5. N > 2
  <2> HIDE DEF N
  <2>1. N \in Nat
    BY <1>1
  <2> QED
    BY <1>2, <1>4, <2>1
<1>6. s.ci[t] \in Seq(CallInfo) /\ Len(s.ci[t]) \in Nat /\ EntriesOf(s.ci[t], s.st[t])
  BY <1>1, StateFields DEF Sound, Entries
<1>7. LevelsIn(cs, s.ci) /\ LevelsGrow(cs)
  BY DEF Sound
<1>8. Live(cs, N) /\ Live(cs, N - 1)
  <2>1. \A u : ~ClosesSelf(c, u) /\ ~ClosesSelf(b, u)
    BY <1>3 DEF ClosesSelf, Is
  <2>2. \A j \in N .. N : j = N
    BY <1>1
  <2>3. \A j \in N - 1 .. N : j = N - 1 \/ j = N
    BY <1>1
  <2> QED
    BY <1>1, <2>1, <2>2, <2>3 DEF Live
<1>9. CASE b.f = "call"
  <2>1. Leveled(cs, N - 1) /\ Level(b) = l /\ ~Leveled(cs, N)
    BY <1>1, <1>9 DEF Leveled, Level, Again, Closing
  <2>2. N - 1 \in 1 .. N /\ N - 1 \in 1 .. Len(cs)
    BY <1>1, <1>5
  <2>3. Level(b) \in 1 .. Len(s.ci[t]) /\ s.ci[t][b.ci].fresh /\ b.ci > 1
    BY <1>3, <1>7, <1>8, <1>9, <2>1, <2>2 DEF LevelsIn
  <2>4. l \in 2 .. Len(s.ci[t]) /\ s.ci[t][l].fresh
    <3>1. l = b.ci
      BY <1>9
    <3> HIDE DEF l
    <3> QED
      BY <1>6, <2>1, <2>3, <3>1
  <2>5. ASSUME NEW m \in 1 .. N - 2, cs[m].t = t, Live(cs, m), Leveled(cs, m)
        PROVE  Level(cs[m]) < l
    <3>1. m < N - 1 /\ m \in 1 .. Len(cs) /\ N - 1 \in 1 .. Len(cs)
      BY <1>1, <1>5
    <3>2. Level(cs[m]) < Level(b)
      BY <1>3, <1>7, <1>9, <2>1, <2>5, <3>1 DEF LevelsGrow
    <3> QED
      BY <2>1, <3>2
  <2>6. \A m \in N - 1 .. N : Leveled(cs, m) => Level(cs[m]) = l
    <3>1. \A m \in N - 1 .. N : m = N - 1 \/ m = N
      BY <1>1
    <3> HIDE DEF l
    <3> QED
      BY <2>1, <3>1
  <2>7. \A m \in 1 .. N : Switches(cs[m]) => cs[m].t # t
    <3>1. ~Switches(cs[N])
      BY <1>1 DEF Switches, Is
    <3>2. \A m \in 1 .. N : m \in 1 .. N - 1 \/ m = N
      BY <1>1
    <3> QED
      BY <1>2, <3>1, <3>2
  <2> QED
    BY <1>1, <1>2, <1>3, <1>5, <1>6, <2>4, <2>5, <2>6, <2>7
<1>10. CASE b.f = "unroll"
  <2>1. Leveled(cs, N) /\ Level(c) = 2 /\ l = 2 /\ ~Leveled(cs, N - 1)
    BY <1>1, <1>2, <1>10 DEF Leveled, Level, Again, Closing
  <2>2. 2 \in 1 .. Len(s.ci[t])
    BY <1>1, <1>7, <1>8, <2>1 DEF LevelsIn
  <2>4. l \in 2 .. Len(s.ci[t]) /\ s.ci[t][l].fresh
    <3>1. 2 <= Len(s.ci[t]) /\ s.ci[t][2].fresh
      BY <1>6, <2>2 DEF EntriesOf
    <3> HIDE DEF l
    <3> QED
      BY <1>6, <2>1, <3>1
  <2>5. ASSUME NEW m \in 1 .. N - 2, cs[m].t = t, Live(cs, m), Leveled(cs, m)
        PROVE  Level(cs[m]) < l
    <3>1. m < N /\ m \in 1 .. Len(cs) /\ N \in 1 .. Len(cs)
      BY <1>1, <1>5
    <3>2. Level(cs[m]) < Level(c)
      BY <1>1, <1>7, <2>1, <2>5, <3>1 DEF LevelsGrow
    <3> QED
      BY <2>1, <3>2
  <2>6. \A m \in N - 1 .. N : Leveled(cs, m) => Level(cs[m]) = l
    <3>1. \A m \in N - 1 .. N : m = N - 1 \/ m = N
      BY <1>1
    <3> QED
      BY <1>1, <2>1, <3>1
  <2>7. \A m \in 1 .. N : Switches(cs[m]) => cs[m].t # t
    <3>1. ~Switches(cs[N])
      BY <1>1 DEF Switches, Is
    <3>2. \A m \in 1 .. N : m \in 1 .. N - 1 \/ m = N
      BY <1>1
    <3> QED
      BY <1>2, <3>1, <3>2
  <2> QED
    BY <1>1, <1>2, <1>3, <1>5, <1>6, <2>4, <2>5, <2>6, <2>7
<1> QED
  BY <1>3, <1>9, <1>10

(* The list of calls of the thread that runs is changed.                   *)
LEMMA ListSound ==
    ASSUME NEW s \in State, Sound(s), NEW t \in Threads, s.st[t] = "OK", NEW list \in Seq(CallInfo),
           Len(list) >= 1, Len(list) <= Len(s.ci[t]) \/ Len(s.ci[t]) >= 2,
           \A k \in 1 .. Len(list) : IF k <= Len(s.ci[t]) THEN Same(list[k], s.ci[t][k]) ELSE Plain(list[k]),
           \A m \in 1 .. Len(s.cs) : Switches(s.cs[m]) => s.cs[m].t # t,
           \A m \in 1 .. Len(s.cs) : s.cs[m].t = t /\ Live(s.cs, m) /\ Leveled(s.cs, m) => Level(s.cs[m]) <= Len(list)
    PROVE  LET r == [s EXCEPT !.ci[t] = list]
           IN /\ r \in State /\ Sound(r) /\ r.ci[t] = list
              /\ r.cs = s.cs /\ r.n = s.n /\ r.st = s.st /\ r.tbc = s.tbc /\ r.unstarted = s.unstarted
PROOF
<1> DEFINE r == [s EXCEPT !.ci[t] = list]
           i == Len(s.cs) + 1
<1>1. /\ r \in State /\ r.cs = s.cs /\ r.n = s.n /\ r.st = s.st /\ r.tbc = s.tbc /\ r.unstarted = s.unstarted
      /\ r.ci = [s.ci EXCEPT ![t] = list]
  BY SetFields
<1> HIDE DEF r
<1>2. r.ci[t] = list /\ \A u \in Threads : u # t => r.n[u] = s.n[u] /\ r.ci[u] = s.ci[u]
  BY <1>1, StateFields
<1>3. s.cs \in Seq(Frame) /\ Len(s.cs) \in Nat \ {0}
  BY TopFields
<1>4. i \in 2 .. Len(s.cs) + 1 /\ i - 1 = Len(s.cs)
  BY <1>3
<1>5. r.cs = SubSeq(s.cs, 1, i - 1)
  BY <1>1, <1>3, <1>4, SubSeqFull
<1>6. \A j \in i .. Len(s.cs) : FALSE
  BY <1>3
<1>7. \A m \in 1 .. i - 1 : Switches(s.cs[m]) => s.cs[m].t # t
  BY <1>4
<1>8. \A m \in 1 .. i - 1 : s.cs[m].t = t /\ Live(s.cs, m) /\ Leveled(s.cs, m) => Level(s.cs[m]) <= Len(r.ci[t])
  BY <1>2, <1>4
<1>9. /\ Len(r.ci[t]) >= 1 /\ (Len(r.ci[t]) <= Len(s.ci[t]) \/ Len(s.ci[t]) >= 2)
      /\ \A k \in 1 .. Len(r.ci[t]) : IF k <= Len(s.ci[t]) THEN Same(r.ci[t][k], s.ci[t][k]) ELSE Plain(r.ci[t][k])
  BY <1>2
<1>10. Sound(r)
  <2> HIDE DEF i
  <2> QED
    BY <1>1, <1>2, <1>4, <1>5, <1>6, <1>7, <1>8, <1>9, CutSound
<1> QED
  BY <1>1, <1>2, <1>10 DEF r

(* A function returns that was not called from C.                          *)
LEMMA PoscallGood ==
    ASSUME NEW s \in State, Good(s), Last(s.cs).f = "execute", ~TopCi(s, Last(s.cs).t).fresh
    PROVE  LET r == poscall(s, Last(s.cs).t, Len(s.ci[Last(s.cs).t])) IN r \in State /\ Good(r)
PROOF
<1> DEFINE cs == s.cs
           N == Len(s.cs)
           t == Last(s.cs).t
           b == s.cs[N - 1]
           l == IF b.f = "call" THEN b.ci ELSE 2
           k == Len(s.ci[t])
           list == SubSeq(s.ci[t], 1, k - 1)
           r == [s EXCEPT !.ci[t] = list]
<1>1. /\ N > 2 /\ t \in Threads /\ s.ci[t] \in Seq(CallInfo) /\ k \in Nat
      /\ l \in 2 .. k /\ s.ci[t][l].fresh
      /\ \A m \in 1 .. N - 2 : cs[m].t = t /\ Live(cs, m) /\ Leveled(cs, m) => Level(cs[m]) < l
      /\ \A m \in N - 1 .. N : Leveled(cs, m) => Level(cs[m]) = l
      /\ \A m \in 1 .. N : Switches(cs[m]) => cs[m].t # t
  BY ExecLevel DEF Good
<1>2. N \in Nat /\ s.st[t] = "OK"
  BY TopFields DEF Good
<1>3. TopCi(s, t) = s.ci[t][k]
  BY <1>1 DEF TopCi, Last
<1>4. poscall(s, t, k) = r
  BY DEF poscall
<1> HIDE DEF l, k, t, N
<1>5. l <= k - 1
  <2>1. l # k
    BY <1>1, <1>3 DEF t
  <2> QED
    BY <1>1, <2>1
<1>6. list \in Seq(CallInfo) /\ Len(list) = k - 1 /\ \A x \in 1 .. k - 1 : list[x] = s.ci[t][x]
  <2> DEFINE n == k - 1
             q == s.ci[t]
  <2>1. n \in 0 .. Len(q)
    BY <1>1 DEF k
  <2> HIDE DEF n, q
  <2>2. q \in Seq(CallInfo)
    BY <1>1 DEF q
  <2>3. SubSeq(q, 1, n) \in Seq(CallInfo) /\ Len(SubSeq(q, 1, n)) = n /\ Agree(SubSeq(q, 1, n), q, n)
    BY <2>1, <2>2, SubSeqOf
  <2> QED
    BY <2>3 DEF n, q, Agree
<1> HIDE DEF list
<1>7. \A m \in 1 .. Len(s.cs) : s.cs[m].t = t /\ Live(s.cs, m) /\ Leveled(s.cs, m) => Level(s.cs[m]) <= Len(list)
  <2> SUFFICES ASSUME NEW m \in 1 .. N, cs[m].t = t, Live(cs, m), Leveled(cs, m)
               PROVE  Level(cs[m]) <= Len(list)
    BY DEF N
  <2>1. CASE m \in N - 1 .. N
    BY <1>1, <1>5, <1>6, <2>1
  <2>2. CASE m \in 1 .. N - 2
    <3>1. Level(cs[m]) < l /\ Level(cs[m]) \in 1 .. k
      BY <1>1, <2>2 DEF Good, Sound, LevelsIn, N, k
    <3> QED
      BY <1>1, <1>5, <1>6, <3>1
  <2> QED
    BY <1>2, <2>1, <2>2
<1>8. /\ Len(list) >= 1 /\ Len(list) <= Len(s.ci[t])
      /\ \A x \in 1 .. Len(list) : IF x <= Len(s.ci[t]) THEN Same(list[x], s.ci[t][x]) ELSE Plain(list[x])
  BY <1>1, <1>5, <1>6 DEF k, Same
<1>9. /\ r \in State /\ Sound(r) /\ r.cs = s.cs /\ r.n = s.n
  <2>1. \A m \in 1 .. Len(s.cs) : Switches(s.cs[m]) => s.cs[m].t # t
    BY <1>1 DEF N
  <2> QED
    <3>1. Sound(s) /\ t \in Threads /\ s.st[t] = "OK" /\ list \in Seq(CallInfo)
      BY <1>1, <1>2, <1>6 DEF Good
    <3> QED
      BY <1>7, <1>8, <2>1, <3>1, ListSound
<1> QED
  BY <1>4, <1>9 DEF Good, CountedUp, t, k

(* What a frame at the top leaves when it is popped.                       *)
LEMMA PoppedFields ==
    ASSUME NEW s \in State, s.cs # <<>>
    PROVE  LET r == Popped(s)
               N == Len(s.cs)
           IN /\ r \in State /\ r.cs = SubSeq(s.cs, 1, N - 1) /\ Len(r.cs) = N - 1 /\ Agree(r.cs, s.cs, N - 1)
              /\ r.ci = s.ci /\ r.st = s.st /\ r.tbc = s.tbc /\ r.unstarted = s.unstarted /\ r.n = s.n
              /\ N > 1 => Last(r.cs) = s.cs[N - 1]
PROOF
<1> DEFINE cs == s.cs
           N == Len(s.cs)
           r == Popped(s)
<1>1. cs \in Seq(Frame) /\ N \in Nat \ {0}
  BY StateFields
<1>2. /\ Front(cs) = SubSeq(cs, 1, N - 1) /\ Front(cs) \in Seq(Frame) /\ Len(Front(cs)) = N - 1
      /\ Agree(Front(cs), cs, N - 1)
  BY <1>1, SubSeqOf DEF Front
<1>3. r \in State /\ r.cs = Front(cs) /\ r.ci = s.ci /\ r.st = s.st /\ r.tbc = s.tbc /\ r.unstarted = s.unstarted /\ r.n = s.n
  <2>1. r = [s EXCEPT !.cs = Front(cs)]
    BY DEF Popped
  <2> HIDE DEF r
  <2> QED
    BY <1>2, <2>1, SetFields
<1>4. N > 1 => Last(Front(cs)) = cs[N - 1]
  BY <1>1, <1>2 DEF Last, Agree
<1> HIDE DEF r
<1> QED
  BY <1>2, <1>3, <1>4 DEF r

(* A function returns to C.                                                *)
LEMMA ReturnGood ==
    ASSUME NEW s \in State, Good(s), Last(s.cs).f = "execute"
    PROVE  GoodIfAny(EndExecute(poscall(s, Last(s.cs).t, Len(s.ci[Last(s.cs).t]))))
PROOF
<1> DEFINE cs == s.cs
           N == Len(s.cs)
           t == Last(s.cs).t
           b == s.cs[N - 1]
           l == IF b.f = "call" THEN b.ci ELSE 2
           k == Len(s.ci[t])
           list == SubSeq(s.ci[t], 1, k - 1)
           s1 == [s EXCEPT !.ci[t] = list]
           s2 == Popped(s1)
<1>0. Sound(s) /\ CountedUp(s, t)
  BY DEF Good
<1>1. /\ N > 2 /\ t \in Threads /\ s.ci[t] \in Seq(CallInfo) /\ k \in Nat
      /\ b \in Frame /\ b.f \in {"call", "unroll"} /\ b.t = t /\ cs[N] = Last(cs)
      /\ l \in 2 .. k
      /\ \A m \in 1 .. N - 2 : cs[m].t = t /\ Live(cs, m) /\ Leveled(cs, m) => Level(cs[m]) < l
      /\ \A m \in 1 .. N : Switches(cs[m]) => cs[m].t # t
  BY <1>0, ExecLevel
<1>2. N \in Nat \ {0} /\ s.st[t] = "OK" /\ cs \in Seq(Frame) /\ cs # <<>>
  BY <1>0, TopFields DEF Sound, Grammar
<1>3. poscall(s, t, k) = s1
  BY DEF poscall
<1> HIDE DEF l, k
<1>4. list \in Seq(CallInfo) /\ Len(list) = k - 1 /\ \A x \in 1 .. k - 1 : list[x] = s.ci[t][x]
  <2> DEFINE n == k - 1
             q == s.ci[t]
  <2>0. k = Len(q) /\ k >= 2
    BY <1>1 DEF k
  <2>1. n \in 0 .. Len(q)
    BY ONLY <1>1, <2>0
  <2> HIDE DEF n, q
  <2>2. q \in Seq(CallInfo)
    BY <1>1 DEF q
  <2>3. SubSeq(q, 1, n) \in Seq(CallInfo) /\ Len(SubSeq(q, 1, n)) = n /\ Agree(SubSeq(q, 1, n), q, n)
    BY <2>1, <2>2, SubSeqOf
  <2> QED
    BY <2>3 DEF n, q, Agree
<1>5. /\ Len(list) >= 1 /\ Len(list) <= Len(s.ci[t])
      /\ \A x \in 1 .. Len(list) : IF x <= Len(s.ci[t]) THEN Same(list[x], s.ci[t][x]) ELSE Plain(list[x])
  <2>1. k = Len(s.ci[t]) /\ k >= 2
    BY <1>1 DEF k
  <2>2. \A x \in 1 .. k - 1 : x <= k
    BY <1>1
  <2>3. \A x \in 1 .. k - 1 : Same(list[x], s.ci[t][x])
    BY <1>4 DEF Same
  <2> QED
    BY ONLY <1>1, <1>4, <2>1, <2>2, <2>3
<1> HIDE DEF list
<1>6. /\ s1 \in State /\ s1.cs = s.cs /\ s1.n = s.n /\ s1.st = s.st /\ s1.unstarted = s.unstarted
      /\ s1.ci = [s.ci EXCEPT ![t] = list]
  BY <1>1, <1>4, SetFields
<1> HIDE DEF s1
<1>7. /\ s2 \in State /\ s2.cs = SubSeq(cs, 1, N - 1) /\ Len(s2.cs) = N - 1 /\ Agree(s2.cs, cs, N - 1)
      /\ s2.ci = s1.ci /\ s2.st = s.st /\ s2.unstarted = s.unstarted /\ s2.n = s.n /\ Last(s2.cs) = b
  BY <1>1, <1>2, <1>6, PoppedFields
<1> HIDE DEF s2
<1>8. EndExecute(s1) = IF b.f = "call" THEN EndCall(s2) ELSE s2
  BY <1>7 DEF EndExecute, Caller, s2
<1>9. ~Counts(cs[N]) /\ ~ClosesSelf(cs[N], t) /\ ~Bars(cs[N], t)
  BY <1>1 DEF Counts, Resumes, ClosesSelf, Bars, Is
<1>10. Counted(cs, N - 1, t) = s.n[t] /\ s.n[t] \in Nat \X Nat /\ s.n[t][1] < ERRORCCALLS
  <2>1. Counted(cs, N, t) = Counted(cs, N - 1, t)
    <3> HIDE DEF t, N
    <3> QED
      BY <1>2, <1>9, CountedTop
  <2> QED
    BY <1>0, <1>1, <2>1, StateFields DEF CountedUp
<1>11. CASE b.f = "unroll"
  <2>1. /\ N \in 2 .. Len(s.cs) + 1 /\ \A j \in N .. Len(s.cs) : j = N
    BY <1>1, <1>2
  <2>2. \A j \in N .. Len(s.cs) : s.cs[j].t = t /\ ~Is(s.cs[j], {"closeself"}) /\ ~Is(s.cs[j], {"callback"})
    BY <1>1, <2>1 DEF Is
  <2>3. s2.ci[t] = list /\ \A u \in Threads : u # t => s2.n[u] = s.n[u] /\ s2.ci[u] = s.ci[u]
    BY <1>1, <1>6, <1>7, StateFields
  <2>4. ASSUME NEW m \in 1 .. N - 1, cs[m].t = t, Live(cs, m), Leveled(cs, m)
        PROVE  Level(cs[m]) <= Len(list)
    <3>1. m # N - 1
      BY <1>11, <2>4 DEF Leveled, Again, Closing
    <3>2. m \in 1 .. N - 2 /\ m \in 1 .. Len(cs)
      BY <1>2, <3>1
    <3>3. Level(cs[m]) < l /\ Level(cs[m]) \in 1 .. k
      BY <1>0, <1>1, <2>4, <3>2 DEF Sound, LevelsIn, k
    <3> QED
      BY <1>1, <1>4, <3>3
  <2>5. \A m \in 1 .. N - 1 : s.cs[m].t = t /\ Live(s.cs, m) /\ Leveled(s.cs, m) => Level(s.cs[m]) <= Len(s2.ci[t])
    BY <2>3, <2>4
  <2>6. /\ Len(s2.ci[t]) >= 1 /\ Len(s2.ci[t]) <= Len(s.ci[t])
        /\ \A x \in 1 .. Len(s2.ci[t]) : IF x <= Len(s.ci[t]) THEN Same(s2.ci[t][x], s.ci[t][x]) ELSE Plain(s2.ci[t][x])
    BY <1>5, <2>3
  <2>7. \A m \in 1 .. N - 1 : Switches(s.cs[m]) => s.cs[m].t # t
    BY <1>1, <1>2
  <2>8. \A m \in N .. Len(s.cs) : Is(s.cs[m], {"callback"}) => s.cs[m].ci > Len(s2.ci[t])
    BY <2>2
  <2>9. Sound(s2)
    <3> HIDE DEF N, t
    <3> QED
      BY <1>0, <1>1, <1>2, <1>7, <2>1, <2>2, <2>3, <2>5, <2>6, <2>7, <2>8, CutSound
  <2>10. CountedUp(s2, t)
    <3>1. Counted(s2.cs, N - 1, t) = Counted(cs, N - 1, t)
      <4> HIDE DEF N, t
      <4> QED
        BY <1>2, <1>7, AgreeCounted
    <3> QED
      BY <1>7, <1>10, <3>1 DEF CountedUp
  <2>11. EndExecute(s1) = s2
    BY <1>8, <1>11
  <2> QED
    BY <1>1, <1>3, <1>7, <2>9, <2>10, <2>11 DEF GoodIfAny, Good, k
<1>12. CASE b.f = "call"
  <2> DEFINE q == Popped(s2)
             d == cs[N - 2]
             n == Less2(s.n[t], b.inc)
             r == [q EXCEPT !.n[t] = n]
  <2>1. s2.cs # <<>> /\ N - 1 > 1 /\ (N - 1) - 1 = N - 2
    <3>1. Len(<<>>) = 0
      OBVIOUS
    <3>2. Len(s2.cs) = N - 1 /\ N > 2 /\ N \in Nat
      BY <1>1, <1>2, <1>7
    <3> HIDE DEF N
    <3> QED
      BY <3>1, <3>2
  <2>2. /\ q \in State /\ q.cs = SubSeq(s2.cs, 1, N - 2) /\ Len(q.cs) = N - 2 /\ Agree(q.cs, s2.cs, N - 2)
        /\ q.ci = s1.ci /\ q.st = s.st /\ q.unstarted = s.unstarted /\ q.n = s.n /\ Last(q.cs) = s2.cs[N - 2]
    <3> DEFINE M == Len(s2.cs)
    <3>1. /\ q \in State /\ q.cs = SubSeq(s2.cs, 1, M - 1) /\ Len(q.cs) = M - 1 /\ Agree(q.cs, s2.cs, M - 1)
          /\ q.ci = s2.ci /\ q.st = s2.st /\ q.unstarted = s2.unstarted /\ q.n = s2.n
          /\ M > 1 => Last(q.cs) = s2.cs[M - 1]
      BY <1>7, <2>1, PoppedFields
    <3>2. M > 1 /\ M - 1 = N - 2
      BY <1>7, <2>1
    <3> HIDE DEF q, N, M
    <3> QED
      BY <1>7, <3>1, <3>2
  <2> HIDE DEF q
  <2>3. Agree(q.cs, cs, N - 2) /\ Last(q.cs) = d /\ q.cs = SubSeq(cs, 1, N - 2)
    <3>1. N - 2 \in 1 .. N - 1 /\ \A j \in 1 .. N - 2 : j \in 1 .. N - 1
      BY <1>1, <1>2
    <3>2. Agree(q.cs, cs, N - 2) /\ Last(q.cs) = d
      BY <1>7, <2>2, <3>1 DEF Agree
    <3>3. N - 2 \in 0 .. Len(cs)
      BY <1>1, <1>2
    <3>4. /\ SubSeq(cs, 1, N - 2) \in Seq(Frame) /\ Len(SubSeq(cs, 1, N - 2)) = N - 2
          /\ Agree(SubSeq(cs, 1, N - 2), cs, N - 2)
      <4> DEFINE i == N - 2
      <4> HIDE DEF i
      <4>1. i \in 0 .. Len(cs) /\ cs \in Seq(Frame)
        BY <1>2, <3>3 DEF i
      <4>2. /\ SubSeq(cs, 1, i) \in Seq(Frame) /\ Len(SubSeq(cs, 1, i)) = i /\ Agree(SubSeq(cs, 1, i), cs, i)
        BY <4>1, SubSeqOf
      <4> QED
        BY <4>2 DEF i
    <3>5. q.cs \in Seq(Frame)
      BY <2>2, StateFields
    <3>6. \A j \in 1 .. N - 2 : q.cs[j] = SubSeq(cs, 1, N - 2)[j]
      BY <3>2, <3>4 DEF Agree
    <3>7. q.cs = SubSeq(cs, 1, N - 2)
      BY <2>2, <3>4, <3>5, <3>6, SeqEqual
    <3> QED
      BY <3>2, <3>7
  <2>4. CalledBy(b, d) /\ d \in Frame /\ d.t = t
    <3>1. N - 1 \in 2 .. Len(cs) /\ N - 2 \in 1 .. Len(cs)
      BY <1>1, <1>2
    <3>2. Below(b, d)
      BY <1>0, <3>1 DEF Sound, Grammar
    <3> QED
      BY <1>0, <1>1, <1>12, <3>1, <3>2, StateFields DEF Below, CalledBy
  <2>5. n = Counted(cs, N - 2, t) /\ n \in Nat \X Nat /\ n[1] < ERRORCCALLS
    <3> DEFINE i == N - 2
               c0 == Counted(cs, i, t)
    <3>1. i \in Nat /\ N - 1 = i + 1 /\ cs[i + 1] = b
      BY <1>1, <1>2
    <3>2. c0 \in Nat \X Nat
      BY <3>1, CountedType
    <3>3. b.inc \in {one, nyci, <<0, 0>>} /\ ~ClosesSelf(b, t) /\ (Counts(b) <=> b.inc[1] = 1) /\ (Bars(b, t) <=> b.inc[2] = 1)
      BY <1>1, <1>12, FrameFields DEF ClosesSelf, Counts, Resumes, Is, Bars
    <3>4. Counted(cs, i + 1, t) = <<c0[1] + (IF b.inc[1] = 1 THEN 1 ELSE 0), c0[2] + (IF b.inc[2] = 1 THEN 1 ELSE 0)>>
      <4> HIDE DEF i, b, N, t
      <4> QED
        BY <3>1, <3>3, CountedStep
    <3>5. s.n[t] = <<c0[1] + b.inc[1], c0[2] + b.inc[2]>>
      <4>1. s.n[t] = <<c0[1] + (IF b.inc[1] = 1 THEN 1 ELSE 0), c0[2] + (IF b.inc[2] = 1 THEN 1 ELSE 0)>>
        BY <1>10, <3>1, <3>4
      <4> HIDE DEF c0, b, N, t
      <4>2. CASE b.inc = one
        BY <3>2, <4>1, <4>2 DEF one
      <4>3. CASE b.inc = nyci
        BY <3>2, <4>1, <4>3 DEF nyci
      <4>4. CASE b.inc = <<0, 0>>
        BY <3>2, <4>1, <4>4
      <4> QED
        BY <3>3, <4>2, <4>3, <4>4
    <3> HIDE DEF c0, b, t
    <3>6. b.inc[1] \in {0, 1} /\ b.inc[2] \in {0, 1}
      BY <3>3 DEF one, nyci
    <3>7. n = <<c0[1], c0[2]>>
      BY <3>2, <3>5, <3>6 DEF Less2
    <3>8. n = c0
      BY <3>2, <3>7
    <3>9. n[1] < ERRORCCALLS
      BY <1>10, <3>2, <3>5, <3>6, <3>8
    <3> QED
      BY <3>2, <3>8, <3>9 DEF c0
  <2> HIDE DEF n
  <2>6. /\ r \in State /\ r.cs = q.cs /\ r.ci = q.ci /\ r.st = q.st /\ r.unstarted = q.unstarted /\ r.n = [q.n EXCEPT ![t] = n]
    BY <1>1, <2>2, <2>5, SetFields, SMTT(30)
  <2>7. EndCall(s2) = CASE Last(r.cs).f = "C" -> FinishC(r, "OK")
                        [] Last(r.cs).f = "protected" -> EndProtected(r, "OK")
                        [] OTHER -> r
    <3>1. [Popped(s2) EXCEPT !.n[b.t] = Less2(@, b.inc)] = r
      BY <1>1, <2>2 DEF q, n
    <3> HIDE DEF r
    <3> QED
      BY <1>7, <3>1 DEF EndCall, Caller
  <2> HIDE DEF r
  <2>8. Sound(r)
    <3> DEFINE i == N - 1
    <3>1. i \in 2 .. Len(s.cs) + 1 /\ i - 1 = N - 2 /\ \A j \in i .. Len(s.cs) : j = N - 1 \/ j = N
      BY <1>1, <1>2
    <3>2. \A j \in i .. Len(s.cs) : s.cs[j].t = t /\ ~Is(s.cs[j], {"closeself"}) /\ ~Is(s.cs[j], {"callback"})
      BY <1>1, <3>1 DEF Is
    <3>3. r.ci[t] = list /\ \A u \in Threads : u # t => r.n[u] = s.n[u] /\ r.ci[u] = s.ci[u]
      <4>1. s.ci \in [Threads -> Seq(CallInfo)] /\ s.n \in [Threads -> Nat \X Nat] /\ t \in Threads
        BY <1>1, StateFields
      <4>2. r.ci = [s.ci EXCEPT ![t] = list] /\ r.n = [s.n EXCEPT ![t] = n]
        BY <1>6, <2>2, <2>6
      <4> HIDE DEF t
      <4> QED
        BY <4>1, <4>2
    <3>4. ASSUME NEW m \in 1 .. N - 2, cs[m].t = t, Live(cs, m), Leveled(cs, m)
          PROVE  Level(cs[m]) <= Len(list)
      <4>2. m \in 1 .. Len(cs)
        BY <1>2
      <4>3. Level(cs[m]) < l /\ Level(cs[m]) \in 1 .. k
        BY <1>0, <1>1, <3>4, <4>2 DEF Sound, LevelsIn, k
      <4> QED
        BY <1>1, <1>4, <4>3
    <3>5. \A m \in 1 .. i - 1 : s.cs[m].t = t /\ Live(s.cs, m) /\ Leveled(s.cs, m) => Level(s.cs[m]) <= Len(r.ci[t])
      BY <3>1, <3>3, <3>4
    <3>6. /\ Len(r.ci[t]) >= 1 /\ Len(r.ci[t]) <= Len(s.ci[t])
          /\ \A x \in 1 .. Len(r.ci[t]) : IF x <= Len(s.ci[t]) THEN Same(r.ci[t][x], s.ci[t][x]) ELSE Plain(r.ci[t][x])
      BY <1>5, <3>3
    <3>7. \A m \in 1 .. i - 1 : Switches(s.cs[m]) => s.cs[m].t # t
      BY <1>1, <1>2, <3>1
    <3>8. \A m \in i .. Len(s.cs) : Is(s.cs[m], {"callback"}) => s.cs[m].ci > Len(r.ci[t])
      BY <3>2
    <3>9. r.cs = SubSeq(s.cs, 1, i - 1) /\ r.st = s.st /\ r.unstarted = s.unstarted
      BY <2>2, <2>3, <2>6, <3>1
    <3>10. t \in Threads /\ s.st[t] = "OK" /\ r \in State
      BY <1>1, <1>2, <2>6
    <3>11. i \in 2 .. Len(s.cs) + 1
      BY <3>1
    <3> HIDE DEF N, t, i
    <3> QED
      BY <1>0, <3>2, <3>3, <3>5, <3>6, <3>7, <3>8, <3>9, <3>10, <3>11, CutSound
  <2>9. CountedUp(r, t) /\ Last(r.cs) = d
    <3> DEFINE i == N - 2
    <3>1. i \in Nat /\ Agree(r.cs, cs, i) /\ Len(r.cs) = i
      <4>1. i \in Nat
        BY <1>1, <1>2
      <4> HIDE DEF N
      <4> QED
        BY <2>2, <2>3, <2>6, <4>1
    <3>2. Counted(r.cs, i, t) = Counted(cs, i, t)
      <4> HIDE DEF i, t
      <4> QED
        BY <3>1, CountsOfPrefix
    <3>3. r.n[t] = n
      BY <1>1, <2>2, <2>6, StateFields
    <3> QED
      BY <2>3, <2>5, <2>6, <3>1, <3>2, <3>3 DEF CountedUp
  <2>10. GoodIfAny(EndCall(s2))
    <3>1. CASE d.f = "C"
      <4>1. EndCall(s2) = FinishC(r, "OK")
        BY <2>7, <2>9, <3>1
      <4> QED
        BY <2>4, <2>6, <2>8, <2>9, <3>1, <4>1, FinishGood DEF Statuses
    <3>2. CASE d.f = "protected"
      <4>1. EndCall(s2) = EndProtected(r, "OK")
        BY <2>7, <2>9, <3>2
      <4> QED
        BY <2>6, <2>8, <2>9, <3>2, <4>1, EndProtectedGood DEF Statuses
    <3>3. CASE d.f \notin {"C", "protected"}
      <4>1. EndCall(s2) = r
        BY <2>7, <2>9, <3>3
      <4> QED
        BY <2>4, <2>6, <2>8, <2>9, <4>1 DEF GoodIfAny, Good
    <3> QED
      BY <3>1, <3>2, <3>3
  <2>11. EndExecute(s1) = EndCall(s2)
    BY <1>8, <1>12
  <2> QED
    BY <1>3, <2>10, <2>11 DEF k
<1> QED
  BY <1>1, <1>11, <1>12

-----------------------------------------------------------------------------
(* Lemmas on errors. *)

(* The thread that runs has protected calls, and nothing of another one    *)
(* lies above them.                                                        *)
LEMMA Protected ==
    ASSUME NEW s \in State, Sound(s), ~Is(Last(s.cs), {"host"})
    PROVE  LET t == Last(s.cs).t
               P == Protections(s, t)
               N == Len(s.cs)
           IN /\ P \in SUBSET (2 .. N)
              /\ Max(P) \in P /\ \A x \in P : x <= Max(P)
              /\ Min(P) \in P /\ \A x \in P : Min(P) <= x
              /\ \A x \in P : s.cs[x].f = "protected" /\ s.cs[x].t = t /\ \A j \in x .. N : s.cs[j].t = t
              /\ \A j \in Max(P) + 1 .. N : s.cs[j].f # "protected"
              /\ t # Main => \A j \in 1 .. Min(P) - 1 : s.cs[j].t # t
PROOF
<1> DEFINE cs == s.cs
           N == Len(s.cs)
           t == Last(s.cs).t
           P == Protections(s, t)
           F == {m \in 1 .. N : cs[m].t = t}
           m0 == Min(F)
<1>1. /\ cs \in Seq(Frame) /\ N \in Nat \ {0} /\ Last(cs) = cs[N] /\ t \in Threads
      /\ \A m \in 1 .. N : cs[m] \in Frame
  BY TopFields, StateFields
<1>2. Is(cs[1], {"host"}) /\ cs[1].t = Main /\ \A m \in 2 .. N : Below(cs[m], cs[m - 1])
  BY DEF Sound, Grammar
<1>3. P = {n \in 1 .. N : cs[n].f = "protected" /\ cs[n].t = t}
  BY <1>1 DEF Protections
<1>4. P \in SUBSET (2 .. N)
  <2>1. 1 \notin P
    BY <1>2, <1>3 DEF Is
  <2> QED
    BY <1>1, <1>3, <2>1
<1>5. F \in SUBSET Nat /\ F # {}
  BY <1>1
<1>6. m0 \in F /\ \A x \in F : m0 <= x
  BY <1>5, MinOfNat
<1> HIDE DEF P, m0
<1>7. ASSUME m0 # 1
      PROVE  m0 \in P
  <2>1. m0 \in 2 .. N /\ m0 - 1 \in 1 .. N /\ cs[m0].t = t /\ m0 - 1 \notin F
    BY <1>1, <1>6, <1>7
  <2>2. Below(cs[m0], cs[m0 - 1]) /\ cs[m0] \in Frame /\ cs[m0 - 1].t # cs[m0].t
    BY <1>1, <1>2, <2>1
  <2>3. cs[m0].f = "protected"
    BY <2>2, FrameFields DEF Below, CalledC, CalledBy
  <2> QED
    BY <1>1, <1>3, <2>1, <2>3
<1>8. ASSUME m0 = 1
      PROVE  t = Main /\ 2 \in P
  <2>1. t = Main
    BY <1>2, <1>6, <1>8
  <2>2. N # 1
    BY <1>1, <1>2
  <2>3. 2 \in 2 .. N /\ 2 \in 1 .. N /\ 2 - 1 = 1
    <3> HIDE DEF N
    <3> QED
      BY <1>1, <2>2
  <2>4. Below(cs[2], cs[1]) /\ cs[2] \in Frame /\ cs[1].f = "C" /\ cs[1].fn = "host"
    BY <1>1, <1>2, <2>3 DEF Is
  <2>5. cs[2].f = "protected"
    BY <2>4, FrameFields DEF Below, CalledC, CalledBy, Is, Closing, Resuming
  <2>6. cs[2].t = cs[1].t
    BY <2>4, <2>5 DEF Below, ProtectedBy, Resumes, Is
  <2> QED
    BY <1>1, <1>2, <1>3, <2>1, <2>3, <2>5, <2>6
<1>9. P # {}
  BY <1>7, <1>8
<1>10. /\ Max(P) \in P /\ \A x \in P : x <= Max(P)
       /\ Min(P) \in P /\ \A x \in P : Min(P) <= x
  <2>1. N \in Nat /\ P \in SUBSET (0 .. N) /\ P \in SUBSET Nat
    BY <1>1, <1>4
  <2> HIDE DEF N
  <2> QED
    BY <1>9, <2>1, MaxOfBounded, MinOfNat
<1>11. \A x \in P : cs[x].f = "protected" /\ cs[x].t = t /\ \A j \in x .. N : cs[j].t = t
  BY <1>1, <1>3, TopContiguous
<1>12. ASSUME NEW j \in Max(P) + 1 .. N
       PROVE  cs[j].f # "protected"
  <2>1. j \in 1 .. N /\ j \in Max(P) .. N /\ j > Max(P) /\ j \in Nat /\ Max(P) \in Nat
    <3>1. N \in Nat /\ Max(P) \in 2 .. N
      BY <1>1, <1>4, <1>10
    <3> HIDE DEF N
    <3> QED
      BY <1>12, <3>1
  <2>2. j \notin P
    <3>1. j \in P => j <= Max(P)
      BY <1>10
    <3> QED
      BY <2>1, <3>1
  <2>3. cs[j].t = t
    BY <1>10, <1>11, <2>1
  <2> QED
    BY <1>3, <2>1, <2>2, <2>3
<1>13. ASSUME t # Main, NEW j \in 1 .. Min(P) - 1
       PROVE  cs[j].t # t
  <2>1. m0 \in P /\ m0 \in Nat
    BY <1>5, <1>6, <1>7, <1>8, <1>13
  <2>2. j \in 1 .. N /\ j < m0
    <3>1. N \in Nat /\ Min(P) \in 2 .. N /\ Min(P) <= m0
      BY <1>1, <1>4, <1>10, <2>1
    <3> HIDE DEF N
    <3> QED
      BY <1>13, <2>1, <3>1
  <2>3. j \notin F
    BY <1>6, <2>1, <2>2
  <2> QED
    BY <2>2, <2>3
<1> QED
  BY <1>4, <1>10, <1>11, <1>12, <1>13 DEF P

(* The jump to a protected call.                                           *)
Jumped(s, r, at, t) ==
    /\ r \in State /\ r.cs = SubSeq(s.cs, 1, at - 1) /\ Len(r.cs) = at - 1 /\ Agree(r.cs, s.cs, at - 1)
    /\ Last(r.cs) = s.cs[at - 1] /\ s.cs[at - 1] \in Frame /\ ProtectedBy(s.cs[at], s.cs[at - 1])
    /\ r.ci = s.ci /\ r.st = s.st /\ r.tbc = s.tbc /\ r.unstarted = s.unstarted
    /\ r.n[t] = s.cs[at].n /\ \A u \in Threads : u # t => r.n[u] = s.n[u]
    /\ s.cs[at].n = Counted(r.cs, at - 1, t) /\ s.cs[at].n[1] < ERRORCCALLS
    /\ t \in Threads /\ s.st[t] = "OK" /\ t \notin s.unstarted
    /\ \A m \in 1 .. at - 1 : Switches(s.cs[m]) => s.cs[m].t # t
    /\ Switches(s.cs[at - 1]) => \A m \in 1 .. at - 1 : s.cs[m].t # t

(* What the jump to a protected call leaves of the C stack, and what it    *)
(* restores.                                                               *)
LEMMA LandFields ==
    ASSUME NEW s \in State, Sound(s), NEW at \in 2 .. Len(s.cs), s.cs[at].f = "protected", NEW t, t = s.cs[at].t
    PROVE  Jumped(s, [s EXCEPT !.cs = SubSeq(s.cs, 1, at - 1), !.n[t] = s.cs[at].n], at, t)
PROOF
<1> DEFINE cs == s.cs
           p == cs[at]
           k == at - 1
           ds == SubSeq(cs, 1, k)
           n == p.n
           s1 == [s EXCEPT !.cs = ds]
           r == [s EXCEPT !.cs = ds, !.n[t] = n]
<1>1. /\ cs \in Seq(Frame) /\ Len(cs) \in Nat /\ p \in Frame /\ cs[at - 1] \in Frame /\ t \in Threads /\ n \in Nat \X Nat
      /\ at \in 1 .. Len(cs) /\ k \in 1 .. Len(cs) /\ k \in 0 .. Len(cs) /\ k \in Nat
  BY StateFields, FrameFields
<1>2. n = Counted(cs, k, t) /\ n[1] < ERRORCCALLS /\ ProtectedBy(p, cs[k])
  <2>1. Below(p, cs[k])
    BY DEF Sound, Grammar
  <2> QED
    BY <1>1, <2>1 DEF Sound, CountsKept, Below
<1>3. s.st[t] = "OK" /\ t \notin s.unstarted
  BY <1>1 DEF Sound, ThreadsRun
<1>4. \A m \in 1 .. k : Switches(cs[m]) => cs[m].t # t
  BY <1>1 DEF Sound, Apart
<1>5. Switches(cs[k]) => \A m \in 1 .. k : cs[m].t # t
  BY <1>1 DEF Sound, Apart
<1> HIDE DEF k
<1>6. ds \in Seq(Frame) /\ Len(ds) = k /\ Agree(ds, cs, k)
  BY <1>1, SubSeqOf
<1>7. Last(ds) = cs[k]
  BY <1>1, <1>6 DEF Last, Agree
<1>8. Counted(ds, k, t) = Counted(cs, k, t)
  BY <1>1, <1>6, CountsOfPrefix
<1> HIDE DEF ds, n
<1>9. /\ s1 \in State /\ s1.cs = ds /\ s1.ci = s.ci /\ s1.st = s.st /\ s1.tbc = s.tbc /\ s1.unstarted = s.unstarted /\ s1.n = s.n
  BY <1>6, SetFields
<1>10. r = [s1 EXCEPT !.n[t] = n]
  BY DEF State
<1> HIDE DEF s1, r
<1>11. /\ r \in State /\ r.cs = ds /\ r.ci = s.ci /\ r.st = s.st /\ r.tbc = s.tbc /\ r.unstarted = s.unstarted
       /\ r.n = [s.n EXCEPT ![t] = n]
  BY <1>1, <1>9, <1>10, SetFields
<1>12. r.n[t] = n /\ \A u \in Threads : u # t => r.n[u] = s.n[u]
  BY <1>1, <1>11, StateFields
<1> QED
  BY <1>1, <1>2, <1>3, <1>4, <1>5, <1>6, <1>7, <1>8, <1>11, <1>12 DEF k, ds, n, r, Jumped

(* An error ends at a call that closes variables: it goes on closing them. *)
LEMMA LandClosing ==
    ASSUME NEW s \in State, Sound(s), NEW at \in 2 .. Len(s.cs), Closing(s.cs[at]), NEW t, t = s.cs[at].t,
           \A j \in at .. Len(s.cs) : s.cs[j].t = t /\ ~Is(s.cs[j], {"closeself"}),
           NEW st \in Statuses, st # "OK"
    PROVE  Land(s, t, at, st) \in State /\ Good(Land(s, t, at, st))
PROOF
<1> DEFINE cs == s.cs
           p == cs[at]
           s1 == [s EXCEPT !.cs = SubSeq(s.cs, 1, at - 1), !.n[t] = p.n]
           k == p.then.ci
           list == SubSeq(s.ci[t], 1, k)
           r == [s1 EXCEPT !.ci[t] = list]
<1>1. p.f = "protected" /\ p.then.what = "closing" /\ p \in Frame
  BY StateFields DEF Closing
<1>2. k \in Nat /\ p.then.level \in Nat
  BY <1>1, FrameFields
<1>3. Land(s, t, at, st) = luaD_closeprotected(Cut(s1, t, k), t, p.then.level, st)
  BY <1>1 DEF Land
<1>4. /\ s1 \in State /\ s1.cs = SubSeq(cs, 1, at - 1) /\ Len(s1.cs) = at - 1 /\ Agree(s1.cs, cs, at - 1)
      /\ Last(s1.cs) = cs[at - 1] /\ cs[at - 1] \in Frame /\ ProtectedBy(p, cs[at - 1])
      /\ s1.ci = s.ci /\ s1.st = s.st /\ s1.unstarted = s.unstarted
      /\ s1.n[t] = p.n /\ \A u \in Threads : u # t => s1.n[u] = s.n[u]
      /\ p.n = Counted(s1.cs, at - 1, t) /\ p.n[1] < ERRORCCALLS
      /\ t \in Threads /\ s.st[t] = "OK" /\ t \notin s.unstarted
      /\ \A m \in 1 .. at - 1 : Switches(cs[m]) => cs[m].t # t
      /\ Switches(cs[at - 1]) => \A m \in 1 .. at - 1 : cs[m].t # t
  <2>1. s.cs[at].f = "protected" /\ t = s.cs[at].t
    BY <1>1
  <2>2. Jumped(s, s1, at, t)
    BY <2>1, LandFields
  <2> HIDE DEF s1
  <2> QED
    BY <2>2 DEF Jumped
<1> HIDE DEF s1
<1>5. Cut(s1, t, k) = r
  BY <1>4 DEF Cut
<1>6. Live(cs, at) /\ Leveled(cs, at) /\ Level(p) = k
  BY <1>1 DEF Live, ClosesSelf, Is, Leveled, Level
<1>7. s.ci[t] \in Seq(CallInfo) /\ Len(s.ci[t]) \in Nat /\ k \in 1 .. Len(s.ci[t])
  <2>1. LevelsIn(cs, s.ci)
    BY DEF Sound
  <2>2. at \in 1 .. Len(cs) /\ p.t = t
    BY StateFields
  <2>3. s.ci[t] \in Seq(CallInfo) /\ Len(s.ci[t]) \in Nat
    BY <1>4, StateFields
  <2> HIDE DEF k
  <2>4. Level(p) \in 1 .. Len(s.ci[p.t])
    BY <1>6, <2>1, <2>2 DEF LevelsIn
  <2> QED
    BY <1>6, <2>2, <2>3, <2>4
<1> HIDE DEF k
<1>8. list \in Seq(CallInfo) /\ Len(list) = k /\ \A x \in 1 .. k : list[x] = s.ci[t][x]
  <2> DEFINE q == s.ci[t]
  <2>1. q \in Seq(CallInfo) /\ k \in 0 .. Len(q)
    BY <1>7
  <2> HIDE DEF q
  <2>2. SubSeq(q, 1, k) \in Seq(CallInfo) /\ Len(SubSeq(q, 1, k)) = k /\ Agree(SubSeq(q, 1, k), q, k)
    BY <2>1, SubSeqOf
  <2> QED
    BY <2>2 DEF q, Agree
<1> HIDE DEF list
<1>9. /\ r \in State /\ r.cs = s1.cs /\ r.ci = [s.ci EXCEPT ![t] = list] /\ r.st = s.st /\ r.unstarted = s.unstarted /\ r.n = s1.n
  BY <1>4, <1>8, SetFields, SMTT(30)
<1> HIDE DEF r
<1>10. r.ci[t] = list /\ \A u \in Threads : u # t => r.n[u] = s.n[u] /\ r.ci[u] = s.ci[u]
  BY <1>4, <1>9, StateFields
<1>11. Sound(r)
  <2>1. at \in 2 .. Len(s.cs) + 1 /\ r.cs = SubSeq(s.cs, 1, at - 1)
    BY <1>4, <1>9, StateFields
  <2>2. /\ Len(r.ci[t]) = k /\ Len(r.ci[t]) >= 1 /\ Len(r.ci[t]) <= Len(s.ci[t])
    BY <1>7, <1>8, <1>10
  <2>3. \A x \in 1 .. Len(r.ci[t]) : IF x <= Len(s.ci[t]) THEN Same(r.ci[t][x], s.ci[t][x]) ELSE Plain(r.ci[t][x])
    BY <1>7, <1>8, <1>10 DEF Same
  <2>4. ASSUME NEW m \in 1 .. at - 1, cs[m].t = t, Live(cs, m), Leveled(cs, m)
        PROVE  Level(cs[m]) <= k
    <3>1. m < at /\ m \in 1 .. Len(cs) /\ at \in 1 .. Len(cs)
      BY StateFields
    <3> QED
      BY <1>1, <1>6, <2>4, <3>1 DEF Sound, LevelsGrow
  <2>5. ASSUME NEW m \in at .. Len(cs), Is(cs[m], {"callback"})
        PROVE  cs[m].ci > k
    <3>1. at < m /\ m \in 1 .. Len(cs) /\ at \in 1 .. Len(cs) /\ cs[m].t = t /\ cs[m].f = "C"
      <4>1. m # at
        BY <1>1, <2>5 DEF Is
      <4> QED
        BY <2>5, <4>1, StateFields DEF Is
    <3>2. Leveled(cs, m) /\ Level(cs[m]) = cs[m].ci
      BY <2>5 DEF Leveled, Level, Is
    <3>3. Level(p) < Level(cs[m])
      BY <1>6, <3>1, <3>2 DEF Sound, LevelsGrow
    <3>4. cs[m].ci \in Nat
      BY <3>1, StateFields, FrameFields
    <3> QED
      BY <1>6, <1>7, <3>2, <3>3, <3>4
  <2>6. \A m \in 1 .. at - 1 : s.cs[m].t = t /\ Live(s.cs, m) /\ Leveled(s.cs, m) => Level(s.cs[m]) <= Len(r.ci[t])
    BY <2>2, <2>4
  <2>7. \A m \in at .. Len(s.cs) : Is(s.cs[m], {"callback"}) => s.cs[m].ci > Len(r.ci[t])
    BY <2>2, <2>5
  <2>8. \A m \in 1 .. at - 1 : Switches(s.cs[m]) => s.cs[m].t # t
    BY <1>4
  <2>9. t \in Threads /\ s.st[t] = "OK" /\ r.st = s.st /\ r.unstarted = s.unstarted
    BY <1>4, <1>9
  <2> QED
    BY <1>9, <1>10, <2>1, <2>2, <2>3, <2>6, <2>7, <2>8, <2>9, CutSound
<1>12. CountedUp(r, t)
  <2>1. r.cs = s1.cs /\ Len(r.cs) = at - 1 /\ r.n[t] = p.n
    BY <1>4, <1>9
  <2> QED
    BY <1>4, <2>1 DEF CountedUp
<1>13. Closes(Last(r.cs), t, Len(r.ci[t]))
  <2>1. Last(r.cs) = cs[at - 1] /\ Len(r.ci[t]) = k
    BY <1>4, <1>8, <1>9, <1>10
  <2> QED
    BY <1>1, <1>4, <2>1 DEF Closes, ProtectedBy, k
<1>14. Switches(Last(r.cs)) => \A m \in 1 .. Len(r.cs) : r.cs[m].t # t
  BY <1>4, <1>9 DEF Agree
<1>15. luaD_closeprotected(r, t, p.then.level, st) \in State /\ Good(luaD_closeprotected(r, t, p.then.level, st))
  <2> DEFINE level == p.then.level
  <2>1. level \in Nat /\ r.st[t] = "OK" /\ t \notin r.unstarted /\ t \in Threads
    BY <1>2, <1>4, <1>9
  <2> HIDE DEF level
  <2>2. luaD_closeprotected(r, t, level, st) \in State /\ Good(luaD_closeprotected(r, t, level, st))
    BY <1>9, <1>11, <1>12, <1>13, <1>14, <2>1, CloseProtectedGood
  <2> QED
    BY <2>2 DEF level
<1> QED
  BY <1>3, <1>5, <1>15

(* A function or unroll starts to run.                                     *)
LEMMA RunGood ==
    ASSUME NEW s \in State, Sound(s), NEW t \in Threads, CountedUp(s, t), Last(s.cs).t = t, NEW f \in {"execute", "unroll"},
           IF f = "unroll" THEN Resuming(Last(s.cs))
           ELSE Last(s.cs).f = "call" \/ (Last(s.cs).f = "unroll" /\ Len(s.ci[t]) >= 2)
    PROVE  LET r == [s EXCEPT !.cs = Append(@, [f |-> f, t |-> t])] IN r \in State /\ Good(r)
PROOF
<1> DEFINE e == [f |-> f, t |-> t]
           r == [s EXCEPT !.cs = Append(s.cs, e)]
<1>1. e \in Frame /\ e.f = f /\ e.t = t
  BY DEF Frame
<1>2. /\ r \in State /\ r.cs = Append(s.cs, e) /\ r.ci = s.ci /\ r.st = s.st /\ r.tbc = s.tbc
      /\ r.unstarted = s.unstarted /\ r.n = s.n
  <2>1. Append(s.cs, e) \in Seq(Frame)
    BY <1>1, StateFields
  <2> HIDE DEF e
  <2> QED
    BY <2>1, SetFields
<1>3. s.cs \in Seq(Frame) /\ Len(s.cs) \in Nat /\ s.st[t] = "OK" /\ t \notin s.unstarted
  BY TopFields
<1>4. Last(r.cs) = e /\ Len(r.cs) = Len(s.cs) + 1
  BY <1>1, <1>2, <1>3 DEF Last
<1> HIDE DEF r, e
<1>5. /\ Below(e, Last(s.cs)) /\ ~Is(e, {"closeself"}) /\ ~Switches(e) /\ ~Counts(e) /\ ~ClosesSelf(e, t) /\ ~Bars(e, t)
      /\ e.f \notin {"C", "call", "protected", "close"} /\ ~Closing(e) /\ ~Switches(Last(s.cs))
  <2>1. CASE f = "unroll"
    BY <1>1, <2>1 DEF Below, Is, Switches, Counts, Resumes, ClosesSelf, Bars, Closing, Resuming
  <2>2. CASE f = "execute"
    BY <1>1, <2>2 DEF Below, Is, Switches, Counts, Resumes, ClosesSelf, Bars, Closing
  <2> QED
    BY <2>1, <2>2
<1>6. base_ci \in CallInfo /\ base_ci.ypcall = FALSE
  BY InfoType DEF base_ci
<1>7. e.f = "execute" /\ Last(s.cs).f = "unroll" => Len(s.ci[e.t]) >= 2
  BY <1>1
<1>8. Sound(r)
  BY <1>1, <1>2, <1>3, <1>5, <1>6, <1>7, PushSound
<1>9. CountedUp(r, t)
  BY <1>1, <1>2, <1>3, <1>4, <1>5, CountedSame DEF CountedUp
<1> QED
  BY <1>1, <1>2, <1>4, <1>8, <1>9 DEF Good, r, e

(* All that a thread has on the C stack is left.                           *)
LEMMA LeaveSound ==
    ASSUME NEW s \in State, Sound(s), NEW at \in 2 .. Len(s.cs), NEW t, NEW q, Jumped(s, q, at, t),
           \A j \in at .. Len(s.cs) : s.cs[j].t = t, s.cs[at - 1].t # t,
           NEW r \in State, r.cs = q.cs, r.n = q.n, r.unstarted = s.unstarted,
           \A u \in Threads : u # t => r.ci[u] = s.ci[u] /\ r.st[u] = s.st[u],
           EntriesOf(r.ci[t], r.st[t]), r.st[t] = "ERRRUN" \/ NoCallback(r.ci[t])
    PROVE  /\ Sound(r) /\ CountedUp(r, t) /\ Last(r.cs) = s.cs[at - 1]
           /\ \A m \in 1 .. Len(r.cs) : r.cs[m].t # t
PROOF
<1>1. /\ q \in State /\ q.cs = SubSeq(s.cs, 1, at - 1) /\ Len(q.cs) = at - 1 /\ Agree(q.cs, s.cs, at - 1)
      /\ Last(q.cs) = s.cs[at - 1] /\ ProtectedBy(s.cs[at], s.cs[at - 1])
      /\ q.n[t] = s.cs[at].n /\ \A u \in Threads : u # t => q.n[u] = s.n[u]
      /\ s.cs[at].n = Counted(q.cs, at - 1, t) /\ s.cs[at].n[1] < ERRORCCALLS
      /\ t \in Threads /\ t \notin s.unstarted
      /\ Switches(s.cs[at - 1]) => \A m \in 1 .. at - 1 : s.cs[m].t # t
  BY DEF Jumped
<1>2. at \in 1 .. Len(s.cs) /\ s.cs[at].t = t
  BY StateFields
<1>3. \A m \in 1 .. at - 1 : s.cs[m].t # t
  <2>1. Switches(s.cs[at - 1])
    BY <1>1, <1>2 DEF ProtectedBy, Switches, Resumes, Is
  <2> QED
    BY <1>1, <2>1
<1>4. Sound(r)
  <2>1. at \in 2 .. Len(s.cs) + 1 /\ r.cs = SubSeq(s.cs, 1, at - 1)
    BY <1>1, StateFields
  <2>2. \A u \in Threads : u # t => r.n[u] = s.n[u] /\ r.ci[u] = s.ci[u] /\ r.st[u] = s.st[u]
    BY <1>1
  <2>3. r.unstarted \subseteq s.unstarted /\ t \notin r.unstarted
    BY <1>1
  <2> QED
    BY <1>1, <1>3, <2>1, <2>2, <2>3, DropSound
<1>5. CountedUp(r, t)
  BY <1>1 DEF CountedUp
<1>6. Last(r.cs) = s.cs[at - 1] /\ \A m \in 1 .. Len(r.cs) : r.cs[m].t # t
  BY <1>1, <1>3 DEF Agree
<1> QED
  BY <1>4, <1>5, <1>6

(* lua_resume protects the calls of the coroutine. *)
LEMMA ResumeProtected ==
    ASSUME NEW s \in State, Sound(s), NEW t \in Threads, CountedUp(s, t), Resumes(Last(s.cs)), Last(s.cs).co = t,
           \A m \in 1 .. Len(s.cs) : s.cs[m].t # t, s.st[t] = "OK", t \notin s.unstarted
    PROVE  LET r == luaD_rawrunprotected(s, t, [what |-> "resume"])
           IN /\ r \in State /\ Sound(r) /\ CountedUp(r, t) /\ Last(r.cs).t = t /\ Resuming(Last(r.cs))
              /\ r.ci = s.ci /\ r.st = s.st /\ r.tbc = s.tbc /\ r.unstarted = s.unstarted /\ r.n = s.n
PROOF
<1> DEFINE then == [what |-> "resume"]
           e == [f |-> "protected", t |-> t, n |-> s.n[t], then |-> then]
           r == luaD_rawrunprotected(s, t, then)
<1>1. then \in Thens /\ then.what = "resume"
  BY DEF Thens
<1>2. e.f = "protected" /\ e.t = t /\ e.then = then
  OBVIOUS
<1>3. ProtectedBy(e, Last(s.cs))
  BY <1>1, <1>2 DEF ProtectedBy
<1>4. then.what = "closing" => then.ci = Len(s.ci[t])
  BY <1>1
<1> HIDE DEF then
<1>5. /\ r \in State /\ Sound(r) /\ CountedUp(r, t) /\ Last(r.cs) = e
      /\ r.ci = s.ci /\ r.st = s.st /\ r.tbc = s.tbc /\ r.unstarted = s.unstarted /\ r.n = s.n
  BY <1>1, <1>3, <1>4, ProtectSound
<1>6. Last(r.cs).t = t /\ Resuming(Last(r.cs))
  BY <1>1, <1>2, <1>5 DEF Resuming
<1> QED
  BY <1>5, <1>6 DEF then

(* A coroutine is continued by unroll in a protected call of its own.      *)
LEMMA UnrollGood ==
    ASSUME NEW s \in State, Sound(s), NEW t \in Threads, CountedUp(s, t), Resumes(Last(s.cs)), Last(s.cs).co = t,
           \A m \in 1 .. Len(s.cs) : s.cs[m].t # t, s.st[t] = "OK", t \notin s.unstarted
    PROVE  LET p == luaD_rawrunprotected(s, t, [what |-> "resume"])
               r == [p EXCEPT !.cs = Append(@, [f |-> "unroll", t |-> t])]
           IN r \in State /\ Good(r)
PROOF
<1> DEFINE p == luaD_rawrunprotected(s, t, [what |-> "resume"])
<1>1. p \in State /\ Sound(p) /\ CountedUp(p, t) /\ Last(p.cs).t = t /\ Resuming(Last(p.cs))
  BY ResumeProtected
<1> HIDE DEF p
<1> DEFINE f == "unroll"
           r == [p EXCEPT !.cs = Append(@, [f |-> f, t |-> t])]
<1>2. r \in State /\ Good(r)
  <2>1. f \in {"execute", "unroll"} /\ IF f = "unroll" THEN Resuming(Last(p.cs))
           ELSE Last(p.cs).f = "call" \/ (Last(p.cs).f = "unroll" /\ Len(p.ci[t]) >= 2)
    BY <1>1
  <2> HIDE DEF f
  <2> QED
    BY <1>1, <2>1, RunGood
<1> QED
  BY <1>2 DEF p

(* An error ends at the resume: the coroutine recovers in a pcall, or it   *)
(* is dead.                                                                *)
LEMMA LandResume ==
    ASSUME NEW s \in State, Sound(s), NEW at \in 2 .. Len(s.cs), Resuming(s.cs[at]), NEW t, t = s.cs[at].t,
           \A j \in at .. Len(s.cs) : s.cs[j].t = t
    PROVE  GoodIfAny(Land(s, t, at, "ERRRUN"))
PROOF
<1> DEFINE cs == s.cs
           p == cs[at]
           st == "ERRRUN"
           q == [s EXCEPT !.cs = SubSeq(s.cs, 1, at - 1), !.n[t] = p.n]
           b == cs[at - 1]
           S == findpcall(q, t)
<1>1. p.f = "protected" /\ p.then.what = "resume"
  BY DEF Resuming
<1>2. Land(s, t, at, st) = precover(q, t, st)
  BY <1>1 DEF Land
<1>3. Jumped(s, q, at, t)
  <2>1. s.cs[at].f = "protected" /\ t = s.cs[at].t
    BY <1>1
  <2> QED
    BY <2>1, LandFields
<1> HIDE DEF q
<1>4. /\ q \in State /\ ProtectedBy(p, b) /\ q.ci = s.ci /\ q.st = s.st /\ q.unstarted = s.unstarted
      /\ t \in Threads /\ s.st[t] = "OK" /\ t \notin s.unstarted
  BY <1>3 DEF Jumped
<1>5. Resumes(b) /\ b.co = t /\ b.f = "C" /\ b.fn \in {"resume", "wrap"}
  BY <1>1, <1>4 DEF ProtectedBy, Resumes, Is
<1>6. b.t # t
  <2>1. at - 1 \in 1 .. Len(cs) /\ at - 1 \in 1 .. at - 1 /\ at \in (at - 1) + 1 .. Len(cs)
    BY StateFields
  <2>2. Switches(b)
    BY <1>5 DEF Switches, Is
  <2>3. b.t # cs[at].t
    BY <2>1, <2>2 DEF Sound, Apart
  <2> QED
    BY <2>3
<1>7. s.ci[t] \in Seq(CallInfo) /\ Len(s.ci[t]) \in Nat /\ EntriesOf(s.ci[t], "OK")
  BY <1>4, StateFields DEF Sound, Entries
<1>8. S = {n \in 1 .. Len(s.ci[t]) : s.ci[t][n].ypcall}
  BY <1>4, <1>7 DEF findpcall
<1>9. errorstatus(st)
  BY DEF errorstatus
<1> HIDE DEF st, S
<1>10. CASE S = {}
  <2> DEFINE r == [q EXCEPT !.st[t] = st]
  <2>1. precover(q, t, st) = FinishC(r, st)
    BY <1>9, <1>10 DEF precover, S
  <2>2. st \in Statuses /\ st = "ERRRUN"
    BY DEF st, Statuses
  <2>3. /\ r \in State /\ r.cs = q.cs /\ r.ci = s.ci /\ r.unstarted = s.unstarted /\ r.n = q.n
        /\ r.st = [s.st EXCEPT ![t] = st]
    BY <1>4, <2>2, SetFields
  <2> HIDE DEF r
  <2>4. r.st[t] = "ERRRUN" /\ \A u \in Threads : u # t => r.ci[u] = s.ci[u] /\ r.st[u] = s.st[u]
    BY <1>4, <2>2, <2>3, StateFields
  <2>5. EntriesOf(r.ci[t], r.st[t])
    BY <1>7, <2>3, <2>4 DEF EntriesOf
  <2>6. Sound(r) /\ Last(r.cs) = b
    <3>1. s.cs[at - 1].t # t /\ (r.st[t] = "ERRRUN" \/ NoCallback(r.ci[t]))
      BY <1>6, <2>4
    <3>2. r \in State /\ r.cs = q.cs /\ r.n = q.n /\ r.unstarted = s.unstarted
      BY <2>3
    <3>3. \A u \in Threads : u # t => r.ci[u] = s.ci[u] /\ r.st[u] = s.st[u]
      BY <2>4
    <3>4. \A j \in at .. Len(s.cs) : s.cs[j].t = t
      OBVIOUS
    <3> QED
      BY ONLY s \in State, Sound(s), at \in 2 .. Len(s.cs), <1>3, <2>5, <3>1, <3>2, <3>3, <3>4, LeaveSound
  <2>7. GoodIfAny(FinishC(r, st))
    BY <1>5, <2>2, <2>3, <2>6, FinishGood
  <2> QED
    BY <1>2, <2>1, <2>7 DEF st
<1>11. CASE S # {}
  <2> DEFINE n == Max(S)
             l0 == SubSeq(s.ci[t], 1, n)
             q1 == Cut(q, t, n)
             list == [l0 EXCEPT ![n].recst = st]
             r == [q EXCEPT !.ci[t] = list]
  <2>1. n \in 1 .. Len(s.ci[t]) /\ s.ci[t][n].ypcall
    <3>1. S \in SUBSET (0 .. Len(s.ci[t]))
      BY <1>8
    <3>2. n \in S
      BY <1>7, <1>11, <3>1, MaxOfBounded
    <3> HIDE DEF n
    <3> QED
      BY <1>8, <3>2
  <2> HIDE DEF n
  <2>2. l0 \in Seq(CallInfo) /\ Len(l0) = n /\ \A x \in 1 .. n : l0[x] = s.ci[t][x]
    <3> DEFINE h == s.ci[t]
    <3>1. h \in Seq(CallInfo) /\ n \in 0 .. Len(h)
      BY <1>7, <2>1
    <3> HIDE DEF h
    <3>2. SubSeq(h, 1, n) \in Seq(CallInfo) /\ Len(SubSeq(h, 1, n)) = n /\ Agree(SubSeq(h, 1, n), h, n)
      BY <3>1, SubSeqOf
    <3> QED
      BY <3>2 DEF h, Agree
  <2> HIDE DEF l0
  <2>3. st \in Statuses
    BY DEF st, Statuses
  <2>4. /\ list \in Seq(CallInfo) /\ Len(list) = n
        /\ \A x \in 1 .. n : list[x].fn = l0[x].fn /\ list[x].fresh = l0[x].fresh /\ list[x].ypcall = l0[x].ypcall
    <3>1. l0[n] \in CallInfo /\ n \in 1 .. n
      BY <2>1, <2>2
    <3>2. [l0[n] EXCEPT !.recst = st] \in CallInfo /\ Same([l0[n] EXCEPT !.recst = st], l0[n])
      BY <2>3, <3>1 DEF CallInfo, Same
    <3> DEFINE x0 == [l0[n] EXCEPT !.recst = st]
    <3>3. list = [l0 EXCEPT ![n] = x0]
      OBVIOUS
    <3> HIDE DEF x0, list
    <3>4. list \in Seq(CallInfo) /\ Len(list) = n /\ \A x \in 1 .. n : list[x] = IF x = n THEN x0 ELSE l0[x]
      BY <2>1, <2>2, <3>1, <3>2, <3>3 DEF x0
    <3> QED
      BY <3>2, <3>4 DEF x0, Same
  <2>5. precover(q, t, st) = LET v == luaD_rawrunprotected(r, t, [what |-> "resume"])
                             IN [v EXCEPT !.cs = Append(@, [f |-> "unroll", t |-> t])]
    <3>1. [q1 EXCEPT !.ci[t][n].recst = st] = r
      BY <1>4, StateFields DEF Cut, State, l0
    <3> HIDE DEF r, list
    <3> QED
      BY <1>9, <1>11, <3>1 DEF precover, n, S
  <2> HIDE DEF list
  <2>6. /\ r \in State /\ r.cs = q.cs /\ r.st = s.st /\ r.unstarted = s.unstarted /\ r.n = q.n
        /\ r.ci = [s.ci EXCEPT ![t] = list]
    BY <1>4, <2>4, SetFields
  <2> HIDE DEF r
  <2>7. r.ci[t] = list /\ r.st[t] = "OK" /\ \A u \in Threads : u # t => r.ci[u] = s.ci[u] /\ r.st[u] = s.st[u]
    BY <1>4, <2>6, StateFields
  <2>8. \A x \in 1 .. n : list[x].fn = s.ci[t][x].fn /\ list[x].fresh = s.ci[t][x].fresh /\ list[x].ypcall = s.ci[t][x].ypcall
    BY <2>2, <2>4
  <2>9. n <= Len(s.ci[t]) /\ n >= 1 /\ \A i \in 1 .. n : s.ci[t][i].fn # "callback"
    BY <1>7, <2>1 DEF EntriesOf
  <2>10. EntriesOf(list, "OK") /\ NoCallback(list)
    <3>1. NoCallback(list)
      BY <2>4, <2>8, <2>9 DEF NoCallback
    <3>2. Len(list) >= 2 => list[2].fresh
      BY <1>7, <2>1, <2>4, <2>8, <2>9 DEF EntriesOf
    <3>3. \A x \in 1 .. Len(list) : list[x].ypcall => \A i \in 1 .. x : list[i].fn # "callback"
      BY <2>1, <2>4, <3>1 DEF NoCallback
    <3> QED
      BY <2>1, <2>4, <3>1, <3>2, <3>3 DEF EntriesOf
  <2>11. Sound(r) /\ CountedUp(r, t) /\ Last(r.cs) = b /\ \A m \in 1 .. Len(r.cs) : r.cs[m].t # t
    <3>1. s.cs[at - 1].t # t /\ EntriesOf(r.ci[t], r.st[t]) /\ (r.st[t] = "ERRRUN" \/ NoCallback(r.ci[t]))
      BY <1>6, <2>7, <2>10
    <3>2. r \in State /\ r.cs = q.cs /\ r.n = q.n /\ r.unstarted = s.unstarted
      BY <2>6
    <3>3. \A u \in Threads : u # t => r.ci[u] = s.ci[u] /\ r.st[u] = s.st[u]
      BY <2>7
    <3>4. \A j \in at .. Len(s.cs) : s.cs[j].t = t
      OBVIOUS
    <3> QED
      BY ONLY s \in State, Sound(s), at \in 2 .. Len(s.cs), <1>3, <3>1, <3>2, <3>3, <3>4, LeaveSound
  <2>12. LET v == luaD_rawrunprotected(r, t, [what |-> "resume"])
             w == [v EXCEPT !.cs = Append(@, [f |-> "unroll", t |-> t])]
         IN w \in State /\ Good(w)
    <3>1. r.st[t] = "OK" /\ t \notin r.unstarted /\ Resumes(Last(r.cs)) /\ Last(r.cs).co = t
      BY <1>4, <1>5, <2>6, <2>7, <2>11
    <3> QED
      BY <1>4, <2>6, <2>11, <3>1, UnrollGood
  <2> QED
    BY <1>2, <2>5, <2>12 DEF GoodIfAny, st
<1> QED
  BY <1>10, <1>11

(* What stands on a function that calls back, and on one that closes its   *)
(* thread.                                                                 *)
LEMMA OnC ==
    ASSUME NEW s \in State, Sound(s), NEW j \in 1 .. Len(s.cs) - 1
    PROVE  /\ Is(s.cs[j], {"closeself"}) => s.cs[j + 1].f = "protected"
           /\ Is(s.cs[j], {"callback"}) =>
                s.cs[j + 1].f = "call" /\ s.cs[j + 1].inc = nyci /\ s.cs[j + 1].t = s.cs[j].t
PROOF
<1> DEFINE e == s.cs[j + 1]
           b == s.cs[j]
<1>1. j + 1 \in 2 .. Len(s.cs) /\ (j + 1) - 1 = j /\ j + 1 \in 1 .. Len(s.cs)
  BY StateFields
<1>2. Below(e, b) /\ e \in Frame
  BY <1>1, StateFields DEF Sound, Grammar
<1> HIDE DEF e, b
<1>3. ASSUME Is(b, {"closeself"})
      PROVE  e.f = "protected"
  BY <1>2, <1>3, FrameFields DEF Below, CalledC, CalledBy, Is, Closing, Resuming
<1>4. ASSUME Is(b, {"callback"})
      PROVE  e.f = "call" /\ e.inc = nyci /\ e.t = b.t
  <2>1. e.f \in {"call", "protected"}
    BY <1>2, <1>4, FrameFields DEF Below, CalledC, Is, Closing, Resuming
  <2>2. e.f # "protected"
    BY <1>2, <1>4 DEF Below, ProtectedBy, Resumes, Is
  <2>3. CalledBy(e, b)
    BY <1>2, <2>1, <2>2 DEF Below
  <2> QED
    BY <1>4, <2>1, <2>2, <2>3 DEF CalledBy, Is, Closing, Resuming
<1> QED
  BY <1>3, <1>4 DEF e, b

(* luaD_throw. *)
LEMMA ThrowGood ==
    ASSUME NEW s \in State, Sound(s), ~Is(Last(s.cs), {"host", "closeself"}), NEW t, t = Last(s.cs).t
    PROVE  GoodIfAny(luaD_throw(s, t, "ERRRUN"))
PROOF
<1> DEFINE P == Protections(s, t)
           N == Len(s.cs)
           at == Max(P)
<1>1. /\ P \in SUBSET (2 .. N) /\ at \in P
      /\ \A x \in P : s.cs[x].f = "protected" /\ s.cs[x].t = t /\ \A j \in x .. N : s.cs[j].t = t
      /\ \A j \in at + 1 .. N : s.cs[j].f # "protected"
  <2>1. ~Is(Last(s.cs), {"host"})
    BY DEF Is
  <2> QED
    BY <2>1, Protected
<1>2. luaD_throw(s, t, "ERRRUN") = Land(s, t, at, "ERRRUN")
  BY DEF luaD_throw
<1> HIDE DEF P, at
<1>3. N \in Nat /\ at \in 2 .. N /\ Last(s.cs) = s.cs[N]
  BY <1>1, TopFields
<1>4. ASSUME NEW j \in at .. N
      PROVE  s.cs[j].t = t /\ ~Is(s.cs[j], {"closeself"})
  <2>1. s.cs[j].t = t
    BY <1>1
  <2>2. CASE j = at
    BY <1>1, <2>1, <2>2 DEF Is
  <2>3. CASE j = N
    BY <1>3, <2>1, <2>3 DEF Is
  <2>4. CASE j # at /\ j # N
    <3>1. j \in 1 .. N - 1 /\ j + 1 \in at + 1 .. N
      <4> HIDE DEF N
      <4> QED
        BY <1>3, <2>4
    <3> QED
      BY <1>1, <2>1, <3>1, OnC
  <2> QED
    BY <2>2, <2>3, <2>4
<1>5. s.cs[at] \in Frame /\ s.cs[at].f = "protected" /\ s.cs[at].t = t
  BY <1>1, <1>3, StateFields
<1>6. CASE Closing(s.cs[at])
  <2>1. "ERRRUN" \in Statuses /\ "ERRRUN" # "OK"
    BY DEF Statuses
  <2>2. Land(s, t, at, "ERRRUN") \in State /\ Good(Land(s, t, at, "ERRRUN"))
    BY <1>3, <1>4, <1>5, <1>6, <2>1, LandClosing
  <2> QED
    BY <1>2, <2>2 DEF GoodIfAny
<1>7. CASE Resuming(s.cs[at])
  BY <1>2, <1>3, <1>4, <1>5, <1>7, LandResume
<1> QED
  BY <1>5, <1>6, <1>7, FrameFields DEF Closing, Resuming

-----------------------------------------------------------------------------
(* Lemmas on calls. *)

(* Marking the entry just appended is appending a marked one.              *)
LEMMA AppendExcept ==
    ASSUME NEW q \in Seq(CallInfo), NEW y \in CallInfo
    PROVE  [Append(q, y) EXCEPT ![Len(q) + 1].fresh = TRUE] = Append(q, [y EXCEPT !.fresh = TRUE])
PROOF
<1> DEFINE z == [y EXCEPT !.fresh = TRUE]
           a == Append(q, y)
<1>1. z \in CallInfo
  BY DEF CallInfo
<1>2. Len(q) \in Nat /\ a \in Seq(CallInfo) /\ Len(a) = Len(q) + 1 /\ a[Len(q) + 1] = y
      /\ \A i \in 1 .. Len(q) : a[i] = q[i]
  OBVIOUS
<1>3. [a EXCEPT ![Len(q) + 1].fresh = TRUE] = [a EXCEPT ![Len(q) + 1] = z]
  BY <1>2
<1> HIDE DEF z, a
<1> DEFINE b == [a EXCEPT ![Len(q) + 1] = z]
<1>4. b \in Seq(CallInfo) /\ Len(b) = Len(q) + 1 /\ b[Len(q) + 1] = z
      /\ \A i \in 1 .. Len(q) : b[i] = q[i]
  BY <1>1, <1>2
<1>5. Append(q, z) \in Seq(CallInfo) /\ Len(Append(q, z)) = Len(q) + 1 /\ Append(q, z)[Len(q) + 1] = z
      /\ \A i \in 1 .. Len(q) : Append(q, z)[i] = q[i]
  BY <1>1
<1> HIDE DEF b
<1>6. \A i \in 1 .. Len(q) + 1 : i \in 1 .. Len(q) \/ i = Len(q) + 1
  BY <1>2
<1>7. b = Append(q, z)
  <2> DEFINE d == Append(q, z)
  <2>0. d[Len(q) + 1] = z /\ \A i \in 1 .. Len(q) : d[i] = q[i]
    BY <1>5
  <2>1. \A i \in 1 .. Len(q) + 1 : b[i] = d[i]
    <3> HIDE DEF d
    <3> QED
      BY <1>4, <1>6, <2>0
  <2>2. b \in Seq(CallInfo) /\ d \in Seq(CallInfo) /\ Len(b) = Len(d) /\ \A i \in 1 .. Len(b) : b[i] = d[i]
    BY <1>4, <1>5, <2>1
  <2> HIDE DEF d
  <2>3. b = d
    BY <2>2, SeqEqual
  <2> QED
    BY <2>3 DEF d
<1> QED
  BY <1>3, <1>7 DEF b, z, a

(* ccall: one call more counts, or the stack of C calls is full.           *)
LEMMA CcallGood ==
    ASSUME NEW s \in State, Sound(s), NEW t \in Threads, CountedUp(s, t), Last(s.cs).t = t, NEW inc \in {one, nyci, <<0, 0>>},
           CalledBy([f |-> "call", t |-> t, inc |-> inc, ci |-> Len(s.ci[t]) + 1], Last(s.cs))
    PROVE  GoodIfAny(ccall(s, t, inc))
PROOF
<1> DEFINE b == Last(s.cs)
           N == Len(s.cs)
           k == Len(s.ci[t])
           e == [f |-> "call", t |-> t, inc |-> inc, ci |-> k + 1]
           n == Sum2(s.n[t], inc)
           s1 == [s EXCEPT !.n[t] = n]
           s0 == [s1 EXCEPT !.cs = Append(s1.cs, e)]
           y == Info("lua", Free(s0, t))
           x == [y EXCEPT !.fresh = TRUE]
           r == [s0 EXCEPT !.ci[t] = Append(s.ci[t], x)]
           w == [r EXCEPT !.cs = Append(r.cs, [f |-> "execute", t |-> t])]
<1>1. /\ s.cs \in Seq(Frame) /\ N \in Nat \ {0} /\ b = s.cs[N] /\ s.st[t] = "OK" /\ t \notin s.unstarted
  BY TopFields
<1>2. /\ s.ci[t] \in Seq(CallInfo) /\ k \in Nat /\ k >= 1 /\ s.n[t] \in Nat \X Nat
  BY StateFields DEF Sound, Entries, EntriesOf
<1>3. e \in Frame /\ e.f = "call" /\ e.t = t /\ e.inc = inc /\ e.ci = k + 1
  BY <1>2 DEF Frame
<1>4. CalledBy(e, b)
  OBVIOUS
<1> HIDE DEF e
<1>5. ~Is(b, {"host", "closeself"}) /\ ~Switches(b)
  BY <1>4 DEF CalledBy, Is, Switches, Closing, Resuming
<1>6. \A m \in 1 .. N : Switches(s.cs[m]) => s.cs[m].t # t
  BY <1>1, <1>5 DEF Sound, Apart
<1>7. n \in Nat \X Nat /\ inc[1] \in {0, 1} /\ inc[2] \in {0, 1} /\ n = <<s.n[t][1] + inc[1], s.n[t][2] + inc[2]>>
  <2>1. inc[1] \in {0, 1} /\ inc[2] \in {0, 1}
    BY DEF one, nyci
  <2> QED
    BY <1>2, <2>1 DEF Sum2
<1> HIDE DEF n
<1>8. /\ s1 \in State /\ Sound(s1) /\ s1.n[t] = n
      /\ s1.cs = s.cs /\ s1.ci = s.ci /\ s1.st = s.st /\ s1.tbc = s.tbc /\ s1.unstarted = s.unstarted
  BY <1>6, <1>7, CountSound
<1> HIDE DEF s1
<1>9. /\ s0 \in State /\ s0.cs = Append(s.cs, e) /\ s0.ci = s.ci /\ s0.st = s.st /\ s0.tbc = s.tbc
      /\ s0.unstarted = s.unstarted /\ s0.n = s1.n
  <2> DEFINE c == Append(s1.cs, e)
  <2>1. c \in Seq(Frame) /\ c = Append(s.cs, e)
    BY <1>1, <1>3, <1>8
  <2> HIDE DEF c
  <2>2. /\ s0 \in State /\ s0.cs = c /\ s0.ci = s1.ci /\ s0.st = s1.st /\ s0.tbc = s1.tbc
        /\ s0.unstarted = s1.unstarted /\ s0.n = s1.n
    BY <1>8, <2>1, SetFields DEF c
  <2> HIDE DEF s0
  <2> QED
    BY <1>8, <2>1, <2>2
<1> HIDE DEF s0
<1>10. y \in CallInfo /\ y.fn = "lua" /\ y.ypcall = FALSE
  <2>1. Free(s0, t) \in Nat
    BY <1>2, <1>9, FreeType
  <2> QED
    BY <2>1, InfoType
<1> HIDE DEF y
<1>11. x \in CallInfo /\ x.fresh = TRUE /\ x.fn = "lua" /\ x.ypcall = FALSE
  BY <1>10 DEF CallInfo
<1> HIDE DEF x
<1>12. /\ r \in State /\ r.cs = Append(s.cs, e) /\ r.ci = [s.ci EXCEPT ![t] = Append(s.ci[t], x)] /\ r.st = s.st
       /\ r.unstarted = s.unstarted /\ r.n = s1.n
  <2> DEFINE list == Append(s.ci[t], x)
  <2>1. list \in Seq(CallInfo)
    BY <1>2, <1>11
  <2>3. r = [s0 EXCEPT !.ci[t] = list]
    OBVIOUS
  <2> HIDE DEF list, r
  <2>2. /\ r \in State /\ r.cs = s0.cs /\ r.ci = [s0.ci EXCEPT ![t] = list] /\ r.st = s0.st
        /\ r.unstarted = s0.unstarted /\ r.n = s0.n
    BY <1>9, <2>1, <2>3, SetFields
  <2> QED
    BY <1>9, <2>2 DEF list
<1>13. ccall(s, t, inc) = IF n[1] = LUAI_MAXCCALLS \/ n[1] >= ERRORCCALLS THEN luaD_throw(s1, t, "ERRRUN") ELSE w
  <2>1. s0 = [s1 EXCEPT !.cs = Append(@, [f |-> "call", t |-> t, inc |-> inc, ci |-> Len(s.ci[t]) + 1])]
    BY DEF s0, e
  <2> DEFINE s2 == prepCallInfo(s0, t, "lua")
             w2 == [s2 EXCEPT !.ci[t][Len(s2.ci[t])].fresh = TRUE, !.cs = Append(@, [f |-> "execute", t |-> t])]
  <2>2. s2 = [s0 EXCEPT !.ci[t] = Append(s.ci[t], y)] /\ s2 \in State /\ s2.ci[t] = Append(s.ci[t], y) /\ s2.cs = s0.cs
        /\ s2.ci = [s.ci EXCEPT ![t] = Append(s.ci[t], y)]
    <3>1. s2 = [s0 EXCEPT !.ci[t] = Append(s.ci[t], y)]
      BY <1>9 DEF prepCallInfo, y
    <3> HIDE DEF s2
    <3> DEFINE list == Append(s.ci[t], y)
    <3>2. list \in Seq(CallInfo)
      BY <1>2, <1>10
    <3>5. s2 = [s0 EXCEPT !.ci[t] = list]
      BY <3>1
    <3> HIDE DEF list
    <3>3. s2 \in State /\ s2.ci = [s0.ci EXCEPT ![t] = list] /\ s2.cs = s0.cs
      BY <1>9, <3>2, <3>5, SetFields
    <3>4. s2.ci[t] = list
      BY <1>9, <3>3, StateFields
    <3> QED
      BY <1>9, <3>1, <3>3, <3>4 DEF list
  <2> HIDE DEF s2
  <2>3. Len(s2.ci[t]) = k + 1
    BY <1>2, <1>10, <2>2
  <2>4. [s2.ci[t] EXCEPT ![k + 1].fresh = TRUE] = Append(s.ci[t], x)
    <3> DEFINE q == s.ci[t]
    <3>1. [Append(q, y) EXCEPT ![Len(q) + 1].fresh = TRUE] = Append(q, x)
      <4> HIDE DEF q
      <4>1. q \in Seq(CallInfo)
        BY <1>2 DEF q
      <4> QED
        BY <1>10, <4>1, AppendExcept DEF x
    <3> QED
      BY <2>2, <3>1
  <2>5. w2 = [s2 EXCEPT !.ci[t] = Append(s.ci[t], x), !.cs = Append(s0.cs, [f |-> "execute", t |-> t])]
    BY <2>2, <2>3, <2>4
  <2>6. w = [s0 EXCEPT !.ci[t] = Append(s.ci[t], x), !.cs = Append(s0.cs, [f |-> "execute", t |-> t])]
    BY <1>9, <1>12 DEF State
  <2>7. w2 = w
    <3>1. [s2 EXCEPT !.ci[t] = Append(s.ci[t], x)] = [s0 EXCEPT !.ci[t] = Append(s.ci[t], x)]
      <4> DEFINE la == Append(s.ci[t], y)
                 lx == Append(s.ci[t], x)
      <4>1. s2 = [s0 EXCEPT !.ci[t] = la]
        BY <2>2
      <4> HIDE DEF la, lx
      <4>2. [s2 EXCEPT !.ci[t] = lx] = [s0 EXCEPT !.ci[t] = lx]
        BY <1>9, <4>1 DEF State
      <4> QED
        BY <4>2 DEF lx
    <3> DEFINE lx == Append(s.ci[t], x)
               cx == Append(s0.cs, [f |-> "execute", t |-> t])
               v == [s0 EXCEPT !.ci[t] = lx]
    <3>2. w2 = [s2 EXCEPT !.ci[t] = lx, !.cs = cx] /\ w = [s0 EXCEPT !.ci[t] = lx, !.cs = cx] /\ [s2 EXCEPT !.ci[t] = lx] = v
      BY <2>5, <2>6, <3>1
    <3> HIDE DEF lx, cx, w, w2
    <3>3. [s2 EXCEPT !.ci[t] = lx, !.cs = cx] = [[s2 EXCEPT !.ci[t] = lx] EXCEPT !.cs = cx]
      BY <2>2 DEF State
    <3>4. [s0 EXCEPT !.ci[t] = lx, !.cs = cx] = [v EXCEPT !.cs = cx]
      BY <1>9 DEF State
    <3> HIDE DEF v
    <3> QED
      BY <3>2, <3>3, <3>4
  <2> HIDE DEF w, w2
  <2>8. getCcalls(s1, t) = n[1]
    BY <1>8 DEF getCcalls
  <2>9. s1 = [s EXCEPT !.n[t] = Sum2(@, inc)]
    BY DEF s1, n
  <2> HIDE DEF k
  <2> QED
    BY <2>1, <2>7, <2>8, <2>9, SMTT(30) DEF ccall, s2, w2
<1> HIDE DEF w
<1>14. CASE n[1] = LUAI_MAXCCALLS \/ n[1] >= ERRORCCALLS
  <2>1. ~Is(Last(s1.cs), {"host", "closeself"}) /\ t = Last(s1.cs).t
    BY <1>5, <1>8
  <2> QED
    BY <1>8, <1>13, <1>14, <2>1, ThrowGood
<1>15. CASE ~(n[1] = LUAI_MAXCCALLS \/ n[1] >= ERRORCCALLS)
  <2> HIDE DEF r
  <2>1. r.ci[t] = Append(s1.ci[t], x) /\ \A u \in Threads : u # t => r.n[u] = s1.n[u] /\ r.ci[u] = s1.ci[u]
    <3> DEFINE list == Append(s.ci[t], x)
    <3>1. r.ci = [s.ci EXCEPT ![t] = list] /\ s1.ci = s.ci /\ r.n = s1.n /\ s.ci \in [Threads -> Seq(CallInfo)]
      BY <1>8, <1>12, StateFields
    <3> HIDE DEF list
    <3>2. r.ci[t] = list /\ \A u \in Threads : u # t => r.n[u] = s1.n[u] /\ r.ci[u] = s1.ci[u]
      BY <3>1
    <3> QED
      BY <3>1, <3>2 DEF list
  <2>2. Sound(r)
    <3>1. /\ ~Is(e, {"closeself"}) /\ Below(e, Last(s1.cs)) /\ e.t = Last(s1.cs).t /\ ~Switches(Last(s1.cs)) /\ ~Switches(e)
          /\ e.f # "protected" /\ e.f # "C" /\ ~Closing(e) /\ e.f # "execute"
      BY <1>3, <1>4, <1>5, <1>8 DEF Below, Is, Switches, Closing
    <3>2. r.cs = Append(s1.cs, e) /\ r.st = s1.st /\ r.unstarted = s1.unstarted /\ s1.st[e.t] = "OK" /\ e.t \notin s1.unstarted
      BY <1>1, <1>3, <1>8, <1>12
    <3>3. r.ci[e.t] = Append(s1.ci[e.t], x) /\ e.ci = Len(s1.ci[e.t]) + 1 /\ e.f \in {"C", "call"}
      BY <1>3, <1>8, <2>1
    <3>4. \A u \in Threads : u # e.t => r.n[u] = s1.n[u] /\ r.ci[u] = s1.ci[u]
      BY <1>3, <2>1
    <3>5. x.ypcall = FALSE /\ x.fresh /\ x.fn # "callback" /\ x \in CallInfo
      BY <1>11
    <3>6. r.ci[e.t] = IF e.f \in {"C", "call"} THEN Append(s1.ci[e.t], x) ELSE s1.ci[e.t]
      BY <3>3
    <3>7. IF Switches(Last(s1.cs)) THEN \A m \in 1 .. Len(s1.cs) : s1.cs[m].t # e.t ELSE e.t = Last(s1.cs).t
      BY <3>1
    <3>8. s1 \in State /\ r \in State /\ Sound(s1) /\ e \in Frame
      BY <1>3, <1>8, <1>12
    <3> QED
      BY ONLY <3>1, <3>2, <3>3, <3>4, <3>5, <3>6, <3>7, <3>8, PushSound
  <2>3. Last(r.cs) = e /\ Len(r.cs) = N + 1 /\ Last(r.cs).t = t /\ Last(r.cs).f = "call"
    BY <1>1, <1>3, <1>12 DEF Last
  <2>4. CountedUp(r, t)
    <3> DEFINE c0 == Counted(s.cs, N, t)
    <3>1. c0 \in Nat \X Nat /\ s.n[t] = c0
      BY <1>1, CountedType DEF CountedUp
    <3>2. ~ClosesSelf(e, t) /\ (Counts(e) <=> inc[1] = 1) /\ (Bars(e, t) <=> inc[2] = 1)
      BY <1>3 DEF ClosesSelf, Counts, Resumes, Is, Bars
    <3>3. Counted(Append(s.cs, e), N + 1, t) = <<c0[1] + (IF inc[1] = 1 THEN 1 ELSE 0), c0[2] + (IF inc[2] = 1 THEN 1 ELSE 0)>>
      BY <1>1, <1>3, <3>2, CountedAppend
    <3> HIDE DEF c0
    <3>4. Counted(r.cs, N + 1, t) = n
      BY <1>7, <1>12, <3>1, <3>3
    <3>5. r.n[t] = n /\ n[1] < ERRORCCALLS
      BY <1>7, <1>8, <1>12, <1>15
    <3> QED
      BY <2>3, <3>4, <3>5 DEF CountedUp
  <2>5. w \in State /\ Good(w)
    <3> DEFINE f == "execute"
               w3 == [r EXCEPT !.cs = Append(@, [f |-> f, t |-> t])]
    <3>1. f \in {"execute", "unroll"} /\ IF f = "unroll" THEN Resuming(Last(r.cs))
             ELSE Last(r.cs).f = "call" \/ (Last(r.cs).f = "unroll" /\ Len(r.ci[t]) >= 2)
      BY <2>3
    <3>2. w = w3
      BY DEF w
    <3> HIDE DEF f
    <3>3. w3 \in State /\ Good(w3)
      BY <1>12, <2>2, <2>3, <2>4, <3>1, RunGood
    <3> QED
      BY <3>2, <3>3
  <2> QED
    BY <1>13, <1>15, <2>5 DEF GoodIfAny
<1> QED
  BY <1>14, <1>15

(* luaV_execute runs in an entry above the base one.                       *)
LEMMA ExecLen ==
    ASSUME NEW s \in State, Sound(s), Last(s.cs).f = "execute", NEW t, t = Last(s.cs).t
    PROVE  t \in Threads /\ s.ci[t] \in Seq(CallInfo) /\ Len(s.ci[t]) \in Nat /\ Len(s.ci[t]) >= 2
PROOF
<1> DEFINE b == s.cs[Len(s.cs) - 1]
           l == IF b.f = "call" THEN b.ci ELSE 2
<1>1. t \in Threads /\ s.ci[t] \in Seq(CallInfo) /\ Len(s.ci[t]) \in Nat /\ l \in 2 .. Len(s.ci[t])
  BY ExecLevel
<1> HIDE DEF l
<1> QED
  BY <1>1

(* prepCallInfo. *)
FnNames == {"base", "lua", "yield"} \cup Library

(* What prepCallInfo changes.                                              *)
LEMMA PrepFields ==
    ASSUME NEW s \in State, NEW t \in Threads, Len(s.ci[t]) >= 1, NEW fn \in FnNames
    PROVE  LET r == prepCallInfo(s, t, fn)
               x == Info(fn, Free(s, t))
           IN /\ r \in State /\ r.cs = s.cs /\ r.tbc = s.tbc /\ r.st = s.st /\ r.unstarted = s.unstarted /\ r.n = s.n
              /\ x \in CallInfo /\ x.fn = fn /\ x.ypcall = FALSE
              /\ Append(s.ci[t], x) \in Seq(CallInfo)
              /\ r.ci[t] = Append(s.ci[t], x) /\ Len(r.ci[t]) = Len(s.ci[t]) + 1
              /\ \A u \in Threads : u # t => r.ci[u] = s.ci[u]
PROOF
<1> DEFINE x == Info(fn, Free(s, t))
           list == Append(s.ci[t], x)
           r == prepCallInfo(s, t, fn)
<1>1. Free(s, t) \in Nat /\ s.ci[t] \in Seq(CallInfo) /\ s.ci \in [Threads -> Seq(CallInfo)]
  BY FreeType, StateFields
<1>2. x \in CallInfo /\ x.fn = fn /\ x.fresh = FALSE /\ x.ypcall = FALSE
  BY <1>1, InfoType DEF FnNames
<1>3. r = [s EXCEPT !.ci[t] = list]
  BY DEF prepCallInfo
<1> HIDE DEF x
<1>4. list \in Seq(CallInfo) /\ Len(list) = Len(s.ci[t]) + 1
  BY <1>1, <1>2
<1> HIDE DEF list, r
<1>5. /\ r \in State /\ r.cs = s.cs /\ r.ci = [s.ci EXCEPT ![t] = list] /\ r.tbc = s.tbc /\ r.st = s.st
      /\ r.unstarted = s.unstarted /\ r.n = s.n
  BY <1>3, <1>4, SetFields
<1>6. r.ci[t] = list /\ \A u \in Threads : u # t => r.ci[u] = s.ci[u]
  BY <1>1, <1>4, <1>5
<1> QED
  BY <1>2, <1>3, <1>4, <1>5, <1>6 DEF list, r, x

(* precallC: a function of Lua calls one of a library. *)
CalledFrame(s, t, fn, co) == [f |-> "C", t |-> t, fn |-> fn, co |-> co, at |-> "OK", ci |-> Len(s.ci[t]) + 1]

Precalled(s, r, t, fn, e) ==
    /\ r \in State /\ Sound(r) /\ r.cs = Append(s.cs, e) /\ Last(r.cs) = e /\ Len(r.cs) = Len(s.cs) + 1 /\ e \in Frame
    /\ \A u \in Threads : u # t => r.ci[u] = s.ci[u]
    /\ r.tbc = s.tbc /\ r.st = s.st /\ r.unstarted = s.unstarted /\ r.n = s.n
    /\ fn \notin {"resume", "wrap"} => CountedUp(r, t)
    /\ Calls(r.cs, Len(r.cs)) = s.n[t][1] + (IF fn \in {"resume", "wrap"} THEN 1 ELSE 0)

(* Calling a C function of the library keeps the invariant and counts      *)
(* nothing by itself.                                                      *)
LEMMA PrecallGood ==
    ASSUME NEW s \in State, Good(s), Last(s.cs).f = "execute", NEW t, t = Last(s.cs).t, NEW fn \in Library \ {"closeself"}, NEW co \in Threads,
           fn \in {"resume", "wrap", "close"} => co # t /\ co # Main
    PROVE  Precalled(s, precallC(s, t, fn, co), t, fn, CalledFrame(s, t, fn, co))
PROOF
<1> DEFINE N == Len(s.cs)
           k == Len(s.ci[t])
           e == [f |-> "C", t |-> t, fn |-> fn, co |-> co, at |-> "OK", ci |-> k + 1]
           x == Info(fn, Free(s, t))
           p == prepCallInfo(s, t, fn)
           r == precallC(s, t, fn, co)
<1>1. Sound(s) /\ CountedUp(s, t)
  BY DEF Good
<1>2. /\ s.cs \in Seq(Frame) /\ N \in Nat \ {0} /\ Last(s.cs) = s.cs[N] /\ s.st[t] = "OK" /\ t \notin s.unstarted
      /\ t \in Threads
  BY <1>1, TopFields
<1>3. s.ci[t] \in Seq(CallInfo) /\ k \in Nat /\ k >= 2
  BY <1>1, ExecLen
<1>4. /\ p \in State /\ p.cs = s.cs /\ p.tbc = s.tbc /\ p.st = s.st /\ p.unstarted = s.unstarted /\ p.n = s.n
      /\ x \in CallInfo /\ x.fn = fn /\ x.ypcall = FALSE
      /\ p.ci[t] = Append(s.ci[t], x)
      /\ \A u \in Threads : u # t => p.ci[u] = s.ci[u]
  <2>1. t \in Threads /\ Len(s.ci[t]) >= 1 /\ fn \in FnNames
    BY <1>2, <1>3 DEF FnNames
  <2> HIDE DEF p, x
  <2>2. p \in State /\ p.cs = s.cs
    BY ONLY s \in State, <2>1, PrepFields DEF p
  <2>5. p.tbc = s.tbc /\ p.st = s.st
    BY ONLY s \in State, <2>1, PrepFields DEF p
  <2>6. p.unstarted = s.unstarted /\ p.n = s.n
    BY ONLY s \in State, <2>1, PrepFields, ZenonT(30) DEF p
  <2>3. x \in CallInfo /\ x.fn = fn /\ x.ypcall = FALSE
    BY ONLY s \in State, <2>1, PrepFields DEF x
  <2>4. p.ci[t] = Append(s.ci[t], x) /\ \A u \in Threads : u # t => p.ci[u] = s.ci[u]
    BY ONLY s \in State, <2>1, PrepFields DEF p, x
  <2> QED
    BY <2>2, <2>3, <2>4, <2>5, <2>6
<1>5. e \in Frame /\ e.f = "C" /\ e.t = t /\ e.fn = fn /\ e.co = co /\ e.at = "OK" /\ e.ci = k + 1
  BY <1>2, <1>3 DEF Frame, CFrame, Statuses
<1>6. r = [p EXCEPT !.cs = Append(s.cs, e)]
  BY <1>4 DEF precallC, CFunction0
<1> HIDE DEF x, p, e, r
<1>7. /\ r \in State /\ r.cs = Append(s.cs, e) /\ r.tbc = s.tbc /\ r.st = s.st /\ r.unstarted = s.unstarted /\ r.n = s.n
      /\ r.ci = p.ci
  <2> DEFINE c == Append(s.cs, e)
  <2>1. c \in Seq(Frame)
    BY <1>2, <1>5
  <2>2. r = [p EXCEPT !.cs = c]
    BY <1>6
  <2> HIDE DEF c
  <2>3. r \in State /\ r.cs = c /\ r.ci = p.ci /\ r.tbc = p.tbc /\ r.st = p.st /\ r.unstarted = p.unstarted /\ r.n = p.n
    BY <1>4, <2>1, <2>2, SetFields
  <2> QED
    BY <1>4, <2>3 DEF c
<1>8. Last(r.cs) = e /\ Len(r.cs) = N + 1
  BY <1>2, <1>5, <1>7 DEF Last
<1>9. Sound(r)
  <2>1. /\ ~Is(e, {"closeself"}) /\ Below(e, Last(s.cs)) /\ e.t = Last(s.cs).t /\ ~Switches(Last(s.cs))
        /\ e.f # "protected" /\ e.f # "call" /\ ~Closing(e) /\ e.f # "execute"
    BY <1>5 DEF Below, CalledC, Is, Switches, Closing, Statuses
  <2>2. r.st = s.st /\ r.unstarted = s.unstarted /\ s.st[e.t] = "OK" /\ e.t \notin s.unstarted
    BY <1>2, <1>5, <1>7
  <2>3. r.ci[e.t] = Append(s.ci[e.t], x) /\ e.ci = Len(s.ci[e.t]) + 1 /\ e.f \in {"C", "call"}
    BY <1>4, <1>5, <1>7
  <2>4. \A u \in Threads : u # e.t => r.n[u] = s.n[u] /\ r.ci[u] = s.ci[u]
    BY <1>4, <1>5, <1>7
  <2>5. x.ypcall = FALSE /\ x \in CallInfo /\ x.fn = e.fn /\ Len(s.ci[e.t]) >= 2
    BY <1>3, <1>4, <1>5
  <2>6. r.ci[e.t] = IF e.f \in {"C", "call"} THEN Append(s.ci[e.t], x) ELSE s.ci[e.t]
    BY <2>3
  <2>7. IF Switches(Last(s.cs)) THEN \A m \in 1 .. Len(s.cs) : s.cs[m].t # e.t ELSE e.t = Last(s.cs).t
    BY <2>1
  <2>8. r.n[e.t] = Counted(s.cs, Len(s.cs), e.t) /\ r.n[e.t][1] < ERRORCCALLS
    BY <1>1, <1>5, <1>7 DEF CountedUp
  <2>9. s \in State /\ r \in State /\ Sound(s) /\ e \in Frame /\ r.cs = Append(s.cs, e)
    BY <1>1, <1>5, <1>7
  <2> QED
    BY ONLY <2>1, <2>2, <2>3, <2>4, <2>5, <2>6, <2>7, <2>8, <2>9, PushSound
<1>10. /\ fn \notin {"resume", "wrap"} => CountedUp(r, t)
       /\ Calls(r.cs, Len(r.cs)) = s.n[t][1] + (IF fn \in {"resume", "wrap"} THEN 1 ELSE 0)
  <2> DEFINE c0 == Counted(s.cs, N, t)
  <2>1. c0 \in Nat \X Nat /\ s.n[t] = c0 /\ s.n[t][1] < ERRORCCALLS
    BY <1>1, <1>2, CountedType DEF CountedUp
  <2>2. ~ClosesSelf(e, t) /\ (Counts(e) <=> fn \in {"resume", "wrap"}) /\ ~Bars(e, t)
    BY <1>5 DEF ClosesSelf, Counts, Resumes, Is, Bars
  <2>3. Counted(Append(s.cs, e), N + 1, t) = <<c0[1] + (IF fn \in {"resume", "wrap"} THEN 1 ELSE 0), c0[2]>>
    <3> HIDE DEF c0
    <3>1. Counted(Append(s.cs, e), N + 1, t) = <<c0[1] + (IF Counts(e) THEN 1 ELSE 0), IF ClosesSelf(e, t) THEN (IF t = Main THEN 1 ELSE 0)
                 ELSE c0[2] + (IF Bars(e, t) THEN 1 ELSE 0)>>
      BY <1>2, <1>5, CountedAppend DEF c0
    <3> QED
      BY <2>1, <2>2, <3>1
  <2>4. Calls(r.cs, N + 1) = Counted(r.cs, N + 1, t)[1]
    BY DEF Counted
  <2> HIDE DEF c0
  <2>5. Calls(r.cs, Len(r.cs)) = s.n[t][1] + (IF fn \in {"resume", "wrap"} THEN 1 ELSE 0)
    BY <1>7, <1>8, <2>1, <2>3, <2>4
  <2>6. ASSUME fn \notin {"resume", "wrap"}
        PROVE  Counted(r.cs, N + 1, t) = c0
    BY <1>7, <2>1, <2>3, <2>6
  <2> QED
    BY <1>7, <1>8, <2>1, <2>5, <2>6 DEF CountedUp
<1> QED
  BY <1>4, <1>5, <1>7, <1>8, <1>9, <1>10 DEF e, x, r, CalledFrame, Precalled

-----------------------------------------------------------------------------
(* A thread that may yield. *)

(* A thread that may yield has no call that cannot.                        *)
LEMMA Unbarred ==
    ASSUME NEW s \in State, Sound(s), NEW t, t = Last(s.cs).t, CountedUp(s, t), yieldable(s, t)
    PROVE  t # Main /\ Barred(s.cs, Len(s.cs), t) = {}
PROOF
<1> DEFINE N == Len(s.cs)
           B == Barred(s.cs, N, t)
<1>1. N \in Nat
  BY StateFields
<1>2. IsFiniteSet(B) /\ Cardinality(B) \in Nat
  BY <1>1, BarredFinite
<1>3. Cardinality(B) + (IF t = Main THEN 1 ELSE 0) = 0
  BY DEF CountedUp, yieldable, Counted
<1> HIDE DEF B
<1>4. t # Main /\ Cardinality(B) = 0
  BY <1>2, <1>3
<1> QED
  BY <1>2, <1>4, FS_EmptySet DEF B

(* It has no function that calls back: that call would bar it.             *)
LEMMA YieldableNoCallback ==
    ASSUME NEW s \in State, Sound(s), NEW t, t = Last(s.cs).t, CountedUp(s, t), yieldable(s, t),
           ~Is(Last(s.cs), {"callback"})
    PROVE  NoCallback(s.ci[t])
PROOF
<1> DEFINE cs == s.cs
           N == Len(s.cs)
<1>1. Barred(cs, N, t) = {}
  BY Unbarred
<1>2. N \in Nat \ {0} /\ Last(cs) = cs[N] /\ s.st[t] = "OK" /\ t \in Threads
  BY TopFields
<1> SUFFICES ASSUME NEW k \in 1 .. Len(s.ci[t]), s.ci[t][k].fn = "callback"
             PROVE  FALSE
  BY DEF NoCallback
<1>3. CallbackOf(cs, t, k)
  BY <1>2 DEF Sound, CallbacksRun
<1>4. PICK m \in 1 .. N : Is(cs[m], {"callback"}) /\ cs[m].t = t /\ Live(cs, m)
  BY <1>3 DEF CallbackOf
<1>5. m \in 1 .. N - 1 /\ m + 1 \in 1 .. N /\ m + 1 \in m .. N
  <2>1. m # N
    BY <1>2, <1>4
  <2> HIDE DEF N
  <2> QED
    BY <1>2, <2>1
<1>6. cs[m + 1].f = "call" /\ cs[m + 1].inc = nyci /\ cs[m + 1].t = t
  BY <1>4, <1>5, OnC
<1>7. Bars(cs[m + 1], t)
  BY <1>6 DEF Bars, nyci
<1>8. \A i \in m + 1 .. N : ~ClosesSelf(cs[i], t)
  BY <1>2, <1>4, <1>5 DEF Live
<1>9. m + 1 \in Barred(cs, N, t)
  BY <1>5, <1>7, <1>8 DEF Barred
<1> QED
  BY <1>1, <1>9

(* The innermost protected call is that of its resume.                     *)
LEMMA YieldableResumed ==
    ASSUME NEW s \in State, Sound(s), NEW t, t = Last(s.cs).t, CountedUp(s, t), yieldable(s, t),
           Last(s.cs).f = "execute"
    PROVE  LET at == Max(Protections(s, t))
           IN /\ at \in 2 .. Len(s.cs) /\ Resuming(s.cs[at]) /\ s.cs[at].t = t
              /\ \A j \in at .. Len(s.cs) : s.cs[j].t = t /\ ~Is(s.cs[j], {"closeself"})
PROOF
<1> DEFINE cs == s.cs
           N == Len(s.cs)
           P == Protections(s, t)
           at == Max(P)
<1>0. ~Is(Last(cs), {"host", "closeself"}) /\ ~Is(Last(cs), {"host"})
  BY DEF Is
<1>1. /\ P \in SUBSET (2 .. N) /\ at \in P
      /\ \A x \in P : cs[x].f = "protected" /\ cs[x].t = t /\ \A j \in x .. N : cs[j].t = t
      /\ \A j \in at + 1 .. N : cs[j].f # "protected"
  BY <1>0, Protected
<1>2. Barred(cs, N, t) = {}
  BY Unbarred
<1> HIDE DEF P, at
<1>3. N \in Nat \ {0} /\ Last(cs) = cs[N] /\ at \in 2 .. N /\ t \in Threads
  BY <1>1, TopFields
<1>4. ASSUME NEW j \in at .. N
      PROVE  cs[j].t = t /\ ~Is(cs[j], {"closeself"})
  <2>1. cs[j].t = t
    BY <1>1
  <2>2. CASE j = at
    BY <1>1, <2>2 DEF Is
  <2>3. CASE j = N
    BY <1>0, <1>3, <2>3 DEF Is
  <2>4. CASE j # at /\ j # N
    <3>1. j \in 1 .. N - 1 /\ j + 1 \in at + 1 .. N
      <4> HIDE DEF N
      <4> QED
        BY <1>3, <2>4
    <3> QED
      BY <1>1, <3>1, OnC
  <2> QED
    BY <2>1, <2>2, <2>3, <2>4
<1>5. \A j \in at .. N : ~ClosesSelf(cs[j], t)
  BY <1>4 DEF ClosesSelf
<1>6. ASSUME NEW j \in at .. N, cs[j].f = "call", cs[j].inc = nyci
      PROVE  FALSE
  <2>1. Bars(cs[j], t)
    BY <1>4, <1>6 DEF Bars, nyci
  <2>2. j \in 1 .. N /\ \A i \in j .. N : ~ClosesSelf(cs[i], t)
    <3> HIDE DEF N
    <3> QED
      BY <1>3, <1>5
  <2> QED
    BY <1>2, <2>1, <2>2 DEF Barred
<1>7. cs[at] \in Frame /\ cs[at].f = "protected"
  BY <1>1, <1>3, StateFields
<1>8. ASSUME NEW j \in at .. N - 1
      PROVE  Below(cs[j + 1], cs[j]) /\ cs[j + 1] \in Frame /\ cs[j + 1].f # "protected" /\ j + 1 \in at .. N
  <2>1. j + 1 \in 2 .. N /\ (j + 1) - 1 = j /\ j + 1 \in at + 1 .. N /\ j + 1 \in at .. N /\ j + 1 \in 1 .. N
    <3> HIDE DEF N
    <3> QED
      BY <1>3
  <2> QED
    BY <1>1, <2>1, StateFields DEF Sound, Grammar
<1>9. ~Closing(cs[at])
  <2> SUFFICES ASSUME Closing(cs[at])
               PROVE  FALSE
    OBVIOUS
  <2>1. at # N
    BY <1>3 DEF Closing
  <2>2. at \in at .. N - 1
    <3> HIDE DEF N
    <3> QED
      BY <1>3, <2>1
  <2>3. Below(cs[at + 1], cs[at]) /\ cs[at + 1] \in Frame /\ cs[at + 1].f # "protected" /\ at + 1 \in at .. N
    BY <1>8, <2>2
  <2>4. cs[at + 1].f = "call" \/ (cs[at + 1].f = "close" /\ cs[at + 1].yy = FALSE)
    BY <2>3, FrameFields DEF Below, CalledC, Closing, Resuming
  <2>5. CASE cs[at + 1].f = "call"
    <3>1. cs[at + 1].inc = nyci
      BY <2>3, <2>5 DEF Below, CalledBy, Is, Closing, Resuming
    <3> QED
      BY <1>6, <2>3, <2>5, <3>1
  <2>6. CASE cs[at + 1].f = "close" /\ cs[at + 1].yy = FALSE
    <3>1. at + 1 # N
      BY <1>3, <2>6
    <3>2. at + 1 \in at .. N - 1
      <4> HIDE DEF N
      <4> QED
        BY <1>3, <2>3, <3>1
    <3> DEFINE e == cs[at + 1 + 1]
               b == cs[at + 1]
    <3>3. Below(e, b) /\ e \in Frame /\ e.f # "protected" /\ at + 1 + 1 \in at .. N
      BY <1>8, <3>2
    <3>5. b.f = "close" /\ b.yy = FALSE
      BY <2>6
    <3> HIDE DEF e, b
    <3>4. e.f = "call" /\ e.inc = nyci
      BY <3>3, <3>5, FrameFields DEF Below, CalledC, CalledBy, Is, Closing, Resuming
    <3> QED
      BY <1>6, <3>3, <3>4 DEF e
  <2> QED
    BY <2>4, <2>5, <2>6
<1>10. Resuming(cs[at])
  BY <1>7, <1>9, FrameFields DEF Closing, Resuming
<1> QED
  BY <1>1, <1>3, <1>4, <1>10 DEF at, P

-----------------------------------------------------------------------------
(* Calls of functions of the library. *)

(* luaD_pcall: the protected call that the host and a pcall that cannot    *)
(* yield make.                                                             *)
LEMMA PcallGood ==
    ASSUME NEW s \in State, Sound(s), NEW t, t = Last(s.cs).t, CountedUp(s, t), Is(Last(s.cs), {"host", "pcall"})
    PROVE  GoodIfAny(luaD_pcall(s, t))
PROOF
<1> DEFINE then == [what |-> "closing", ci |-> Len(s.ci[t]), level |-> Free(s, t), status |-> "OK"]
           e == [f |-> "protected", t |-> t, n |-> s.n[t], then |-> then]
           r == luaD_rawrunprotected(s, t, then)
<1>1. /\ t \in Threads /\ s.st[t] = "OK" /\ t \notin s.unstarted /\ Len(s.ci[t]) \in Nat /\ Len(s.ci[t]) >= 1
  BY TopFields, StateFields DEF Sound, Entries, EntriesOf
<1>2. then \in Thens
  BY <1>1, FreeType DEF Thens, Statuses
<1>3. then.what = "closing" /\ then.ci = Len(s.ci[t]) /\ e.f = "protected" /\ e.t = t /\ e.then = then
  OBVIOUS
<1> HIDE DEF then
<1>4. ProtectedBy(e, Last(s.cs)) /\ ~Switches(Last(s.cs))
  BY <1>3 DEF ProtectedBy, Is, Switches
<1>5. Switches(Last(s.cs)) => \A m \in 1 .. Len(s.cs) : s.cs[m].t # t
  BY <1>4
<1>6. then.what = "closing" => then.ci = Len(s.ci[t])
  BY <1>3
<1>7. r \in State /\ Sound(r) /\ CountedUp(r, t) /\ Last(r.cs) = e /\ r.ci = s.ci
  BY <1>1, <1>2, <1>4, <1>5, <1>6, ProtectSound
<1>8. luaD_pcall(s, t) = ccall(r, t, nyci)
  BY DEF luaD_pcall, then
<1>9. Last(r.cs).t = t /\ Closing(Last(r.cs))
  BY <1>3, <1>7 DEF Closing
<1> HIDE DEF r, e
<1>10. CalledBy([f |-> "call", t |-> t, inc |-> nyci, ci |-> Len(r.ci[t]) + 1], Last(r.cs))
  BY <1>9 DEF CalledBy
<1> QED
  BY <1>1, <1>7, <1>8, <1>9, <1>10, CcallGood

(* A pcall that a coroutine can recover to: there are no functions that    *)
(* call back.                                                              *)
LEMMA FlagSound ==
    ASSUME NEW s \in State, Sound(s), NEW t \in Threads, NoCallback(s.ci[t]), Len(s.ci[t]) >= 1
    PROVE  LET r == [s EXCEPT !.ci[t][Len(s.ci[t])].ypcall = TRUE]
           IN /\ r \in State /\ Sound(r) /\ Len(r.ci[t]) = Len(s.ci[t])
              /\ r.cs = s.cs /\ r.n = s.n /\ r.st = s.st /\ r.tbc = s.tbc /\ r.unstarted = s.unstarted
PROOF
<1> DEFINE k == Len(s.ci[t])
           x == [s.ci[t][k] EXCEPT !.ypcall = TRUE]
           list == [s.ci[t] EXCEPT ![k] = x]
           r == [s EXCEPT !.ci[t] = list]
<1>1. /\ s.ci \in [Threads -> Seq(CallInfo)] /\ s.ci[t] \in Seq(CallInfo) /\ k \in Nat /\ k \in 1 .. k /\ s.ci[t][k] \in CallInfo
  <2>1. s.ci \in [Threads -> Seq(CallInfo)] /\ s.ci[t] \in Seq(CallInfo) /\ k \in Nat /\ k \in 1 .. k
    BY StateFields
  <2> QED
    BY <2>1, ElementOfSeq
<1>2. x \in CallInfo /\ x.fn = s.ci[t][k].fn /\ x.fresh = s.ci[t][k].fresh
  BY <1>1 DEF CallInfo
<1>3. [s EXCEPT !.ci[t][Len(s.ci[t])].ypcall = TRUE] = r
  BY <1>1
<1> HIDE DEF x
<1>4. /\ list \in Seq(CallInfo) /\ Len(list) = k
      /\ \A i \in 1 .. k : list[i].fn = s.ci[t][i].fn /\ list[i].fresh = s.ci[t][i].fresh
  <2>1. list \in Seq(CallInfo) /\ Len(list) = k /\ \A i \in 1 .. k : list[i] = IF i = k THEN x ELSE s.ci[t][i]
    BY <1>1, <1>2
  <2> HIDE DEF list
  <2> QED
    BY <1>2, <2>1
<1> HIDE DEF list
<1>5. /\ r \in State /\ r.cs = s.cs /\ r.ci = [s.ci EXCEPT ![t] = list] /\ r.tbc = s.tbc /\ r.st = s.st
      /\ r.unstarted = s.unstarted /\ r.n = s.n
  BY <1>4, SetFields
<1> HIDE DEF r
<1>6. r.ci[t] = list /\ \A u \in Threads : u # t => r.ci[u] = s.ci[u]
  BY <1>1, <1>5
<1>7. ASSUME NEW u \in Threads
      PROVE  /\ Len(r.ci[u]) = Len(s.ci[u])
             /\ \A i \in 1 .. Len(s.ci[u]) : r.ci[u][i].fn = s.ci[u][i].fn /\ r.ci[u][i].fresh = s.ci[u][i].fresh
  BY <1>4, <1>6
<1>8. /\ Grammar(s.cs) /\ Apart(s.cs) /\ CountsKept(s.cs, s.n) /\ ThreadsRun(s.cs, s.st, s.unstarted)
      /\ LevelsIn(s.cs, s.ci) /\ LevelsGrow(s.cs) /\ CallbacksRun(s.cs, s.ci, s.st) /\ Entries(s.ci, s.st)
  BY DEF Sound
<1>9. LevelsIn(s.cs, r.ci)
  <2> SUFFICES ASSUME NEW m \in 1 .. Len(s.cs), Live(s.cs, m) /\ Leveled(s.cs, m)
               PROVE  LET e == s.cs[m] IN
                      /\ Level(e) \in 1 .. Len(r.ci[e.t])
                      /\ e.f = "call" => r.ci[e.t][e.ci].fresh /\ e.ci > 1
                      /\ e.f = "C" /\ m > 1 => e.ci > 1
    BY DEF LevelsIn
  <2> DEFINE e == s.cs[m]
  <2>1. /\ Level(e) \in 1 .. Len(s.ci[e.t])
        /\ e.f = "call" => s.ci[e.t][e.ci].fresh /\ e.ci > 1
        /\ e.f = "C" /\ m > 1 => e.ci > 1
    BY <1>8 DEF LevelsIn
  <2>2. e.t \in Threads
    BY StateFields
  <2>3. e.f = "call" => Level(e) = e.ci
    BY DEF Level
  <2> HIDE DEF e
  <2>4. Len(r.ci[e.t]) = Len(s.ci[e.t])
    BY <1>7, <2>2
  <2>5. e.f = "call" => r.ci[e.t][e.ci].fresh = s.ci[e.t][e.ci].fresh
    BY <1>7, <2>1, <2>2, <2>3
  <2> QED
    BY <2>1, <2>4, <2>5 DEF e
<1>10. CallbacksRun(s.cs, r.ci, s.st)
  BY <1>7, <1>8 DEF CallbacksRun
<1>11. Entries(r.ci, s.st)
  <2> SUFFICES ASSUME NEW u \in Threads
               PROVE  EntriesOf(r.ci[u], s.st[u])
    BY DEF Entries
  <2>1. EntriesOf(s.ci[u], s.st[u])
    BY <1>8 DEF Entries
  <2>2. CASE u = t
    <3>1. \A i \in 1 .. k : list[i].fn # "callback"
      BY <1>4 DEF NoCallback
    <3>2. Len(list) >= 2 => list[2].fresh
      BY <1>1, <1>4, <2>1, <2>2 DEF EntriesOf
    <3>3. \A i \in 1 .. Len(list) : list[i].ypcall => \A j \in 1 .. i : list[j].fn # "callback"
      BY <1>1, <1>4, <3>1
    <3> QED
      BY <1>1, <1>4, <1>6, <2>1, <2>2, <3>2, <3>3 DEF EntriesOf
  <2>3. CASE u # t
    BY <1>6, <2>1, <2>3
  <2> QED
    BY <2>2, <2>3
<1> QED
  BY <1>3, <1>4, <1>5, <1>6, <1>8, <1>9, <1>10, <1>11 DEF Sound

(* lua_pcallk, of a thread that may yield and of one that may not.         *)
LEMMA PcallkGood ==
    ASSUME NEW s \in State, Sound(s), NEW t, t = Last(s.cs).t, CountedUp(s, t), Is(Last(s.cs), {"pcall"})
    PROVE  GoodIfAny(lua_pcallk(s, t))
PROOF
<1>1. t \in Threads /\ Len(s.ci[t]) >= 1
  BY TopFields DEF Sound, Entries, EntriesOf
<1>2. CASE yieldable(s, t)
  <2> DEFINE r == [s EXCEPT !.ci[t][Len(s.ci[t])].ypcall = TRUE]
  <2>1. NoCallback(s.ci[t])
    BY <1>2, YieldableNoCallback DEF Is
  <2>2. /\ r \in State /\ Sound(r) /\ Len(r.ci[t]) = Len(s.ci[t])
        /\ r.cs = s.cs /\ r.n = s.n /\ r.st = s.st /\ r.tbc = s.tbc /\ r.unstarted = s.unstarted
    BY <1>1, <2>1, FlagSound
  <2>3. lua_pcallk(s, t) = ccall(r, t, one)
    BY <1>2 DEF lua_pcallk
  <2> HIDE DEF r
  <2>4. CountedUp(r, t) /\ Last(r.cs).t = t /\ Is(Last(r.cs), {"pcall"})
    BY <2>2 DEF CountedUp
  <2>5. CalledBy([f |-> "call", t |-> t, inc |-> one, ci |-> Len(r.ci[t]) + 1], Last(r.cs))
    BY <2>4 DEF CalledBy, Is
  <2> QED
    BY <1>1, <2>2, <2>3, <2>4, <2>5, CcallGood
<1>3. CASE ~yieldable(s, t)
  <2>1. Is(Last(s.cs), {"host", "pcall"})
    BY DEF Is
  <2> QED
    BY <1>3, <2>1, PcallGood DEF lua_pcallk
<1> QED
  BY <1>2, <1>3

(* lua_callk.                                                              *)
LEMMA CallkGood ==
    ASSUME NEW s \in State, Sound(s), NEW t, t = Last(s.cs).t, CountedUp(s, t), Is(Last(s.cs), {"dofile"})
    PROVE  GoodIfAny(lua_callk(s, t))
PROOF
<1> DEFINE inc == IF yieldable(s, t) THEN one ELSE nyci
<1>1. lua_callk(s, t) = ccall(s, t, inc) /\ inc \in {one, nyci}
  BY DEF lua_callk
<1> HIDE DEF inc
<1>2. CalledBy([f |-> "call", t |-> t, inc |-> inc, ci |-> Len(s.ci[t]) + 1], Last(s.cs))
  BY <1>1 DEF CalledBy, Is
<1> QED
  BY <1>1, <1>2, TopFields, CcallGood

(* lua_call.                                                               *)
LEMMA LuaCallGood ==
    ASSUME NEW s \in State, Sound(s), NEW t, t = Last(s.cs).t, CountedUp(s, t), Is(Last(s.cs), {"callback"})
    PROVE  GoodIfAny(lua_call(s, t))
PROOF
<1>1. CalledBy([f |-> "call", t |-> t, inc |-> nyci, ci |-> Len(s.ci[t]) + 1], Last(s.cs))
  BY DEF CalledBy, Is
<1> QED
  BY <1>1, TopFields, CcallGood DEF lua_call

-----------------------------------------------------------------------------
(* Yields. *)

(* The resume that a protected call of a coroutine belongs to.             *)
LEMMA ResumedFrom ==
    ASSUME NEW s \in State, Sound(s), NEW at \in 2 .. Len(s.cs), Resuming(s.cs[at]), NEW t, t = s.cs[at].t
    PROVE  /\ Jumped(s, [s EXCEPT !.cs = SubSeq(s.cs, 1, at - 1), !.n[t] = s.cs[at].n], at, t)
           /\ Resumes(s.cs[at - 1]) /\ s.cs[at - 1].co = t /\ s.cs[at - 1].f = "C" /\ s.cs[at - 1].fn \in {"resume", "wrap"}
           /\ s.cs[at - 1].t # t
PROOF
<1> DEFINE cs == s.cs
           p == cs[at]
           q == [s EXCEPT !.cs = SubSeq(s.cs, 1, at - 1), !.n[t] = p.n]
           b == cs[at - 1]
<1>1. p.f = "protected" /\ p.then.what = "resume"
  BY DEF Resuming
<1>3. Jumped(s, q, at, t)
  <2>1. s.cs[at].f = "protected" /\ t = s.cs[at].t
    BY <1>1
  <2> QED
    BY <2>1, LandFields
<1> HIDE DEF q
<1>4. ProtectedBy(p, b)
  BY <1>3 DEF Jumped
<1>5. Resumes(b) /\ b.co = t /\ b.f = "C" /\ b.fn \in {"resume", "wrap"}
  BY <1>1, <1>4 DEF ProtectedBy, Resumes, Is
<1>6. b.t # t
  <2>1. at - 1 \in 1 .. Len(cs) /\ at - 1 \in 1 .. at - 1 /\ at \in (at - 1) + 1 .. Len(cs)
    BY StateFields
  <2>2. Switches(b)
    BY <1>5 DEF Switches, Is
  <2>3. b.t # cs[at].t
    BY <2>1, <2>2 DEF Sound, Apart
  <2> QED
    BY <2>3
<1> QED
  BY <1>3, <1>5, <1>6 DEF q

(* lua_yieldk: the thread leaves its C functions, none of which calls      *)
(* back.                                                                   *)
LEMMA YieldGood ==
    ASSUME NEW s \in State, Good(s), Last(s.cs).f = "execute", NEW t, t = Last(s.cs).t
    PROVE  GoodIfAny(IF yieldable(s, t) THEN luaD_throw([prepCallInfo(s, t, "yield") EXCEPT !.st[t] = "YIELD"], t, "YIELD")
                     ELSE luaD_throw(s, t, "ERRRUN"))
PROOF
<1>1. Sound(s) /\ CountedUp(s, t) /\ ~Is(Last(s.cs), {"host", "closeself"}) /\ ~Is(Last(s.cs), {"callback"})
  BY DEF Good, Is
<1>2. CASE ~yieldable(s, t)
  BY <1>1, <1>2, ThrowGood
<1>3. CASE yieldable(s, t)
  <2> DEFINE at == Max(Protections(s, t))
             p == s.cs[at]
             s1 == prepCallInfo(s, t, "yield")
             s2 == [s1 EXCEPT !.st[t] = "YIELD"]
             r == [s2 EXCEPT !.cs = SubSeq(s2.cs, 1, at - 1), !.n[t] = p.n]
             x == Info("yield", Free(s, t))
             q == [s EXCEPT !.cs = SubSeq(s.cs, 1, at - 1), !.n[t] = p.n]
  <2>1. /\ at \in 2 .. Len(s.cs) /\ Resuming(s.cs[at]) /\ s.cs[at].t = t
        /\ \A j \in at .. Len(s.cs) : s.cs[j].t = t /\ ~Is(s.cs[j], {"closeself"})
    BY <1>1, <1>3, YieldableResumed
  <2>2. NoCallback(s.ci[t])
    BY <1>1, <1>3, YieldableNoCallback
  <2>3. t \in Threads /\ s.ci[t] \in Seq(CallInfo) /\ Len(s.ci[t]) \in Nat /\ Len(s.ci[t]) >= 2 /\ EntriesOf(s.ci[t], s.st[t])
    <3>1. t \in Threads /\ s.ci[t] \in Seq(CallInfo) /\ Len(s.ci[t]) \in Nat /\ Len(s.ci[t]) >= 2
      BY <1>1, ExecLen
    <3> QED
      BY <1>1, <3>1 DEF Sound, Entries
  <2>4. /\ s1 \in State /\ s1.cs = s.cs /\ s1.tbc = s.tbc /\ s1.st = s.st /\ s1.unstarted = s.unstarted /\ s1.n = s.n
        /\ x \in CallInfo /\ x.fn = "yield" /\ x.ypcall = FALSE
        /\ s1.ci[t] = Append(s.ci[t], x) /\ \A u \in Threads : u # t => s1.ci[u] = s.ci[u]
    <3> DEFINE fn == "yield"
    <3>1. t \in Threads /\ Len(s.ci[t]) >= 1 /\ fn \in FnNames
      BY <2>3 DEF FnNames
    <3>2. /\ prepCallInfo(s, t, fn) \in State /\ prepCallInfo(s, t, fn).cs = s.cs /\ prepCallInfo(s, t, fn).tbc = s.tbc
          /\ prepCallInfo(s, t, fn).st = s.st /\ prepCallInfo(s, t, fn).unstarted = s.unstarted /\ prepCallInfo(s, t, fn).n = s.n
          /\ Info(fn, Free(s, t)) \in CallInfo /\ Info(fn, Free(s, t)).fn = fn /\ Info(fn, Free(s, t)).ypcall = FALSE
          /\ prepCallInfo(s, t, fn).ci[t] = Append(s.ci[t], Info(fn, Free(s, t)))
          /\ \A u \in Threads : u # t => prepCallInfo(s, t, fn).ci[u] = s.ci[u]
      <4> HIDE DEF fn
      <4> QED
        BY ONLY s \in State, <3>1, PrepFields
    <3> QED
      BY <3>2
  <2> HIDE DEF x, s1
  <2>5. /\ s2 \in State /\ s2.cs = s.cs /\ s2.ci = s1.ci /\ s2.st = [s.st EXCEPT ![t] = "YIELD"]
        /\ s2.unstarted = s.unstarted /\ s2.n = s.n
    <3>1. "YIELD" \in Statuses
      BY DEF Statuses
    <3> DEFINE y == "YIELD"
    <3>2. y \in Statuses
      BY <3>1
    <3> HIDE DEF y
    <3>3. LET z == [s1 EXCEPT !.st[t] = y] IN
          /\ z \in State /\ z.cs = s1.cs /\ z.ci = s1.ci /\ z.st = [s1.st EXCEPT ![t] = y]
          /\ z.unstarted = s1.unstarted /\ z.n = s1.n
      BY <2>3, <2>4, <3>2, SetFields
    <3> QED
      BY <2>4, <3>3 DEF y
  <2>6. luaD_throw(s2, t, "YIELD") = Land(s2, t, at, "YIELD")
    <3>1. Protections(s2, t) = Protections(s, t)
      BY <2>5 DEF Protections
    <3> HIDE DEF s2
    <3> QED
      BY <3>1 DEF luaD_throw
  <2> HIDE DEF at, s2
  <2>7. /\ Jumped(s, q, at, t) /\ s.cs[at - 1].f = "C" /\ s.cs[at - 1].fn \in {"resume", "wrap"} /\ s.cs[at - 1].t # t
    <3>1. Sound(s) /\ at \in 2 .. Len(s.cs) /\ Resuming(s.cs[at]) /\ t = s.cs[at].t
      BY <1>1, <2>1
    <3> QED
      BY ONLY <3>1, s \in State, ResumedFrom, ZenonT(30)
  <2>8. Land(s2, t, at, "YIELD") = FinishC(r, "YIELD")
    <3>1. s2.cs[at].then.what = "resume" /\ ~errorstatus("YIELD") /\ s2.cs[at] = p
      BY <2>1, <2>5 DEF Resuming, errorstatus
    <3>2. r = [s2 EXCEPT !.cs = SubSeq(s2.cs, 1, at - 1), !.n[t] = s2.cs[at].n]
      BY <3>1
    <3>3. Land(s2, t, at, "YIELD") = precover(r, t, "YIELD")
      <4> HIDE DEF r
      <4> QED
        BY <3>1, <3>2 DEF Land
    <3>4. precover(r, t, "YIELD") = FinishC(r, "YIELD")
      <4> HIDE DEF r
      <4> QED
        BY <3>1 DEF precover
    <3> QED
      BY <3>3, <3>4
  <2>9. q.n = [s.n EXCEPT ![t] = p.n] /\ q.cs = SubSeq(s.cs, 1, at - 1) /\ q.cs \in Seq(Frame)
    <3>1. q.n = [s.n EXCEPT ![t] = p.n] /\ q.cs = SubSeq(s.cs, 1, at - 1)
      BY DEF State
    <3>2. q \in State
      BY <2>7 DEF Jumped
    <3> HIDE DEF q
    <3> QED
      BY <3>1, <3>2, StateFields
  <2>10. p.n \in Nat \X Nat
    <3>1. p \in Frame /\ p.f = "protected"
      BY <2>1, StateFields DEF Resuming
    <3> QED
      BY <3>1, FrameFields
  <2>11. /\ r \in State /\ r.cs = q.cs /\ r.n = q.n /\ r.unstarted = s.unstarted /\ r.ci = s1.ci /\ r.st = s2.st
    <3> DEFINE c == SubSeq(s2.cs, 1, at - 1)
               z == [s2 EXCEPT !.n[t] = p.n]
    <3>1. c = q.cs /\ c \in Seq(Frame)
      BY <2>5, <2>9
    <3>2. r = [z EXCEPT !.cs = c]
      BY <2>5 DEF State
    <3> HIDE DEF c
    <3>3. z \in State /\ z.cs = s2.cs /\ z.ci = s2.ci /\ z.st = s2.st /\ z.unstarted = s2.unstarted /\ z.n = [s2.n EXCEPT ![t] = p.n]
      BY <2>3, <2>5, <2>10, SetFields
    <3> HIDE DEF z, r
    <3>4. r \in State /\ r.cs = c /\ r.ci = z.ci /\ r.st = z.st /\ r.unstarted = z.unstarted /\ r.n = z.n
      BY <3>1, <3>2, <3>3, SetFields, ZenonT(30)
    <3> QED
      BY <2>5, <2>9, <3>1, <3>3, <3>4
  <2> HIDE DEF r, q
  <2>12. /\ \A u \in Threads : u # t => r.ci[u] = s.ci[u] /\ r.st[u] = s.st[u]
         /\ r.st[t] = "YIELD" /\ r.ci[t] = Append(s.ci[t], x)
    BY <2>3, <2>4, <2>5, <2>11, StateFields, SMTT(30)
  <2>13. EntriesOf(r.ci[t], r.st[t]) /\ NoCallback(r.ci[t])
    <3> DEFINE list == Append(s.ci[t], x)
               k == Len(s.ci[t])
    <3>1. list \in Seq(CallInfo) /\ Len(list) = k + 1 /\ list[k + 1] = x /\ \A i \in 1 .. k : list[i] = s.ci[t][i]
      BY <2>3, <2>4
    <3>2. \A i \in 1 .. k + 1 : i \in 1 .. k \/ i = k + 1
      BY <2>3
    <3>3. r.ci[t] = list
      BY <2>12
    <3> HIDE DEF list
    <3>4. NoCallback(list)
      BY <2>2, <2>4, <3>1, <3>2 DEF NoCallback
    <3>5. list[2].fresh
      BY <2>3, <3>1 DEF EntriesOf
    <3>6. \A i \in 1 .. Len(list) : list[i].ypcall => \A j \in 1 .. i : list[j].fn # "callback"
      BY <2>3, <3>1, <3>4 DEF NoCallback
    <3> QED
      BY <2>3, <3>1, <3>3, <3>4, <3>5, <3>6 DEF EntriesOf
  <2>14. Sound(r) /\ Last(r.cs) = s.cs[at - 1]
    <3>1. s.cs[at - 1].t # t /\ (r.st[t] = "ERRRUN" \/ NoCallback(r.ci[t]))
      BY <2>7, <2>13
    <3>2. r \in State /\ r.cs = q.cs /\ r.n = q.n /\ r.unstarted = s.unstarted
      BY <2>11
    <3>3. \A u \in Threads : u # t => r.ci[u] = s.ci[u] /\ r.st[u] = s.st[u]
      BY <2>12
    <3>4. \A j \in at .. Len(s.cs) : s.cs[j].t = t
      BY <2>1
    <3>5. EntriesOf(r.ci[t], r.st[t]) /\ Jumped(s, q, at, t) /\ Sound(s) /\ at \in 2 .. Len(s.cs)
      BY <1>1, <2>1, <2>7, <2>13
    <3> QED
      BY ONLY s \in State, <3>1, <3>2, <3>3, <3>4, <3>5, LeaveSound
  <2>15. "YIELD" \in Statuses
    BY DEF Statuses
  <2>16. GoodIfAny(FinishC(r, "YIELD"))
    BY <2>7, <2>11, <2>14, <2>15, FinishGood
  <2> QED
    BY <1>3, <2>6, <2>8, <2>16 DEF s2, s1
<1> QED
  BY <1>2, <1>3

-----------------------------------------------------------------------------
(* Resumes. *)

(* States with the same fields are the same.                               *)
LEMMA StateEqual ==
    ASSUME NEW s \in State, NEW r \in State, s.cs = r.cs, s.ci = r.ci, s.tbc = r.tbc, s.st = r.st,
           s.unstarted = r.unstarted, s.n = r.n
    PROVE  s = r
PROOF
<1>1. s = [cs |-> s.cs, ci |-> s.ci, tbc |-> s.tbc, st |-> s.st, unstarted |-> s.unstarted, n |-> s.n]
  BY DEF State
<1>2. r = [cs |-> r.cs, ci |-> r.ci, tbc |-> r.tbc, st |-> r.st, unstarted |-> r.unstarted, n |-> r.n]
  BY DEF State
<1> QED
  BY <1>1, <1>2

(* Starting a coroutine leaves the other fields.                           *)
LEMMA SetUnstarted ==
    ASSUME NEW s \in State, NEW u \in Threads
    PROVE  LET r == [s EXCEPT !.unstarted = @ \ {u}] IN
           /\ r \in State /\ r.cs = s.cs /\ r.ci = s.ci /\ r.tbc = s.tbc /\ r.st = s.st /\ r.unstarted = s.unstarted \ {u} /\ r.n = s.n
PROOF
  BY DEF State

(* luaD_rawrunprotected. *)
LEMMA RunProtectedFields ==
    ASSUME NEW s \in State, NEW u \in Threads, NEW then \in Thens
    PROVE  LET r == luaD_rawrunprotected(s, u, then) IN
           /\ r \in State /\ r.cs = Append(s.cs, [f |-> "protected", t |-> u, n |-> s.n[u], then |-> then])
           /\ r.ci = s.ci /\ r.tbc = s.tbc /\ r.st = s.st /\ r.unstarted = s.unstarted /\ r.n = s.n
PROOF
<1> DEFINE e == [f |-> "protected", t |-> u, n |-> s.n[u], then |-> then]
           c == Append(s.cs, e)
<1>1. e \in Frame
  <2>1. s.n[u] \in Nat \X Nat
    BY StateFields
  <2> QED
    BY <2>1 DEF Frame
<1> HIDE DEF e
<1>2. c \in Seq(Frame)
  BY <1>1, StateFields
<1>3. luaD_rawrunprotected(s, u, then) = [s EXCEPT !.cs = c]
  BY DEF luaD_rawrunprotected, e
<1> HIDE DEF c
<1>4. LET r == [s EXCEPT !.cs = c] IN
      r \in State /\ r.cs = c /\ r.ci = s.ci /\ r.tbc = s.tbc /\ r.st = s.st /\ r.unstarted = s.unstarted /\ r.n = s.n
  BY <1>2, SetFields
<1> QED
  BY <1>3, <1>4 DEF c, e

(* The thread that is resumed counts from the count of the one it came     *)
(* from.                                                                   *)
LEMMA FromSound ==
    ASSUME NEW s \in State, Sound(s), NEW u \in Threads, \A m \in 1 .. Len(s.cs) : s.cs[m].t # u,
           NEW r \in State, r.cs = s.cs, \A t \in Threads : t # u => r.n[t] = s.n[t] /\ r.ci[t] = s.ci[t] /\ r.st[t] = s.st[t],
           r.unstarted \subseteq s.unstarted, r.st[u] = "OK", EntriesOf(r.ci[u], "OK"), NoCallback(r.ci[u]),
           r.n[u] = <<Calls(s.cs, Len(s.cs)), 0>>, r.n[u][1] < ERRORCCALLS
    PROVE  Sound(r) /\ CountedUp(r, u)
PROOF
<1> DEFINE N == Len(s.cs)
           i == N + 1
<1>1. /\ s.cs \in Seq(Frame) /\ N \in Nat \ {0} /\ i \in 2 .. Len(s.cs) + 1
  BY TopFields
<1>2. SubSeq(s.cs, 1, i - 1) = s.cs
  <2> DEFINE c == s.cs
             d == SubSeq(c, 1, N)
  <2>1. c \in Seq(Frame) /\ N \in 0 .. Len(c)
    BY <1>1
  <2> HIDE DEF c
  <2>2. d \in Seq(Frame) /\ Len(d) = N /\ Agree(d, c, N)
    BY <2>1, SubSeqOf
  <2>3. d = c
    <3>1. \A j \in 1 .. Len(d) : d[j] = c[j]
      BY <2>2 DEF Agree
    <3>2. Len(c) = N
      BY DEF c
    <3> HIDE DEF d
    <3> QED
      BY <2>1, <2>2, <3>1, <3>2, SeqEqual
  <2>4. i - 1 = N
    BY <1>1
  <2> HIDE DEF N
  <2> QED
    BY <2>3, <2>4 DEF c
<1>3. Sound(r)
  <2>1. \A j \in i .. Len(s.cs) : s.cs[j].t = u
    BY <1>1
  <2>2. \A m \in 1 .. i - 1 : s.cs[m].t # u
    BY <1>1
  <2>3. r.cs = SubSeq(s.cs, 1, i - 1)
    BY <1>2
  <2>4. (r.st[u] = "YIELD" => u \notin r.unstarted) /\ EntriesOf(r.ci[u], r.st[u]) /\ (r.st[u] = "ERRRUN" \/ NoCallback(r.ci[u]))
    OBVIOUS
  <2> HIDE DEF i, N
  <2> QED
    BY <1>1, <2>1, <2>2, <2>3, <2>4, DropSound
<1>4. u # Main
  BY <1>1 DEF Sound, Grammar
<1>5. Counted(s.cs, N, u) = <<Calls(s.cs, N), IF u = Main THEN 1 ELSE 0>>
  BY <1>1, CountedNew
<1> QED
  BY <1>3, <1>4, <1>5 DEF CountedUp

(* lua_resume of a coroutine that was found fit, whether it starts or goes *)
(* on.                                                                     *)
LEMMA ResumeGood ==
    ASSUME NEW s0 \in State, Sound(s0), NEW u \in Threads, NEW from \in Threads, Resumes(Last(s0.cs)), Last(s0.cs).co = u,
           \A m \in 1 .. Len(s0.cs) : s0.cs[m].t # u, Fit(s0, u, from),
           Calls(s0.cs, Len(s0.cs)) = s0.n[from][1] + 1
    PROVE  GoodIfAny(resume(s0, u, from))
PROOF
<1> DEFINE m == <<s0.n[from][1] + 1, 0>>
           then == [what |-> "resume"]
           s1 == [s0 EXCEPT !.n[u] = m]
           s == luaD_rawrunprotected(s1, u, then)
           e == [f |-> "protected", t |-> u, n |-> m, then |-> then]
           k == Len(s0.ci[u])
<1>1. /\ s0.n[from] \in Nat \X Nat /\ m \in Nat \X Nat /\ s0.ci[u] \in Seq(CallInfo) /\ k \in Nat
      /\ s0.n \in [Threads -> Nat \X Nat] /\ s0.ci \in [Threads -> Seq(CallInfo)] /\ s0.st \in [Threads -> Statuses]
      /\ s0.cs \in Seq(Frame)
  BY StateFields, SMTT(30)
<1>2. m = <<Calls(s0.cs, Len(s0.cs)), 0>> /\ m[1] < ERRORCCALLS
  BY <1>1 DEF Fit, getCcalls
<1>3. then \in Thens
  BY DEF Thens
<1>4. resume(s0, u, from) =
        IF s.st[u] = "OK" THEN ccall([s EXCEPT !.unstarted = @ \ {u}], u, <<0, 0>>)
        ELSE [poscall([s EXCEPT !.st[u] = "OK"], u, Len(s.ci[u])) EXCEPT !.cs = Append(@, [f |-> "unroll", t |-> u])]
  BY DEF resume, getCcalls
<1> HIDE DEF m
<1>5. /\ s1 \in State /\ s1.cs = s0.cs /\ s1.ci = s0.ci /\ s1.tbc = s0.tbc /\ s1.st = s0.st /\ s1.unstarted = s0.unstarted
      /\ s1.n = [s0.n EXCEPT ![u] = m] /\ s1.n[u] = m /\ \A t \in Threads : t # u => s1.n[t] = s0.n[t]
  <2>0. m \in Nat \X Nat
    BY <1>1
  <2>1. /\ s1 \in State /\ s1.cs = s0.cs /\ s1.ci = s0.ci /\ s1.tbc = s0.tbc /\ s1.st = s0.st /\ s1.unstarted = s0.unstarted
        /\ s1.n = [s0.n EXCEPT ![u] = m]
    BY ONLY <2>0, s0 \in State, u \in Threads, SetFields
  <2> HIDE DEF s1
  <2> QED
    BY <1>1, <2>1
<1> HIDE DEF s1, then
<1>6. /\ s \in State /\ s.cs = Append(s0.cs, e) /\ s.ci = s0.ci /\ s.tbc = s0.tbc /\ s.st = s0.st /\ s.unstarted = s0.unstarted
      /\ s.n = s1.n
  <2>1. /\ s \in State /\ s.cs = Append(s1.cs, [f |-> "protected", t |-> u, n |-> s1.n[u], then |-> then])
        /\ s.ci = s1.ci /\ s.tbc = s1.tbc /\ s.st = s1.st /\ s.unstarted = s1.unstarted /\ s.n = s1.n
    <3>1. s1 \in State
      BY <1>5
    <3> QED
      BY ONLY <1>3, <3>1, u \in Threads, RunProtectedFields
  <2> HIDE DEF s
  <2> QED
    BY <1>5, <2>1
<1> HIDE DEF s
<1>7. EntriesOf(s0.ci[u], s0.st[u])
  BY DEF Sound, Entries
<1>8. NoCallback(s0.ci[u])
  <2>1. s0.st[u] # "ERRRUN"
    BY DEF Fit
  <2> SUFFICES ASSUME NEW i \in 1 .. Len(s0.ci[u]), s0.ci[u][i].fn = "callback"
               PROVE  FALSE
    BY DEF NoCallback
  <2>2. CallbackOf(s0.cs, u, i)
    BY <2>1 DEF Sound, CallbacksRun
  <2> QED
    BY <2>2 DEF CallbackOf
<1>9. CASE s0.st[u] = "OK"
  <2> DEFINE r1 == [s1 EXCEPT !.unstarted = @ \ {u}]
             r == luaD_rawrunprotected(r1, u, then)
             z == [s EXCEPT !.unstarted = @ \ {u}]
  <2>1. /\ r1 \in State /\ r1.cs = s0.cs /\ r1.ci = s0.ci /\ r1.tbc = s0.tbc /\ r1.st = s0.st
        /\ r1.unstarted = s0.unstarted \ {u} /\ r1.n = s1.n
    BY <1>5, SetUnstarted
  <2> HIDE DEF r1
  <2>2. Sound(r1) /\ CountedUp(r1, u)
    <3>1. /\ r1.cs = s0.cs /\ \A t \in Threads : t # u => r1.n[t] = s0.n[t] /\ r1.ci[t] = s0.ci[t] /\ r1.st[t] = s0.st[t]
      BY <1>5, <2>1
    <3>2. r1.unstarted \subseteq s0.unstarted /\ r1.st[u] = "OK" /\ EntriesOf(r1.ci[u], "OK") /\ NoCallback(r1.ci[u])
      BY <1>7, <1>8, <1>9, <2>1
    <3>3. r1.n[u] = <<Calls(s0.cs, Len(s0.cs)), 0>> /\ r1.n[u][1] < ERRORCCALLS
      BY <1>2, <1>5, <2>1
    <3>4. \A i \in 1 .. Len(s0.cs) : s0.cs[i].t # u
      OBVIOUS
    <3> QED
      BY ONLY s0 \in State, Sound(s0), u \in Threads, <2>1, <3>1, <3>2, <3>3, <3>4, FromSound
  <2>3. /\ r \in State /\ Sound(r) /\ CountedUp(r, u) /\ Last(r.cs).t = u /\ Resuming(Last(r.cs))
        /\ r.ci = r1.ci /\ r.st = r1.st /\ r.tbc = r1.tbc /\ r.unstarted = r1.unstarted /\ r.n = r1.n
    <3>1. Resumes(Last(r1.cs)) /\ Last(r1.cs).co = u /\ (\A i \in 1 .. Len(r1.cs) : r1.cs[i].t # u) /\ r1.st[u] = "OK" /\ u \notin r1.unstarted
      BY <1>9, <2>1
    <3> QED
      BY <2>1, <2>2, <3>1, ResumeProtected DEF then
  <2>4. r.cs = Append(s0.cs, e)
    <3>1. r.cs = Append(r1.cs, [f |-> "protected", t |-> u, n |-> r1.n[u], then |-> then])
      BY <1>3, <2>1, RunProtectedFields
    <3> QED
      BY <1>5, <2>1, <3>1
  <2> HIDE DEF r
  <2>5. z = r
    <3>1. z \in State /\ z.cs = s.cs /\ z.ci = s.ci /\ z.tbc = s.tbc /\ z.st = s.st /\ z.unstarted = s.unstarted \ {u} /\ z.n = s.n
      BY <1>6, SetUnstarted
    <3> HIDE DEF z
    <3>2. z.cs = r.cs /\ z.ci = r.ci /\ z.tbc = r.tbc /\ z.st = r.st /\ z.unstarted = r.unstarted /\ z.n = r.n
      BY <1>6, <2>1, <2>3, <2>4, <3>1
    <3> QED
      BY <2>3, <3>1, <3>2, StateEqual
  <2>6. resume(s0, u, from) = ccall(r, u, <<0, 0>>)
    BY <1>4, <1>6, <1>9, <2>5
  <2>7. CalledBy([f |-> "call", t |-> u, inc |-> <<0, 0>>, ci |-> Len(r.ci[u]) + 1], Last(r.cs))
    BY <2>3 DEF CalledBy
  <2> DEFINE inc == <<0, 0>>
  <2>8. inc \in {one, nyci, <<0, 0>>}
    OBVIOUS
  <2> HIDE DEF inc
  <2>9. CalledBy([f |-> "call", t |-> u, inc |-> inc, ci |-> Len(r.ci[u]) + 1], Last(r.cs))
    BY <2>7 DEF inc
  <2>10. GoodIfAny(ccall(r, u, inc))
    BY <2>3, <2>8, <2>9, CcallGood
  <2> QED
    BY <2>6, <2>10 DEF inc
<1>10. CASE s0.st[u] = "YIELD"
  <2> DEFINE list == SubSeq(s0.ci[u], 1, k - 1)
             r1 == [s1 EXCEPT !.st[u] = "OK"]
             r2 == [r1 EXCEPT !.ci[u] = list]
             z1 == [s EXCEPT !.st[u] = "OK"]
             z2 == poscall(z1, u, Len(s.ci[u]))
             r == luaD_rawrunprotected(r2, u, then)
  <2>1. k >= 2 /\ list \in Seq(CallInfo) /\ Len(list) = k - 1 /\ \A i \in 1 .. k - 1 : list[i] = s0.ci[u][i]
    <3>1. k >= 2
      BY <1>7, <1>10 DEF EntriesOf
    <3> DEFINE h == s0.ci[u]
    <3>2. h \in Seq(CallInfo) /\ k - 1 \in 0 .. Len(h)
      BY <1>1, <3>1
    <3> HIDE DEF h
    <3>3. SubSeq(h, 1, k - 1) \in Seq(CallInfo) /\ Len(SubSeq(h, 1, k - 1)) = k - 1 /\ Agree(SubSeq(h, 1, k - 1), h, k - 1)
      BY <3>2, SubSeqOf
    <3> QED
      BY <3>1, <3>3 DEF h, Agree
  <2>2. list = SubSeq(s0.ci[u], 1, k - 1)
    OBVIOUS
  <2> HIDE DEF list
  <2>3. /\ r1 \in State /\ r1.cs = s0.cs /\ r1.ci = s0.ci /\ r1.tbc = s0.tbc /\ r1.st = [s0.st EXCEPT ![u] = "OK"]
        /\ r1.unstarted = s0.unstarted /\ r1.n = s1.n
    <3> DEFINE y == "OK"
    <3>1. y \in Statuses
      BY DEF Statuses
    <3> HIDE DEF y
    <3>2. LET w == [s1 EXCEPT !.st[u] = y] IN
          /\ w \in State /\ w.cs = s1.cs /\ w.ci = s1.ci /\ w.tbc = s1.tbc /\ w.st = [s1.st EXCEPT ![u] = y]
          /\ w.unstarted = s1.unstarted /\ w.n = s1.n
      BY <1>5, <3>1, SetFields
    <3> QED
      BY <1>5, <3>2 DEF y
  <2> HIDE DEF r1
  <2>4. /\ r2 \in State /\ r2.cs = s0.cs /\ r2.ci = [s0.ci EXCEPT ![u] = list] /\ r2.tbc = s0.tbc
        /\ r2.st = [s0.st EXCEPT ![u] = "OK"] /\ r2.unstarted = s0.unstarted /\ r2.n = s1.n
    <3>1. /\ r2 \in State /\ r2.cs = r1.cs /\ r2.ci = [r1.ci EXCEPT ![u] = list] /\ r2.tbc = r1.tbc
          /\ r2.st = r1.st /\ r2.unstarted = r1.unstarted /\ r2.n = r1.n
      BY <2>1, <2>3, SetFields
    <3> HIDE DEF r2
    <3> QED
      BY <2>3, <3>1
  <2> HIDE DEF r2
  <2>5. r2.ci[u] = list /\ r2.st[u] = "OK" /\ \A t \in Threads : t # u => r2.ci[t] = s0.ci[t] /\ r2.st[t] = s0.st[t]
    BY <1>1, <2>4
  <2>6. EntriesOf(list, "OK") /\ NoCallback(list)
    <3>0. \A i \in 1 .. k - 1 : i \in 1 .. k
      BY <1>1
    <3>1. NoCallback(list)
      BY <1>8, <2>1, <3>0 DEF NoCallback
    <3>2. \A i \in 1 .. Len(list) : list[i].ypcall => \A j \in 1 .. i : list[j].fn # "callback"
      BY <1>1, <2>1, <3>1 DEF NoCallback
    <3>a. k - 1 >= 2 => 2 \in 1 .. k - 1 /\ k >= 2
      BY <1>1
    <3>3. Len(list) >= 2 => list[2].fresh
      BY <1>1, <1>7, <2>1, <3>a DEF EntriesOf
    <3> QED
      BY <1>1, <2>1, <3>1, <3>2, <3>3 DEF EntriesOf
  <2>7. Sound(r2) /\ CountedUp(r2, u)
    <3>1. /\ r2.cs = s0.cs /\ \A t \in Threads : t # u => r2.n[t] = s0.n[t] /\ r2.ci[t] = s0.ci[t] /\ r2.st[t] = s0.st[t]
      BY <1>5, <2>4, <2>5
    <3>2. r2.unstarted \subseteq s0.unstarted /\ r2.st[u] = "OK" /\ EntriesOf(r2.ci[u], "OK") /\ NoCallback(r2.ci[u])
      BY <2>4, <2>5, <2>6
    <3>3. r2.n[u] = <<Calls(s0.cs, Len(s0.cs)), 0>> /\ r2.n[u][1] < ERRORCCALLS
      BY <1>2, <1>5, <2>4
    <3>4. \A i \in 1 .. Len(s0.cs) : s0.cs[i].t # u
      OBVIOUS
    <3> QED
      BY ONLY s0 \in State, Sound(s0), u \in Threads, <2>4, <3>1, <3>2, <3>3, <3>4, FromSound
  <2>8. u \notin s0.unstarted
    BY <1>10 DEF Sound, ThreadsRun
  <2>9. LET w == [r EXCEPT !.cs = Append(@, [f |-> "unroll", t |-> u])] IN w \in State /\ Good(w)
    <3>1. Resumes(Last(r2.cs)) /\ Last(r2.cs).co = u /\ (\A i \in 1 .. Len(r2.cs) : r2.cs[i].t # u) /\ r2.st[u] = "OK" /\ u \notin r2.unstarted
      BY <2>4, <2>5, <2>8
    <3> QED
      BY <2>4, <2>7, <3>1, UnrollGood DEF then
  <2>10. z2 = r
    <3>1. /\ r \in State /\ r.cs = Append(r2.cs, [f |-> "protected", t |-> u, n |-> r2.n[u], then |-> then])
          /\ r.ci = r2.ci /\ r.tbc = r2.tbc /\ r.st = r2.st /\ r.unstarted = r2.unstarted /\ r.n = r2.n
      BY <1>3, <2>4, RunProtectedFields
    <3> HIDE DEF r
    <3>2. r.cs = Append(s0.cs, e)
      BY <1>5, <2>4, <3>1
    <3>3. /\ z1 \in State /\ z1.cs = s.cs /\ z1.ci = s.ci /\ z1.tbc = s.tbc /\ z1.st = [s.st EXCEPT ![u] = "OK"]
          /\ z1.unstarted = s.unstarted /\ z1.n = s.n
      <4> DEFINE y == "OK"
      <4>1. y \in Statuses
        BY DEF Statuses
      <4> HIDE DEF y
      <4>2. LET w == [s EXCEPT !.st[u] = y] IN
            /\ w \in State /\ w.cs = s.cs /\ w.ci = s.ci /\ w.tbc = s.tbc /\ w.st = [s.st EXCEPT ![u] = y]
            /\ w.unstarted = s.unstarted /\ w.n = s.n
        BY <1>6, <4>1, SetFields
      <4> QED
        BY <4>2 DEF y
    <3> HIDE DEF z1
    <3>4. z2 = [z1 EXCEPT !.ci[u] = list]
      BY <1>1, <1>6, <2>2, <3>3 DEF poscall
    <3> HIDE DEF z2
    <3>5. /\ z2 \in State /\ z2.cs = z1.cs /\ z2.ci = [z1.ci EXCEPT ![u] = list] /\ z2.tbc = z1.tbc
          /\ z2.st = z1.st /\ z2.unstarted = z1.unstarted /\ z2.n = z1.n
      BY <2>1, <3>3, <3>4, SetFields
    <3>6. z2.cs = r.cs /\ z2.ci = r.ci /\ z2.tbc = r.tbc /\ z2.st = r.st /\ z2.unstarted = r.unstarted /\ z2.n = r.n
      BY <1>6, <2>4, <3>1, <3>2, <3>3, <3>5
    <3> QED
      BY <3>1, <3>5, <3>6, StateEqual
  <2>11. resume(s0, u, from) = [z2 EXCEPT !.cs = Append(@, [f |-> "unroll", t |-> u])]
    BY <1>4, <1>6, <1>10
  <2> HIDE DEF z2, r
  <2> QED
    BY <2>9, <2>10, <2>11 DEF GoodIfAny
<1> QED
  BY <1>9, <1>10 DEF Fit

-----------------------------------------------------------------------------
(* coroutine.close. *)

(* A thread on the stack that does not run waits in a call of its own.     *)
LEMMA Waits ==
    ASSUME NEW s \in State, Sound(s), NEW m \in 1 .. Len(s.cs), NEW u, u = s.cs[m].t, u # Last(s.cs).t
    PROVE  s.st[u] = "OK" /\ Len(s.ci[u]) > 1
PROOF
<1> DEFINE cs == s.cs
           N == Len(s.cs)
           S == {i \in 1 .. N : cs[i].t = u}
           j == Max(S)
<1>1. cs \in Seq(Frame) /\ N \in Nat \ {0} /\ Last(cs) = cs[N] /\ u \in Threads
  BY TopFields, StateFields
<1>2. s.st[u] = "OK"
  BY DEF Sound, ThreadsRun
<1>3. j \in S /\ \A x \in S : x <= j
  <2>1. S \in SUBSET (0 .. N) /\ S # {}
    BY <1>1
  <2> HIDE DEF S, N
  <2> QED
    BY <1>1, <2>1, MaxOfBounded
<1> HIDE DEF j
<1>4. j \in 1 .. N - 1 /\ cs[j].t = u /\ j + 1 \in 2 .. N /\ (j + 1) - 1 = j /\ j + 1 \in 1 .. N /\ j \in 1 .. N
  <2>1. j \in 1 .. N /\ j # N /\ cs[j].t = u
    BY <1>1, <1>3
  <2> HIDE DEF N
  <2> QED
    BY <1>1, <2>1
<1>5. \A i \in j + 1 .. N : cs[i].t # u
  <2> SUFFICES ASSUME NEW i \in j + 1 .. N, cs[i].t = u
               PROVE  FALSE
    OBVIOUS
  <2>1. i \in 1 .. N /\ i > j
    <3> HIDE DEF N
    <3> QED
      BY <1>1, <1>4
  <2>2. i \in S
    BY <2>1
  <2> HIDE DEF S, N
  <2> QED
    BY <1>1, <1>3, <1>4, <2>1, <2>2
<1>6. cs[j + 1].t # u
  BY <1>4, <1>5
<1>7. Below(cs[j + 1], cs[j]) /\ cs[j + 1] \in Frame
  BY <1>4, StateFields DEF Sound, Grammar
<1>8. Switches(cs[j])
  BY <1>4, <1>6, <1>7, FrameFields DEF Below, CalledC, CalledBy, ProtectedBy, Resumes, Switches, Is
<1>9. j > 1
  <2>1. ~Switches(cs[1])
    BY DEF Sound, Grammar, Switches, Is
  <2>2. j # 1
    BY <1>8, <2>1
  <2> HIDE DEF N
  <2> QED
    BY <1>1, <1>4, <2>2
<1>10. Live(cs, j)
  <2>1. ~ClosesSelf(cs[j], u)
    BY <1>8 DEF Switches, Is, ClosesSelf
  <2>2. \A i \in j .. N : i = j \/ i \in j + 1 .. N
    <3> HIDE DEF N
    <3> QED
      BY <1>1, <1>4
  <2> QED
    BY <1>4, <1>5, <2>1, <2>2 DEF Live, ClosesSelf
<1>11. cs[j].f = "C" /\ Leveled(cs, j) /\ Level(cs[j]) = cs[j].ci
  BY <1>8 DEF Switches, Is, Leveled, Level
<1>12. cs[j].ci \in 1 .. Len(s.ci[u]) /\ cs[j].ci > 1
  BY <1>4, <1>9, <1>10, <1>11 DEF Sound, LevelsIn
<1> QED
  BY <1>1, <1>2, <1>12, StateFields

Idle(status) == status \in {"dead", "suspended"}

(* A coroutine that coroutine.close may close does not run.                *)
LEMMA NotOnStack ==
    ASSUME NEW s \in State, Sound(s), NEW t, t = Last(s.cs).t, NEW u, Idle(auxstatus(s, t, u))
    PROVE  u # t /\ u # Main /\ \A m \in 1 .. Len(s.cs) : s.cs[m].t # u
PROOF
<1>1. u # t
  BY DEF auxstatus, Idle
<1>2. ASSUME NEW m \in 1 .. Len(s.cs), s.cs[m].t = u
      PROVE  FALSE
  <2>1. s.st[u] = "OK" /\ Len(s.ci[u]) > 1
    BY <1>1, <1>2, Waits
  <2>3. Len(s.ci[u]) \in Nat
    BY <1>2, StateFields
  <2> DEFINE g1 == u = t
             g2 == u # t /\ s.st[u] = "YIELD"
             g3 == u # t /\ s.st[u] = "OK" /\ Len(s.ci[u]) > 1
             g4 == u # t /\ s.st[u] = "OK" /\ Len(s.ci[u]) = 1 /\ u \in s.unstarted
  <2>4. auxstatus(s, t, u) = CASE g1 -> "running" [] g2 -> "suspended" [] g3 -> "normal" [] g4 -> "suspended" [] OTHER -> "dead"
    BY DEF auxstatus
  <2>5. ~g1 /\ ~g2 /\ g3 /\ ~g4
    <3> DEFINE l == Len(s.ci[u])
    <3>1. l \in Nat /\ l > 1
      BY <2>1, <2>3
    <3> HIDE DEF l
    <3>2. l # 1
      BY <3>1
    <3>3. s.st[u] = "OK" /\ s.st[u] # "YIELD" /\ Len(s.ci[u]) # 1
      BY <2>1, <3>2 DEF l
    <3> QED
      BY <1>1, <2>1, <3>3
  <2> HIDE DEF g1, g2, g3, g4
  <2>6. auxstatus(s, t, u) = "normal"
    BY <2>4, <2>5
  <2> QED
    BY <2>6 DEF Idle
<1>3. 1 \in 1 .. Len(s.cs) /\ s.cs[1].t = Main
  BY TopFields DEF Sound, Grammar
<1> QED
  BY <1>1, <1>2, <1>3

(* coroutine.close of another coroutine.                                   *)
LEMMA CloseOtherGood ==
    ASSUME NEW s \in State, Good(s), Last(s.cs).f = "execute", NEW t, t = Last(s.cs).t, NEW u \in Threads,
           Idle(auxstatus(s, t, u))
    PROVE  GoodIfAny(lua_closethread(precallC(s, t, "close", u), u, t))
PROOF
<1> DEFINE fn == "close"
           r == precallC(s, t, fn, u)
           e == CalledFrame(s, t, fn, u)
<1>1. Sound(s) /\ u # t /\ u # Main /\ (\A m \in 1 .. Len(s.cs) : s.cs[m].t # u) /\ s.cs \in Seq(Frame) /\ Len(s.cs) \in Nat
  <2>1. Sound(s)
    BY DEF Good
  <2>2. u # t /\ u # Main /\ (\A m \in 1 .. Len(s.cs) : s.cs[m].t # u)
    BY <2>1, NotOnStack
  <2> QED
    BY <2>1, <2>2, StateFields
<1>2. fn \in Library \ {"closeself"} /\ (fn \in {"resume", "wrap", "close"} => u # t /\ u # Main)
  BY <1>1 DEF Library
<1>3. e.t = t /\ Is(e, {"close"}) /\ e.co = u
  BY DEF Is, CalledFrame
<1> HIDE DEF fn
<1>4. r \in State /\ Sound(r) /\ r.cs = Append(s.cs, e) /\ Last(r.cs) = e /\ Len(r.cs) = Len(s.cs) + 1 /\ e \in Frame
  <2> HIDE DEF e, r
  <2>1. s \in State /\ Good(s) /\ Last(s.cs).f = "execute" /\ t = Last(s.cs).t /\ u \in Threads
    OBVIOUS
  <2>2. Precalled(s, r, t, fn, e)
    BY ONLY <1>2, <2>1, PrecallGood DEF r, e
  <2> QED
    BY <2>2 DEF Precalled
<1> HIDE DEF e, r
<1>5. \A m \in 1 .. Len(r.cs) : r.cs[m].t # u
  <2>1. \A m \in 1 .. Len(s.cs) + 1 : r.cs[m] = IF m = Len(s.cs) + 1 THEN e ELSE s.cs[m]
    BY <1>1, <1>4
  <2> QED
    BY <1>1, <1>3, <1>4, <2>1
<1>6. Is(Last(r.cs), {"close"}) /\ Last(r.cs).co = u /\ Last(r.cs).t = t
  BY <1>3, <1>4
<1>7. lua_closethread(r, u, Last(r.cs).t) \in State /\ Good(lua_closethread(r, u, Last(r.cs).t))
  BY <1>1, <1>4, <1>5, <1>6, CloseThreadGood
<1> QED
  BY <1>6, <1>7 DEF GoodIfAny, r, fn

(* A thread closes itself: what it counted that cannot yield is forgotten. *)
LEMMA CloseSelfGood ==
    ASSUME NEW s \in State, Good(s), Last(s.cs).f = "execute", NEW t, t = Last(s.cs).t, t # Main
    PROVE  GoodIfAny(lua_closethread(CFunction0(s, t, "closeself", t), t, t))
PROOF
<1> DEFINE N == Len(s.cs)
           e == [f |-> "C", t |-> t, fn |-> "closeself", co |-> t, at |-> "OK", ci |-> Len(s.ci[t])]
           c == Append(s.cs, e)
           m0 == <<s.n[t][1], 0>>
           s0 == [s EXCEPT !.cs = c]
           s1 == [s0 EXCEPT !.n[t] = m0]
           s2 == [s1 EXCEPT !.ci[t] = <<base_ci>>, !.st[t] = "OK", !.unstarted = @ \ {t}]
<1>1. /\ Sound(s) /\ CountedUp(s, t) /\ s.cs \in Seq(Frame) /\ N \in Nat \ {0} /\ t \in Threads
      /\ s.st[t] = "OK" /\ t \notin s.unstarted
  BY TopFields DEF Good
<1>2. /\ s.n \in [Threads -> Nat \X Nat] /\ s.ci \in [Threads -> Seq(CallInfo)] /\ s.st \in [Threads -> Statuses]
      /\ s.n[t] \in Nat \X Nat /\ Len(s.ci[t]) \in Nat
  BY <1>1, StateFields
<1>3. e \in Frame /\ e.f = "C" /\ e.t = t /\ Is(e, {"closeself"}) /\ e.at = "OK"
  BY <1>1, <1>2 DEF Frame, CFrame, Library, Statuses, Is
<1>4. CFunction0(s, t, "closeself", t) = s0
  BY DEF CFunction0
<1> HIDE DEF e
<1>5. c \in Seq(Frame) /\ Len(c) = N + 1 /\ Last(c) = e
  BY <1>1, <1>3 DEF Last
<1>6. m0 \in Nat \X Nat
  BY <1>2
<1>7. c = Append(s.cs, e) /\ m0 = <<s.n[t][1], 0>>
  OBVIOUS
<1> HIDE DEF c, m0
<1>8. s0 \in State /\ s0.cs = c /\ s0.ci = s.ci /\ s0.tbc = s.tbc /\ s0.st = s.st /\ s0.unstarted = s.unstarted /\ s0.n = s.n
  BY <1>5, SetFields
<1>9. lua_closethread(s0, t, t) = luaE_resetthread(s1, t)
  BY <1>7, <1>8 DEF lua_closethread, getCcalls
<1> HIDE DEF s0
<1>10. /\ s1 \in State /\ s1.cs = c /\ s1.ci = s.ci /\ s1.tbc = s.tbc /\ s1.st = s.st /\ s1.unstarted = s.unstarted
       /\ s1.n = [s.n EXCEPT ![t] = m0]
  <2>1. /\ s1 \in State /\ s1.cs = s0.cs /\ s1.ci = s0.ci /\ s1.tbc = s0.tbc /\ s1.st = s0.st /\ s1.unstarted = s0.unstarted
        /\ s1.n = [s0.n EXCEPT ![t] = m0]
    BY <1>1, <1>6, <1>8, SetFields
  <2> QED
    BY <1>8, <2>1
<1>11. luaE_resetthread(s1, t) = luaD_closeprotected(s2, t, 1, "OK")
  <2>1. s1.st[t] = "OK"
    BY <1>1, <1>10
  <2> QED
    BY <2>1 DEF luaE_resetthread
<1> HIDE DEF s1
<1>12. /\ s2 \in State /\ s2.cs = c /\ s2.ci = [s.ci EXCEPT ![t] = <<base_ci>>] /\ s2.st = s.st
       /\ s2.unstarted = s.unstarted /\ s2.n = s1.n
  <2>1. /\ s2 \in State /\ s2.cs = s1.cs /\ s2.ci = [s1.ci EXCEPT ![t] = <<base_ci>>] /\ s2.st = [s1.st EXCEPT ![t] = "OK"]
        /\ s2.unstarted = s1.unstarted \ {t} /\ s2.n = s1.n
    BY <1>1, <1>10, BaseEntries DEF State, Statuses
  <2>2. [s1.st EXCEPT ![t] = "OK"] = s.st
    BY <1>1, <1>2, <1>10
  <2>3. s1.unstarted \ {t} = s.unstarted
    BY <1>1, <1>10
  <2> QED
    BY <1>10, <2>1, <2>2, <2>3
<1> HIDE DEF s2
<1>13. s2.ci[t] = <<base_ci>> /\ s2.n[t] = m0 /\ \A u \in Threads : u # t => s2.n[u] = s.n[u] /\ s2.ci[u] = s.ci[u]
  BY <1>1, <1>2, <1>6, <1>10, <1>12, BaseEntries
<1>14. Sound(s2)
  <2>1. e.at \in Statuses /\ e.t # Main /\ e.t = Last(s.cs).t
    BY <1>3 DEF Statuses
  <2>2. s2.cs = Append(s.cs, e) /\ s2.ci[e.t] = <<base_ci>> /\ s2.st = s.st /\ s2.unstarted = s.unstarted
    BY <1>3, <1>7, <1>12, <1>13
  <2>3. \A u \in Threads : u # e.t => s2.n[u] = s.n[u] /\ s2.ci[u] = s.ci[u]
    BY <1>3, <1>13
  <2>4. s \in State /\ s2 \in State /\ Sound(s) /\ e \in Frame /\ Is(e, {"closeself"}) /\ Last(s.cs).f = "execute"
    BY <1>1, <1>3, <1>12
  <2> QED
    BY ONLY <2>1, <2>2, <2>3, <2>4, SelfSound
<1>15. CountedUp(s2, t)
  <2> DEFINE c0 == Counted(s.cs, N, t)
  <2>1. c0 \in Nat \X Nat /\ s.n[t] = c0 /\ s.n[t][1] < ERRORCCALLS
    BY <1>1, CountedType DEF CountedUp
  <2>2. ~Counts(e) /\ ClosesSelf(e, t)
    BY <1>3 DEF Counts, ClosesSelf, Resumes, Is
  <2>3. Counted(Append(s.cs, e), N + 1, t) = <<c0[1], 0>>
    <3> HIDE DEF c0
    <3>1. Counted(Append(s.cs, e), N + 1, t) = <<c0[1] + (IF Counts(e) THEN 1 ELSE 0), IF ClosesSelf(e, t) THEN (IF t = Main THEN 1 ELSE 0)
                 ELSE c0[2] + (IF Bars(e, t) THEN 1 ELSE 0)>>
      BY <1>1, <1>3, CountedAppend DEF c0
    <3> QED
      BY <2>1, <2>2, <3>1
  <2> HIDE DEF c0
  <2>4. Counted(s2.cs, Len(s2.cs), t) = m0
    BY <1>5, <1>7, <1>12, <2>1, <2>3
  <2>5. m0[1] < ERRORCCALLS
    BY <1>7, <2>1
  <2> QED
    BY <1>13, <2>4, <2>5 DEF CountedUp
<1>16. luaD_closeprotected(s2, t, 1, "OK") \in State /\ Good(luaD_closeprotected(s2, t, 1, "OK"))
  <2> DEFINE st == "OK"
  <2>1. st \in Statuses /\ 1 \in Nat
    BY DEF Statuses
  <2>2. Last(s2.cs) = e /\ s2.st[t] = "OK" /\ t \notin s2.unstarted
    BY <1>1, <1>5, <1>12
  <2>3. Closes(Last(s2.cs), t, Len(s2.ci[t])) /\ ~Switches(Last(s2.cs))
    BY <1>3, <2>2 DEF Closes, Switches, Is
  <2>4. Switches(Last(s2.cs)) => \A m \in 1 .. Len(s2.cs) : s2.cs[m].t # t
    BY <2>3
  <2> HIDE DEF st
  <2>5. luaD_closeprotected(s2, t, 1, st) \in State /\ Good(luaD_closeprotected(s2, t, 1, st))
    BY <1>1, <1>12, <1>14, <1>15, <2>1, <2>2, <2>3, <2>4, CloseProtectedGood
  <2> QED
    BY <2>5 DEF st
<1> QED
  BY <1>4, <1>9, <1>11, <1>16 DEF GoodIfAny

-----------------------------------------------------------------------------
(* coroutine.resume and the functions of coroutine.wrap. *)

(* A thread that is fit, or that an error ended, is not on the stack.      *)
LEMMA Elsewhere ==
    ASSUME NEW s \in State, Sound(s), NEW t, t = Last(s.cs).t, NEW u, Fit(s, u, t) \/ errorstatus(s.st[u])
    PROVE  u # t /\ u # Main /\ \A m \in 1 .. Len(s.cs) : s.cs[m].t # u
PROOF
<1>1. ASSUME NEW m \in 1 .. Len(s.cs), s.cs[m].t = u
      PROVE  FALSE
  <2>1. s.st[u] = "OK" /\ u \notin s.unstarted
    BY <1>1 DEF Sound, ThreadsRun
  <2> QED
    BY <2>1 DEF Fit, errorstatus
<1>2. /\ 1 \in 1 .. Len(s.cs) /\ s.cs[1].t = Main
      /\ Len(s.cs) \in 1 .. Len(s.cs) /\ s.cs[Len(s.cs)].t = t
  BY TopFields DEF Sound, Grammar
<1> QED
  BY <1>1, <1>2

(* coroutine.resume, and the function of coroutine.wrap.                   *)
LEMMA ResumeOtherGood ==
    ASSUME NEW s \in State, Good(s), Last(s.cs).f = "execute", NEW t, t = Last(s.cs).t, NEW u \in Threads, Fit(s, u, t),
           NEW fn \in {"resume", "wrap"}
    PROVE  GoodIfAny(resume(precallC(s, t, fn, u), u, t))
PROOF
<1> DEFINE r == precallC(s, t, fn, u)
           e == CalledFrame(s, t, fn, u)
<1>0. s \in State /\ Good(s) /\ Last(s.cs).f = "execute" /\ t = Last(s.cs).t /\ u \in Threads
  OBVIOUS
<1>1. Sound(s) /\ u # t /\ u # Main /\ (\A m \in 1 .. Len(s.cs) : s.cs[m].t # u)
  <2>1. Sound(s)
    BY DEF Good
  <2> QED
    BY <2>1, Elsewhere
<1>2. s.cs \in Seq(Frame) /\ Len(s.cs) \in Nat /\ t \in Threads
  BY <1>1, TopFields
<1>3. fn \in Library \ {"closeself"} /\ (fn \in {"resume", "wrap", "close"} => u # t /\ u # Main)
  BY <1>1 DEF Library
<1>4. Precalled(s, r, t, fn, e)
  BY ONLY <1>0, <1>3, PrecallGood
<1>5. e.t = t /\ Resumes(e) /\ e.co = u
  BY DEF Resumes, Is, CalledFrame
<1> HIDE DEF e, r
<1>6. /\ r \in State /\ Sound(r) /\ r.cs = Append(s.cs, e) /\ Last(r.cs) = e /\ Len(r.cs) = Len(s.cs) + 1 /\ e \in Frame
      /\ r.ci[u] = s.ci[u] /\ r.st = s.st /\ r.unstarted = s.unstarted /\ r.n = s.n
      /\ Calls(r.cs, Len(r.cs)) = s.n[t][1] + 1
  BY <1>1, <1>4 DEF Precalled
<1>7. \A m \in 1 .. Len(r.cs) : r.cs[m].t # u
  <2>1. \A m \in 1 .. Len(s.cs) + 1 : r.cs[m] = IF m = Len(s.cs) + 1 THEN e ELSE s.cs[m]
    BY <1>2, <1>6
  <2> QED
    BY <1>1, <1>5, <1>6, <2>1
<1>8. Fit(r, u, t)
  BY <1>6 DEF Fit, getCcalls
<1>9. Resumes(Last(r.cs)) /\ Last(r.cs).co = u /\ Calls(r.cs, Len(r.cs)) = r.n[t][1] + 1
  BY <1>5, <1>6
<1>10. GoodIfAny(resume(r, u, t))
  BY <1>2, <1>6, <1>7, <1>8, <1>9, ResumeGood
<1> QED
  BY <1>10 DEF r

(* The function of coroutine.wrap closes a coroutine that failed.          *)
LEMMA WrapGood ==
    ASSUME NEW s \in State, Good(s), Last(s.cs).f = "execute", NEW t, t = Last(s.cs).t, NEW u \in Threads, errorstatus(s.st[u])
    PROVE  GoodIfAny(FinishC(precallC(s, t, "wrap", u), "OK"))
PROOF
<1> DEFINE fn == "wrap"
           st == "OK"
           r == precallC(s, t, fn, u)
           e == CalledFrame(s, t, fn, u)
<1>0. s \in State /\ Good(s) /\ Last(s.cs).f = "execute" /\ t = Last(s.cs).t /\ u \in Threads
  OBVIOUS
<1>1. Sound(s) /\ u # t /\ u # Main
  <2>1. Sound(s)
    BY DEF Good
  <2> QED
    BY <2>1, Elsewhere
<1>2. fn \in Library \ {"closeself"} /\ (fn \in {"resume", "wrap", "close"} => u # t /\ u # Main)
  BY <1>1 DEF Library
<1>3. e.f = "C" /\ e.fn = "wrap" /\ st \in Statuses
  BY DEF CalledFrame, Statuses
<1> HIDE DEF fn, st
<1>4. Precalled(s, r, t, fn, e)
  BY ONLY <1>0, <1>2, PrecallGood
<1> HIDE DEF e, r
<1>5. GoodIfAny(FinishC(r, st))
  BY <1>3, <1>4, FinishGood DEF Precalled
<1> QED
  BY <1>5 DEF r, fn, st

-----------------------------------------------------------------------------
(* The thread that closed itself ends. *)

(* A thread that closed itself leaves all its C functions.                 *)
LEMMA BaseLevelGood ==
    ASSUME NEW s \in State, Sound(s), Is(Last(s.cs), {"closeself"}), NEW t, t = Last(s.cs).t
    PROVE  GoodIfAny(luaD_throwbaselevel(s, t, Last(s.cs).at))
PROOF
<1> DEFINE cs == s.cs
           N == Len(s.cs)
           st == Last(s.cs).at
           P == Protections(s, t)
           at == Min(P)
           p == cs[at]
           b == cs[at - 1]
           q == [s EXCEPT !.cs = SubSeq(s.cs, 1, at - 1), !.n[t] = p.n]
<1>1. /\ N \in Nat \ {0} /\ Last(cs) = cs[N] /\ t \in Threads /\ s.st[t] = "OK" /\ t \notin s.unstarted /\ ~Is(Last(cs), {"host"})
  BY TopFields DEF Is
<1>2. st \in Statuses /\ t # Main
  <2>1. N # 1
    BY <1>1, TopFields DEF Is
  <2>2. N > 1
    <3> HIDE DEF N
    <3> QED
      BY <1>1, <2>1
  <2>3. Below(Last(cs), cs[N - 1])
    BY <2>2, TopFields
  <2> QED
    BY <2>3 DEF Below, CalledC, Is
<1>3. /\ at \in 2 .. N /\ p.f = "protected" /\ p.t = t /\ (\A j \in at .. N : cs[j].t = t)
      /\ \A j \in 1 .. at - 1 : cs[j].t # t
  <2>1. /\ P \in SUBSET (2 .. N) /\ at \in P
        /\ \A x \in P : cs[x].f = "protected" /\ cs[x].t = t /\ \A j \in x .. N : cs[j].t = t
        /\ t # Main => \A j \in 1 .. at - 1 : cs[j].t # t
    BY <1>1, Protected
  <2> HIDE DEF P, at
  <2> QED
    BY <1>2, <2>1
<1>4. luaD_throwbaselevel(s, t, st) = Land(s, t, at, st)
  BY DEF luaD_throwbaselevel
<1> HIDE DEF P, at
<1>5. Jumped(s, q, at, t)
  BY <1>3, LandFields
<1>6. b.t # t
  <2>1. at - 1 \in 1 .. at - 1
    BY <1>1, <1>3
  <2> QED
    BY <1>3, <2>1
<1>7. NoCallback(s.ci[t])
  <2> SUFFICES ASSUME NEW k \in 1 .. Len(s.ci[t]), s.ci[t][k].fn = "callback"
               PROVE  FALSE
    BY DEF NoCallback
  <2>1. CallbackOf(cs, t, k)
    BY <1>1 DEF Sound, CallbacksRun
  <2>2. PICK m \in 1 .. N : cs[m].t = t /\ Live(cs, m)
    BY <2>1 DEF CallbackOf
  <2>3. N \in m .. N
    BY <1>1
  <2>4. ~ClosesSelf(cs[N], t)
    BY <2>2, <2>3 DEF Live
  <2> QED
    BY <1>1, <2>4 DEF ClosesSelf
<1>8. EntriesOf(s.ci[t], "OK") /\ s.ci[t] \in Seq(CallInfo) /\ Len(s.ci[t]) \in Nat
  BY <1>1, StateFields DEF Sound, Entries
<1>9. p \in Frame /\ b \in Frame /\ ProtectedBy(p, b)
  BY <1>3, <1>5, StateFields DEF Jumped
<1>10. Resuming(p) \/ (Closing(p) /\ p.then.ci = 1 /\ Closes(b, t, 1) /\ Is(b, {"close", "wrap"}))
  <2>1. p.then.what \in {"closing", "resume"}
    BY <1>3, <1>9, FrameFields
  <2>2. CASE p.then.what = "resume"
    BY <1>3, <2>2 DEF Resuming
  <2>3. CASE p.then.what = "closing"
    BY <1>3, <1>6, <1>9, <2>3 DEF Closing, ProtectedBy, Closes, Is
  <2> QED
    BY <2>1, <2>2, <2>3
<1>11. b.f = "C" /\ b.fn \in {"resume", "wrap", "close"}
  BY <1>9, <1>10 DEF Resuming, ProtectedBy, Resumes, Is
<1>12. p.then.what = "closing" => p.then.status \in Statuses /\ p.then.level \in Nat
  BY <1>3, <1>9, FrameFields DEF Closing
<1>13. s \in State /\ Sound(s) /\ at \in 2 .. Len(s.cs) /\ Jumped(s, q, at, t) /\ s.cs[at - 1].t # t /\ \A j \in at .. Len(s.cs) : s.cs[j].t = t
  BY <1>3, <1>5, <1>6
<1>14. Land(s, t, at, st) = CASE p.then.what = "resume" -> precover(q, t, st)
                              [] p.then.what # "resume" /\ st = "OK" -> FinishC(q, p.then.status)
                              [] OTHER -> luaD_closeprotected(Cut(q, t, p.then.ci), t, p.then.level, st)
  BY DEF Land
<1> HIDE DEF st, q
<1>15. Sound(q) /\ Last(q.cs) = b /\ q \in State
  <2>1. q \in State /\ q.ci = s.ci /\ q.st = s.st /\ q.unstarted = s.unstarted /\ q.cs = q.cs /\ q.n = q.n
    BY <1>5 DEF Jumped
  <2>2. \A u \in Threads : u # t => q.ci[u] = s.ci[u] /\ q.st[u] = s.st[u]
    BY <2>1
  <2>3. EntriesOf(q.ci[t], q.st[t]) /\ (q.st[t] = "ERRRUN" \/ NoCallback(q.ci[t]))
    BY <1>1, <1>7, <1>8, <2>1
  <2> QED
    BY ONLY <1>13, <2>1, <2>2, <2>3, LeaveSound
<1>16. ASSUME NEW x \in Statuses
       PROVE  GoodIfAny(FinishC(q, x))
  BY <1>11, <1>15, <1>16, FinishGood
<1>17. CASE Resuming(p)
  <2>1. CASE st = "ERRRUN"
    <3>1. Resuming(s.cs[at]) /\ t = s.cs[at].t
      BY <1>3, <1>17
    <3> QED
      BY <1>4, <1>13, <2>1, <3>1, LandResume DEF st
  <2>2. CASE st # "ERRRUN"
    <3>1. ~errorstatus(st)
      BY <1>2, <2>2 DEF errorstatus, Statuses
    <3>2. precover(q, t, st) = FinishC(q, st)
      BY <3>1 DEF precover
    <3>3. Land(s, t, at, st) = FinishC(q, st)
      BY <1>14, <1>17, <3>2 DEF Resuming
    <3> QED
      BY <1>2, <1>4, <1>16, <3>3 DEF st
  <2> QED
    BY <2>1, <2>2
<1>18. CASE ~Resuming(p) /\ st = "OK"
  <2>1. p.then.what # "resume" /\ p.then.what = "closing"
    BY <1>10, <1>18 DEF Closing
  <2>2. Land(s, t, at, st) = FinishC(q, p.then.status)
    BY <1>14, <1>18, <2>1
  <2> QED
    BY <1>4, <1>12, <1>16, <2>1, <2>2 DEF st
<1>19. CASE ~Resuming(p) /\ st # "OK"
  <2> DEFINE list == SubSeq(s.ci[t], 1, 1)
             r == [q EXCEPT !.ci[t] = list]
             level == p.then.level
  <2>1. p.then.what # "resume" /\ p.then.what = "closing" /\ p.then.ci = 1 /\ Closes(b, t, 1)
    BY <1>10, <1>19 DEF Closing
  <2>2. list \in Seq(CallInfo) /\ Len(list) = 1 /\ list[1] = s.ci[t][1]
    <3> DEFINE h == s.ci[t]
               k == 1
    <3>1. h \in Seq(CallInfo) /\ k \in 0 .. Len(h) /\ k = 1
      BY <1>8 DEF EntriesOf
    <3> HIDE DEF h, k
    <3>2. SubSeq(h, 1, k) \in Seq(CallInfo) /\ Len(SubSeq(h, 1, k)) = k /\ Agree(SubSeq(h, 1, k), h, k)
      BY <3>1, SubSeqOf
    <3> QED
      BY <3>1, <3>2 DEF h, k, Agree
  <2>3. Cut(q, t, p.then.ci) = r
    <3>1. q.ci = s.ci /\ q.ci \in [Threads -> Seq(CallInfo)]
      BY <1>5, StateFields DEF Jumped
    <3> QED
      BY <2>1, <3>1 DEF Cut
  <2> HIDE DEF list
  <2>4. /\ r \in State /\ r.cs = q.cs /\ r.ci = [s.ci EXCEPT ![t] = list] /\ r.st = s.st
        /\ r.unstarted = s.unstarted /\ r.n = q.n
    <3>1. /\ r \in State /\ r.cs = q.cs /\ r.ci = [q.ci EXCEPT ![t] = list] /\ r.st = q.st
          /\ r.unstarted = q.unstarted /\ r.n = q.n
      BY <1>1, <1>15, <2>2, SetFields
    <3> HIDE DEF r
    <3> QED
      BY <1>5, <3>1 DEF Jumped
  <2> HIDE DEF r, level
  <2>5. r.ci[t] = list /\ \A u \in Threads : u # t => r.ci[u] = s.ci[u] /\ r.st[u] = s.st[u]
    BY <1>1, <2>4, StateFields
  <2>6. EntriesOf(list, "OK") /\ NoCallback(list)
    <3>1. NoCallback(list)
      BY <1>7, <1>8, <2>2 DEF NoCallback, EntriesOf
    <3>2. \A i \in 1 .. Len(list) : \A j \in 1 .. i : list[j].fn # "callback"
      BY <2>2, <3>1 DEF NoCallback
    <3> QED
      BY <2>2, <3>1, <3>2 DEF EntriesOf
  <2>7. Sound(r) /\ CountedUp(r, t) /\ Last(r.cs) = b /\ \A m \in 1 .. Len(r.cs) : r.cs[m].t # t
    <3>1. EntriesOf(r.ci[t], r.st[t]) /\ (r.st[t] = "ERRRUN" \/ NoCallback(r.ci[t]))
      BY <1>1, <2>4, <2>5, <2>6
    <3>2. r \in State /\ r.cs = q.cs /\ r.n = q.n /\ r.unstarted = s.unstarted
      BY <2>4
    <3>3. \A u \in Threads : u # t => r.ci[u] = s.ci[u] /\ r.st[u] = s.st[u]
      BY <2>5
    <3> QED
      BY ONLY <1>13, <3>1, <3>2, <3>3, LeaveSound
  <2>8. luaD_closeprotected(r, t, level, st) \in State /\ Good(luaD_closeprotected(r, t, level, st))
    <3>1. Closes(Last(r.cs), t, Len(r.ci[t])) /\ level \in Nat /\ r.st[t] = "OK" /\ t \notin r.unstarted
      BY <1>1, <1>12, <2>1, <2>2, <2>4, <2>5, <2>7 DEF level
    <3>2. Switches(Last(r.cs)) => \A m \in 1 .. Len(r.cs) : r.cs[m].t # t
      BY <2>7
    <3>3. st \in Statuses
      BY <1>2
    <3> QED
      BY <1>1, <2>4, <2>7, <3>1, <3>2, <3>3, CloseProtectedGood
  <2>9. Land(s, t, at, st) = luaD_closeprotected(r, t, level, st)
    BY <1>14, <1>19, <2>1, <2>3 DEF level
  <2> QED
    BY <1>4, <2>8, <2>9 DEF GoodIfAny, st
<1> QED
  BY <1>17, <1>18, <1>19

-----------------------------------------------------------------------------
(* What Lua functions do. *)

(* The entry of the running function changes, or one is added.             *)
LEMMA CallLuaGood ==
    ASSUME NEW s \in State, Good(s), Last(s.cs).f = "execute", NEW t, t = Last(s.cs).t
    PROVE  GoodIfAny(prepCallInfo(s, t, "lua"))
PROOF
<1> DEFINE fn == "lua"
           k == Len(s.ci[t])
           x == Info(fn, Free(s, t))
           list == Append(s.ci[t], x)
           r == [s EXCEPT !.ci[t] = list]
<1>1. Sound(s) /\ CountedUp(s, t)
  BY DEF Good
<1>2. t \in Threads /\ s.ci[t] \in Seq(CallInfo) /\ k \in Nat /\ k >= 2 /\ s.st[t] = "OK"
  BY <1>1, ExecLen, TopFields
<1>3. x \in CallInfo /\ x.fn = "lua" /\ x.ypcall = FALSE
  <2>1. Free(s, t) \in Nat /\ fn \in {"base", "lua", "yield"} \cup Library
    BY <1>2, FreeType
  <2> HIDE DEF fn
  <2>2. x \in CallInfo /\ x.fn = fn /\ x.ypcall = FALSE
    BY <2>1, InfoType
  <2> HIDE DEF x
  <2> QED
    BY <2>2 DEF fn
<1>4. prepCallInfo(s, t, "lua") = r
  BY DEF prepCallInfo
<1> HIDE DEF x
<1>5. list \in Seq(CallInfo) /\ Len(list) = k + 1 /\ list[k + 1] = x /\ \A i \in 1 .. k : list[i] = s.ci[t][i]
  BY <1>2, <1>3
<1> HIDE DEF list
<1>6. \A i \in 1 .. Len(list) : IF i <= k THEN Same(list[i], s.ci[t][i]) ELSE Plain(list[i])
  <2>1. Plain(x)
    BY <1>3 DEF Plain
  <2>2. \A i \in 1 .. k + 1 : IF i <= k THEN i \in 1 .. k ELSE i = k + 1
    BY <1>2
  <2> QED
    BY <1>5, <2>1, <2>2 DEF Same
<1>7. \A m \in 1 .. Len(s.cs) : Switches(s.cs[m]) => s.cs[m].t # t
  BY <1>1, ExecLevel
<1>8. \A m \in 1 .. Len(s.cs) : s.cs[m].t = t /\ Live(s.cs, m) /\ Leveled(s.cs, m) => Level(s.cs[m]) <= Len(list)
  <2> SUFFICES ASSUME NEW m \in 1 .. Len(s.cs), s.cs[m].t = t, Live(s.cs, m), Leveled(s.cs, m)
               PROVE  Level(s.cs[m]) <= Len(list)
    OBVIOUS
  <2>1. Level(s.cs[m]) \in 1 .. k
    BY <1>1 DEF Sound, LevelsIn
  <2> QED
    BY <1>2, <1>5, <2>1
<1>9. r \in State /\ Sound(r) /\ r.cs = s.cs /\ r.n = s.n
  <2>1. Len(list) >= 1 /\ (Len(list) <= Len(s.ci[t]) \/ Len(s.ci[t]) >= 2)
    BY <1>2, <1>5
  <2>2. s \in State /\ Sound(s) /\ t \in Threads /\ s.st[t] = "OK" /\ list \in Seq(CallInfo)
    BY <1>1, <1>2, <1>5
  <2>3. \A i \in 1 .. Len(list) : IF i <= Len(s.ci[t]) THEN Same(list[i], s.ci[t][i]) ELSE Plain(list[i])
    BY <1>6
  <2> QED
    BY ONLY <1>7, <1>8, <2>1, <2>2, <2>3, ListSound
<1> HIDE DEF r
<1> QED
  BY <1>1, <1>4, <1>9 DEF GoodIfAny, Good, CountedUp

(* A metamethod is called through luaD_call.                               *)
LEMMA CallMetamethodGood ==
    ASSUME NEW s \in State, Good(s), Last(s.cs).f = "execute", NEW t, t = Last(s.cs).t
    PROVE  GoodIfAny(ccall(s, t, one))
PROOF
<1>1. Sound(s) /\ CountedUp(s, t)
  BY DEF Good
<1>2. t \in Threads
  BY <1>1, TopFields
<1> DEFINE inc == one
<1>3. inc \in {one, nyci, <<0, 0>>}
  OBVIOUS
<1>4. CalledBy([f |-> "call", t |-> t, inc |-> inc, ci |-> Len(s.ci[t]) + 1], Last(s.cs))
  BY DEF CalledBy
<1> HIDE DEF inc
<1>5. GoodIfAny(ccall(s, t, inc))
  BY <1>1, <1>2, <1>3, <1>4, CcallGood
<1> QED
  BY <1>5 DEF inc

(* Setting a list of variables to be closed leaves the other fields.       *)
LEMMA SetTbc ==
    ASSUME NEW s \in State, NEW t \in Threads, NEW q \in Seq(Nat)
    PROVE  LET r == [s EXCEPT !.tbc[t] = q] IN
           /\ r \in State /\ r.cs = s.cs /\ r.ci = s.ci /\ r.st = s.st /\ r.unstarted = s.unstarted /\ r.n = s.n
PROOF
  BY DEF State

(* Which variables are to be closed counts for nothing.                    *)
LEMMA TbcGood ==
    ASSUME NEW s \in State, Good(s), NEW t \in Threads, NEW q \in Seq(Nat)
    PROVE  LET r == [s EXCEPT !.tbc[t] = q] IN r \in State /\ Good(r) /\ r.cs = s.cs /\ r.ci = s.ci
PROOF
<1> DEFINE r == [s EXCEPT !.tbc[t] = q]
<1>1. r \in State /\ r.cs = s.cs /\ r.ci = s.ci /\ r.st = s.st /\ r.unstarted = s.unstarted /\ r.n = s.n
  BY SetTbc
<1> HIDE DEF r
<1>2. Good(r)
  BY <1>1 DEF Good, Sound, CountedUp
<1> QED
  BY <1>1, <1>2 DEF r

(* A function that returns closes its variables first, or it returns.      *)
LEMMA OpReturnGood ==
    ASSUME NEW s \in State, Good(s), Last(s.cs).f = "execute", NEW t, t = Last(s.cs).t
    PROVE  /\ GoodIfAny(luaF_close([s EXCEPT !.ci[t][Len(s.ci[t])].ret = TRUE], t, TopCi(s, t).func + 1, TRUE))
           /\ GoodIfAny(IF TopCi(s, t).fresh THEN EndExecute(poscall(s, t, Len(s.ci[t]))) ELSE poscall(s, t, Len(s.ci[t])))
PROOF
<1> DEFINE k == Len(s.ci[t])
           y == s.ci[t][k]
           x == [y EXCEPT !.ret = TRUE]
           list == [s.ci[t] EXCEPT ![k] = x]
           r == [s EXCEPT !.ci[t] = list]
           level == TopCi(s, t).func + 1
<1>1. Sound(s) /\ CountedUp(s, t)
  BY DEF Good
<1>2. t \in Threads /\ s.ci[t] \in Seq(CallInfo) /\ k \in Nat /\ k >= 2 /\ s.st[t] = "OK"
  BY <1>1, ExecLen, TopFields
<1>3. k \in 1 .. k /\ y \in CallInfo /\ s.ci \in [Threads -> Seq(CallInfo)] /\ TopCi(s, t) = y
  <2>1. k \in 1 .. k
    BY <1>2
  <2> QED
    BY <1>2, <2>1, ElementOfSeq, StateFields DEF TopCi, Last
<1>4. level \in Nat
  BY <1>3 DEF CallInfo
<1>5. [s EXCEPT !.ci[t][Len(s.ci[t])].ret = TRUE] = r
  BY <1>2, <1>3
<1>6. x \in CallInfo /\ Same(x, y)
  BY <1>3 DEF CallInfo, Same
<1> HIDE DEF x, level
<1>7. list \in Seq(CallInfo) /\ Len(list) = k /\ \A i \in 1 .. k : list[i] = IF i = k THEN x ELSE s.ci[t][i]
  BY <1>2, <1>3, <1>6
<1> HIDE DEF list
<1>8. \A i \in 1 .. Len(list) : IF i <= k THEN Same(list[i], s.ci[t][i]) ELSE Plain(list[i])
  BY <1>2, <1>6, <1>7 DEF Same
<1>9. \A m \in 1 .. Len(s.cs) : Switches(s.cs[m]) => s.cs[m].t # t
  BY <1>1, ExecLevel
<1>10. \A m \in 1 .. Len(s.cs) : s.cs[m].t = t /\ Live(s.cs, m) /\ Leveled(s.cs, m) => Level(s.cs[m]) <= Len(list)
  <2> SUFFICES ASSUME NEW m \in 1 .. Len(s.cs), s.cs[m].t = t, Live(s.cs, m), Leveled(s.cs, m)
               PROVE  Level(s.cs[m]) <= Len(list)
    OBVIOUS
  <2>1. Level(s.cs[m]) \in 1 .. k
    BY <1>1 DEF Sound, LevelsIn
  <2> QED
    BY <1>2, <1>7, <2>1
<1>11. r \in State /\ Sound(r) /\ r.cs = s.cs /\ r.n = s.n
  <2>1. Len(list) >= 1 /\ (Len(list) <= Len(s.ci[t]) \/ Len(s.ci[t]) >= 2)
    BY <1>2, <1>7
  <2>2. s \in State /\ Sound(s) /\ t \in Threads /\ s.st[t] = "OK" /\ list \in Seq(CallInfo)
    BY <1>1, <1>2, <1>7
  <2>3. \A i \in 1 .. Len(list) : IF i <= Len(s.ci[t]) THEN Same(list[i], s.ci[t][i]) ELSE Plain(list[i])
    BY <1>8
  <2> QED
    BY ONLY <1>9, <1>10, <2>1, <2>2, <2>3, ListSound
<1> HIDE DEF r
<1>12. GoodIfAny(luaF_close(r, t, level, TRUE))
  <2> DEFINE yy == TRUE
  <2>1. yy \in BOOLEAN /\ Last(r.cs).t = t /\ Last(r.cs).f = "execute" /\ CountedUp(r, t)
    BY <1>1, <1>11 DEF CountedUp
  <2> HIDE DEF yy
  <2>2. luaF_close(r, t, level, yy) \in State /\ Good(luaF_close(r, t, level, yy))
    BY <1>2, <1>4, <1>11, <2>1, CloseGood
  <2> QED
    BY <2>2 DEF yy, GoodIfAny
<1>13. CASE TopCi(s, t).fresh
  BY <1>5, <1>12, <1>13, ReturnGood DEF level
<1>14. CASE ~TopCi(s, t).fresh
  <2>1. LET z == poscall(s, t, Len(s.ci[t])) IN z \in State /\ Good(z)
    BY <1>14, PoscallGood
  <2> QED
    BY <1>5, <1>12, <1>14, <2>1 DEF level, GoodIfAny
<1> QED
  BY <1>13, <1>14

(* luaF_close calls the next closing function, or ends.                    *)
LEMMA CloseNextGood ==
    ASSUME NEW s \in State, Good(s), Last(s.cs).f = "close", NEW t, t = Last(s.cs).t
    PROVE  /\ s.tbc[t] # <<>> => GoodIfAny(ccall([s EXCEPT !.tbc[t] = Front(@)], t, IF Last(s.cs).yy THEN one ELSE nyci))
           /\ GoodIfAny(EndClose(s))
PROOF
<1>1. GoodIfAny(EndClose(s))
  BY EndCloseGood
<1>2. ASSUME s.tbc[t] # <<>>
      PROVE  GoodIfAny(ccall([s EXCEPT !.tbc[t] = Front(@)], t, IF Last(s.cs).yy THEN one ELSE nyci))
  <2> DEFINE q == Front(s.tbc[t])
             r == [s EXCEPT !.tbc[t] = q]
             inc == IF Last(s.cs).yy THEN one ELSE nyci
  <2>1. t \in Threads /\ s.tbc[t] \in Seq(Nat)
    BY TopFields, StateFields DEF Good
  <2>2. q \in Seq(Nat)
    <3> DEFINE h == s.tbc[t]
               i == Len(h) - 1
    <3>1. h \in Seq(Nat) /\ h # <<>>
      BY <1>2, <2>1
    <3> HIDE DEF h
    <3>2. i \in 0 .. Len(h)
      BY <3>1
    <3>3. SubSeq(h, 1, i) \in Seq(Nat)
      BY <3>1, <3>2, SubSeqOf
    <3> QED
      BY <3>3 DEF Front, h
  <2>3. inc \in {one, nyci, <<0, 0>>}
    OBVIOUS
  <2>4. inc = IF Last(s.cs).yy THEN one ELSE nyci
    OBVIOUS
  <2> HIDE DEF q, inc
  <2>5. r \in State /\ Good(r) /\ r.cs = s.cs /\ r.ci = s.ci
    BY <2>1, <2>2, TbcGood
  <2> HIDE DEF r
  <2>6. Sound(r) /\ CountedUp(r, t) /\ Last(r.cs).t = t
    BY <2>5 DEF Good
  <2>7. CalledBy([f |-> "call", t |-> t, inc |-> inc, ci |-> Len(r.ci[t]) + 1], Last(r.cs))
    BY <2>4, <2>5 DEF CalledBy
  <2>8. GoodIfAny(ccall(r, t, inc))
    BY <2>1, <2>3, <2>5, <2>6, <2>7, CcallGood
  <2> QED
    BY <2>8 DEF r, q, inc
<1> QED
  BY <1>1, <1>2

(* The coroutine that is unrolled has no C function on the stack.          *)
LEMMA UnrollLevel ==
    ASSUME NEW s \in State, Sound(s), Last(s.cs).f = "unroll", NEW t, t = Last(s.cs).t
    PROVE  /\ \A m \in 1 .. Len(s.cs) : s.cs[m].t = t => ~Leveled(s.cs, m) /\ ~Switches(s.cs[m])
           /\ Len(s.cs) > 1 /\ Resuming(s.cs[Len(s.cs) - 1])
PROOF
<1> DEFINE cs == s.cs
           N == Len(s.cs)
<1>1. N \in Nat \ {0} /\ Last(cs) = cs[N] /\ cs \in Seq(Frame)
  BY TopFields
<1>2. N # 1
  BY TopFields DEF Is
<1>3. N > 1 /\ N - 1 \in 1 .. N /\ N \in 2 .. N
  <2> HIDE DEF N
  <2> QED
    BY <1>1, <1>2
<1>4. Resuming(cs[N - 1]) /\ cs[N - 1].t = t
  <2>1. Below(cs[N], cs[N - 1])
    BY <1>3 DEF Sound, Grammar
  <2> QED
    BY <1>1, <2>1 DEF Below
<1>5. N - 1 # 1
  BY <1>4 DEF Sound, Grammar, Is, Resuming
<1>6. N - 2 \in 1 .. N /\ N - 1 \in 2 .. N /\ (N - 1) - 1 = N - 2
  <2> HIDE DEF N
  <2> QED
    BY <1>1, <1>3, <1>5
<1>7. Below(cs[N - 1], cs[N - 2])
  BY <1>6 DEF Sound, Grammar
<1>8. Switches(cs[N - 2])
  BY <1>4, <1>7 DEF Below, Resuming, ProtectedBy, Resumes, Switches, Is
<1>9. \A i \in 1 .. N - 2, j \in (N - 2) + 1 .. N : cs[i].t # cs[j].t
  BY <1>6, <1>8 DEF Sound, Apart
<1>10. ASSUME NEW m \in 1 .. N, cs[m].t = t
       PROVE  ~Leveled(cs, m) /\ ~Switches(cs[m])
  <2>1. N \in (N - 2) + 1 .. N
    BY <1>1
  <2>2. m \notin 1 .. N - 2
    BY <1>1, <1>9, <1>10, <2>1
  <2>3. m = N \/ m = N - 1
    <3> HIDE DEF N
    <3> QED
      BY <1>1, <2>2
  <2>4. CASE m = N
    BY <1>1, <2>4 DEF Leveled, Switches, Is, Closing, Again
  <2>5. CASE m = N - 1
    BY <1>4, <2>5 DEF Leveled, Switches, Is, Closing, Again, Resuming
  <2> QED
    BY <2>3, <2>4, <2>5
<1> QED
  BY <1>3, <1>4, <1>10

(* Each turn of the loop of unroll.                                        *)
LEMMA UnrollStepGood ==
    ASSUME NEW s \in State, Good(s), Last(s.cs).f = "unroll", NEW t, t = Last(s.cs).t
    PROVE  /\ GoodIfAny(EndProtected(Popped(s), "OK"))
           /\ Len(s.ci[t]) # 1 => GoodIfAny([s EXCEPT !.cs = Append(@, [f |-> "execute", t |-> t])])
           /\ GoodIfAny(luaF_close(s, t, TopCi(s, t).func + 1, TRUE))
           /\ Len(s.ci[t]) # 1 => GoodIfAny(poscall(s, t, Len(s.ci[t])))
PROOF
<1> DEFINE k == Len(s.ci[t])
           N == Len(s.cs)
<1>1. Sound(s) /\ CountedUp(s, t) /\ t \in Threads /\ s.st[t] = "OK" /\ N \in Nat \ {0}
  BY TopFields DEF Good
<1>2. s.ci[t] \in Seq(CallInfo) /\ k \in Nat /\ k >= 1 /\ s.ci \in [Threads -> Seq(CallInfo)]
  BY <1>1, StateFields DEF Sound, Entries, EntriesOf
<1>3. /\ \A m \in 1 .. N : s.cs[m].t = t => ~Leveled(s.cs, m) /\ ~Switches(s.cs[m])
      /\ N > 1 /\ Resuming(s.cs[N - 1])
  BY <1>1, UnrollLevel
<1>4. GoodIfAny(EndProtected(Popped(s), "OK"))
  <2> DEFINE r == Popped(s)
             st == "OK"
  <2>1. r \in State /\ Sound(r) /\ Last(r.cs) = s.cs[N - 1]
    BY <1>1, PopSound
  <2>2. Last(r.cs).f = "protected" /\ st \in Statuses
    BY <1>3, <2>1 DEF Resuming, Statuses
  <2> HIDE DEF r, st
  <2>3. GoodIfAny(EndProtected(r, st))
    BY <2>1, <2>2, EndProtectedGood
  <2> QED
    BY <2>3 DEF r, st
<1>5. ASSUME k # 1
      PROVE  GoodIfAny([s EXCEPT !.cs = Append(@, [f |-> "execute", t |-> t])])
  <2> DEFINE f == "execute"
             r == [s EXCEPT !.cs = Append(@, [f |-> f, t |-> t])]
  <2>1. f \in {"execute", "unroll"} /\ IF f = "unroll" THEN Resuming(Last(s.cs))
           ELSE Last(s.cs).f = "call" \/ (Last(s.cs).f = "unroll" /\ Len(s.ci[t]) >= 2)
    <3>1. k \in Nat /\ k >= 1 /\ k # 1
      BY <1>2, <1>5
    <3> HIDE DEF k
    <3>2. k >= 2
      BY ONLY <3>1
    <3> QED
      BY <3>2 DEF k
  <2> HIDE DEF f
  <2>2. r \in State /\ Good(r)
    BY <1>1, <2>1, RunGood
  <2> QED
    BY <2>2 DEF f, GoodIfAny
<1>6. GoodIfAny(luaF_close(s, t, TopCi(s, t).func + 1, TRUE))
  <2> DEFINE yy == TRUE
             level == TopCi(s, t).func + 1
  <2>1. level \in Nat /\ yy \in BOOLEAN
    BY <1>1, <1>2, FreeType DEF CallInfo
  <2> HIDE DEF yy, level
  <2>2. luaF_close(s, t, level, yy) \in State /\ Good(luaF_close(s, t, level, yy))
    BY <1>1, <2>1, CloseGood
  <2> QED
    BY <2>2 DEF yy, level, GoodIfAny
<1>7. ASSUME k # 1
      PROVE  GoodIfAny(poscall(s, t, Len(s.ci[t])))
  <2> DEFINE list == SubSeq(s.ci[t], 1, k - 1)
             r == [s EXCEPT !.ci[t] = list]
  <2>1. poscall(s, t, Len(s.ci[t])) = r
    BY DEF poscall
  <2>2. list \in Seq(CallInfo) /\ Len(list) = k - 1 /\ \A i \in 1 .. k - 1 : list[i] = s.ci[t][i]
    <3> DEFINE h == s.ci[t]
               i == k - 1
    <3>1. h \in Seq(CallInfo) /\ i \in 0 .. Len(h)
      BY <1>2
    <3> HIDE DEF h, i
    <3>2. SubSeq(h, 1, i) \in Seq(CallInfo) /\ Len(SubSeq(h, 1, i)) = i /\ Agree(SubSeq(h, 1, i), h, i)
      BY <3>1, SubSeqOf
    <3> QED
      BY <3>2 DEF h, i, Agree
  <2> HIDE DEF list
  <2>3. \A i \in 1 .. Len(list) : IF i <= Len(s.ci[t]) THEN Same(list[i], s.ci[t][i]) ELSE Plain(list[i])
    BY <1>2, <2>2 DEF Same
  <2>4. Len(list) >= 1 /\ (Len(list) <= Len(s.ci[t]) \/ Len(s.ci[t]) >= 2)
    <3> DEFINE l == Len(list)
    <3>1. k \in Nat /\ k >= 1 /\ k # 1 /\ l = k - 1
      BY <1>2, <1>7, <2>2
    <3>2. k = Len(s.ci[t])
      OBVIOUS
    <3> HIDE DEF k, l
    <3>3. l >= 1 /\ k >= 2
      BY ONLY <3>1
    <3> QED
      BY ONLY <3>2, <3>3 DEF l
  <2>5. \A m \in 1 .. Len(s.cs) : Switches(s.cs[m]) => s.cs[m].t # t
    BY <1>3
  <2>6. \A m \in 1 .. Len(s.cs) : s.cs[m].t = t /\ Live(s.cs, m) /\ Leveled(s.cs, m) => Level(s.cs[m]) <= Len(list)
    BY <1>3
  <2>7. r \in State /\ Sound(r) /\ r.cs = s.cs /\ r.n = s.n
    <3>1. s \in State /\ Sound(s) /\ t \in Threads /\ s.st[t] = "OK" /\ list \in Seq(CallInfo)
      BY <1>1, <2>2
    <3> QED
      BY ONLY <2>3, <2>4, <2>5, <2>6, <3>1, ListSound
  <2> HIDE DEF r
  <2> QED
    BY <1>1, <2>1, <2>7 DEF GoodIfAny, Good, CountedUp
<1> QED
  BY <1>4, <1>5, <1>6, <1>7

(* pcall, dofile and functions that call back.                             *)
LEMMA LibraryGood ==
    ASSUME NEW s \in State, Good(s), Last(s.cs).f = "execute", NEW t, t = Last(s.cs).t
    PROVE  /\ GoodIfAny(lua_pcallk(precallC(s, t, "pcall", t), t))
           /\ GoodIfAny(lua_callk(precallC(s, t, "dofile", t), t))
           /\ GoodIfAny(lua_call(precallC(s, t, "callback", t), t))
PROOF
<1>0. s \in State /\ Good(s) /\ Last(s.cs).f = "execute" /\ t = Last(s.cs).t /\ t \in Threads
  BY TopFields DEF Good
<1>1. ASSUME NEW fn \in {"pcall", "dofile", "callback"}
      PROVE  LET r == precallC(s, t, fn, t)
             IN r \in State /\ Sound(r) /\ CountedUp(r, t) /\ t = Last(r.cs).t /\ Is(Last(r.cs), {fn})
  <2> DEFINE r == precallC(s, t, fn, t)
             e == CalledFrame(s, t, fn, t)
  <2>1. fn \in Library \ {"closeself"} /\ (fn \in {"resume", "wrap", "close"} => t # t /\ t # Main) /\ fn \notin {"resume", "wrap"}
    BY <1>1 DEF Library
  <2>2. Precalled(s, r, t, fn, e)
    BY ONLY <1>0, <2>1, PrecallGood
  <2>3. e.t = t /\ Is(e, {fn})
    BY DEF Is, CalledFrame
  <2> HIDE DEF r, e
  <2>4. r \in State /\ Sound(r) /\ CountedUp(r, t) /\ t = Last(r.cs).t /\ Is(Last(r.cs), {fn})
    BY <2>1, <2>2, <2>3 DEF Precalled
  <2> QED
    BY <2>4 DEF r
<1>2. GoodIfAny(lua_pcallk(precallC(s, t, "pcall", t), t))
  <2> DEFINE r == precallC(s, t, "pcall", t)
  <2>1. r \in State /\ Sound(r) /\ CountedUp(r, t) /\ t = Last(r.cs).t /\ Is(Last(r.cs), {"pcall"})
    BY <1>1
  <2> HIDE DEF r
  <2>2. GoodIfAny(lua_pcallk(r, t))
    BY <2>1, PcallkGood
  <2> QED
    BY <2>2 DEF r
<1>3. GoodIfAny(lua_callk(precallC(s, t, "dofile", t), t))
  <2> DEFINE r == precallC(s, t, "dofile", t)
  <2>1. r \in State /\ Sound(r) /\ CountedUp(r, t) /\ t = Last(r.cs).t /\ Is(Last(r.cs), {"dofile"})
    BY <1>1
  <2> HIDE DEF r
  <2>2. GoodIfAny(lua_callk(r, t))
    BY <2>1, CallkGood
  <2> QED
    BY <2>2 DEF r
<1>4. GoodIfAny(lua_call(precallC(s, t, "callback", t), t))
  <2> DEFINE r == precallC(s, t, "callback", t)
  <2>1. r \in State /\ Sound(r) /\ CountedUp(r, t) /\ t = Last(r.cs).t /\ Is(Last(r.cs), {"callback"})
    BY <1>1
  <2> HIDE DEF r
  <2>2. GoodIfAny(lua_call(r, t))
    BY <2>1, LuaCallGood
  <2> QED
    BY <2>2 DEF r
<1> QED
  BY <1>2, <1>3, <1>4

-----------------------------------------------------------------------------
(* The invariant. *)

(* A state that keeps the invariant is one that may be next.               *)
LEMMA BecomesInv ==
    ASSUME NEW s, GoodIfAny(s), Becomes(s)
    PROVE  CallsInv'
PROOF
<1>1. s \in State
  BY DEF GoodIfAny
<1>2. s = [cs |-> s.cs, ci |-> s.ci, tbc |-> s.tbc, st |-> s.st, unstarted |-> s.unstarted, n |-> s.n]
  BY <1>1 DEF State
<1>3. Now' = s /\ cstack' = s.cs
  BY <1>2 DEF Now, Becomes
<1>4. Now' \in State /\ (cstack' # <<>> => Good(Now'))
  BY <1>3 DEF GoodIfAny
<1> QED
  BY <1>4 DEF CallsInv

(* What the invariant says of the thread that runs.                        *)
LEMMA Running ==
    ASSUME CallsInv, cstack # <<>>
    PROVE  /\ Now \in State /\ Good(Now) /\ Sound(Now) /\ L = Last(Now.cs).t /\ L \in Threads /\ Caller(Now) = Last(Now.cs)
           /\ Now.cs = cstack /\ Now.ci = callinfo /\ Now.tbc = tbcs /\ Now.st = states /\ Now.unstarted = unstarted
           /\ Now.n = nCcalls
PROOF
<1>1. Now \in State /\ Good(Now) /\ Sound(Now)
  BY DEF CallsInv, Good
<1>2. Caller(Now) = Last(Now.cs) /\ L = Last(Now.cs).t
  BY DEF Caller, L
<1>3. L \in Threads
  BY <1>1, <1>2, TopFields
<1> QED
  BY <1>1, <1>2, <1>3 DEF Now

(* What a Lua function does.                                               *)
LEMMA ChoiceInv ==
    ASSUME CallsInv,
           \/ CallLua \/ CallMetamethod \/ pcall \/ dofile \/ CallBack \/ luaF_newtbcupval \/ luaB_error
           \/ lua_yieldk
           \/ \E u \in Threads : luaB_coresume(u) \/ luaB_auxwrap(u) \/ luaB_close(u)
    PROVE  CallsInv'
PROOF
<1>1. cstack # <<>> /\ Caller(Now).f = "execute"
  BY DEF CallLua, CallMetamethod, pcall, dofile, CallBack, luaF_newtbcupval, luaB_error, lua_yieldk,
         luaB_coresume, luaB_auxwrap, luaB_close, Chooses, InLua
<1>2. /\ Now \in State /\ Good(Now) /\ Sound(Now) /\ Last(Now.cs).f = "execute" /\ L = Last(Now.cs).t /\ L \in Threads
      /\ Now.st = states
  BY <1>1, Running
<1>3. CASE CallLua
  <2>1. GoodIfAny(prepCallInfo(Now, L, "lua"))
    BY <1>2, CallLuaGood
  <2> QED
    BY <1>3, <2>1, BecomesInv DEF CallLua
<1>4. CASE CallMetamethod
  <2>1. GoodIfAny(ccall(Now, L, one))
    BY <1>2, CallMetamethodGood
  <2> QED
    BY <1>4, <2>1, BecomesInv DEF CallMetamethod
<1>5. CASE pcall
  <2>1. GoodIfAny(lua_pcallk(precallC(Now, L, "pcall", L), L))
    BY <1>2, LibraryGood
  <2> QED
    BY <1>5, <2>1, BecomesInv DEF pcall
<1>6. CASE dofile
  <2>1. GoodIfAny(lua_callk(precallC(Now, L, "dofile", L), L))
    BY <1>2, LibraryGood
  <2> QED
    BY <1>6, <2>1, BecomesInv DEF dofile
<1>7. CASE CallBack
  <2>1. GoodIfAny(lua_call(precallC(Now, L, "callback", L), L))
    BY <1>2, LibraryGood
  <2> QED
    BY <1>7, <2>1, BecomesInv DEF CallBack
<1>8. CASE luaF_newtbcupval
  <2> DEFINE s == Now
             q == Append(s.tbc[L], Free(s, L))
             r == [s EXCEPT !.tbc[L] = q]
  <2>1. Len(s.ci[L]) >= 1 /\ s.tbc[L] \in Seq(Nat)
    BY <1>2, StateFields DEF Sound, Entries, EntriesOf
  <2>2. q \in Seq(Nat)
    BY <1>2, <2>1, FreeType
  <2> HIDE DEF q, s
  <2>3. r \in State /\ Good(r)
    BY <1>2, <2>2, TbcGood DEF s
  <2>4. GoodIfAny(r)
    BY <2>3 DEF GoodIfAny
  <2>5. Becomes(r)
    BY <1>8 DEF luaF_newtbcupval, s, q
  <2> HIDE DEF r
  <2> QED
    BY <2>4, <2>5, BecomesInv
<1>9. CASE luaB_error
  <2>1. ~Is(Last(Now.cs), {"host", "closeself"})
    BY <1>2 DEF Is
  <2>2. GoodIfAny(luaD_throw(Now, L, "ERRRUN"))
    BY <1>2, <2>1, ThrowGood
  <2> QED
    BY <1>9, <2>2, BecomesInv DEF luaB_error
<1>10. CASE lua_yieldk
  <2> DEFINE r == IF yieldable(Now, L) THEN luaD_throw([prepCallInfo(Now, L, "yield") EXCEPT !.st[L] = "YIELD"], L, "YIELD")
                  ELSE luaD_throw(Now, L, "ERRRUN")
  <2>1. GoodIfAny(r)
    BY <1>2, YieldGood
  <2>2. Becomes(r)
    BY <1>10 DEF lua_yieldk
  <2> HIDE DEF r
  <2> QED
    BY <2>1, <2>2, BecomesInv
<1>11. ASSUME NEW u \in Threads, luaB_coresume(u)
       PROVE  CallsInv'
  <2>1. CASE Fit(Now, u, L)
    <3> DEFINE fn == "resume"
    <3>1. fn \in {"resume", "wrap"}
      OBVIOUS
    <3> HIDE DEF fn
    <3>2. GoodIfAny(resume(precallC(Now, L, fn, u), u, L))
      BY <1>2, <2>1, <3>1, ResumeOtherGood
    <3>3. Becomes(resume(precallC(Now, L, fn, u), u, L))
      BY <1>11, <2>1 DEF luaB_coresume, fn
    <3> QED
      BY <3>2, <3>3, BecomesInv
  <2>2. CASE ~Fit(Now, u, L)
    <3>1. GoodIfAny(Now)
      BY <1>2 DEF GoodIfAny
    <3>2. Becomes(Now)
      BY <1>11, <2>2 DEF luaB_coresume
    <3> QED
      BY <3>1, <3>2, BecomesInv
  <2> QED
    BY <2>1, <2>2
<1>12. ASSUME NEW u \in Threads, luaB_auxwrap(u)
       PROVE  CallsInv'
  <2>1. CASE Fit(Now, u, L)
    <3> DEFINE fn == "wrap"
    <3>1. fn \in {"resume", "wrap"}
      OBVIOUS
    <3> HIDE DEF fn
    <3>2. GoodIfAny(resume(precallC(Now, L, fn, u), u, L))
      BY <1>2, <2>1, <3>1, ResumeOtherGood
    <3>3. Becomes(resume(precallC(Now, L, fn, u), u, L))
      BY <1>12, <2>1 DEF luaB_auxwrap, fn
    <3> QED
      BY <3>2, <3>3, BecomesInv
  <2>2. CASE ~Fit(Now, u, L) /\ errorstatus(states[u])
    <3>1. GoodIfAny(FinishC(precallC(Now, L, "wrap", u), "OK"))
      BY <1>2, <2>2, WrapGood
    <3>2. Becomes(FinishC(precallC(Now, L, "wrap", u), "OK"))
      BY <1>12, <2>2 DEF luaB_auxwrap
    <3> QED
      BY <3>1, <3>2, BecomesInv
  <2>3. CASE ~Fit(Now, u, L) /\ ~errorstatus(states[u])
    <3>1. ~Is(Last(Now.cs), {"host", "closeself"})
      BY <1>2 DEF Is
    <3>2. GoodIfAny(luaD_throw(Now, L, "ERRRUN"))
      BY <1>2, <3>1, ThrowGood
    <3>3. Becomes(luaD_throw(Now, L, "ERRRUN"))
      BY <1>12, <2>3 DEF luaB_auxwrap
    <3> QED
      BY <3>2, <3>3, BecomesInv
  <2> QED
    BY <2>1, <2>2, <2>3
<1>13. ASSUME NEW u \in Threads, luaB_close(u)
       PROVE  CallsInv'
  <2> DEFINE x == auxstatus(Now, L, u)
             ra == lua_closethread(precallC(Now, L, "close", u), u, L)
             rb == lua_closethread(CFunction0(Now, L, "closeself", L), L, L)
             rc == luaD_throw(Now, L, "ERRRUN")
             r == CASE x \in {"dead", "suspended"} -> ra [] x = "running" /\ u # Main -> rb [] OTHER -> rc
  <2>1. Becomes(r)
    BY <1>13 DEF luaB_close
  <2>2. Idle(x) => GoodIfAny(ra)
    BY <1>2, CloseOtherGood
  <2>3. x = "running" /\ ~Idle(x) => u = L
    BY DEF auxstatus, Idle
  <2>4. L # Main => GoodIfAny(rb)
    BY <1>2, CloseSelfGood
  <2>5. GoodIfAny(rc)
    <3>1. ~Is(Last(Now.cs), {"host", "closeself"})
      BY <1>2 DEF Is
    <3> QED
      BY <1>2, <3>1, ThrowGood
  <2> HIDE DEF x, ra, rb, rc
  <2>6. CASE x \in {"dead", "suspended"}
    <3>1. r = ra
      BY <2>6
    <3>2. GoodIfAny(r)
      BY <2>2, <2>6, <3>1 DEF Idle
    <3> HIDE DEF r
    <3> QED
      BY <2>1, <3>2, BecomesInv
  <2>7. CASE x \notin {"dead", "suspended"} /\ x = "running" /\ u # Main
    <3>1. r = rb
      BY <2>7
    <3>2. GoodIfAny(r)
      BY <2>3, <2>4, <2>7, <3>1 DEF Idle
    <3> HIDE DEF r
    <3> QED
      BY <2>1, <3>2, BecomesInv
  <2>8. CASE x \notin {"dead", "suspended"} /\ ~(x = "running" /\ u # Main)
    <3>1. r = rc
      BY <2>8
    <3>2. GoodIfAny(r)
      BY <2>5, <3>1
    <3> HIDE DEF r
    <3> QED
      BY <2>1, <3>2, BecomesInv
  <2> QED
    BY <2>6, <2>7, <2>8
<1> QED
  BY <1>3, <1>4, <1>5, <1>6, <1>7, <1>8, <1>9, <1>10, <1>11, <1>12, <1>13

(* What happens by itself: returns, closing functions, what wrap and       *)
(* coroutine.close do next, and unroll.                                    *)
LEMMA StepInv ==
    ASSUME CallsInv, OpReturn \/ CloseNext \/ WrapRaises \/ ThrowBaseLevel \/ unroll
    PROVE  CallsInv'
PROOF
<1>1. cstack # <<>>
  BY DEF OpReturn, CloseNext, WrapRaises, ThrowBaseLevel, unroll
<1>2. /\ Now \in State /\ Good(Now) /\ Sound(Now) /\ L = Last(Now.cs).t /\ L \in Threads /\ Caller(Now) = Last(Now.cs)
      /\ Now.ci = callinfo /\ Now.tbc = tbcs
  BY <1>1, Running
<1>3. CASE OpReturn
  <2> DEFINE top == TopCi(Now, L)
             pending == {l \in ToSet(tbcs[L]) : l > top.func}
             ra == luaF_close([Now EXCEPT !.ci[L][Len(callinfo[L])].ret = TRUE], L, top.func + 1, TRUE)
             rb == IF top.fresh THEN EndExecute(poscall(Now, L, Len(callinfo[L]))) ELSE poscall(Now, L, Len(callinfo[L]))
  <2>1. Last(Now.cs).f = "execute" /\ (IF pending # {} THEN Becomes(ra) ELSE Becomes(rb))
    BY <1>2, <1>3 DEF OpReturn
  <2>2. /\ GoodIfAny(luaF_close([Now EXCEPT !.ci[L][Len(Now.ci[L])].ret = TRUE], L, TopCi(Now, L).func + 1, TRUE))
        /\ GoodIfAny(IF TopCi(Now, L).fresh THEN EndExecute(poscall(Now, L, Len(Now.ci[L]))) ELSE poscall(Now, L, Len(Now.ci[L])))
    BY <1>2, <2>1, OpReturnGood
  <2>3. GoodIfAny(ra) /\ GoodIfAny(rb)
    BY <1>2, <2>2
  <2> HIDE DEF pending, ra, rb
  <2> QED
    BY <2>1, <2>3, BecomesInv
<1>4. CASE CloseNext
  <2> DEFINE c == Caller(Now)
             ra == ccall([Now EXCEPT !.tbc[L] = Front(@)], L, IF c.yy THEN one ELSE nyci)
             rb == EndClose(Now)
  <2>1. Last(Now.cs).f = "close"
    BY <1>2, <1>4 DEF CloseNext
  <2>2. IF tbcs[L] # <<>> /\ Last(tbcs[L]) >= c.level THEN Becomes(ra) ELSE Becomes(rb)
    BY <1>4 DEF CloseNext
  <2>3. (tbcs[L] # <<>> => GoodIfAny(ra)) /\ GoodIfAny(rb)
    BY <1>2, <2>1, CloseNextGood
  <2> HIDE DEF ra, rb
  <2> QED
    BY <2>2, <2>3, BecomesInv
<1>5. CASE WrapRaises
  <2>1. ~Is(Last(Now.cs), {"host", "closeself"})
    BY <1>2, <1>5 DEF WrapRaises, Is
  <2>2. GoodIfAny(luaD_throw(Now, L, "ERRRUN"))
    BY <1>2, <2>1, ThrowGood
  <2> QED
    BY <1>5, <2>2, BecomesInv DEF WrapRaises
<1>6. CASE ThrowBaseLevel
  <2>1. Is(Last(Now.cs), {"closeself"}) /\ Becomes(luaD_throwbaselevel(Now, L, Last(Now.cs).at))
    BY <1>2, <1>6 DEF ThrowBaseLevel, Is
  <2>2. GoodIfAny(luaD_throwbaselevel(Now, L, Last(Now.cs).at))
    BY <1>2, <2>1, BaseLevelGood
  <2> QED
    BY <2>1, <2>2, BecomesInv
<1>7. CASE unroll
  <2> DEFINE top == TopCi(Now, L)
             ra == EndProtected(Popped(Now), "OK")
             rb == [Now EXCEPT !.cs = Append(@, [f |-> "execute", t |-> L])]
             rc == luaF_close(Now, L, top.func + 1, TRUE)
             rd == poscall(Now, L, Len(callinfo[L]))
             g1 == Len(callinfo[L]) = 1
             g2 == top.fn = "lua"
             g3 == top.recst # "OK" /\ tbcs[L] # <<>> /\ Last(tbcs[L]) >= top.func + 1
  <2>1. Last(Now.cs).f = "unroll"
    BY <1>2, <1>7 DEF unroll
  <2>2. IF g1 THEN Becomes(ra) ELSE (CASE g2 -> Becomes(rb) [] ~g2 /\ g3 -> Becomes(rc) [] OTHER -> Becomes(rd))
    BY <1>7 DEF unroll
  <2>3. GoodIfAny(ra) /\ (~g1 => GoodIfAny(rb)) /\ GoodIfAny(rc) /\ (~g1 => GoodIfAny(rd))
    BY <1>2, <2>1, UnrollStepGood
  <2> HIDE DEF ra, rb, rc, rd, g1, g2, g3
  <2>5. \/ g1 /\ Becomes(ra)
        \/ ~g1 /\ Becomes(rb)
        \/ ~g1 /\ Becomes(rc)
        \/ ~g1 /\ Becomes(rd)
    BY <2>2
  <2>6. CASE g1 /\ Becomes(ra)
    BY <2>3, <2>6, BecomesInv
  <2>7. CASE ~g1 /\ Becomes(rb)
    BY <2>3, <2>7, BecomesInv
  <2>8. CASE ~g1 /\ Becomes(rc)
    BY <2>3, <2>8, BecomesInv
  <2>9. CASE ~g1 /\ Becomes(rd)
    BY <2>3, <2>9, BecomesInv
  <2> QED
    BY <2>5, <2>6, <2>7, <2>8, <2>9
<1> QED
  BY <1>3, <1>4, <1>5, <1>6, <1>7

(* The host calls the program.                                             *)
LEMMA InitInv == CallsInit => CallsInv
PROOF
<1> SUFFICES ASSUME CallsInit PROVE CallsInv
  OBVIOUS
<1> DEFINE s == [cs |-> <<>>, ci |-> [t \in Threads |-> <<base_ci>>], tbc |-> [t \in Threads |-> <<>>],
                 st |-> [t \in Threads |-> "OK"], unstarted |-> Threads \ {Main},
                 n |-> [t \in Threads |-> <<0, IF t = Main THEN 1 ELSE 0>>]]
           e == [f |-> "C", t |-> Main, fn |-> "host", co |-> Main, at |-> "OK", ci |-> 1]
           r == CFunction0(s, Main, "host", Main)
           host == luaD_pcall(r, Main)
           list == [t \in Threads |-> <<base_ci>>]
           st0 == [t \in Threads |-> "OK"]
           n0 == [t \in Threads |-> <<0, IF t = Main THEN 1 ELSE 0>>]
<1>1. /\ cstack = host.cs /\ callinfo = host.ci /\ tbcs = host.tbc /\ states = host.st /\ unstarted = host.unstarted
      /\ nCcalls = host.n
  BY DEF CallsInit
<1>2. e \in Frame /\ e.f = "C" /\ e.t = Main /\ e.fn = "host" /\ e.ci = 1
  BY DEF Frame, CFrame, Statuses
<1>3. base_ci \in CallInfo /\ <<base_ci>> \in Seq(CallInfo) /\ EntriesOf(<<base_ci>>, "OK") /\ NoCallback(<<base_ci>>)
  BY BaseEntries
<1>4. Len(<<base_ci>>) = 1 /\ <<e>> \in Seq(Frame) /\ Len(<<e>>) = 1 /\ <<e>>[1] = e /\ Append(<<>>, e) = <<e>> /\ <<>> \in Seq(Frame)
  BY <1>2
<1>5. r = [s EXCEPT !.cs = <<e>>]
  BY <1>4 DEF CFunction0
<1> HIDE DEF e
<1>6. /\ r \in State /\ r.cs = <<e>> /\ r.ci = [t \in Threads |-> <<base_ci>>] /\ r.st = [t \in Threads |-> "OK"]
      /\ r.unstarted = Threads \ {Main} /\ r.n = [t \in Threads |-> <<0, IF t = Main THEN 1 ELSE 0>>]
  <2>1. r = [cs |-> <<e>>, ci |-> list, tbc |-> [t \in Threads |-> <<>>], st |-> st0, unstarted |-> Threads \ {Main}, n |-> n0]
    BY <1>5
  <2>2. list \in [Threads -> Seq(CallInfo)] /\ st0 \in [Threads -> Statuses] /\ n0 \in [Threads -> Nat \X Nat]
    BY <1>3 DEF Statuses
  <2> HIDE DEF list, st0, n0, r
  <2>3. r \in State
    BY <1>4, <2>1, <2>2 DEF State
  <2>4. r.cs = <<e>> /\ r.ci = list /\ r.st = st0 /\ r.unstarted = Threads \ {Main} /\ r.n = n0
    BY <2>1
  <2> QED
    BY <2>3, <2>4 DEF list, st0, n0
<1> HIDE DEF r, s
<1>7. Last(r.cs) = e /\ Len(r.cs) = 1 /\ r.cs[1] = e /\ \A m \in 1 .. Len(r.cs) : m = 1
  BY <1>4, <1>6 DEF Last
<1>8. Sound(r)
  <2>1. Grammar(r.cs)
    BY <1>2, <1>6, <1>7 DEF Grammar, Is
  <2>2. ~Switches(e)
    BY <1>2 DEF Switches, Is
  <2>3. Apart(r.cs) /\ CountsKept(r.cs, r.n)
    BY <1>2, <1>7, <2>2 DEF Apart, CountsKept
  <2>4. ThreadsRun(r.cs, r.st, r.unstarted)
    BY <1>2, <1>6, <1>7 DEF ThreadsRun
  <2>5. LevelsIn(r.cs, r.ci)
    <3>1. Level(e) = 1 /\ e.f # "call"
      BY <1>2 DEF Level
    <3>2. Len(r.ci[e.t]) = 1
      BY <1>2, <1>4, <1>6
    <3> QED
      BY <1>7, <3>1, <3>2 DEF LevelsIn
  <2>6. LevelsGrow(r.cs)
    BY <1>7 DEF LevelsGrow
  <2>7. CallbacksRun(r.cs, r.ci, r.st)
    BY <1>3, <1>6 DEF CallbacksRun, NoCallback
  <2>8. Entries(r.ci, r.st)
    BY <1>3, <1>6 DEF Entries
  <2> QED
    BY <2>1, <2>3, <2>4, <2>5, <2>6, <2>7, <2>8 DEF Sound
<1>9. CountedUp(r, Main)
  <2>1. Counted(r.cs, 0, Main) = <<0, 1>>
    <3>1. {j \in 1 .. 0 : Counts(r.cs[j])} = {}
      OBVIOUS
    <3>2. Calls(r.cs, 0) = 0
      BY <3>1, FS_EmptySet DEF Calls
    <3>3. \A j \in 1 .. 0 : r.cs[j].t # Main
      OBVIOUS
    <3>4. Counted(r.cs, 0, Main) = <<Calls(r.cs, 0), IF Main = Main THEN 1 ELSE 0>>
      BY <3>3, CountedNew
    <3> QED
      BY <3>2, <3>4
  <2>2. ~Counts(e) /\ ~ClosesSelf(e, Main) /\ ~Bars(e, Main)
    BY <1>2 DEF Counts, Resumes, ClosesSelf, Bars, Is
  <2>3. Counted(r.cs, 0 + 1, Main) = <<0, 1>>
    <3> DEFINE z == 0
    <3>1. z \in Nat /\ z + 1 = 1
      OBVIOUS
    <3>2. Counted(r.cs, z, Main) = <<0, 1>>
      BY <2>1
    <3> HIDE DEF z
    <3>3. Counted(r.cs, z + 1, Main) = <<Counted(r.cs, z, Main)[1] + (IF Counts(r.cs[z + 1]) THEN 1 ELSE 0),
                 IF ClosesSelf(r.cs[z + 1], Main) THEN (IF Main = Main THEN 1 ELSE 0)
                 ELSE Counted(r.cs, z, Main)[2] + (IF Bars(r.cs[z + 1], Main) THEN 1 ELSE 0)>>
      BY <3>1, CountedStep
    <3>4. Counted(r.cs, z + 1, Main) = <<0, 1>>
      BY <1>7, <2>2, <3>1, <3>2, <3>3
    <3> QED
      BY <3>4 DEF z
  <2>4. r.n[Main] = <<0, 1>> /\ 0 < ERRORCCALLS
    BY <1>6
  <2> QED
    BY <1>7, <2>3, <2>4 DEF CountedUp
<1>10. GoodIfAny(host)
  <2> DEFINE t == Main
  <2>1. t = Last(r.cs).t /\ Is(Last(r.cs), {"host", "pcall"}) /\ CountedUp(r, t)
    BY <1>2, <1>7, <1>9 DEF Is
  <2> HIDE DEF t
  <2>2. GoodIfAny(luaD_pcall(r, t))
    BY <1>6, <1>8, <2>1, PcallGood
  <2> QED
    BY <2>2 DEF t
<1> HIDE DEF host
<1>11. Now = host
  <2>1. host = [cs |-> host.cs, ci |-> host.ci, tbc |-> host.tbc, st |-> host.st, unstarted |-> host.unstarted, n |-> host.n]
    BY <1>10 DEF GoodIfAny, State
  <2> QED
    BY <1>1, <2>1 DEF Now
<1> QED
  BY <1>1, <1>10, <1>11 DEF CallsInv, GoodIfAny

(* The inductive invariant: the types, which frame may lie on which, what  *)
(* every protected call and every waiting thread keep of the counts, and   *)
(* where the frames stand in the lists of calls, hold in every state of    *)
(* the program.                                                            *)
THEOREM CallsInvariant == CallsSpec => []CallsInv
PROOF
<1>1. CallsInit => CallsInv
  BY InitInv
<1>2. CallsInv /\ [CallsNext]_callVars => CallsInv'
  <2> SUFFICES ASSUME CallsInv, [CallsNext]_callVars
               PROVE  CallsInv'
    OBVIOUS
  <2>1. CASE CallsNext
    BY <2>1, ChoiceInv, StepInv DEF CallsNext
  <2>2. CASE UNCHANGED callVars
    <3>1. Now' = Now /\ cstack' = cstack
      BY <2>2 DEF callVars, Now
    <3>2. Now' \in State /\ (cstack' # <<>> => Good(Now'))
      BY <3>1 DEF CallsInv
    <3> QED
      BY <3>2 DEF CallsInv
  <2> QED
    BY <2>1, <2>2
<1> QED
  BY <1>1, <1>2, PTL DEF CallsSpec

(* The sets that CountsMatchStack counts are those the invariant counts.   *)
LEMMA SameCounts ==
    ASSUME NEW cs
    PROVE  LET calls == {m \in 1 .. Len(cs) : cs[m].f = "call"}
               resumes == {m \in 1 .. Len(cs) : cs[m].f = "C" /\ cs[m].fn \in {"resume", "wrap"} /\ cs[m].at = "OK"}
           IN Len(cs) \in Nat => Calls(cs, Len(cs)) = Cardinality({m \in calls : cs[m].inc[1] = 1}) + Cardinality(resumes)
PROOF
<1> DEFINE N == Len(cs)
           calls == {m \in 1 .. N : cs[m].f = "call"}
           called == {m \in calls : cs[m].inc[1] = 1}
           resumes == {m \in 1 .. N : cs[m].f = "C" /\ cs[m].fn \in {"resume", "wrap"} /\ cs[m].at = "OK"}
<1> SUFFICES ASSUME N \in Nat PROVE Calls(cs, N) = Cardinality(called) + Cardinality(resumes)
  OBVIOUS
<1>1. IsFiniteSet(1 .. N)
  BY FS_Interval
<1>2. called \subseteq 1 .. N /\ resumes \subseteq 1 .. N /\ called \cap resumes = {}
  OBVIOUS
<1>3. {m \in 1 .. N : Counts(cs[m])} = called \cup resumes
  BY DEF Counts, Resumes, Is
<1> HIDE DEF called, resumes, N
<1>4. IsFiniteSet(called) /\ IsFiniteSet(resumes)
  BY <1>1, <1>2, FS_Subset
<1>5. Cardinality(called) \in Nat /\ Cardinality(resumes) \in Nat
  BY <1>4, FS_CardinalityType
<1>6. Cardinality(called \cup resumes) = Cardinality(called) + Cardinality(resumes) - Cardinality(called \cap resumes)
  BY <1>4, FS_Union
<1>7. Cardinality(called \cap resumes) = 0
  BY <1>2, FS_EmptySet
<1>8. Calls(cs, N) = Cardinality(called \cup resumes)
  BY <1>3 DEF Calls
<1> QED
  BY ONLY <1>5, <1>6, <1>7, <1>8

(* The inductive invariant implies the property of the runs.               *)
LEMMA InvCounts == CallsInv => CountsMatchStack
PROOF
<1> SUFFICES ASSUME CallsInv, cstack # <<>>
             PROVE  CountsMatchStack
  BY DEF CountsMatchStack
<1> DEFINE N == Len(cstack)
           calls == {m \in DOMAIN cstack : cstack[m].f = "call"}
           called == {m \in calls : cstack[m].inc[1] = 1}
           resumes == {m \in DOMAIN cstack : cstack[m].f = "C" /\ cstack[m].fn \in {"resume", "wrap"} /\ cstack[m].at = "OK"}
           barred == {m \in calls : cstack[m].t = L /\ cstack[m].inc[2] = 1}
           mains == IF L = Main THEN 1 ELSE 0
<1>1. Now \in State /\ Sound(Now) /\ CountedUp(Now, L) /\ Now.cs = cstack /\ Now.n = nCcalls /\ Now.ci = callinfo /\ Now.st = states
  BY DEF CallsInv, Good, L, Caller, Now
<1>2. cstack \in Seq(Frame) /\ N \in Nat /\ DOMAIN cstack = 1 .. N
  BY <1>1 DEF State
<1>3. nCcalls[L] = Counted(cstack, N, L) /\ nCcalls[L][1] < ERRORCCALLS
  BY <1>1 DEF CountedUp
<1>4. nCcalls[L][1] = Calls(cstack, N) /\ nCcalls[L][2] = Cardinality(Barred(cstack, N, L)) + mains
  BY <1>3 DEF Counted
<1>5. getCcalls(Now, L) = nCcalls[L][1]
  BY <1>1 DEF getCcalls
<1>6. Calls(cstack, N) = Cardinality(called) + Cardinality(resumes)
  BY <1>2, SameCounts
<1>7. ClosesItself(Now, L) \/ nCcalls[L][2] = Cardinality(barred) + mains
  <2> SUFFICES ASSUME ~ClosesItself(Now, L) PROVE Barred(cstack, N, L) = barred
    BY <1>4
  <2>1. \A m \in 1 .. N : ~ClosesSelf(cstack[m], L)
    BY <1>1, <1>2 DEF ClosesItself, ClosesSelf, Is
  <2>2. \A j \in 1 .. N : \A i \in j .. N : i \in 1 .. N
    BY <1>2
  <2> QED
    BY <1>2, <2>1, <2>2 DEF Barred, Bars
<1>8. ASSUME NEW t \in Threads, states[t] = "YIELD", NEW k \in DOMAIN callinfo[t]
      PROVE  callinfo[t][k].fn # "callback"
  <2>1. callinfo[t] \in Seq(CallInfo) /\ k \in 1 .. Len(callinfo[t])
    BY <1>1 DEF State
  <2>2. ThreadsRun(cstack, states, Now.unstarted) /\ CallbacksRun(cstack, callinfo, states)
    BY <1>1 DEF Sound
  <2>3. \A m \in 1 .. Len(cstack) : cstack[m].t # t
    BY <1>8, <2>2 DEF ThreadsRun
  <2> QED
    BY <1>8, <2>1, <2>2, <2>3 DEF CallbacksRun, CallbackOf
<1> HIDE DEF called, resumes, barred, mains, N
<1>9. /\ getCcalls(Now, L) = Cardinality(called) + Cardinality(resumes) /\ getCcalls(Now, L) < ERRORCCALLS
      /\ ClosesItself(Now, L) \/ nCcalls[L][2] = Cardinality(barred) + mains
      /\ \A t \in Threads : states[t] = "YIELD" => \A k \in DOMAIN callinfo[t] : callinfo[t][k].fn # "callback"
  BY <1>3, <1>4, <1>5, <1>6, <1>7, <1>8
<1> QED
  BY <1>9 DEF called, resumes, barred, mains, CountsMatchStack

(* CountsMatchStack: however calls, errors, coroutines and closing         *)
(* functions are nested, nCcalls of the thread that runs is the number of  *)
(* C calls below it and stays under the limit of error handling, its other *)
(* half is the number of those that cannot yield (unless the thread closes *)
(* itself), and a coroutine that has yielded left no C function that calls *)
(* back (ccall, lua_resume, luaD_rawrunprotected, luaE_resetthread).       *)
THEOREM CountsMatchAlways == CallsSpec => []CountsMatchStack
PROOF
<1> QED
  BY CallsInvariant, InvCounts, PTL

=============================================================================
