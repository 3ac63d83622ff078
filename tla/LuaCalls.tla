------------------------------- MODULE LuaCalls ------------------------------
(***************************************************************************)
(* Calls, errors, coroutines and to-be-closed variables of the interpreter *)
(* (ldo.c, lfunc.c, lstate.c, lcorolib.c).  The C stack is a sequence of   *)
(* C functions; a jump cuts it.  Lua functions do what they like, as long  *)
(* as they have choices left; then they return.                            *)
(***************************************************************************)
EXTENDS Integers, Sequences, SequencesExt, FiniteSets, FiniteSetsExt

CONSTANTS
    Threads, Main,
    LUAI_MAXCCALLS,  \* 200: nested C calls
    ERRORCCALLS,     \* LUAI_MAXCCALLS / 10 * 11: and those of error handling
    MaxChoices       \* bound: choices that Lua functions have

ASSUME CallsAssumption ==
    /\ Main \in Threads
    /\ LUAI_MAXCCALLS \in Nat /\ ERRORCCALLS \in Nat /\ ERRORCCALLS > LUAI_MAXCCALLS
    /\ MaxChoices \in Nat

VARIABLES
    cstack,          \* the C functions that run
    callinfo,        \* CallInfo lists of the threads
    tbcs,            \* levels of their variables to be closed
    states,          \* L->status
    unstarted,       \* threads whose function lies on their stack, not called yet
    nCcalls,         \* <<C calls, calls that cannot yield>>
    choices,         \* what is left of the bound
    shown            \* what of this a program can tell (a history of the state)

callVars == <<cstack, callinfo, tbcs, states, unstarted, nCcalls, choices, shown>>

Now == [cs |-> cstack, ci |-> callinfo, tbc |-> tbcs, st |-> states, unstarted |-> unstarted, n |-> nCcalls]

one == <<1, 0>>
nyci == <<1, 1>>
Sum2(a, b) == <<a[1] + b[1], a[2] + b[2]>>
Less2(a, b) == <<a[1] - b[1], a[2] - b[2]>>

errorstatus(st) == st \notin {"OK", "YIELD"}
yieldable(s, t) == s.n[t][2] = 0
getCcalls(s, t) == s.n[t][1]

-----------------------------------------------------------------------------
(* CallInfo and the C stack.                                               *)
Info(fn, func) == [fn |-> fn, func |-> func, fresh |-> FALSE, ypcall |-> FALSE, recst |-> "OK", ret |-> FALSE]
base_ci == Info("base", 0)
TopCi(s, t) == Last(s.ci[t])
Caller(s) == Last(s.cs)
Popped(s) == [s EXCEPT !.cs = Front(@)]

(* The next free place of a stack.                                         *)
Free(s, t) == 1 + Max({TopCi(s, t).func} \cup ToSet(s.tbc[t]))

prepCallInfo(s, t, fn) == [s EXCEPT !.ci[t] = Append(@, Info(fn, Free(s, t)))]

(* A return drops the CallInfo that the function was called with, its     *)
(* local ci, and all above.                                                *)
poscall(s, t, n) == [s EXCEPT !.ci[t] = SubSeq(@, 1, n - 1)]
CFunction0(s, t, fn, co) ==
    [s EXCEPT !.cs = Append(@, [f |-> "C", t |-> t, fn |-> fn, co |-> co, at |-> "OK", ci |-> Len(s.ci[t])])]
precallC(s, t, fn, co) == CFunction0(prepCallInfo(s, t, fn), t, fn, co)

luaD_rawrunprotected(s, t, then) == [s EXCEPT !.cs = Append(@, [f |-> "protected", t |-> t, n |-> s.n[t], then |-> then])]

luaF_close(s, t, level, yy) == [s EXCEPT !.cs = Append(@, [f |-> "close", t |-> t, level |-> level, yy |-> yy])]

luaD_closeprotected(s, t, level, st) ==
    luaF_close(luaD_rawrunprotected(s, t, [what |-> "closing", ci |-> Len(s.ci[t]), level |-> level, status |-> st]),
               t, level, FALSE)

luaE_resetthread(s, t) ==
    luaD_closeprotected([s EXCEPT !.ci[t] = <<base_ci>>, !.st[t] = "OK", !.unstarted = @ \ {t}], t, 1,
                        IF s.st[t] = "YIELD" THEN "OK" ELSE s.st[t])

lua_closethread(s, t, from) == luaE_resetthread([s EXCEPT !.n[t] = <<getCcalls(s, from), 0>>], t)

-----------------------------------------------------------------------------
(* Returns of C functions, until something is left to be done.             *)

(* A C function of the library goes on when what it called has returned.   *)
FinishC(s, st) ==
    LET c == Caller(s)
    IN CASE c.fn = "host" -> Popped(s)
         [] c.fn = "wrap" /\ c.at = "OK" /\ errorstatus(s.st[c.co]) ->
               lua_closethread([s EXCEPT !.cs[Len(s.cs)].at = "closed"], c.co, c.t)
         [] c.fn = "wrap" /\ c.at = "closed" -> s
         [] c.fn = "closeself" -> [s EXCEPT !.cs[Len(s.cs)].at = st]
         [] OTHER -> poscall(Popped(s), c.t, c.ci)

EndProtected(s, st) == LET p == Caller(s) IN FinishC([Popped(s) EXCEPT !.n[p.t] = p.n], st)

EndCall(s) ==
    LET c == Caller(s)
        s1 == [Popped(s) EXCEPT !.n[c.t] = Less2(@, c.inc)]
    IN CASE Caller(s1).f = "C" -> FinishC(s1, "OK")
         [] Caller(s1).f = "protected" -> EndProtected(s1, "OK")
         [] OTHER -> s1

EndExecute(s) == LET s1 == Popped(s) IN IF Caller(s1).f = "call" THEN EndCall(s1) ELSE s1

EndClose(s) ==
    LET s1 == Popped(s) IN IF Caller(s1).f = "protected" THEN EndProtected(s1, Caller(s1).then.status) ELSE s1

-----------------------------------------------------------------------------
(* Errors.                                                                 *)
Cut(s, t, n) == [s EXCEPT !.ci[t] = SubSeq(@, 1, n)]
findpcall(s, t) == {n \in DOMAIN s.ci[t] : s.ci[t][n].ypcall}

(* lua_resume, when the coroutine came back.                               *)
precover(s, t, st) ==
    LET n == Max(findpcall(s, t))
        s1 == [Cut(s, t, n) EXCEPT !.ci[t][n].recst = st]
    IN CASE errorstatus(st) /\ findpcall(s, t) # {} ->
              LET p == luaD_rawrunprotected(s1, t, [what |-> "resume"]) IN [p EXCEPT !.cs = Append(@, [f |-> "unroll", t |-> t])]
         [] errorstatus(st) /\ findpcall(s, t) = {} -> FinishC([s EXCEPT !.st[t] = st], st)
         [] OTHER -> FinishC(s, st)

Protections(s, t) == {n \in DOMAIN s.cs : s.cs[n].f = "protected" /\ s.cs[n].t = t}

(* The jump to a luaD_rawrunprotected, and what its caller does then.      *)
Land(s, t, at, st) ==
    LET p == s.cs[at]
        s1 == [s EXCEPT !.cs = SubSeq(@, 1, at - 1), !.n[t] = p.n]
    IN CASE p.then.what = "resume" -> precover(s1, t, st)
         [] p.then.what # "resume" /\ st = "OK" -> FinishC(s1, p.then.status)
         [] OTHER -> luaD_closeprotected(Cut(s1, t, p.then.ci), t, p.then.level, st)

(* A slip: the calls that the error left are still counted.                *)
luaD_throwCounted(s, t, st) == [Land(s, t, Max(Protections(s, t)), st) EXCEPT !.n[t] = s.n[t]]

(* A slip: an error goes to the outermost protected call of its thread.    *)
luaD_throwOutermost(s, t, st) == Land(s, t, Min(Protections(s, t)), st)

luaD_throw(s, t, st) == Land(s, t, Max(Protections(s, t)), st)
luaD_throwbaselevel(s, t, st) == Land(s, t, Min(Protections(s, t)), st)

-----------------------------------------------------------------------------
(* Calls.                                                                  *)
ccall(s, t, inc) ==
    LET s1 == [s EXCEPT !.n[t] = Sum2(@, inc)]
        s2 == prepCallInfo([s1 EXCEPT !.cs = Append(@, [f |-> "call", t |-> t, inc |-> inc, ci |-> Len(s.ci[t]) + 1])], t, "lua")
    IN IF getCcalls(s1, t) = LUAI_MAXCCALLS \/ getCcalls(s1, t) >= ERRORCCALLS
       THEN luaD_throw(s1, t, "ERRRUN")
       ELSE [s2 EXCEPT !.ci[t][Len(s2.ci[t])].fresh = TRUE, !.cs = Append(@, [f |-> "execute", t |-> t])]

luaD_pcall(s, t) ==
    ccall(luaD_rawrunprotected(s, t, [what |-> "closing", ci |-> Len(s.ci[t]), level |-> Free(s, t), status |-> "OK"]), t, nyci)

lua_pcallk(s, t) == IF yieldable(s, t) THEN ccall([s EXCEPT !.ci[t][Len(s.ci[t])].ypcall = TRUE], t, one) ELSE luaD_pcall(s, t)

lua_callk(s, t) == ccall(s, t, IF yieldable(s, t) THEN one ELSE nyci)

lua_call(s, t) == ccall(s, t, nyci)

(* lua_resume, after the coroutine was found fit.                          *)
resume(s0, u, from) ==
    LET s == luaD_rawrunprotected([s0 EXCEPT !.n[u] = <<getCcalls(s0, from) + 1, 0>>], u, [what |-> "resume"])
        again == poscall([s EXCEPT !.st[u] = "OK"], u, Len(s.ci[u]))
    IN IF s.st[u] = "OK" THEN ccall([s EXCEPT !.unstarted = @ \ {u}], u, <<0, 0>>)
       ELSE [again EXCEPT !.cs = Append(@, [f |-> "unroll", t |-> u])]

Fit(s, u, from) ==
    /\ s.st[u] = "YIELD" \/ (s.st[u] = "OK" /\ Len(s.ci[u]) = 1 /\ u \in s.unstarted)
    /\ getCcalls(s, from) < LUAI_MAXCCALLS

auxstatus(s, t, co) ==
    CASE co = t -> "running"
      [] co # t /\ s.st[co] = "YIELD" -> "suspended"
      [] co # t /\ s.st[co] = "OK" /\ Len(s.ci[co]) > 1 -> "normal"
      [] co # t /\ s.st[co] = "OK" /\ Len(s.ci[co]) = 1 /\ co \in s.unstarted -> "suspended"
      [] OTHER -> "dead"

-----------------------------------------------------------------------------
(* The activations: of Lua functions, pcall and functions that call back.  *)
ClosedBy(s, t) ==
    {s.cs[n].then.ci : n \in {n \in DOMAIN s.cs : s.cs[n].f = "protected" /\ s.cs[n].t = t /\ s.cs[n].then.what = "closing"
                                                     /\ n < Len(s.cs) /\ s.cs[n + 1].f = "close"}}
ClosesItself(s, t) == \E n \in DOMAIN s.cs : s.cs[n].t = t /\ s.cs[n].f = "C" /\ s.cs[n].fn = "closeself"

Mode(s, t, n) ==
    LET c == s.ci[t][n] IN
    CASE c.fn = "base" ->
            CASE 1 \in ClosedBy(s, t) \/ ClosesItself(s, t) -> "reset"
              [] t = Main /\ s.cs = <<>> -> "dead"
              [] errorstatus(s.st[t]) \/ (Len(s.ci[t]) = 1 /\ t \notin s.unstarted) -> "dead"
              [] OTHER -> "runs"
      [] c.fn = "pcall" -> IF n \in ClosedBy(s, t) \/ c.recst # "OK" THEN "failing" ELSE "runs"
      [] OTHER -> IF c.ret THEN "leaving" ELSE "runs"

Mapped(s, t) ==
    LET last == IF errorstatus(s.st[t]) THEN 1 ELSE Len(s.ci[t])
        kinds == [base |-> "base", lua |-> "function", pcall |-> "pcall", callback |-> "boundary"]
        upto(n) == IF n = last THEN 0 ELSE s.ci[t][n + 1].func
        held(n) == SelectSeq(s.tbc[t], LAMBDA l : l > s.ci[t][n].func /\ (upto(n) = 0 \/ l < upto(n)))
        those == SelectSeq([n \in 1 .. last |-> n], LAMBDA n : s.ci[t][n].fn \in DOMAIN kinds)
    IN [m \in DOMAIN those |-> [kind |-> kinds[s.ci[t][those[m]].fn], vars |-> held(those[m]), mode |-> Mode(s, t, those[m])]]

Shown(s) ==
    [acts |-> [t \in Threads |-> Mapped(s, t)],
     running |-> FoldLeft(LAMBDA r, e : IF e.t \in ToSet(r) THEN r ELSE Append(r, e.t), <<>>, s.cs),
     deep |-> s.cs # <<>> /\ getCcalls(s, Caller(s).t) + 1 >= LUAI_MAXCCALLS]

Becomes(s) ==
    /\ cstack' = s.cs /\ callinfo' = s.ci /\ tbcs' = s.tbc /\ states' = s.st /\ unstarted' = s.unstarted /\ nCcalls' = s.n
    /\ shown' = Shown(s)

-----------------------------------------------------------------------------
(* What the innermost function does.  L is the thread that runs.           *)
L == Caller(Now).t
InLua == cstack # <<>> /\ Caller(Now).f = "execute" /\ ~TopCi(Now, L).ret
Chooses == InLua /\ choices > 0 /\ choices' = choices - 1

CallsInit ==
    LET none == [t \in Threads |-> <<>>]
        s == [cs |-> <<>>, ci |-> [t \in Threads |-> <<base_ci>>], tbc |-> none, st |-> [t \in Threads |-> "OK"],
              unstarted |-> Threads \ {Main}, n |-> [t \in Threads |-> <<0, IF t = Main THEN 1 ELSE 0>>]]
        host == luaD_pcall(CFunction0(s, Main, "host", Main), Main)
    IN /\ cstack = host.cs /\ callinfo = host.ci /\ tbcs = host.tbc /\ states = host.st /\ unstarted = host.unstarted /\ nCcalls = host.n
       /\ shown = Shown(host)
       /\ choices = MaxChoices

(* OP_CALL of a Lua function, and of a metamethod.                         *)
CallLua == Chooses /\ Becomes(prepCallInfo(Now, L, "lua"))
CallMetamethod == Chooses /\ Becomes(ccall(Now, L, one))

pcall == Chooses /\ Becomes(lua_pcallk(precallC(Now, L, "pcall", L), L))
dofile == Chooses /\ Becomes(lua_callk(precallC(Now, L, "dofile", L), L))

(* A function of a library that calls one of the program, like sort.       *)
CallBack == Chooses /\ Becomes(lua_call(precallC(Now, L, "callback", L), L))

luaF_newtbcupval == Chooses /\ Becomes([Now EXCEPT !.tbc[L] = Append(@, Free(Now, L))])

luaB_error == Chooses /\ Becomes(luaD_throw(Now, L, "ERRRUN"))

(* OP_RETURN, once more after each yield of a function that closes.        *)
OpReturn ==
    /\ cstack # <<>> /\ Caller(Now).f = "execute"
    /\ LET top == TopCi(Now, L)
           pending == {l \in ToSet(tbcs[L]) : l > top.func}
       IN IF pending # {} THEN Becomes(luaF_close([Now EXCEPT !.ci[L][Len(callinfo[L])].ret = TRUE], L, top.func + 1, TRUE))
          ELSE Becomes(IF top.fresh THEN EndExecute(poscall(Now, L, Len(callinfo[L]))) ELSE poscall(Now, L, Len(callinfo[L])))
    /\ UNCHANGED choices

CloseNext ==
    /\ cstack # <<>> /\ Caller(Now).f = "close"
    /\ LET c == Caller(Now) IN
       IF tbcs[L] # <<>> /\ Last(tbcs[L]) >= c.level
       THEN Becomes(ccall([Now EXCEPT !.tbc[L] = Front(@)], L, IF c.yy THEN one ELSE nyci))
       ELSE Becomes(EndClose(Now))
    /\ UNCHANGED choices

lua_yieldk ==
    /\ Chooses
    /\ Becomes(IF yieldable(Now, L) THEN luaD_throw([prepCallInfo(Now, L, "yield") EXCEPT !.st[L] = "YIELD"], L, "YIELD")
               ELSE luaD_throw(Now, L, "ERRRUN"))

(* coroutine.resume of a thread that cannot be resumed answers false.      *)
luaB_coresume(u) ==
    /\ Chooses
    /\ Becomes(IF Fit(Now, u, L) THEN resume(precallC(Now, L, "resume", u), u, L) ELSE Now)

luaB_auxwrap(u) ==
    LET s == precallC(Now, L, "wrap", u) IN
    /\ Chooses /\ u # Main
    /\ Becomes(CASE Fit(Now, u, L) -> resume(s, u, L)
                 [] ~Fit(Now, u, L) /\ errorstatus(states[u]) -> FinishC(s, "OK")
                 [] OTHER -> luaD_throw(Now, L, "ERRRUN"))

(* wrap raises the error once the coroutine is closed.                     *)
WrapRaises ==
    /\ cstack # <<>> /\ Caller(Now).f = "C" /\ Caller(Now).fn = "wrap"
    /\ Becomes(luaD_throw(Now, L, "ERRRUN")) /\ UNCHANGED choices

luaB_close(u) ==
    /\ Chooses
    /\ Becomes(CASE auxstatus(Now, L, u) \in {"dead", "suspended"} -> lua_closethread(precallC(Now, L, "close", u), u, L)
                 [] auxstatus(Now, L, u) = "running" /\ u # Main ->
                       lua_closethread(CFunction0(Now, L, "closeself", L), L, L)
                 [] OTHER -> luaD_throw(Now, L, "ERRRUN"))

(* The thread that closed itself ends.                                     *)
ThrowBaseLevel ==
    /\ cstack # <<>> /\ Caller(Now).f = "C" /\ Caller(Now).fn = "closeself"
    /\ Becomes(luaD_throwbaselevel(Now, L, Caller(Now).at)) /\ UNCHANGED choices

(* A coroutine that was resumed, or that recovers, finishes its functions. *)
unroll ==
    /\ cstack # <<>> /\ Caller(Now).f = "unroll"
    /\ LET top == TopCi(Now, L)
           level == top.func + 1
           closing == top.recst # "OK" /\ tbcs[L] # <<>> /\ Last(tbcs[L]) >= level
       IN IF Len(callinfo[L]) = 1 THEN Becomes(EndProtected(Popped(Now), "OK"))
          ELSE CASE top.fn = "lua" -> Becomes([Now EXCEPT !.cs = Append(@, [f |-> "execute", t |-> L])])
                 [] top.fn # "lua" /\ closing -> Becomes(luaF_close(Now, L, level, TRUE))
                 [] OTHER -> Becomes(poscall(Now, L, Len(callinfo[L])))
    /\ UNCHANGED choices

CallsNext ==
    \/ CallLua \/ CallMetamethod \/ pcall \/ dofile \/ CallBack \/ luaF_newtbcupval \/ luaB_error \/ OpReturn \/ CloseNext
    \/ lua_yieldk \/ WrapRaises \/ ThrowBaseLevel \/ unroll
    \/ \E u \in Threads : luaB_coresume(u) \/ luaB_auxwrap(u) \/ luaB_close(u)

CallsSpec == CallsInit /\ [][CallsNext]_callVars

Activations ==
    INSTANCE LuaActivations WITH acts <- shown.acts, running <- shown.running, fresh <- unstarted,
                                 Levels <- 1 .. 2 * MaxChoices + 4, deep <- shown.deep

(* However calls, pcall, closing functions and coroutines are nested: an   *)
(* error ends at the innermost pcall of its thread, after each variable on *)
(* the way was closed once, the last one first; a coroutine goes on where  *)
(* it yielded, although its C functions are gone (setjmp in the main       *)
(* thread, CIST_YPCALL and unroll in coroutines).                          *)
CallsKeepActivations == Activations!ActSpec

(* nCcalls is the number of C calls below, after any error or yield; only  *)
(* a thread that counts none that cannot yield leaves its C functions.     *)
CountsMatchStack ==
    cstack # <<>> =>
        LET calls == {n \in DOMAIN cstack : cstack[n].f = "call"}
            resumes == {n \in DOMAIN cstack : cstack[n].f = "C" /\ cstack[n].fn \in {"resume", "wrap"} /\ cstack[n].at = "OK"}
        IN /\ getCcalls(Now, L) = Cardinality({n \in calls : cstack[n].inc[1] = 1}) + Cardinality(resumes)
           /\ getCcalls(Now, L) < ERRORCCALLS
           /\ ClosesItself(Now, L) \/ nCcalls[L][2] = Cardinality({n \in calls : cstack[n].t = L /\ cstack[n].inc[2] = 1}) + (IF L = Main THEN 1 ELSE 0)
           /\ \A t \in Threads : states[t] = "YIELD" => \A n \in DOMAIN callinfo[t] : callinfo[t][n].fn # "callback"

=============================================================================
