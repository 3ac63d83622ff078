----------------------------- MODULE LuaMeaning -----------------------------
(***************************************************************************)
(* What a program means, told directly on its syntax tree: variables are   *)
(* cells, a scope maps names to cells, a call evaluates the statements of  *)
(* a function in the scope where it was made.  There are no registers,     *)
(* jumps or upvalues.  A store st holds the cells, the tables and the      *)
(* functions; once st.failed nothing is done any more.                     *)
(***************************************************************************)
EXTENDS LuaVM, LuaParser, TLC

CONSTANTS
    Meant,     \* how each program ends, and what it logs
    Refused    \* the programs that are none, for their scopes and jumps

Vararg0 == -1     \* the variable arguments of a scope

Fail(st) == [st EXCEPT !.failed = TRUE]
Log(st, e) == [st EXCEPT !.log = Append(@, e)]

NewCell(st, v) == [st EXCEPT !.cells = Append(@, v)]
Bind(env, name, x) == [n \in DOMAIN env \cup {name} |-> IF n = name THEN x ELSE env[n]]
Cell(i) == <<"cell", i>>

(* One more variable, and several of them.                                 *)
Let1(r, name, v) ==
    [r EXCEPT !.st = NewCell(@, v), !.env = Bind(@, name, Cell(Len(r.st.cells) + 1))]
LetAll(r, names, vs) ==
    LET L[i \in 0 .. Len(names)] ==
            IF i = 0 THEN r ELSE Let1(L[i - 1], names[i], IF i <= Len(vs) THEN vs[i] ELSE Nil)
    IN L[Len(names)]

ReadIndex(st, t, key) ==
    IF IsTab(t) THEN [st |-> st, v |-> Get(st.tables[t[2]], key)] ELSE [st |-> Fail(st), v |-> Nil]
WriteIndex(st, t, key, v) ==
    IF st.failed THEN st
    ELSE IF ~IsTab(t) \/ key = Nil THEN Fail(st) ELSE [st EXCEPT !.tables[t[2]] = Put(@, key, v)]

(* A name is a cell of the scope or an element of what _ENV is there.      *)
IsLocal(env, n) == n \in DOMAIN env /\ env[n][1] = "cell"
EnvTable(st, env) == st.cells[env[ENV][2]]

CompareTrees(ev) == [LT |-> <<"LT", FALSE>>, LE |-> <<"LE", FALSE>>, GT |-> <<"LT", TRUE>>, GE |-> <<"LE", TRUE>>][ev]

(* The variable arguments: those of the table, when it has a name.         *)
Varargs(st, env) ==
    LET x == env[Vararg0]
        t == st.tables[x[2][2]]
        n == Get(t, N)
    IN CASE x[1] = "values" -> [st |-> st, vs |-> x[2]]
         [] x[1] = "table" ->
              IF ~IsInt(n) \/ n[2] < 0 THEN [st |-> Fail(st), vs |-> <<>>]
              ELSE [st |-> st, vs |-> [i \in 1 .. n[2] |-> Get(t, Num(i))]]

VarargTable(vs) ==
    [x \in {Num(i) : i \in {j \in DOMAIN vs : vs[j] # Nil}} \cup {N} |-> IF x = N THEN Num(Len(vs)) ELSE vs[x[2]]]

From(vs, n) == SubSeq(vs, n + 1, Len(vs))
One(vs) == IF vs = <<>> THEN Nil ELSE vs[1]

RECURSIVE Eval(_, _, _), EvalList(_, _, _), EvalFields(_, _, _, _, _), Apply(_, _, _), Run(_, _), While(_, _, _, _),
          Repeat(_, _, _, _), ForNum(_, _, _, _), ForIn(_, _, _, _, _, _)

Eval1(st, env, x) == LET r == Eval(st, env, x) IN [st |-> r.st, v |-> One(r.vs)]

Result(st, v) == IF v = Error THEN [st |-> Fail(st), vs |-> <<Nil>>] ELSE [st |-> st, vs |-> <<v>>]

Compared2(st, ev, a0, b0) ==
    LET c == CompareTrees(ev)
        a == IF c[2] THEN b0 ELSE a0
        b == IF c[2] THEN a0 ELSE b0
        o == Order(c[1], a, b)
    IN IF ~o.ok THEN Result(st, Error)
       ELSE Result(IF o.tm THEN Log(st, <<c[1], Show(st.tables, a), Show(st.tables, b)>>) ELSE st, Bool(o.holds))

Binary(st, ev, a, b) ==
    CASE st.failed -> Result(st, Nil)
      [] ~st.failed /\ ev \in ArithOps -> Result(st, Arith(ev, a, b))
      [] ~st.failed /\ ev = "CONCAT" -> Result(st, Concat(a, b))
      [] ~st.failed /\ ev = "EQ" -> Result(st, Bool(a = b))
      [] ~st.failed /\ ev = "NE" -> Result(st, Bool(a # b))
      [] OTHER -> Compared2(st, ev, a, b)

Unary(st, ev, a) ==
    CASE st.failed -> Result(st, Nil)
      [] ~st.failed /\ ev = "NOT" -> Result(st, Bool(l_isfalse(a)))
      [] ~st.failed /\ ev = "UNM" -> Result(st, IF IsInt(a) THEN Num(-a[2]) ELSE luaT_trybinTM("UNM", a, a))
      [] ~st.failed /\ ev = "LEN" ->
           Result(st, IF IsTab(a) THEN Num(luaH_getn(st.tables[a[2]])) ELSE IF IsStr(a) THEN Num(Len(a[2])) ELSE Error)

NewTableIn(st, t) == [st EXCEPT !.tables = Append(@, t)]
NewFunction(st, env, f, ismethod) ==
    [st EXCEPT !.funs = Append(@, [params |-> IF ismethod THEN <<SELF>> \o f[1] ELSE f[1], va |-> f[2], body |-> f[3], env |-> env])]

(* The values of an expression: more than one for calls and "...".         *)
Eval(st, env, x) ==
    LET a == Eval1(st, env, x[2])
        index(r, key) == LET e == ReadIndex(r.st, r.v, key) IN [st |-> e.st, vs |-> <<e.v>>]
    IN CASE st.failed -> Result(st, Nil)
         [] ~st.failed /\ x[1] = "nil" -> Result(st, Nil)
         [] ~st.failed /\ x[1] = "true" -> Result(st, Bool(TRUE))
         [] ~st.failed /\ x[1] = "false" -> Result(st, Bool(FALSE))
         [] ~st.failed /\ x[1] = "int" -> Result(st, Num(x[2]))
         [] ~st.failed /\ x[1] = "str" -> Result(st, Str(x[2]))
         [] ~st.failed /\ x[1] = "vararg" -> Varargs(st, env)
         [] ~st.failed /\ x[1] = "name" ->
              IF IsLocal(env, x[2]) THEN Result(st, st.cells[env[x[2]][2]])
              ELSE index([st |-> st, v |-> EnvTable(st, env)], Str(<<x[2]>>))
         [] ~st.failed /\ x[1] = "paren" -> Result(a.st, a.v)
         [] ~st.failed /\ x[1] = "index" ->
              LET k == Eval1(a.st, env, x[3]) IN
              IF k.st.failed THEN Result(k.st, Nil) ELSE index([st |-> k.st, v |-> a.v], k.v)
         [] ~st.failed /\ x[1] = "call" ->
              LET r == EvalList(a.st, env, x[3]) IN Apply(r.st, a.v, r.vs)
         [] ~st.failed /\ x[1] = "method" ->
              LET m == index(a, Str(<<x[3]>>))
                  r == EvalList(IF a.st.failed THEN a.st ELSE m.st, env, x[4])
              IN Apply(r.st, One(m.vs), <<a.v>> \o r.vs)
         [] ~st.failed /\ x[1] = "func" ->
              Result(NewFunction(st, env, x[2], FALSE), Fun(Len(st.funs) + 1))
         [] ~st.failed /\ x[1] = "un" -> LET r == Eval1(st, env, x[3]) IN Unary(r.st, x[2], r.v)
         [] ~st.failed /\ x[1] = "bin" /\ x[2] \in {"AND", "OR"} ->
              LET l == Eval1(st, env, x[3]) IN
              IF l.st.failed \/ l_isfalse(l.v) = (x[2] = "AND") THEN Result(l.st, l.v)
              ELSE LET r == Eval1(l.st, env, x[4]) IN Result(r.st, r.v)
         [] ~st.failed /\ x[1] = "bin" /\ x[2] \notin {"AND", "OR"} ->
              LET l == Eval1(st, env, x[3])
                  r == Eval1(l.st, env, x[4])
              IN Binary(r.st, x[2], l.v, r.v)
         [] ~st.failed /\ x[1] = "table" ->
              EvalFields(NewTableIn(st, <<>>), env, Tab(Len(st.tables) + 1), x[2], 1)

(* All the values of the last expression, one of each of the others.       *)
EvalList(st, env, l) ==
    IF l = <<>> THEN [st |-> st, vs |-> <<>>]
    ELSE IF Len(l) = 1 THEN Eval(st, env, l[1])
    ELSE LET a == Eval1(st, env, l[1])
             r == EvalList(a.st, env, Tail(l))
         IN [st |-> r.st, vs |-> <<a.v>> \o r.vs]

(* The fields of the table t; items are stored when all are known.         *)
EvalFields(st, env, t, l, n) ==
    LET f == l[1] IN
    CASE st.failed \/ l = <<>> -> Result(st, t)
      [] ~st.failed /\ l # <<>> /\ f[1] = "pair" ->
           LET k == Eval1(st, env, f[2])
               v == Eval1(k.st, env, f[3])
           IN EvalFields(WriteIndex(v.st, t, k.v, v.v), env, t, Tail(l), n)
      [] ~st.failed /\ l # <<>> /\ f[1] = "item" ->
           LET r == Eval(st, env, f[2])
               vs == IF Len(l) = 1 THEN r.vs ELSE <<One(r.vs)>>
               S[i \in 0 .. Len(vs)] == IF i = 0 THEN r.st ELSE WriteIndex(S[i - 1], t, Num(n + i - 1), vs[i])
           IN EvalFields(S[Len(vs)], env, t, Tail(l), n + 1)

-----------------------------------------------------------------------------
(* A block under execution: its statements l, at pos; the variables to be  *)
(* closed so far; what scope and how many of them there were at each       *)
(* statement; and the condition that ends a "repeat".                      *)
Begin(st, env, l, until) ==
    [st |-> st, env |-> env, l |-> l, pos |-> 1, tbc |-> <<>>, until |-> until, sig |-> <<"next">>,
     marks |-> [i \in DOMAIN l |-> [env |-> env, n |-> 0]]]

CloseFrom(st, tbc, n) ==
    LET C[i \in 0 .. Len(tbc) - n] ==
            IF i = 0 THEN st
            ELSE Log(C[i - 1], <<"close", Show(st.tables, tbc[Len(tbc) + 1 - i]), st.failed>>)
    IN C[Len(tbc) - n]

Block(st, env, l) == Run(Begin(st, env, l, <<>>), 0)

(* How a statement ends: <<"next">>, <<"break">>, <<"goto", name>> or      *)
(* <<"return", values>>.                                                   *)
Ended(b, st) == [b EXCEPT !.st = st]
Signal(b, r) == [b EXCEPT !.st = r.st, !.sig = r.sig]

Declared(b, decl, r) ==
    LET d == LetAll([Ended(b, r.st) EXCEPT !.sig = <<"next">>], [i \in DOMAIN decl |-> decl[i][1]], r.vs)
        i == CHOOSE j \in ToClose(decl) : TRUE
        v == IF i <= Len(r.vs) THEN r.vs[i] ELSE Nil
    IN IF ToClose(decl) = {} \/ l_isfalse(v) \/ r.st.failed THEN d
       ELSE IF IsTab(v) THEN [d EXCEPT !.tbc = Append(@, v)] ELSE [d EXCEPT !.st = Fail(@)]

(* Where a target of an assignment is: a cell or an element.               *)
Target(st, env, x) ==
    IF x[1] = "name"
    THEN [st |-> st, to |-> IF IsLocal(env, x[2]) THEN env[x[2]] ELSE <<"elem", EnvTable(st, env), Str(<<x[2]>>)>>]
    ELSE LET t == Eval1(st, env, x[2])
             k == Eval1(t.st, env, x[3])
         IN [st |-> k.st, to |-> <<"elem", t.v, k.v>>]

StoreTo(st, to, v) ==
    IF st.failed THEN st
    ELSE IF to[1] = "cell" THEN [st EXCEPT !.cells[to[2]] = v] ELSE WriteIndex(st, to[2], to[3], v)

AssignAll(b, decl, exps) ==
    LET n == Len(decl)
        T[i \in 0 .. n] ==
            IF i = 0 THEN [st |-> b.st, tos |-> <<>>]
            ELSE LET t == Target(T[i - 1].st, b.env, decl[i]) IN [st |-> t.st, tos |-> Append(T[i - 1].tos, t.to)]
        r == EvalList(T[n].st, b.env, exps)
        S[i \in 0 .. n] ==
            IF i = 0 THEN r.st
            ELSE LET j == n + 1 - i IN StoreTo(S[i - 1], T[n].tos[j], IF j <= Len(r.vs) THEN r.vs[j] ELSE Nil)
    IN Ended(b, S[n])

(* Globals that are given a value must have had none.                      *)
DefineGlobal(st, env, name, v) ==
    IF st.failed \/ ReadIndex(st, EnvTable(st, env), Str(<<name>>)).v # Nil THEN Fail(st)
    ELSE WriteIndex(st, EnvTable(st, env), Str(<<name>>), v)

DeclareGlobals(b, decl, exps) ==
    LET n == Len(decl)
        r == EvalList(b.st, b.env, exps)
        S[i \in 0 .. n] ==
            IF i = 0 THEN r.st
            ELSE LET j == n + 1 - i
                 IN DefineGlobal(S[i - 1], b.env, decl[j][1], IF j <= Len(r.vs) THEN r.vs[j] ELSE Nil)
        E[i \in 0 .. n] == IF i = 0 THEN b.env ELSE Bind(E[i - 1], decl[i][1], <<"global">>)
    IN [b EXCEPT !.st = IF exps = <<>> THEN b.st ELSE S[n], !.env = E[n]]

(* if, and what the loops do.                                              *)
RECURSIVE If(_, _, _, _)
If(st, env, bs, els) ==
    IF bs = <<>> THEN IF els = <<>> THEN [st |-> st, sig |-> <<"next">>] ELSE Block(st, env, els[1])
    ELSE LET c == Eval1(st, env, bs[1][1]) IN
         IF c.st.failed THEN [st |-> c.st, sig |-> <<"next">>]
         ELSE IF l_isfalse(c.v) THEN If(c.st, env, Tail(bs), els) ELSE Block(c.st, env, bs[1][2])

LoopEnd(r) == [st |-> r.st, sig |-> IF r.sig[1] = "break" THEN <<"next">> ELSE r.sig]

While(st, env, x, l) ==
    LET c == Eval1(st, env, x)
        r == Block(c.st, env, l)
    IN IF c.st.failed \/ l_isfalse(c.v) THEN [st |-> c.st, sig |-> <<"next">>]
       ELSE IF r.st.failed \/ r.sig # <<"next">> THEN LoopEnd(r) ELSE While(r.st, env, x, l)

Repeat(st, env, l, x) ==
    LET r == Run(Begin(st, env, l, <<x>>), 0) IN
    IF r.st.failed \/ r.sig # <<"again">> THEN LoopEnd(r) ELSE Repeat(r.st, env, l, x)

(* vs are the initial value, the limit and the step.                       *)
ForNum(b, name, vs, l) ==
    LET over == IF vs[3] > 0 THEN vs[1] > vs[2] ELSE vs[1] < vs[2]
        v == Let1(b, name, Num(vs[1]))
        r == Block(v.st, v.env, l)
    IN IF over THEN [st |-> b.st, sig |-> <<"next">>]
       ELSE IF r.st.failed \/ r.sig # <<"next">> THEN LoopEnd(r)
       ELSE ForNum(Ended(b, r.st), name, <<vs[1] + vs[3], vs[2], vs[3]>>, l)

ForIn(b, names, f, s, control, l) ==
    LET c == Apply(b.st, f, <<s, control>>)
        v == LetAll(Ended(b, c.st), names, c.vs)
        r == Block(v.st, v.env, l)
    IN IF c.st.failed \/ One(c.vs) = Nil THEN [st |-> c.st, sig |-> <<"next">>]
       ELSE IF r.st.failed \/ r.sig # <<"next">> THEN LoopEnd(r)
       ELSE ForIn(Ended(b, r.st), names, f, s, One(c.vs), l)

At(vs, i) == IF i <= Len(vs) THEN vs[i] ELSE Nil

ForStatement(b, s) ==
    LET r == EvalList(b.st, b.env, s[3])
        vs == [i \in 1 .. 3 |-> IF i = 3 /\ Len(s[3]) = 2 THEN Num(1) ELSE At(r.vs, i)]
        c == At(r.vs, 4)
        e == ForIn(Ended(b, r.st), s[2], At(r.vs, 1), At(r.vs, 2), At(r.vs, 3), s[4])
    IN CASE r.st.failed -> Ended(b, r.st)
         [] ~r.st.failed /\ s[1] = "fornum" ->
              IF \E i \in 1 .. 3 : ~IsInt(vs[i]) THEN Ended(b, Fail(r.st))
              ELSE IF vs[3] = Num(0) THEN Ended(b, Fail(r.st))
              ELSE Signal(b, ForNum(Ended(b, r.st), s[2], [i \in 1 .. 3 |-> vs[i][2]], s[4]))
         [] ~r.st.failed /\ s[1] = "forin" ->
              IF ~Closable(c) THEN Ended(b, Fail(r.st))
              ELSE Signal(b, [e EXCEPT !.st = CloseFrom(@, IF l_isfalse(c) THEN <<>> ELSE <<c>>, 0)])

Statement(b, s) ==
    CASE s[1] = "if" -> Signal(b, If(b.st, b.env, s[2], s[3]))
      [] s[1] = "while" -> Signal(b, While(b.st, b.env, s[2], s[3]))
      [] s[1] = "do" -> Signal(b, Block(b.st, b.env, s[2]))
      [] s[1] \in {"fornum", "forin"} -> ForStatement(b, s)
      [] s[1] = "repeat" -> Signal(b, Repeat(b.st, b.env, s[2], s[3]))
      [] s[1] = "function" ->
           LET t == Target(b.st, b.env, s[2])
           IN Ended(b, StoreTo(NewFunction(t.st, b.env, s[3], s[4]), t.to, Fun(Len(t.st.funs) + 1)))
      [] s[1] = "local" -> Declared(b, s[2], EvalList(b.st, b.env, s[3]))
      [] s[1] = "localfunc" ->
           LET d == Let1(b, s[2], Fun(Len(b.st.funs) + 1)) IN [d EXCEPT !.st = NewFunction(@, d.env, s[3], FALSE)]
      [] s[1] = "global" -> DeclareGlobals(b, s[2], s[3])
      [] s[1] = "globalfunc" ->
           LET e == Bind(b.env, s[2], <<"global">>)
           IN [b EXCEPT !.env = e, !.st = DefineGlobal(NewFunction(@, e, s[3], FALSE), e, s[2], Fun(Len(@.funs) + 1))]
      [] s[1] \in {"label", "globalall"} -> b
      [] s[1] = "return" ->
           LET r == EvalList(b.st, b.env, s[2]) IN Signal(b, [st |-> r.st, sig |-> <<"return", r.vs>>])
      [] s[1] = "break" -> [b EXCEPT !.sig = <<"break">>]
      [] s[1] = "goto" -> [b EXCEPT !.sig = <<"goto", s[2]>>]
      [] s[1] = "assign" -> AssignAll(b, s[2], s[3])
      [] s[1] = "call" -> Ended(b, Eval(b.st, b.env, s[2]).st)

(* The rest of the block, and its closing.  A goto goes on at its label if *)
(* that is in the block; a step back ends the variables declared since.    *)
Run(b, n) ==
    LET m == [b EXCEPT !.marks[b.pos] = [env |-> b.env, n |-> Len(b.tbc)]]
        r == Statement(m, b.l[b.pos])
        targets == {i \in DOMAIN b.l : r.sig[1] = "goto" /\ b.l[i] = <<"label", r.sig[2]>>}
        t == CHOOSE i \in targets : TRUE
        back == r.marks[t]
        c == Eval1(b.st, b.env, b.until[1])
        u == CASE b.until = <<>> -> b
               [] b.until # <<>> -> [b EXCEPT !.st = c.st, !.sig = IF l_isfalse(c.v) THEN <<"again">> ELSE <<"next">>]
    IN CASE b.pos > Len(b.l) -> [st |-> CloseFrom(u.st, b.tbc, 0), sig |-> u.sig]
         [] b.pos <= Len(b.l) /\ ~r.st.failed /\ r.sig = <<"next">> -> Run([r EXCEPT !.pos = @ + 1], n + 1)
         [] b.pos <= Len(b.l) /\ ~r.st.failed /\ targets # {} ->
              Run(IF t > b.pos THEN [r EXCEPT !.pos = t, !.sig = <<"next">>]
                  ELSE [r EXCEPT !.pos = t, !.sig = <<"next">>, !.env = back.env, !.tbc = First(@, back.n),
                                 !.st = CloseFrom(@, r.tbc, back.n)], n + 1)
         [] OTHER -> [st |-> CloseFrom(r.st, r.tbc, 0), sig |-> r.sig]

(* A call: the C function logs and returns its arguments.                  *)
Apply(st, f, vs) ==
    LET fun == st.funs[f[2]]
        np == Len(fun.params)
        extra == From(vs, np)
        p0 == LetAll([st |-> st, env |-> fun.env], fun.params, vs)
        p1 == CASE fun.va = <<>> -> p0
                [] fun.va = <<AnyName>> -> [p0 EXCEPT !.env = Bind(@, Vararg0, <<"values", extra>>)]
                [] OTHER -> LET d == Let1([p0 EXCEPT !.st = NewTableIn(@, VarargTable(extra))], fun.va[1],
                                          Tab(Len(st.tables) + 1))
                            IN [d EXCEPT !.env = Bind(@, Vararg0, <<"table", Tab(Len(st.tables) + 1)>>)]
        r == Block(p1.st, p1.env, fun.body)
    IN CASE st.failed -> Result(st, Nil)
         [] ~st.failed /\ f = CFunction -> [st |-> Log(st, <<"call", ShowAll(st.tables, vs)>>), vs |-> vs]
         [] ~st.failed /\ ~IsFun(f) -> Result(st, Error)
         [] OTHER -> [st |-> r.st, vs |-> IF r.sig[1] = "return" THEN r.sig[2] ELSE <<>>]

(* How the program ends, and what it logs before.                          *)
Meaning(prog) ==
    IF prog \in Refused THEN [status |-> "rejected", out |-> <<>>] ELSE
    LET st == [cells |-> <<Tab(1)>>, tables |-> <<[x \in {Str(<<ECHO>>)} |-> CFunction]>>, funs |-> <<>>,
               log |-> <<>>, failed |-> FALSE]
        env == (ENV :> Cell(1)) @@ (Vararg0 :> <<"values", <<>>>>)
        r == Block(st, env, prog)
    IN [status |-> IF r.st.failed THEN "error" ELSE "done", out |-> r.st.log]

(* What the programs are compiled to, and mean.                            *)
Compiled == LET compiled == [prog \in Programs |-> luaY_parser(prog)] IN compiled
Meanings == LET meanings == [prog \in Programs |-> Meaning(prog)] IN meanings

(***************************************************************************)
(* A compiled program does what its text says: it calls the same functions *)
(* and metamethods with the same arguments in the same order, and it ends  *)
(* as it should (lparser.c, lcode.c and lvm.c together).                   *)
(***************************************************************************)
CompiledRunsAsWritten ==
    status # "running" => [status |-> status, out |-> out] = Meant[program]

(***************************************************************************)
(* A function that returns, or calls another in its place, leaves no open  *)
(* upvalue and no variable to be closed in its frame: the code generator   *)
(* marks the instruction (luaK_finish) and luaV_execute closes them.       *)
(***************************************************************************)
ReturnLeavesNothingOpen ==
    [][ Fetch({"RETURN", "RETURN0", "RETURN1", "TAILCALL"}) /\ status' # "error" =>
            /\ \A i \in DOMAIN upvals' : upvals'[i].open => upvals'[i].level < base
            /\ \A i \in DOMAIN tbclist' : tbclist'[i] < base ]_vars

=============================================================================
