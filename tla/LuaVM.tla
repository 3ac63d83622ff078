-------------------------------- MODULE LuaVM -------------------------------
(***************************************************************************)
(* The virtual machine (lvm.c) running a compiled program,                 *)
(* with calls and returns (ldo.c), upvalues and variables to be closed     *)
(* (lfunc.c) and variable arguments (ltm.c).  One action for each kind of  *)
(* instruction.  The stack keeps what was left in it.  Outside the program *)
(* there is one C function, which logs and returns its arguments, and the  *)
(* metamethods for arithmetic, comparison and closing of tables, which are *)
(* told by what they are called with.                                      *)
(***************************************************************************)
EXTENDS LuaValues, FiniteSets

CONSTANTS
    Programs,    \* the programs that may be run
    Code,        \* what each is compiled to, a record of its main function
    STACKSIZE    \* slots of the stack that the programs get along with

VARIABLES program, status, stack, top, ci, tables, closures, upvals, tbclist, out

heap == <<tables, closures, upvals, tbclist>>
vars == <<program, status, stack, top, ci, heap, out>>

ECHO == 90                      \* the global name of the C function
CFunction == Fun(0)
Used == <<"used">>              \* left behind by the call of a metamethod

-----------------------------------------------------------------------------
(* What the log shows of a value: a table is told by its first element.    *)
Label(t, v) == IF IsTab(v) THEN <<"tab", IF Num(1) \in DOMAIN t[v[2]] THEN t[v[2]][Num(1)] ELSE Nil>>
               ELSE IF IsFun(v) THEN <<"fun">> ELSE v
Show(t, v) == IF Tag(v) = "meta" THEN Meta(v[2][1], Label(t, v[2][2]), Label(t, v[2][3])) ELSE Label(t, v)
ShowAll(t, vs) == [i \in DOMAIN vs |-> Show(t, vs[i])]

Get(t, key) == IF key \in DOMAIN t THEN t[key] ELSE Nil
Put(t, key, v) == [x \in (DOMAIN t \cup {key}) \ (IF v = Nil THEN {key} ELSE {}) |-> IF x = key THEN v ELSE t[x]]

(* A border of a table, the only one when its elements are in a row.       *)
luaH_getn(t) == CHOOSE n \in 0 .. Cardinality(DOMAIN t) : Num(n + 1) \notin DOMAIN t /\ (n = 0 \/ Num(n) \in DOMAIN t)

(* luaV_concat joins from the right.                                       *)
luaV_concat(vs) ==
    LET J[i \in 1 .. Len(vs)] ==
            IF i = Len(vs) THEN vs[i] ELSE IF J[i + 1] = Error THEN Error ELSE Concat(vs[i], J[i + 1])
    IN J[1]

StrLess(s, t) ==
    \E i \in 0 .. Len(s) : /\ i < Len(t) /\ First(s, i) = First(t, i)
                           /\ i = Len(s) \/ s[i + 1] < t[i + 1]

(* Order: [ok, result, and whether a metamethod is called].                *)
Order(ev, a, b) ==
    LET both(P(_)) == P(a) /\ P(b)
        less == IF IsInt(a) THEN a[2] < b[2] ELSE StrLess(a[2], b[2])
        raw == both(IsInt) \/ both(IsStr)
    IN [ok |-> raw \/ IsTab(a) \/ IsTab(b), holds |-> raw => less \/ (ev = "LE" /\ a[2] = b[2]), tm |-> ~raw]

-----------------------------------------------------------------------------
Frame == ci[Len(ci)]
base == Frame.func + 1
cl == closures[stack[Frame.func][2]]
p == cl.p
I == p.code[Frame.pc]
K(n) == p.k[n]
R(n) == stack[base + n]
RKC == IF I.k THEN K(I.c) ELSE R(I.c)

Fetch(ops) == status = "running" /\ I.op \in ops
Goto(pc) == ci' = [ci EXCEPT ![Len(ci)].pc = pc]
SetR(n, v) == stack' = [stack EXCEPT ![base + n] = v]
Step == Goto(Frame.pc + 1)

Value(uv) == IF uv.open THEN stack[uv.level] ELSE uv.v

(* The variables to be closed from level on, and their closing, last first.*)
Pending(level) == {i \in DOMAIN tbclist : tbclist[i] >= level}
Below(level) == First(tbclist, Len(tbclist) - Cardinality(Pending(level)))
Closings(level, failed) ==
    [i \in 1 .. Cardinality(Pending(level)) |->
        <<"close", Show(tables, stack[tbclist[Len(tbclist) + 1 - i]]), failed>>]

(* An error ends the program: what is to be closed is closed (lua_pcall).  *)
Abort == status' = "error" /\ out' = out \o Closings(0, TRUE) /\ tbclist' = <<>>
Raise == Abort /\ UNCHANGED <<program, stack, top, ci, tables, closures, upvals>>

(* The value goes to register n, unless finding it failed.                 *)
Assign(n, v) ==
    IF v = Error THEN Raise
    ELSE SetR(n, v) /\ Step /\ UNCHANGED <<program, status, top, heap, out>>

-----------------------------------------------------------------------------
Load ==
    /\ Fetch({"MOVE", "LOADI", "LOADK", "LOADFALSE", "LOADTRUE", "GETUPVAL"})
    /\ Assign(I.a,
          CASE I.op = "MOVE" -> R(I.b)
            [] I.op = "LOADI" -> Num(I.b)
            [] I.op = "LOADK" -> K(I.b)
            [] I.op = "LOADFALSE" -> Bool(FALSE)
            [] I.op = "LOADTRUE" -> Bool(TRUE)
            [] I.op = "GETUPVAL" -> Value(upvals[cl.ups[I.b]]))

UnaryOp ==
    /\ Fetch({"NOT", "UNM", "LEN"})
    /\ LET v == R(I.b) IN
       Assign(I.a,
          CASE I.op = "NOT" -> Bool(l_isfalse(v))
            [] I.op = "UNM" -> IF IsInt(v) THEN Num(-v[2]) ELSE luaT_trybinTM("UNM", v, v)
            [] I.op = "LEN" -> CASE IsTab(v) -> Num(luaH_getn(tables[v[2]]))
                                 [] IsStr(v) -> Num(Len(v[2]))
                                 [] OTHER -> Error)

LoadFalseSkip ==
    /\ Fetch({"LFALSESKIP"})
    /\ SetR(I.a, Bool(FALSE)) /\ Goto(Frame.pc + 2)
    /\ UNCHANGED <<program, status, top, heap, out>>

LoadNil ==
    /\ Fetch({"LOADNIL"})
    /\ stack' = [n \in DOMAIN stack |-> IF n \in base + I.a .. base + I.a + I.b THEN Nil ELSE stack[n]]
    /\ Step
    /\ UNCHANGED <<program, status, top, heap, out>>

SetUpval ==
    /\ Fetch({"SETUPVAL"})
    /\ LET n == cl.ups[I.b]
           uv == upvals[n]
       IN IF uv.open THEN stack' = [stack EXCEPT ![uv.level] = R(I.a)] /\ UNCHANGED upvals
          ELSE upvals' = [upvals EXCEPT ![n].v = R(I.a)] /\ UNCHANGED stack
    /\ Step
    /\ UNCHANGED <<program, status, top, tables, closures, tbclist, out>>

GetTable ==
    /\ Fetch({"GETTABUP", "GETTABLE", "GETI", "GETFIELD"})
    /\ LET t == IF I.op = "GETTABUP" THEN Value(upvals[cl.ups[I.b]]) ELSE R(I.b)
           key == CASE I.op = "GETTABLE" -> R(I.c) [] I.op = "GETI" -> Num(I.c) [] OTHER -> K(I.c)
       IN Assign(I.a, IF IsTab(t) THEN Get(tables[t[2]], key) ELSE Error)

Self ==
    /\ Fetch({"SELF"})
    /\ LET t == R(I.b) IN
       IF ~IsTab(t) THEN Raise
       ELSE /\ stack' = [stack EXCEPT ![base + I.a + 1] = t, ![base + I.a] = Get(tables[t[2]], K(I.c))]
            /\ Step
            /\ UNCHANGED <<program, status, top, heap, out>>

SetTable ==
    /\ Fetch({"SETTABUP", "SETTABLE", "SETI", "SETFIELD"})
    /\ LET t == IF I.op = "SETTABUP" THEN Value(upvals[cl.ups[I.a]]) ELSE R(I.a)
           key == CASE I.op = "SETTABLE" -> R(I.b) [] I.op = "SETI" -> Num(I.b) [] OTHER -> K(I.b)
       IN IF ~IsTab(t) \/ key = Nil THEN Raise
          ELSE /\ tables' = [tables EXCEPT ![t[2]] = Put(@, key, RKC)]
               /\ Step
               /\ UNCHANGED <<program, status, stack, top, closures, upvals, tbclist, out>>

NewTable ==
    /\ Fetch({"NEWTABLE"})
    /\ tables' = Append(tables, <<>>)
    /\ SetR(I.a, Tab(Len(tables) + 1)) /\ Step
    /\ UNCHANGED <<program, status, top, closures, upvals, tbclist, out>>

SetList ==
    /\ Fetch({"SETLIST"})
    /\ LET n == IF I.b = 0 THEN top - (base + I.a) - 1 ELSE I.b
           S[i \in 0 .. n] == IF i = 0 THEN tables[R(I.a)[2]] ELSE Put(S[i - 1], Num(I.c + i), R(I.a + i))
       IN tables' = [tables EXCEPT ![R(I.a)[2]] = S[n]]
    /\ Step
    /\ UNCHANGED <<program, status, stack, top, closures, upvals, tbclist, out>>

-----------------------------------------------------------------------------
(* Arithmetic on numbers skips the instruction for the metamethod.         *)
Arithmetic ==
    /\ Fetch({"ARITH", "ARITHK", "ADDI", "SHRI", "SHLI"})
    /\ LET a == R(I.b)
           b == CASE I.op = "ARITH" -> R(I.c) [] I.op = "ARITHK" -> K(I.c) [] OTHER -> Num(I.c)
           v == CASE I.op = "ADDI" -> Arith("ADD", a, b)
                  [] I.op = "SHRI" -> Arith("SHR", a, b)
                  [] I.op = "SHLI" -> Arith("SHL", b, a)
                  [] OTHER -> Arith(I.ev, a, b)
       IN CASE IsInt(a) /\ IsInt(b) /\ v = Error -> Raise
            [] IsInt(a) /\ IsInt(b) /\ v # Error ->
                 SetR(I.a, v) /\ Goto(Frame.pc + 2) /\ UNCHANGED <<program, status, top, heap, out>>
            [] OTHER -> Step /\ UNCHANGED <<program, status, stack, top, heap, out>>

TryMetamethod ==
    /\ Fetch({"MMBIN", "MMBINI", "MMBINK"})
    /\ LET a == R(I.a)
           b == CASE I.op = "MMBIN" -> R(I.b) [] I.op = "MMBINI" -> Num(I.b) [] OTHER -> K(I.b)
       IN Assign(p.code[Frame.pc - 1].a,
                 IF I.k THEN luaT_trybinTM(I.ev, b, a) ELSE luaT_trybinTM(I.ev, a, b))

ConcatValues ==
    /\ Fetch({"CONCAT"})
    /\ Assign(I.a, luaV_concat([n \in 1 .. I.b |-> R(I.a + n - 1)]))

-----------------------------------------------------------------------------
(* docondjump: the jump that follows is taken or skipped.                  *)
CondJump(holds) == Goto(IF holds = I.k THEN p.code[Frame.pc + 1].b ELSE Frame.pc + 2)

Jump ==
    /\ Fetch({"JMP"}) /\ Goto(I.b)
    /\ UNCHANGED <<program, status, stack, top, heap, out>>

Equal ==
    /\ Fetch({"EQ", "EQK", "EQI"})
    /\ CondJump(R(I.a) = CASE I.op = "EQ" -> R(I.b) [] I.op = "EQK" -> K(I.b) [] I.op = "EQI" -> Num(I.b))
    /\ UNCHANGED <<program, status, stack, top, heap, out>>

Test ==
    /\ Fetch({"TEST"})
    /\ CondJump(~l_isfalse(R(I.a)))
    /\ UNCHANGED <<program, status, stack, top, heap, out>>

TestSet ==
    /\ Fetch({"TESTSET"})
    /\ IF l_isfalse(R(I.b)) = I.k THEN Goto(Frame.pc + 2) /\ UNCHANGED stack
       ELSE SetR(I.a, R(I.b)) /\ Goto(p.code[Frame.pc + 1].b)
    /\ UNCHANGED <<program, status, top, heap, out>>

Compare ==
    /\ Fetch({"ORDER", "ORDERI"})
    /\ LET flip == I.ev \in {"GT", "GE"}
           ev == CASE I.ev = "GT" -> "LT" [] I.ev = "GE" -> "LE" [] OTHER -> I.ev
           b == IF I.op = "ORDER" THEN R(I.b) ELSE Num(I.b)
           x == IF flip THEN b ELSE R(I.a)
           y == IF flip THEN R(I.a) ELSE b
           o == Order(ev, x, y)
       IN IF ~o.ok THEN Raise
          ELSE /\ out' = IF o.tm THEN Append(out, <<ev, Show(tables, x), Show(tables, y)>>) ELSE out
               /\ CondJump(o.holds)
               /\ UNCHANGED <<program, status, stack, top, heap>>

-----------------------------------------------------------------------------
(* luaF_findupval, luaF_closeupval and luaF_close.                         *)
findupval(uvs, level) ==
    LET open == {i \in DOMAIN uvs : uvs[i].open /\ uvs[i].level = level}
    IN IF open # {} THEN [uvs |-> uvs, i |-> CHOOSE i \in open : TRUE]
       ELSE [uvs |-> Append(uvs, [open |-> TRUE, level |-> level, v |-> Nil]), i |-> Len(uvs) + 1]

closeupval(uvs, level) ==
    [i \in DOMAIN uvs |-> IF uvs[i].open /\ uvs[i].level >= level
                          THEN [uvs[i] EXCEPT !.open = FALSE, !.v = stack[uvs[i].level]] ELSE uvs[i]]

(* Upvalues are closed first, then variables from the last on; the call of *)
(* a metamethod uses the slots above the variable.                         *)
Close(level) ==
    /\ upvals' = closeupval(upvals, level)
    /\ tbclist' = Below(level)
    /\ out' = out \o Closings(level, FALSE)
    /\ stack' = [s \in DOMAIN stack |->
                    IF \E i \in Pending(level) : s - tbclist[i] \in {1, 2} THEN Used ELSE stack[s]]

newtbcupval(level) ==
    IF l_isfalse(stack[level]) THEN tbclist ELSE Append(tbclist, level)
Closable(v) == l_isfalse(v) \/ IsTab(v)

CloseVariables ==
    /\ Fetch({"CLOSE"})
    /\ Close(base + I.a) /\ Step
    /\ UNCHANGED <<program, status, top, tables, closures>>

ToBeClosed ==
    /\ Fetch({"TBC"})
    /\ IF ~Closable(R(I.a)) THEN Raise
       ELSE /\ tbclist' = newtbcupval(base + I.a) /\ Step
            /\ UNCHANGED <<program, status, stack, top, tables, closures, upvals, out>>

(* pushclosure.                                                            *)
Closure ==
    /\ Fetch({"CLOSURE"})
    /\ LET ups == p.p[I.b].ups
           U[n \in 0 .. Len(ups)] ==
               IF n = 0 THEN [uvs |-> upvals, l |-> <<>>]
               ELSE LET f == IF ups[n].instack THEN findupval(U[n - 1].uvs, base + ups[n].idx)
                             ELSE [uvs |-> U[n - 1].uvs, i |-> cl.ups[ups[n].idx]]
                    IN [uvs |-> f.uvs, l |-> Append(U[n - 1].l, f.i)]
       IN /\ upvals' = U[Len(ups)].uvs
          /\ closures' = Append(closures, [p |-> p.p[I.b], ups |-> U[Len(ups)].l])
    /\ SetR(I.a, Fun(Len(closures) + 1)) /\ Step
    /\ UNCHANGED <<program, status, top, tables, tbclist, out>>

-----------------------------------------------------------------------------
(* Calls and returns.                                                      *)
Slots(from, to) == [n \in 1 .. to - from |-> stack[from + n - 1]]

(* moveresults: vals at res, as many as are wanted.                        *)
Moved(res, vals, wanted) ==
    LET n == IF wanted = LUA_MULTRET THEN Len(vals) ELSE wanted
    IN [s \in DOMAIN stack |-> IF s \in res .. res + n - 1
                               THEN IF s - res < Len(vals) THEN vals[s - res + 1] ELSE Nil ELSE stack[s]]
TopAfter(res, vals, wanted) == res + IF wanted = LUA_MULTRET THEN Len(vals) ELSE wanted

ArgsTop == IF I.b # 0 THEN base + I.a + I.b ELSE top
Logged(args) == Append(out, <<"call", ShowAll(tables, args)>>)

(* The closure f gets the arguments args, at func, in a frame like fr.     *)
Enter(func, f, args, frames) ==
    LET n == closures[f[2]].p.numparams
        t == func + 1 + IF Len(args) > n THEN Len(args) ELSE n
    IN /\ stack' = [s \in DOMAIN stack |->
                      CASE s = func -> f
                        [] s \in func + 1 .. t - 1 -> IF s - func <= Len(args) THEN args[s - func] ELSE Nil
                        [] OTHER -> stack[s]]
       /\ top' = t
       /\ ci' = frames

(* luaD_precall: f is called at func, in a new frame unless it is of C.    *)
Precall(func, f, args, nresults) ==
    LET frames == [ci EXCEPT ![Len(ci)].pc = @ + 1] IN
    CASE f = CFunction ->
           /\ out' = Logged(args)
           /\ stack' = Moved(func, args, nresults) /\ top' = TopAfter(func, args, nresults)
           /\ ci' = frames
           /\ UNCHANGED <<program, status, heap>>
      [] IsFun(f) /\ f # CFunction ->
           /\ Enter(func, f, args, Append(frames, [func |-> func, pc |-> 1, nresults |-> nresults, nextra |-> 0]))
           /\ UNCHANGED <<program, status, heap, out>>
      [] OTHER -> Raise

Call ==
    /\ Fetch({"CALL"})
    /\ LET func == base + I.a
       IN Precall(func, stack[func], Slots(func + 1, ArgsTop), I.c - 1)

(* luaD_poscall: back to the caller, or the end of the program.            *)
Leave(func, vals) ==
    /\ stack' = Moved(func, vals, Frame.nresults)
    /\ top' = TopAfter(func, vals, Frame.nresults)
    /\ IF Len(ci) = 1 THEN status' = "done" /\ UNCHANGED ci
       ELSE ci' = First(ci, Len(ci) - 1) /\ UNCHANGED status

Delta == IF I.c = 0 THEN 0 ELSE Frame.nextra + I.c

TailCall ==
    /\ Fetch({"TAILCALL"})
    /\ LET f == R(I.a)
           args == Slots(base + I.a + 1, ArgsTop)
           func == Frame.func - Delta
       IN /\ upvals' = IF I.k THEN closeupval(upvals, base) ELSE upvals
          /\ CASE f = CFunction ->
                    /\ out' = Logged(args) /\ Leave(func, args)
                    /\ UNCHANGED <<program, tables, closures, tbclist>>
               [] IsFun(f) /\ f # CFunction ->
                    /\ Enter(func, f, args, [ci EXCEPT ![Len(ci)].func = func, ![Len(ci)].pc = 1])
                    /\ UNCHANGED <<program, status, tables, closures, tbclist, out>>
               [] OTHER -> Abort /\ UNCHANGED <<program, stack, top, ci, tables, closures>>

(* OP_RETURN: the metamethods are called above the values to be returned.  *)
Return ==
    /\ Fetch({"RETURN", "RETURN0", "RETURN1"})
    /\ LET first == base + I.a
           to == CASE I.op = "RETURN0" -> first [] I.op = "RETURN1" -> first + 1
                   [] OTHER -> IF I.b = 0 THEN top ELSE first + I.b - 1
       IN Leave(Frame.func - Delta, Slots(first, to))
    /\ IF I.k THEN upvals' = closeupval(upvals, base) /\ tbclist' = Below(base) /\ out' = out \o Closings(base, FALSE)
       ELSE UNCHANGED <<upvals, tbclist, out>>
    /\ UNCHANGED <<program, tables, closures>>

-----------------------------------------------------------------------------
(* Loops.                                                                  *)
ForPrep ==
    /\ Fetch({"FORPREP"})
    /\ LET init == R(I.a)
           limit == R(I.a + 1)
           step == R(I.a + 2)
           skip == IF step[2] > 0 THEN init[2] > limit[2] ELSE init[2] < limit[2]
           count == IF step[2] > 0 THEN (limit[2] - init[2]) \div step[2]
                    ELSE (init[2] - limit[2]) \div (-(step[2] + 1) + 1)
       IN IF ~(IsInt(init) /\ IsInt(limit) /\ IsInt(step)) \/ step = Num(0) THEN Raise
          ELSE /\ IF skip THEN Goto(I.b + 1) /\ UNCHANGED stack
                  ELSE /\ stack' = [stack EXCEPT ![base + I.a] = Num(count), ![base + I.a + 1] = step,
                                                 ![base + I.a + 2] = init]
                       /\ Step
               /\ UNCHANGED <<program, status, top, heap, out>>

ForLoop ==
    /\ Fetch({"FORLOOP"})
    /\ LET count == R(I.a)[2] IN
       IF count > 0
       THEN /\ stack' = [stack EXCEPT ![base + I.a] = Num(count - 1),
                                      ![base + I.a + 2] = Num(@[2] + R(I.a + 1)[2])]
            /\ Goto(I.b)
       ELSE Step /\ UNCHANGED stack
    /\ UNCHANGED <<program, status, top, heap, out>>

(* The control variable and the value to be closed change places.          *)
TForPrep ==
    /\ Fetch({"TFORPREP"})
    /\ IF ~Closable(R(I.a + 3)) THEN Raise
       ELSE /\ stack' = [stack EXCEPT ![base + I.a + 2] = R(I.a + 3), ![base + I.a + 3] = R(I.a + 2)]
            /\ tbclist' = IF l_isfalse(R(I.a + 3)) THEN tbclist ELSE Append(tbclist, base + I.a + 2)
            /\ Goto(I.b)
            /\ UNCHANGED <<program, status, top, tables, closures, upvals, out>>

TForCall ==
    /\ Fetch({"TFORCALL"})
    /\ Precall(base + I.a + 3, R(I.a), <<R(I.a + 1), R(I.a + 3)>>, I.c)

TForLoop ==
    /\ Fetch({"TFORLOOP"})
    /\ IF R(I.a + 3) # Nil THEN Goto(I.b) ELSE Step
    /\ UNCHANGED <<program, status, stack, top, heap, out>>

-----------------------------------------------------------------------------
(* Variable arguments: hidden below the frame, or in a table.              *)
N == Str(<<110>>)

(* luaT_adjustvarargs.                                                     *)
VarargPrep ==
    /\ Fetch({"VARARGPREP"})
    /\ LET func == Frame.func
           total == top - func - 1
           nfix == p.numparams
           nextra == total - nfix
           extra == [x \in {Num(i) : i \in {j \in 1 .. nextra : stack[func + nfix + j] # Nil}} \cup {N} |->
                        IF x = N THEN Num(nextra) ELSE stack[func + nfix + x[2]]]
           new == func + total + 1
       IN IF p.vatab
          THEN /\ tables' = Append(tables, extra)
               /\ stack' = [stack EXCEPT ![top] = Tab(Len(tables) + 1),
                                         ![func + nfix + 1] = Tab(Len(tables) + 1)]
               /\ top' = top + 1 /\ Step
          ELSE /\ stack' = [s \in DOMAIN stack |->
                              CASE s \in new .. new + nfix -> stack[func + s - new]
                                [] s = new + nfix + 1 -> Nil
                                [] s \in func + 1 .. func + nfix -> Nil
                                [] OTHER -> stack[s]]
               /\ top' = new + nfix + 1
               /\ ci' = [ci EXCEPT ![Len(ci)] = [@ EXCEPT !.func = new, !.nextra = nextra, !.pc = @ + 1]]
               /\ UNCHANGED tables
    /\ UNCHANGED <<program, status, closures, upvals, tbclist, out>>

(* luaT_getvarargs.                                                        *)
Vararg ==
    /\ Fetch({"VARARG"})
    /\ LET h == tables[R(I.b)[2]]
           count == Get(h, N)
           n == IF I.k THEN count[2] ELSE Frame.nextra
           vals == [i \in 1 .. n |-> IF I.k THEN Get(h, Num(i)) ELSE stack[Frame.func - n + i - 1]]
       IN IF I.k /\ (~IsInt(count) \/ n < 0) THEN Raise
          ELSE /\ stack' = Moved(base + I.a, vals, I.c - 1)
               /\ top' = IF I.c = 0 THEN base + I.a + n ELSE top
               /\ Step
               /\ UNCHANGED <<program, status, heap, out>>

(* luaT_getvararg.                                                         *)
GetVararg ==
    /\ Fetch({"GETVARG"})
    /\ LET key == R(I.c) IN
       Assign(I.a, CASE IsInt(key) -> IF key[2] \in 1 .. Frame.nextra
                                      THEN stack[Frame.func - Frame.nextra + key[2] - 1] ELSE Nil
                     [] key = N -> Num(Frame.nextra)
                     [] OTHER -> Nil)

ErrNNil ==
    /\ Fetch({"ERRNNIL"})
    /\ IF R(I.a) # Nil THEN Raise
       ELSE Step /\ UNCHANGED <<program, status, stack, top, heap, out>>

-----------------------------------------------------------------------------
Start(prog, g) ==
    /\ program = prog
    /\ status = IF g.err = "" THEN "running" ELSE IF g.err = "freereg" THEN "broken" ELSE "rejected"
    /\ stack = [s \in 0 .. STACKSIZE - 1 |-> IF s = 0 THEN Fun(1) ELSE Nil]
    /\ top = 1
    /\ ci = <<[func |-> 0, pc |-> 1, nresults |-> LUA_MULTRET, nextra |-> 0]>>
    /\ tables = <<[x \in {Str(<<ECHO>>)} |-> CFunction]>>
    /\ closures = <<[p |-> g, ups |-> <<1>>]>>
    /\ upvals = <<[open |-> FALSE, level |-> 0, v |-> Tab(1)]>>
    /\ tbclist = <<>> /\ out = <<>>

Init == \E prog \in Programs : \E g \in {Code[prog]} : Start(prog, g)

Finished == status # "running" /\ UNCHANGED vars

Next ==
    \/ Finished
    \/ Load \/ UnaryOp \/ LoadFalseSkip \/ LoadNil \/ SetUpval \/ GetTable \/ Self \/ SetTable \/ NewTable \/ SetList
    \/ Arithmetic \/ TryMetamethod \/ ConcatValues \/ Jump \/ Equal \/ Test \/ TestSet \/ Compare
    \/ CloseVariables \/ ToBeClosed \/ Closure \/ Call \/ TailCall \/ Return
    \/ ForPrep \/ ForLoop \/ TForPrep \/ TForCall \/ TForLoop
    \/ VarargPrep \/ Vararg \/ GetVararg \/ ErrNNil

Spec == Init /\ [][Next]_vars

=============================================================================
