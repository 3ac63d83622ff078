------------------------------ MODULE LuaParser -----------------------------
(***************************************************************************)
(* The Lua compiler (lparser.c) on syntax trees: variables and scopes,     *)
(* upvalues, blocks, gotos, functions and the statements, in the order in  *)
(* which the parser meets them.  A name is a character code; the function  *)
(* being compiled holds the enclosing one as prev.                         *)
(***************************************************************************)
EXTENDS LuaCode

CONSTANT MAX_FSTACK   \* registers of a function

ENV == 1              \* the name _ENV
AnyName == 0          \* the name in "global *"
BREAK == 2            \* the label that break goes to

Last1(s) == s[Len(s)]

-----------------------------------------------------------------------------
(* Functions: what is known of one while it is compiled.                   *)
open_func(prev, main) ==
    [prev |-> prev, main |-> main, code |-> <<>>, k |-> <<>>, p |-> <<>>, ups |-> <<>>,
     freereg |-> 0, maxstacksize |-> 2, lasttarget |-> 1, numparams |-> 0,
     vararg |-> FALSE, vatab |-> FALSE, needclose |-> FALSE,
     actvar |-> <<>>, nactvar |-> 0, labels |-> <<>>, gts |-> <<>>, e |-> <<>>, err |-> "",
     bl |-> <<[isloop |-> 0, nactvar |-> 0, firstlabel |-> 0, firstgoto |-> 0, upval |-> FALSE, insidetbc |-> FALSE]>>]

Proto(g) ==
    [code |-> g.code, k |-> g.k, p |-> g.p, ups |-> g.ups, numparams |-> g.numparams,
     vararg |-> g.vararg, vatab |-> g.vatab, maxstacksize |-> g.maxstacksize, err |-> g.err]

-----------------------------------------------------------------------------
(* Variables.                                                              *)
new_varkind(g, name, kind) ==
    [g EXCEPT !.actvar = Append(@, [name |-> name, kind |-> kind, ridx |-> 0, val |-> Nil])]
new_localvar(g, name) == new_varkind(g, name, "VDKREG")

RECURSIVE adjustlocalvars(_, _)
adjustlocalvars(g, nvars) ==
    IF nvars = 0 THEN g
    ELSE adjustlocalvars([g EXCEPT !.nactvar = @ + 1, !.actvar[g.nactvar + 1].ridx = luaY_nvarstack(g)], nvars - 1)

varglobal(v) == v.kind \in {"GDKREG", "GDKCONST"}

(* searchvar: the innermost variable n of g, of the first i.  What it has  *)
(* seen of global declarations is the v of an expression that is "VVOID".  *)
RECURSIVE searchvar(_, _, _, _)
searchvar(g, n, i, info) ==
    LET vd == g.actvar[i] IN
    IF i = 0 THEN Exp("VVOID", info)
    ELSE IF varglobal(vd)
         THEN IF vd.name = n THEN Exp("VGLOBAL", vd.kind)
              ELSE searchvar(g, n, i - 1,
                      CASE vd.name = AnyName /\ info \in {"none", "undeclared"} -> vd.kind
                        [] vd.name # AnyName /\ info = "none" -> "undeclared"
                        [] OTHER -> info)
    ELSE IF vd.name # n THEN searchvar(g, n, i - 1, info)
    ELSE IF vd.kind = "RDKCTC" THEN Exp("VCONST", vd.val)
    ELSE [Exp(IF vd.kind = "RDKVAVAR" THEN "VVARGVAR" ELSE "VLOCAL", vd.ridx) EXCEPT !.tab = i]

(* A slip: the returns of the function need not close anything.            *)
markupvalBlockOnly(g, level) ==
    [g EXCEPT !.bl[CHOOSE i \in DOMAIN g.bl : g.bl[i].nactvar < level /\ \A j \in DOMAIN g.bl : j > i => g.bl[j].nactvar >= level].upval = TRUE]

(* markupval: the block where the variable lives has to close it.          *)
markupval(g, level) ==
    LET b == CHOOSE i \in DOMAIN g.bl :
                 g.bl[i].nactvar < level /\ \A j \in DOMAIN g.bl : j > i => g.bl[j].nactvar >= level
    IN [g EXCEPT !.bl[b].upval = TRUE, !.needclose = TRUE]

marktobeclosed(g) ==
    [g EXCEPT !.bl[Len(g.bl)].upval = TRUE, !.bl[Len(g.bl)].insidetbc = TRUE, !.needclose = TRUE]

searchupvalue(g, n) == {i \in DOMAIN g.ups : g.ups[i].name = n}

newupvalue(g, n, v) ==
    [g EXCEPT !.ups = Append(@,
        [name |-> n, instack |-> v.k = "VLOCAL", idx |-> v.v,
         kind |-> IF v.k = "VLOCAL" THEN g.prev.actvar[v.tab].kind ELSE g.prev.ups[v.v].kind])]

(* singlevaraux: the function, with its upvalues, and the variable.        *)
RECURSIVE singlevaraux(_, _, _, _)
singlevaraux(g, n, base, info) ==
    LET v == searchvar(g, n, g.nactvar, info)
        ups == searchupvalue(g, n)
        outer == singlevaraux(g.prev, n, FALSE, v.v)
        h == [g EXCEPT !.prev = outer.g]
    IN CASE v.k # "VVOID" /\ base -> [g |-> g, e |-> v]
         [] v.k = "VVARGVAR" /\ ~base -> [g |-> markupval(needvatab(g), v.tab), e |-> [v EXCEPT !.k = "VLOCAL"]]
         [] v.k = "VLOCAL" /\ ~base -> [g |-> markupval(g, v.tab), e |-> v]
         [] v.k \in {"VCONST", "VGLOBAL"} /\ ~base -> [g |-> g, e |-> v]
         [] v.k = "VVOID" /\ ups # {} -> [g |-> g, e |-> Exp("VUPVAL", CHOOSE i \in ups : TRUE)]
         [] v.k = "VVOID" /\ ups = {} /\ g.main -> [g |-> g, e |-> v]
         [] OTHER -> IF outer.e.k \in {"VLOCAL", "VUPVAL"}
                     THEN [g |-> newupvalue(h, n, outer.e), e |-> Exp("VUPVAL", Len(h.ups) + 1)]
                     ELSE [g |-> h, e |-> outer.e]

(* A global variable is an element of _ENV.                                *)
buildglobal(g, n) ==
    LET v == singlevaraux(g, ENV, TRUE, "none")
        i == Top(g) + 1
        h == luaK_exp2anyregup(Push(IF v.e.k = "VGLOBAL" THEN Error2(v.g, "_ENV is global") ELSE v.g, v.e), i)
    IN Pop(luaK_indexed(Push(h, Exp("VKSTR", <<n>>)), i, i + 1))

buildvar(g, n) ==
    LET v == singlevaraux(g, n, TRUE, "none")
        h == buildglobal(IF v.e.v = "undeclared" THEN Error2(v.g, "not declared") ELSE v.g, n)
    IN IF v.e.k \notin {"VVOID", "VGLOBAL"} THEN Push(v.g, v.e)
       ELSE IF v.e.v = "GDKCONST" THEN [h EXCEPT !.e[Top(h)].ro = TRUE] ELSE h

(* check_readonly: constants, loop variables and the like are not assigned.*)
check_readonly(g, i) ==
    LET e == g.e[i]
        h == IF e.k = "VVARGIND" THEN [needvatab(g) EXCEPT !.e[i].k = "VINDEXED"] ELSE g
        readonly ==
            CASE e.k = "VCONST" -> TRUE
              [] e.k \in {"VLOCAL", "VVARGVAR"} -> g.actvar[e.tab].kind # "VDKREG"
              [] e.k = "VUPVAL" -> g.ups[e.v].kind # "VDKREG"
              [] e.k \in {"VINDEXUP", "VINDEXSTR", "VINDEXED"} -> e.ro
              [] OTHER -> FALSE
    IN IF readonly THEN Error2(h, "const") ELSE h

-----------------------------------------------------------------------------
(* Blocks, labels and gotos.                                               *)
enterblock(g, isloop) ==
    [g EXCEPT !.bl = Append(@, [isloop |-> isloop, nactvar |-> g.nactvar, firstlabel |-> Len(g.labels),
                                firstgoto |-> Len(g.gts), upval |-> FALSE,
                                insidetbc |-> Last1(g.bl).insidetbc])]

newgotoentry(g, name) ==
    LET pc == Pc(g) + 1
        h == luaK_code(luaK_jump(g), Ins("CLOSE", 0, 1, 0, FALSE))
    IN [h EXCEPT !.gts = Append(@, [name |-> name, nactvar |-> g.nactvar, close |-> FALSE, pc |-> pc])]

createlabel(g, name, last) ==
    [luaK_getlabel(g) EXCEPT !.labels = Append(@,
        [name |-> name, nactvar |-> IF last THEN Last1(g.bl).nactvar ELSE g.nactvar, pc |-> Pc(g) + 1])]

(* closegoto: the goto gt, in a block with upvalues bup, to its label.     *)
closegoto(g, gt, label, bup) ==
    LET close == gt.close \/ (label.nactvar < gt.nactvar /\ bup)
        h == [g EXCEPT !.code[gt.pc + 1] = g.code[gt.pc],
                       !.code[gt.pc] = Ins("CLOSE", reglevel(g, label.nactvar), 0, 0, FALSE)]
    IN IF gt.nactvar < label.nactvar THEN Error2(g, "jumps into the scope")
       ELSE IF close THEN luaK_patchlist(h, {gt.pc + 1}, label.pc)
       ELSE luaK_patchlist(g, {gt.pc}, label.pc)

findlabel(g, name, first) == {i \in first + 1 .. Len(g.labels) : g.labels[i].name = name}

(* solvegotos: those of block bl that find no label wait for the outer one.*)
RECURSIVE solvegotos(_, _, _)
solvegotos(g, bl, igt) ==
    LET gt == g.gts[igt]
        found == findlabel(g, gt.name, bl.firstlabel)
        h == closegoto(g, gt, g.labels[CHOOSE i \in found : TRUE], bl.upval)
    IN IF igt > Len(g.gts) THEN [g EXCEPT !.labels = First(@, bl.firstlabel)]
       ELSE IF found # {}
            THEN solvegotos([h EXCEPT !.gts = First(@, igt - 1) \o SubSeq(@, igt + 1, Len(@))], bl, igt)
            ELSE solvegotos([g EXCEPT !.gts[igt].close = gt.close \/ (bl.upval /\ reglevel(g, gt.nactvar) > reglevel(g, bl.nactvar)),
                                      !.gts[igt].nactvar = bl.nactvar], bl, igt + 1)

leaveblock(g) ==
    LET bl == Last1(g.bl)
        outermost == Len(g.bl) = 1
        stklevel == reglevel(g, bl.nactvar)
        g1 == IF ~outermost /\ bl.upval THEN luaK_code(g, Ins("CLOSE", stklevel, 0, 0, FALSE)) ELSE g
        g2 == [g1 EXCEPT !.freereg = stklevel, !.nactvar = bl.nactvar]
        g3 == solvegotos(IF bl.isloop = 2 THEN createlabel(g2, BREAK, FALSE) ELSE g2, bl, bl.firstgoto + 1)
        g4 == IF outermost /\ g3.gts # <<>> THEN Error2(g3, "no visible label") ELSE g3
    IN [g4 EXCEPT !.bl = First(@, Len(@) - 1), !.actvar = First(@, bl.nactvar)]

close_func(g) == luaK_finish(leaveblock(luaK_ret(g, luaY_nvarstack(g), 0)))

-----------------------------------------------------------------------------
(* adjust_assign: nexps values, the last of them e[i], for nvars variables.*)
adjust_assign(g0, nvars, nexps, i) ==
    LET needed == nvars - nexps
        g == luaK_checkstack(g0, needed)
        extra == IF needed + 1 < 0 THEN 0 ELSE needed + 1
        v == IF g.e[i].k = "VVOID" THEN g ELSE luaK_exp2nextreg(g, i)
        h == IF hasmultret(g.e[i].k) THEN luaK_setreturns(g, i, extra)
             ELSE IF needed > 0 THEN luaK_nil(v, v.freereg, needed) ELSE v
    IN IF needed > 0 THEN luaK_reserveregs(h, needed) ELSE [h EXCEPT !.freereg = @ + needed]

maxtostore(g) ==
    LET numfreeregs == MAX_FSTACK - g.freereg
    IN CASE numfreeregs >= 160 -> numfreeregs \div 5
         [] numfreeregs >= 80 /\ numfreeregs < 160 -> 10
         [] OTHER -> 1

(* Expressions: Expr(g, x) puts that of the tree x on top of g.e.          *)
RECURSIVE Expr(_, _), ExpList(_, _), Fields(_, _, _, _), StatList(_, _, _), Stat(_, _, _)

explist(g, l) == ExpList(g, l)
ExpList(g, l) ==
    IF Len(l) = 1 THEN Expr(g, l[1])
    ELSE ExpList(Pop(luaK_exp2nextreg(Expr(g, l[1]), Top(g) + 1)), Tail(l))

(* funcargs: the call of e[i] with the arguments l.                        *)
funcargs(g, i, l) ==
    LET a == explist(g, l)
        base == g.e[i].v
        multret == l # <<>> /\ hasmultret(a.e[i + 1].k)
        h == IF l = <<>> THEN g
             ELSE IF multret THEN Pop(luaK_setreturns(a, i + 1, LUA_MULTRET))
             ELSE Pop(luaK_exp2nextreg(a, i + 1))
        nparams == IF multret THEN LUA_MULTRET ELSE h.freereg - (base + 1)
        c == luaK_code(h, Ins("CALL", base, nparams + 1, 2, FALSE))
    IN [SetE(c, i, Exp("VCALL", Pc(c))) EXCEPT !.freereg = base + 1]

recfield(g, i, f) ==
    LET t == Push(g, g.e[i])
        k == luaK_exp2val(Expr(t, f[2]), i + 2)
        x == Pop(luaK_indexed(k, i + 1, i + 2))
        v == Expr(x, f[3])
    IN [Pop(Pop(luaK_storevar(v, x.e[i + 1], i + 2))) EXCEPT !.freereg = g.freereg]

(* closelistfield: the pending item, e[i + 1], is put into its register.   *)
closelistfield(g, i, cc) ==
    LET h == Pop(luaK_exp2nextreg(g, i + 1))
    IN IF cc.tostore >= cc.maxtostore
       THEN [g |-> luaK_setlist(h, g.e[i].v, cc.na, cc.tostore),
             cc |-> [cc EXCEPT !.na = @ + cc.tostore, !.tostore = 0, !.pending = FALSE]]
       ELSE [g |-> h, cc |-> [cc EXCEPT !.pending = FALSE]]

lastlistfield(g, i, cc) ==
    LET h == IF cc.pending THEN Pop(luaK_exp2nextreg(g, i + 1)) ELSE g
    IN IF cc.tostore = 0 THEN g
       ELSE IF cc.pending /\ hasmultret(g.e[i + 1].k)
            THEN luaK_setlist(Pop(luaK_setreturns(g, i + 1, LUA_MULTRET)), g.e[i].v, cc.na, LUA_MULTRET)
            ELSE luaK_setlist(h, g.e[i].v, cc.na, cc.tostore)

Fields(g, i, l, cc) ==
    LET c == IF cc.pending THEN closelistfield(g, i, cc) ELSE [g |-> g, cc |-> cc]
        f == l[1]
    IN IF l = <<>> THEN lastlistfield(g, i, cc)
       ELSE IF f[1] = "pair" THEN Fields(recfield(c.g, i, f), i, Tail(l), c.cc)
       ELSE Fields(Expr(c.g, f[2]), i, Tail(l), [c.cc EXCEPT !.pending = TRUE, !.tostore = @ + 1])

constructor(g, l) ==
    LET h == Push(luaK_code(g, Ins("NEWTABLE", g.freereg, 0, 0, FALSE)), Exp("VNONRELOC", g.freereg))
    IN Fields(luaK_reserveregs(h, 1), Top(h), l,
              [na |-> 0, tostore |-> 0, maxtostore |-> maxtostore(g), pending |-> FALSE])

setvararg(g) == luaK_code([g EXCEPT !.vararg = TRUE], Ins("VARARGPREP", 0, 0, 0, FALSE))

(* Parameters; va is "no", "yes" or the name of the vararg table.          *)
RECURSIVE Params(_, _)
Params(g, l) == IF l = <<>> THEN g ELSE Params(new_localvar(g, l[1]), Tail(l))

parlist(g, params, va) ==
    LET h1 == Params(g, params)
        h2 == IF va = <<>> THEN h1 ELSE new_varkind(h1, va[1], IF va[1] = AnyName THEN "VDKREG" ELSE "RDKVAVAR")
        h3 == adjustlocalvars(h2, Len(params))
        h4 == [h3 EXCEPT !.numparams = h3.nactvar]
        h5 == IF va = <<>> THEN h4 ELSE adjustlocalvars(setvararg(h4), 1)
    IN luaK_reserveregs(h5, h5.nactvar)

SELF == 3

(* body: the closure of function f = <<parameters, vararg, statements>>.   *)
body(g, f, ismethod) ==
    LET n0 == open_func(g, FALSE)
        n1 == IF ismethod THEN adjustlocalvars(new_localvar(n0, SELF), 1) ELSE n0
        n2 == close_func(StatList(parlist(n1, f[1], f[2]), f[3], FALSE))
        outer == [n2.prev EXCEPT !.p = Append(@, Proto(n2)), !.err = IF @ = "" THEN n2.err ELSE @]
        i == Top(g) + 1
    IN luaK_exp2nextreg(Reloc(Push(outer, Exp("VVOID", 0)), i, Ins("CLOSURE", 0, Len(outer.p), 0, FALSE)), i)

Expr(g, x) ==
    LET i == Top(g) + 1
        a == Expr(g, x[2])
    IN CASE x[1] = "nil" -> Push(g, Exp("VNIL", 0))
         [] x[1] = "true" -> Push(g, Exp("VTRUE", 0))
         [] x[1] = "false" -> Push(g, Exp("VFALSE", 0))
         [] x[1] = "int" -> Push(g, Exp("VKINT", x[2]))
         [] x[1] = "str" -> Push(g, Exp("VKSTR", x[2]))
         [] x[1] = "vararg" ->
              LET h == IF g.vararg THEN g ELSE Error2(g, "cannot use '...'")
              IN Push(luaK_code(h, Ins("VARARG", 0, g.numparams, 1, FALSE)), Exp("VVARARG", Pc(g) + 1))
         [] x[1] = "name" -> buildvar(g, x[2])
         [] x[1] = "paren" -> luaK_dischargevars(a, i)
         [] x[1] = "index" ->
              Pop(luaK_indexed(luaK_exp2val(Expr(luaK_exp2anyregup(a, i), x[3]), i + 1), i, i + 1))
         [] x[1] = "call" -> funcargs(luaK_exp2nextreg(a, i), i, x[3])
         [] x[1] = "method" ->
              funcargs(Pop(luaK_self(Push(a, Exp("VKSTR", <<x[3]>>)), i, i + 1)), i, x[4])
         [] x[1] = "func" -> body(g, x[2], FALSE)
         [] x[1] = "un" -> luaK_prefix(Expr(g, x[3]), x[2], i)
         [] x[1] = "bin" ->
              Pop(luaK_posfix(Expr(luaK_infix(Expr(g, x[3]), x[2], i), x[4]), x[2], i, i + 1))
         [] x[1] = "table" -> constructor(g, x[2])

-----------------------------------------------------------------------------
(* Assignments.  The variables to the left are g.e[first] and those after. *)
vkisindexed(k) == k \in {"VINDEXED", "VVARGIND", "VINDEXUP", "VINDEXI", "VINDEXSTR"}

(* check_conflict: the local variable or upvalue e[i], assigned last, is   *)
(* copied when an element of it, or under it, is assigned before.          *)
check_conflict(g, first, i) ==
    LET v == g.e[i]
        extra == g.freereg
        isTable(e) == IF e.k = "VINDEXUP" THEN v.k = "VUPVAL" /\ e.tab = v.v
                      ELSE vkisindexed(e.k) /\ v.k = "VLOCAL" /\ e.tab = v.v
        isIndex(e) == e.k = "VINDEXED" /\ v.k = "VLOCAL" /\ e.v = v.v
        fixed(e) == [e EXCEPT !.tab = IF isTable(e) THEN extra ELSE @,
                              !.v = IF isIndex(e) THEN extra ELSE @,
                              !.k = IF isTable(e) /\ e.k = "VINDEXUP" THEN "VINDEXSTR" ELSE @]
        copy == IF v.k = "VLOCAL" THEN Ins("MOVE", extra, v.v, 0, FALSE) ELSE Ins("GETUPVAL", extra, v.v, 0, FALSE)
    IN IF \E j \in first .. i - 1 : isTable(g.e[j]) \/ isIndex(g.e[j])
       THEN luaK_reserveregs(luaK_code([g EXCEPT !.e = [j \in DOMAIN g.e |-> IF j \in first .. i - 1 THEN fixed(g.e[j]) ELSE g.e[j]]], copy), 1)
       ELSE g

RECURSIVE Targets(_, _, _), StoreDown(_, _, _)
Targets(g, l, first) ==
    LET i == Top(g) + 1
        h == check_readonly(Expr(g, l[1]), i)
    IN IF l = <<>> THEN g
       ELSE Targets(IF vkisindexed(h.e[i].k) THEN h ELSE check_conflict(h, first, i), Tail(l), first)

storevartop(g, var) ==
    Pop(luaK_storevar(Push(g, Exp("VNONRELOC", g.freereg - 1)), var, Top(g) + 1))

StoreDown(g, first, i) == IF i < first THEN g ELSE StoreDown(Pop(storevartop(g, g.e[i])), first, i - 1)

restassign(g, vars, exps) ==
    LET first == Top(g) + 1
        t == Targets(g, vars, first)
        i == Top(t) + 1
        h == explist(t, exps)
    IN IF Len(exps) # Len(vars) THEN StoreDown(Pop(adjust_assign(h, Len(vars), Len(exps), i)), first, i - 1)
       ELSE StoreDown(Pop(Pop(luaK_storevar(luaK_setoneret(h, i), h.e[i - 1], i))), first, i - 2)

(* explist, or no expression at all.                                       *)
OptExps(g, l) == IF l = <<>> THEN Push(g, Exp("VVOID", 0)) ELSE explist(g, l)

-----------------------------------------------------------------------------
(* Declarations.  A declared name is <<name, kind>>.                       *)
RECURSIVE Declare(_, _)
Declare(g, l) == IF l = <<>> THEN g ELSE Declare(new_varkind(g, l[1][1], l[1][2]), Tail(l))

ToClose(vars) == {i \in DOMAIN vars : vars[i][2] = "RDKTOCLOSE"}

checktoclose(g, level) ==
    luaK_code(marktobeclosed(g), Ins("TBC", reglevel(g, level) - 1, 0, 0, FALSE))

localstat(g0, vars, exps) ==
    LET n == Len(vars)
        i == Top(g0) + 1
        g == OptExps(Declare(IF Cardinality(ToClose(vars)) > 1 THEN Error2(g0, "multiple to-be-closed") ELSE g0, vars), exps)
        vidx == g0.nactvar + n
        ctc == n = Len(exps) /\ vars[n][2] = "RDKCONST" /\ luaK_exp2const(g.e[i])
        h == IF ctc
             THEN LET c == adjustlocalvars([g EXCEPT !.actvar[vidx].kind = "RDKCTC", !.actvar[vidx].val = ConstValue(g.e[i])], n - 1)
                  IN Pop([c EXCEPT !.nactvar = @ + 1])
             ELSE Pop(adjustlocalvars(adjust_assign(g, n, Len(exps), i), n))
    IN IF ToClose(vars) = {} THEN h ELSE checktoclose(h, g0.nactvar + CHOOSE t \in ToClose(vars) : TRUE)

localfunc(g, name, f) ==
    Pop(body(adjustlocalvars(new_localvar(g, name), 1), f, FALSE))

(* checkglobal: a global that is declared with a value must be nil before. *)
checkglobal(g, n) ==
    LET i == Top(g) + 1
        h == luaK_exp2anyreg(buildglobal(g, n), i)
    IN Pop(freeexp(luaK_code(h, Ins("ERRNNIL", h.e[i].v, 0, 0, FALSE)), i))

globalnames(g0, vars, exps) ==
    LET names == [i \in DOMAIN vars |-> vars[i][1]]
        n == Len(vars)
        g == Declare(g0, vars)
        b[i \in 0 .. n] == IF i = 0 THEN g ELSE buildglobal(b[i - 1], names[i])
        v == adjust_assign(explist(b[n], exps), n, Len(exps), Top(b[n]) + 1)
        s[i \in 0 .. n] ==
            IF i = 0 THEN Pop(v)
            ELSE LET c == checkglobal(s[i - 1], names[n + 1 - i]) IN Pop(storevartop(c, c.e[Top(c)]))
        h == IF exps = <<>> THEN g ELSE s[n]
    IN [h EXCEPT !.nactvar = @ + n]

globalall(g, kind) == [new_varkind(g, AnyName, kind) EXCEPT !.nactvar = @ + 1]

globalfunc(g0, name, f) ==
    LET g == buildglobal([new_varkind(g0, name, "GDKREG") EXCEPT !.nactvar = @ + 1], name)
        i == Top(g)
        b == body(g, f, FALSE)
        var == g.e[i]
    IN Pop(Pop(luaK_storevar(checkglobal(b, name), var, i + 1)))

-----------------------------------------------------------------------------
(* Statements.                                                             *)
cond(g, x) ==
    LET i == Top(g) + 1
        h == Expr(g, x)
    IN luaK_goiftrue(IF h.e[i].k = "VNIL" THEN [h EXCEPT !.e[i].k = "VFALSE"] ELSE h, i)

block(g, l) == leaveblock(StatList(enterblock(g, 0), l, FALSE))

JumpBack(g, target) == LET h == luaK_jump(g) IN luaK_patchlist(h, {Pc(h)}, target)

whilestat(g0, x, l) ==
    LET g == luaK_getlabel(g0)
        c == cond(g, x)
        condexit == c.e[Top(c)].f
    IN luaK_patchtohere(leaveblock(JumpBack(block(enterblock(Pop(c), 1), l), g.lasttarget)), condexit)

repeatstat(g0, l, x) ==
    LET g == luaK_getlabel(g0)
        c == cond(StatList(enterblock(enterblock(g, 1), 0), l, TRUE), x)
        bl2 == Last1(c.bl)
        condexit == c.e[Top(c)].f
        h == leaveblock(Pop(c))
        h1 == luaK_patchtohere(luaK_jump(h), condexit)
        h2 == luaK_jump(luaK_code(h1, Ins("CLOSE", reglevel(h, bl2.nactvar), 0, 0, FALSE)))
        h3 == luaK_patchtohere(h2, {Pc(h) + 1})
    IN leaveblock(IF bl2.upval THEN luaK_patchlist(h3, {Pc(h2)}, g.lasttarget)
                  ELSE luaK_patchlist(h, condexit, g.lasttarget))

(* Branches are pairs of condition and statements; els is <<>> or <<l>>.   *)
RECURSIVE Branches(_, _, _, _)
Branches(g, bs, els, escapes) ==
    LET c == cond(g, bs[1][1])
        b == block(Pop(c), bs[1][2])
        more == Len(bs) > 1 \/ els # <<>>
        j == IF more THEN luaK_jump(b) ELSE b
        h == luaK_patchtohere(j, c.e[Top(c)].f)
    IN IF bs = <<>> THEN luaK_patchtohere(IF els = <<>> THEN g ELSE block(g, els[1]), escapes)
       ELSE Branches(h, Tail(bs), els, escapes \cup IF more THEN {Pc(j)} ELSE {})

forbody(g, base, l, nvars, isgen) ==
    LET prep == Pc(g) + 1
        h == enterblock([luaK_code(g, Ins(IF isgen THEN "TFORPREP" ELSE "FORPREP", base, 0, 0, FALSE)) EXCEPT !.freereg = @ - 1], 0)
        b == luaK_getlabel(leaveblock(block(luaK_reserveregs(adjustlocalvars(h, nvars), nvars), l)))
        p == [b EXCEPT !.code[prep].b = b.lasttarget]
        c == IF isgen THEN luaK_code(p, Ins("TFORCALL", base, 0, nvars, FALSE)) ELSE p
    IN luaK_code(c, Ins(IF isgen THEN "TFORLOOP" ELSE "FORLOOP", base, prep + 1, 0, FALSE))

exp1(g, x) == Pop(luaK_exp2nextreg(Expr(g, x), Top(g) + 1))

fornum(g0, name, exps, l) ==
    LET g == enterblock(g0, 1)
        v == Declare(g, <<<<AnyName, "VDKREG">>, <<AnyName, "VDKREG">>, <<name, "RDKCONST">>>>)
        e2 == exp1(exp1(v, exps[1]), exps[2])
        e3 == IF Len(exps) = 3 THEN exp1(e2, exps[3]) ELSE luaK_reserveregs(luaK_int(e2, e2.freereg, 1), 1)
    IN leaveblock(forbody(adjustlocalvars(e3, 2), g.freereg, l, 1, FALSE))

forlist(g0, names, exps, l) ==
    LET g == enterblock(g0, 1)
        state == [i \in 1 .. 3 |-> <<AnyName, "VDKREG">>]
        vars == [i \in DOMAIN names |-> <<names[i], IF i = 1 THEN "RDKCONST" ELSE "VDKREG">>]
        v == explist(Declare(g, state \o vars), exps)
        a == Pop(adjust_assign(v, 4, Len(exps), Top(v)))
    IN leaveblock(forbody(luaK_checkstack(marktobeclosed(adjustlocalvars(a, 3)), 2), g.freereg, l, Len(names), TRUE))

breakstat(g) ==
    LET loops == {i \in DOMAIN g.bl : g.bl[i].isloop > 0}
        b == CHOOSE i \in loops : \A j \in loops : j <= i
    IN IF loops = {} THEN Error2(g, "break outside loop") ELSE newgotoentry([g EXCEPT !.bl[b].isloop = 2], BREAK)

(* A label is the last statement if only labels follow it in its block,    *)
(* which "until" does not end.                                             *)
labelstat(g, name, rest, inrepeat) ==
    createlabel(IF findlabel(g, name, 0) # {} THEN Error2(g, "label already defined") ELSE g, name,
                ~inrepeat /\ \A i \in DOMAIN rest : rest[i][1] = "label")

retstat(g, l) ==
    LET h == explist(g, l)
        i == Top(g) + 1
        e == h.e[i]
        first == luaY_nvarstack(g)
        multi == luaK_setreturns(h, i, LUA_MULTRET)
        tail == e.k = "VCALL" /\ Len(l) = 1 /\ ~Last1(g.bl).insidetbc
        one == luaK_exp2anyreg(h, i)
    IN CASE l = <<>> -> luaK_ret(g, first, 0)
         [] l # <<>> /\ hasmultret(e.k) ->
              luaK_ret(Pop(IF tail THEN [multi EXCEPT !.code[e.v].op = "TAILCALL"] ELSE multi), first, LUA_MULTRET)
         [] Len(l) = 1 /\ ~hasmultret(e.k) -> luaK_ret(Pop(one), one.e[i].v, 1)
         [] OTHER -> luaK_ret(Pop(luaK_exp2nextreg(h, i)), first, Len(l))

funcstat(g, var, f, ismethod) ==
    LET i == Top(g) + 1
        v == check_readonly(Expr(g, var), i)
    IN Pop(Pop(luaK_storevar(body(v, f, ismethod), v.e[i], i + 1)))

callstat(g, x) == LET h == Expr(g, x) IN Pop([h EXCEPT !.code[h.e[Top(h)].v].c = 1])

Stat(g, l, inrepeat) ==
    LET s == l[1] IN
    CASE s[1] = "if" -> Branches(g, s[2], s[3], {})
      [] s[1] = "while" -> whilestat(g, s[2], s[3])
      [] s[1] = "do" -> block(g, s[2])
      [] s[1] = "fornum" -> fornum(g, s[2], s[3], s[4])
      [] s[1] = "forin" -> forlist(g, s[2], s[3], s[4])
      [] s[1] = "repeat" -> repeatstat(g, s[2], s[3])
      [] s[1] = "function" -> funcstat(g, s[2], s[3], s[4])
      [] s[1] = "local" -> localstat(g, s[2], s[3])
      [] s[1] = "localfunc" -> localfunc(g, s[2], s[3])
      [] s[1] = "global" -> globalnames(g, s[2], s[3])
      [] s[1] = "globalall" -> globalall(g, s[2])
      [] s[1] = "globalfunc" -> globalfunc(g, s[2], s[3])
      [] s[1] = "label" -> labelstat(g, s[2], Tail(l), inrepeat)
      [] s[1] = "return" -> retstat(g, s[2])
      [] s[1] = "break" -> breakstat(g)
      [] s[1] = "goto" -> newgotoentry(g, s[2])
      [] s[1] = "assign" -> restassign(g, s[2], s[3])
      [] s[1] = "call" -> callstat(g, s[2])

(* After each statement the temporaries are free again.                    *)
StatList(g, l, inrepeat) ==
    LET h == Stat(g, l, inrepeat)
        done == [h EXCEPT !.freereg = luaY_nvarstack(h)]
    IN IF l = <<>> \/ g.err # "" THEN g
       ELSE IF l[1][1] = "return" THEN done
       ELSE StatList(done, Tail(l), inrepeat)

(* luaY_parser: the main function, with _ENV as its upvalue; err says what *)
(* the program was refused for.                                            *)
luaY_parser(l) ==
    LET g == setvararg(open_func(<<>>, TRUE))
        env == [name |-> ENV, instack |-> TRUE, idx |-> 0, kind |-> "VDKREG"]
    IN Proto(close_func(StatList([g EXCEPT !.ups = <<env>>], l, FALSE)))

=============================================================================
