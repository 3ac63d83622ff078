------------------------------- MODULE LuaCode ------------------------------
(***************************************************************************)
(* The code generator of the Lua compiler (lcode.c).  An operator takes    *)
(* the function being compiled, g, to g after the call; the expressions    *)
(* under work are g.e[1], g.e[2], ...  A jump list is the set of its       *)
(* instructions, a jump holds the place it goes to (0 while it is pending) *)
(* and numbers are integers, so that there are no float instructions.      *)
(***************************************************************************)
EXTENDS LuaValues, FiniteSets

CONSTANTS
    OFFSET_sC, MAXARG_C, OFFSET_sBx,  \* limits of immediate operands
    MAXINDEXRK                        \* the largest constant that is an operand

NO_REG == 99

(* Instructions: with no event, with one, and one with a wide operand.     *)
InsE(op, ev, a, b, c, k) == [op |-> op, ev |-> ev, a |-> a, b |-> b, c |-> c, k |-> k]
Ins(op, a, b, c, k) == InsE(op, "", a, b, c, k)

luaK_code(g, i) == [g EXCEPT !.code = Append(@, i)]
Pc(g) == Len(g.code)

(* All the instructions anew; TLC makes them when they are joined to none. *)
Recode(g, new) == [g EXCEPT !.code = new \o <<>>]

(* Expressions.                                                            *)
Exp(k, v) == [k |-> k, v |-> v, tab |-> 0, ro |-> FALSE, t |-> {}, f |-> {}]
hasjumps(e) == e.t # e.f
SetE(g, i, e) == [g EXCEPT !.e[i] = e]
To(g, i, k, v) == [g EXCEPT !.e[i].k = k, !.e[i].v = v]
Top(g) == Len(g.e)
Push(g, e) == [g EXCEPT !.e = Append(@, e)]
Pop(g) == [g EXCEPT !.e = SubSeq(@, 1, Len(@) - 1)]
Numeral(e) == e.k = "VKINT" /\ e.t = {} /\ e.f = {}

(* Codes an instruction for e[i] whose register is not chosen yet.         *)
Reloc(g, i, ins) == To(luaK_code(g, ins), i, "VRELOC", Pc(g) + 1)

Error2(g, what) == IF g.err = "" THEN [g EXCEPT !.err = what] ELSE g

-----------------------------------------------------------------------------
(* Variables in registers (lparser.c).                                     *)
varinreg(v) == v.kind \in {"VDKREG", "RDKCONST", "RDKVAVAR", "RDKTOCLOSE"}

reglevel(g, nvar) ==
    LET R[n \in 0 .. nvar] ==
            IF n = 0 THEN 0 ELSE IF varinreg(g.actvar[n]) THEN g.actvar[n].ridx + 1 ELSE R[n - 1]
    IN R[nvar]

luaY_nvarstack(g) == reglevel(g, g.nactvar)

luaK_checkstack(g, n) == [g EXCEPT !.maxstacksize = IF g.freereg + n > @ THEN g.freereg + n ELSE @]

luaK_reserveregs(g, n) == [luaK_checkstack(g, n) EXCEPT !.freereg = @ + n]

(* Temporaries are freed last first: lcode.c asserts it.                   *)
freereg(g, reg) ==
    IF reg < luaY_nvarstack(g) THEN g
    ELSE IF reg = g.freereg - 1 THEN [g EXCEPT !.freereg = @ - 1] ELSE Error2(g, "freereg")

freeregs(g, r1, r2) ==
    IF r1 > r2 THEN freereg(freereg(g, r1), r2) ELSE freereg(freereg(g, r2), r1)

freeexp(g, i) == IF g.e[i].k = "VNONRELOC" THEN freereg(g, g.e[i].v) ELSE g

freeexps(g, i, j) ==
    CASE g.e[i].k # "VNONRELOC" -> freeexp(g, j)
      [] g.e[j].k # "VNONRELOC" -> freeexp(g, i)
      [] OTHER -> freeregs(g, g.e[i].v, g.e[j].v)

-----------------------------------------------------------------------------
(* Constants: one index for each value (k2proto).                          *)
KIndex(g, v) == IF \E i \in DOMAIN g.k : g.k[i] = v THEN CHOOSE i \in DOMAIN g.k : g.k[i] = v ELSE Len(g.k) + 1

k2proto(g, v) == IF \E i \in DOMAIN g.k : g.k[i] = v THEN g ELSE [g EXCEPT !.k = Append(@, v)]

fitsC(n) == -OFFSET_sC <= n /\ n <= MAXARG_C - OFFSET_sC
fitsBx(n) == -OFFSET_sBx <= n /\ n <= OFFSET_sBx

luaK_codek(g, reg, v) == luaK_code(k2proto(g, v), Ins("LOADK", reg, KIndex(g, v), 0, FALSE))

luaK_int(g, reg, n) == IF fitsBx(n) THEN luaK_code(g, Ins("LOADI", reg, n, 0, FALSE)) ELSE luaK_codek(g, reg, Num(n))

(* The value of a constant expression, as k2proto keeps it.                *)
ConstValue(e) ==
    CASE e.k = "VTRUE" -> Bool(TRUE) [] e.k = "VFALSE" -> Bool(FALSE) [] e.k = "VNIL" -> Nil
      [] e.k = "VKINT" -> Num(e.v) [] e.k = "VKSTR" -> Str(e.v) [] e.k = "VCONST" -> e.v

IsConst(e) == e.k \in {"VTRUE", "VFALSE", "VNIL", "VKINT", "VKSTR"}

luaK_exp2const(e) == e.t = {} /\ e.f = {} /\ (IsConst(e) \/ e.k = "VCONST")

const2exp(v) ==
    CASE v = Nil -> Exp("VNIL", 0)
      [] v = Bool(TRUE) -> Exp("VTRUE", 0)
      [] v = Bool(FALSE) -> Exp("VFALSE", 0)
      [] IsInt(v) -> Exp("VKINT", v[2])
      [] IsStr(v) -> Exp("VKSTR", v[2])

str2K(g, i) ==
    LET v == Str(g.e[i].v) IN To(k2proto(g, v), i, "VK", KIndex(g, v))

(* luaK_exp2K makes e[i] an operand in the constants, where it can.        *)
ToK(g, i) ==
    LET e == g.e[i]
    IN IF luaK_exp2const(e) THEN To(k2proto(g, ConstValue(e)), i, "VK", KIndex(g, ConstValue(e))) ELSE g

luaK_exp2K(g, i) ==
    LET e == g.e[i] IN
    /\ e.t = {} /\ e.f = {}
    /\ IsConst(e) \/ e.k = "VK"
    /\ (IF e.k = "VK" THEN e.v ELSE KIndex(g, ConstValue(e))) <= MAXINDEXRK

-----------------------------------------------------------------------------
(* luaK_nil: nils that follow one another are loaded by one instruction.   *)
Previous(g) == IF Pc(g) + 1 > g.lasttarget /\ Pc(g) > 0 THEN g.code[Pc(g)] ELSE Ins("INVALID", 0, 0, 0, FALSE)

luaK_nil(g, from, n) ==
    LET l == from + n - 1
        p == Previous(g)
        pl == p.a + p.b
        least == IF p.a < from THEN p.a ELSE from
        last == IF pl > l THEN pl ELSE l
    IN IF p.op = "LOADNIL" /\ ((p.a <= from /\ from <= pl + 1) \/ (from <= p.a /\ p.a <= l + 1))
       THEN [g EXCEPT !.code[Pc(g)] = Ins("LOADNIL", least, last - least, 0, FALSE)]
       ELSE luaK_code(g, Ins("LOADNIL", from, n - 1, 0, FALSE))

-----------------------------------------------------------------------------
(* Jumps.                                                                  *)
luaK_jump(g) == luaK_code(g, Ins("JMP", 0, 0, 0, FALSE))
luaK_getlabel(g) == [g EXCEPT !.lasttarget = Pc(g) + 1]

TestMode == {"EQ", "EQK", "EQI", "ORDER", "ORDERI", "TEST", "TESTSET"}

getjumpcontrol(g, pc) == IF pc > 1 /\ g.code[pc - 1].op \in TestMode THEN pc - 1 ELSE pc

TestSets(g, list) == {n \in list : g.code[getjumpcontrol(g, n)].op = "TESTSET"}

(* A slip: a jump that leaves its value behind goes where the others go.   *)
patchtestregNever(i, reg) == Ins("TEST", i.b, 0, 0, i.k)

(* patchtestreg: the tested value is wanted in reg, or it is not wanted.   *)
patchtestreg(i, reg) ==
    IF reg # NO_REG /\ reg # i.b THEN [i EXCEPT !.a = reg] ELSE Ins("TEST", i.b, 0, 0, i.k)

(* Jumps that leave a value go to vtarget, the others to dtarget.          *)
patchlistaux(g, list, vtarget, reg, dtarget) ==
    LET ts == TestSets(g, list)
    IN Recode(g, [i \in DOMAIN g.code |->
            IF i \in list THEN [g.code[i] EXCEPT !.b = IF i \in ts THEN vtarget ELSE dtarget]
            ELSE IF i + 1 \in ts THEN patchtestreg(g.code[i], reg)
            ELSE g.code[i]])

removevalues(g, list) ==
    LET ts == TestSets(g, list)
    IN Recode(g, [i \in DOMAIN g.code |-> IF i + 1 \in ts THEN patchtestreg(g.code[i], NO_REG) ELSE g.code[i]])

luaK_patchlist(g, list, target) == patchlistaux(g, list, target, NO_REG, target)
luaK_patchtohere(g, list) == LET h == luaK_getlabel(g) IN luaK_patchlist(h, list, h.lasttarget)

need_value(g, list) == \E n \in list : g.code[getjumpcontrol(g, n)].op # "TESTSET"

-----------------------------------------------------------------------------
(* Multiple results.                                                       *)
hasmultret(k) == k \in {"VCALL", "VVARARG"}

luaK_setreturns(g, i, nresults) ==
    LET pc == g.e[i].v
    IN IF g.e[i].k = "VCALL" THEN [g EXCEPT !.code[pc].c = nresults + 1]
       ELSE luaK_reserveregs([g EXCEPT !.code[pc].c = nresults + 1, !.code[pc].a = g.freereg], 1)

luaK_setoneret(g, i) ==
    LET pc == g.e[i].v
    IN CASE g.e[i].k = "VCALL" -> To(g, i, "VNONRELOC", g.code[pc].a)
         [] g.e[i].k = "VVARARG" -> To([g EXCEPT !.code[pc].c = 2], i, "VRELOC", pc)
         [] OTHER -> g

needvatab(g) == [g EXCEPT !.vatab = TRUE]

luaK_dischargevars(g, i) ==
    LET e == g.e[i] IN
    CASE e.k = "VCONST" -> SetE(g, i, const2exp(e.v))
      [] e.k = "VVARGVAR" -> To(needvatab(g), i, "VNONRELOC", e.v)
      [] e.k = "VLOCAL" -> To(g, i, "VNONRELOC", e.v)
      [] e.k = "VUPVAL" -> Reloc(g, i, Ins("GETUPVAL", 0, e.v, 0, FALSE))
      [] e.k = "VINDEXUP" -> Reloc(g, i, Ins("GETTABUP", 0, e.tab, e.v, FALSE))
      [] e.k = "VINDEXI" -> Reloc(freereg(g, e.tab), i, Ins("GETI", 0, e.tab, e.v, FALSE))
      [] e.k = "VINDEXSTR" -> Reloc(freereg(g, e.tab), i, Ins("GETFIELD", 0, e.tab, e.v, FALSE))
      [] e.k = "VINDEXED" -> Reloc(freeregs(g, e.tab, e.v), i, Ins("GETTABLE", 0, e.tab, e.v, FALSE))
      [] e.k = "VVARGIND" -> Reloc(freeregs(g, e.tab, e.v), i, Ins("GETVARG", 0, e.tab, e.v, FALSE))
      [] OTHER -> luaK_setoneret(g, i)

discharge2reg(g0, i, reg) ==
    LET g == luaK_dischargevars(g0, i)
        e == g.e[i]
        load(op) == luaK_code(g, Ins(op, reg, 0, 0, FALSE))
        done(h) == To(h, i, "VNONRELOC", reg)
    IN CASE e.k = "VNIL" -> done(luaK_nil(g, reg, 1))
         [] e.k = "VFALSE" -> done(load("LOADFALSE"))
         [] e.k = "VTRUE" -> done(load("LOADTRUE"))
         [] e.k = "VKSTR" -> done(luaK_codek(g, reg, Str(e.v)))
         [] e.k = "VK" -> done(luaK_code(g, Ins("LOADK", reg, e.v, 0, FALSE)))
         [] e.k = "VKINT" -> done(luaK_int(g, reg, e.v))
         [] e.k = "VRELOC" -> done([g EXCEPT !.code[e.v].a = reg])
         [] e.k = "VNONRELOC" ->
              done(IF reg = e.v THEN g ELSE luaK_code(g, Ins("MOVE", reg, e.v, 0, FALSE)))
         [] OTHER -> g

discharge2anyreg(g, i) ==
    IF g.e[i].k = "VNONRELOC" THEN g
    ELSE LET h == luaK_reserveregs(g, 1) IN discharge2reg(h, i, h.freereg - 1)

(* exp2reg: the value of e[i] in reg, with all the jumps that leave it.    *)
exp2reg(g0, i, reg) ==
    LET g1 == discharge2reg(g0, i, reg)
        e1 == g1.e[i]
        t == IF e1.k = "VJMP" THEN e1.t \cup {e1.v} ELSE e1.t
        need == need_value(g1, t) \/ need_value(g1, e1.f)
        g2 == IF e1.k = "VJMP" THEN g1 ELSE luaK_jump(g1)
        fj == IF e1.k = "VJMP" THEN {} ELSE {Pc(g2)}
        g3 == luaK_code(luaK_code(g2, Ins("LFALSESKIP", reg, 0, 0, FALSE)), Ins("LOADTRUE", reg, 0, 0, FALSE))
        g4 == luaK_getlabel(IF need THEN luaK_patchtohere(g3, fj) ELSE g1)
        final == g4.lasttarget
        g5 == patchlistaux(patchlistaux(g4, e1.f, final, reg, Pc(g2) + 1), t, final, reg, Pc(g2) + 2)
    IN SetE(IF t # e1.f THEN g5 ELSE g1, i, Exp("VNONRELOC", reg))

luaK_exp2nextreg(g, i) ==
    LET h == luaK_reserveregs(freeexp(luaK_dischargevars(g, i), i), 1) IN exp2reg(h, i, h.freereg - 1)

luaK_exp2anyreg(g, i) ==
    LET h == luaK_dischargevars(g, i)
        e == h.e[i]
    IN IF e.k = "VNONRELOC" /\ ~hasjumps(e) THEN h
       ELSE IF e.k = "VNONRELOC" /\ e.v >= luaY_nvarstack(h) THEN exp2reg(h, i, e.v)
       ELSE luaK_exp2nextreg(h, i)

luaK_exp2anyregup(g, i) ==
    IF g.e[i].k \notin {"VUPVAL", "VVARGVAR"} \/ hasjumps(g.e[i]) THEN luaK_exp2anyreg(g, i) ELSE g

luaK_exp2val(g, i) ==
    IF g.e[i].k = "VJMP" \/ hasjumps(g.e[i]) THEN luaK_exp2anyreg(g, i) ELSE luaK_dischargevars(g, i)

exp2RK(g, i) == IF luaK_exp2K(g, i) THEN ToK(g, i) ELSE luaK_exp2anyreg(g, i)

codeABRK(g, op, a, b, i) ==
    LET h == exp2RK(g, i) IN luaK_code(h, Ins(op, a, b, h.e[i].v, h.e[i].k = "VK"))

(* luaK_storevar: the value e[i] into the variable var.                    *)
luaK_storevar(g, var, i) ==
    CASE var.k = "VLOCAL" -> exp2reg(freeexp(g, i), i, var.v)
      [] var.k = "VUPVAL" ->
            LET h == luaK_exp2anyreg(g, i) IN freeexp(luaK_code(h, Ins("SETUPVAL", h.e[i].v, var.v, 0, FALSE)), i)
      [] var.k = "VINDEXUP" -> freeexp(codeABRK(g, "SETTABUP", var.tab, var.v, i), i)
      [] var.k = "VINDEXI" -> freeexp(codeABRK(g, "SETI", var.tab, var.v, i), i)
      [] var.k = "VINDEXSTR" -> freeexp(codeABRK(g, "SETFIELD", var.tab, var.v, i), i)
      [] var.k = "VVARGIND" -> freeexp(codeABRK(needvatab(g), "SETTABLE", var.tab, var.v, i), i)
      [] var.k = "VINDEXED" -> freeexp(codeABRK(g, "SETTABLE", var.tab, var.v, i), i)
      [] OTHER -> g   \* the program has been refused

-----------------------------------------------------------------------------
(* Conditions.                                                             *)
negatecondition(g, i) ==
    LET pc == getjumpcontrol(g, g.e[i].v) IN [g EXCEPT !.code[pc].k = ~@]

condjump(g, ins) == luaK_jump(luaK_code(g, ins))

jumponcond(g, i, cond) ==
    LET e == g.e[i]
        last == g.code[e.v]
        h == freeexp(discharge2anyreg(g, i), i)
    IN IF e.k = "VRELOC" /\ last.op = "NOT"
       THEN condjump([g EXCEPT !.code = SubSeq(@, 1, Len(@) - 1)], Ins("TEST", last.b, 0, 0, ~cond))
       ELSE condjump(h, Ins("TESTSET", NO_REG, h.e[i].v, 0, cond))

(* Falls through when e[i] is true; its jumps when false are kept in f.    *)
luaK_goiftrue(g0, i) ==
    LET g == luaK_dischargevars(g0, i)
        e == g.e[i]
        h == CASE e.k = "VJMP" -> negatecondition(g, i)
               [] e.k \in {"VK", "VKINT", "VKSTR", "VTRUE"} -> g
               [] OTHER -> jumponcond(g, i, FALSE)
        pc == CASE e.k = "VJMP" -> {e.v}
                [] e.k \in {"VK", "VKINT", "VKSTR", "VTRUE"} -> {}
                [] OTHER -> {Pc(h)}
    IN [luaK_patchtohere(h, e.t) EXCEPT !.e[i].f = e.f \cup pc, !.e[i].t = {}]

luaK_goiffalse(g0, i) ==
    LET g == luaK_dischargevars(g0, i)
        e == g.e[i]
        h == IF e.k \in {"VJMP", "VNIL", "VFALSE"} THEN g ELSE jumponcond(g, i, TRUE)
        pc == CASE e.k = "VJMP" -> {e.v}
                [] e.k \in {"VNIL", "VFALSE"} -> {}
                [] OTHER -> {Pc(h)}
    IN [luaK_patchtohere(h, e.f) EXCEPT !.e[i].t = e.t \cup pc, !.e[i].f = {}]

codenot(g, i) ==
    LET e == g.e[i]
        h == CASE e.k \in {"VNIL", "VFALSE"} -> To(g, i, "VTRUE", 0)
               [] e.k \in {"VK", "VKINT", "VKSTR", "VTRUE"} -> To(g, i, "VFALSE", 0)
               [] e.k = "VJMP" -> negatecondition(g, i)
               [] OTHER -> LET r == freeexp(discharge2anyreg(g, i), i)
                           IN Reloc(r, i, Ins("NOT", 0, r.e[i].v, 0, FALSE))
    IN removevalues(removevalues([h EXCEPT !.e[i].t = e.f, !.e[i].f = e.t], e.f), e.t)

-----------------------------------------------------------------------------
(* Indexed expressions.                                                    *)
isKstr(g, i) == g.e[i].k = "VK" /\ ~hasjumps(g.e[i]) /\ g.e[i].v <= MAXINDEXRK /\ IsStr(g.k[g.e[i].v])
isCint(e) == Numeral(e) /\ 0 <= e.v /\ e.v <= MAXARG_C
isSCint(e) == Numeral(e) /\ fitsC(e.v)

fillidxk(g, i, tab, idx, k) == [g EXCEPT !.e[i].tab = tab, !.e[i].v = idx, !.e[i].k = k, !.e[i].ro = FALSE]

(* luaK_indexed: e[i] becomes its element under the key e[j].              *)
luaK_indexed(g0, i, j) ==
    LET g1 == IF g0.e[j].k = "VKSTR" THEN str2K(g0, j) ELSE g0
        g == IF g1.e[i].k = "VUPVAL" /\ ~isKstr(g1, j) THEN luaK_exp2anyreg(g1, i) ELSE g1
        t == g.e[i]
        r == luaK_exp2anyreg(g, j)
    IN CASE t.k = "VUPVAL" -> fillidxk(g, i, t.v, g.e[j].v, "VINDEXUP")
         [] t.k = "VVARGVAR" -> fillidxk(r, i, t.v, r.e[j].v, "VVARGIND")
         [] isKstr(g, j) -> fillidxk(g, i, t.v, g.e[j].v, "VINDEXSTR")
         [] isCint(g.e[j]) -> fillidxk(g, i, t.v, g.e[j].v, "VINDEXI")
         [] OTHER -> fillidxk(r, i, t.v, r.e[j].v, "VINDEXED")

(* luaK_self: the method e[j] of e[i] and e[i] itself in two registers.    *)
luaK_self(g0, i, j) ==
    LET g1 == luaK_exp2anyreg(g0, i)
        ereg == g1.e[i].v
        g2 == freeexp(g1, i)
        base == g2.freereg
        g == luaK_reserveregs(To(g2, i, "VNONRELOC", base), 2)
        k == ToK(g, j)
        r == luaK_exp2anyreg(g, j)
    IN IF luaK_exp2K(g, j) THEN freeexp(luaK_code(k, Ins("SELF", base, ereg, k.e[j].v, FALSE)), j)
       ELSE freeexp(luaK_code(luaK_code(r, Ins("MOVE", base + 1, ereg, 0, FALSE)),
                              Ins("GETTABLE", base, ereg, r.e[j].v, FALSE)), j)

-----------------------------------------------------------------------------
(* Operators.                                                              *)
swapexps(g, i, j) == [g EXCEPT !.e[i] = g.e[j], !.e[j] = g.e[i]]

CanFold(ev, e1, e2) == Numeral(e1) /\ Numeral(e2) /\ validop(ev, e2.v)

codeunexpval(g, op, i) ==
    LET h == freeexp(luaK_exp2anyreg(g, i), i) IN Reloc(h, i, Ins(op, 0, h.e[i].v, 0, FALSE))

(* finishbinexpval: the instruction, and the one that tries a metamethod.  *)
finishbinexpval(g, i, j, op, ev, v2, flip, mmop, tm) ==
    LET h == luaK_exp2anyreg(g, i)
        v1 == h.e[i].v
        r == freeexps(luaK_code(h, InsE(op, ev, 0, v1, v2, FALSE)), i, j)
    IN luaK_code(To(r, i, "VRELOC", Pc(r)), InsE(mmop, tm, v1, v2, 0, flip))

codebinexpval(g, ev, i, j) ==
    LET h == luaK_exp2anyreg(g, j) IN finishbinexpval(h, i, j, "ARITH", ev, h.e[j].v, FALSE, "MMBIN", ev)

codebini(g, op, i, j, flip, tm) == finishbinexpval(g, i, j, op, "", g.e[j].v, flip, "MMBINI", tm)

codebinK(g, ev, i, j, flip) == finishbinexpval(g, i, j, "ARITHK", ev, g.e[j].v, flip, "MMBINK", ev)

(* a - n is a + (-n), for numbers only: a metamethod is given n.           *)
CanNegate(e) == Numeral(e) /\ fitsC(e.v) /\ fitsC(-e.v)

finishbinexpneg(g, i, j, op, tm) ==
    LET v2 == g.e[j].v
        h == finishbinexpval(g, i, j, op, "", -v2, FALSE, "MMBINI", tm)
    IN [h EXCEPT !.code[Pc(h)].b = v2]

codebinNoK(g, ev, i, j, flip) == codebinexpval(IF flip THEN swapexps(g, i, j) ELSE g, ev, i, j)

codearith(g, ev, i, j, flip) ==
    IF Numeral(g.e[j]) /\ luaK_exp2K(g, j) THEN codebinK(ToK(g, j), ev, i, j, flip)
    ELSE codebinNoK(g, ev, i, j, flip)

codecommutative(g, ev, i, j) ==
    LET flip == Numeral(g.e[i])
        h == IF flip THEN swapexps(g, i, j) ELSE g
    IN IF ev = "ADD" /\ isSCint(h.e[j]) THEN codebini(h, "ADDI", i, j, flip, "ADD")
       ELSE codearith(h, ev, i, j, flip)

codebitwise(g, ev, i, j) ==
    LET flip == g.e[i].k = "VKINT"
        h == IF flip THEN swapexps(g, i, j) ELSE g
    IN IF h.e[j].k = "VKINT" /\ luaK_exp2K(h, j) THEN codebinK(ToK(h, j), ev, i, j, flip)
       ELSE codebinNoK(h, ev, i, j, flip)

codeshift(g, ev, i, j) ==
    CASE ev = "SHL" /\ isSCint(g.e[i]) -> codebini(swapexps(g, i, j), "SHLI", i, j, TRUE, "SHL")
      [] ev = "SHL" /\ ~isSCint(g.e[i]) /\ CanNegate(g.e[j]) -> finishbinexpneg(g, i, j, "SHRI", "SHL")
      [] ev = "SHR" /\ isSCint(g.e[j]) -> codebini(g, "SHRI", i, j, FALSE, "SHR")
      [] OTHER -> codebinexpval(g, ev, i, j)

(* A comparison becomes a test and a jump taken when it holds.             *)
Compared(g, i, ins) == To(condjump(g, ins), i, "VJMP", Pc(g) + 2)

codeorder(g, ev, i, j) ==
    LET r1 == luaK_exp2anyreg(g, i)
        r2 == luaK_exp2anyreg(g, j)
        r == luaK_exp2anyreg(r1, j)
    IN CASE isSCint(g.e[j]) ->
              Compared(freeexps(r1, i, j), i, InsE("ORDERI", ev, r1.e[i].v, g.e[j].v, 0, TRUE))
         [] ~isSCint(g.e[j]) /\ isSCint(g.e[i]) ->
              Compared(freeexps(r2, i, j), i,
                       InsE("ORDERI", IF ev = "LT" THEN "GT" ELSE "GE", r2.e[j].v, g.e[i].v, 0, TRUE))
         [] OTHER -> Compared(freeexps(r, i, j), i, InsE("ORDER", ev, r.e[i].v, r.e[j].v, 0, TRUE))

codeeq(g0, ev, i, j) ==
    LET g1 == IF g0.e[i].k # "VNONRELOC" THEN swapexps(g0, i, j) ELSE g0
        g == luaK_exp2anyreg(g1, i)
        r == exp2RK(g, j)
        eq == ev = "EQ"
    IN IF isSCint(g.e[j]) THEN Compared(freeexps(g, i, j), i, Ins("EQI", g.e[i].v, g.e[j].v, 0, eq))
       ELSE Compared(freeexps(r, i, j), i,
                     Ins(IF r.e[j].k = "VK" THEN "EQK" ELSE "EQ", r.e[i].v, r.e[j].v, 0, eq))

luaK_prefix(g0, ev, i) ==
    LET g == luaK_dischargevars(g0, i)
    IN CASE ev = "NOT" -> codenot(g, i)
         [] ev = "UNM" /\ Numeral(g.e[i]) -> To(g, i, "VKINT", -g.e[i].v)
         [] OTHER -> codeunexpval(g, ev, i)

ArithOps == {"ADD", "SUB", "MUL", "IDIV", "MOD", "BAND", "SHL", "SHR"}

luaK_infix(g0, ev, i) ==
    LET g == luaK_dischargevars(g0, i)
        e == g.e[i]
    IN CASE ev = "AND" -> luaK_goiftrue(g, i)
         [] ev = "OR" -> luaK_goiffalse(g, i)
         [] ev = "CONCAT" -> luaK_exp2nextreg(g, i)
         [] ev \in ArithOps -> IF Numeral(e) THEN g ELSE luaK_exp2anyreg(g, i)
         [] ev \in {"EQ", "NE"} -> IF Numeral(e) THEN g ELSE exp2RK(g, i)
         [] ev \in {"LT", "LE", "GT", "GE"} -> IF isSCint(e) THEN g ELSE luaK_exp2anyreg(g, i)

(* A concatenation to the right of another is part of it.                  *)
codeconcat(g, i, j) ==
    LET p == Previous(g)
        base == g.e[i].v
    IN IF p.op = "CONCAT" THEN [freeexp(g, j) EXCEPT !.code[Pc(g)] = Ins("CONCAT", base, p.b + 1, 0, FALSE)]
       ELSE freeexp(luaK_code(g, Ins("CONCAT", base, 2, 0, FALSE)), j)

luaK_posfix(g0, ev, i, j) ==
    LET g == luaK_dischargevars(g0, j)
        e1 == g.e[i]
        e2 == g.e[j]
    IN CASE ev \in ArithOps /\ CanFold(ev, e1, e2) -> To(g, i, "VKINT", IntArith(ev, e1.v, e2.v))
         [] ev = "AND" -> SetE(g, i, [e2 EXCEPT !.f = e2.f \cup e1.f])
         [] ev = "OR" -> SetE(g, i, [e2 EXCEPT !.t = e2.t \cup e1.t])
         [] ev = "CONCAT" -> codeconcat(luaK_exp2nextreg(g, j), i, j)
         [] ev \in ArithOps /\ ~CanFold(ev, e1, e2) ->
              CASE ev \in {"ADD", "MUL"} -> codecommutative(g, ev, i, j)
                [] ev = "SUB" /\ CanNegate(e2) -> finishbinexpneg(g, i, j, "ADDI", "SUB")
                [] ev = "BAND" -> codebitwise(g, ev, i, j)
                [] ev \in {"SHL", "SHR"} -> codeshift(g, ev, i, j)
                [] OTHER -> codearith(g, ev, i, j, FALSE)
         [] ev \in {"EQ", "NE"} -> codeeq(g, ev, i, j)
         [] ev \in {"GT", "GE"} -> codeorder(swapexps(g, i, j), IF ev = "GT" THEN "LT" ELSE "LE", i, j)
         [] ev \in {"LT", "LE"} -> codeorder(g, ev, i, j)

-----------------------------------------------------------------------------
luaK_ret(g, first, nret) ==
    luaK_code(g, Ins(CASE nret = 0 -> "RETURN0" [] nret = 1 -> "RETURN1" [] OTHER -> "RETURN",
                     first, nret + 1, 0, FALSE))

luaK_setlist(g, base, nelems, tostore) ==
    [luaK_code(g, Ins("SETLIST", base, IF tostore = LUA_MULTRET THEN 0 ELSE tostore, nelems, FALSE))
        EXCEPT !.freereg = base + 1]

(* finaltarget follows jumps to jumps, a hundred at most.                  *)
RECURSIVE finaltarget(_, _, _)
finaltarget(code, pc, n) ==
    IF n < 100 /\ pc \in DOMAIN code /\ code[pc].op = "JMP" THEN finaltarget(code, code[pc].b, n + 1) ELSE pc

(* luaK_finish: returns that have to close or to undo the move of varargs. *)
luaK_finish(g) ==
    LET vahid == g.vararg /\ ~g.vatab
        fin(i) ==
            CASE i.op \in {"RETURN0", "RETURN1", "RETURN"} ->
                    IF g.needclose \/ vahid
                    THEN [i EXCEPT !.op = "RETURN", !.k = g.needclose, !.c = IF vahid THEN g.numparams + 1 ELSE 0]
                    ELSE i
              [] i.op = "TAILCALL" -> [i EXCEPT !.k = g.needclose, !.c = IF vahid THEN g.numparams + 1 ELSE @]
              [] i.op = "GETVARG" /\ g.vatab -> [i EXCEPT !.op = "GETTABLE"]
              [] i.op = "VARARG" -> [i EXCEPT !.k = g.vatab]
              [] i.op = "JMP" -> [i EXCEPT !.b = finaltarget(g.code, i.b, 0)]
              [] OTHER -> i
    IN Recode(g, [n \in DOMAIN g.code |-> fin(g.code[n])])

=============================================================================
