------------------------------- MODULE LuaDump ------------------------------
(***************************************************************************)
(* Functions as binary chunks: string.dump (ldump.c) and load (lundump.c). *)
(* A chunk is a sequence of bytes; what takes several of them is its value *)
(* and fillers.  A string that was dumped before is a number, which the    *)
(* loader counts for itself.                                               *)
(***************************************************************************)
EXTENDS Integers, Sequences, SequencesExt, FiniteSets

CONSTANTS
    Protos,          \* functions, with the functions in them
    VarintBase,      \* 128: what a byte of an integer counts to
    INT_MAX,         \* the largest int, also for sizes
    MAXUNSIGNED,     \* the largest unsigned lua_Integer
    InstructionSize, \* bytes of an instruction, and of an int
    HeaderSize,      \* bytes of the header
    LUAI_MAXSHORTLEN, \* 40: longer strings are kept apart
    Dumped(_, _), Undumped(_, _)  \* luaU_dump and luaU_undump

VARIABLES
    proto, strip,    \* the function, and whether debug information is left out
    fixed,           \* whether the loader may keep the buffer
    chunk,           \* what the writer took
    loaded           \* the function that was loaded, or what was wrong

dumpVars == <<proto, strip, fixed, chunk, loaded>>

NullString == <<"null">>
NotYet == <<"nothing">>
Byte(n) == <<"byte", n>>
Datum(x) == <<"value", x>>
Filler == <<"filler", 0>>
Wide(x) == <<Datum(x)>> \o [n \in 1 .. InstructionSize - 1 |-> Filler]
Pair(x) == Wide(x[1]) \o Wide(x[2])
Header == [n \in 1 .. HeaderSize |-> <<"header", n>>]

-----------------------------------------------------------------------------
(* Dump.  d.out: the bytes so far, d.h: the strings that were dumped.      *)
dumpBlock(d, s) == [d EXCEPT !.out = @ \o s]

dumpAlign(d) ==
    LET padding == (InstructionSize - (Len(d.out) % InstructionSize)) % InstructionSize
    IN dumpBlock(d, [n \in 1 .. padding |-> Byte(0)])

dumpVarint(d, x) ==
    LET F[y \in Nat] == IF y = 0 THEN <<>> ELSE Append(F[y \div VarintBase], Byte(VarintBase + (y % VarintBase)))
    IN dumpBlock(d, Append(F[x \div VarintBase], Byte(x % VarintBase)))

dumpInteger(d, x) == dumpVarint(d, IF x >= 0 THEN 2 * x ELSE 2 * (-x - 1) + 1)

Data(s) == [n \in DOMAIN s |-> Datum(s[n])]

(* A slip: a string that is dumped again is given a new number.            *)
dumpStringCounted(d, s) ==
    LET known == {n \in DOMAIN d.h : d.h[n] = s} IN
    CASE s = NullString -> dumpVarint(dumpVarint(d, 0), 0)
      [] s # NullString /\ known # {} ->
            [dumpVarint(dumpVarint(d, 0), CHOOSE n \in known : TRUE) EXCEPT !.h = Append(@, s)]
      [] OTHER -> [dumpBlock(dumpVarint(d, Len(s) + 1), Append(Data(s), Byte(0))) EXCEPT !.h = Append(@, s)]

dumpString(d, s) ==
    LET known == {n \in DOMAIN d.h : d.h[n] = s} IN
    CASE s = NullString -> dumpVarint(dumpVarint(d, 0), 0)
      [] s # NullString /\ known # {} -> dumpVarint(dumpVarint(d, 0), CHOOSE n \in known : TRUE)
      [] OTHER -> [dumpBlock(dumpVarint(d, Len(s) + 1), Append(Data(s), Byte(0))) EXCEPT !.h = Append(@, s)]

dumpCode(d, f) ==
    FoldLeft(LAMBDA x, w : dumpBlock(x, Wide(w)), dumpAlign(dumpVarint(d, Len(f.code))), f.code)

dumpConstant(d, o) ==
    LET t == dumpBlock(d, <<Datum(o[1])>>) IN
    CASE o[1] = "flt" -> dumpBlock(t, <<Datum(o[2])>>)
      [] o[1] = "int" -> dumpInteger(t, o[2])
      [] o[1] = "str" -> dumpString(t, o[2])
      [] OTHER -> t

dumpUpvalue(d, u) == dumpBlock(d, <<Datum(u.instack), Byte(u.idx), Datum(u.kind)>>)
dumpLocVar(d, v) == dumpVarint(dumpVarint(dumpString(d, v.varname), v.startpc), v.endpc)

dumpDebug(d, f) ==
    LET kept(s) == IF d.strip THEN <<>> ELSE s
        d1 == dumpBlock(dumpVarint(d, Len(kept(f.lineinfo))), Data(kept(f.lineinfo)))
        d2 == dumpVarint(d1, Len(kept(f.abslineinfo)))
        d3 == IF kept(f.abslineinfo) = <<>> THEN d2 ELSE FoldLeft(LAMBDA x, a : dumpBlock(x, Pair(a)), dumpAlign(d2), f.abslineinfo)
        d4 == FoldLeft(dumpLocVar, dumpVarint(d3, Len(kept(f.locvars))), kept(f.locvars))
    IN FoldLeft(LAMBDA x, u : dumpString(x, u.name), dumpVarint(d4, Len(kept(f.upvalues))), kept(f.upvalues))

RECURSIVE dumpFunction(_, _)
dumpProtos(d, ps) == FoldLeft(dumpFunction, dumpVarint(d, Len(ps)), ps)

dumpFunction(d, f) ==
    LET d1 == dumpVarint(dumpVarint(d, f.linedefined), f.lastlinedefined)
        d2 == dumpCode(dumpBlock(d1, <<Byte(f.numparams), Datum(f.flag), Byte(f.maxstacksize)>>), f)
        d3 == FoldLeft(dumpConstant, dumpVarint(d2, Len(f.k)), f.k)
        d4 == FoldLeft(dumpUpvalue, dumpVarint(d3, Len(f.upvalues)), f.upvalues)
    IN dumpDebug(dumpString(dumpProtos(d4, f.p), IF d.strip THEN NullString ELSE f.source), f)

luaU_dump(f, without) ==
    dumpFunction(dumpBlock([out |-> <<>>, h |-> <<>>, strip |-> without], Append(Header, Byte(Len(f.upvalues)))), f).out

-----------------------------------------------------------------------------
(* Load.  l.in: the chunk, l.at: how much of it was read, l.h: the strings,*)
(* l.v: the value that was read last; nothing is read after an error.      *)
Wrong(l, why) == [l EXCEPT !.err = IF @ = "" THEN why ELSE @]

Take(l, size, why) ==
    IF l.err # "" \/ l.at + size > Len(l.in) THEN [Wrong(l, why) EXCEPT !.v = [n \in 1 .. size |-> Byte(0)]]
    ELSE [l EXCEPT !.at = @ + size, !.v = SubSeq(l.in, l.at + 1, l.at + size)]

loadBlock(l, size) == Take(l, size, "truncated chunk")
getaddr(l, size) == Take(l, size, "truncated fixed buffer")

(* A vector that a fixed buffer keeps where it is.                         *)
Kept(l, size) == IF l.fixed THEN getaddr(l, size) ELSE loadBlock(l, size)

loadByte(l) == LET b == loadBlock(l, 1) IN [b EXCEPT !.v = @[1][2]]

loadAlign(l) == loadBlock(l, (InstructionSize - (l.at % InstructionSize)) % InstructionSize)

loadVarint(l0, limit) ==
    LET F[n \in 0 .. Len(l0.in), x \in 0 .. MAXUNSIGNED] ==
            LET b == loadByte([l0 EXCEPT !.at = n]) IN
            CASE b.err # "" -> [b EXCEPT !.v = 0]
              [] b.err = "" /\ x > limit \div VarintBase -> [Wrong(b, "integer overflow") EXCEPT !.v = 0]
              [] b.err = "" /\ x <= limit \div VarintBase /\ b.v >= VarintBase ->
                    F[n + 1, x * VarintBase + (b.v - VarintBase)]
              [] OTHER -> [b EXCEPT !.v = x * VarintBase + b.v]
    IN IF l0.err # "" THEN [l0 EXCEPT !.v = 0] ELSE F[l0.at, 0]

loadInt(l) == loadVarint(l, INT_MAX)

loadInteger(l) ==
    LET c == loadVarint(l, MAXUNSIGNED)
    IN [c EXCEPT !.v = IF c.v % 2 = 1 THEN -(c.v \div 2) - 1 ELSE c.v \div 2]

loadString(l) ==
    LET size == loadVarint(l, INT_MAX)
        idx == loadVarint(size, MAXUNSIGNED)
        s == IF size.v - 1 <= LUAI_MAXSHORTLEN THEN loadBlock(size, size.v) ELSE Kept(size, size.v)
        text == [n \in 1 .. size.v - 1 |-> s.v[n][2]] \o <<>>
    IN IF size.v = 0
       THEN CASE idx.v = 0 -> [idx EXCEPT !.v = NullString]
              [] idx.v \in DOMAIN idx.h -> [idx EXCEPT !.v = idx.h[idx.v]]
              [] OTHER -> [Wrong(idx, "invalid string index") EXCEPT !.v = NullString]
       ELSE [s EXCEPT !.v = text, !.h = Append(@, text)]

(* n values, each by get.                                                  *)
loadEach(l, n, get(_)) ==
    FoldLeft(LAMBDA x, m : LET y == get(x) IN [y EXCEPT !.v = Append(x.v, y.v)], [l EXCEPT !.v = <<>>], [m \in 1 .. n |-> m])

loadVector(l, get(_)) == LET n == loadInt(l) IN loadEach(n, n.v, get)

(* n elements, each of so many words.                                      *)
loadWords(l, n, words) ==
    LET b == Kept(l, n * words * InstructionSize)
    IN [b EXCEPT !.v = [m \in 1 .. n * words |-> b.v[(m - 1) * InstructionSize + 1][2]] \o <<>>]

loadCode(l) == LET n == loadInt(l) IN loadWords(loadAlign(n), n.v, 1)

loadConstant(l) ==
    LET t == loadByte(l)
        s == loadString(t)
        tagged(x) == [x EXCEPT !.v = <<t.v, x.v>>]
    IN CASE t.err # "" -> t
         [] t.v \in {"nil", "false", "true"} -> [t EXCEPT !.v = <<t.v>>]
         [] t.v = "flt" -> tagged(loadByte(t))
         [] t.v = "int" -> tagged(loadInteger(t))
         [] t.v = "str" -> tagged(IF s.err = "" /\ s.v = NullString THEN Wrong(s, "bad format for constant string") ELSE s)
         [] OTHER -> Wrong(t, "invalid constant")

loadUpvalue(l) ==
    LET u == loadBlock(l, 3) IN [u EXCEPT !.v = [instack |-> @[1][2], idx |-> @[2][2], kind |-> @[3][2], name |-> NullString]]

loadLocVar(l) ==
    LET s == loadString(l)
        b == loadInt(s)
        e == loadInt(b)
    IN [e EXCEPT !.v = [varname |-> s.v, startpc |-> b.v, endpc |-> @]]

RECURSIVE loadFunction(_)
loadProtos(l) == loadVector(l, loadFunction)

loadFunction(l) ==
    LET first == loadInt(l)
        last == loadInt(first)
        bytes == loadBlock(last, 3)
        code == loadCode(bytes)
        k == loadVector(code, loadConstant)
        ups == loadVector(k, loadUpvalue)
        p == loadProtos(ups)
        source == loadString(p)
        nlines == loadInt(source)
        lines == Kept(nlines, nlines.v)
        nabs == loadInt(lines)
        abs == IF nabs.v > 0 THEN loadWords(loadAlign(nabs), nabs.v, 2) ELSE nabs
        locvars == loadVector(abs, loadLocVar)
        nnames == loadInt(locvars)
        names == loadEach(nnames, IF nnames.v = 0 THEN 0 ELSE Len(ups.v), loadString)
        flag == IF bytes.err = "" THEN bytes.v[2][2] \ {"FIXED"} ELSE {}
    IN [names EXCEPT !.v =
          [linedefined |-> first.v, lastlinedefined |-> last.v,
           numparams |-> bytes.v[1][2], flag |-> flag \cup (IF l.fixed THEN {"FIXED"} ELSE {}), maxstacksize |-> bytes.v[3][2],
           code |-> code.v, k |-> k.v, p |-> p.v, source |-> source.v, lineinfo |-> [n \in DOMAIN lines.v |-> lines.v[n][2]] \o <<>>,
           abslineinfo |-> IF nabs.v > 0 THEN [n \in 1 .. nabs.v |-> <<abs.v[2 * n - 1], abs.v[2 * n]>>] \o <<>> ELSE <<>>,
           locvars |-> locvars.v,
           upvalues |-> [n \in DOMAIN ups.v |-> IF n \in DOMAIN names.v THEN [ups.v[n] EXCEPT !.name = names.v[n]] ELSE ups.v[n]]]]

luaU_undump(bytes, keeps) ==
    LET start == loadBlock([in |-> bytes, at |-> 0, h |-> <<>>, err |-> "", v |-> 0, fixed |-> keeps], HeaderSize)
        checked == IF start.err = "" /\ start.v # Header THEN Wrong(start, "not a binary chunk") ELSE start
        nupvalues == loadByte(checked)
        f == loadFunction(nupvalues)
    IN CASE f.err # "" -> <<"error", f.err>>
         [] f.err = "" /\ nupvalues.v # Len(f.v.upvalues) -> <<"error", "corrupted chunk">>
         [] OTHER -> <<"function", f.v>>

-----------------------------------------------------------------------------
DumpInit ==
    /\ proto \in Protos /\ strip \in BOOLEAN /\ fixed \in BOOLEAN
    /\ chunk = <<>> /\ loaded = NotYet

(* The writer may stop: it is given nothing more then.                     *)
Dump ==
    /\ loaded = NotYet /\ chunk = <<>>
    /\ LET bytes == Dumped(proto, strip) IN \E n \in 1 .. Len(bytes) : chunk' = SubSeq(bytes, 1, n)
    /\ UNCHANGED <<proto, strip, fixed, loaded>>

Undump ==
    /\ loaded = NotYet /\ chunk # <<>>
    /\ loaded' = Undumped(chunk, fixed)
    /\ UNCHANGED <<proto, strip, fixed, chunk>>

DumpNext == Dump \/ Undump

DumpSpec == DumpInit /\ [][DumpNext]_dumpVars

-----------------------------------------------------------------------------
(* The function without what strip leaves out.                             *)
RECURSIVE Stripped(_)
Stripped(f) ==
    LET kept(s) == IF strip THEN <<>> ELSE s IN
    [f EXCEPT !.flag = (@ \ {"FIXED"}) \cup (IF fixed THEN {"FIXED"} ELSE {}),
              !.source = IF strip THEN NullString ELSE @,
              !.lineinfo = kept(@), !.abslineinfo = kept(@), !.locvars = kept(@),
              !.upvalues = [n \in DOMAIN @ |-> IF strip THEN [@[n] EXCEPT !.name = NullString] ELSE @[n]],
              !.p = [n \in DOMAIN @ |-> Stripped(@[n])]]

(* What load makes of a chunk is the function that was dumped, whatever    *)
(* strings it and the functions in it share; code lies where a processor   *)
(* can read it in place (fixed buffers).  A part of a chunk is refused.    *)
UndumpRestores ==
    loaded # NotYet =>
        LET whole == Dumped(proto, strip) IN
        IF Len(chunk) = Len(whole)
        THEN /\ loaded = <<"function", Stripped(proto)>>
             /\ \A n \in 2 .. Len(chunk) : chunk[n] = Filler /\ chunk[n - 1] # Filler => (n - 2) % InstructionSize = 0
        ELSE \E where \in {"chunk", "fixed buffer"} : loaded = <<"error", "truncated " \o where>>

=============================================================================
