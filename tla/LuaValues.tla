------------------------------ MODULE LuaValues -----------------------------
(***************************************************************************)
(* Values of the Lua state and the operations on them that code generator  *)
(* and virtual machine share (lobject.c, lvm.c, ltm.c).  A value is a pair *)
(* of a tag and what is under it; numbers are integers, strings sequences  *)
(* of character codes, tables and functions indices into the heap.         *)
(***************************************************************************)
EXTENDS Integers, Sequences

Nil == <<"nil">>
Bool(b) == <<"bool", b>>
Num(n) == <<"int", n>>
Str(s) == <<"str", s>>
Tab(i) == <<"tab", i>>
Fun(i) == <<"fun", i>>

Tag(v) == v[1]
IsInt(v) == Tag(v) = "int"
IsStr(v) == Tag(v) = "str"
IsTab(v) == Tag(v) = "tab"
IsFun(v) == Tag(v) = "fun"
l_isfalse(v) == v \in {Nil, Bool(FALSE)}

LUA_MULTRET == -1
First(s, n) == SubSeq(s, 1, n)

(* An operation on a table is left to its metamethod, whose result is told *)
(* by what it was called with; on other values it is an error.             *)
Meta(event, a, b) == <<"meta", <<event, a, b>>>>
Error == <<"error">>
luaT_trybinTM(event, a, b) == IF IsTab(a) \/ IsTab(b) THEN Meta(event, a, b) ELSE Error

(* luaV_idiv and luaV_mod round down; luaV_shiftl with small operands.     *)
luaV_idiv(m, n) == IF n > 0 THEN m \div n ELSE (-m) \div (-n)
luaV_mod(m, n) == m - n * luaV_idiv(m, n)
Power2(n) == LET P[i \in 0 .. n] == IF i = 0 THEN 1 ELSE 2 * P[i - 1] IN P[n]
luaV_shiftl(x, y) == IF y >= 0 THEN x * Power2(y) ELSE x \div Power2(-y)

(* The bits that two numbers have in common.                               *)
BitAnd(m, n) ==
    LET B[i, j \in Nat] == IF i = 0 \/ j = 0 THEN 0 ELSE (i % 2) * (j % 2) + 2 * B[i \div 2, j \div 2]
    IN B[m, n]

(* intarith, for operands that it is defined for.                          *)
IntArith(event, m, n) ==
    CASE event = "ADD" -> m + n
      [] event = "SUB" -> m - n
      [] event = "MUL" -> m * n
      [] event = "IDIV" -> luaV_idiv(m, n)
      [] event = "MOD" -> luaV_mod(m, n)
      [] event = "BAND" -> BitAnd(m, n)
      [] event = "SHL" -> luaV_shiftl(m, n)
      [] event = "SHR" -> luaV_shiftl(m, -n)
      [] event = "UNM" -> -m

(* validop, and the error that luaV_idiv and luaV_mod raise.               *)
validop(event, n) == ~(event \in {"IDIV", "MOD"} /\ n = 0)

Arith(event, a, b) ==
    IF IsInt(a) /\ IsInt(b)
    THEN IF validop(event, b[2]) THEN Num(IntArith(event, a[2], b[2])) ELSE Error
    ELSE luaT_trybinTM(event, a, b)

(* luaO_tostr: the decimal digits.                                         *)
Digits(n) ==
    LET D[i \in Nat] == IF i < 10 THEN <<48 + i>> ELSE Append(D[i \div 10], 48 + (i % 10))
    IN IF n < 0 THEN <<45>> \o D[-n] ELSE D[n]

Chars(v) == IF IsInt(v) THEN Digits(v[2]) ELSE v[2]
Printable(v) == Tag(v) \in {"int", "str"}

Concat(a, b) ==
    IF Printable(a) /\ Printable(b) THEN Str(Chars(a) \o Chars(b)) ELSE luaT_trybinTM("CONCAT", a, b)

=============================================================================
