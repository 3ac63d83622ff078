-------------------------------- MODULE MCLua -------------------------------
(***************************************************************************)
(* What Lua does with programs and texts, in behaviours of their own that  *)
(* are chosen at the start (part): programs are compiled and run; functions*)
(* are dumped and loaded; texts are searched for patterns; functions call  *)
(* each other, fail, yield and are closed.  The parts that do not run stay *)
(* as they started.                                                        *)
(***************************************************************************)
EXTENDS MCPrograms, LuaDump, LuaPattern, LuaCalls

VARIABLE part

CONSTANT Idle

luaVars == <<part, vars, dumpVars, patternVars, callVars>>

-----------------------------------------------------------------------------
(* Functions to dump: with strings that they share with the functions in   *)
(* them, and of a size that moves their code.                              *)
Upval(x) == [instack |-> TRUE, idx |-> 0, kind |-> "VDKREG", name |-> x]
S1 == <<"s">>
S2 == <<"s", "t">>
Inner(k, x) ==
    [linedefined |-> 3, lastlinedefined |-> 5, numparams |-> 1, flag |-> {"FIXED"}, maxstacksize |-> 2,
     code |-> <<"i1">>, k |-> k, p |-> <<>>, source |-> S2, lineinfo |-> <<1>>, abslineinfo |-> <<>>,
     locvars |-> <<[varname |-> x, startpc |-> 0, endpc |-> 1]>>, upvalues |-> <<Upval(x)>>]
Outer(k, inner, code) ==
    [linedefined |-> 0, lastlinedefined |-> 0, numparams |-> 0, flag |-> {"VAHID"}, maxstacksize |-> 7,
     code |-> code, k |-> k, p |-> inner, source |-> S2, lineinfo |-> [i \in DOMAIN code |-> 1] \o <<>>,
     abslineinfo |-> IF Len(code) > 2 THEN <<<<"a1", 1>>, <<"a2", 2>>>> ELSE <<>>,
     locvars |-> <<>>, upvalues |-> <<Upval(S1), Upval(S2)>>]
Constants == {<<>>, <<<<"int", -1>>, <<"str", S1>>, <<"str", <<>>>>, <<"int", 31>>, <<"int", -32>>>>,
              <<<<"nil">>, <<"flt", "f">>, <<"str", S2>>, <<"str", S1>>>>}
AllProtos ==
    {Outer(k, fs, code) : k \in Constants, fs \in {<<>>} \cup {<<Inner(x, S1), Inner(<<<<"str", S2>>>>, S2)>> : x \in Constants},
                         code \in {<<"i1">>, <<"i1", "i2", "i3">>}}
MCProtos == AllProtos

-----------------------------------------------------------------------------
(* Patterns, item by item: how it is written, and what it is.              *)
CodesFrom(code, chars) == {<<SubSeq(chars, i, i), code + i - 1>> : i \in 1 .. Len(chars)}
CodePairs == {<<"", 0>>} \cup CodesFrom(32, " !") \cup CodesFrom(35, "#$%&'()") \cup CodesFrom(42, "*+,-./0123456789:;<=>?@")
             \cup CodesFrom(65, "ABCDEFGHIJKLMNOPQRSTUVWXYZ") \cup CodesFrom(93, "]^_") \cup CodesFrom(97, "abcdefghijklmnopqrstuvwxyz") \cup CodesFrom(91, "[")
Codes == [c \in {x[1] : x \in CodePairs} |-> (CHOOSE x \in CodePairs : x[1] = c)[2]]
Letters1 == {"a", "b", "B"}
AllChars == {"a", "b", "B", "1", "(", ")", "%", "-"}
Item(t, set, suffix) == <<t \o suffix, <<suffix, set>>>>
Classes == {<<"a", {"a"}>>, <<"[^b%d]", AllChars \ {"b", "1"}>>, <<"%a", Letters1>>, <<"[a-b]", {"a", "b"}>>, <<".", AllChars>>}
Singles == {Item(c[1], c[2], x) : c \in Classes, x \in {"", "*", "+", "-", "?"}}
Open1 == <<"(", <<"open">>>>
Close1 == <<")", <<"close">>>>
Pos1 == <<"()", <<"position">>>>
End1 == <<"$", <<"end">>>>
Back1 == <<"%1", <<"back", 1>>>>
Bal1 == <<"%b()", <<"balance", "(", ")">>>>
Bal2 == <<"%bab", <<"balance", "a", "b">>>>
Bal3 == <<"%baa", <<"balance", "a", "a">>>>
Front1 == <<"%f[%u]", <<"frontier", {"B"}>>>>
Front2 == <<"%f[%z]", <<"frontier", {""}>>>>
A1(x) == Item("a", {"a"}, x)
Dot(x) == Item(".", AllChars, x)
Word(x) == Item("%w", Letters1 \cup {"1"}, x)
Pieces ==
    {<<x>> : x \in Singles} \cup {<<x, A1("")>> : x \in Singles}
    \cup {<<Open1, x, Close1, y>> : x \in {A1("*"), Dot("-"), Word("?")}, y \in {Back1, End1, Dot("*"), A1("-"), Bal1}}
    \cup {<<Open1, x, Open1, y, Close1, Close1>> : x \in {A1("*"), Dot("-")}, y \in {Word("?"), A1("")}}
    \cup {<<Pos1, x, Pos1>> : x \in {Word("+"), Bal1, Front1, A1("-")}}
    \cup {<<Front1, Word("+"), Front2>>, <<Bal2>>, <<Pos1, Pos1, A1("*"), Pos1, Pos1>>, <<Bal3, A1("?")>>, <<Dot("-"), Bal1, Dot("-"), End1>>, <<End1>>, <<>>,
          <<A1("?"), A1("?"), A1("?"), A1("?"), Dot("-"), Item("b", {"b"}, "")>>,
          <<Open1, Open1, A1("*"), Close1, Pos1, Item("b", {"b"}, "-"), Close1, A1("")>>}
Spelled(l) == FoldLeft(LAMBDA x, i : x \o i[1], "", l)
Read(l) == [i \in DOMAIN l |-> l[i][2]] \o <<>>
Malformed == {"a*[a", "a%", "(a", "a)", "%1", "(%1)", "%f", "a%b(", "()%2", "[]", "a-[%]"}
Texts == {"", "aab", "aB1a", "(a(b))a", "baBb-%"}
Request(fn, l, anchored, text, init, repl, max_s, plain) ==
    [fn |-> fn, items |-> Read(l), pattern |-> (IF anchored THEN "^" ELSE "") \o Spelled(l), anchored |-> anchored, text |-> text,
     init |-> init, repl |-> repl, max_s |-> max_s, plain |-> plain]
Searches(l, text) ==
    {Request("find", l, a, text, -5, "", 1, FALSE) : a \in BOOLEAN}
    \cup {Request("match", l, FALSE, text, 0, "", 1, FALSE), Request("gmatch", l, FALSE, text, 2, "", 1, FALSE)}
    \cup {Request("gsub", l, FALSE, text, 1, "<%0%%%1>", 2, FALSE), Request("gsub", l, TRUE, text, 1, "", 9, FALSE)}
Bad(x, text, fn) == [Request(fn, <<>>, FALSE, text, 1, "", 9, FALSE) EXCEPT !.pattern = x, !.items = <<<<"malformed">>>>]
AllRequests ==
    UNION {Searches(l, text) : l \in Pieces, text \in Texts}
    \cup {Bad(x, text, fn) : x \in Malformed, text \in Texts, fn \in {"match", "gmatch", "gsub"}}
    \cup {Request("find", <<A1("")>>, FALSE, text \o "a*", 1, "", 1, TRUE) : text \in Texts}
MCRequests == AllRequests

-----------------------------------------------------------------------------
(* What the parts hold that do not run.                                    *)
IdleOnes ==
    LET x == CHOOSE x \in Written : TRUE
    IN [program |-> x, code |-> Code[x], proto |-> CHOOSE f \in MCProtos : TRUE, request |-> CHOOSE y \in MCRequests : TRUE]
FirstOnes == IdleOnes

ProgramIdle == Start(Idle.program, Idle.code)
ChunkIdle == proto = Idle.proto /\ strip = FALSE /\ fixed = FALSE /\ chunk = <<>> /\ loaded = NotYet
PatternIdle == request = Idle.request /\ NotBegun

LuaInit ==
    \/ part = "program" /\ Init /\ ChunkIdle /\ PatternIdle /\ CallsInit
    \/ part = "chunk" /\ DumpInit /\ ProgramIdle /\ PatternIdle /\ CallsInit
    \/ part = "pattern" /\ PatternInit /\ ProgramIdle /\ ChunkIdle /\ CallsInit
    \/ part = "calls" /\ CallsInit /\ ProgramIdle /\ ChunkIdle /\ PatternIdle

LuaNext ==
    \/ part = "program" /\ Next /\ UNCHANGED <<part, dumpVars, patternVars, callVars>>
    \/ part = "chunk" /\ DumpNext /\ UNCHANGED <<part, vars, patternVars, callVars>>
    \/ part = "pattern" /\ PatternNext /\ UNCHANGED <<part, vars, dumpVars, callVars>>
    \/ part = "calls" /\ CallsNext /\ UNCHANGED <<part, vars, dumpVars, patternVars>>
    \/ (loaded # NotYet \/ outcome # "" \/ (part = "calls" /\ cstack = <<>>)) /\ UNCHANGED luaVars

LuaSpec == LuaInit /\ [][LuaNext]_luaVars

=============================================================================
