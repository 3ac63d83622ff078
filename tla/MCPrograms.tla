------------------------------ MODULE MCPrograms ----------------------------
(***************************************************************************)
(* Programs for the compiler and the virtual machine, by what they try.    *)
(***************************************************************************)
EXTENDS LuaMeaning

Name(x) == <<"name", x>>
Int1(n) == <<"int", n>>
Chr(x) == <<"str", <<x>>>>
NilX == <<"nil">>
TrueX == <<"true">>
FalseX == <<"false">>
Bin(op, x, y) == <<"bin", op, x, y>>
Not(x) == <<"un", "NOT", x>>
CallX(f, l) == <<"call", f, l>>
Echo(l) == CallX(Name(ECHO), l)
Index(t, k) == <<"index", t, k>>
Field(t, x) == Index(t, Chr(x))
Function(params, l) == <<"func", <<params, <<>>, l>>>>
Items(l) == <<"table", [i \in DOMAIN l |-> <<"item", l[i]>>] \o <<>>>>

Do(x) == <<"call", x>>
Say(l) == Do(Echo(l))
Local(x, e) == <<"local", <<<<x, "VDKREG">>>>, <<e>>>>
Const(x, e) == <<"local", <<<<x, "RDKCONST">>>>, <<e>>>>
Closing(x, e) == <<"local", <<<<x, "RDKTOCLOSE">>>>, <<e>>>>
Set(x, e) == <<"assign", <<x>>, <<e>>>>
LocalFunction(x, params, l) == <<"localfunc", x, <<params, <<>>, l>>>>
Return1(l) == <<"return", l>>
If1(c, l) == <<"if", <<<<c, l>>>>, <<>>>>
IfElse(c, l, m) == <<"if", <<<<c, l>>>>, <<m>>>>
Break == <<"break">>
GotoX(x) == <<"goto", x>>
LabelX(x) == <<"label", x>>

A == Name(97)
B == Name(98)
C == Name(99)
F == Name(102)
T == Name(116)
X == Name(120)

(* A table that the log tells from others.                                 *)
Tagged(n) == Items(<<Int1(n)>>)

-----------------------------------------------------------------------------
(* Operators, on what operands can be: local, constant, immediate, global, *)
(* upvalue, call, table.                                                   *)
BinaryOps == ArithOps \cup {"CONCAT", "EQ", "NE", "LT", "LE", "GT", "GE"}
Operands == {A, T, Int1(1), Int1(7), Chr(115), Echo(<<Int1(2)>>), Field(T, 120)}

Operations ==
    {<<Local(97, Int1(3)), Local(116, <<"table", <<<<"item", Int1(5)>>, <<"pair", Chr(120), Int1(4)>>>>>>),
       LocalFunction(102, <<>>, <<Set(A, A), Return1(<<Bin(op, x, y)>>)>>),
       Say(<<Bin(op, x, y)>>), Say(<<A, CallX(F, <<>>)>>)>> : op \in BinaryOps, x \in Operands, y \in Operands}

(* Conditions, as values and as tests.                                     *)
Conditions == {A, TrueX, NilX, Bin("LT", A, Int1(1)), Echo(<<FalseX>>)}
Junctions == {Bin(op, x, y) : op \in {"AND", "OR"}, x \in Conditions, y \in Conditions}
Conditionals ==
    LET both(c) == {<<Local(97, Int1(0)), Local(98, c), Say(<<B>>)>>,
                    <<Local(97, Int1(0)), Local(98, FalseX), Set(B, c), IfElse(c, <<Say(<<B>>)>>, <<Say(<<A>>)>>)>>,
                    <<Local(97, Int1(2)), <<"while", c, <<Say(<<A>>), Break>>>>,
                      <<"repeat", <<Local(98, A), Set(A, Bin("SUB", A, Int1(1)))>>, Bin("OR", c, Bin("LT", B, Int1(1)))>>>>}
    IN UNION {both(c) : c \in Junctions \cup {Not(x) : x \in Junctions}
                       \cup {Bin(op, Not(x), y) : op \in {"AND", "OR", "EQ"}, x \in Junctions, y \in {A}}}

-----------------------------------------------------------------------------
(* Loops around three statements, one of which makes a closure; x is the   *)
(* number of the turn, t keeps the closures.                               *)
G == Name(103)
Y == Name(121)
IsTurn(n, l) == If1(Bin("EQ", X, Int1(n)), l)
KeepClosure == <<"local", <<<<121, "VDKREG">>>>, <<X>>>>
Keep == Set(Index(T, X), Function(<<>>, <<Set(Y, Bin("ADD", Y, Int1(1))), Return1(<<Y>>)>>))
Items0 ==
    {Closing(99, Tagged(5)), IsTurn(1, <<Break>>), IsTurn(1, <<GotoX(110)>>), IsTurn(2, <<Return1(<<X, Echo(<<X>>)>>)>>),
     Say(<<X>>), IsTurn(2, <<Do(CallX(NilX, <<>>))>>),
     <<"do", <<Local(122, X), Closing(98, Tagged(6)), Set(G, Function(<<>>, <<Return1(<<Name(122)>>)>>)), IsTurn(2, <<Break>>)>>>>}
LoopKinds == {"while", "repeat", "fornum", "forin"}
Next2 == Function(<<115, 99>>, <<If1(Bin("LT", C, Int1(2)), <<Return1(<<Bin("ADD", C, Int1(1))>>)>>)>>)
Loop(kind, l) ==
    LET turn == <<Set(A, Bin("ADD", A, Int1(1))), Local(120, A)>> \o l IN
    CASE kind = "while" -> <<"while", Bin("LT", A, Int1(2)), turn>>
      [] kind = "repeat" -> <<"repeat", turn, Bin("GE", X, Int1(2))>>
      [] kind = "fornum" -> <<"fornum", 120, <<Int1(1), Int1(2)>>, l>>
      [] kind = "forin" -> <<"forin", <<120>>, <<Next2, NilX, Int1(0), Tagged(8)>>, l>>
CallKept(n) == If1(Index(T, Int1(n)), <<Say(<<CallX(Index(T, Int1(n)), <<>>), CallX(Index(T, Int1(n)), <<>>)>>)>>)
LoopProgram(kind, i, j) ==
    <<Local(97, Int1(0)), Local(116, Items(<<>>)),
      LocalFunction(102, <<>>, <<Loop(kind, <<i, KeepClosure, Keep, j, LabelX(110)>>), Return1(<<Int1(0)>>)>>),
      Say(<<CallX(F, <<>>)>>), CallKept(1), CallKept(2), If1(G, <<Say(<<CallX(G, <<>>)>>)>>)>>
Loops == {LoopProgram(kind, i, j) : kind \in LoopKinds, i \in Items0, j \in Items0}

(* "until" sees the local variable that the goto would skip.               *)
LoopsRefused == {LoopProgram("repeat", IsTurn(1, <<GotoX(110)>>), j) : j \in Items0}
                \cup {LoopProgram("repeat", i, Closing(99, Tagged(5))) : i \in {IsTurn(1, <<GotoX(110)>>)}}

Counting ==
    {<<Local(97, y), <<"fornum", 120, <<x, A, z>>, <<Say(<<X>>)>>>>, Say(<<>>)>> :
        x \in {Int1(1), Int1(3)}, y \in {Int1(0), Int1(3), Int1(4), NilX}, z \in {Int1(1), Int1(2), Int1(0), Int1(-1), Int1(-3)}}

-----------------------------------------------------------------------------
(* Several variables and values at once.                                   *)
Targets0 == {A, T, Index(T, A), Field(T, 120), Name(103)}
Values0 == {<<T, A>>, <<Int1(7)>>, <<A, T, CallX(F, <<>>)>>, <<CallX(F, <<>>)>>}
Assigning(l, r) == <<"assign", l, r>>
Assignments ==
    LET start == <<Local(97, Int1(1)), Local(116, Tagged(3)), Local(98, T),
                   LocalFunction(102, <<>>, <<Return1(<<Int1(8), Int1(9)>>)>>)>>
        show == Say(<<A, T, Index(B, Int1(1)), Field(B, 120), Name(103), A>>)
    IN {start \o <<Assigning(<<x, y>>, v), show>> : x \in Targets0, y \in Targets0, v \in Values0}
       \cup {start \o <<Do(CallX(Function(<<>>, <<Assigning(<<x, y>>, v)>>), <<>>)), show>> :
                x \in Targets0, y \in Targets0, v \in {<<T, A>>}}
       \cup {start \o <<Assigning(<<x, y, z>>, <<T, Int1(7), Int1(6)>>), show>> :
                x \in Targets0, y \in {A, T, Index(T, A)}, z \in {A, T}}

(* Variable arguments, with no name and as a table.                        *)
Dots == <<"vararg">>
VarargBodies ==
    {<<Say(<<Dots, A>>), Say(<<A, Dots>>)>>, <<Local(120, Dots), Return1(<<X, Dots>>)>>,
     <<Say(<<Items(<<Dots>>), <<"un", "LEN", Items(<<Dots>>)>>>>)>>,
     <<<<"local", <<<<120, "VDKREG">>, <<121, "VDKREG">>>>, <<Dots>>>>, Say(<<Y, X>>)>>,
     <<Closing(99, Tagged(5)), Return1(<<Dots>>)>>, <<Return1(<<Echo(<<Dots>>)>>)>>, <<Return1(<<CallX(G, <<A, Dots>>)>>)>>,
     <<Local(120, Function(<<>>, <<Return1(<<A>>)>>)), Return1(<<CallX(X, <<>>)>>)>>}
NamedBodies ==
    {<<Say(<<Index(T, Int1(1)), Field(T, 110), Index(T, A), Field(T, 122)>>)>>, <<Set(Index(T, Int1(2)), A), Say(<<Dots>>)>>,
     <<Set(Field(T, 110), Int1(1)), Say(<<Dots, A>>), Say(<<Dots>>)>>, <<Set(Field(T, 110), Int1(-1)), Say(<<Dots>>)>>,
     <<Local(120, T), Return1(<<Index(X, Int1(1))>>)>>, <<Return1(<<Function(<<>>, <<Return1(<<T>>)>>), Dots>>)>>}
VarargPrograms ==
    LET calling(va, l, args) ==
            <<<<"function", Name(103), <<<<97>>, <<AnyName>>, <<Say(<<A, Dots>>), Return1(<<Dots>>)>>>>, FALSE>>,
              <<"localfunc", 102, <<<<97>>, va, l>>>>, Say(<<CallX(F, args)>>)>>
        args0 == {<<>>, <<Int1(1)>>, <<Int1(1), NilX, Int1(3)>>, <<Int1(2), Echo(<<Int1(4), Int1(5)>>)>>}
    IN {calling(<<AnyName>>, l, args) : l \in VarargBodies, args \in args0}
       \cup {calling(<<116>>, l, args) : l \in NamedBodies \cup {<<Return1(<<CallX(G, <<A, Dots>>)>>)>>}, args \in args0}

-----------------------------------------------------------------------------
(* Tables, methods, closures, jumps, scopes and declarations.              *)
Pair1(k, v) == <<"pair", k, v>>
Item1(v) == <<"item", v>>
ShowTable == Say(<<Index(T, Int1(1)), Index(T, Int1(3)), Field(T, 120), <<"un", "LEN", T>>>>)
FieldLists ==
    {<<>>, <<Pair1(Chr(120), A)>>, <<Item1(A), Pair1(Int1(4), Int1(9)), Item1(Dots)>>, <<Item1(Echo(<<A, A>>))>>,
     <<Item1(Echo(<<A, A>>)), Item1(Echo(<<Int1(6), Int1(7)>>)), Pair1(Chr(120), Int1(3))>>, <<Pair1(NilX, A)>>,
     [i \in 1 .. 12 |-> IF i = 12 THEN Item1(Dots) ELSE Item1(A)] \o <<>>, <<Item1(NilX), Item1(A), Item1(<<"paren", Echo(<<A, A>>)>>)>>}
Constructors ==
    {<<Local(97, Int1(5)), Local(116, <<"table", l>>), ShowTable>> : l \in FieldLists}
    \cup {<<Local(97, Int1(5)), <<"local", [i \in 1 .. 6 |-> <<99 + i, "VDKREG">>] \o <<>>, <<>>>>, Local(116, <<"table", l>>), ShowTable>> : l \in FieldLists}

Method(x, params, l) == <<"function", Field(T, x), <<params, <<>>, l>>, TRUE>>
Methods ==
    {<<Local(116, Tagged(1)), Local(97, v), Method(m, <<97>>, <<Return1(<<A, Field(Name(SELF), m)>>)>>),
       Say(<<<<"method", T, m, args>>>>), Say(<<<<"method", A, m, args>>>>)>> :
        v \in {NilX, T}, m \in {120, 121}, args \in {<<>>, <<Int1(2), T>>, <<Echo(<<>>)>>}}

Plus(x) == Set(x, Bin("ADD", x, Int1(1)))
Jumps ==
    LET loop(l) == <<Local(97, Int1(0)), Local(116, Items(<<>>)), LabelX(108)>> \o l \o <<Say(<<A>>), CallKept(1), CallKept(2)>>
        again == If1(Bin("LT", A, Int1(2)), <<GotoX(108)>>)
        turn2(l) == <<Plus(A), <<"do", <<Local(120, A), KeepClosure, Keep>> \o l>>>>
    IN {loop(turn2(<<again>>)), loop(turn2(<<Closing(99, Tagged(4)), again>>)), loop(<<Plus(A), Local(120, A), KeepClosure, Keep, again>>),
        loop(<<Plus(A), Closing(99, Items(<<A>>)), Local(120, A), KeepClosure, Keep, again>>),
        loop(turn2(<<<<"while", TrueX, <<Local(98, A), Closing(99, Items(<<B>>)), If1(Bin("LT", A, Int1(2)), <<GotoX(108)>>), Break>>>>>>)),
        <<Local(97, Int1(0)), Local(116, Items(<<>>)),
          <<"while", Bin("LT", A, Int1(2)), <<Plus(A), Local(120, A), KeepClosure, <<"do", <<Keep>>>>>>>>, CallKept(1), CallKept(2)>>,
        <<<<"do", <<GotoX(108), Local(120, Int1(1)), Say(<<X>>), LabelX(108), LabelX(109)>>>>, Say(<<Int1(2)>>)>>,
        <<<<"while", TrueX, <<<<"fornum", 120, <<Int1(1), Int1(3)>>, <<If1(Bin("EQ", X, Int1(2)), <<Break>>), Say(<<X>>)>>>>,
            GotoX(108)>>>>, Say(<<Int1(0)>>), LabelX(108), Say(<<Int1(9)>>)>>}

Scopes ==
    {<<Local(97, Int1(1)), LocalFunction(102, <<120>>, <<Return1(<<Function(<<>>, <<Plus(X), Plus(A), Return1(<<X, A>>)>>)>>)>>),
       Local(98, CallX(F, <<Int1(5)>>)), Local(99, CallX(F, <<A>>)), Say(<<CallX(B, <<>>)>>), Say(<<CallX(C, <<>>)>>), Say(<<CallX(B, <<>>), A>>)>>,
     <<Local(97, Int1(1)), <<"do", <<Local(98, A), Set(G, Function(<<>>, <<Plus(B), Return1(<<B>>)>>)), Set(F, Function(<<>>, <<Return1(<<B>>)>>))>>>>,
       Local(98, Int1(8)), Say(<<CallX(G, <<>>), CallX(F, <<>>), B>>)>>,
     <<LocalFunction(102, <<120>>, <<IfElse(Bin("LT", X, Int1(1)), <<Return1(<<X>>)>>, <<Return1(<<CallX(F, <<Bin("SUB", X, Int1(1))>>)>>)>>)>>), Say(<<CallX(F, <<Int1(3)>>)>>)>>,
     <<LocalFunction(102, <<120>>, <<If1(Bin("LT", X, Int1(2)), <<Return1(<<X>>)>>),
         Return1(<<Bin("ADD", CallX(F, <<Bin("SUB", X, Int1(1))>>), CallX(F, <<Bin("SUB", X, Int1(2))>>))>>)>>), Say(<<CallX(F, <<Int1(4)>>)>>)>>,
     <<Const(97, Int1(3)), Const(98, Bin("ADD", A, A)), Local(102, Function(<<>>, <<Return1(<<Bin("CONCAT", A, Bin("CONCAT", B, Chr(115)))>>)>>)), Say(<<CallX(F, <<>>), Bin("SUB", A, B)>>)>>,
     <<Local(ENV, Items(<<>>)), Set(X, Int1(4)), Local(97, X), Say(<<A>>)>>,
     <<Local(116, Echo(<<Name(ENV)>>)), Set(X, Int1(4)), Do(CallX(Function(<<ENV>>, <<Set(X, Int1(5)), Return1(<<X>>)>>), <<Items(<<>>)>>)), Say(<<X, Field(T, 120)>>)>>,
     <<Closing(97, Tagged(1)), <<"do", <<Closing(98, Tagged(2)), Closing(99, NilX), Say(<<>>)>>>>, Return1(<<Echo(<<Int1(3), A>>)>>)>>,
     <<LocalFunction(102, <<120>>, <<Closing(97, X), Local(98, Int1(2)), Return1(<<Echo(<<B>>), B>>)>>), Say(<<CallX(F, <<Tagged(1)>>)>>),
       Say(<<CallX(F, <<FalseX>>)>>), Say(<<CallX(F, <<Int1(1)>>)>>)>>,
     <<Closing(97, Tagged(1)), Do(CallX(Function(<<>>, <<Closing(98, Tagged(2)), Do(CallX(Int1(1), <<>>))>>), <<>>))>>,
     <<Local(97, Int1(1)), LocalFunction(102, <<>>, <<Plus(A), Return1(<<A>>)>>), Say(<<A, CallX(F, <<>>), A>>), Say(<<<<"paren", Echo(<<A, A>>)>>, A>>)>>}

(* C functions called in the place of a return and as iterators; errors.   *)
CalledWrong ==
    {<<Return1(<<Echo(<<Int1(1), Int1(2)>>)>>)>>, <<Local(97, Tagged(1)), Return1(<<CallX(Int1(1), <<A>>)>>)>>,
     <<LocalFunction(102, <<120>>, <<Return1(<<CallX(X, <<>>)>>)>>), Say(<<CallX(F, <<Int1(1)>>)>>)>>,
     <<<<"forin", <<120, 121>>, <<Name(ECHO), NilX, Int1(1)>>, <<Say(<<X>>)>>>>, Say(<<Int1(4)>>)>>,
     <<<<"forin", <<120, 121>>, <<Name(ECHO), Int1(5), NilX, Tagged(1)>>, <<Say(<<X, Y>>), Break>>>>, Say(<<Int1(4)>>)>>,
     <<<<"forin", <<120>>, <<Name(ECHO), NilX, NilX, Int1(3)>>, <<>>>>>>, <<Closing(97, Tagged(1)), <<"forin", <<120>>, <<Int1(1)>>, <<>>>>>>,
     <<Local(97, Int1(0)), Say(<<Bin("IDIV", Int1(1), A)>>)>>, <<Local(97, Int1(0)), Local(98, Int1(7)), Say(<<Bin("MOD", B, A)>>)>>}

Global(x, kind, l) == <<"global", <<<<x, kind>>>>, l>>
Declarations ==
    {<<Global(ECHO, "GDKREG", <<>>), Global(120, "GDKREG", <<Int1(1)>>), Plus(X), Say(<<X>>), Global(120, "GDKREG", <<Int1(2)>>)>>,
     <<Global(ECHO, "GDKCONST", <<>>), <<"global", <<<<120, "GDKREG">>, <<121, "GDKCONST">>>>, <<Echo(<<Int1(2), Int1(3)>>)>>>>, Say(<<X, Y>>)>>,
     <<<<"globalfunc", 102, <<<<120>>, <<>>, <<IfElse(X, <<Return1(<<CallX(F, <<NilX>>)>>)>>, <<Return1(<<Int1(7)>>)>>)>>>>>>,
       <<"globalall", "GDKREG">>, Say(<<CallX(F, <<Int1(1)>>)>>), <<"globalfunc", 102, <<<<>>, <<>>, <<>>>>>>>>,
     <<Local(120, Int1(1)), <<"do", <<Global(120, "GDKREG", <<>>), <<"globalall", "GDKREG">>, Set(X, Int1(5)), Say(<<X>>)>>>>, Say(<<X>>)>>}
DeclarationsRefused ==
    {<<Const(97, Int1(1)), Set(A, Int1(2))>>, <<Const(97, Echo(<<>>)), LocalFunction(102, <<>>, <<Plus(A)>>)>>,
     <<Global(120, "GDKREG", <<>>), Say(<<X>>)>>, <<Global(120, "GDKCONST", <<>>), Set(X, Int1(1))>>,
     <<<<"globalall", "GDKCONST">>, LocalFunction(102, <<>>, <<Set(X, Int1(1))>>)>>, <<<<"fornum", 120, <<Int1(1), Int1(2)>>, <<Plus(X)>>>>>>,
     <<<<"forin", <<120, 121>>, <<Next2>>, <<Set(X, Y)>>>>>>, <<<<"localfunc", 102, <<<<>>, <<116>>, <<Set(T, Int1(1))>>>>>>>>,
     <<Closing(97, NilX), Set(A, Int1(1))>>, <<<<"local", <<<<97, "RDKTOCLOSE">>, <<98, "RDKTOCLOSE">>>>, <<>>>>>>,
     <<Break>>, <<GotoX(108)>>, <<LabelX(108), <<"do", <<LabelX(108)>>>>>>, <<GotoX(108), Local(97, Int1(1)), LabelX(108), Say(<<A>>)>>,
     <<LabelX(108), LocalFunction(102, <<>>, <<GotoX(108)>>)>>, <<LocalFunction(102, <<>>, <<Say(<<Dots>>)>>)>>,
     <<<<"do", <<LabelX(108)>>>>, GotoX(108)>>, <<Local(ENV, Items(<<>>)), Global(ENV, "GDKREG", <<>>), Set(X, Int1(1))>>}

-----------------------------------------------------------------------------
AllWritten ==
    Operations \cup Conditionals \cup Loops \cup Counting \cup Assignments \cup VarargPrograms \cup Constructors
    \cup Methods \cup Jumps \cup Scopes \cup CalledWrong \cup Declarations \cup DeclarationsRefused
Written == AllWritten
WrittenBadly == LoopsRefused \cup DeclarationsRefused

=============================================================================
