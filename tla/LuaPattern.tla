------------------------------ MODULE LuaPattern ----------------------------
(***************************************************************************)
(* Pattern matching of the string library (lstrlib.c): find, match, gmatch *)
(* and gsub.  Texts are strings; a pointer is a position from 1, NULL is 0,*)
(* and what a string ends with is the character "".                        *)
(***************************************************************************)
EXTENDS Integers, Sequences, SequencesExt, FiniteSets

CONSTANTS
    Requests,        \* calls: function, text, pattern and arguments
    Code0,           \* the code of a character
    MAXCCALLS,       \* 200: how deep match may call itself
    LUA_MAXCAPTURES, \* 32
    Matched(_, _, _), \* match
    Meant0(_)        \* the matches that a request asks for (Expected)

VARIABLES
    request,         \* the call
    src,             \* where the next match is tried; 0: not yet begun
    lastmatch,       \* where the last match ended
    pushed,          \* the matches: start, end, captures
    buffer, changed, \* what gsub builds, and whether it differs
    outcome          \* "" while it runs, then how it ended

patternVars == <<request, src, lastmatch, pushed, buffer, changed, outcome>>

NULL0 == 0
CAP_UNFINISHED == -1
CAP_POSITION == -2
SPECIALS == {"^", "$", "*", "+", "?", ".", "(", "[", "%", "-"}
DigitChars == {"0", "1", "2", "3", "4", "5", "6", "7", "8", "9"}

CharAt(s, i) == IF i \in 1 .. Len(s) THEN SubSeq(s, i, i) ELSE ""
DigitOf(c) == Code0[c] - Code0["0"]

-----------------------------------------------------------------------------
(* Classes of characters.                                                  *)
Upper == 65 .. 90
Lower == 97 .. 122
Decimal == 48 .. 57
Printed == 33 .. 126
Class ==
    [a |-> Upper \cup Lower, c |-> 0 .. 31 \cup {127}, d |-> Decimal, g |-> Printed, l |-> Lower,
     p |-> Printed \ (Upper \cup Lower \cup Decimal), s |-> 9 .. 13 \cup {32}, u |-> Upper,
     w |-> Upper \cup Lower \cup Decimal, x |-> Decimal \cup 65 .. 70 \cup 97 .. 102, z |-> {0}]

match_class(c, cl) ==
    LET lower == CHOOSE x \in DOMAIN Code0 : Code0[x] = Code0[cl] + IF Code0[cl] \in Upper THEN 32 ELSE 0
    IN IF lower \in DOMAIN Class THEN (Code0[c] \in Class[lower]) = (cl = lower) ELSE cl = c

(* Where a class ends; 0 where it does not.                                *)
classend(p, at) ==
    LET InSet[j \in 1 .. Len(p) + 2] ==
            LET next == IF CharAt(p, j) = "%" /\ j < Len(p) THEN j + 2 ELSE j + 1 IN
            CASE j > Len(p) -> 0
              [] j <= Len(p) /\ CharAt(p, next) = "]" -> next + 1
              [] OTHER -> InSet[next]
    IN CASE CharAt(p, at) = "%" -> IF at = Len(p) THEN 0 ELSE at + 2
         [] CharAt(p, at) = "[" -> InSet[IF CharAt(p, at + 1) = "^" THEN at + 2 ELSE at + 1]
         [] OTHER -> at + 1

matchbracketclass(c, p, at, ec) ==
    LET negated == CharAt(p, at + 1) = "^"
        Found[j \in 1 .. Len(p) + 3] ==
            CASE j >= ec -> FALSE
              [] j < ec /\ CharAt(p, j) = "%" -> match_class(c, CharAt(p, j + 1)) \/ Found[j + 2]
              [] j < ec /\ CharAt(p, j) # "%" /\ CharAt(p, j + 1) = "-" /\ j + 2 < ec ->
                    Code0[c] \in Code0[CharAt(p, j)] .. Code0[CharAt(p, j + 2)] \/ Found[j + 3]
              [] OTHER -> c = CharAt(p, j) \/ Found[j + 1]
    IN Found[IF negated THEN at + 2 ELSE at + 1] # negated

singlematch(ms, s, p, ep) ==
    /\ s <= Len(ms.text)
    /\ LET c == CharAt(ms.text, s) IN
       CASE CharAt(ms.p, p) = "." -> TRUE
         [] CharAt(ms.p, p) = "%" -> match_class(c, CharAt(ms.p, p + 1))
         [] CharAt(ms.p, p) = "[" -> matchbracketclass(c, ms.p, p, ep - 1)
         [] OTHER -> c = CharAt(ms.p, p)

(* Where the text ends that opens and closes as often; 0 if nowhere.       *)
matchbalance(ms, s, p) ==
    LET b == CharAt(ms.p, p)
        e == CharAt(ms.p, p + 1)
        Scan[i \in 1 .. Len(ms.text) + 1, cont \in 0 .. Len(ms.text) + 1] ==
            LET c == CharAt(ms.text, i) IN
            CASE i > Len(ms.text) -> NULL0
              [] i <= Len(ms.text) /\ c = e -> IF cont = 1 THEN i + 1 ELSE Scan[i + 1, cont - 1]
              [] i <= Len(ms.text) /\ c # e /\ c = b -> Scan[i + 1, cont + 1]
              [] OTHER -> Scan[i + 1, cont]
    IN IF CharAt(ms.text, s) # b THEN NULL0 ELSE Scan[s + 1, 1]

-----------------------------------------------------------------------------
(* match.  It returns where the match ends, and its state: the captures    *)
(* (their number is level), the depth that is left, and what is wrong.     *)
Reached(ms, s) == [s |-> s, ms |-> ms]
Fails(ms) == Reached(ms, NULL0)
Refuses(ms, why) == Fails([ms EXCEPT !.err = why])
Stops(r) == r.s # NULL0 \/ r.ms.err # ""

check_capture(ms, l) == l \in DOMAIN ms.capture /\ ms.capture[l].len # CAP_UNFINISHED

RECURSIVE match(_, _, _), domatch(_, _, _), max_expand(_, _, _, _), min_expand(_, _, _, _)

start_capture(ms, s, p, what) ==
    LET r == match([ms EXCEPT !.capture = Append(@, [init |-> s, len |-> what])], s, p) IN
    CASE Len(ms.capture) >= LUA_MAXCAPTURES -> Refuses(ms, "too many captures")
      [] Len(ms.capture) < LUA_MAXCAPTURES /\ ~Stops(r) -> Fails([r.ms EXCEPT !.capture = SubSeq(@, 1, Len(@) - 1)])
      [] OTHER -> r

(* The capture that was opened last and is still open; 0 without one.      *)
capture_to_close(ms) ==
    CHOOSE l \in 0 .. Len(ms.capture) :
        /\ l > 0 => ms.capture[l].len = CAP_UNFINISHED
        /\ \A m \in l + 1 .. Len(ms.capture) : ms.capture[m].len # CAP_UNFINISHED

(* A slip: the capture stays closed when what follows does not match.      *)
end_captureKept(ms, s, p) ==
    LET l == capture_to_close(ms)
    IN IF l = 0 THEN Refuses(ms, "invalid pattern capture")
       ELSE match([ms EXCEPT !.capture[l].len = s - ms.capture[l].init], s, p)

end_capture(ms, s, p) ==
    LET l == capture_to_close(ms)
        r == match([ms EXCEPT !.capture[l].len = s - ms.capture[l].init], s, p)
    IN CASE l = 0 -> Refuses(ms, "invalid pattern capture")
         [] l > 0 /\ ~Stops(r) -> Fails([r.ms EXCEPT !.capture[l].len = CAP_UNFINISHED])
         [] OTHER -> r

(* The length of a position is more than any text has (size_t).            *)
match_capture(ms, s, l) ==
    LET c == ms.capture[l]
        same == /\ c.len # CAP_POSITION /\ Len(ms.text) + 1 - s >= c.len
                /\ SubSeq(ms.text, c.init, c.init + c.len - 1) = SubSeq(ms.text, s, s + c.len - 1)
    IN IF same THEN s + c.len ELSE NULL0

(* i: repetitions that are still tried.                                    *)
max_expand(ms, s, i, ep) ==
    LET r == match(ms, s + i, ep + 1) IN
    CASE Stops(r) -> r
      [] ~Stops(r) /\ i = 0 -> Fails(r.ms)
      [] OTHER -> max_expand(r.ms, s, i - 1, ep)

Repeats(ms, s, p, ep) ==
    CHOOSE n \in 0 .. Len(ms.text) :
        /\ \A i \in 0 .. n - 1 : singlematch(ms, s + i, p, ep)
        /\ ~singlematch(ms, s + n, p, ep)

min_expand(ms, s, p, ep) ==
    LET r == match(ms, s, ep + 1) IN
    CASE Stops(r) -> r
      [] ~Stops(r) /\ singlematch(r.ms, s, p, ep) -> min_expand(r.ms, s + 1, p, ep)
      [] OTHER -> Fails(r.ms)

(* A class and what may follow it.                                         *)
SingleAndSuffix(ms, s, p) ==
    LET ep == classend(ms.p, p)
        suffix == CharAt(ms.p, ep)
        r == match(ms, s + 1, ep + 1)
    IN CASE ep = 0 -> Refuses(ms, "malformed pattern")
         [] ep > 0 /\ ~singlematch(ms, s, p, ep) ->
               IF suffix \in {"*", "?", "-"} THEN domatch(ms, s, ep + 1) ELSE Fails(ms)
         [] ep > 0 /\ singlematch(ms, s, p, ep) ->
               CASE suffix = "?" -> IF Stops(r) THEN r ELSE domatch(r.ms, s, ep + 1)
                 [] suffix = "+" -> max_expand(ms, s + 1, Repeats(ms, s + 1, p, ep), ep)
                 [] suffix = "*" -> max_expand(ms, s, Repeats(ms, s, p, ep), ep)
                 [] suffix = "-" -> min_expand(ms, s, p, ep)
                 [] OTHER -> domatch(ms, s + 1, ep)

Frontier(ms, s, p) ==
    LET ep == classend(ms.p, p)
        inside(i) == matchbracketclass(CharAt(ms.text, i), ms.p, p, ep - 1)
    IN CASE CharAt(ms.p, p) # "[" -> Refuses(ms, "missing '[' after '%f' in pattern")
         [] CharAt(ms.p, p) = "[" /\ ep = 0 -> Refuses(ms, "malformed pattern")
         [] OTHER -> IF ~inside(s - 1) /\ inside(s) THEN domatch(ms, s, ep) ELSE Fails(ms)

(* match from "init:", with the depth already counted.                     *)
domatch(ms, s, p) ==
    LET c == CharAt(ms.p, p)
        d == CharAt(ms.p, p + 1)
        continues(e, next) == IF e = NULL0 THEN Fails(ms) ELSE domatch(ms, e, next)
    IN CASE p > Len(ms.p) -> Reached(ms, s)
         [] c = "(" -> IF d = ")" THEN start_capture(ms, s, p + 2, CAP_POSITION) ELSE start_capture(ms, s, p + 1, CAP_UNFINISHED)
         [] c = ")" -> end_capture(ms, s, p + 1)
         [] c = "$" /\ p = Len(ms.p) -> IF s > Len(ms.text) THEN Reached(ms, s) ELSE Fails(ms)
         [] c = "%" /\ d = "b" ->
               IF p + 2 >= Len(ms.p) THEN Refuses(ms, "malformed pattern") ELSE continues(matchbalance(ms, s, p + 2), p + 4)
         [] c = "%" /\ d = "f" -> Frontier(ms, s, p + 2)
         [] c = "%" /\ d \in DigitChars ->
               IF check_capture(ms, DigitOf(d)) THEN continues(match_capture(ms, s, DigitOf(d)), p + 2)
               ELSE Refuses(ms, "invalid capture index")
         [] OTHER -> SingleAndSuffix(ms, s, p)

match(ms, s, p) ==
    LET r == domatch([ms EXCEPT !.matchdepth = @ - 1], s, p) IN
    IF ms.matchdepth = 0 THEN Refuses(ms, "pattern too complex")
    ELSE [r EXCEPT !.ms.matchdepth = @ + 1]

prepstate(s, p) == [text |-> s, p |-> p, matchdepth |-> MAXCCALLS, capture |-> <<>>, err |-> ""]

-----------------------------------------------------------------------------
(* Captures.  Without any, the first is the whole match.                   *)
get_onecapture(ms, i, s, e) ==
    LET c == ms.capture[i] IN
    CASE i > Len(ms.capture) -> IF i = 1 THEN <<"str", SubSeq(ms.text, s, e - 1)>> ELSE <<"error", "invalid capture index">>
      [] i <= Len(ms.capture) /\ c.len = CAP_UNFINISHED -> <<"error", "unfinished capture">>
      [] i <= Len(ms.capture) /\ c.len = CAP_POSITION -> <<"pos", c.init>>
      [] OTHER -> <<"str", SubSeq(ms.text, c.init, c.init + c.len - 1)>>

push_captures(ms, s, e) ==
    LET nlevels == IF ms.capture = <<>> /\ s # NULL0 THEN 1 ELSE Len(ms.capture)
    IN [i \in 1 .. nlevels |-> get_onecapture(ms, i, s, e)] \o <<>>

Wrong0(captures) == \E i \in DOMAIN captures : captures[i][1] = "error"

posrelatI(pos, len) ==
    CASE pos > 0 -> pos
      [] pos = 0 \/ pos < -len -> 1
      [] OTHER -> len + pos + 1

Text == request.text
Pattern == request.pattern
anchor == CharAt(Pattern, 1) = "^"
Attempt == Matched(prepstate(Text, Pattern), src, IF anchor /\ request.fn # "gmatch" THEN 2 ELSE 1)

Ends(how) == outcome' = how /\ UNCHANGED <<request, src, lastmatch, pushed, buffer, changed>>
Pushed(e, captures, put) == pushed' = Append(pushed, [s |-> src, e |-> e, captures |-> captures, put |-> put])

-----------------------------------------------------------------------------
(* The calls, and how each goes through its text.                          *)
NotBegun == src = 0 /\ lastmatch = NULL0 /\ pushed = <<>> /\ buffer = "" /\ changed = FALSE /\ outcome = ""

PatternInit == request \in Requests /\ NotBegun

BeginSearch ==
    /\ src = 0
    /\ src' = LET first == posrelatI(request.init, Len(Text)) IN IF first > Len(Text) + 1 THEN Len(Text) + 2 ELSE first
    /\ UNCHANGED <<request, lastmatch, pushed, buffer, changed, outcome>>

(* No character of the text is left to begin with, nor its end.            *)
Exhausted == src = Len(Text) + 2 /\ outcome = "" /\ Ends("nil")

Plain == request.plain \/ \A i \in 1 .. Len(Pattern) : CharAt(Pattern, i) \notin SPECIALS

lmemfind ==
    LET places == {i \in src .. Len(Text) + 1 - Len(Pattern) : SubSeq(Text, i, i + Len(Pattern) - 1) = Pattern}
    IN IF places = {} THEN NULL0 ELSE CHOOSE i \in places : \A j \in places : i <= j

FindPlain ==
    /\ request.fn = "find" /\ src \in 1 .. Len(Text) + 1 /\ outcome = "" /\ Plain
    /\ IF lmemfind = NULL0 THEN Ends("nil")
       ELSE /\ src' = lmemfind /\ outcome' = "done"
            /\ pushed' = <<[s |-> lmemfind, e |-> lmemfind + Len(Pattern), captures |-> <<>>, put |-> ""]>>
            /\ UNCHANGED <<request, lastmatch, buffer, changed>>

FindStep ==
    /\ request.fn \in {"find", "match"} /\ src \in 1 .. Len(Text) + 1 /\ outcome = ""
    /\ request.fn = "find" => ~Plain
    /\ LET r == Attempt
           captures == push_captures(r.ms, IF request.fn = "find" THEN NULL0 ELSE src, r.s)
       IN CASE r.ms.err # "" \/ (r.s # NULL0 /\ Wrong0(captures)) -> Ends("error")
            [] r.ms.err = "" /\ r.s # NULL0 /\ ~Wrong0(captures) ->
                  Pushed(r.s, captures, "") /\ outcome' = "done" /\ UNCHANGED <<request, src, lastmatch, buffer, changed>>
            [] r.ms.err = "" /\ r.s = NULL0 ->
                  IF src <= Len(Text) /\ ~anchor THEN src' = src + 1 /\ UNCHANGED <<request, lastmatch, pushed, buffer, changed, outcome>>
                  ELSE Ends("nil")

NewMatch(r) == r.s # NULL0 /\ r.s # lastmatch

GmatchStep ==
    /\ request.fn = "gmatch" /\ src \in 1 .. Len(Text) + 1 /\ outcome = ""
    /\ LET r == Attempt
           captures == push_captures(r.ms, src, r.s)
       IN CASE r.ms.err # "" \/ (NewMatch(r) /\ Wrong0(captures)) -> Ends("error")
            [] r.ms.err = "" /\ NewMatch(r) /\ ~Wrong0(captures) ->
                  Pushed(r.s, captures, "") /\ src' = r.s /\ lastmatch' = r.s /\ UNCHANGED <<request, buffer, changed, outcome>>
            [] r.ms.err = "" /\ ~NewMatch(r) -> src' = src + 1 /\ UNCHANGED <<request, lastmatch, pushed, buffer, changed, outcome>>

(* What is put for a match: [err, out].                                    *)
add_s(ms, s, e) ==
    LET news == request.repl
        Put[i \in 1 .. Len(news) + 2] ==
            LET d == CharAt(news, i + 1)
                c == get_onecapture(ms, DigitOf(d), s, e)
                with(x) == [Put[i + 2] EXCEPT !.out = x \o @]
            IN CASE i > Len(news) -> [err |-> FALSE, out |-> ""]
                 [] i <= Len(news) /\ CharAt(news, i) # "%" -> [Put[i + 1] EXCEPT !.out = CharAt(news, i) \o @]
                 [] CharAt(news, i) = "%" /\ d = "%" -> with("%")
                 [] CharAt(news, i) = "%" /\ d = "0" -> with(SubSeq(ms.text, s, e - 1))
                 [] CharAt(news, i) = "%" /\ d \in DigitChars \ {"0"} ->
                       CASE c[1] = "str" -> with(c[2])
                         [] c[1] = "pos" -> with(CHOOSE x \in DigitChars : DigitOf(x) = c[2])
                         [] OTHER -> [err |-> TRUE, out |-> ""]
                 [] OTHER -> [err |-> TRUE, out |-> ""]
    IN Put[1]

(* A function or a table may answer a text, or nothing (nil or false).     *)
add_value(r) ==
    LET captures == push_captures(r.ms, src, r.s)
        put == add_s(r.ms, src, r.s)
        goes(x, t) ==
            /\ buffer' = buffer \o x /\ changed' = (changed \/ t) /\ Pushed(r.s, captures, x)
            /\ src' = r.s /\ lastmatch' = r.s /\ outcome' = (IF anchor THEN "done" ELSE "")
    IN CASE (request.repl # "" /\ put.err) \/ (request.repl = "" /\ Wrong0(captures)) -> Ends("error")
         [] request.repl # "" /\ ~put.err -> goes(put.out, TRUE) /\ UNCHANGED request
         [] OTHER -> (goes("r", TRUE) \/ goes(SubSeq(Text, src, r.s - 1), FALSE)) /\ UNCHANGED request

GsubStep ==
    /\ request.fn = "gsub" /\ src \in 1 .. Len(Text) + 1 /\ outcome = ""
    /\ LET r == Attempt IN
       CASE Len(pushed) >= request.max_s -> Ends("done")
         [] Len(pushed) < request.max_s /\ r.ms.err # "" -> Ends("error")
         [] Len(pushed) < request.max_s /\ r.ms.err = "" /\ NewMatch(r) -> add_value(r)
         [] Len(pushed) < request.max_s /\ r.ms.err = "" /\ ~NewMatch(r) ->
               IF src <= Len(Text)
               THEN /\ buffer' = buffer \o CharAt(Text, src) /\ src' = src + 1
                    /\ outcome' = (IF anchor THEN "done" ELSE "")
                    /\ UNCHANGED <<request, lastmatch, pushed, changed>>
               ELSE Ends("done")

(* What gsub returns.                                                      *)
Returned == IF changed THEN buffer \o SubSeq(Text, src, Len(Text)) ELSE Text

PatternNext == BeginSearch \/ Exhausted \/ FindPlain \/ FindStep \/ GmatchStep \/ GsubStep

PatternSpec == PatternInit /\ [][PatternNext]_patternVars

-----------------------------------------------------------------------------
(* What a pattern means, from its items: how many characters each item may *)
(* take (a vector for all of them), and which vector is preferred.         *)
Total(v) == FoldLeft(LAMBDA x, y : x + y, 0, v)
Place(start, v, i) == start + Total(SubSeq(v, 1, i - 1))

(* The captures that the items before i have closed, or all.               *)
Closer(items, o) ==
    CHOOSE c \in o + 1 .. Len(items) :
        /\ items[c][1] = "close"
        /\ \A k \in o + 1 .. c : LET b == SubSeq(items, o, k) IN
            (k = c) = (Cardinality({j \in DOMAIN b : b[j][1] = "open"}) = Cardinality({j \in DOMAIN b : b[j][1] = "close"}))
Openers(items) == SelectSeq([i \in DOMAIN items |-> i], LAMBDA i : items[i][1] \in {"open", "position"})
Capture0(items, text, start, v, o) ==
    IF items[o][1] = "position" THEN <<"pos", Place(start, v, o)>>
    ELSE <<"str", SubSeq(text, Place(start, v, o), Place(start, v, Closer(items, o)) - 1)>>

Depth0(b, e, t) ==
    1 + Cardinality({j \in 2 .. Len(t) : CharAt(t, j) = b /\ b # e}) - Cardinality({j \in 2 .. Len(t) : CharAt(t, j) = e})
Balanced(b, e, t) ==
    /\ Len(t) >= 2 /\ CharAt(t, 1) = b
    /\ \A n \in 1 .. Len(t) : (Depth0(b, e, SubSeq(t, 1, n)) = 0) = (n = Len(t))

Lengths(items, text, start, v) ==
    LET i == Len(v) + 1
        item == items[i]
        e == Place(start, v, i)
        left == 0 .. Len(text) + 1 - e
        taken(n) == SubSeq(text, e, e + n - 1)
        counts == CASE item[1] = "?" -> {0, 1} [] item[1] \in {"*", "-"} -> left [] item[1] = "+" -> left \ {0} [] OTHER -> {1}
    IN CASE item[1] \in {"open", "close", "position"} -> {0}
         [] item[1] = "end" -> IF e = Len(text) + 1 THEN {0} ELSE {}
         [] item[1] = "frontier" -> IF CharAt(text, e - 1) \notin item[2] /\ CharAt(text, e) \in item[2] THEN {0} ELSE {}
         [] item[1] = "balance" -> {n \in left : Balanced(item[2], item[3], taken(n))}
         [] item[1] = "back" -> {n \in left : <<"str", taken(n)>> = Capture0(items, text, start, v, Openers(items)[item[2]])}
         [] OTHER -> {n \in counts \cap left : \A j \in e .. e + n - 1 : CharAt(text, j) \in item[2]}

RECURSIVE Ways(_, _, _, _)
Ways(items, text, start, v) ==
    IF Len(v) = Len(items) THEN {v}
    ELSE UNION {Ways(items, text, start, Append(v, n)) : n \in Lengths(items, text, start, v)}

Preferred(items, v, w) ==
    LET k == CHOOSE k \in DOMAIN v : v[k] # w[k] /\ \A j \in 1 .. k - 1 : v[j] = w[j]
    IN IF items[k][1] = "-" THEN v[k] < w[k] ELSE v[k] > w[k]

(* The match at start: where it ends and what it captures; {} if none.     *)
MatchesAt(items, text, start) ==
    LET ways == Ways(items, text, start, <<>>)
        best == CHOOSE v \in ways : \A w \in ways \ {v} : Preferred(items, v, w)
        opens == Openers(items)
    IN IF ways = {} THEN {}
       ELSE {[s |-> start, e |-> start + Total(best),
              captures |-> [i \in DOMAIN opens |-> Capture0(items, text, start, best, opens[i])] \o <<>>]}

(* The next match from a place on that does not end where the last did.    *)
NextMatch(req, from, last) ==
    LET all == UNION {{m \in MatchesAt(req.items, req.text, i) : m.e # last} : i \in from .. Len(req.text) + 1}
    IN {m \in all : \A n \in all : m.s <= n.s}

RECURSIVE AllMatches(_, _, _, _)
AllMatches(req, from, last, most) ==
    LET next == NextMatch(req, from, last) IN
    IF next = {} \/ most = 0 THEN <<>>
    ELSE LET m == CHOOSE m \in next : TRUE IN <<m>> \o AllMatches(req, m.e, m.e, most - 1)

Expected(req) ==
    LET from == posrelatI(req.init, Len(req.text))
        here == {m \in MatchesAt(req.items, req.text, from) : from <= Len(req.text) + 1}
        one(ms) == IF ms = {} THEN <<>> ELSE <<CHOOSE m \in ms : TRUE>>
    IN CASE req.anchored /\ req.max_s > 0 -> one(here)
         [] req.fn = "gsub" /\ ~req.anchored -> AllMatches(req, from, NULL0, req.max_s)
         [] req.fn = "gmatch" -> AllMatches(req, from, NULL0, Len(req.text) + 2)
         [] req.fn \in {"find", "match"} /\ ~req.anchored -> one(NextMatch(req, from, NULL0))
         [] OTHER -> <<>>

(* What is reported of a match.                                            *)
Reported(m) ==
    IF m.captures = <<>> /\ request.fn # "find" THEN <<<<"str", SubSeq(Text, m.s, m.e - 1)>>>> ELSE m.captures

Deepening == Cardinality({i \in DOMAIN request.items : request.items[i][1] \in {"open", "close", "position", "?", "*", "+", "-"}})

(* What replaces matches lies where they were, the rest of the text stays. *)
Rebuilt ==
    LET from(i) == IF i = 1 THEN 1 ELSE pushed[i - 1].e
        part(i) == SubSeq(Text, from(i), pushed[i].s - 1) \o pushed[i].put
    IN FoldLeft(LAMBDA x, i : x \o part(i), "", [i \in DOMAIN pushed |-> i])
       \o SubSeq(Text, from(Len(pushed) + 1), Len(Text))

(* find and match report the leftmost match, gmatch and gsub all of them,  *)
(* one after the other: of the ways to match at a place the one whose      *)
(* items take as much, or with "-" as little, as the items before them     *)
(* leave possible.  A pattern is too complex only by its own length, never *)
(* by the text; a malformed one matches nothing.  gsub changes nothing but *)
(* the matches.                                                            *)
MatchesAsPatternSays ==
    outcome # "" =>
        IF request.items = <<<<"malformed">>>> THEN pushed = <<>>
        ELSE /\ outcome = "error" => Deepening >= MAXCCALLS \/ Len(Openers(request.items)) > LUA_MAXCAPTURES
             /\ outcome # "error" =>
                   /\ [i \in DOMAIN pushed |-> <<pushed[i].s, pushed[i].e, pushed[i].captures>>]
                       = LET due == Meant0(request) IN [i \in DOMAIN due |-> <<due[i].s, due[i].e, Reported(due[i])>>]
                   /\ request.fn = "gsub" => Returned = Rebuilt

=============================================================================
