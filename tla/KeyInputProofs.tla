--------------------------- MODULE KeyInputProofs ---------------------------
(***************************************************************************)
(* The key decoder for every set of keys, however many are pressed.        *)
(***************************************************************************)
EXTENDS KeyInput, FiniteSetTheorems, TLAPS

-----------------------------------------------------------------------------
(* The inductive invariant. *)

(* What the reader has taken off the queue of the key it is in.            *)
Consumed ==
    CASE reader.at \in {"none", "key"} -> <<>>
      [] reader.at = "escape" -> <<"ESC">>
      [] reader.at = "letter" -> <<"ESC", "O">>
      [] OTHER -> <<"ESC", "[">> \o reader.seen

(* The bytes of the keys not delivered yet, wherever they are.             *)
Stream == Consumed \o (queue \o sending)

ReaderOK ==
    /\ reader.at = "none" <=> reader = Idle
    /\ reader.at \in {"none", "key", "escape", "letter", "bracket"} => reader.seen = <<>>
    /\ reader.at = "tilde" => \E b \in DOMAIN TildeKey : reader.seen = <<b>>
    /\ reader.at = "digit" => \E b \in {"1", "2"} : reader.seen = <<b>>
    /\ reader.at = "end" => \E b \in {"1", "2"}, c \in Bytes : reader.seen = <<b, c>>

NoCut == \A i \in 1 .. Len(delivered) : delivered[i] # "cut"

(* The stream is made of the keys behind the delivered ones: key m takes   *)
(* the bytes behind start[m].                                              *)
Splits(start, stream, n, keys) ==
    /\ start \in [n + 1 .. Len(keys) + 1 -> 0 .. Len(stream)]
    /\ start[n + 1] = 0 /\ start[Len(keys) + 1] = Len(stream)
    /\ \A k, m \in n + 1 .. Len(keys) + 1 : k <= m => start[k] <= start[m]
    /\ \A m \in n + 1 .. Len(keys) :
           /\ start[m + 1] = start[m] + Len(Sends[keys[m]])
           /\ \A i \in 1 .. Len(Sends[keys[m]]) : stream[start[m] + i] = Sends[keys[m]][i]

Spells(stream, n, keys) ==
    \E start \in [n + 1 .. Len(keys) + 1 -> 0 .. Len(stream)] : Splits(start, stream, n, keys)

(* Nothing is typed behind an ESC that is still to be delivered.           *)
EscapeLast == \A m \in Len(delivered) + 1 .. Len(pressed) - 1 : pressed[m] # "ESC"

InStep ==
    /\ Len(delivered) <= Len(pressed)
    /\ Spells(Stream, Len(delivered), pressed)
    /\ EscapeLast

TypeInv == TypeOK /\ ReaderOK
OrderInv == DeliveredInOrder /\ (NoCut => InStep)
KeyInv == TypeInv /\ OrderInv

-----------------------------------------------------------------------------
(* The tables. *)

LEMMA Tables ==
    /\ DOMAIN CursorKey = {"A", "B", "C", "D", "H", "F"}
    /\ DOMAIN TildeKey = {"3", "5", "6"}
    /\ DOMAIN FirstFunctionKey = {"P", "Q", "R", "S"}
    /\ DOMAIN FunctionKey = ({"1"} \X {"5", "7", "8", "9"}) \cup ({"2"} \X {"0", "1", "3", "4"})
<1>1. DOMAIN CursorKey = {"A", "B", "C", "D", "H", "F"}
  BY DEF CursorKey
<1>2. DOMAIN TildeKey = {"3", "5", "6"}
  BY DEF TildeKey
<1>3. DOMAIN FirstFunctionKey = {"P", "Q", "R", "S"}
  BY DEF FirstFunctionKey
<1>4. DOMAIN FunctionKey = ({"1"} \X {"5", "7", "8", "9"}) \cup ({"2"} \X {"0", "1", "3", "4"})
  BY DEF FunctionKey
<1> QED
  BY <1>1, <1>2, <1>3, <1>4

LEMMA NoTableHasEscape ==
    /\ \A b \in DOMAIN CursorKey : CursorKey[b] \notin {"ESC", "unknown", "cut"}
    /\ \A b \in DOMAIN TildeKey : TildeKey[b] \notin {"ESC", "unknown", "cut"}
    /\ \A b \in DOMAIN FirstFunctionKey : FirstFunctionKey[b] \notin {"ESC", "unknown", "cut"}
    /\ \A d \in DOMAIN FunctionKey : FunctionKey[d] \notin {"ESC", "unknown", "cut"}
<1>1. \A b \in DOMAIN CursorKey : CursorKey[b] \notin {"ESC", "unknown", "cut"}
  BY DEF CursorKey
<1>2. \A b \in DOMAIN TildeKey : TildeKey[b] \notin {"ESC", "unknown", "cut"}
  BY DEF TildeKey
<1>3. \A b \in DOMAIN FirstFunctionKey : FirstFunctionKey[b] \notin {"ESC", "unknown", "cut"}
  BY DEF FirstFunctionKey
<1>4. \A d \in DOMAIN FunctionKey : FunctionKey[d] \notin {"ESC", "unknown", "cut"}
  BY DEF FunctionKey
<1> QED
  BY <1>1, <1>2, <1>3, <1>4

LEMMA KeysOfTables ==
    /\ \A b \in DOMAIN CursorKey : CursorKey[b] \in Codes
    /\ \A b \in DOMAIN TildeKey : TildeKey[b] \in Codes
    /\ \A b \in DOMAIN FirstFunctionKey : FirstFunctionKey[b] \in Codes
    /\ \A d \in DOMAIN FunctionKey : FunctionKey[d] \in Codes
    /\ Bytes \subseteq Codes /\ {"ESC", "unknown", "cut"} \subseteq Codes
BY DEF Codes, Range

(* How the bytes of a key look.                                            *)
LEMMA CodeShapes ==
    ASSUME NEW k \in Keys
    PROVE  \/ Sends[k] = <<k>>
           \/ \E b \in DOMAIN CursorKey : CursorKey[b] = k /\ Sends[k] = <<"ESC", "[", b>>
           \/ \E b \in DOMAIN TildeKey : TildeKey[b] = k /\ Sends[k] = <<"ESC", "[", b, "~">>
           \/ \E b \in DOMAIN FirstFunctionKey : FirstFunctionKey[b] = k /\ Sends[k] = <<"ESC", "O", b>>
           \/ \E d \in DOMAIN FunctionKey : FunctionKey[d] = k /\ Sends[k] = <<"ESC", "[", d[1], d[2], "~">>
<1>1. Sends[k] \in Encodings(k)
  BY KeyAssumption
<1> QED
  BY <1>1 DEF Encodings

LEMMA CodeType ==
    ASSUME NEW k \in Keys
    PROVE  Sends[k] \in Seq(Bytes) /\ Len(Sends[k]) \in Nat \ {0}
<1>1. PICK n : n \in Nat \ {0} /\ Len(Sends[k]) = n /\ DOMAIN Sends[k] = 1 .. n
                  /\ Sends[k] = [i \in 1 .. n |-> Sends[k][i]]
  <2>1. \A a : Len(<<a>>) = 1 /\ <<a>> = [i \in 1 .. 1 |-> <<a>>[i]]
    OBVIOUS
  <2>2. \A a, b, c : Len(<<a, b, c>>) = 3 /\ <<a, b, c>> = [i \in 1 .. 3 |-> <<a, b, c>>[i]]
    OBVIOUS
  <2>3. \A a, b, c, d : Len(<<a, b, c, d>>) = 4 /\ <<a, b, c, d>> = [i \in 1 .. 4 |-> <<a, b, c, d>>[i]]
    OBVIOUS
  <2>4. \A a, b, c, d, e : Len(<<a, b, c, d, e>>) = 5
                           /\ <<a, b, c, d, e>> = [i \in 1 .. 5 |-> <<a, b, c, d, e>>[i]]
    OBVIOUS
  <2>5. \E n \in {1, 3, 4, 5} : Len(Sends[k]) = n /\ Sends[k] = [i \in 1 .. n |-> Sends[k][i]]
    <3>1. CASE Sends[k] = <<k>>
      BY <2>1, <3>1
    <3>2. CASE \E b : Sends[k] = <<"ESC", "[", b>> \/ Sends[k] = <<"ESC", "O", b>>
      BY <2>2, <3>2
    <3>3. CASE \E b : Sends[k] = <<"ESC", "[", b, "~">>
      BY <2>3, <3>3
    <3>4. CASE \E b, c : Sends[k] = <<"ESC", "[", b, c, "~">>
      BY <2>4, <3>4
    <3> QED
      BY <3>1, <3>2, <3>3, <3>4, CodeShapes
  <2> QED
    BY <2>5
<1>2. \A i \in 1 .. n : Sends[k][i] \in Bytes
  BY <1>1 DEF Bytes
<1>3. Sends[k] \in [1 .. n -> Bytes]
  BY <1>1, <1>2
<1> QED
  BY <1>1, <1>3

-----------------------------------------------------------------------------
(* The stream. *)

Any == Bytes \cup {"ESC", "[", "O"}

LEMMA Glued ==
    ASSUME NEW S, NEW c \in Seq(S), NEW q \in Seq(S), NEW s \in Seq(S)
    PROVE  /\ c \o (q \o s) \in Seq(S)
           /\ Len(c \o (q \o s)) = Len(c) + Len(q) + Len(s)
           /\ \A i \in 1 .. Len(c) + Len(q) + Len(s) :
                 (c \o (q \o s))[i] = IF i <= Len(c) THEN c[i]
                                      ELSE IF i <= Len(c) + Len(q) THEN q[i - Len(c)]
                                      ELSE s[i - Len(c) - Len(q)]
OBVIOUS

LEMMA SameSeq ==
    ASSUME NEW S, NEW s \in Seq(S), NEW t \in Seq(S), Len(s) = Len(t),
           \A i \in 1 .. Len(s) : s[i] = t[i]
    PROVE  s = t
OBVIOUS

LEMMA HeadTailAppend ==
    ASSUME NEW S, NEW s \in Seq(S), s # <<>>, NEW q \in Seq(S)
    PROVE  /\ Head(s) \in S /\ Head(s) = s[1] /\ Tail(s) \in Seq(S) /\ Len(s) \in Nat \ {0}
           /\ Len(Tail(s)) = Len(s) - 1 /\ \A i \in 1 .. Len(s) - 1 : Tail(s)[i] = s[i + 1]
           /\ Append(q, Head(s)) \in Seq(S) /\ Len(Append(q, Head(s))) = Len(q) + 1
           /\ \A i \in 1 .. Len(q) + 1 : Append(q, Head(s))[i] = IF i <= Len(q) THEN q[i] ELSE s[1]
OBVIOUS

(* What follows a first part, and what follows the first entry.            *)
LEMMA After ==
    ASSUME NEW S, NEW c \in Seq(S), NEW x \in Seq(S)
    PROVE  /\ Len(c \o x) = Len(c) + Len(x)
           /\ \A i \in 1 .. Len(x) : (c \o x)[Len(c) + i] = x[i]
OBVIOUS

LEMMA AfterFirst ==
    ASSUME NEW S, NEW q \in Seq(S), NEW s \in Seq(S), q # <<>>
    PROVE  /\ Len(q \o s) = 1 + Len(Tail(q) \o s) /\ Tail(q) \o s \in Seq(S)
           /\ \A i \in 1 .. Len(Tail(q) \o s) : (q \o s)[1 + i] = (Tail(q) \o s)[i]
<1>1. Tail(q) \in Seq(S) /\ Len(q) \in Nat \ {0} /\ Len(Tail(q)) = Len(q) - 1
      /\ Len(s) \in Nat
  BY HeadTailAppend
<1>2. \A i \in 1 .. Len(q) - 1 : Tail(q)[i] = q[i + 1]
  BY HeadTailAppend
<1>3. /\ Tail(q) \o s \in Seq(S) /\ Len(Tail(q) \o s) = Len(q) - 1 + Len(s)
      /\ Len(q \o s) = Len(q) + Len(s)
  BY <1>1
<1>4. ASSUME NEW i \in 1 .. Len(Tail(q) \o s) PROVE (q \o s)[1 + i] = (Tail(q) \o s)[i]
  <2>1. i \in Nat \ {0} /\ i <= Len(q) - 1 + Len(s) /\ i + 1 \in 1 .. Len(q) + Len(s)
    BY ONLY <1>1, <1>3, <1>4
  <2>2. CASE i <= Len(q) - 1
    <3>1. (Tail(q) \o s)[i] = Tail(q)[i] /\ (q \o s)[1 + i] = q[1 + i] /\ i \in 1 .. Len(q) - 1
      BY <1>1, <1>3, <2>1, <2>2
    <3>2. 1 + i = i + 1
      BY ONLY <2>1
    <3> QED
      BY ONLY <1>2, <3>1, <3>2
  <2>3. CASE ~(i <= Len(q) - 1)
    <3>1. (Tail(q) \o s)[i] = s[i - (Len(q) - 1)]
      BY <1>1, <1>3, <2>1, <2>3
    <3>2. (q \o s)[1 + i] = s[1 + i - Len(q)]
      BY <1>1, <1>3, <2>1, <2>3
    <3>3. 1 + i - Len(q) = i - (Len(q) - 1)
      BY ONLY <1>1, <2>1
    <3> QED
      BY ONLY <3>1, <3>2, <3>3
  <2> QED
    BY <2>2, <2>3
<1> QED
  BY <1>3, <1>4

(* A byte that goes from one sequence to the next one leaves the whole as  *)
(* it is.                                                                  *)
LEMMA Handed ==
    ASSUME NEW S, NEW s \in Seq(S), s # <<>>, NEW q \in Seq(S)
    PROVE  Append(q, Head(s)) \o Tail(s) = q \o s
<1> DEFINE t == Append(q, Head(s)) \o Tail(s)
           u == q \o s
<1>1. t \in Seq(S) /\ u \in Seq(S) /\ Len(t) = Len(u)
  BY HeadTailAppend
<1>2. \A i \in 1 .. Len(u) : t[i] = u[i]
  BY HeadTailAppend
<1> QED
  BY <1>1, <1>2, SameSeq

LEMMA Associative ==
    ASSUME NEW S, NEW c \in Seq(S), NEW q \in Seq(S), NEW s \in Seq(S)
    PROVE  c \o (q \o s) = (c \o q) \o s
<1> DEFINE t == c \o (q \o s)
           u == (c \o q) \o s
<1>1. t \in Seq(S) /\ u \in Seq(S) /\ Len(t) = Len(u)
  OBVIOUS
<1>2. \A i \in 1 .. Len(u) : t[i] = u[i]
  OBVIOUS
<1> QED
  BY <1>1, <1>2, SameSeq

LEMMA StreamType ==
    ASSUME TypeOK, ReaderOK
    PROVE  /\ Consumed \in Seq(Any) /\ queue \in Seq(Any) /\ sending \in Seq(Any)
           /\ Stream \in Seq(Any)
<1>1. queue \in Seq(Any) /\ sending \in Seq(Any) /\ reader.seen \in Seq(Any)
  BY DEF TypeOK, Any
<1>2. <<>> \in Seq(Any) /\ <<"ESC">> \in Seq(Any) /\ <<"ESC", "O">> \in Seq(Any)
      /\ <<"ESC", "[">> \in Seq(Any)
  BY DEF Any
<1>3. Consumed \in Seq(Any)
  BY <1>1, <1>2 DEF Consumed
<1> QED
  BY <1>1, <1>3, Glued DEF Stream

(* The first key that is not delivered yet stands at the beginning of the  *)
(* stream, and it is not the ESC key if more than its byte is there.       *)
LEMMA FirstKey ==
    ASSUME TypeOK, ReaderOK, InStep, Len(Stream) > 0
    PROVE  /\ Len(delivered) < Len(pressed)
           /\ LET k == pressed[Len(delivered) + 1]
                  c == Sends[k]
              IN  /\ k \in Keys /\ c \in Seq(Bytes) /\ Len(c) \in Nat \ {0} /\ Len(c) <= Len(Stream)
                  /\ \A i \in 1 .. Len(c) : Stream[i] = c[i]
                  /\ Len(Stream) > 1 /\ Stream[1] = "ESC" => Len(c) > 1
<1> DEFINE n == Len(delivered)
           k == pressed[n + 1]
           c == Sends[k]
           l == Len(Stream)
<1>1. n \in Nat /\ Len(pressed) \in Nat /\ n <= Len(pressed) /\ l \in Nat /\ l > 0
      /\ pressed \in Seq(Keys)
  BY StreamType DEF TypeOK, InStep
<1>2. PICK start : Splits(start, Stream, n, pressed)
  BY DEF InStep, Spells
<1>3. n < Len(pressed)
  BY <1>1, <1>2 DEF Splits
<1>4. k \in Keys /\ c \in Seq(Bytes) /\ Len(c) \in Nat \ {0}
  BY <1>1, <1>3, CodeType
<1> HIDE DEF n, k, c, l
<1>5. start[n + 1] = 0 /\ start[n + 2] \in 0 .. l /\ start[n + 2] = start[n + 1] + Len(c)
  <2>1. n + 1 \in n + 1 .. Len(pressed) /\ n + 2 \in n + 1 .. Len(pressed) + 1
    BY <1>1, <1>3
  <2> QED
    BY <1>1, <1>2, <2>1 DEF Splits, n, k, c, l
<1>6. Len(c) <= l
  BY <1>1, <1>4, <1>5
<1>7. \A i \in 1 .. Len(c) : Stream[i] = c[i]
  <2>1. n + 1 \in n + 1 .. Len(pressed)
    BY <1>1, <1>3
  <2>2. \A i \in 1 .. Len(c) : Stream[start[n + 1] + i] = c[i]
    BY <1>2, <2>1 DEF Splits, k, c, n
  <2> QED
    BY <1>4, <1>5, <2>2
<1>8. ASSUME l > 1, Stream[1] = "ESC", Len(c) = 1 PROVE FALSE
  <2>2. k = "ESC"
    <3>1. c[1] = "ESC"
      BY <1>7, <1>8
    <3>2. \A x, y, z, u, v : Len(<<x, y, z>>) = 3 /\ Len(<<x, y, z, u>>) = 4
                             /\ Len(<<x, y, z, u, v>>) = 5
      OBVIOUS
    <3>3. c = <<k>>
      <4>1. \/ c = <<k>>
            \/ \E x, y, z : c = <<x, y, z>>
            \/ \E x, y, z, u : c = <<x, y, z, u>>
            \/ \E x, y, z, u, v : c = <<x, y, z, u, v>>
        BY <1>4, CodeShapes DEF c
      <4> QED
        BY ONLY <1>8, <3>2, <4>1
    <3> QED
      BY <3>1, <3>3
  <2>3. ~(n + 1 \in n + 1 .. Len(pressed) - 1)
    BY <2>2 DEF InStep, EscapeLast, n, k
  <2>4. Len(pressed) = n + 1
    BY <1>1, <1>3, <2>3
  <2>5. start[Len(pressed) + 1] = l
    BY <1>2 DEF Splits, l
  <2> QED
    BY <1>1, <1>5, <1>8, <2>4, <2>5
<1>9. l > 1 /\ Stream[1] = "ESC" => Len(c) > 1
  <2>1. \A e \in Nat \ {0} : e = 1 \/ e > 1
    OBVIOUS
  <2>2. Len(c) = 1 \/ Len(c) > 1
    BY ONLY <1>4, <2>1, Zenon
  <2> QED
    BY <1>8, <2>2
<1> QED
  BY <1>3, <1>4, <1>6, <1>7, <1>9 DEF n, k, c, l

(* With the first key delivered the stream begins with the second one.     *)
LEMMA Delivered ==
    ASSUME NEW keys \in Seq(Keys), NEW n \in Nat, n < Len(keys), NEW s \in Seq(Any), NEW t \in Seq(Any),
           Spells(s, n, keys), Len(s) = Len(Sends[keys[n + 1]]) + Len(t),
           \A i \in 1 .. Len(t) : t[i] = s[Len(Sends[keys[n + 1]]) + i]
    PROVE  Spells(t, n + 1, keys)
<1> DEFINE w == Len(Sends[keys[n + 1]])
           L == Len(keys)
<1>0. Len(s) = w + Len(t)
  OBVIOUS
<1>1. w \in Nat /\ L \in Nat /\ n + 1 \in n + 1 .. L
      /\ \A m \in n + 1 .. L : keys[m] \in Keys /\ Len(Sends[keys[m]]) \in Nat
  BY CodeType
<1>2. PICK start : Splits(start, s, n, keys)
  BY DEF Spells
<1> DEFINE next == [m \in n + 2 .. L + 1 |-> start[m] - w]
<1>3. n + 1 + 1 = n + 2 /\ Len(s) \in Nat /\ Len(t) \in Nat /\ n + 1 \in n + 1 .. L + 1
      /\ n + 2 \in n + 1 .. L + 1
  BY <1>1
<1>4. start[n + 2] = w
  <2>1. start[n + 1] = 0 /\ start[n + 1 + 1] = start[n + 1] + w
    BY <1>1, <1>2 DEF Splits
  <2> QED
    BY ONLY <1>1, <1>3, <2>1
<1>5. \A m \in n + 2 .. L + 1 : start[m] \in Nat /\ w <= start[m] /\ start[m] <= Len(s)
  <2>1. \A m \in n + 2 .. L + 1 : m \in n + 1 .. L + 1 /\ n + 2 <= m
    BY <1>1
  <2>2. \A m \in n + 1 .. L + 1 : start[m] \in 0 .. Len(s)
    BY <1>2 DEF Splits
  <2>3. \A k, m \in n + 1 .. L + 1 : k <= m => start[k] <= start[m]
    BY <1>2 DEF Splits
  <2>4. \A m \in n + 2 .. L + 1 : w <= start[m]
    BY ONLY <1>3, <1>4, <2>1, <2>3
  <2>5. \A m \in n + 2 .. L + 1 : start[m] \in Nat /\ start[m] <= Len(s)
    BY ONLY <1>3, <2>1, <2>2
  <2> QED
    BY ONLY <2>4, <2>5, Zenon
<1> HIDE DEF w, L
<1>6. next \in [n + 2 .. L + 1 -> 0 .. Len(t)]
  <2>1. w \in Nat /\ Len(t) \in Nat
    BY <1>1, <1>3
  <2>2. \A m \in n + 2 .. L + 1 : start[m] - w \in 0 .. Len(t)
    BY ONLY <1>0, <1>5, <2>1
  <2> QED
    BY ONLY <2>2
<1>7. next[n + 2] = 0 /\ next[L + 1] = Len(t)
  <2>1. n + 2 \in n + 2 .. L + 1 /\ L + 1 \in n + 2 .. L + 1 /\ start[L + 1] = Len(s)
    BY <1>1, <1>2, <1>3 DEF Splits, L
  <2> QED
    BY ONLY <1>0, <1>1, <1>3, <1>4, <2>1
<1>8. \A k, m \in n + 2 .. L + 1 : k <= m => next[k] <= next[m]
  <2>1. \A k, m \in n + 2 .. L + 1 : k <= m => start[k] <= start[m]
    BY <1>1, <1>2 DEF Splits, L
  <2> QED
    BY ONLY <1>1, <1>5, <2>1
<1>9. ASSUME NEW m \in n + 2 .. L
      PROVE  /\ next[m + 1] = next[m] + Len(Sends[keys[m]])
             /\ \A i \in 1 .. Len(Sends[keys[m]]) : t[next[m] + i] = Sends[keys[m]][i]
  <2>1. m \in n + 1 .. L /\ m \in n + 2 .. L + 1 /\ m + 1 \in n + 2 .. L + 1
    BY <1>1
  <2>2. /\ start[m + 1] = start[m] + Len(Sends[keys[m]])
        /\ \A i \in 1 .. Len(Sends[keys[m]]) : s[start[m] + i] = Sends[keys[m]][i]
    BY <1>2, <2>1 DEF Splits, L
  <2>3. next[m] = start[m] - w /\ next[m + 1] = start[m + 1] - w
    BY <2>1
  <2>4. start[m] \in Nat /\ start[m + 1] \in Nat /\ Len(Sends[keys[m]]) \in Nat
        /\ w <= start[m] /\ start[m + 1] <= Len(s)
    BY <1>1, <1>5, <2>1
  <2> HIDE DEF next
  <2>5. \A i \in 1 .. Len(Sends[keys[m]]) : next[m] + i \in 1 .. Len(t) /\ w + (next[m] + i) = start[m] + i
    <3>1. PICK a, e, f, g : a = start[m] /\ e = Len(Sends[keys[m]]) /\ f = next[m] /\ g = Len(t)
      OBVIOUS
    <3>2. /\ a \in Nat /\ e \in Nat /\ g \in Nat /\ w \in Nat /\ w <= a
          /\ f = a - w /\ a + e <= w + g
      BY <1>0, <1>1, <1>3, <2>2, <2>3, <2>4, <3>1
    <3>3. \A i \in 1 .. e : f + i \in 1 .. g /\ w + (f + i) = a + i
      BY ONLY <3>2
    <3> QED
      BY ONLY <3>1, <3>3
  <2>6. \A i \in 1 .. Len(t) : t[i] = s[w + i]
    BY DEF w
  <2>7. next[m + 1] = next[m] + Len(Sends[keys[m]])
    <3>1. PICK a, b, e : a = start[m] /\ b = start[m + 1] /\ e = Len(Sends[keys[m]])
      OBVIOUS
    <3>2. a \in Nat /\ e \in Nat /\ b = a + e /\ w \in Nat
      BY ONLY <1>1, <2>2, <2>4, <3>1
    <3>3. b - w = (a - w) + e
      BY ONLY <3>2
    <3> QED
      BY ONLY <2>3, <3>1, <3>3, Zenon
  <2>8. \A i \in 1 .. Len(Sends[keys[m]]) : t[next[m] + i] = Sends[keys[m]][i]
    BY ONLY <2>2, <2>5, <2>6
  <2> QED
    BY <2>7, <2>8
<1> HIDE DEF next
<1>10. Splits(next, t, n + 1, keys)
  BY <1>3, <1>6, <1>7, <1>8, <1>9 DEF Splits, L
<1> QED
  BY <1>3, <1>6, <1>10 DEF Spells, L

-----------------------------------------------------------------------------
(* What a return does. *)

LEMMA PlacesFinite ==
    ASSUME NEW S, NEW s \in Seq(S), NEW k
    PROVE  IsFiniteSet(Places(s, k)) /\ Cardinality(Places(s, k)) \in Nat
<1>1. IsFiniteSet(1 .. Len(s))
  BY FS_Interval
<1> QED
  BY <1>1, FS_Subset, FS_CardinalityType DEF Places

LEMMA ReturnType ==
    ASSUME TypeOK, NEW k \in Codes, Return(k)
    PROVE  LET d == IF k = "unknown" /\ reader.call = "inkey" THEN "cut" ELSE k
           IN  /\ delivered' \in Seq(Codes) /\ Len(delivered) \in Nat
               /\ Len(delivered') = Len(delivered) + 1 /\ delivered'[Len(delivered) + 1] = d
               /\ \A i \in 1 .. Len(delivered) : delivered'[i] = delivered[i]
               /\ screenshots' = Cardinality(Places(delivered, "F10")')
<1> DEFINE d == IF k = "unknown" /\ reader.call = "inkey" THEN "cut" ELSE k
           n == Len(delivered)
<1>1. d \in Codes /\ delivered \in Seq(Codes) /\ delivered' = Append(delivered, d) /\ n \in Nat
  BY KeysOfTables DEF Return, TypeOK
<1>2. (d = "F10") = (k = "F10")
  OBVIOUS
<1> HIDE DEF d
<1>3. /\ delivered' \in Seq(Codes) /\ Len(delivered') = n + 1 /\ delivered'[n + 1] = d
      /\ \A i \in 1 .. n : delivered'[i] = delivered[i]
  BY <1>1
<1>4. IsFiniteSet(Places(delivered, "F10")) /\ screenshots = Cardinality(Places(delivered, "F10"))
      /\ n + 1 \notin Places(delivered, "F10")
  <2>1. PICK s : s = delivered
    OBVIOUS
  <2>2. IsFiniteSet(Places(s, "F10"))
    BY <1>1, <2>1, PlacesFinite
  <2>3. n + 1 \notin Places(delivered, "F10")
    BY <1>1 DEF Places
  <2> QED
    BY <2>1, <2>2, <2>3 DEF TypeOK
<1>5. screenshots' = Cardinality(Places(delivered, "F10")')
  <2>1. CASE d = "F10"
    <3>1. Places(delivered, "F10")' = Places(delivered, "F10") \cup {n + 1}
      BY <1>1, <1>3, <2>1 DEF Places
    <3>2. Cardinality(Places(delivered, "F10") \cup {n + 1}) = Cardinality(Places(delivered, "F10")) + 1
      BY ONLY <1>4, FS_AddElement
    <3> QED
      BY <1>2, <1>4, <2>1, <3>1, <3>2 DEF Return
  <2>2. CASE d # "F10"
    <3>1. Places(delivered, "F10")' = Places(delivered, "F10")
      BY <1>1, <1>3, <2>2 DEF Places
    <3> QED
      BY <1>2, <1>4, <2>2, <3>1 DEF Return
  <2> QED
    BY <2>1, <2>2
<1> QED
  BY <1>1, <1>3, <1>5 DEF d

(* A return keeps the order if the first key of the stream is returned, or *)
(* inkey cuts it off.                                                      *)
LEMMA OrderKept ==
    ASSUME TypeInv, OrderInv, NEW k \in Codes, Return(k), pressed' = pressed,
           NoCut /\ ~(k = "unknown" /\ reader.call = "inkey")
             => /\ Len(delivered) < Len(pressed) /\ k = pressed[Len(delivered) + 1]
                /\ Spells(Stream', Len(delivered) + 1, pressed)
    PROVE  OrderInv'
<1> DEFINE n == Len(delivered)
<1>1. /\ n \in Nat /\ Len(delivered') = n + 1 /\ Len(pressed) \in Nat
      /\ delivered'[n + 1] = IF k = "unknown" /\ reader.call = "inkey" THEN "cut" ELSE k
      /\ \A i \in 1 .. n : delivered'[i] = delivered[i]
  BY ReturnType DEF TypeInv, TypeOK
<1>2. ASSUME \A i \in 1 .. n + 1 : delivered'[i] # "cut"
      PROVE  /\ NoCut /\ n < Len(pressed) /\ delivered'[n + 1] = pressed[n + 1]
             /\ Spells(Stream', n + 1, pressed)
  <2>1. \A i \in 1 .. n : i \in 1 .. n + 1
    BY <1>1
  <2>2. NoCut
    BY <1>1, <1>2, <2>1 DEF NoCut
  <2>3. n + 1 \in 1 .. n + 1
    BY <1>1
  <2>4. ~(k = "unknown" /\ reader.call = "inkey") /\ delivered'[n + 1] = k
    BY <1>1, <1>2, <2>3
  <2> QED
    BY <2>2, <2>4
<1>3. DeliveredInOrder'
  <2> SUFFICES ASSUME NEW m \in 1 .. n + 1, \A i \in 1 .. m : delivered'[i] # "cut"
               PROVE  m <= Len(pressed) /\ delivered'[m] = pressed[m]
    BY <1>1 DEF DeliveredInOrder
  <2>1. CASE m = n + 1
    BY <1>1, <1>2, <2>1
  <2>2. CASE m \in 1 .. n
    <3>1. \A i \in 1 .. m : i \in 1 .. n
      BY <1>1, <2>2
    <3>2. \A i \in 1 .. m : delivered[i] # "cut"
      BY <1>1, <3>1
    <3> QED
      BY <1>1, <2>2, <3>2 DEF OrderInv, DeliveredInOrder
  <2> QED
    BY <1>1, <2>1, <2>2
<1>4. ASSUME NoCut' PROVE InStep'
  <2>1. NoCut /\ n < Len(pressed) /\ Spells(Stream', n + 1, pressed)
    BY <1>1, <1>2, <1>4 DEF NoCut
  <2>2. \A m \in n + 2 .. Len(pressed) - 1 : m \in n + 1 .. Len(pressed) - 1
    BY <1>1
  <2>3. EscapeLast'
    <3>1. EscapeLast
      BY <2>1 DEF OrderInv, InStep
    <3>2. n + 1 + 1 = n + 2
      BY <1>1
    <3> QED
      BY <1>1, <2>2, <3>1, <3>2 DEF EscapeLast
  <2> QED
    BY <1>1, <2>1, <2>3 DEF InStep
<1> QED
  BY <1>3, <1>4 DEF OrderInv

LEMMA GluedPair ==
    ASSUME NEW S, NEW r \in Seq(S), NEW s \in Seq(S)
    PROVE  <<>> \o (r \o s) = r \o s
<1>1. r \o s \in Seq(S)
  OBVIOUS
<1> DEFINE y == r \o s
<1> HIDE DEF y
<1>2. \A z \in Seq(S) : <<>> \o z = z
  <2> TAKE z \in Seq(S)
  <2>1. <<>> \o z \in Seq(S) /\ Len(<<>> \o z) = Len(z)
    OBVIOUS
  <2>2. \A i \in 1 .. Len(z) : (<<>> \o z)[i] = z[i]
    OBVIOUS
  <2> QED
    BY <2>1, <2>2, SameSeq
<1> QED
  BY <1>1, <1>2

(* The reader has taken all bytes of the first key, the last one perhaps   *)
(* just now: the stream begins with the next key.                          *)
LEMMA KeyTaken ==
    ASSUME TypeInv, TypeInv', InStep, pressed' = pressed, sending' = sending, reader' = Idle,
           Len(Stream) > 0,
           \/ /\ queue # <<>> /\ queue' = Tail(queue)
              /\ Len(Sends[pressed[Len(delivered) + 1]]) = Len(Consumed) + 1
           \/ queue' = queue /\ Len(Sends[pressed[Len(delivered) + 1]]) = Len(Consumed)
    PROVE  Spells(Stream', Len(delivered) + 1, pressed)
<1> DEFINE n == Len(delivered)
           w == Len(Sends[pressed[n + 1]])
<1>1. /\ n \in Nat /\ pressed \in Seq(Keys) /\ n < Len(pressed) /\ w \in Nat
      /\ Spells(Stream, n, pressed)
  BY FirstKey DEF TypeInv, TypeOK, InStep
<1>2. PICK c, q, s, r : c = Consumed /\ q = queue /\ s = sending /\ r = queue'
  OBVIOUS
<1>3. /\ c \in Seq(Any) /\ q \in Seq(Any) /\ s \in Seq(Any) /\ r \in Seq(Any)
      /\ Stream = c \o (q \o s) /\ Stream \in Seq(Any)
  <2>1. Bytes \subseteq Any
    BY DEF Any
  <2>2. r \in Seq(Any)
    BY <1>2, <2>1 DEF TypeInv, TypeOK
  <2> QED
    BY <1>2, <2>2, StreamType DEF TypeInv, Stream
<1>4. Stream' = <<>> \o (r \o s)
  <2>1. Consumed' = <<>>
    BY DEF Consumed, Idle
  <2> QED
    BY <1>2, <2>1 DEF Stream
<1>5. Stream' \in Seq(Any)
  BY ONLY <1>3, <1>4
<1>6. \/ q # <<>> /\ r = Tail(q) /\ w = Len(c) + 1
      \/ r = q /\ w = Len(c)
  BY <1>2
<1> HIDE DEF w, n
<1>7. /\ Len(Stream) = w + Len(Stream')
      /\ \A i \in 1 .. Len(Stream') : Stream'[i] = Stream[w + i]
  <2> DEFINE x == q \o s
  <2>1. x \in Seq(Any) /\ Len(c) \in Nat /\ Len(x) \in Nat
    BY ONLY <1>3
  <2>2. Len(Stream) = Len(c) + Len(x) /\ \A i \in 1 .. Len(x) : Stream[Len(c) + i] = x[i]
    <3> HIDE DEF x
    <3>1. Stream = c \o x
      BY <1>3 DEF x
    <3> QED
      BY ONLY <1>3, <2>1, <3>1, After
  <2>3. CASE r = q /\ w = Len(c)
    <3>1. Stream' = x
      BY ONLY <1>3, <1>4, <2>3, GluedPair
    <3> QED
      BY ONLY <2>2, <2>3, <3>1, Zenon
  <2>4. CASE q # <<>> /\ r = Tail(q) /\ w = Len(c) + 1
    <3> DEFINE y == Tail(q) \o s
    <3>1. /\ Len(x) = 1 + Len(y) /\ y \in Seq(Any)
          /\ \A i \in 1 .. Len(y) : x[1 + i] = y[i]
      BY ONLY <1>3, <2>4, AfterFirst
    <3>2. Stream' = y
      BY ONLY <1>3, <1>4, <2>4, GluedPair
    <3> HIDE DEF x, y
    <3>3. Len(y) \in Nat
      BY ONLY <3>1
    <3>4. Len(Stream) = w + Len(y)
      BY ONLY <2>1, <2>2, <2>4, <3>1, <3>3
    <3>5. ASSUME NEW i \in 1 .. Len(y) PROVE Stream[w + i] = y[i]
      <4>1. 1 + i \in 1 .. Len(x) /\ w + i = Len(c) + (1 + i)
        BY ONLY <2>1, <2>4, <3>1, <3>3, <3>5
      <4>2. Stream[Len(c) + (1 + i)] = x[1 + i]
        BY ONLY <2>2, <4>1
      <4> QED
        BY ONLY <3>1, <4>1, <4>2, Zenon
    <3> QED
      BY ONLY <3>2, <3>4, <3>5, Zenon
  <2> QED
    BY <1>6, <2>3, <2>4
<1>8. PICK t, u, p, m : t = Stream' /\ u = Stream /\ p = pressed /\ m = n
  OBVIOUS
<1>9. Spells(t, m + 1, p)
  BY <1>1, <1>3, <1>5, <1>7, <1>8, Delivered DEF w
<1> QED
  BY <1>8, <1>9 DEF n

-----------------------------------------------------------------------------
(* Types. *)

LEMMA Taken ==
    ASSUME TypeInv, NEW b \in Bytes, Take(b)
    PROVE  queue # <<>> /\ b = Head(queue) /\ queue' = Tail(queue) /\ queue' \in Seq(Bytes)
BY HeadTailAppend DEF Take, TypeInv, TypeOK

LEMMA ReturnTyped ==
    ASSUME TypeInv, NEW k \in Codes, Return(k), queue' \in Seq(Bytes), UNCHANGED terminal
    PROVE  TypeInv' /\ reader' = Idle
<1>1. reader' = Idle
  BY DEF Return
<1>2. ReaderOK'
  BY <1>1 DEF ReaderOK, Idle
<1>3. reader' \in [call : {"none"} \cup Calls, at : Points, seen : Seq(Bytes)]
  BY <1>1 DEF Idle, Points
<1>4. delivered' \in Seq(Codes) /\ screenshots' = Cardinality(Places(delivered, "F10")')
  BY ReturnType DEF TypeInv
<1>5. sending' \in Seq(Bytes) /\ pressed' \in Seq(Keys)
  BY DEF TypeInv, TypeOK, terminal
<1> QED
  BY <1>1, <1>2, <1>3, <1>4, <1>5 DEF TypeInv, TypeOK

LEMMA GotoTyped ==
    ASSUME TypeInv, reader # Idle, NEW at \in Points \ {"none"}, NEW seen \in Seq(Bytes), Goto(at, seen),
           at \in {"key", "escape", "letter", "bracket"} => seen = <<>>,
           at = "tilde" => \E b \in DOMAIN TildeKey : seen = <<b>>,
           at = "digit" => \E b \in {"1", "2"} : seen = <<b>>,
           at = "end" => \E b \in {"1", "2"}, c \in Bytes : seen = <<b, c>>,
           queue' \in Seq(Bytes), UNCHANGED terminal
    PROVE  /\ TypeInv' /\ reader'.at = at /\ reader'.seen = seen
           /\ UNCHANGED <<delivered, screenshots>>
<1>1. /\ reader' = [reader EXCEPT !.at = at, !.seen = seen] /\ UNCHANGED <<delivered, screenshots>>
      /\ reader \in [call : {"none"} \cup Calls, at : Points, seen : Seq(Bytes)]
  BY DEF Goto, TypeInv, TypeOK
<1>2. reader'.at = at /\ reader'.seen = seen
      /\ reader' \in [call : {"none"} \cup Calls, at : Points, seen : Seq(Bytes)]
  BY <1>1
<1>3. ReaderOK'
  BY <1>2 DEF ReaderOK, Idle
<1>4. sending' \in Seq(Bytes) /\ pressed' \in Seq(Keys) /\ delivered' \in Seq(Codes)
      /\ screenshots' = Cardinality(Places(delivered, "F10")')
  BY <1>1 DEF TypeInv, TypeOK, terminal, Places
<1> QED
  BY <1>1, <1>2, <1>3, <1>4 DEF TypeInv, TypeOK

-----------------------------------------------------------------------------
(* Order. *)

LEMMA StreamStays ==
    ASSUME OrderInv, Stream' = Stream, delivered' = delivered, pressed' = pressed
    PROVE  OrderInv'
BY DEF OrderInv, DeliveredInOrder, NoCut, InStep, EscapeLast

LEMMA Passed ==
    ASSUME TypeInv, queue # <<>>, queue' = Tail(queue), sending' = sending,
           Consumed' = Append(Consumed, Head(queue))
    PROVE  Stream' = Stream
<1>1. PICK c, q, s : c = Consumed /\ q = queue /\ s = sending
  OBVIOUS
<1>2. c \in Seq(Any) /\ q \in Seq(Any) /\ s \in Seq(Any) /\ q # <<>>
  BY <1>1, StreamType DEF TypeInv
<1>3. Append(c, Head(q)) \in Seq(Any) /\ Tail(q) \in Seq(Any)
  BY ONLY <1>2, HeadTailAppend
<1>4. Append(c, Head(q)) \o (Tail(q) \o s) = (Append(c, Head(q)) \o Tail(q)) \o s
  <2>1. PICK d, r : d = Append(c, Head(q)) /\ r = Tail(q)
    OBVIOUS
  <2>2. d \in Seq(Any) /\ r \in Seq(Any) /\ s \in Seq(Any)
    BY <1>2, <1>3, <2>1
  <2>3. d \o (r \o s) = (d \o r) \o s
    BY ONLY <2>2, Associative
  <2> QED
    BY <2>1, <2>3
<1>5. Append(c, Head(q)) \o Tail(q) = c \o q
  BY ONLY <1>2, Handed
<1>6. c \o (q \o s) = (c \o q) \o s
  BY ONLY <1>2, Associative
<1> QED
  BY <1>1, <1>4, <1>5, <1>6 DEF Stream

(* The byte just read follows those already consumed.                      *)
LEMMA NextByte ==
    ASSUME TypeInv, queue # <<>>
    PROVE  /\ Len(Consumed) \in Nat /\ Len(Stream) > Len(Consumed) /\ Len(Stream) \in Nat
           /\ Stream[Len(Consumed) + 1] = Head(queue)
           /\ \A i \in 1 .. Len(Consumed) : Stream[i] = Consumed[i]
<1>1. PICK c, q, s : c = Consumed /\ q = queue /\ s = sending
  OBVIOUS
<1>2. c \in Seq(Any) /\ q \in Seq(Any) /\ s \in Seq(Any) /\ q # <<>>
  BY <1>1, StreamType DEF TypeInv
<1>3. Head(q) = q[1] /\ Len(q) \in Nat \ {0} /\ Len(c) \in Nat /\ Len(s) \in Nat
  BY <1>2
<1> DEFINE u == c \o (q \o s)
<1>4. /\ Len(u) = Len(c) + Len(q) + Len(s)
      /\ \A i \in 1 .. Len(c) + Len(q) + Len(s) :
            u[i] = IF i <= Len(c) THEN c[i]
                   ELSE IF i <= Len(c) + Len(q) THEN q[i - Len(c)]
                   ELSE s[i - Len(c) - Len(q)]
  BY ONLY <1>2, Glued
<1> HIDE DEF u
<1>5. u[Len(c) + 1] = q[1] /\ Len(u) > Len(c) /\ Len(u) \in Nat
  BY ONLY <1>3, <1>4
<1>6. \A i \in 1 .. Len(c) : u[i] = c[i]
  BY ONLY <1>3, <1>4
<1> QED
  BY <1>1, <1>3, <1>5, <1>6 DEF Stream, u

(* What the first key can be, from the bytes the reader has seen of it.    *)
LEMMA Decoding ==
    ASSUME TypeInv, InStep, queue # <<>>
    PROVE  LET k == pressed[Len(delivered) + 1]
               c == Sends[k]
               b == Head(queue)
               seen == reader.seen
           IN  /\ Len(delivered) < Len(pressed) /\ Len(Stream) > 0
               /\ reader.at = "key" /\ b # "ESC" => c = <<b>> /\ k = b
               /\ reader.at = "escape" => b \in {"[", "O"}
               /\ reader.at = "letter" =>
                     b \in DOMAIN FirstFunctionKey /\ FirstFunctionKey[b] = k /\ Len(c) = 3
               /\ reader.at = "bracket" =>
                     \/ b \in DOMAIN CursorKey /\ CursorKey[b] = k /\ Len(c) = 3
                     \/ b \in DOMAIN TildeKey \cup {"1", "2"}
               /\ reader.at = "tilde" =>
                     seen[1] \in DOMAIN TildeKey /\ TildeKey[seen[1]] = k /\ Len(c) = 4
               /\ reader.at = "end" =>
                     seen \in DOMAIN FunctionKey /\ FunctionKey[seen] = k /\ Len(c) = 5 /\ b = "~"
<1> DEFINE k == pressed[Len(delivered) + 1]
           c == Sends[k]
           b == Head(queue)
           seen == reader.seen
           m == Len(Consumed)
<1>1. /\ m \in Nat /\ Len(Stream) > m /\ Len(Stream) \in Nat /\ Stream[m + 1] = b
      /\ \A i \in 1 .. m : Stream[i] = Consumed[i]
  BY NextByte
<1>2. /\ Len(delivered) < Len(pressed) /\ k \in Keys /\ Len(c) \in Nat \ {0}
      /\ Len(c) <= Len(Stream) /\ \A i \in 1 .. Len(c) : Stream[i] = c[i]
      /\ Len(Stream) > 1 /\ Stream[1] = "ESC" => Len(c) > 1
  BY <1>1, FirstKey DEF TypeInv
<1>3. \/ c = <<k>>
      \/ \E x \in DOMAIN CursorKey : CursorKey[x] = k /\ c = <<"ESC", "[", x>>
      \/ \E x \in DOMAIN TildeKey : TildeKey[x] = k /\ c = <<"ESC", "[", x, "~">>
      \/ \E x \in DOMAIN FirstFunctionKey : FirstFunctionKey[x] = k /\ c = <<"ESC", "O", x>>
      \/ \E d \in DOMAIN FunctionKey : FunctionKey[d] = k /\ c = <<"ESC", "[", d[1], d[2], "~">>
  BY <1>2, CodeShapes
<1> HIDE DEF k, c, b, m
<1>4. ASSUME reader.at = "key", b # "ESC" PROVE c = <<b>> /\ k = b
  <2>1. Consumed = <<>>
    BY <1>4 DEF Consumed
  <2>2. m = 0
    BY <2>1 DEF m
  <2>3. c[1] = b
    BY <1>1, <1>2, <2>2
  <2> QED
    BY <1>3, <1>4, <2>3
<1>5. ASSUME m >= 1, Consumed[1] = "ESC"
      PROVE  \/ \E x \in DOMAIN CursorKey : CursorKey[x] = k /\ c = <<"ESC", "[", x>>
             \/ \E x \in DOMAIN TildeKey : TildeKey[x] = k /\ c = <<"ESC", "[", x, "~">>
             \/ \E x \in DOMAIN FirstFunctionKey : FirstFunctionKey[x] = k /\ c = <<"ESC", "O", x>>
             \/ \E d \in DOMAIN FunctionKey : FunctionKey[d] = k /\ c = <<"ESC", "[", d[1], d[2], "~">>
  <2>1. Len(c) > 1
    BY <1>1, <1>2, <1>5
  <2>2. Len(<<k>>) = 1
    OBVIOUS
  <2>3. c # <<k>>
    <3>1. ~(1 > 1)
      OBVIOUS
    <3> QED
      BY ONLY <2>1, <2>2, <3>1, Zenon
  <2> QED
    BY ONLY <1>3, <2>3, Zenon
<1>6. ASSUME reader.at = "escape" PROVE b \in {"[", "O"}
  <2>1. Consumed = <<"ESC">>
    BY <1>6 DEF Consumed
  <2>2. m = 1 /\ Consumed[1] = "ESC"
    BY <2>1 DEF m
  <2>3. c[2] = b
    BY <1>1, <1>2, <1>5, <2>2
  <2> QED
    BY <1>5, <2>2, <2>3
<1>7. ASSUME reader.at = "letter"
      PROVE  b \in DOMAIN FirstFunctionKey /\ FirstFunctionKey[b] = k /\ Len(c) = 3
  <2>1. Consumed = <<"ESC", "O">>
    BY <1>7 DEF Consumed
  <2>2. m = 2 /\ Consumed[1] = "ESC" /\ Consumed[2] = "O"
    BY <2>1 DEF m
  <2>3. PICK x \in DOMAIN FirstFunctionKey : FirstFunctionKey[x] = k /\ c = <<"ESC", "O", x>>
    BY <1>1, <1>2, <1>5, <2>2
  <2>4. Len(c) = 3 /\ c[3] = x
    BY <2>3
  <2>5. x = b
    BY <1>1, <1>2, <2>2, <2>4
  <2> QED
    BY <2>3, <2>4, <2>5
<1>8. ASSUME reader.at \notin {"none", "key", "escape", "letter"}
      PROVE  /\ m = Len(seen) + 2 /\ m >= 2 /\ Consumed[1] = "ESC" /\ Consumed[2] = "["
             /\ \A i \in 1 .. Len(seen) : Consumed[i + 2] = seen[i]
  <2>1. Consumed = <<"ESC", "[">> \o seen
    BY <1>8 DEF Consumed
  <2>2. PICK s : s = seen /\ s \in Seq(Any)
    BY DEF TypeInv, TypeOK, Any
  <2>3. <<"ESC", "[">> \in Seq(Any)
    BY DEF Any
  <2>4. /\ Len(<<"ESC", "[">> \o s) = Len(s) + 2
        /\ (<<"ESC", "[">> \o s)[1] = "ESC" /\ (<<"ESC", "[">> \o s)[2] = "["
        /\ \A i \in 1 .. Len(s) : (<<"ESC", "[">> \o s)[i + 2] = s[i]
    BY ONLY <2>2, <2>3
  <2> QED
    BY <2>1, <2>2, <2>4 DEF m
<1>9. ASSUME reader.at \notin {"none", "key", "escape", "letter"}
      PROVE  \/ \E x \in DOMAIN CursorKey : CursorKey[x] = k /\ c = <<"ESC", "[", x>>
             \/ \E x \in DOMAIN TildeKey : TildeKey[x] = k /\ c = <<"ESC", "[", x, "~">>
             \/ \E d \in DOMAIN FunctionKey : FunctionKey[d] = k /\ c = <<"ESC", "[", d[1], d[2], "~">>
  <2>1. m >= 2 /\ Consumed[1] = "ESC" /\ Consumed[2] = "["
    BY <1>8, <1>9
  <2>2. 2 \in 1 .. m /\ 2 \in 1 .. 3
    BY <1>1, <2>1
  <2>3. Stream[2] = "["
    BY <1>1, <2>1, <2>2
  <2>4. ~ \E x : c = <<"ESC", "O", x>>
    BY <1>2, <2>2, <2>3
  <2> QED
    BY <1>1, <1>5, <2>1, <2>4
<1>10. ASSUME reader.at = "bracket"
       PROVE  \/ b \in DOMAIN CursorKey /\ CursorKey[b] = k /\ Len(c) = 3
              \/ b \in DOMAIN TildeKey \cup {"1", "2"}
  <2>1. seen = <<>>
    BY <1>10 DEF TypeInv, ReaderOK
  <2>2. m = 2
    BY <1>8, <1>10, <2>1
  <2>3. Stream[3] = b
    BY <1>1, <2>2
  <2>4. CASE \E x \in DOMAIN CursorKey : CursorKey[x] = k /\ c = <<"ESC", "[", x>>
    BY <1>2, <2>3, <2>4
  <2>5. CASE \E x \in DOMAIN TildeKey : TildeKey[x] = k /\ c = <<"ESC", "[", x, "~">>
    BY <1>2, <2>3, <2>5
  <2>6. CASE \E d \in DOMAIN FunctionKey : FunctionKey[d] = k /\ c = <<"ESC", "[", d[1], d[2], "~">>
    <3>1. PICK d \in DOMAIN FunctionKey : c = <<"ESC", "[", d[1], d[2], "~">>
      BY <2>6
    <3>2. d[1] \in {"1", "2"}
      BY <3>1, Tables
    <3> QED
      BY <1>2, <2>3, <3>1, <3>2
  <2> QED
    BY <1>9, <1>10, <2>4, <2>5, <2>6
<1>11. ASSUME reader.at = "tilde"
       PROVE  seen[1] \in DOMAIN TildeKey /\ TildeKey[seen[1]] = k /\ Len(c) = 4
  <2>1. PICK x \in DOMAIN TildeKey : seen = <<x>>
    BY <1>11 DEF TypeInv, ReaderOK
  <2>2. m = 3 /\ Consumed[3] = x
    BY <1>8, <1>11, <2>1
  <2>3. Stream[3] = x
    BY <1>1, <2>2
  <2>4. x \in {"3", "5", "6"}
    BY <2>1, Tables
  <2>5. CASE \E y \in DOMAIN CursorKey : CursorKey[y] = k /\ c = <<"ESC", "[", y>>
    BY <1>2, <2>3, <2>4, <2>5, Tables
  <2>6. CASE \E y \in DOMAIN TildeKey : TildeKey[y] = k /\ c = <<"ESC", "[", y, "~">>
    BY <1>2, <2>1, <2>3, <2>6
  <2>7. CASE \E d \in DOMAIN FunctionKey : FunctionKey[d] = k /\ c = <<"ESC", "[", d[1], d[2], "~">>
    <3>1. PICK d \in DOMAIN FunctionKey : c = <<"ESC", "[", d[1], d[2], "~">>
      BY <2>7
    <3>2. d[1] \in {"1", "2"}
      BY <3>1, Tables
    <3> QED
      BY <1>2, <2>3, <2>4, <3>1, <3>2
  <2> QED
    BY <1>9, <1>11, <2>5, <2>6, <2>7
<1>12. ASSUME reader.at = "end"
       PROVE  seen \in DOMAIN FunctionKey /\ FunctionKey[seen] = k /\ Len(c) = 5 /\ b = "~"
  <2>1. PICK x \in {"1", "2"}, y \in Bytes : seen = <<x, y>>
    BY <1>12 DEF TypeInv, ReaderOK
  <2>2. m = 4 /\ Consumed[3] = x /\ Consumed[4] = y
    BY <1>8, <1>12, <2>1
  <2>3. Stream[3] = x /\ Stream[4] = y /\ Stream[5] = b
    BY <1>1, <2>2
  <2>4. CASE \E z \in DOMAIN CursorKey : CursorKey[z] = k /\ c = <<"ESC", "[", z>>
    BY <1>2, <2>1, <2>3, <2>4, Tables
  <2>5. CASE \E z \in DOMAIN TildeKey : TildeKey[z] = k /\ c = <<"ESC", "[", z, "~">>
    BY <1>2, <2>1, <2>3, <2>5, Tables
  <2>6. CASE \E d \in DOMAIN FunctionKey : FunctionKey[d] = k /\ c = <<"ESC", "[", d[1], d[2], "~">>
    <3>1. PICK d \in DOMAIN FunctionKey : FunctionKey[d] = k /\ c = <<"ESC", "[", d[1], d[2], "~">>
      BY <2>6
    <3>2. Len(c) = 5 /\ c[3] = d[1] /\ c[4] = d[2] /\ c[5] = "~"
      BY <3>1
    <3>3. d[1] = x /\ d[2] = y /\ b = "~"
      BY <1>2, <2>3, <3>2
    <3>4. d = <<d[1], d[2]>>
      BY <3>1, Tables
    <3> QED
      BY <2>1, <3>1, <3>2, <3>3, <3>4
  <2> QED
    BY <1>9, <1>12, <2>4, <2>5, <2>6
<1> QED
  BY <1>1, <1>2, <1>4, <1>6, <1>7, <1>10, <1>11, <1>12 DEF k, c, b

-----------------------------------------------------------------------------
(* The actions. *)

LEMMA InitKeys == Init => KeyInv
<1> SUFFICES ASSUME Init PROVE KeyInv
  OBVIOUS
<1>1. /\ sending = <<>> /\ queue = <<>> /\ reader = Idle /\ screenshots = 0
      /\ pressed = <<>> /\ delivered = <<>>
  BY DEF Init
<1>2. \A S : <<>> \in Seq(S) /\ Len(<<>>) = 0
  OBVIOUS
<1>3. Places(delivered, "F10") = {}
  BY <1>1, <1>2 DEF Places
<1>4. TypeOK
  <2>1. screenshots = Cardinality(Places(delivered, "F10"))
    BY <1>1, <1>3, FS_EmptySet
  <2>2. reader \in [call : {"none"} \cup Calls, at : Points, seen : Seq(Bytes)]
    BY <1>1, <1>2 DEF Idle, Points
  <2> QED
    BY <1>1, <1>2, <2>1, <2>2 DEF TypeOK
<1>5. ReaderOK
  BY <1>1 DEF ReaderOK, Idle
<1>6. DeliveredInOrder
  BY <1>1, <1>2 DEF DeliveredInOrder
<1>7. Stream = <<>>
  <2>1. Consumed = <<>>
    BY <1>1 DEF Consumed, Idle
  <2> QED
    BY <1>1, <2>1 DEF Stream
<1>8. Spells(Stream, 0, pressed)
  <2> DEFINE start == [m \in 1 .. 1 |-> 0]
  <2>1. Splits(start, <<>>, 0, <<>>)
    BY <1>2 DEF Splits
  <2>2. start \in [0 + 1 .. Len(<<>>) + 1 -> 0 .. Len(<<>>)]
    BY <1>2
  <2> QED
    BY <1>1, <1>7, <2>1, <2>2 DEF Spells
<1>9. EscapeLast
  BY <1>1, <1>2 DEF EscapeLast
<1> QED
  BY <1>1, <1>2, <1>4, <1>5, <1>6, <1>8, <1>9 DEF KeyInv, TypeInv, OrderInv, InStep

(* A new key is the last one of the stream.                                *)
LEMMA KeyAdded ==
    ASSUME NEW keys \in Seq(Keys), NEW n \in Nat, n <= Len(keys), NEW k \in Keys,
           NEW s \in Seq(Any), Spells(s, n, keys)
    PROVE  Spells(s \o Sends[k], n, Append(keys, k))
<1> DEFINE L == Len(keys)
           w == Len(Sends[k])
           t == s \o Sends[k]
           more == Append(keys, k)
<1>1. /\ L \in Nat /\ w \in Nat \ {0} /\ Len(s) \in Nat /\ Sends[k] \in Seq(Bytes)
      /\ \A m \in n + 1 .. L : keys[m] \in Keys /\ Sends[keys[m]] \in Seq(Bytes) /\ Len(Sends[keys[m]]) \in Nat
  BY CodeType
<1>2. Len(t) = Len(s) + w
      /\ \A i \in 1 .. Len(s) + w : t[i] = IF i <= Len(s) THEN s[i] ELSE Sends[k][i - Len(s)]
  <2>1. Sends[k] \in Seq(Any)
    BY <1>1 DEF Any
  <2> QED
    BY <2>1
<1>3. Len(more) = L + 1 /\ more[L + 1] = k /\ \A m \in n + 1 .. L : more[m] = keys[m]
  OBVIOUS
<1>4. PICK start : Splits(start, s, n, keys)
  BY DEF Spells
<1> DEFINE next == [m \in n + 1 .. L + 2 |-> IF m = L + 2 THEN Len(t) ELSE start[m]]
<1>5. /\ \A m \in n + 1 .. L + 1 : start[m] \in 0 .. Len(s)
      /\ start[n + 1] = 0 /\ start[L + 1] = Len(s)
      /\ \A a, m \in n + 1 .. L + 1 : a <= m => start[a] <= start[m]
  BY <1>4 DEF Splits
<1> HIDE DEF L, w, t, more
<1>6. next \in [n + 1 .. L + 2 -> 0 .. Len(t)]
  <2>1. \A m \in n + 1 .. L + 2 : m # L + 2 => m \in n + 1 .. L + 1
    BY <1>1
  <2> QED
    BY <1>1, <1>2, <1>5, <2>1
<1>7. next[n + 1] = 0 /\ next[L + 2] = Len(t)
  <2>1. n + 1 \in n + 1 .. L + 2 /\ L + 2 \in n + 1 .. L + 2 /\ n + 1 # L + 2
    BY <1>1 DEF L
  <2> QED
    BY <1>5, <2>1
<1>8. \A a, m \in n + 1 .. L + 2 : a <= m => next[a] <= next[m]
  <2> SUFFICES ASSUME NEW a \in n + 1 .. L + 2, NEW m \in n + 1 .. L + 2, a <= m
               PROVE  next[a] <= next[m]
    OBVIOUS
  <2>1. CASE m = L + 2
    <3>1. next[m] = Len(t) /\ next[a] \in 0 .. Len(t)
      BY <1>6, <2>1
    <3> QED
      BY <1>1, <1>2, <3>1
  <2>2. CASE m # L + 2
    <3>1. m \in n + 1 .. L + 1 /\ a \in n + 1 .. L + 1 /\ a # L + 2
      BY <1>1, <2>2
    <3> QED
      BY <1>5, <2>2, <3>1
  <2> QED
    BY <2>1, <2>2
<1>9. ASSUME NEW m \in n + 1 .. L + 1
      PROVE  /\ next[m + 1] = next[m] + Len(Sends[more[m]])
             /\ \A i \in 1 .. Len(Sends[more[m]]) : t[next[m] + i] = Sends[more[m]][i]
  <2>1. m \in n + 1 .. L + 2 /\ m + 1 \in n + 1 .. L + 2 /\ m # L + 2
    BY <1>1
  <2>2. CASE m = L + 1
    <3>1. m + 1 = L + 2 /\ next[m] = Len(s) /\ next[m + 1] = Len(t) /\ more[m] = k
      BY <1>1, <1>3, <1>5, <2>1, <2>2
    <3>2. \A i \in 1 .. w : t[Len(s) + i] = Sends[k][i]
      BY ONLY <1>1, <1>2
    <3> QED
      BY <1>2, <3>1, <3>2 DEF w
  <2>3. CASE m # L + 1
    <3>1. m \in n + 1 .. L /\ m \in n + 1 .. L + 1 /\ m + 1 \in n + 1 .. L + 1 /\ m + 1 # L + 2
      BY <1>1, <2>3
    <3>2. next[m] = start[m] /\ next[m + 1] = start[m + 1] /\ more[m] = keys[m]
      BY <1>3, <2>1, <3>1
    <3>3. /\ start[m + 1] = start[m] + Len(Sends[keys[m]])
          /\ \A i \in 1 .. Len(Sends[keys[m]]) : s[start[m] + i] = Sends[keys[m]][i]
      BY <1>4, <3>1 DEF Splits, L
    <3>4. start[m] \in Nat /\ start[m + 1] <= Len(s) /\ start[m + 1] \in Nat
      BY <1>1, <1>5, <3>1
    <3>5. Len(Sends[keys[m]]) \in Nat
      BY <1>1, <3>1
    <3>6. \A i \in 1 .. Len(Sends[keys[m]]) : start[m] + i \in 1 .. Len(s)
      BY ONLY <1>1, <3>3, <3>4, <3>5
    <3>7. \A i \in 1 .. Len(s) : t[i] = s[i]
      BY ONLY <1>1, <1>2
    <3>8. \A i \in 1 .. Len(Sends[keys[m]]) : t[start[m] + i] = Sends[keys[m]][i]
      BY ONLY <3>3, <3>6, <3>7
    <3> HIDE DEF next
    <3> QED
      BY ONLY <3>2, <3>3, <3>8
  <2> QED
    BY <2>2, <2>3
<1> HIDE DEF next
<1>10. L + 1 + 1 = L + 2
  BY <1>1
<1>11. Splits(next, t, n, more)
  BY <1>3, <1>6, <1>7, <1>8, <1>9, <1>10 DEF Splits
<1> QED
  BY <1>3, <1>6, <1>10, <1>11 DEF Spells, t, more

LEMMA PressKeeps ==
    ASSUME TypeInv, NEW k \in Keys, Press(k)
    PROVE  TypeInv' /\ (Patient /\ OrderInv => OrderInv')
<1>1. /\ sending = <<>> /\ sending' = Sends[k] /\ pressed' = Append(pressed, k)
      /\ UNCHANGED <<queue, reader, screenshots, delivered>>
  BY DEF Press
<1>2. pressed \in Seq(Keys) /\ delivered \in Seq(Codes)
  BY DEF TypeInv, TypeOK
<1>3. TypeInv'
  <2>1. sending' \in Seq(Bytes)
    BY <1>1, CodeType
  <2>2. pressed' \in Seq(Keys)
    BY <1>1, <1>2
  <2>3. ReaderOK'
    BY <1>1 DEF TypeInv, ReaderOK
  <2>4. Places(delivered, "F10")' = Places(delivered, "F10")
    BY <1>1 DEF Places
  <2> QED
    BY <1>1, <2>1, <2>2, <2>3, <2>4 DEF TypeInv, TypeOK
<1>4. /\ Len(pressed) \in Nat /\ Len(pressed') = Len(pressed) + 1 /\ Len(delivered) \in Nat
      /\ \A i \in 1 .. Len(pressed) : pressed'[i] = pressed[i]
  BY <1>1, <1>2
<1>5. ASSUME OrderInv PROVE DeliveredInOrder'
  BY <1>1, <1>4, <1>5 DEF OrderInv, DeliveredInOrder
<1>6. ASSUME OrderInv, NoCut PROVE Spells(Stream', Len(delivered), pressed')
  <2>1. PICK c, q, s, p, n : c = Consumed /\ q = queue /\ s = Stream /\ p = pressed /\ n = Len(delivered)
    OBVIOUS
  <2>2. c \in Seq(Any) /\ q \in Seq(Any) /\ s \in Seq(Any) /\ Sends[k] \in Seq(Any) /\ <<>> \in Seq(Any)
    <3>1. Sends[k] \in Seq(Any)
      BY CodeType DEF Any
    <3> QED
      BY <2>1, <3>1, StreamType DEF TypeInv
  <2>3. s = c \o q
    <3>1. s = c \o (q \o <<>>)
      BY <1>1, <2>1 DEF Stream
    <3>2. q \o <<>> = q
      BY <2>2
    <3> QED
      BY <3>1, <3>2
  <2>4. Consumed' = c
    BY <1>1, <2>1 DEF Consumed
  <2>5. Stream' = c \o (q \o Sends[k])
    BY <1>1, <2>1, <2>4 DEF Stream
  <2>6. Stream' = s \o Sends[k]
    <3>1. PICK e : e = Sends[k] /\ e \in Seq(Any)
      BY <2>2
    <3>2. c \o (q \o e) = (c \o q) \o e
      <4>1. c \in Seq(Any) /\ q \in Seq(Any) /\ e \in Seq(Any)
        BY <2>2, <3>1
      <4> QED
        BY ONLY <4>1, Associative
    <3> QED
      BY <2>3, <2>5, <3>1, <3>2
  <2>7. Spells(s, n, p) /\ n <= Len(p) /\ n \in Nat /\ p \in Seq(Keys)
    BY <1>2, <1>4, <1>6, <2>1 DEF OrderInv, InStep
  <2>8. Spells(s \o Sends[k], n, Append(p, k))
    BY <2>2, <2>7, KeyAdded
  <2> QED
    BY <1>1, <2>1, <2>6, <2>8
<1>7. ASSUME OrderInv, NoCut, Patient PROVE EscapeLast'
  <2>1. PICK p, d : p = pressed /\ d = delivered
    OBVIOUS
  <2>2. Len(d) <= Len(p) /\ Len(d) \in Nat /\ Len(p) \in Nat
    BY <1>4, <1>7, <2>1 DEF OrderInv, InStep
  <2>3. \A i \in 1 .. Len(d) : d[i] = p[i]
    BY <1>4, <1>7, <2>1 DEF OrderInv, DeliveredInOrder, NoCut
  <2>4. Places(d, "ESC") \subseteq Places(p, "ESC")
    BY <2>2, <2>3 DEF Places
  <2>5. IsFiniteSet(Places(p, "ESC"))
    BY <1>2, <2>1, PlacesFinite
  <2>6. Cardinality(Places(d, "ESC")) = Cardinality(Places(p, "ESC"))
    BY <1>7, <2>1 DEF Press, Escapes
  <2>7. Places(d, "ESC") = Places(p, "ESC")
    BY ONLY <2>4, <2>5, <2>6, FS_Subset
  <2>8. \A m \in Len(d) + 1 .. Len(p) : p[m] # "ESC"
    BY ONLY <2>2, <2>7 DEF Places
  <2> QED
    BY <1>1, <1>4, <2>1, <2>8 DEF EscapeLast
<1>8. ASSUME OrderInv, NoCut, Patient PROVE InStep'
  <2>1. Len(delivered) <= Len(pressed)
    BY <1>8 DEF OrderInv, InStep
  <2> QED
    BY <1>1, <1>4, <1>6, <1>7, <1>8, <2>1 DEF InStep
<1>9. NoCut' => NoCut
  BY <1>1 DEF NoCut
<1> QED
  BY <1>3, <1>5, <1>8, <1>9 DEF OrderInv

LEMMA SendKeeps ==
    ASSUME TypeInv, Send
    PROVE  TypeInv' /\ (OrderInv => OrderInv')
<1>1. /\ sending # <<>> /\ queue' = Append(queue, Head(sending)) /\ sending' = Tail(sending)
      /\ UNCHANGED <<reader, screenshots, pressed, delivered>>
  BY DEF Send
<1>2. PICK q, s : q = queue /\ s = sending /\ q \in Seq(Bytes) /\ s \in Seq(Bytes) /\ s # <<>>
  BY <1>1 DEF TypeInv, TypeOK
<1>3. TypeInv'
  <2>1. Append(q, Head(s)) \in Seq(Bytes) /\ Tail(s) \in Seq(Bytes)
    BY <1>2, HeadTailAppend
  <2>2. ReaderOK'
    BY <1>1 DEF TypeInv, ReaderOK
  <2>3. Places(delivered, "F10")' = Places(delivered, "F10")
    BY <1>1 DEF Places
  <2> QED
    BY <1>1, <1>2, <2>1, <2>2, <2>3 DEF TypeInv, TypeOK
<1>4. Stream' = Stream
  <2>1. Consumed' = Consumed
    BY <1>1 DEF Consumed
  <2>2. Append(q, Head(s)) \o Tail(s) = q \o s
    BY <1>2, Handed
  <2> QED
    BY <1>1, <1>2, <2>1, <2>2 DEF Stream
<1> QED
  BY <1>1, <1>3, <1>4, StreamStays

LEMMA CallKeeps ==
    ASSUME TypeInv, NEW f \in Calls, Call(f)
    PROVE  TypeInv' /\ (OrderInv => OrderInv')
<1>1. /\ reader = Idle /\ reader' = [call |-> f, at |-> "key", seen |-> <<>>]
      /\ UNCHANGED <<queue, screenshots, delivered, sending, pressed>>
  BY DEF Call, terminal
<1>2. TypeInv'
  <2>1. reader' \in [call : {"none"} \cup Calls, at : Points, seen : Seq(Bytes)]
    BY <1>1 DEF Points
  <2>2. ReaderOK'
    BY <1>1 DEF ReaderOK, Idle
  <2>3. Places(delivered, "F10")' = Places(delivered, "F10")
    BY <1>1 DEF Places
  <2> QED
    BY <1>1, <2>1, <2>2, <2>3 DEF TypeInv, TypeOK
<1>3. Stream' = Stream
  BY <1>1 DEF Stream, Consumed, Idle
<1> QED
  BY <1>1, <1>2, <1>3, StreamStays

LEMMA NoKeyThereKeeps ==
    ASSUME TypeInv, NoKeyThere
    PROVE  TypeInv' /\ (OrderInv => OrderInv')
<1>1. /\ reader.at = "key" /\ reader' = Idle
      /\ UNCHANGED <<queue, screenshots, delivered, sending, pressed>>
  BY DEF NoKeyThere, terminal
<1>2. TypeInv'
  <2>1. reader' \in [call : {"none"} \cup Calls, at : Points, seen : Seq(Bytes)]
    BY <1>1 DEF Idle, Points
  <2>2. ReaderOK'
    BY <1>1 DEF ReaderOK, Idle
  <2>3. Places(delivered, "F10")' = Places(delivered, "F10")
    BY <1>1 DEF Places
  <2> QED
    BY <1>1, <2>1, <2>2, <2>3 DEF TypeInv, TypeOK
<1>3. Stream' = Stream
  BY <1>1 DEF Stream, Consumed, Idle
<1> QED
  BY <1>1, <1>2, <1>3, StreamStays

(* A byte that is the last one of its key.                                 *)
LEMMA ByteReturns ==
    ASSUME TypeInv, NEW b \in Bytes, Take(b), NEW k \in Codes, Return(k), UNCHANGED terminal,
           InStep /\ ~(k = "unknown" /\ reader.call = "inkey")
             => /\ k = pressed[Len(delivered) + 1]
                /\ Len(Sends[pressed[Len(delivered) + 1]]) = Len(Consumed) + 1
    PROVE  TypeInv' /\ (OrderInv => OrderInv')
<1>1. queue # <<>> /\ b = Head(queue) /\ queue' = Tail(queue) /\ queue' \in Seq(Bytes)
  BY Taken
<1>2. TypeInv' /\ reader' = Idle
  BY <1>1, ReturnTyped
<1>3. pressed' = pressed /\ sending' = sending
  BY DEF terminal
<1>4. ASSUME OrderInv, NoCut, ~(k = "unknown" /\ reader.call = "inkey")
      PROVE  /\ Len(delivered) < Len(pressed) /\ k = pressed[Len(delivered) + 1]
             /\ Spells(Stream', Len(delivered) + 1, pressed)
  <2>1. InStep
    BY <1>4 DEF OrderInv
  <2>2. Len(delivered) < Len(pressed) /\ Len(Stream) > 0
    BY <1>1, <2>1, Decoding
  <2>3. Spells(Stream', Len(delivered) + 1, pressed)
    BY <1>1, <1>2, <1>3, <1>4, <2>1, <2>2, KeyTaken
  <2> QED
    BY <1>4, <2>1, <2>2, <2>3
<1>5. OrderInv => OrderInv'
  BY <1>3, <1>4, OrderKept
<1> QED
  BY <1>2, <1>5

(* A byte behind which more of its key must come.                          *)
LEMMA ByteConsumed ==
    ASSUME TypeInv, NEW b \in Bytes, Take(b), TypeInv', UNCHANGED <<delivered, terminal>>,
           Consumed' = Append(Consumed, b)
    PROVE  OrderInv => OrderInv'
<1>1. queue # <<>> /\ b = Head(queue) /\ queue' = Tail(queue)
  BY Taken
<1>2. Stream' = Stream
  BY <1>1, Passed DEF terminal
<1> QED
  BY <1>2, StreamStays DEF terminal

LEMMA ReadKeyKeeps ==
    ASSUME TypeInv, ReadKey
    PROVE  TypeInv' /\ (OrderInv => OrderInv')
<1>1. PICK b \in Bytes : /\ reader.at = "key" /\ Take(b) /\ UNCHANGED terminal
                         /\ IF b = "ESC" THEN Goto("escape", <<>>) ELSE Return(b)
  BY DEF ReadKey
<1>2. queue # <<>> /\ b = Head(queue) /\ queue' \in Seq(Bytes) /\ b \in Codes
  BY <1>1, Taken, KeysOfTables
<1>3. Consumed = <<>>
  BY <1>1 DEF Consumed
<1>4. CASE b = "ESC"
  <2>1. TypeInv' /\ reader'.at = "escape" /\ UNCHANGED delivered
    <3>1. reader # Idle /\ <<>> \in Seq(Bytes) /\ "escape" \in Points \ {"none"}
      BY <1>1 DEF Idle, Points
    <3> QED
      BY <1>1, <1>2, <1>4, <3>1, GotoTyped
  <2>2. Consumed' = Append(Consumed, b)
    BY <1>3, <1>4, <2>1 DEF Consumed
  <2> QED
    BY <1>1, <2>1, <2>2, ByteConsumed
<1>5. CASE b # "ESC"
  <2>1. InStep => b = pressed[Len(delivered) + 1] /\ Sends[pressed[Len(delivered) + 1]] = <<b>>
    BY <1>1, <1>2, <1>5, Decoding
  <2>2. Len(<<b>>) = Len(Consumed) + 1
    BY <1>3
  <2>3. InStep => Len(Sends[pressed[Len(delivered) + 1]]) = Len(Consumed) + 1
    BY ONLY <2>1, <2>2, Zenon
  <2>4. Return(b)
    BY <1>1, <1>5
  <2> QED
    BY <1>1, <1>2, <2>1, <2>3, <2>4, ByteReturns
<1> QED
  BY <1>4, <1>5

(* Nothing but the one byte of the ESC key is on its way when the timeout  *)
(* ends: this is where the keys must be sent promptly.                     *)
LEMMA EscapeTimeoutKeeps ==
    ASSUME TypeInv, EscapeTimeout
    PROVE  TypeInv' /\ (Prompt /\ OrderInv => OrderInv')
<1>1. /\ reader.at = "escape" /\ queue = <<>> /\ (Prompt => sending = <<>>) /\ Return("ESC")
      /\ UNCHANGED <<queue, sending, pressed>>
  BY DEF EscapeTimeout, terminal
<1>2. "ESC" \in Codes /\ queue' \in Seq(Bytes)
  BY <1>1, KeysOfTables DEF TypeInv, TypeOK
<1>3. TypeInv' /\ reader' = Idle
  BY <1>1, <1>2, ReturnTyped DEF terminal
<1>4. ASSUME Prompt, InStep
      PROVE  /\ Len(delivered) < Len(pressed) /\ "ESC" = pressed[Len(delivered) + 1]
             /\ Spells(Stream', Len(delivered) + 1, pressed)
  <2>1. Consumed = <<"ESC">>
    BY <1>1 DEF Consumed
  <2>2. Stream = <<"ESC">>
    BY <1>1, <1>4, <2>1 DEF Stream
  <2>3. Len(Stream) = 1 /\ Stream[1] = "ESC" /\ Len(Consumed) = 1
    BY <2>1, <2>2
  <2> DEFINE k == pressed[Len(delivered) + 1]
  <2>4. /\ Len(delivered) < Len(pressed) /\ k \in Keys /\ Len(Sends[k]) \in Nat \ {0}
        /\ Len(Sends[k]) <= Len(Stream) /\ \A i \in 1 .. Len(Sends[k]) : Stream[i] = Sends[k][i]
    BY <1>4, <2>3, FirstKey DEF TypeInv
  <2> HIDE DEF k
  <2>5. Len(Sends[k]) = 1 /\ Sends[k][1] = "ESC"
    <3>1. \A e \in Nat \ {0} : e <= 1 => e = 1 /\ 1 \in 1 .. e
      OBVIOUS
    <3>2. Len(Sends[k]) = 1 /\ 1 \in 1 .. Len(Sends[k])
      BY <2>3, <2>4, <3>1
    <3> QED
      BY <2>3, <2>4, <3>2
  <2>6. k = "ESC"
    <3>1. \A x, y, z, u, v : Len(<<x, y, z>>) = 3 /\ Len(<<x, y, z, u>>) = 4
                             /\ Len(<<x, y, z, u, v>>) = 5
      OBVIOUS
    <3>2. \/ Sends[k] = <<k>>
          \/ \E x, y, z : Sends[k] = <<x, y, z>>
          \/ \E x, y, z, u : Sends[k] = <<x, y, z, u>>
          \/ \E x, y, z, u, v : Sends[k] = <<x, y, z, u, v>>
      BY <2>4, CodeShapes
    <3>3. Sends[k] = <<k>>
      BY ONLY <2>5, <3>1, <3>2
    <3> QED
      BY ONLY <2>5, <3>3
  <2>7. Spells(Stream', Len(delivered) + 1, pressed)
    BY <1>1, <1>3, <1>4, <2>3, <2>5, KeyTaken DEF k
  <2> QED
    BY <2>4, <2>6, <2>7 DEF k
<1>5. Prompt /\ OrderInv => OrderInv'
  <2> SUFFICES ASSUME Prompt, OrderInv PROVE OrderInv'
    OBVIOUS
  <2>1. NoCut => InStep
    BY DEF OrderInv
  <2> QED
    BY <1>1, <1>2, <1>4, <2>1, OrderKept
<1> QED
  BY <1>3, <1>5

LEMMA ReadAfterEscapeKeeps ==
    ASSUME TypeInv, ReadAfterEscape
    PROVE  TypeInv' /\ (OrderInv => OrderInv')
<1>1. PICK b \in Bytes :
         /\ reader.at = "escape" /\ Take(b) /\ UNCHANGED terminal
         /\ IF b = "[" THEN Goto("bracket", <<>>)
            ELSE IF b = "O" THEN Goto("letter", <<>>) ELSE Return("unknown")
  BY DEF ReadAfterEscape
<1>2. queue # <<>> /\ b = Head(queue) /\ queue' \in Seq(Bytes) /\ "unknown" \in Codes
  BY <1>1, Taken, KeysOfTables
<1>3. Consumed = <<"ESC">>
  BY <1>1 DEF Consumed
<1>4. reader # Idle /\ <<>> \in Seq(Bytes)
  BY <1>1 DEF Idle
<1>5. CASE b = "["
  <2>1. TypeInv' /\ reader'.at = "bracket" /\ reader'.seen = <<>> /\ UNCHANGED delivered
    <3>1. "bracket" \in Points \ {"none"}
      BY DEF Points
    <3> QED
      BY <1>1, <1>2, <1>4, <1>5, <3>1, GotoTyped
  <2>2. Consumed' = Append(Consumed, b)
    <3>1. <<"ESC", "[">> \o <<>> = Append(<<"ESC">>, "[")
      OBVIOUS
    <3> QED
      BY <1>3, <1>5, <2>1, <3>1 DEF Consumed
  <2> QED
    BY <1>1, <2>1, <2>2, ByteConsumed
<1>6. CASE b = "O"
  <2>1. TypeInv' /\ reader'.at = "letter" /\ UNCHANGED delivered
    <3>1. "letter" \in Points \ {"none"}
      BY DEF Points
    <3> QED
      BY <1>1, <1>2, <1>4, <1>6, <3>1, GotoTyped
  <2>2. Consumed' = Append(Consumed, b)
    <3>1. <<"ESC", "O">> = Append(<<"ESC">>, "O")
      OBVIOUS
    <3> QED
      BY <1>3, <1>6, <2>1, <3>1 DEF Consumed
  <2> QED
    BY <1>1, <2>1, <2>2, ByteConsumed
<1>7. CASE b \notin {"[", "O"}
  <2>1. ~InStep
    BY <1>1, <1>2, <1>7, Decoding
  <2>2. Return("unknown")
    BY <1>1, <1>7
  <2> QED
    BY <1>1, <1>2, <2>1, <2>2, ByteReturns
<1> QED
  BY <1>5, <1>6, <1>7

LEMMA ReadFirstFunctionKeyKeeps ==
    ASSUME TypeInv, ReadFirstFunctionKey
    PROVE  TypeInv' /\ (OrderInv => OrderInv')
<1>1. PICK b \in Bytes : /\ reader.at = "letter" /\ Take(b) /\ UNCHANGED terminal
                         /\ Return(Decoded(FirstFunctionKey, b))
  BY DEF ReadFirstFunctionKey
<1>2. queue # <<>> /\ b = Head(queue)
  BY <1>1, Taken
<1> DEFINE k == Decoded(FirstFunctionKey, b)
<1>3. k \in Codes
  BY KeysOfTables DEF Decoded
<1>4. Len(Consumed) = 2
  BY <1>1 DEF Consumed
<1>5. InStep => /\ k = pressed[Len(delivered) + 1]
                /\ Len(Sends[pressed[Len(delivered) + 1]]) = Len(Consumed) + 1
  BY <1>1, <1>2, <1>4, Decoding DEF Decoded
<1> HIDE DEF k
<1>6. Return(k)
  BY <1>1 DEF k
<1> QED
  BY <1>1, <1>3, <1>5, <1>6, ByteReturns

LEMMA ReadAfterBracketKeeps ==
    ASSUME TypeInv, ReadAfterBracket
    PROVE  TypeInv' /\ (OrderInv => OrderInv')
<1>1. PICK b \in Bytes :
         /\ reader.at = "bracket" /\ Take(b) /\ UNCHANGED terminal
         /\ IF b \in DOMAIN TildeKey THEN Goto("tilde", <<b>>)
            ELSE IF b \in {"1", "2"} THEN Goto("digit", <<b>>)
            ELSE Return(Decoded(CursorKey, b))
  BY DEF ReadAfterBracket
<1>2. queue # <<>> /\ b = Head(queue) /\ queue' \in Seq(Bytes)
  BY <1>1, Taken
<1>3. reader # Idle /\ <<b>> \in Seq(Bytes)
  BY <1>1 DEF Idle
<1>4. Consumed = <<"ESC", "[">>
  <2>1. reader.seen = <<>>
    BY <1>1 DEF TypeInv, ReaderOK
  <2>2. <<"ESC", "[">> \o <<>> = <<"ESC", "[">>
    OBVIOUS
  <2> QED
    BY <1>1, <2>1, <2>2 DEF Consumed
<1>5. Append(Consumed, b) = <<"ESC", "[">> \o <<b>>
  BY <1>4
<1>6. CASE b \in DOMAIN TildeKey
  <2>1. TypeInv' /\ reader'.at = "tilde" /\ reader'.seen = <<b>> /\ UNCHANGED delivered
    <3>1. "tilde" \in Points \ {"none"}
      BY DEF Points
    <3> QED
      BY <1>1, <1>2, <1>3, <1>6, <3>1, GotoTyped
  <2>2. Consumed' = Append(Consumed, b)
    BY <1>5, <2>1 DEF Consumed
  <2> QED
    BY <1>1, <2>1, <2>2, ByteConsumed
<1>7. CASE b \in {"1", "2"}
  <2>1. TypeInv' /\ reader'.at = "digit" /\ reader'.seen = <<b>> /\ UNCHANGED delivered
    <3>1. "digit" \in Points \ {"none"} /\ Goto("digit", <<b>>)
      BY <1>1, <1>7, Tables DEF Points
    <3> QED
      BY <1>1, <1>2, <1>3, <1>7, <3>1, GotoTyped
  <2>2. Consumed' = Append(Consumed, b)
    BY <1>5, <2>1 DEF Consumed
  <2> QED
    BY <1>1, <2>1, <2>2, ByteConsumed
<1>8. CASE b \notin DOMAIN TildeKey \cup {"1", "2"}
  <2> DEFINE k == Decoded(CursorKey, b)
  <2>1. k \in Codes
    BY KeysOfTables DEF Decoded
  <2>2. Len(Consumed) = 2
    BY <1>4
  <2>3. InStep => /\ k = pressed[Len(delivered) + 1]
                  /\ Len(Sends[pressed[Len(delivered) + 1]]) = Len(Consumed) + 1
    BY <1>1, <1>2, <1>8, <2>2, Decoding DEF Decoded
  <2> HIDE DEF k
  <2>4. Return(k)
    BY <1>1, <1>8 DEF k
  <2> QED
    BY <1>1, <2>1, <2>3, <2>4, ByteReturns
<1> QED
  BY <1>6, <1>7, <1>8

LEMMA ReadTildeKeeps ==
    ASSUME TypeInv, ReadTilde
    PROVE  TypeInv' /\ (OrderInv => OrderInv')
<1>1. PICK b \in Bytes : /\ reader.at = "tilde" /\ Take(b) /\ UNCHANGED terminal
                         /\ Return(Decoded(TildeKey, reader.seen[1]))
  BY DEF ReadTilde
<1>2. queue # <<>> /\ b = Head(queue)
  BY <1>1, Taken
<1> DEFINE k == Decoded(TildeKey, reader.seen[1])
<1>3. k \in Codes
  BY KeysOfTables DEF Decoded
<1>4. Len(Consumed) = 3
  <2>1. PICK x \in DOMAIN TildeKey : reader.seen = <<x>>
    BY <1>1 DEF TypeInv, ReaderOK
  <2>2. Consumed = <<"ESC", "[">> \o <<x>>
    BY <1>1, <2>1 DEF Consumed
  <2> QED
    BY <2>2
<1>5. InStep => /\ k = pressed[Len(delivered) + 1]
                /\ Len(Sends[pressed[Len(delivered) + 1]]) = Len(Consumed) + 1
  BY <1>1, <1>2, <1>4, Decoding DEF Decoded
<1> HIDE DEF k
<1>6. Return(k)
  BY <1>1 DEF k
<1> QED
  BY <1>1, <1>3, <1>5, <1>6, ByteReturns

LEMMA ReadDigitKeeps ==
    ASSUME TypeInv, ReadDigit
    PROVE  TypeInv' /\ (OrderInv => OrderInv')
<1>1. PICK b \in Bytes : /\ reader.at = "digit" /\ Take(b) /\ UNCHANGED terminal
                         /\ Goto("end", Append(reader.seen, b))
  BY DEF ReadDigit
<1>2. queue # <<>> /\ b = Head(queue) /\ queue' \in Seq(Bytes)
  BY <1>1, Taken
<1>3. PICK x \in {"1", "2"} : reader.seen = <<x>>
  BY <1>1 DEF TypeInv, ReaderOK
<1>4. Append(reader.seen, b) = <<x, b>> /\ <<x>> \in Seq(Bytes) /\ <<x, b>> \in Seq(Bytes)
  <2>1. reader.seen \in Seq(Bytes)
    BY DEF TypeInv, TypeOK
  <2>2. x \in Bytes
    <3>1. Len(<<x>>) = 1 /\ <<x>>[1] = x
      OBVIOUS
    <3> QED
      BY <1>3, <2>1, <3>1
  <2>3. Append(<<x>>, b) = <<x, b>>
    <3>1. <<x>> \in Seq(Bytes) /\ <<x, b>> \in Seq(Bytes) /\ Append(<<x>>, b) \in Seq(Bytes)
          /\ Len(Append(<<x>>, b)) = 2 /\ Len(<<x, b>>) = 2
      BY <2>2
    <3>2. \A i \in 1 .. 2 : Append(<<x>>, b)[i] = <<x, b>>[i]
      BY <2>2
    <3> QED
      BY ONLY <3>1, <3>2, SameSeq
  <2> QED
    BY <1>3, <2>2, <2>3
<1>5. TypeInv' /\ reader'.at = "end" /\ reader'.seen = <<x, b>> /\ UNCHANGED delivered
  <2>1. reader # Idle /\ "end" \in Points \ {"none"} /\ Goto("end", <<x, b>>)
    BY <1>1, <1>4 DEF Points, Idle
  <2> QED
    BY <1>1, <1>2, <1>4, <2>1, GotoTyped
<1>6. Consumed' = Append(Consumed, b)
  <2>1. Consumed = <<"ESC", "[">> \o <<x>> /\ Consumed' = <<"ESC", "[">> \o <<x, b>>
    BY <1>1, <1>3, <1>5 DEF Consumed
  <2> QED
    BY <2>1
<1> QED
  BY <1>1, <1>5, <1>6, ByteConsumed

LEMMA ReadEndKeeps ==
    ASSUME TypeInv, ReadEnd
    PROVE  TypeInv' /\ (OrderInv => OrderInv')
<1>1. PICK b \in Bytes :
         /\ reader.at = "end" /\ Take(b) /\ UNCHANGED terminal
         /\ LET k == Decoded(FunctionKey, reader.seen)
                known == b = "~" /\ ~(reader.call = "inkey" /\ k \in IncharOnly)
            IN  Return(IF known THEN k ELSE "unknown")
  BY DEF ReadEnd
<1>2. queue # <<>> /\ b = Head(queue)
  BY <1>1, Taken
<1> DEFINE d == Decoded(FunctionKey, reader.seen)
           known == b = "~" /\ ~(reader.call = "inkey" /\ d \in IncharOnly)
           k == IF known THEN d ELSE "unknown"
<1>3. k \in Codes
  BY KeysOfTables DEF Decoded
<1>4. Len(Consumed) = 4
  <2>1. PICK x \in {"1", "2"}, y \in Bytes : reader.seen = <<x, y>>
    BY <1>1 DEF TypeInv, ReaderOK
  <2>2. Consumed = <<"ESC", "[">> \o <<x, y>>
    BY <1>1, <2>1 DEF Consumed
  <2> QED
    BY <2>2
<1>5. ASSUME InStep, ~(k = "unknown" /\ reader.call = "inkey")
      PROVE  /\ k = pressed[Len(delivered) + 1]
             /\ Len(Sends[pressed[Len(delivered) + 1]]) = Len(Consumed) + 1
  <2>1. /\ reader.seen \in DOMAIN FunctionKey /\ FunctionKey[reader.seen] = pressed[Len(delivered) + 1]
        /\ Len(Sends[pressed[Len(delivered) + 1]]) = 5 /\ b = "~"
    BY <1>1, <1>2, <1>5, Decoding
  <2>2. d = pressed[Len(delivered) + 1]
    BY <2>1 DEF Decoded
  <2>3. known
    BY <1>5, <2>1
  <2> QED
    BY <1>4, <2>1, <2>2, <2>3
<1> HIDE DEF k
<1>6. Return(k)
  BY <1>1 DEF k
<1> QED
  BY <1>1, <1>3, <1>5, <1>6, ByteReturns

LEMMA DigitMissingKeeps ==
    ASSUME TypeInv, DigitMissing
    PROVE  TypeInv' /\ (OrderInv => OrderInv')
<1>1. /\ reader.call = "inkey" /\ Return("unknown") /\ UNCHANGED <<queue, terminal>> /\ pressed' = pressed
      /\ "unknown" \in Codes
  BY KeysOfTables DEF DigitMissing, terminal
<1>2. queue' \in Seq(Bytes)
  BY <1>1 DEF TypeInv, TypeOK
<1>3. TypeInv'
  BY <1>1, <1>2, ReturnTyped
<1> QED
  BY <1>1, <1>3, OrderKept

-----------------------------------------------------------------------------
(* The theorems. *)

LEMMA KeyStep ==
    ASSUME TypeInv, [Next]_vars
    PROVE  TypeInv' /\ (Prompt /\ Patient /\ OrderInv => OrderInv')
<1>1. CASE \E k \in Keys : Press(k)
  BY <1>1, PressKeeps
<1>2. CASE Send
  BY <1>2, SendKeeps
<1>3. CASE \E f \in Calls : Call(f)
  BY <1>3, CallKeeps
<1>4. CASE NoKeyThere
  BY <1>4, NoKeyThereKeeps
<1>5. CASE ReadKey
  BY <1>5, ReadKeyKeeps
<1>6. CASE EscapeTimeout
  BY <1>6, EscapeTimeoutKeeps
<1>7. CASE ReadAfterEscape
  BY <1>7, ReadAfterEscapeKeeps
<1>8. CASE ReadFirstFunctionKey
  BY <1>8, ReadFirstFunctionKeyKeeps
<1>9. CASE ReadAfterBracket
  BY <1>9, ReadAfterBracketKeeps
<1>10. CASE ReadTilde
  BY <1>10, ReadTildeKeeps
<1>11. CASE ReadDigit
  BY <1>11, ReadDigitKeeps
<1>12. CASE ReadEnd
  BY <1>12, ReadEndKeeps
<1>13. CASE DigitMissing
  BY <1>13, DigitMissingKeeps
<1>14. CASE UNCHANGED vars
  <2>1. UNCHANGED <<sending, queue, reader, screenshots, pressed, delivered>>
    BY <1>14 DEF vars
  <2>2. TypeInv'
    BY <2>1 DEF TypeInv, TypeOK, ReaderOK, Places
  <2>3. Stream' = Stream
    BY <2>1 DEF Stream, Consumed
  <2> QED
    BY <2>1, <2>2, <2>3, StreamStays
<1> QED
  BY <1>1, <1>2, <1>3, <1>4, <1>5, <1>6, <1>7, <1>8, <1>9, <1>10, <1>11, <1>12, <1>13, <1>14
  DEF Next, Reader

(* The reader never gets into a state its code does not know, the second   *)
(* digit is only taken for a key of two digits, and the screen is saved    *)
(* once for every F10 (lines 3425 to 3435), however the user types and     *)
(* however long the bytes take.                                            *)
THEOREM KeysTypeCorrect == Spec => []TypeOK
<1>1. Init => TypeInv
  BY InitKeys DEF KeyInv
<1>2. TypeInv /\ [Next]_vars => TypeInv'
  BY KeyStep
<1>3. TypeInv => TypeOK
  BY DEF TypeInv
<1> QED
  BY <1>1, <1>2, <1>3, PTL DEF Spec

(* inchar and inkey read the keys in the order they were pressed, each     *)
(* once, until inkey cuts one off: for every set of keys of the tables,    *)
(* any number of them in the queue and every interleaving, if the bytes of *)
(* a key follow each other within the timeout and nothing is typed behind  *)
(* an ESC that is not read yet.                                            *)
THEOREM KeysInOrder ==
    ASSUME Prompt, Patient
    PROVE  Spec => []DeliveredInOrder
<1>1. Init => KeyInv
  BY InitKeys
<1>2. KeyInv /\ [Next]_vars => KeyInv'
  BY KeyStep DEF KeyInv
<1>3. KeyInv => DeliveredInOrder
  BY DEF KeyInv, OrderInv
<1> QED
  BY <1>1, <1>2, <1>3, PTL DEF Spec

=============================================================================
