------------------------------ MODULE KeyInput ------------------------------
(***************************************************************************)
(* Keys on their way from the terminal to the programs.  The terminal is a *)
(* task of its own and sends a key as up to five bytes; inchar and inkey   *)
(* put the keys together again, while the bytes are still coming in.       *)
(***************************************************************************)
EXTENDS Integers, Sequences, FiniteSets, Functions

CONSTANTS
    Sends,      \* the bytes the terminal sends for each key
    Calls,      \* the functions the programs read keys with
    Prompt,     \* the bytes of one key follow each other within the timeout
    Patient,    \* after ESC nothing is typed until it is read
    MaxKeys

VARIABLES
    sending,    \* the bytes of the pressed key not sent yet
    queue,      \* the input queue of the terminal
    reader,     \* where inchar or inkey is
    screenshots,
    pressed,    \* history: the keys pressed
    delivered   \* history: the keys read; unknown: inchar did not know the sequence,
                \* cut: inkey returned no key for what it had read

vars == <<sending, queue, reader, screenshots, pressed, delivered>>
terminal == <<sending, pressed>>

Keys == DOMAIN Sends
Bytes == UNION {{Sends[k][i] : i \in 1 .. Len(Sends[k])} : k \in Keys}

-----------------------------------------------------------------------------
(* The keys the two functions know. *)

CursorKey == [b \in {"A", "B", "C", "D", "H", "F"} |->
    CASE b = "A" -> "UP" [] b = "B" -> "DOWN" [] b = "C" -> "RIGHT"
      [] b = "D" -> "LEFT" [] b = "H" -> "HOME" [] b = "F" -> "END"]
TildeKey == [b \in {"3", "5", "6"} |->
    CASE b = "3" -> "DELETE" [] b = "5" -> "PAGE_UP" [] b = "6" -> "PAGE_DOWN"]
FirstFunctionKey == [b \in {"P", "Q", "R", "S"} |->
    CASE b = "P" -> "F1" [] b = "Q" -> "F2" [] b = "R" -> "F3" [] b = "S" -> "F4"]
FunctionKey ==
    [d \in ({"1"} \X {"5", "7", "8", "9"}) \cup ({"2"} \X {"0", "1", "3", "4"}) |->
        CASE d = <<"1", "5">> -> "F5" [] d = <<"1", "7">> -> "F6" [] d = <<"1", "8">> -> "F7"
          [] d = <<"1", "9">> -> "F8" [] d = <<"2", "0">> -> "F9" [] d = <<"2", "1">> -> "F10"
          [] d = <<"2", "3">> -> "F11" [] d = <<"2", "4">> -> "F12"]
IncharOnly == {"F11", "F12"}

(* What a table of keys says of a byte; for another one the code returns 0. *)
Decoded(table, b) == IF b \in DOMAIN table THEN table[b] ELSE "unknown"

(* The sequences of the VT100 mode, which the tables were made for.        *)
Encodings(k) ==
    {<<k>>} \cup {<<"ESC", "[", b>> : b \in {c \in DOMAIN CursorKey : CursorKey[c] = k}}
    \cup {<<"ESC", "[", b, "~">> : b \in {c \in DOMAIN TildeKey : TildeKey[c] = k}}
    \cup {<<"ESC", "O", b>> : b \in {c \in DOMAIN FirstFunctionKey : FirstFunctionKey[c] = k}}
    \cup {<<"ESC", "[", d[1], d[2], "~">> : d \in {c \in DOMAIN FunctionKey : FunctionKey[c] = k}}

ASSUME KeyAssumption ==
    /\ \A k \in Keys : Sends[k] \in Encodings(k)
    /\ Calls \subseteq {"inchar", "inkey"}
    /\ Prompt \in BOOLEAN /\ Patient \in BOOLEAN
    /\ MaxKeys \in Nat

-----------------------------------------------------------------------------
(* The terminal. *)

Places(keys, k) == {i \in 1 .. Len(keys) : keys[i] = k}
Escapes(keys) == Cardinality(Places(keys, "ESC"))

Press(k) ==
    /\ sending = <<>>
    /\ Len(pressed) < MaxKeys
    /\ Patient => Escapes(delivered) = Escapes(pressed)
    /\ sending' = Sends[k]
    /\ pressed' = Append(pressed, k)
    /\ UNCHANGED <<queue, reader, screenshots, delivered>>

Send ==
    /\ sending # <<>>
    /\ queue' = Append(queue, Head(sending))
    /\ sending' = Tail(sending)
    /\ UNCHANGED <<reader, screenshots, pressed, delivered>>

-----------------------------------------------------------------------------
(* inchar and inkey.  "at" says what is read next, "seen" the digits read. *)

Idle == [call |-> "none", at |-> "none", seen |-> <<>>]

Goto(at, seen) ==
    /\ reader' = [reader EXCEPT !.at = at, !.seen = seen]
    /\ UNCHANGED <<screenshots, delivered>>

Return(k) ==
    /\ reader' = Idle
    /\ delivered' = Append(delivered, IF k = "unknown" /\ reader.call = "inkey" THEN "cut" ELSE k)
    /\ screenshots' = IF k = "F10" THEN screenshots + 1 ELSE screenshots

Take(b) == queue # <<>> /\ b = Head(queue) /\ queue' = Tail(queue)

Call(f) ==
    /\ reader = Idle
    /\ reader' = [call |-> f, at |-> "key", seen |-> <<>>]
    /\ UNCHANGED <<queue, screenshots, delivered, terminal>>

(* inkey does not wait for a key.                                          *)
NoKeyThere ==
    /\ reader.call = "inkey" /\ reader.at = "key"
    /\ queue = <<>>
    /\ reader' = Idle
    /\ UNCHANGED <<queue, screenshots, delivered, terminal>>

ReadKey == \E b \in Bytes :
    /\ reader.at = "key"
    /\ Take(b)
    /\ IF b = "ESC" THEN Goto("escape", <<>>) ELSE Return(b)
    /\ UNCHANGED terminal

(* Nothing came within 10 ms, or 5 ms in inkey: it was the ESC key.        *)
EscapeTimeout ==
    /\ reader.at = "escape"
    /\ queue = <<>>
    /\ Prompt => sending = <<>>
    /\ Return("ESC")
    /\ UNCHANGED <<queue, terminal>>

ReadAfterEscape == \E b \in Bytes :
    /\ reader.at = "escape"
    /\ Take(b)
    /\ IF b = "[" THEN Goto("bracket", <<>>)
       ELSE IF b = "O" THEN Goto("letter", <<>>)
       ELSE Return("unknown")
    /\ UNCHANGED terminal

ReadFirstFunctionKey == \E b \in Bytes :
    /\ reader.at = "letter"
    /\ Take(b)
    /\ Return(Decoded(FirstFunctionKey, b))
    /\ UNCHANGED terminal

(* A slip: DELETE and PAGE keys are returned with their tilde unread.      *)
ReadAfterBracketHasty == \E b \in Bytes :
    /\ reader.at = "bracket"
    /\ Take(b)
    /\ IF b \in DOMAIN TildeKey THEN Return(TildeKey[b])
       ELSE IF b \in {"1", "2"} THEN Goto("digit", <<b>>)
       ELSE Return(Decoded(CursorKey, b))
    /\ UNCHANGED terminal

(* A slip: a cursor key is taken for a sequence that ends with a tilde.    *)
ReadAfterBracketGreedy == \E b \in Bytes :
    /\ reader.at = "bracket"
    /\ Take(b)
    /\ IF b \in {"1", "2"} THEN Goto("digit", <<b>>) ELSE Goto("tilde", <<b>>)
    /\ UNCHANGED terminal

ReadAfterBracket == \E b \in Bytes :
    /\ reader.at = "bracket"
    /\ Take(b)
    /\ IF b \in DOMAIN TildeKey THEN Goto("tilde", <<b>>)
       ELSE IF b \in {"1", "2"} THEN Goto("digit", <<b>>)
       ELSE Return(Decoded(CursorKey, b))
    /\ UNCHANGED terminal

(* Whatever comes is dropped as the tilde.                                 *)
ReadTilde == \E b \in Bytes :
    /\ reader.at = "tilde"
    /\ Take(b)
    /\ Return(Decoded(TildeKey, reader.seen[1]))
    /\ UNCHANGED terminal

ReadDigit == \E b \in Bytes :
    /\ reader.at = "digit"
    /\ Take(b)
    /\ Goto("end", Append(reader.seen, b))
    /\ UNCHANGED terminal

(* A slip: F10 does not save the screen.                                   *)
ReadEndWithoutScreenshot == \E b \in Bytes :
    /\ reader.at = "end"
    /\ Take(b)
    /\ LET k == Decoded(FunctionKey, reader.seen)
           known == b = "~" /\ ~(reader.call = "inkey" /\ k \in IncharOnly)
       IN  /\ reader' = Idle
           /\ delivered' = Append(delivered, IF known THEN k ELSE "cut")
           /\ UNCHANGED screenshots
    /\ UNCHANGED terminal

ReadEnd == \E b \in Bytes :
    /\ reader.at = "end"
    /\ Take(b)
    /\ LET k == Decoded(FunctionKey, reader.seen)
           known == b = "~" /\ ~(reader.call = "inkey" /\ k \in IncharOnly)
       IN  Return(IF known THEN k ELSE "unknown")
    /\ UNCHANGED terminal

(* inkey does not wait for the digits and the tilde of a function key: if  *)
(* they are not there yet, it gives up what it has read.  (It does not ask *)
(* for the tilde before it reads it; whether the terminal's read then      *)
(* waits, as in ReadEnd, or returns nothing, as here, is not in src.)      *)
DigitMissing ==
    /\ reader.call = "inkey" /\ reader.at \in {"digit", "end"}
    /\ queue = <<>>
    /\ Return("unknown")
    /\ UNCHANGED <<queue, terminal>>

-----------------------------------------------------------------------------
Init ==
    /\ sending = <<>> /\ queue = <<>>
    /\ reader = Idle
    /\ screenshots = 0
    /\ pressed = <<>> /\ delivered = <<>>

Reader ==
    \/ \E f \in Calls : Call(f)
    \/ NoKeyThere \/ ReadKey \/ EscapeTimeout \/ ReadAfterEscape
    \/ ReadFirstFunctionKey \/ ReadAfterBracket \/ ReadTilde
    \/ ReadDigit \/ ReadEnd \/ DigitMissing

Next == (\E k \in Keys : Press(k)) \/ Send \/ Reader

(* The terminal's task sends what it began to send, and the program at the *)
(* prompt reads one key after the other.                                   *)
Spec == Init /\ [][Next]_vars /\ WF_vars(Send) /\ WF_vars(Reader)

-----------------------------------------------------------------------------
(* Properties. *)

Points == {"none", "key", "escape", "letter", "bracket", "tilde", "digit", "end"}

Codes == Bytes \cup {"ESC", "unknown", "cut"} \cup Range(CursorKey) \cup Range(TildeKey)
         \cup Range(FirstFunctionKey) \cup Range(FunctionKey)

(* For every F10 a program got, the screen was saved once.                 *)
TypeOK ==
    /\ sending \in Seq(Bytes) /\ queue \in Seq(Bytes)
    /\ reader \in [call : {"none"} \cup Calls, at : Points, seen : Seq(Bytes)]
    /\ pressed \in Seq(Keys)
    /\ delivered \in Seq(Codes)
    /\ screenshots = Cardinality(Places(delivered, "F10"))

(* The keys are read in the order they were pressed, each once and none    *)
(* but them, however their bytes and the reading interleave: always by     *)
(* inchar, by inkey until it cuts off a key.                               *)
DeliveredInOrder ==
    \A n \in 1 .. Len(delivered) :
        (\A i \in 1 .. n : delivered[i] # "cut") => n <= Len(pressed) /\ delivered[n] = pressed[n]

(* Every key pressed is read, or at least what is left of it.              *)
EveryKeyDelivered ==
    \A n \in 1 .. MaxKeys : Len(pressed) >= n ~> Len(delivered) >= n

(* A program that polls gets an answer, a key or none: the waits inside    *)
(* inkey end, however it cuts the bytes of a key.                          *)
InkeyReturns == reader.call = "inkey" ~> reader.call = "none"

(* "inkey() - Gibt den gedrueckten Tastencode zurueck oder -1": never the  *)
(* code of a key that was not pressed.                                     *)
OnlyPressedKeys == \A i \in 1 .. Len(delivered) :
    delivered[i] # "cut" => \E j \in 1 .. Len(pressed) : pressed[j] = delivered[i]

=============================================================================
