------------------------------ MODULE TextEdit ------------------------------
(***************************************************************************)
(* What the editor promises about the text: a bounded sequence and a       *)
(* cursor between its elements.  A key inserts one symbol or the copied    *)
(* block at the cursor, deletes one symbol next to it, or deletes the      *)
(* copied block where it stands; the rest of the text stays as it is.      *)
(* The cursor may be moved behind the text; an edit there is a fault.      *)
(***************************************************************************)
EXTENDS Integers, Sequences

CONSTANTS Limit, NewLine, Symbols

VARIABLES txt, cur, clip, phase

tvars == <<txt, cur, clip, phase>>

Before(p) == SubSeq(txt, 1, p)
After(p)  == SubSeq(txt, p + 1, Len(txt))

Init == txt = <<>> /\ cur = 0 /\ clip = <<>> /\ phase = "prompt"

Load ==
    /\ phase = "prompt" /\ phase' = "editing"
    /\ Len(txt') <= Limit
    /\ cur' \in 0 .. Len(txt')
    /\ UNCHANGED clip

Insert(s) ==
    /\ cur <= Len(txt)
    /\ Len(txt) + Len(s) <= Limit
    /\ txt' = Before(cur) \o s \o After(cur)
    /\ cur' = cur + Len(s)
    /\ UNCHANGED <<clip, phase>>

DeleteAt(p) ==
    /\ p \in 0 .. Len(txt) - 1
    /\ txt' = Before(p) \o After(p + 1)
    /\ cur' = p
    /\ UNCHANGED <<clip, phase>>

DeleteCopied ==
    \E p \in 0 .. Len(txt) - Len(clip) :
        /\ clip # <<>>
        /\ SubSeq(txt, p + 1, p + Len(clip)) = clip
        /\ txt' = Before(p) \o After(p + Len(clip))
        /\ cur' = p
        /\ clip' = <<>>
        /\ UNCHANGED phase

Copy  == clip' # clip /\ UNCHANGED <<txt, cur, phase>>

Move  == cur' # cur /\ UNCHANGED <<txt, clip, phase>>

Edit ==
    \/ \E c \in Symbols : Insert(<<c>>)
    \/ clip # <<>> /\ Insert(Append(clip, NewLine))
    \/ cur < Len(txt) /\ DeleteAt(cur)
    \/ cur > 0 /\ DeleteAt(cur - 1)
    \/ DeleteCopied

Fault == cur > Len(txt) /\ phase' = "fault" /\ UNCHANGED <<txt, cur, clip>>

Leave == phase' = "prompt" /\ cur' = 0 /\ UNCHANGED <<txt, clip>>

Restart == phase = "fault" /\ Init'

Next == \/ Load \/ Restart
        \/ phase = "editing" /\ (Edit \/ Copy \/ Move \/ Fault \/ Leave)

Spec == Init /\ [][Next]_tvars

=============================================================================
