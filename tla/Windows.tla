------------------------------ MODULE Windows -------------------------------
(***************************************************************************)
(* The window manager of the vga library: eight slots, each of which keeps *)
(* a copy of the screen region its window hides and writes it back when    *)
(* the window changes its content or closes.  Windows know nothing of each *)
(* other: the region a slot wrote back or saved may hold parts of another  *)
(* window.                                                                 *)
(***************************************************************************)
EXTENDS Integers, Sequences, FiniteSets

CONSTANTS
    Slots,       \* the indices of windowManager, 0 .. 7
    Cells,       \* the pixels of the screen
    Rects,       \* the regions windows are opened at
    Texts,       \* titles and contents of windows
    Overflow,    \* the pixels a text too long for a region writes beside it
    Colors,      \* what programs draw on the screen
    NoBackup     \* screenBackup = nullptr

ASSUME WindowAssumption ==
    /\ Rects \subseteq SUBSET Cells
    /\ Overflow \in [Rects \X Texts -> SUBSET Cells]
    /\ \A r \in Rects : NoBackup \notin [r -> Colors \cup (Slots \X Texts)]
    /\ Colors \cap (Slots \X Texts) = {}
    /\ <<>> \notin Texts

VARIABLES
    screen,        \* the frame buffer
    slot,          \* windowManager
    Window_aktiv,
    script,        \* a Lua chunk is running
    base,          \* history: the screen as it were without any window
    order,         \* history: the open windows, the lowest first
    orderly        \* history: programs kept to the rules of the window commands

vars == <<screen, slot, Window_aktiv, script, base, order, orderly>>
history == <<base, order, orderly>>

(* What a pixel shows: a drawn color or a piece of a window.               *)
Pixels == Colors \cup (Slots \X Texts)

Copies == UNION {[r -> Pixels] : r \in Rects}

WindowSlot == [aktiv : BOOLEAN, rect : Rects \cup {{}}, inhalt : Texts \cup {<<>>},
               savedRect : Rects \cup {{}}, screenBackup : Copies \cup {NoBackup}]

(* Nothing reads the geometry and the texts of a closed slot.              *)
Closed == [aktiv |-> FALSE, rect |-> {}, inhalt |-> <<>>,
           savedRect |-> {}, screenBackup |-> NoBackup]

Active(i) == slot[i].aktiv

-----------------------------------------------------------------------------
(* readScreen, writeScreen and renderWindow. *)

ReadScreen(r) == [c \in r |-> screen[c]]

(* A slot writes its copy back if it has one.                              *)
Restored(i) ==
    IF slot[i].screenBackup = NoBackup THEN screen
    ELSE [c \in Cells |-> IF c \in slot[i].savedRect
                          THEN slot[i].screenBackup[c] ELSE screen[c]]

Painted(r, t) == r \cup Overflow[r, t]

Rendered(s, i, r, t) == [c \in Cells |-> IF c \in Painted(r, t) THEN <<i, t>> ELSE s[c]]

Fits(r, t) == Overflow[r, t] \subseteq r

-----------------------------------------------------------------------------
(* Slips of openWindow: the copy is taken when the window is drawn already,*)
(* or of the region the slot had before.                                   *)
OpenWindowDrawnFirst(i, r, t, saved) ==
    /\ script
    /\ slot' = [slot EXCEPT ![i] =
                   [aktiv |-> TRUE, rect |-> r, inhalt |-> t, savedRect |-> r,
                    screenBackup |-> IF saved THEN [c \in r |-> <<i, t>>] ELSE NoBackup]]
    /\ screen' = Rendered(screen, i, r, t)
    /\ Window_aktiv' = TRUE
    /\ orderly' = (orderly /\ ~Active(i) /\ saved /\ Fits(r, t))
    /\ order' = IF orderly' THEN Append(order, i) ELSE <<>>
    /\ UNCHANGED <<script, base>>
OpenWindowOldRegion(i, r, t, saved) ==
    /\ script
    /\ slot' = [slot EXCEPT ![i] =
                   [aktiv |-> TRUE, rect |-> r, inhalt |-> t, savedRect |-> r,
                    screenBackup |-> IF saved THEN ReadScreen(slot[i].savedRect) ELSE NoBackup]]
    /\ screen' = Rendered(screen, i, r, t)
    /\ Window_aktiv' = TRUE
    /\ orderly' = (orderly /\ ~Active(i) /\ saved /\ Fits(r, t))
    /\ order' = IF orderly' THEN Append(order, i) ELSE <<>>
    /\ UNCHANGED <<script, base>>

(* vga.openWindow: saved tells whether the memory for the copy was         *)
(* available.  A slot that is open already is taken over, with a copy of   *)
(* the screen that still shows its old window.                             *)
OpenWindow(i, r, t, saved) ==
    /\ script
    /\ slot' = [slot EXCEPT ![i] =
                   [aktiv |-> TRUE, rect |-> r, inhalt |-> t, savedRect |-> r,
                    screenBackup |-> IF saved THEN ReadScreen(r) ELSE NoBackup]]
    /\ screen' = Rendered(screen, i, r, t)
    /\ Window_aktiv' = TRUE
    /\ orderly' = (orderly /\ ~Active(i) /\ saved /\ Fits(r, t))
    /\ order' = IF orderly' THEN Append(order, i) ELSE <<>>
    /\ UNCHANGED <<script, base>>

(* An argument of the wrong type raises a Lua error halfway: position,     *)
(* size or text of an open slot have changed, the rest has not.            *)
OpenAborted(i, r, t) ==
    /\ script
    /\ slot' = IF Active(i) THEN [slot EXCEPT ![i].rect = r, ![i].inhalt = t] ELSE slot
    /\ script' = FALSE
    /\ orderly' = (orderly /\ ~Active(i))
    /\ order' = IF orderly' THEN order ELSE <<>>
    /\ UNCHANGED <<screen, Window_aktiv, base>>

UpdateWindow(i, t) ==
    /\ script
    /\ Active(i)
    /\ slot' = [slot EXCEPT ![i].inhalt = t]
    /\ screen' = Rendered(Restored(i), i, slot[i].rect, t)
    /\ orderly' = (orderly /\ Fits(slot[i].rect, t))
    /\ order' = IF orderly' THEN order ELSE <<>>
    /\ UNCHANGED <<Window_aktiv, script, base>>

(* A slip: the remaining windows are counted before the slot is closed.    *)
CloseWindowCountedEarly(i) ==
    /\ script
    /\ Active(i)
    /\ screen' = Restored(i)
    /\ slot' = [slot EXCEPT ![i] = Closed]
    /\ Window_aktiv' = (Window_aktiv /\ \E j \in Slots : slot[j].aktiv)
    /\ orderly' = (orderly /\ order[Len(order)] = i)
    /\ order' = IF orderly' THEN SubSeq(order, 1, Len(order) - 1) ELSE <<>>
    /\ UNCHANGED <<script, base>>

CloseWindow(i) ==
    /\ script
    /\ Active(i)
    /\ screen' = Restored(i)
    /\ slot' = [slot EXCEPT ![i] = Closed]
    /\ Window_aktiv' = (Window_aktiv /\ \E j \in Slots : slot'[j].aktiv)
    /\ orderly' = (orderly /\ order[Len(order)] = i)
    /\ order' = IF orderly' THEN SubSeq(order, 1, Len(order) - 1) ELSE <<>>
    /\ UNCHANGED <<script, base>>

(* Any other drawing command.  What it draws on a window goes with it.     *)
Draw(c, color) ==
    /\ script
    /\ screen' = [screen EXCEPT ![c] = color]
    /\ base' = IF \E i \in Slots : Active(i) /\ c \in slot[i].savedRect
               THEN base ELSE [base EXCEPT ![c] = color]
    /\ UNCHANGED <<slot, Window_aktiv, script, order, orderly>>

(* A chunk is started, and ends by itself or by an error: the windows stay *)
(* (cleanupWindows is never called).                                       *)
StartScript == ~script /\ script' = TRUE
               /\ UNCHANGED <<screen, slot, Window_aktiv, history>>
EndScript   == script /\ script' = FALSE
               /\ UNCHANGED <<screen, slot, Window_aktiv, history>>

-----------------------------------------------------------------------------
Init ==
    /\ screen \in [Cells -> Colors]
    /\ slot = [i \in Slots |-> Closed]
    /\ Window_aktiv = FALSE
    /\ script = FALSE
    /\ base = screen
    /\ order = <<>>
    /\ orderly = TRUE

WindowCommand ==
    \E i \in Slots :
        \/ \E r \in Rects, t \in Texts :
               (\E saved \in BOOLEAN : OpenWindow(i, r, t, saved)) \/ OpenAborted(i, r, t)
        \/ \E t \in Texts : UpdateWindow(i, t)
        \/ CloseWindow(i)

Next == \/ WindowCommand
        \/ \E c \in Cells, color \in Colors : Draw(c, color)
        \/ StartScript \/ EndScript

Spec == Init /\ [][Next]_vars

-----------------------------------------------------------------------------
(* Properties. *)

(* A copy of the screen has the extent of the region it was taken from.    *)
TypeOK ==
    /\ screen \in [Cells -> Pixels]
    /\ slot \in [Slots -> WindowSlot]
    /\ \A i \in Slots : \/ slot[i].screenBackup = NoBackup
                        \/ slot[i].screenBackup \in [slot[i].savedRect -> Pixels]
    /\ Window_aktiv \in BOOLEAN /\ script \in BOOLEAN /\ orderly \in BOOLEAN
    /\ base \in [Cells -> Colors]
    /\ order \in Seq(Slots)

(* Window_aktiv tells whether there is a window.                           *)
FlagTellsWindows == Window_aktiv <=> \E i \in Slots : Active(i)

(* "Auch ueberlappende Fenster funktionieren, solange man immer das oberste*)
(* Fenster zuerst wieder loescht": then every pixel outside the windows    *)
(* shows what the screen showed without them, whatever overlapped, was     *)
(* redrawn or updated before.                                              *)
BackgroundRestored ==
    orderly => \A c \in Cells :
        (\A i \in Slots : Active(i) => c \notin slot[i].savedRect) => screen[c] = base[c]

(* The same sentence, of the window below: when the topmost window closes, *)
(* the one below it shows its present content again.                       *)
Covers(i, c) == Active(i) /\ c \in slot[i].savedRect

LowerWindowRestored ==
    [][\A i \in Slots : CloseWindow(i) /\ orderly' /\ order' # <<>> =>
         LET top == order'[Len(order')]
         IN  \A c \in Cells : Covers(top, c) /\ c \in slot[i].savedRect
               => screen'[c] \in Colors \cup {<<top, slot[top].inhalt>>}]_vars

=============================================================================
