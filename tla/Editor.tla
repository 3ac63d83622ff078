------------------------------- MODULE Editor -------------------------------
(***************************************************************************)
(* The full-screen editor of the computer: lua_cmd_edit loads a file of    *)
(* the SD card into a fixed text buffer and runFullscreenEditor changes    *)
(* it, one key at a time.  Each key the user presses is one action, with   *)
(* the scroll check and the cursor synchronisation the main loop runs      *)
(* after it.  The text buffer keeps its stale bytes behind textLen, as the *)
(* memory does, because a cursor that page keys have put behind the text   *)
(* reads them.                                                             *)
(*                                                                         *)
(* A memmove whose length textLen - cursorPos is negative wraps around to  *)
(* almost 2^32 bytes and takes the processor down: mode "fault".           *)
(***************************************************************************)
EXTENDS Integers, Sequences, FiniteSets, FiniteSetsExt

CONSTANTS
    EditBuffSize,    \* EDIT_BUFF_SIZE, 131072 in the program
    ClipboardSize,   \* CLIPBOARD_SIZE, 16384
    MaxR,            \* text rows of the screen, title and status line included
    MaxC,            \* text columns of the screen
    PageLines,       \* lines a page key moves, 20
    OpenContext,     \* lines kept above the error line when a file opens, 5
    SearchContext,   \* lines kept above a search hit, 8
    PrintableChars,  \* what the printable keys enter
    FileBytes,       \* bytes a file may hold that no key enters
    NL, CR, NUL,     \* '\n', '\r' and the zero byte
    Documents,       \* the contents files of the card may have
    SearchTerms,     \* the search terms the user enters
    ErrorLines       \* the error lines a program run can report

Chars == PrintableChars \cup FileBytes \cup {NL, NUL}

ASSUME BufferAssumption ==
    /\ EditBuffSize \in Nat /\ EditBuffSize >= 2
    /\ ClipboardSize \in Nat /\ ClipboardSize >= 2
ASSUME ScreenAssumption ==
    /\ MaxR \in Nat /\ MaxR >= 4
    /\ MaxC \in Nat /\ MaxC >= 1
    /\ PageLines \in Nat /\ PageLines >= 1
    /\ OpenContext \in Nat /\ OpenContext >= 1
    /\ SearchContext \in Nat /\ SearchContext >= 1
ASSUME CharAssumption ==
    /\ NL \notin PrintableChars /\ CR \notin Chars
    /\ Documents \subseteq Seq(Chars \cup {CR})
    /\ SearchTerms \subseteq Seq(PrintableChars) \ {<<>>}
    /\ ErrorLines \subseteq Int

VARIABLES
    textBuffer, textLen, cursorPos, topIndex, leftColumn,
    selectionModeActive, blockStartPos,
    clipboard,            \* the first clipboardLen bytes of clipboardBuffer
    letzterSuchBegriff,   \* the last search term, <<>> when there is none
    fehlerZeile,          \* the line the next edit jumps to
    mode                  \* where the loop waits: for a command at the prompt,
                          \* for a key of the text, the menu or a search dialog

text   == <<textBuffer, textLen>>
view   == <<topIndex, leftColumn>>
block  == <<selectionModeActive, blockStartPos, clipboard>>
vars   == <<text, view, block, cursorPos, letzterSuchBegriff, fehlerZeile, mode>>

Index == 0 .. EditBuffSize - 1
Modes == {"prompt", "edit", "menu", "ask", "input", "fault"}

-----------------------------------------------------------------------------
(* The buffer as memory. *)

Memmove(b, dst, src, n) ==
    [i \in Index |-> IF dst <= i /\ i < dst + n THEN b[i - dst + src] ELSE b[i]]

Memcpy(b, dst, s) ==
    [i \in Index |-> IF dst <= i /\ i < dst + Len(s) THEN s[i - dst + 1] ELSE b[i]]

Bytes(b, from, n) == [i \in 1 .. n |-> b[from + i - 1]]

(* The lines of the buffer: where the line of p starts and ends, how many  *)
(* line ends lie between two positions, the column of p (from 1).          *)

LineStart(b, p) == Max({q \in 0 .. p : q = 0 \/ b[q - 1] = NL})

LineEnd(b, n, p) ==
    Min({q \in p .. (IF p < n THEN n ELSE p) : q >= n \/ b[q] = NL})

LineEndsIn(b, from, to) == {q \in from .. to - 1 : b[q] = NL}

Column(b, p) == p - LineStart(b, p) + 1

(* The first byte of line z, or the end of the text when it is shorter.    *)
StartOfLine(b, n, z) ==
    Min({q \in 0 .. n : q = n \/ Cardinality(LineEndsIn(b, 0, q)) >= z - 1})

(* The top of a page that shows at most k line ends above p.  The scan     *)
(* stops at index 0 whether or not a line ends there.                      *)
ContextTop(b, p, k) ==
    LET above == {q \in LineEndsIn(b, 1, p) :
                      Cardinality(LineEndsIn(b, q, p)) >= k}
    IN  IF above = {} THEN 0 ELSE Max(above) + 1

(* Slips in the scroll check: the comparison to the right one column late, *)
(* and the window one column too far to the left.                          *)
ScrollToLate(left, x) ==
    IF x > left + MaxC THEN x - (MaxC - 1)
    ELSE IF x < left THEN x ELSE left
ScrollToBeforeFirst(left, x) ==
    IF x >= left + MaxC THEN x - (MaxC - 1)
    ELSE IF x < left THEN x - 1 ELSE left

(* leftColumn after the horizontal scroll check for column x.              *)
ScrollTo(left, x) ==
    IF x >= left + MaxC THEN x - (MaxC - 1)
    ELSE IF x < left THEN x ELSE left

(* The cursor's row in the window, the first text row is 2.                *)
VgaRow(b, top, p) == 2 + Cardinality(LineEndsIn(b, top, p))

(* A slip: the top on the line end itself instead of behind it.            *)
NextLineTopOnLineEnd(b, n, top) ==
    LET e == LineEnd(b, n, top) IN IF e < n THEN e ELSE top

(* One line further down: the top after the line at top, if it ends.       *)
NextLineTop(b, n, top) ==
    LET e == LineEnd(b, n, top) IN IF e < n THEN e + 1 ELSE top

(* The first match of term s at or after a position.                       *)
MatchesFrom(s, from) ==
    {q \in from .. textLen - Len(s) : Bytes(textBuffer, q, Len(s)) = s}

-----------------------------------------------------------------------------
(* lua_cmd_edit: the file without its carriage returns, cut off where the  *)
(* buffer ends, in a cleared buffer; then the cursor on line fehlerZeile.  *)

Kept(doc) == {i \in DOMAIN doc : doc[i] # CR}

KeptAt(doc, j) == Min({i \in Kept(doc) : Cardinality({k \in Kept(doc) : k <= i}) >= j})

Loaded(doc) ==
    [j \in 1 .. Min({Cardinality(Kept(doc)), EditBuffSize - 1}) |-> doc[KeptAt(doc, j)]]

Open(doc) ==
    /\ mode = "prompt"
    /\ textBuffer' = Memcpy([i \in Index |-> NUL], 0, Loaded(doc))
    /\ textLen' = Len(Loaded(doc))
    /\ cursorPos' = IF fehlerZeile > 1
                    THEN StartOfLine(textBuffer', textLen', fehlerZeile) ELSE 0
    /\ topIndex' = IF fehlerZeile > 1
                   THEN ContextTop(textBuffer', cursorPos', OpenContext) ELSE 0
    /\ mode' = "edit"
    /\ UNCHANGED <<leftColumn, block, letzterSuchBegriff, fehlerZeile>>

(* The synchronisation that ends the handling of every key.                *)
Sync == leftColumn' = ScrollTo(leftColumn, Column(textBuffer', cursorPos'))

(* Enter, Backspace and the printable keys change the text between the two *)
(* synchronisations of the loop, the other keys before both.               *)
SyncedLeft == ScrollTo(leftColumn, Column(textBuffer, cursorPos))

(* ESC, an unassigned key, and every key whose condition does not hold.    *)
KeyWithoutEffect ==
    /\ mode = "edit"
    /\ UNCHANGED <<text, topIndex, block, cursorPos, letzterSuchBegriff, fehlerZeile, mode>>
    /\ Sync

-----------------------------------------------------------------------------
(* F1: the menu. *)

KeyMenu ==
    /\ mode = "edit"
    /\ mode' = "menu"
    /\ UNCHANGED <<text, view, block, cursorPos, letzterSuchBegriff, fehlerZeile>>

MenuEsc ==
    /\ mode = "menu"
    /\ mode' = "edit"
    /\ UNCHANGED <<text, topIndex, block, cursorPos, letzterSuchBegriff, fehlerZeile>>
    /\ Sync

(* Save and quit: when the file opens for writing it is run, which sets    *)
(* fehlerZeile to 1 or to the line of its error; when not, fehlerZeile     *)
(* stays.                                                                  *)
MenuSave ==
    /\ mode = "menu"
    /\ mode' = "prompt"
    /\ fehlerZeile' \in ErrorLines \cup {1, fehlerZeile}
    /\ cursorPos' = 0
    /\ UNCHANGED <<text, view, block, letzterSuchBegriff>>

MenuQuit ==
    /\ mode = "menu"
    /\ mode' = "prompt"
    /\ cursorPos' = 0
    /\ UNCHANGED <<text, view, block, letzterSuchBegriff, fehlerZeile>>

-----------------------------------------------------------------------------
(* F2, F3: mark a block of lines, copy it, insert it. *)

KeyMark ==
    /\ mode = "edit"
    /\ ~selectionModeActive
    /\ blockStartPos' = LineStart(textBuffer, cursorPos)
    /\ selectionModeActive' = TRUE
    /\ UNCHANGED <<text, topIndex, cursorPos, clipboard, letzterSuchBegriff, fehlerZeile, mode>>
    /\ Sync

(* The end of the cursor's line with its line end; the two positions are   *)
(* swapped when the cursor is above the mark.                              *)
MarkedEnd ==
    LET e == LineEnd(textBuffer, textLen, cursorPos)
    IN  IF e < textLen THEN e + 1 ELSE e
BlockFirst == IF blockStartPos > MarkedEnd THEN MarkedEnd ELSE blockStartPos
BlockLen   == IF blockStartPos > MarkedEnd THEN blockStartPos - MarkedEnd
                                           ELSE MarkedEnd - blockStartPos

BlockFits == BlockLen > 0 /\ BlockLen < ClipboardSize - 1

KeyCopy ==
    /\ mode = "edit"
    /\ selectionModeActive
    /\ \/ /\ BlockFits
          /\ clipboard' = Bytes(textBuffer, BlockFirst, BlockLen)
          /\ blockStartPos' = BlockFirst
       \/ /\ ~BlockFits
          /\ UNCHANGED <<clipboard, blockStartPos>>
    /\ selectionModeActive' = FALSE
    /\ UNCHANGED <<text, topIndex, cursorPos, letzterSuchBegriff, fehlerZeile, mode>>
    /\ Sync

(* An edit that moves the text behind the cursor by memmove with the       *)
(* length textLen - cursorPos is lost when the cursor is behind the text.  *)
CursorInText == cursorPos <= textLen

MemoryFault ==
    /\ mode' = "fault"
    /\ UNCHANGED <<text, view, block, cursorPos, letzterSuchBegriff, fehlerZeile>>

(* A slip: the line end that follows the block is not counted.             *)
PasteFitsWithoutLineEnd == Len(clipboard) > 0 /\ textLen + Len(clipboard) < EditBuffSize

PasteFits == Len(clipboard) > 0 /\ textLen + Len(clipboard) + 1 < EditBuffSize - 1

KeyPaste ==
    /\ mode = "edit"
    /\ PasteFits
    /\ IF CursorInText
       THEN LET n == Len(clipboard)
                moved == Memmove(textBuffer, cursorPos + n + 1, cursorPos, textLen - cursorPos)
            IN  /\ textBuffer' = Memcpy(moved, cursorPos, Append(clipboard, NL))
                /\ textLen' = textLen + n + 1
                /\ cursorPos' = cursorPos + n + 1
                /\ UNCHANGED <<topIndex, block, letzterSuchBegriff, fehlerZeile, mode>>
                /\ Sync
       ELSE MemoryFault
-----------------------------------------------------------------------------
(* F4 or Ctrl-F: the dialog and the search, which wraps around once.       *)

KeySearch ==
    /\ mode = "edit"
    /\ mode' = IF letzterSuchBegriff # <<>> THEN "ask" ELSE "input"
    /\ UNCHANGED <<text, view, block, cursorPos, letzterSuchBegriff, fehlerZeile>>

(* A slip: the search starts on the hit the cursor stands on.              *)
HitsFromCursor(s) ==
    LET next == IF cursorPos + 1 < textLen THEN MatchesFrom(s, cursorPos) ELSE {}
    IN  IF next # {} THEN next ELSE MatchesFrom(s, 0)

Hits(s) ==
    LET next == IF cursorPos + 1 < textLen THEN MatchesFrom(s, cursorPos + 1) ELSE {}
    IN  IF next # {} THEN next ELSE MatchesFrom(s, 0)

Search(s) ==
    /\ \/ /\ Hits(s) # {}
          /\ cursorPos' = Min(Hits(s))
          /\ topIndex' = ContextTop(textBuffer, cursorPos', SearchContext)
          /\ letzterSuchBegriff' = s
       \/ /\ Hits(s) = {}
          /\ letzterSuchBegriff' = <<>>
          /\ UNCHANGED <<cursorPos, topIndex>>
    /\ mode' = "edit"
    /\ UNCHANGED <<text, block, fehlerZeile>>
    /\ Sync

AskContinue == mode = "ask" /\ Search(letzterSuchBegriff)

AskNew ==
    /\ mode = "ask"
    /\ letzterSuchBegriff' = <<>>
    /\ mode' = "input"
    /\ UNCHANGED <<text, view, block, cursorPos, fehlerZeile>>

InputTerm(s) == mode = "input" /\ Search(s)

(* ESC in a dialog, or ENTER on an empty input: no search; the term of the *)
(* question is kept, that of an input has been dropped already.            *)
SearchCancelled ==
    /\ mode \in {"ask", "input"}
    /\ mode' = "edit"
    /\ UNCHANGED <<text, topIndex, block, cursorPos, letzterSuchBegriff, fehlerZeile>>
    /\ Sync

-----------------------------------------------------------------------------
(* The cursor keys. *)

MoveCursor(p, top) ==
    /\ cursorPos' = p
    /\ topIndex' = top
    /\ UNCHANGED <<text, block, letzterSuchBegriff, fehlerZeile, mode>>
    /\ Sync

KeyUp ==
    /\ mode = "edit"
    /\ LineStart(textBuffer, cursorPos) > 0
    /\ LET here  == LineStart(textBuffer, cursorPos)
           above == LineStart(textBuffer, here - 1)
           col   == cursorPos - here
           len   == here - 1 - above
           p     == IF col > len THEN above + len ELSE above + col
       IN  MoveCursor(p, IF p < topIndex THEN above ELSE topIndex)

KeyDown ==
    /\ mode = "edit"
    /\ LineEnd(textBuffer, textLen, cursorPos) < textLen
    /\ LET below == LineEnd(textBuffer, textLen, cursorPos) + 1
           col   == cursorPos - LineStart(textBuffer, cursorPos)
           len   == LineEnd(textBuffer, textLen, below) - below
           p     == IF col > len THEN below + len ELSE below + col
       IN  MoveCursor(p, IF VgaRow(textBuffer, topIndex, p) > MaxR - 1
                         THEN NextLineTop(textBuffer, textLen, topIndex)
                         ELSE topIndex)

KeyRight == mode = "edit" /\ cursorPos < textLen /\ MoveCursor(cursorPos + 1, topIndex)

KeyLeft == mode = "edit" /\ cursorPos > 0 /\ MoveCursor(cursorPos - 1, topIndex)

(* The page keys move the window by up to PageLines line starts and put    *)
(* the cursor on its first byte, wherever the text ends.                   *)
PageUpTop ==
    LET starts == {q \in 0 .. topIndex - 1 : q = 0 \/ textBuffer[q - 1] = NL}
    IN  IF starts = {} THEN topIndex
        ELSE Min({q \in starts : Cardinality({r \in starts : r > q}) < PageLines})

PageDownTop ==
    LET starts == {q \in topIndex + 1 .. textLen : textBuffer[q - 1] = NL}
    IN  IF starts = {} THEN topIndex
        ELSE Max({q \in starts : Cardinality({r \in starts : r < q}) < PageLines})

KeyPageUp == mode = "edit" /\ MoveCursor(PageUpTop, PageUpTop)

KeyPageDown == mode = "edit" /\ MoveCursor(PageDownTop, PageDownTop)

-----------------------------------------------------------------------------
(* The keys that change the text. *)

(* A slip: the copied block is compared beyond the end of the text.        *)
BlockStandsAnywhere ==
    /\ Len(clipboard) > 0
    /\ blockStartPos + Len(clipboard) <= EditBuffSize
    /\ Bytes(textBuffer, blockStartPos, Len(clipboard)) = clipboard

(* DEL deletes the copied block when it still stands where it was copied,  *)
(* wherever the cursor is in the text, else the character at the cursor.   *)
BlockStands ==
    /\ Len(clipboard) > 0
    /\ blockStartPos + Len(clipboard) <= textLen
    /\ Bytes(textBuffer, blockStartPos, Len(clipboard)) = clipboard

DeleteBlock ==
    LET n == Len(clipboard)
        moved == Memmove(textBuffer, blockStartPos, blockStartPos + n,
                         textLen - (blockStartPos + n))
    IN  /\ BlockStands
        /\ textBuffer' = [moved EXCEPT ![textLen - n] = NUL]
        /\ textLen' = textLen - n
        /\ cursorPos' = blockStartPos
        /\ clipboard' = <<>>
        /\ UNCHANGED <<selectionModeActive, blockStartPos>>

DeleteChar ==
    LET moved == Memmove(textBuffer, cursorPos, cursorPos + 1, textLen - cursorPos)
    IN  /\ ~BlockStands
        /\ textBuffer' = [moved EXCEPT ![textLen - 1] = NUL]
        /\ textLen' = textLen - 1
        /\ UNCHANGED <<cursorPos, block>>

KeyDelete ==
    /\ mode = "edit"
    /\ cursorPos < textLen
    /\ DeleteBlock \/ DeleteChar
    /\ UNCHANGED <<topIndex, letzterSuchBegriff, fehlerZeile, mode>>
    /\ Sync

(* A slip: one byte too few is moved.                                      *)
InsertedAtCursorShort(c) ==
    [Memmove(textBuffer, cursorPos + 1, cursorPos, textLen - cursorPos - 1)
        EXCEPT ![cursorPos] = c]

InsertedAtCursor(c) ==
    [Memmove(textBuffer, cursorPos + 1, cursorPos, textLen - cursorPos)
        EXCEPT ![cursorPos] = c]

KeyEnter ==
    /\ mode = "edit"
    /\ textLen < EditBuffSize - 1
    /\ IF CursorInText
       THEN /\ textBuffer' = InsertedAtCursor(NL)
            /\ cursorPos' = cursorPos + 1
            /\ textLen' = textLen + 1
            /\ topIndex' = IF VgaRow(textBuffer', topIndex, cursorPos') > MaxR - 2
                           THEN NextLineTop(textBuffer', textLen', topIndex)
                           ELSE topIndex
            /\ leftColumn' = ScrollTo(1, Column(textBuffer', cursorPos'))
            /\ UNCHANGED <<block, letzterSuchBegriff, fehlerZeile, mode>>
       ELSE MemoryFault

KeyChar(c) ==
    /\ mode = "edit"
    /\ textLen < EditBuffSize - 1
    /\ IF CursorInText
       THEN /\ textBuffer' = InsertedAtCursor(c)
            /\ cursorPos' = cursorPos + 1
            /\ textLen' = textLen + 1
            /\ leftColumn' = ScrollTo(SyncedLeft, Column(textBuffer', cursorPos'))
            /\ UNCHANGED <<topIndex, block, letzterSuchBegriff, fehlerZeile, mode>>
       ELSE MemoryFault

KeyBackspace ==
    /\ mode = "edit"
    /\ cursorPos > 0
    /\ IF CursorInText
       THEN /\ textBuffer' =
                  [Memmove(textBuffer, cursorPos - 1, cursorPos, textLen - cursorPos)
                      EXCEPT ![textLen - 1] = NUL]
            /\ cursorPos' = cursorPos - 1
            /\ textLen' = textLen - 1
            /\ leftColumn' = ScrollTo(SyncedLeft, Column(textBuffer', cursorPos'))
            /\ UNCHANGED <<topIndex, block, letzterSuchBegriff, fehlerZeile, mode>>
       ELSE MemoryFault

-----------------------------------------------------------------------------
(* The editor's globals as the program starts them, also after a fault.    *)
InitialValues(b, n, p, top, left, sel, start, clip, term, line, m) ==
    /\ b = [i \in Index |-> NUL]
    /\ n = 0 /\ p = 0 /\ top = 0 /\ left = 1
    /\ sel = FALSE /\ start = 0 /\ clip = <<>> /\ term = <<>>
    /\ line = 1 /\ m = "prompt"

Init == InitialValues(textBuffer, textLen, cursorPos, topIndex, leftColumn,
            selectionModeActive, blockStartPos, clipboard, letzterSuchBegriff,
            fehlerZeile, mode)

Restart ==
    /\ mode = "fault"
    /\ InitialValues(textBuffer', textLen', cursorPos', topIndex', leftColumn',
           selectionModeActive', blockStartPos', clipboard', letzterSuchBegriff',
           fehlerZeile', mode')

MenuKey   == KeyMenu \/ MenuEsc \/ MenuSave \/ MenuQuit
BlockKey  == KeyMark \/ KeyCopy \/ KeyPaste
SearchKey == \/ KeySearch \/ AskContinue \/ AskNew \/ SearchCancelled
             \/ \E s \in SearchTerms : InputTerm(s)
CursorKey == KeyUp \/ KeyDown \/ KeyRight \/ KeyLeft \/ KeyPageUp \/ KeyPageDown
TextKey   == KeyDelete \/ KeyEnter \/ KeyBackspace \/ \E c \in PrintableChars : KeyChar(c)

Next == \/ \E doc \in Documents : Open(doc)
        \/ KeyWithoutEffect \/ MenuKey \/ BlockKey \/ SearchKey
        \/ CursorKey \/ TextKey \/ Restart

Spec == Init /\ [][Next]_vars

-----------------------------------------------------------------------------
(* Properties. *)

(* Every variable has its type; redrawScreen subtracts 1 from leftColumn,  *)
(* an unsigned number, so that it is never 0.                              *)
TypeOK ==
    /\ textBuffer \in [Index -> Chars]
    /\ textLen \in Nat /\ cursorPos \in Nat
    /\ topIndex \in Nat
    /\ leftColumn \in Nat \ {0}
    /\ selectionModeActive \in BOOLEAN
    /\ blockStartPos \in Nat
    /\ clipboard \in Seq(Chars)
    /\ letzterSuchBegriff \in Seq(PrintableChars)
    /\ fehlerZeile \in Int
    /\ mode \in Modes

(* Memory safety: whatever the user does, every position the editor keeps  *)
(* is an index of textBuffer, the byte behind the text exists (the run     *)
(* after saving writes a zero there), and the clipboard with its zero byte *)
(* fits in clipboardBuffer.  Positions survive edits, sessions and files,  *)
(* and every key is guarded by a different comparison.                     *)
IndicesInBuffer ==
    /\ textLen \in Index
    /\ cursorPos \in Index
    /\ topIndex \in Index
    /\ blockStartPos \in Index
    /\ Len(clipboard) < ClipboardSize - 1

(* No key but the page keys takes the cursor from inside the text to       *)
(* behind its end: neither a block deletion far away from it, nor a search *)
(* hit, nor the column a vertical move asks for.  The page keys do when    *)
(* the text has shrunk above the window.                                   *)
OnlyPageKeysLeaveText ==
    [][cursorPos <= textLen /\ cursorPos' > textLen'
         => textLen < topIndex /\ cursorPos' = topIndex']_vars

(* After every key the cursor's column lies in the window.                 *)
ColumnVisible ==
    [][mode # "prompt" /\ mode' = "edit"
         => LET x == Column(textBuffer', cursorPos')
            IN  leftColumn' <= x /\ x < leftColumn' + MaxC]_vars

(* A key that moves the cursor by at most one line, or edits at the        *)
(* cursor, keeps it between title and status line when it was there: one   *)
(* line of scrolling is always enough.  KeyLeft, KeyRight, Backspace and   *)
(* the deletion or insertion of a block do not look at the window.         *)
RowVisible(b, top, p) == top <= p /\ VgaRow(b, top, p) <= MaxR - 1

LineKeysKeepRowVisible ==
    [][(KeyUp \/ KeyDown \/ KeyEnter \/ (\E c \in PrintableChars : KeyChar(c)))
           /\ RowVisible(textBuffer, topIndex, cursorPos) /\ mode' # "fault"
         => RowVisible(textBuffer', topIndex', cursorPos')]_vars

(* "Weitersuchen" goes to the cyclically next hit: it skips none, and with *)
(* two hits in the text it never stays where it is.                        *)
SearchVisitsNextHit ==
    [][AskContinue /\ cursorPos < textLen =>
         LET hits == MatchesFrom(letzterSuchBegriff, 0)
             between == IF cursorPos' > cursorPos
                        THEN {q \in hits : cursorPos < q /\ q < cursorPos'}
                        ELSE {q \in hits : q < cursorPos' \/ cursorPos < q}
         IN  /\ hits # {} => cursorPos' \in hits /\ between = {}
             /\ Cardinality(hits) >= 2 => cursorPos' # cursorPos]_vars

(* What the comments at the edits say.                                     *)
(* "Verschiebt den Text hinter dem Cursor um 1 Position nach hinten":      *)
(* ENTER makes the text one longer.                                        *)
EnterShiftsText == [][KeyEnter => textLen' = textLen + 1]_vars

(* "Jetzt den gesamten Block kopieren!", "Falls Nutzer von unten nach oben *)
(* markiert hat, Werte umdrehen": with the mark on a line start below the  *)
(* cursor, F2 copies from the cursor's line to the end of the mark's.      *)
CopyFromBottomToTop ==
    [][KeyCopy /\ cursorPos < blockStartPos /\ blockStartPos < textLen
             /\ blockStartPos = LineStart(textBuffer, blockStartPos) =>
         LET first == LineStart(textBuffer, cursorPos)
             end   == LineEnd(textBuffer, textLen, blockStartPos)
         IN  end - first < ClipboardSize - 2
               => /\ Len(clipboard') >= end - first
                  /\ SubSeq(clipboard', 1, end - first) = Bytes(textBuffer, first, end - first)]_vars

-----------------------------------------------------------------------------
(* The text the user sees, as a sequence with a cursor. *)

A == INSTANCE TextEdit WITH
        Limit  <- EditBuffSize - 1,
        NewLine <- NL,
        Symbols <- Chars,
        txt    <- Bytes(textBuffer, 0, textLen),
        cur    <- cursorPos,
        clip   <- clipboard,
        phase  <- IF mode \in {"prompt", "fault"} THEN mode ELSE "editing"

(* Every step of the editor is a step of the abstract one: it inserts or   *)
(* deletes one contiguous piece and loses or invents nothing else.         *)
ImplementsTextEdit == A!Spec

=============================================================================
