---------------------------- MODULE EditorProofs ----------------------------
(***************************************************************************)
(* The editor, for every size of the buffers and the screen and for all    *)
(* files, search terms and error lines: type correctness and memory        *)
(* safety, what a single key may do, and that every step is a step of      *)
(* TextEdit.  Types and memory safety are one inductive invariant: a type  *)
(* is kept because an index is in the buffer, and an index stays in the    *)
(* buffer because the scans over typed bytes stop inside it.               *)
(***************************************************************************)
EXTENDS Editor, Extrema, SequenceTheorems

USE BufferAssumption, ScreenAssumption, CharAssumption

Inv == TypeOK /\ IndicesInBuffer

-----------------------------------------------------------------------------
(* The scans over the buffer. *)

(* The start of a line lies between 0 and the position it is sought from.  *)
LEMMA LineStartRange ==
    ASSUME NEW b, NEW p \in Nat
    PROVE  LineStart(b, p) \in 0 .. p
PROOF
<1> DEFINE S == {q \in 0 .. p : q = 0 \/ b[q - 1] = NL}
<1>1. 0 \in S /\ S \in SUBSET (0 .. p)
  OBVIOUS
<1>2. Max(S) \in S
  <2> HIDE DEF S
  <2> QED
    BY <1>1, MaxOfBounded
<1> QED
  BY <1>2 DEF LineStart

(* The end of a line lies between the position it is sought from and the   *)
(* end of the text, and is the position itself behind the text.            *)
LEMMA LineEndRange ==
    ASSUME NEW b, NEW n \in Nat, NEW p \in Nat
    PROVE  /\ LineEnd(b, n, p) \in Nat
           /\ p <= LineEnd(b, n, p)
           /\ p <= n => LineEnd(b, n, p) <= n
           /\ p >= n => LineEnd(b, n, p) = p
PROOF
<1> DEFINE last == IF p < n THEN n ELSE p
           S == {q \in p .. last : q >= n \/ b[q] = NL}
<1>1. last \in S /\ S \in SUBSET Nat
  OBVIOUS
<1>2. Min(S) \in S
  <2> HIDE DEF S
  <2> QED
    BY <1>1, MinOfNat
<1> QED
  BY <1>2 DEF LineEnd

(* The column of a position is at least 1.                                 *)
LEMMA ColumnRange ==
    ASSUME NEW b, NEW p \in Nat
    PROVE  Column(b, p) \in Nat \ {0}
BY LineStartRange DEF Column

(* The scroll check never sets leftColumn to 0.                            *)
LEMMA ScrollToRange ==
    ASSUME NEW left \in Nat \ {0}, NEW x \in Nat \ {0}
    PROVE  ScrollTo(left, x) \in Nat \ {0}
BY DEF ScrollTo

(* The start of a sought line lies in the text.                            *)
LEMMA StartOfLineRange ==
    ASSUME NEW b, NEW n \in Nat, NEW z
    PROVE  StartOfLine(b, n, z) \in 0 .. n
PROOF
<1> DEFINE S == {q \in 0 .. n : q = n \/ Cardinality(LineEndsIn(b, 0, q)) >= z - 1}
<1>1. n \in S /\ S \in SUBSET Nat
  OBVIOUS
<1>2. Min(S) \in S
  <2> HIDE DEF S
  <2> QED
    BY <1>1, MinOfNat
<1> QED
  BY <1>2 DEF StartOfLine

(* The window a jump scrolls to starts at or above the jump's target.      *)
LEMMA ContextTopRange ==
    ASSUME NEW b, NEW p \in Nat, NEW k
    PROVE  ContextTop(b, p, k) \in 0 .. p
PROOF
<1> DEFINE S == {q \in LineEndsIn(b, 1, p) : Cardinality(LineEndsIn(b, q, p)) >= k}
<1>1. S \in SUBSET (0 .. p) /\ \A q \in S : q <= p - 1
  BY DEF LineEndsIn
<1>2. CASE S = {}
  BY <1>2 DEF ContextTop
<1>3. CASE S # {}
  <2>1. Max(S) \in S
    <3> HIDE DEF S
    <3> QED
      BY <1>1, <1>3, MaxOfBounded
  <2>2. Max(S) + 1 \in 0 .. p
    <3>1. Max(S) \in 0 .. p /\ Max(S) <= p - 1
      <4> HIDE DEF S
      <4> QED
        BY <1>1, <2>1
    <3> HIDE DEF S
    <3> QED
      BY <3>1
  <2> QED
    BY <1>3, <2>2 DEF ContextTop
<1> QED
  BY <1>2, <1>3

(* Scrolling one line further leaves the window inside the text.           *)
LEMMA NextLineTopRange ==
    ASSUME NEW b, NEW n \in Index, NEW top \in Index
    PROVE  NextLineTop(b, n, top) \in Index
PROOF
<1>1. /\ LineEnd(b, n, top) \in Nat
      /\ top <= LineEnd(b, n, top)
  BY LineEndRange DEF Index
<1> QED
  BY <1>1 DEF NextLineTop, Index

(* What a page key makes the top of the window is an index of the buffer.  *)
LEMMA PageTopRange ==
    ASSUME Inv
    PROVE  PageUpTop \in Index /\ PageDownTop \in Index
PROOF
<1> USE DEF Inv, TypeOK, IndicesInBuffer, Index
<1>1. PageUpTop \in Index
  <2> DEFINE S == {q \in 0 .. topIndex - 1 : q = 0 \/ textBuffer[q - 1] = NL}
             T == {q \in S : Cardinality({r \in S : r > q}) < PageLines}
  <2>1. CASE S = {}
    BY <2>1 DEF PageUpTop
  <2>2. CASE S # {}
    <3>1. S \in SUBSET (0 .. topIndex)
      OBVIOUS
    <3>2. Max(S) \in S /\ \A x \in S : x <= Max(S)
      <4> HIDE DEF S
      <4> QED
        BY <2>2, <3>1, MaxOfBounded
    <3>3. {r \in S : r > Max(S)} = {}
      <4> HIDE DEF S
      <4> QED
        BY <3>1, <3>2
    <3>4. Max(S) \in T
      <4>1. Cardinality({r \in S : r > Max(S)}) = 0
        BY ONLY <3>3, FS_EmptySet
      <4>2. Cardinality({r \in S : r > Max(S)}) < PageLines
        BY <4>1
      <4> HIDE DEF S
      <4> QED
        BY <3>2, <4>2
    <3>5. Min(T) \in T
      <4>1. T \in SUBSET Nat
        OBVIOUS
      <4> HIDE DEF T
      <4> QED
        BY <3>4, <4>1, MinOfNat
    <3>6. Min(T) \in Index
      <4>1. Min(T) \in S
        <5> HIDE DEF S
        <5> QED
          BY <3>5
      <4> QED
        BY <4>1
    <3> QED
      BY <2>2, <3>6 DEF PageUpTop
  <2> QED
    BY <2>1, <2>2
<1>2. PageDownTop \in Index
  <2> DEFINE S == {q \in topIndex + 1 .. textLen : textBuffer[q - 1] = NL}
             T == {q \in S : Cardinality({r \in S : r < q}) < PageLines}
  <2>1. CASE S = {}
    BY <2>1 DEF PageDownTop
  <2>2. CASE S # {}
    <3>1. S \in SUBSET Nat
      OBVIOUS
    <3>2. Min(S) \in S /\ \A x \in S : Min(S) <= x
      <4> HIDE DEF S
      <4> QED
        BY <2>2, <3>1, MinOfNat
    <3>3. {r \in S : r < Min(S)} = {}
      <4> DEFINE m == Min(S)
      <4>1. \A x \in S : x \in Nat /\ m \in Nat /\ m <= x
        <5> HIDE DEF S
        <5> QED
          BY <3>1, <3>2
      <4> HIDE DEF S, m
      <4>2. \A x \in S : ~(x < m)
        BY ONLY <4>1
      <4> QED
        BY ONLY <4>2 DEF m
    <3>4. Min(S) \in T
      <4>1. Cardinality({r \in S : r < Min(S)}) = 0
        BY ONLY <3>3, FS_EmptySet
      <4>2. Cardinality({r \in S : r < Min(S)}) < PageLines
        BY <4>1
      <4> HIDE DEF S
      <4> QED
        BY <3>2, <4>2
    <3>5. Max(T) \in T
      <4>1. T \in SUBSET (0 .. textLen)
        OBVIOUS
      <4> HIDE DEF T
      <4> QED
        BY <3>4, <4>1, MaxOfBounded
    <3>6. Max(T) \in Index
      <4>1. Max(T) \in S
        <5> HIDE DEF S
        <5> QED
          BY <3>5
      <4> QED
        BY <4>1
    <3> QED
      BY <2>2, <3>6 DEF PageDownTop
  <2> QED
    BY <2>1, <2>2
<1> QED
  BY <1>1, <1>2

-----------------------------------------------------------------------------
(* The bytes the keys and the load put into the buffer. *)

(* A move whose source ends in the buffer leaves bytes in every cell.      *)
LEMMA MemmoveType ==
    ASSUME NEW b \in [Index -> Chars], NEW dst \in Nat, NEW src \in Nat,
           NEW n \in Int, src + n <= EditBuffSize
    PROVE  Memmove(b, dst, src, n) \in [Index -> Chars]
PROOF
<1>1. ASSUME NEW i \in Index, dst <= i, i < dst + n
      PROVE  i - dst + src \in Index
  BY <1>1 DEF Index
<1> QED
  BY <1>1 DEF Memmove

(* Copying bytes into the buffer leaves bytes in every cell.               *)
LEMMA MemcpyType ==
    ASSUME NEW b \in [Index -> Chars], NEW dst \in Nat, NEW s \in Seq(Chars)
    PROVE  Memcpy(b, dst, s) \in [Index -> Chars]
PROOF
<1>1. ASSUME NEW i \in Index, dst <= i, i < dst + Len(s)
      PROVE  s[i - dst + 1] \in Chars
  <2>1. i - dst + 1 \in 1 .. Len(s)
    BY <1>1 DEF Index
  <2> QED
    BY <2>1
<1> QED
  BY <1>1 DEF Memcpy

(* A piece of the buffer is a sequence of bytes of the asked length.       *)
LEMMA BytesType ==
    ASSUME NEW b \in [Index -> Chars], NEW from \in Nat, NEW n \in Nat,
           from + n <= EditBuffSize
    PROVE  /\ Bytes(b, from, n) \in Seq(Chars)
           /\ Len(Bytes(b, from, n)) = n
PROOF
<1>1. \A i \in 1 .. n : b[from + i - 1] \in Chars
  <2> SUFFICES ASSUME NEW i \in 1 .. n
               PROVE  from + i - 1 \in Index
    OBVIOUS
  <2> QED
    BY DEF Index
<1>2. Bytes(b, from, n) \in [1 .. n -> Chars]
  BY <1>1 DEF Bytes
<1> QED
  BY <1>2, LenProperties

(* A loaded file is a text the buffer has room for, without a carriage     *)
(* return: the j-th kept byte exists for every j up to their number.       *)
LEMMA LoadedType ==
    ASSUME NEW doc \in Documents
    PROVE  /\ Loaded(doc) \in Seq(Chars)
           /\ Len(Loaded(doc)) \in Nat
           /\ Len(Loaded(doc)) <= EditBuffSize - 1
PROOF
<1> DEFINE K == Kept(doc)
           c == Cardinality(K)
           n == Min({c, EditBuffSize - 1})
<1>0. doc \in Seq(Chars \cup {CR})
  OBVIOUS
<1>1. K \in SUBSET (0 .. Len(doc)) /\ \A i \in K : doc[i] \in Chars
  BY <1>0 DEF Kept
<1>2. IsFiniteSet(K) /\ c \in Nat
  <2>1. IsFiniteSet(0 .. Len(doc))
    BY <1>0, FS_Interval
  <2> HIDE DEF K
  <2> QED
    BY <1>1, <2>1, FS_Subset, FS_CardinalityType
<1>3. n \in Nat /\ n <= c /\ n <= EditBuffSize - 1
  <2>1. {c, EditBuffSize - 1} \in SUBSET Nat
    BY <1>2
  <2> QED
    BY <2>1, MinOfNat
<1>4. ASSUME NEW j \in 1 .. n
      PROVE  KeptAt(doc, j) \in K
  <2> DEFINE S == {i \in K : Cardinality({k \in K : k <= i}) >= j}
  <2>1. K # {}
    <3>1. c >= 1
      <4> HIDE DEF n, c
      <4> QED
        BY <1>2, <1>3
    <3>2. K = {} => c = 0
      BY ONLY FS_EmptySet
    <3> HIDE DEF K, c
    <3> QED
      BY <3>1, <3>2
  <2>2. Max(K) \in K /\ \A k \in K : k <= Max(K)
    <3>1. Len(doc) \in Nat
      BY <1>0
    <3> HIDE DEF K
    <3> QED
      BY <1>1, <2>1, <3>1, MaxOfBounded
  <2>3. {k \in K : k <= Max(K)} = K
    <3> HIDE DEF K
    <3> QED
      BY <2>2
  <2>4. Cardinality({k \in K : k <= Max(K)}) >= j
    <3>1. Cardinality({k \in K : k <= Max(K)}) = c
      <4> HIDE DEF K
      <4> QED
        BY ONLY <2>3
    <3>2. c >= j
      <4> HIDE DEF c, n
      <4> QED
        BY <1>2, <1>3
    <3> HIDE DEF K, c
    <3> QED
      BY <3>1, <3>2
  <2>5. Max(K) \in S
    <3> HIDE DEF K
    <3> QED
      BY <2>2, <2>4
  <2>6. S \in SUBSET Nat
    BY <1>1
  <2>7. Min(S) \in S
    <3> HIDE DEF S
    <3> QED
      BY <2>5, <2>6, MinOfNat
  <2> QED
    BY <2>7 DEF KeptAt
<1>5. Loaded(doc) \in [1 .. n -> Chars]
  <2> HIDE DEF K, c
  <2>1. Loaded(doc) = [j \in 1 .. n |-> doc[KeptAt(doc, j)]]
    BY DEF Loaded, K, c
  <2>2. \A j \in 1 .. n : doc[KeptAt(doc, j)] \in Chars
    BY <1>1, <1>4
  <2> HIDE DEF n
  <2> QED
    BY <2>1, <2>2
<1> HIDE DEF n
<1> QED
  BY <1>3, <1>5, LenProperties

(* The synchronisation leaves a column from 1 on.                          *)
LEMMA SyncType ==
    ASSUME leftColumn \in Nat \ {0}, cursorPos' \in Nat, Sync
    PROVE  leftColumn' \in Nat \ {0}
BY ColumnRange, ScrollToRange DEF Sync

-----------------------------------------------------------------------------
(* Every action keeps the invariant. *)

USE DEF Inv, TypeOK, IndicesInBuffer, Modes, text, view, block

LEMMA OpenKeepsInv ==
    ASSUME Inv, NEW doc \in Documents, Open(doc)
    PROVE  Inv'
PROOF
<1> DEFINE s == Loaded(doc)
<1>1. s \in Seq(Chars) /\ Len(s) \in Nat /\ Len(s) <= EditBuffSize - 1
  BY LoadedType
<1>2. textBuffer' \in [Index -> Chars] /\ textLen' = Len(s)
  <2>1. [i \in Index |-> NUL] \in [Index -> Chars]
    BY DEF Chars
  <2> HIDE DEF s
  <2>2. textBuffer' = Memcpy([i \in Index |-> NUL], 0, s) /\ textLen' = Len(s)
    BY DEF Open, s
  <2> QED
    BY <1>1, <2>1, <2>2, MemcpyType
<1>3. cursorPos' \in 0 .. textLen'
  <2> HIDE DEF s
  <2> QED
    BY <1>1, <1>2, StartOfLineRange DEF Open
<1>4. topIndex' \in 0 .. cursorPos'
  <2> HIDE DEF s
  <2> QED
    BY <1>1, <1>2, <1>3, ContextTopRange DEF Open
<1> HIDE DEF s
<1>5. /\ mode' = "edit"
      /\ UNCHANGED <<leftColumn, block, letzterSuchBegriff, fehlerZeile>>
  BY DEF Open
<1>6. textLen' \in Index /\ cursorPos' \in Index /\ topIndex' \in Index
  BY <1>1, <1>2, <1>3, <1>4 DEF Index
<1> QED
  BY <1>2, <1>5, <1>6 DEF Index

(* The cursor keys: each computes the position and the top it moves to.    *)
LEMMA MoveCursorKeepsInv ==
    ASSUME Inv, mode = "edit", NEW p \in Index, NEW top \in Index, MoveCursor(p, top)
    PROVE  Inv'
PROOF
<1>1. /\ cursorPos' = p /\ topIndex' = top
      /\ UNCHANGED <<text, block, letzterSuchBegriff, fehlerZeile, mode>>
      /\ Sync
  BY DEF MoveCursor
<1>2. leftColumn' \in Nat \ {0}
  BY <1>1, SyncType DEF Index
<1> QED
  BY <1>1, <1>2 DEF Index

LEMMA KeyUpKeepsInv ==
    ASSUME Inv, KeyUp
    PROVE  Inv'
PROOF
<1> DEFINE here  == LineStart(textBuffer, cursorPos)
           above == LineStart(textBuffer, here - 1)
           len   == here - 1 - above
           p     == IF cursorPos - here > len THEN above + len ELSE above + (cursorPos - here)
<1>1. here \in 0 .. cursorPos /\ here > 0
  BY LineStartRange DEF KeyUp
<1>2. above \in 0 .. here - 1
  <2> HIDE DEF here
  <2> QED
    BY <1>1, LineStartRange
<1>3. p \in Index /\ above \in Index
  <2> HIDE DEF here, above
  <2> QED
    BY <1>1, <1>2 DEF Index
<1>4. MoveCursor(p, IF p < topIndex THEN above ELSE topIndex) /\ mode = "edit"
  BY DEF KeyUp
<1> HIDE DEF p, above
<1> QED
  BY <1>3, <1>4, MoveCursorKeepsInv

LEMMA KeyDownKeepsInv ==
    ASSUME Inv, KeyDown
    PROVE  Inv'
PROOF
<1> DEFINE end   == LineEnd(textBuffer, textLen, cursorPos)
           below == end + 1
           len   == LineEnd(textBuffer, textLen, below) - below
           col   == cursorPos - LineStart(textBuffer, cursorPos)
           p     == IF col > len THEN below + len ELSE below + col
           top   == IF VgaRow(textBuffer, topIndex, p) > MaxR - 1
                    THEN NextLineTop(textBuffer, textLen, topIndex) ELSE topIndex
<1>1. end \in Nat /\ end < textLen
  BY LineEndRange DEF KeyDown
<1>2. len \in Nat /\ below + len <= textLen
  <2> HIDE DEF end
  <2>1. below \in Nat /\ below <= textLen
    BY <1>1
  <2> HIDE DEF below
  <2> QED
    BY <2>1, LineEndRange
<1>3. col \in Nat
  BY LineStartRange
<1>4. p \in Index
  <2> HIDE DEF end, len, col
  <2> QED
    BY <1>1, <1>2, <1>3 DEF Index
<1>5. top \in Index
  BY NextLineTopRange
<1>6. MoveCursor(p, top) /\ mode = "edit"
  BY DEF KeyDown
<1> HIDE DEF p, top
<1> QED
  BY <1>4, <1>5, <1>6, MoveCursorKeepsInv

LEMMA CursorKeysKeepInv ==
    ASSUME Inv, CursorKey
    PROVE  Inv'
PROOF
<1>1. CASE KeyUp
  BY <1>1, KeyUpKeepsInv
<1>2. CASE KeyDown
  BY <1>2, KeyDownKeepsInv
<1>3. CASE KeyRight
  BY <1>3, MoveCursorKeepsInv DEF KeyRight, Index
<1>4. CASE KeyLeft
  BY <1>4, MoveCursorKeepsInv DEF KeyLeft, Index
<1>5. CASE KeyPageUp
  BY <1>5, PageTopRange, MoveCursorKeepsInv DEF KeyPageUp
<1>6. CASE KeyPageDown
  BY <1>6, PageTopRange, MoveCursorKeepsInv DEF KeyPageDown
<1> QED
  BY <1>1, <1>2, <1>3, <1>4, <1>5, <1>6 DEF CursorKey

LEMMA MenuKeysKeepInv ==
    ASSUME Inv, MenuKey
    PROVE  Inv'
PROOF
<1>1. CASE KeyMenu
  BY <1>1 DEF KeyMenu
<1>2. CASE MenuEsc
  BY <1>2, SyncType DEF MenuEsc
<1>3. CASE MenuSave
  BY <1>3 DEF MenuSave, Index
<1>4. CASE MenuQuit
  BY <1>4 DEF MenuQuit, Index
<1> QED
  BY <1>1, <1>2, <1>3, <1>4 DEF MenuKey

(* The block keys: the copied block ends in the buffer, the inserted one   *)
(* and its line end fit behind the text.                                   *)
LEMMA KeyCopyKeepsInv ==
    ASSUME Inv, KeyCopy
    PROVE  Inv'
PROOF
<1>1. MarkedEnd \in Index
  BY LineEndRange DEF MarkedEnd, Index
<1>2. /\ BlockFirst \in Index /\ BlockLen \in Nat
      /\ BlockFirst + BlockLen <= EditBuffSize
  BY <1>1 DEF BlockFirst, BlockLen, Index
<1>3. leftColumn' \in Nat \ {0}
  BY SyncType DEF KeyCopy
<1>4. CASE BlockFits /\ clipboard' = Bytes(textBuffer, BlockFirst, BlockLen)
           /\ blockStartPos' = BlockFirst
  <2>1. clipboard' \in Seq(Chars) /\ Len(clipboard') = BlockLen
    BY <1>2, <1>4, BytesType DEF Index
  <2>2. Len(clipboard') < ClipboardSize - 1
    BY <1>4, <2>1 DEF BlockFits
  <2>3. blockStartPos' \in Index /\ blockStartPos' \in Nat
    BY <1>2, <1>4 DEF Index
  <2>4. /\ selectionModeActive' = FALSE
        /\ UNCHANGED <<text, topIndex, cursorPos, letzterSuchBegriff, fehlerZeile, mode>>
    BY DEF KeyCopy
  <2> QED
    BY <1>3, <2>1, <2>2, <2>3, <2>4 DEF Index
<1>5. CASE UNCHANGED <<clipboard, blockStartPos>>
  BY <1>3, <1>5 DEF KeyCopy
<1> QED
  BY <1>4, <1>5 DEF KeyCopy

LEMMA KeyPasteKeepsInv ==
    ASSUME Inv, KeyPaste
    PROVE  Inv'
PROOF
<1> DEFINE n == Len(clipboard)
           moved == Memmove(textBuffer, cursorPos + n + 1, cursorPos, textLen - cursorPos)
<1>1. CASE CursorInText
  <2>1. n \in Nat /\ textLen + n + 1 < EditBuffSize - 1 /\ cursorPos <= textLen
    BY <1>1 DEF KeyPaste, PasteFits, CursorInText
  <2>2. moved \in [Index -> Chars]
    <3>1. /\ cursorPos + n + 1 \in Nat /\ cursorPos \in Nat /\ textLen - cursorPos \in Int
          /\ cursorPos + (textLen - cursorPos) <= EditBuffSize /\ textBuffer \in [Index -> Chars]
      <4> HIDE DEF n
      <4> QED
        BY <2>1 DEF Index
    <3> QED
      BY ONLY <3>1, MemmoveType
  <2>3. Append(clipboard, NL) \in Seq(Chars)
    BY AppendProperties DEF Chars
  <2>4. textBuffer' \in [Index -> Chars]
    <3> HIDE DEF moved
    <3>1. textBuffer' = Memcpy(moved, cursorPos, Append(clipboard, NL))
      BY <1>1 DEF KeyPaste, moved
    <3> QED
      BY <2>2, <2>3, <3>1, MemcpyType
  <2>5. textLen' = textLen + n + 1 /\ cursorPos' = cursorPos + n + 1
        /\ UNCHANGED <<topIndex, block, letzterSuchBegriff, fehlerZeile, mode>> /\ Sync
    BY <1>1 DEF KeyPaste
  <2> HIDE DEF n, moved
  <2>6. textLen' \in Index /\ cursorPos' \in Index
    BY <2>1, <2>5 DEF Index
  <2>7. leftColumn' \in Nat \ {0}
    BY <2>5, <2>6, SyncType DEF Index
  <2> QED
    BY <2>4, <2>5, <2>6, <2>7 DEF Index
<1>2. CASE ~CursorInText
  BY <1>2 DEF KeyPaste, MemoryFault
<1> QED
  BY <1>1, <1>2

LEMMA BlockKeysKeepInv ==
    ASSUME Inv, BlockKey
    PROVE  Inv'
PROOF
<1>1. CASE KeyMark
  <2>1. blockStartPos' \in Index
    BY <1>1, LineStartRange DEF KeyMark, Index
  <2>2. leftColumn' \in Nat \ {0}
    BY <1>1, SyncType DEF KeyMark
  <2> QED
    BY <1>1, <2>1, <2>2 DEF KeyMark, Index
<1> QED
  BY <1>1, KeyCopyKeepsInv, KeyPasteKeepsInv DEF BlockKey

(* The search: a hit is a position of the text.                            *)
LEMMA HitInText ==
    ASSUME Inv, NEW s \in Seq(PrintableChars), Hits(s) # {}
    PROVE  Min(Hits(s)) \in Index
PROOF
<1>1. ASSUME NEW from \in Nat
      PROVE  MatchesFrom(s, from) \in SUBSET Index
  BY <1>1 DEF MatchesFrom, Index
<1>2. Hits(s) \in SUBSET Index
  BY <1>1 DEF Hits
<1>3. Hits(s) \in SUBSET Nat
  BY <1>2 DEF Index
<1> QED
  BY <1>2, <1>3, MinOfNat

LEMMA SearchKeepsInv ==
    ASSUME Inv, NEW s \in Seq(PrintableChars), Search(s)
    PROVE  Inv'
PROOF
<1>1. CASE Hits(s) # {} /\ cursorPos' = Min(Hits(s))
           /\ topIndex' = ContextTop(textBuffer, cursorPos', SearchContext)
           /\ letzterSuchBegriff' = s
  <2>1. cursorPos' \in Index
    BY <1>1, HitInText
  <2>2. topIndex' \in Index
    BY <1>1, <2>1, ContextTopRange DEF Index
  <2>3. leftColumn' \in Nat \ {0}
    BY <2>1, SyncType DEF Search, Index
  <2> QED
    BY <1>1, <2>1, <2>2, <2>3 DEF Search, Index
<1>2. CASE letzterSuchBegriff' = <<>> /\ UNCHANGED <<cursorPos, topIndex>>
  <2>1. leftColumn' \in Nat \ {0}
    BY <1>2, SyncType DEF Search
  <2> QED
    BY <1>2, <2>1, EmptySeq DEF Search
<1> QED
  BY <1>1, <1>2 DEF Search

LEMMA SearchKeysKeepInv ==
    ASSUME Inv, SearchKey
    PROVE  Inv'
PROOF
<1>1. CASE KeySearch
  BY <1>1 DEF KeySearch
<1>2. CASE AskContinue
  BY <1>2, SearchKeepsInv DEF AskContinue
<1>3. CASE AskNew
  BY <1>3, EmptySeq DEF AskNew
<1>4. CASE SearchCancelled
  BY <1>4, SyncType DEF SearchCancelled
<1>5. ASSUME NEW s \in SearchTerms, InputTerm(s)
      PROVE  Inv'
  BY <1>5, SearchKeepsInv DEF InputTerm
<1> QED
  BY <1>1, <1>2, <1>3, <1>4, <1>5 DEF SearchKey

(* The deleting keys: what is pulled forward lies in the buffer, and the   *)
(* zero byte is written behind the shorter text.                           *)
LEMMA KeyDeleteKeepsInv ==
    ASSUME Inv, KeyDelete
    PROVE  Inv'
PROOF
<1>1. cursorPos < textLen /\ UNCHANGED <<topIndex, letzterSuchBegriff, fehlerZeile, mode>> /\ Sync
  BY DEF KeyDelete
<1>2. CASE DeleteBlock
  <2> DEFINE n == Len(clipboard)
             moved == Memmove(textBuffer, blockStartPos, blockStartPos + n,
                              textLen - (blockStartPos + n))
  <2>1. n \in Nat /\ n > 0 /\ blockStartPos + n <= textLen
    BY <1>2 DEF DeleteBlock, BlockStands
  <2>2. moved \in [Index -> Chars]
    <3> HIDE DEF n
    <3>1. /\ blockStartPos + n \in Nat /\ textLen - (blockStartPos + n) \in Int
          /\ blockStartPos + n + (textLen - (blockStartPos + n)) <= EditBuffSize
      BY <2>1 DEF Index
    <3> QED
      BY <3>1, MemmoveType
  <2>3. textBuffer' = [moved EXCEPT ![textLen - n] = NUL]
    BY <1>2 DEF DeleteBlock
  <2>4. textBuffer' \in [Index -> Chars]
    <3> HIDE DEF moved, n
    <3> QED
      BY <2>2, <2>3 DEF Chars
  <2>5. /\ textLen' = textLen - n /\ cursorPos' = blockStartPos /\ clipboard' = <<>>
        /\ UNCHANGED <<selectionModeActive, blockStartPos>>
    BY <1>2 DEF DeleteBlock
  <2> HIDE DEF n, moved
  <2>6. leftColumn' \in Nat \ {0}
    BY <1>1, <2>5, SyncType
  <2>7. textLen' \in Index /\ textLen' \in Nat
    BY <2>1, <2>5 DEF Index
  <2>8. clipboard' \in Seq(Chars) /\ Len(clipboard') < ClipboardSize - 1
    BY <2>5, EmptySeq
  <2> QED
    BY <1>1, <2>4, <2>5, <2>6, <2>7, <2>8
<1>3. CASE DeleteChar
  <2> DEFINE moved == Memmove(textBuffer, cursorPos, cursorPos + 1, textLen - cursorPos)
  <2>1. moved \in [Index -> Chars]
    <3>1. /\ cursorPos + 1 \in Nat /\ textLen - cursorPos \in Int
          /\ cursorPos + 1 + (textLen - cursorPos) <= EditBuffSize
      BY DEF Index
    <3> QED
      BY <3>1, MemmoveType
  <2>2. textBuffer' = [moved EXCEPT ![textLen - 1] = NUL]
    BY <1>3 DEF DeleteChar
  <2>3. textBuffer' \in [Index -> Chars]
    <3> HIDE DEF moved
    <3> QED
      BY <2>1, <2>2 DEF Chars
  <2> HIDE DEF moved
  <2>4. textLen' = textLen - 1 /\ UNCHANGED <<cursorPos, block>>
    BY <1>3 DEF DeleteChar
  <2>5. leftColumn' \in Nat \ {0}
    BY <1>1, <2>4, SyncType
  <2>6. textLen' \in Index /\ textLen' \in Nat
    BY <1>1, <2>4 DEF Index
  <2> QED
    BY <1>1, <2>3, <2>4, <2>5, <2>6
<1> QED
  BY <1>2, <1>3 DEF KeyDelete

LEMMA KeyBackspaceKeepsInv ==
    ASSUME Inv, KeyBackspace
    PROVE  Inv'
PROOF
<1> DEFINE moved == Memmove(textBuffer, cursorPos - 1, cursorPos, textLen - cursorPos)
<1>1. CASE CursorInText
  <2>1. cursorPos > 0 /\ cursorPos <= textLen
    BY <1>1 DEF KeyBackspace, CursorInText
  <2>2. moved \in [Index -> Chars]
    <3>1. /\ cursorPos - 1 \in Nat /\ textLen - cursorPos \in Int
          /\ cursorPos + (textLen - cursorPos) <= EditBuffSize
      BY <2>1 DEF Index
    <3> QED
      BY <3>1, MemmoveType
  <2>3. textBuffer' = [moved EXCEPT ![textLen - 1] = NUL]
    BY <1>1 DEF KeyBackspace
  <2>4. textBuffer' \in [Index -> Chars]
    <3> HIDE DEF moved
    <3> QED
      BY <2>2, <2>3 DEF Chars
  <2> HIDE DEF moved
  <2>5. /\ cursorPos' = cursorPos - 1 /\ textLen' = textLen - 1
        /\ leftColumn' = ScrollTo(SyncedLeft, Column(textBuffer', cursorPos'))
        /\ UNCHANGED <<topIndex, block, letzterSuchBegriff, fehlerZeile, mode>>
    BY <1>1 DEF KeyBackspace
  <2>6. textLen' \in Index /\ cursorPos' \in Index /\ cursorPos' \in Nat /\ textLen' \in Nat
    BY <2>1, <2>5 DEF Index
  <2>7. leftColumn' \in Nat \ {0}
    BY <2>5, <2>6, ColumnRange, ScrollToRange DEF SyncedLeft
  <2> QED
    BY <2>4, <2>5, <2>6, <2>7
<1>2. CASE ~CursorInText
  BY <1>2 DEF KeyBackspace, MemoryFault
<1> QED
  BY <1>1, <1>2

(* The inserting keys: the guard leaves room for one byte.                 *)
LEMMA InsertedType ==
    ASSUME Inv, CursorInText, textLen < EditBuffSize - 1, NEW c \in Chars
    PROVE  /\ InsertedAtCursor(c) \in [Index -> Chars]
           /\ textLen + 1 \in Index /\ cursorPos + 1 \in Index
PROOF
<1> DEFINE moved == Memmove(textBuffer, cursorPos + 1, cursorPos, textLen - cursorPos)
<1>1. moved \in [Index -> Chars]
  <2>1. /\ cursorPos + 1 \in Nat /\ textLen - cursorPos \in Int
        /\ cursorPos + (textLen - cursorPos) <= EditBuffSize
    BY DEF Index
  <2> QED
    BY <2>1, MemmoveType
<1>2. [moved EXCEPT ![cursorPos] = c] \in [Index -> Chars]
  <2> HIDE DEF moved
  <2> QED
    BY <1>1
<1>3. textLen + 1 \in Index /\ cursorPos + 1 \in Index
  BY DEF CursorInText, Index
<1> QED
  BY <1>2, <1>3 DEF InsertedAtCursor

LEMMA KeyEnterKeepsInv ==
    ASSUME Inv, KeyEnter
    PROVE  Inv'
PROOF
<1>1. CASE CursorInText
  <2>1. /\ textBuffer' = InsertedAtCursor(NL) /\ NL \in Chars
        /\ cursorPos' = cursorPos + 1 /\ textLen' = textLen + 1
        /\ leftColumn' = ScrollTo(1, Column(textBuffer', cursorPos'))
        /\ UNCHANGED <<block, letzterSuchBegriff, fehlerZeile, mode>>
    BY <1>1 DEF KeyEnter, Chars
  <2>2. textBuffer' \in [Index -> Chars] /\ textLen' \in Index /\ cursorPos' \in Index
    BY <1>1, <2>1, InsertedType DEF KeyEnter
  <2>3. cursorPos' \in Nat /\ textLen' \in Nat
    BY <2>1
  <2>4. leftColumn' \in Nat \ {0}
    BY <2>1, <2>3, ColumnRange, ScrollToRange
  <2>5. topIndex' \in Index
    BY <1>1, <2>2, NextLineTopRange DEF KeyEnter
  <2> QED
    BY <2>1, <2>2, <2>3, <2>4, <2>5 DEF Index
<1>2. CASE ~CursorInText
  BY <1>2 DEF KeyEnter, MemoryFault
<1> QED
  BY <1>1, <1>2

LEMMA KeyCharKeepsInv ==
    ASSUME Inv, NEW c \in PrintableChars, KeyChar(c)
    PROVE  Inv'
PROOF
<1>1. CASE CursorInText
  <2>1. /\ textBuffer' = InsertedAtCursor(c) /\ c \in Chars
        /\ cursorPos' = cursorPos + 1 /\ textLen' = textLen + 1
        /\ leftColumn' = ScrollTo(SyncedLeft, Column(textBuffer', cursorPos'))
        /\ UNCHANGED <<topIndex, block, letzterSuchBegriff, fehlerZeile, mode>>
    BY <1>1 DEF KeyChar, Chars
  <2>2. textBuffer' \in [Index -> Chars] /\ textLen' \in Index /\ cursorPos' \in Index
    BY <1>1, <2>1, InsertedType DEF KeyChar
  <2>3. cursorPos' \in Nat /\ textLen' \in Nat
    BY <2>1
  <2>4. leftColumn' \in Nat \ {0}
    BY <2>1, <2>3, ColumnRange, ScrollToRange DEF SyncedLeft
  <2> QED
    BY <2>1, <2>2, <2>3, <2>4
<1>2. CASE ~CursorInText
  BY <1>2 DEF KeyChar, MemoryFault
<1> QED
  BY <1>1, <1>2

LEMMA TextKeysKeepInv ==
    ASSUME Inv, TextKey
    PROVE  Inv'
BY KeyDeleteKeepsInv, KeyBackspaceKeepsInv, KeyEnterKeepsInv, KeyCharKeepsInv DEF TextKey

(* The start values are in range, at the first start and after a fault.    *)
LEMMA InitialValuesInRange ==
    /\ [i \in Index |-> NUL] \in [Index -> Chars]
    /\ 0 \in Index
    /\ \A S : <<>> \in Seq(S) /\ Len(<<>>) = 0
BY EmptySeq DEF Index, Chars

LEMMA InitEstablishesInv == Init => Inv
<1> SUFFICES ASSUME Init PROVE Inv
  OBVIOUS
<1>1. InitialValues(textBuffer, textLen, cursorPos, topIndex, leftColumn,
          selectionModeActive, blockStartPos, clipboard, letzterSuchBegriff, fehlerZeile, mode)
  BY DEF Init
<1>2. clipboard \in Seq(Chars) /\ letzterSuchBegriff \in Seq(PrintableChars)
  BY <1>1, EmptySeq DEF InitialValues
<1>3. Len(clipboard) < ClipboardSize - 1
  BY <1>1, EmptySeq DEF InitialValues
<1>4. textBuffer \in [Index -> Chars] /\ textLen \in Index /\ cursorPos \in Index
      /\ topIndex \in Index /\ blockStartPos \in Index
  BY <1>1, InitialValuesInRange DEF InitialValues
<1>5. textLen \in Nat /\ cursorPos \in Nat /\ topIndex \in Nat /\ blockStartPos \in Nat
      /\ leftColumn \in Nat \ {0} /\ fehlerZeile \in Int
  BY <1>1 DEF InitialValues
<1>6. selectionModeActive \in BOOLEAN /\ mode \in Modes
  BY <1>1 DEF InitialValues, Modes
<1> QED
  BY ONLY <1>2, <1>3, <1>4, <1>5, <1>6 DEF Inv, TypeOK, IndicesInBuffer

LEMMA RestartKeepsInv ==
    ASSUME Inv, Restart
    PROVE  Inv'
PROOF
<1>1. InitialValues(textBuffer', textLen', cursorPos', topIndex', leftColumn',
          selectionModeActive', blockStartPos', clipboard', letzterSuchBegriff',
          fehlerZeile', mode')
  BY DEF Restart
<1>2. clipboard' \in Seq(Chars) /\ letzterSuchBegriff' \in Seq(PrintableChars)
  BY <1>1, EmptySeq DEF InitialValues
<1>3. Len(clipboard') < ClipboardSize - 1
  BY <1>1, EmptySeq DEF InitialValues
<1>4. textBuffer' \in [Index -> Chars] /\ textLen' \in Index /\ cursorPos' \in Index
      /\ topIndex' \in Index /\ blockStartPos' \in Index
  BY <1>1, InitialValuesInRange DEF InitialValues
<1>5. textLen' \in Nat /\ cursorPos' \in Nat /\ topIndex' \in Nat /\ blockStartPos' \in Nat
      /\ leftColumn' \in Nat \ {0} /\ fehlerZeile' \in Int
  BY <1>1 DEF InitialValues
<1>6. selectionModeActive' \in BOOLEAN /\ mode' \in Modes
  BY <1>1 DEF InitialValues, Modes
<1> QED
  BY ONLY <1>2, <1>3, <1>4, <1>5, <1>6 DEF Inv, TypeOK, IndicesInBuffer

LEMMA NextKeepsInv ==
    ASSUME Inv, [Next]_vars
    PROVE  Inv'
PROOF
<1>1. ASSUME NEW doc \in Documents, Open(doc)
      PROVE  Inv'
  BY <1>1, OpenKeepsInv
<1>2. CASE KeyWithoutEffect
  BY <1>2, SyncType DEF KeyWithoutEffect
<1>3. CASE MenuKey
  BY <1>3, MenuKeysKeepInv
<1>4. CASE BlockKey
  BY <1>4, BlockKeysKeepInv
<1>5. CASE SearchKey
  BY <1>5, SearchKeysKeepInv
<1>6. CASE CursorKey
  BY <1>6, CursorKeysKeepInv
<1>7. CASE TextKey
  BY <1>7, TextKeysKeepInv
<1>8. CASE Restart
  BY <1>8, RestartKeepsInv
<1>9. CASE UNCHANGED vars
  BY <1>9 DEF vars
<1> QED
  BY <1>1, <1>2, <1>3, <1>4, <1>5, <1>6, <1>7, <1>8, <1>9 DEF Next

-----------------------------------------------------------------------------
(* The invariant holds in every state the editor can reach.                *)
LEMMA InvHolds == Spec => []Inv
PROOF
<1>1. Init => Inv
  BY InitEstablishesInv
<1>2. Inv /\ [Next]_vars => Inv'
  BY NextKeepsInv
<1> QED
  BY <1>1, <1>2, PTL DEF Spec

(* Whatever files are opened and whatever keys are pressed, every variable *)
(* of the editor keeps its type and leftColumn is never 0.                 *)
THEOREM EditorTypeCorrect == Spec => []TypeOK
PROOF
<1>1. Inv => TypeOK
  OBVIOUS
<1> QED
  BY <1>1, InvHolds, PTL

(* Whatever files are opened and whatever keys are pressed, no position of *)
(* the editor leaves textBuffer and no block overflows clipboardBuffer.    *)
THEOREM EditorMemorySafe == Spec => []IndicesInBuffer
PROOF
<1>1. Inv => IndicesInBuffer
  OBVIOUS
<1> QED
  BY <1>1, InvHolds, PTL

-----------------------------------------------------------------------------
(* What a single key may do. *)

HIDE DEF Inv, TypeOK, IndicesInBuffer, Modes, text, view, block

(* While the user is asked whether to go on there is a term to go on with. *)
TermAsked == mode = "ask" => letzterSuchBegriff # <<>>

StepInv == Inv /\ TermAsked

LEMMA NextKeepsTermAsked ==
    ASSUME TermAsked, [Next]_vars
    PROVE  TermAsked'
<1> USE DEF TermAsked, text, view, block
<1>1. ASSUME NEW doc \in Documents, Open(doc)
      PROVE  TermAsked'
  BY <1>1 DEF Open
<1>2. CASE KeyWithoutEffect
  BY <1>2 DEF KeyWithoutEffect
<1>3. CASE MenuKey
  BY <1>3 DEF MenuKey, KeyMenu, MenuEsc, MenuSave, MenuQuit
<1>4. CASE BlockKey
  BY <1>4 DEF BlockKey, KeyMark, KeyCopy, KeyPaste, MemoryFault
<1>5. CASE SearchKey
  BY <1>5 DEF SearchKey, KeySearch, AskContinue, AskNew, SearchCancelled, InputTerm, Search
<1>6. CASE CursorKey
  BY <1>6 DEF CursorKey, KeyUp, KeyDown, KeyLeft, KeyRight, KeyPageUp, KeyPageDown, MoveCursor
<1>7. CASE TextKey
  BY <1>7 DEF TextKey, KeyDelete, KeyEnter, KeyBackspace, KeyChar, MemoryFault
<1>8. CASE Restart
  BY <1>8 DEF Restart, InitialValues
<1>9. CASE UNCHANGED vars
  BY <1>9 DEF vars
<1> QED
  BY <1>1, <1>2, <1>3, <1>4, <1>5, <1>6, <1>7, <1>8, <1>9 DEF Next

LEMMA StepInvHolds == Spec => []StepInv
<1>1. Init => TermAsked
  BY DEF Init, InitialValues, TermAsked
<1>2. TermAsked /\ [Next]_vars => TermAsked'
  BY NextKeepsTermAsked
<1> QED
  BY <1>1, <1>2, InvHolds, PTL DEF Spec, StepInv

-----------------------------------------------------------------------------
(* The window follows the cursor to the left and to the right. *)

(* The scroll check puts column x into the window.                         *)
LEMMA ScrollToShows ==
    ASSUME NEW left \in Nat \ {0}, NEW x \in Nat \ {0}
    PROVE  ScrollTo(left, x) <= x /\ x < ScrollTo(left, x) + MaxC
BY DEF ScrollTo

CursorShown ==
    /\ leftColumn' <= Column(textBuffer', cursorPos')
    /\ Column(textBuffer', cursorPos') < leftColumn' + MaxC

LEMMA SyncShows ==
    ASSUME Inv, Inv', Sync
    PROVE  CursorShown
<1> DEFINE x == Column(textBuffer', cursorPos')
<1>1. leftColumn \in Nat \ {0} /\ cursorPos' \in Nat
  BY DEF Inv, TypeOK
<1>2. x \in Nat \ {0}
  BY <1>1, ColumnRange
<1>3. leftColumn' = ScrollTo(leftColumn, x)
  BY DEF Sync
<1> HIDE DEF x
<1>4. leftColumn' <= x /\ x < leftColumn' + MaxC
  BY ONLY ScreenAssumption, <1>1, <1>2, <1>3, ScrollToShows
<1> QED
  BY <1>4 DEF CursorShown, x

(* The inserting keys check twice, Enter from the first column.            *)
LEMMA EditShows ==
    ASSUME Inv, Inv', NEW left \in Nat \ {0},
           leftColumn' = ScrollTo(left, Column(textBuffer', cursorPos'))
    PROVE  CursorShown
<1> DEFINE x == Column(textBuffer', cursorPos')
<1>1. cursorPos' \in Nat
  BY DEF Inv, TypeOK
<1>2. x \in Nat \ {0}
  BY <1>1, ColumnRange
<1>3. leftColumn' = ScrollTo(left, x)
  OBVIOUS
<1> HIDE DEF x
<1>4. leftColumn' <= x /\ x < leftColumn' + MaxC
  BY ONLY ScreenAssumption, <1>2, <1>3, ScrollToShows
<1> QED
  BY <1>4 DEF CursorShown, x

LEMMA EditKeysShow ==
    ASSUME Inv, Inv', mode' = "edit",
           KeyEnter \/ KeyBackspace \/ \E c \in PrintableChars : KeyChar(c)
    PROVE  CursorShown
<1>1. SyncedLeft \in Nat \ {0}
  BY ColumnRange, ScrollToRange DEF SyncedLeft, Inv, TypeOK
<1>2. CASE KeyEnter
  <2>1. leftColumn' = ScrollTo(1, Column(textBuffer', cursorPos'))
    BY <1>2 DEF KeyEnter, MemoryFault
  <2>2. 1 \in Nat \ {0}
    OBVIOUS
  <2> QED
    BY <2>1, <2>2, EditShows
<1>3. CASE KeyBackspace
  <2>1. leftColumn' = ScrollTo(SyncedLeft, Column(textBuffer', cursorPos'))
    BY <1>3 DEF KeyBackspace, MemoryFault
  <2> QED
    BY <1>1, <2>1, EditShows
<1>4. CASE \E c \in PrintableChars : KeyChar(c)
  <2>1. leftColumn' = ScrollTo(SyncedLeft, Column(textBuffer', cursorPos'))
    BY <1>4 DEF KeyChar, MemoryFault
  <2> QED
    BY <1>1, <2>1, EditShows
<1> QED
  BY <1>2, <1>3, <1>4

(* After every key of a session the cursor's column lies in the window:    *)
(* every path of the main loop ends with a scroll check, and the check     *)
(* suffices whatever column the cursor jumped to.                          *)
THEOREM EditorColumnVisible == Spec => ColumnVisible
<1>1. ASSUME Inv, Inv', [Next]_vars, mode # "prompt", mode' = "edit"
      PROVE  CursorShown \/ UNCHANGED vars
  <2> USE <1>1
  <2>1. ASSUME Sync
        PROVE  CursorShown
    BY <2>1, SyncShows
  <2>2. ASSUME NEW doc \in Documents, Open(doc)
        PROVE  FALSE
    BY <2>2 DEF Open
  <2>3. CASE KeyWithoutEffect
    BY <2>1, <2>3 DEF KeyWithoutEffect
  <2>4. CASE MenuKey
    BY <2>1, <2>4 DEF MenuKey, KeyMenu, MenuEsc, MenuSave, MenuQuit
  <2>5. CASE BlockKey
    BY <2>1, <2>5 DEF BlockKey, KeyMark, KeyCopy, KeyPaste, MemoryFault
  <2>6. CASE SearchKey
    BY <2>1, <2>6 DEF SearchKey, KeySearch, AskContinue, AskNew, SearchCancelled, InputTerm, Search
  <2>7. CASE CursorKey
    BY <2>1, <2>7 DEF CursorKey, KeyUp, KeyDown, KeyLeft, KeyRight, KeyPageUp, KeyPageDown, MoveCursor
  <2>8. CASE TextKey
    <3>1. CASE KeyDelete
      BY <2>1, <3>1 DEF KeyDelete
    <3> QED
      BY <2>8, <3>1, EditKeysShow DEF TextKey
  <2>9. CASE Restart
    BY <2>9 DEF Restart, InitialValues
  <2> QED
    BY <2>2, <2>3, <2>4, <2>5, <2>6, <2>7, <2>8, <2>9 DEF Next
<1>2. Inv /\ Inv' /\ [Next]_vars
        => [mode # "prompt" /\ mode' = "edit" => CursorShown]_vars
  BY <1>1
<1>3. [mode # "prompt" /\ mode' = "edit" => CursorShown]_vars
        => [mode # "prompt" /\ mode' = "edit"
              => LET x == Column(textBuffer', cursorPos')
                 IN  leftColumn' <= x /\ x < leftColumn' + MaxC]_vars
  BY DEF CursorShown
<1> QED
  BY <1>2, <1>3, InvHolds, PTL DEF Spec, ColumnVisible

-----------------------------------------------------------------------------
(* Only a page key takes the cursor behind the text. *)

KeepsCursorInText == textLen >= cursorPos => textLen' >= cursorPos'

LEMMA KeyUpInText ==
    ASSUME Inv, KeyUp
    PROVE  KeepsCursorInText
<1> DEFINE here  == LineStart(textBuffer, cursorPos)
           above == LineStart(textBuffer, here - 1)
           len   == here - 1 - above
           p     == IF cursorPos - here > len THEN above + len ELSE above + (cursorPos - here)
<1>1. cursorPos \in Nat /\ textLen \in Nat
  BY DEF Inv, TypeOK
<1>2. here \in 0 .. cursorPos /\ here > 0
  BY <1>1, LineStartRange DEF KeyUp
<1>3. above \in 0 .. here - 1
  <2> HIDE DEF here
  <2> QED
    BY <1>1, <1>2, LineStartRange
<1>4. cursorPos' = p /\ textLen' = textLen
  BY DEF KeyUp, MoveCursor, text
<1>5. p <= cursorPos
  <2> HIDE DEF here, above
  <2> QED
    BY <1>1, <1>2, <1>3
<1>6. p \in Nat
  <2> HIDE DEF here, above
  <2> QED
    BY <1>1, <1>2, <1>3
<1> HIDE DEF p
<1> QED
  BY <1>1, <1>4, <1>5, <1>6 DEF KeepsCursorInText

LEMMA KeyDownInText ==
    ASSUME Inv, KeyDown
    PROVE  KeepsCursorInText
<1> DEFINE end   == LineEnd(textBuffer, textLen, cursorPos)
           below == end + 1
           len   == LineEnd(textBuffer, textLen, below) - below
           col   == cursorPos - LineStart(textBuffer, cursorPos)
           p     == IF col > len THEN below + len ELSE below + col
<1>0. cursorPos \in Nat /\ textLen \in Nat
  BY DEF Inv, TypeOK
<1>1. end \in Nat /\ end < textLen
  BY <1>0, LineEndRange DEF KeyDown
<1>2. len \in Nat /\ below + len <= textLen
  <2> HIDE DEF end
  <2>1. below \in Nat /\ below <= textLen
    BY <1>0, <1>1
  <2> HIDE DEF below
  <2> QED
    BY <1>0, <2>1, LineEndRange
<1>3. col \in Nat
  BY <1>0, LineStartRange
<1>4. p \in Nat /\ p <= textLen
  <2> HIDE DEF end, len, col
  <2> QED
    BY <1>0, <1>1, <1>2, <1>3
<1>5. cursorPos' = p /\ textLen' = textLen
  BY DEF KeyDown, MoveCursor, text
<1> HIDE DEF p
<1> QED
  BY <1>0, <1>4, <1>5 DEF KeepsCursorInText

(* A hit of the search is a whole term inside the text.                    *)
LEMMA SearchInText ==
    ASSUME Inv, NEW s \in Seq(PrintableChars), Search(s)
    PROVE  KeepsCursorInText
<1>1. textLen \in Nat /\ Len(s) \in Nat /\ cursorPos \in Nat
  BY DEF Inv, TypeOK
<1>2. CASE Hits(s) # {} /\ cursorPos' = Min(Hits(s))
  <2>1. ASSUME NEW from \in Nat
        PROVE  MatchesFrom(s, from) \in SUBSET (0 .. textLen)
    BY <1>1, <2>1 DEF MatchesFrom
  <2>2. Hits(s) \in SUBSET (0 .. textLen)
    BY <1>1, <2>1 DEF Hits
  <2>3. Hits(s) \in SUBSET Nat
    BY <1>1, <2>2
  <2>4. Min(Hits(s)) \in Hits(s)
    BY <1>2, <2>3, MinOfNat
  <2>5. cursorPos' \in 0 .. textLen /\ textLen' = textLen
    BY <1>2, <2>2, <2>4 DEF Search, text
  <2> QED
    BY <1>1, <2>5 DEF KeepsCursorInText
<1>3. CASE cursorPos' = cursorPos
  BY <1>3 DEF Search, text, KeepsCursorInText
<1> QED
  BY <1>2, <1>3 DEF Search

LEMMA TextKeysInText ==
    ASSUME Inv, TextKey \/ KeyPaste
    PROVE  KeepsCursorInText
<1>1. cursorPos \in Nat /\ textLen \in Nat /\ blockStartPos \in Nat /\ Len(clipboard) \in Nat
  BY DEF Inv, TypeOK
<1>2. CASE KeyDelete
  BY <1>1, <1>2 DEF KeyDelete, DeleteBlock, BlockStands, DeleteChar, KeepsCursorInText
<1>3. CASE KeyEnter
  BY <1>1, <1>3 DEF KeyEnter, MemoryFault, text, KeepsCursorInText
<1>4. CASE KeyBackspace
  BY <1>1, <1>4 DEF KeyBackspace, MemoryFault, text, KeepsCursorInText
<1>5. CASE \E c \in PrintableChars : KeyChar(c)
  BY <1>1, <1>5 DEF KeyChar, MemoryFault, text, KeepsCursorInText
<1>6. CASE KeyPaste
  BY <1>1, <1>6 DEF KeyPaste, MemoryFault, text, KeepsCursorInText
<1> QED
  BY <1>2, <1>3, <1>4, <1>5, <1>6 DEF TextKey

(* A page key that leaves the text did not find a line start to go to, or  *)
(* found one above a window that stands behind the text.                   *)
LEMMA PageKeysLeaveAtTop ==
    ASSUME Inv, KeyPageUp \/ KeyPageDown, cursorPos' > textLen'
    PROVE  textLen < topIndex /\ cursorPos' = topIndex'
<1>1. textLen \in Nat /\ topIndex \in Nat /\ textLen' = textLen /\ cursorPos' = topIndex'
  BY DEF Inv, TypeOK, KeyPageUp, KeyPageDown, MoveCursor, text
<1>2. CASE KeyPageUp
  <2> DEFINE S == {q \in 0 .. topIndex - 1 : q = 0 \/ textBuffer[q - 1] = NL}
             T == {q \in S : Cardinality({r \in S : r > q}) < PageLines}
  <2>1. cursorPos' = PageUpTop
    BY <1>2 DEF KeyPageUp, MoveCursor
  <2>2. PageUpTop \in 0 .. topIndex
    <3>1. CASE S = {}
      BY <1>1, <3>1 DEF PageUpTop
    <3>2. CASE S # {}
      <4>1. S \in SUBSET (0 .. topIndex)
        BY <1>1
      <4>2. PageUpTop = Min(T)
        BY <3>2 DEF PageUpTop
      <4>3. T # {}
        <5>1. Max(S) \in S /\ \A x \in S : x <= Max(S)
          <6> HIDE DEF S
          <6> QED
            BY <1>1, <3>2, <4>1, MaxOfBounded
        <5>2. {r \in S : r > Max(S)} = {}
          <6> DEFINE m == Max(S)
          <6> HIDE DEF S, m
          <6>1. m \in S /\ \A r \in S : r \in Nat /\ r <= m
            BY <1>1, <4>1, <5>1 DEF m
          <6> QED
            BY ONLY <6>1 DEF m
        <5>3. Cardinality({r \in S : r > Max(S)}) = 0
          BY ONLY <5>2, FS_EmptySet
        <5>4. Cardinality({r \in S : r > Max(S)}) < PageLines
          BY <5>3
        <5> HIDE DEF S
        <5> QED
          BY <5>1, <5>4
      <4>4. T \in SUBSET Nat /\ T \subseteq S
        BY <1>1
      <4> HIDE DEF S, T
      <4> QED
        BY <4>1, <4>2, <4>3, <4>4, MinOfNat
    <3> QED
      BY <3>1, <3>2
  <2>3. PageUpTop <= topIndex /\ PageUpTop \in Nat
    BY <1>1, <2>2
  <2> QED
    BY <1>1, <2>1, <2>3
<1>3. CASE KeyPageDown
  <2> DEFINE S == {q \in topIndex + 1 .. textLen : textBuffer[q - 1] = NL}
             T == {q \in S : Cardinality({r \in S : r < q}) < PageLines}
  <2>1. cursorPos' = PageDownTop
    BY <1>3 DEF KeyPageDown, MoveCursor
  <2>2. PageDownTop = topIndex \/ PageDownTop \in 0 .. textLen
    <3>1. CASE S = {}
      BY <1>1, <3>1 DEF PageDownTop
    <3>2. CASE S # {}
      <4>1. S \in SUBSET Nat
        BY <1>1
      <4>2. PageDownTop = Max(T)
        BY <3>2 DEF PageDownTop
      <4>3. T # {}
        <5>1. Min(S) \in S /\ \A x \in S : Min(S) <= x
          <6> HIDE DEF S
          <6> QED
            BY <1>1, <3>2, <4>1, MinOfNat
        <5>2. {r \in S : r < Min(S)} = {}
          <6> DEFINE m == Min(S)
          <6> HIDE DEF S, m
          <6>1. m \in S /\ \A r \in S : r \in Nat /\ m <= r
            BY <1>1, <4>1, <5>1 DEF m
          <6> QED
            BY ONLY <6>1 DEF m
        <5>3. Cardinality({r \in S : r < Min(S)}) = 0
          BY ONLY <5>2, FS_EmptySet
        <5>4. Cardinality({r \in S : r < Min(S)}) < PageLines
          BY <5>3
        <5> HIDE DEF S
        <5> QED
          BY <5>1, <5>4
      <4>4. T \in SUBSET (0 .. textLen)
        BY <1>1
      <4> HIDE DEF S, T
      <4> QED
        BY <1>1, <4>2, <4>3, <4>4, MaxOfBounded
    <3> QED
      BY <3>1, <3>2
  <2> QED
    BY <1>1, <2>1, <2>2
<1> QED
  BY <1>2, <1>3

(* No key but the page keys takes the cursor from inside the text to       *)
(* behind its end, and these only when the window stands there already.    *)
THEOREM EditorOnlyPageKeysLeave == Spec => OnlyPageKeysLeaveText
<1>1. ASSUME Inv, [Next]_vars, cursorPos <= textLen, cursorPos' > textLen'
      PROVE  textLen < topIndex /\ cursorPos' = topIndex'
  <2> USE <1>1
  <2>0. cursorPos \in Nat /\ textLen \in Nat
    BY DEF Inv, TypeOK
  <2>1. ASSUME KeepsCursorInText, Inv'
        PROVE  FALSE
    <3>1. cursorPos' \in Nat /\ textLen' \in Nat
      BY <2>1 DEF Inv, TypeOK
    <3> QED
      BY <2>0, <2>1, <3>1 DEF KeepsCursorInText
  <2>2. Inv'
    BY NextKeepsInv
  <2>3. ASSUME NEW doc \in Documents, Open(doc)
        PROVE  FALSE
    <3>1. Len(Loaded(doc)) \in Nat /\ textLen' = Len(Loaded(doc))
      BY <2>3, LoadedType DEF Open
    <3>2. cursorPos' = IF fehlerZeile > 1
                       THEN StartOfLine(textBuffer', textLen', fehlerZeile) ELSE 0
      BY <2>3 DEF Open
    <3>3. cursorPos' \in 0 .. textLen'
      BY <3>1, <3>2, StartOfLineRange
    <3> QED
      BY <3>1, <3>3
  <2>4. CASE MenuKey \/ KeyWithoutEffect
    <3>1. KeepsCursorInText
      BY <2>0, <2>4 DEF MenuKey, KeyMenu, MenuEsc, MenuSave, MenuQuit, KeyWithoutEffect, text, KeepsCursorInText
    <3> QED
      BY <2>1, <2>2, <3>1
  <2>5. CASE BlockKey
    <3>1. CASE KeyPaste
      BY <2>1, <2>2, <3>1, TextKeysInText
    <3>2. CASE KeyMark \/ KeyCopy
      <4>1. KeepsCursorInText
        BY <3>2 DEF KeyMark, KeyCopy, text, KeepsCursorInText
      <4> QED
        BY <2>1, <2>2, <4>1
    <3> QED
      BY <2>5, <3>1, <3>2 DEF BlockKey
  <2>6. CASE SearchKey
    <3>1. ASSUME NEW s \in Seq(PrintableChars), Search(s)
          PROVE  FALSE
      BY <2>1, <2>2, <3>1, SearchInText
    <3>2. AskContinue => \E s \in Seq(PrintableChars) : Search(s)
      BY DEF AskContinue, Inv, TypeOK
    <3>3. (\E s \in SearchTerms : InputTerm(s)) => \E s \in Seq(PrintableChars) : Search(s)
      BY DEF InputTerm
    <3>4. CASE KeySearch \/ AskNew \/ SearchCancelled
      <4>1. KeepsCursorInText
        BY <3>4 DEF KeySearch, AskNew, SearchCancelled, text, KeepsCursorInText
      <4> QED
        BY <2>1, <2>2, <4>1
    <3> QED
      BY <2>6, <3>1, <3>2, <3>3, <3>4 DEF SearchKey
  <2>7. CASE CursorKey
    <3>1. CASE KeyUp
      BY <2>1, <2>2, <3>1, KeyUpInText
    <3>2. CASE KeyDown
      BY <2>1, <2>2, <3>2, KeyDownInText
    <3>3. CASE KeyLeft \/ KeyRight
      <4>1. KeepsCursorInText
        BY <2>0, <3>3 DEF KeyLeft, KeyRight, MoveCursor, text, KeepsCursorInText
      <4> QED
        BY <2>1, <2>2, <4>1
    <3>4. CASE KeyPageUp \/ KeyPageDown
      BY <3>4, PageKeysLeaveAtTop
    <3> QED
      BY <2>7, <3>1, <3>2, <3>3, <3>4 DEF CursorKey
  <2>8. CASE TextKey
    BY <2>1, <2>2, <2>8, TextKeysInText
  <2>9. CASE Restart \/ UNCHANGED vars
    BY <2>0, <2>9 DEF Restart, InitialValues, vars, text
  <2> QED
    BY <2>3, <2>4, <2>5, <2>6, <2>7, <2>8, <2>9 DEF Next
<1>2. Inv /\ [Next]_vars
        => [cursorPos <= textLen /\ cursorPos' > textLen'
              => textLen < topIndex /\ cursorPos' = topIndex']_vars
  BY <1>1
<1> QED
  BY <1>2, InvHolds, PTL DEF Spec, OnlyPageKeysLeaveText

-----------------------------------------------------------------------------
(* The search goes to the next hit. *)

NextHit(s) ==
    LET hits == MatchesFrom(s, 0)
        between == IF cursorPos' > cursorPos
                   THEN {q \in hits : cursorPos < q /\ q < cursorPos'}
                   ELSE {q \in hits : q < cursorPos' \/ cursorPos < q}
    IN  /\ hits # {} => cursorPos' \in hits /\ between = {}
        /\ Cardinality(hits) >= 2 => cursorPos' # cursorPos

(* The hits from a position on are those of the text that are not before it. *)
LEMMA MatchesFromPosition ==
    ASSUME NEW s \in Seq(PrintableChars), NEW from \in Nat, textLen \in Nat
    PROVE  MatchesFrom(s, from) = {q \in MatchesFrom(s, 0) : q >= from}
<1>1. Len(s) \in Nat
  OBVIOUS
<1>2. ASSUME NEW q
      PROVE  q \in from .. textLen - Len(s) <=> q \in 0 .. textLen - Len(s) /\ q >= from
  BY <1>1
<1> QED
  BY <1>2 DEF MatchesFrom

LEMMA SearchNext ==
    ASSUME Inv, NEW s \in Seq(PrintableChars), s # <<>>, cursorPos < textLen, Search(s)
    PROVE  NextHit(s)
<1> DEFINE hits == MatchesFrom(s, 0)
           next == IF cursorPos + 1 < textLen THEN MatchesFrom(s, cursorPos + 1) ELSE {}
<1>1. cursorPos \in Nat /\ textLen \in Nat /\ Len(s) \in Nat /\ Len(s) > 0
  BY EmptySeq DEF Inv, TypeOK
<1>2. hits \in SUBSET Nat /\ \A q \in hits : q < textLen
  BY <1>1 DEF MatchesFrom
<1>3. next = {q \in hits : cursorPos < q}
  <2>1. CASE cursorPos + 1 < textLen
    <3>1. next = {q \in hits : q >= cursorPos + 1}
      BY <1>1, <2>1, MatchesFromPosition
    <3> HIDE DEF hits, next
    <3>2. \A q \in hits : q >= cursorPos + 1 <=> cursorPos < q
      BY ONLY <1>1, <1>2
    <3> QED
      BY ONLY <3>1, <3>2
  <2>2. CASE ~(cursorPos + 1 < textLen)
    <3>1. next = {}
      BY <2>2
    <3> HIDE DEF hits, next
    <3>2. \A q \in hits : ~(cursorPos < q)
      BY ONLY <1>1, <1>2, <2>2
    <3> QED
      BY ONLY <3>1, <3>2
  <2> QED
    BY <2>1, <2>2
<1>4. Hits(s) = IF next # {} THEN next ELSE hits
  BY DEF Hits
<1>5. Hits(s) # {} => cursorPos' = Min(Hits(s))
  BY DEF Search
<1> HIDE DEF hits, next
<1>6. CASE hits = {}
  <2>1. Cardinality(hits) = 0
    BY <1>6, FS_EmptySet
  <2> QED
    BY <1>6, <2>1 DEF NextHit, hits
<1>7. CASE next # {}
  <2>1. cursorPos' \in next /\ \A q \in next : cursorPos' <= q
    BY <1>2, <1>3, <1>4, <1>5, <1>7, MinOfNat
  <2>2. cursorPos' \in hits /\ cursorPos' \in Nat /\ cursorPos < cursorPos'
    BY <1>2, <1>3, <2>1
  <2>3. {q \in hits : cursorPos < q /\ q < cursorPos'} = {}
    <3> SUFFICES ASSUME NEW q \in hits, cursorPos < q, q < cursorPos'
                 PROVE  FALSE
      OBVIOUS
    <3>1. q \in next /\ q \in Nat
      BY <1>2, <1>3
    <3> QED
      BY ONLY <2>1, <2>2, <3>1, q < cursorPos'
  <2>4. cursorPos' # cursorPos /\ cursorPos' > cursorPos
    BY <1>1, <2>2
  <2> QED
    BY <2>2, <2>3, <2>4 DEF NextHit, hits
<1>8. CASE next = {} /\ hits # {}
  <2>1. cursorPos' \in hits /\ \A q \in hits : cursorPos' <= q
    BY <1>2, <1>4, <1>5, <1>8, MinOfNat
  <2>2. \A q \in hits : q \in Nat /\ q <= cursorPos
    BY <1>1, <1>2, <1>3, <1>8
  <2>3. cursorPos' \in Nat /\ ~(cursorPos' > cursorPos)
    BY <1>1, <2>1, <2>2
  <2>4. {q \in hits : q < cursorPos' \/ cursorPos < q} = {}
    <3> SUFFICES ASSUME NEW q \in hits
                 PROVE  ~(q < cursorPos' \/ cursorPos < q)
      OBVIOUS
    <3> QED
      BY ONLY <1>1, <2>1, <2>2, <2>3
  <2>5. ASSUME cursorPos' = cursorPos
        PROVE  ~(Cardinality(hits) >= 2)
    <3>1. \A q \in hits : q = cursorPos
      BY <1>1, <2>1, <2>2, <2>5
    <3>2. hits = {cursorPos}
      BY <2>1, <2>5, <3>1
    <3>3. Cardinality(hits) = 1
      BY <3>2, FS_Singleton
    <3> QED
      BY <3>3
  <2> QED
    BY <2>1, <2>3, <2>4, <2>5 DEF NextHit, hits
<1> QED
  BY <1>6, <1>7, <1>8

(* "Weitersuchen" goes to the cyclically next hit: it skips none, and with *)
(* two hits in the text it never stays where it is.                        *)
THEOREM EditorSearchNext == Spec => SearchVisitsNextHit
<1>1. StepInv => (AskContinue /\ cursorPos < textLen => NextHit(letzterSuchBegriff))
  BY SearchNext DEF StepInv, TermAsked, AskContinue, Inv, TypeOK
<1>2. StepInv => [AskContinue /\ cursorPos < textLen => NextHit(letzterSuchBegriff)]_vars
  BY <1>1
<1> QED
  BY <1>2, StepInvHolds, PTL DEF Spec, SearchVisitsNextHit, NextHit

-----------------------------------------------------------------------------
(* The window follows the cursor up and down. *)

(* The line ends between two positions are finitely many, none is between  *)
(* the start of a line and a position on it.                               *)
LEMMA LineEndsFinite ==
    ASSUME NEW b, NEW from \in Nat, NEW to \in Nat
    PROVE  /\ IsFiniteSet(LineEndsIn(b, from, to))
           /\ Cardinality(LineEndsIn(b, from, to)) \in Nat
<1>1. IsFiniteSet(from .. to - 1)
  BY FS_Interval
<1> QED
  BY <1>1, FS_Subset, FS_CardinalityType DEF LineEndsIn

LEMMA LineStartExact ==
    ASSUME NEW b, NEW p \in Nat
    PROVE  /\ LineStart(b, p) \in 0 .. p
           /\ LineEndsIn(b, LineStart(b, p), p) = {}
           /\ LineStart(b, p) > 0 => b[LineStart(b, p) - 1] = NL
<1> DEFINE S == {q \in 0 .. p : q = 0 \/ b[q - 1] = NL}
           m == Max(S)
<1>1. S \in SUBSET (0 .. p) /\ 0 \in S
  OBVIOUS
<1>2. m \in S /\ \A q \in S : q <= m
  <2> HIDE DEF S
  <2> QED
    BY <1>1, MaxOfBounded
<1>3. m \in 0 .. p /\ (m > 0 => b[m - 1] = NL)
  <2> HIDE DEF m
  <2> QED
    BY <1>2
<1>4. ASSUME NEW q \in m .. p - 1, b[q] = NL
      PROVE  FALSE
  <2> HIDE DEF m
  <2>1. q + 1 \in 0 .. p /\ (q + 1) - 1 = q
    BY <1>3
  <2>2. q + 1 \in S
    BY <1>4, <2>1
  <2> QED
    BY <1>2, <1>3, <2>2
<1>5. LineStart(b, p) = m
  BY DEF LineStart
<1> HIDE DEF m
<1> QED
  BY <1>3, <1>4, <1>5 DEF LineEndsIn

LEMMA LineEndExact ==
    ASSUME NEW b, NEW n \in Nat, NEW p \in Nat, p <= n
    PROVE  /\ LineEnd(b, n, p) \in p .. n
           /\ LineEndsIn(b, p, LineEnd(b, n, p)) = {}
           /\ LineEnd(b, n, p) < n => b[LineEnd(b, n, p)] = NL
<1> DEFINE last == IF p < n THEN n ELSE p
           S == {q \in p .. last : q >= n \/ b[q] = NL}
           m == Min(S)
<1>1. S \in SUBSET Nat /\ n \in S
  OBVIOUS
<1>2. m \in S /\ \A q \in S : m <= q
  <2> HIDE DEF S
  <2> QED
    BY <1>1, MinOfNat
<1>3. m \in p .. n /\ (m < n => b[m] = NL)
  <2> HIDE DEF m
  <2> QED
    BY <1>2
<1>4. ASSUME NEW q \in p .. m - 1, b[q] = NL
      PROVE  FALSE
  <2> HIDE DEF m
  <2>1. q \in p .. last
    BY <1>3
  <2>2. q \in S
    BY <1>4, <2>1
  <2> QED
    BY <1>2, <1>3, <2>2
<1>5. LineEnd(b, n, p) = m
  BY DEF LineEnd
<1> HIDE DEF m
<1> QED
  BY <1>3, <1>4, <1>5 DEF LineEndsIn

(* Stepping over a line end: the row is one further down, and leaving the  *)
(* first line of the window makes up for it.                               *)
LEMMA OneLineFurther ==
    ASSUME NEW b, NEW n \in Nat, NEW top \in Nat, NEW p \in Nat, NEW e \in Nat,
           top <= e, e < p, e < n, b[e] = NL
    PROVE  /\ NextLineTop(b, n, top) \in top + 1 .. e + 1
           /\ VgaRow(b, NextLineTop(b, n, top), p) = VgaRow(b, top, p) - 1
<1> DEFINE f == LineEnd(b, n, top)
<1>1. f \in top .. n /\ LineEndsIn(b, top, f) = {} /\ (f < n => b[f] = NL)
  BY LineEndExact
<1> HIDE DEF f
<1>2. f <= e /\ f \in Nat
  <2> SUFFICES ASSUME e < f
               PROVE  FALSE
    BY <1>1
  <2>1. e \in top .. f - 1
    BY <1>1
  <2> QED
    BY <1>1, <2>1 DEF LineEndsIn
<1>3. NextLineTop(b, n, top) = f + 1 /\ b[f] = NL /\ f < p
  BY <1>1, <1>2 DEF NextLineTop, f
<1>4. LineEndsIn(b, f + 1, p) = LineEndsIn(b, top, p) \ {f}
  <2>1. ASSUME NEW q \in top .. p - 1, b[q] = NL
        PROVE  q >= f
    <3> SUFFICES ASSUME q < f
                 PROVE  FALSE
      BY <1>2
    <3>1. q \in top .. f - 1
      BY <1>2
    <3> QED
      BY <1>1, <2>1, <3>1 DEF LineEndsIn
  <2> QED
    BY <1>1, <1>2, <2>1 DEF LineEndsIn
<1>5. f \in LineEndsIn(b, top, p)
  BY <1>1, <1>3 DEF LineEndsIn
<1>6. Cardinality(LineEndsIn(b, top, p) \ {f}) = Cardinality(LineEndsIn(b, top, p)) - 1
  BY <1>5, LineEndsFinite, FS_RemoveElement
<1>7. Cardinality(LineEndsIn(b, top, p)) \in Nat
  BY LineEndsFinite
<1> DEFINE t == NextLineTop(b, n, top)
<1>8. VgaRow(b, t, p) = 2 + Cardinality(LineEndsIn(b, top, p) \ {f})
  BY <1>3, <1>4 DEF VgaRow
<1>9. VgaRow(b, top, p) = 2 + Cardinality(LineEndsIn(b, top, p))
  BY DEF VgaRow
<1>10. t \in top + 1 .. e + 1
  BY <1>1, <1>2, <1>3
<1> HIDE DEF t
<1> QED
  BY <1>6, <1>7, <1>8, <1>9, <1>10 DEF t

RowKept == RowVisible(textBuffer, topIndex, cursorPos)
               => RowVisible(textBuffer', topIndex', cursorPos')

LEMMA KeyUpKeepsRow ==
    ASSUME Inv, KeyUp
    PROVE  RowKept
<1> DEFINE here  == LineStart(textBuffer, cursorPos)
           above == LineStart(textBuffer, here - 1)
           len   == here - 1 - above
           p     == IF cursorPos - here > len THEN above + len ELSE above + (cursorPos - here)
<1>1. cursorPos \in Nat /\ topIndex \in Nat
  BY DEF Inv, TypeOK
<1>2. here \in 0 .. cursorPos /\ here > 0
  BY <1>1, LineStartRange DEF KeyUp
<1>3. above \in 0 .. here - 1 /\ LineEndsIn(textBuffer, above, here - 1) = {}
  <2> HIDE DEF here
  <2> QED
    BY <1>1, <1>2, LineStartExact
<1>4. /\ cursorPos' = p /\ textBuffer' = textBuffer
      /\ topIndex' = IF p < topIndex THEN above ELSE topIndex
  BY DEF KeyUp, MoveCursor, text
<1>5. p \in above .. here - 1 /\ p <= cursorPos
  <2> HIDE DEF here, above
  <2> QED
    BY <1>1, <1>2, <1>3
<1> HIDE DEF here, above, len, p
<1>6. CASE p < topIndex
  <2>1. LineEndsIn(textBuffer, above, p) = {}
    BY <1>1, <1>2, <1>3, <1>5 DEF LineEndsIn
  <2>2. VgaRow(textBuffer, above, p) = 2
    BY <2>1, FS_EmptySet DEF VgaRow
  <2> QED
    BY <1>2, <1>3, <1>4, <1>5, <1>6, <2>2 DEF RowKept, RowVisible
<1>7. CASE ~(p < topIndex)
  <2> DEFINE S == LineEndsIn(textBuffer, topIndex, p)
             T == LineEndsIn(textBuffer, topIndex, cursorPos)
  <2>1. S \subseteq T
    BY <1>1, <1>2, <1>3, <1>5 DEF LineEndsIn
  <2>2. Cardinality(S) <= Cardinality(T) /\ Cardinality(S) \in Nat /\ Cardinality(T) \in Nat
    <3>1. p \in Nat
      BY <1>2, <1>3, <1>5
    <3>2. IsFiniteSet(T) /\ Cardinality(S) \in Nat /\ Cardinality(T) \in Nat
      BY <1>1, <3>1, LineEndsFinite
    <3> HIDE DEF S, T
    <3> QED
      BY <2>1, <3>2, FS_Subset
  <2>3. VgaRow(textBuffer, topIndex, p) <= VgaRow(textBuffer, topIndex, cursorPos)
    BY <2>2 DEF VgaRow
  <2>4. topIndex' = topIndex /\ topIndex <= p
    BY <1>1, <1>2, <1>3, <1>4, <1>5, <1>7
  <2>5. VgaRow(textBuffer, topIndex, p) \in Int /\ VgaRow(textBuffer, topIndex, cursorPos) \in Int
    BY <2>2 DEF VgaRow
  <2> QED
    BY <1>4, <2>3, <2>4, <2>5 DEF RowKept, RowVisible
<1> QED
  BY <1>6, <1>7

LEMMA KeyDownKeepsRow ==
    ASSUME Inv, KeyDown
    PROVE  RowKept
<1> DEFINE end   == LineEnd(textBuffer, textLen, cursorPos)
           below == end + 1
           len   == LineEnd(textBuffer, textLen, below) - below
           col   == cursorPos - LineStart(textBuffer, cursorPos)
           p     == IF col > len THEN below + len ELSE below + col
           row   == VgaRow(textBuffer, topIndex, p)
           old   == VgaRow(textBuffer, topIndex, cursorPos)
<1> SUFFICES ASSUME RowVisible(textBuffer, topIndex, cursorPos)
             PROVE  RowVisible(textBuffer', topIndex', cursorPos')
  BY DEF RowKept
<1>1. cursorPos \in Nat /\ textLen \in Nat /\ topIndex \in Nat
  BY DEF Inv, TypeOK
<1>2. topIndex <= cursorPos /\ old <= MaxR - 1
  BY DEF RowVisible
<1>3. /\ end \in Nat /\ cursorPos <= end /\ end < textLen
      /\ textBuffer[end] = NL /\ LineEndsIn(textBuffer, cursorPos, end) = {}
  <2>1. end \in Nat /\ cursorPos <= end /\ end < textLen /\ cursorPos <= textLen
    BY <1>1, LineEndRange DEF KeyDown
  <2> QED
    BY <1>1, <2>1, LineEndExact
<1>4. /\ len \in Nat
      /\ LineEndsIn(textBuffer, below, below + len) = {}
  <2> HIDE DEF end
  <2>1. below \in Nat /\ below <= textLen
    BY <1>1, <1>3
  <2> HIDE DEF below
  <2>2. /\ LineEnd(textBuffer, textLen, below) \in below .. textLen
        /\ LineEndsIn(textBuffer, below, LineEnd(textBuffer, textLen, below)) = {}
    BY <1>1, <2>1, LineEndExact
  <2>3. below + len = LineEnd(textBuffer, textLen, below)
    BY <1>1, <2>1, <2>2
  <2> QED
    BY <1>1, <2>1, <2>2, <2>3
<1>5. col \in Nat
  BY <1>1, LineStartRange
<1>6. p \in below .. below + len
  <2> HIDE DEF end, len, col
  <2> QED
    BY <1>3, <1>4, <1>5
<1>7. /\ cursorPos' = p /\ textBuffer' = textBuffer
      /\ topIndex' = IF row > MaxR - 1 THEN NextLineTop(textBuffer, textLen, topIndex) ELSE topIndex
  BY DEF KeyDown, MoveCursor, text
<1> HIDE DEF end, len, col, p
<1>8. p \in Nat /\ end < p /\ topIndex <= end
  BY <1>1, <1>2, <1>3, <1>4, <1>6
<1>9. row = old + 1 /\ old \in Nat
  <2> DEFINE S == LineEndsIn(textBuffer, topIndex, cursorPos)
             T == LineEndsIn(textBuffer, topIndex, p)
  <2>1. T = S \cup {end}
    <3>1. ASSUME NEW q \in topIndex .. p - 1, textBuffer[q] = NL
          PROVE  q \in S \cup {end}
      <4>1. q \in Nat /\ ~(q \in cursorPos .. end - 1) /\ ~(q \in below .. below + len - 1)
        BY <1>1, <1>3, <1>4, <3>1 DEF LineEndsIn
      <4>2. q < cursorPos \/ q = end
        BY <1>1, <1>3, <1>4, <1>6, <1>8, <4>1
      <4> QED
        BY <1>1, <3>1, <4>1, <4>2 DEF LineEndsIn
    <3>2. S \subseteq T /\ end \in T
      BY <1>1, <1>3, <1>8 DEF LineEndsIn
    <3>3. T \subseteq S \cup {end}
      BY <3>1 DEF LineEndsIn
    <3> HIDE DEF S, T
    <3> QED
      BY <3>2, <3>3
  <2>2. end \notin S
    BY <1>1, <1>3 DEF LineEndsIn
  <2>3. IsFiniteSet(S) /\ Cardinality(S) \in Nat
    BY <1>1, LineEndsFinite
  <2>4. row = 2 + Cardinality(T) /\ old = 2 + Cardinality(S)
    BY DEF VgaRow
  <2> HIDE DEF S, T, row, old
  <2>5. Cardinality(T) = Cardinality(S) + 1
    BY <2>1, <2>2, <2>3, FS_AddElement
  <2> QED
    BY <2>3, <2>4, <2>5
<1>10. CASE row > MaxR - 1
  <2>1. /\ topIndex' \in topIndex + 1 .. end + 1
        /\ VgaRow(textBuffer, topIndex', p) = row - 1
    <3>1. topIndex' = NextLineTop(textBuffer, textLen, topIndex)
      BY <1>7, <1>10
    <3> QED
      BY <1>1, <1>3, <1>8, <3>1, OneLineFurther
  <2>2. topIndex' <= p
    BY <1>1, <1>3, <1>8, <2>1
  <2> HIDE DEF row, old
  <2>3. VgaRow(textBuffer, topIndex', p) <= MaxR - 1
    BY <1>2, <1>9, <2>1
  <2> QED
    BY <1>7, <2>2, <2>3 DEF RowVisible
<1>11. CASE ~(row > MaxR - 1)
  <2>1. topIndex' = topIndex /\ topIndex <= p
    BY <1>1, <1>3, <1>7, <1>8, <1>11
  <2>2. row <= MaxR - 1
    <3> HIDE DEF row, old
    <3> QED
      BY <1>9, <1>11
  <2> QED
    BY <1>7, <2>1, <2>2 DEF RowVisible
<1> QED
  BY <1>10, <1>11

(* Inserting at the cursor moves no line end before it.                    *)
LEMMA InsertKeepsBefore ==
    ASSUME Inv, CursorInText, textLen < EditBuffSize - 1, NEW c, NEW top \in Nat, top <= cursorPos,
           NEW b, b = InsertedAtCursor(c)
    PROVE  /\ c # NL => LineEndsIn(b, top, cursorPos + 1) = LineEndsIn(textBuffer, top, cursorPos)
           /\ c = NL => LineEndsIn(b, top, cursorPos + 1)
                           = LineEndsIn(textBuffer, top, cursorPos) \cup {cursorPos}
           /\ b[cursorPos] = c
<1>1. cursorPos \in Nat /\ textLen \in Nat /\ cursorPos \in Index
  BY DEF Inv, TypeOK, IndicesInBuffer
<1> DEFINE m == Memmove(textBuffer, cursorPos + 1, cursorPos, textLen - cursorPos)
<1>2. \A i \in Index : i < cursorPos => m[i] = textBuffer[i]
  BY <1>1 DEF Memmove, Index
<1>3. DOMAIN m = Index
  BY DEF Memmove
<1>4. b = [m EXCEPT ![cursorPos] = c]
  BY DEF InsertedAtCursor
<1> HIDE DEF m
<1>5. b[cursorPos] = c /\ \A i \in 0 .. cursorPos - 1 : b[i] = textBuffer[i]
  <2>1. \A i \in 0 .. cursorPos - 1 : i \in Index /\ i # cursorPos /\ i < cursorPos
    BY <1>1 DEF Index
  <2> QED
    BY <1>1, <1>2, <1>3, <1>4, <2>1
<1>6. \A q \in top .. cursorPos : q = cursorPos \/ q \in top .. cursorPos - 1
  BY <1>1
<1>7. \A q \in top .. cursorPos - 1 : q \in 0 .. cursorPos - 1
  BY <1>1
<1>8. (cursorPos + 1) - 1 = cursorPos /\ cursorPos \in top .. cursorPos
  BY <1>1
<1>9. ASSUME NEW q
      PROVE  q \in LineEndsIn(b, top, cursorPos + 1)
               <=> q \in LineEndsIn(textBuffer, top, cursorPos) \/ (q = cursorPos /\ c = NL)
  <2>1. CASE q = cursorPos
    BY <1>1, <1>5, <1>8, <2>1 DEF LineEndsIn
  <2>2. CASE q \in top .. cursorPos - 1
    <3>1. q \in top .. cursorPos /\ b[q] = textBuffer[q] /\ q # cursorPos
      BY <1>1, <1>5, <1>7, <2>2
    <3> QED
      BY <1>8, <2>2, <3>1 DEF LineEndsIn
  <2>3. CASE q # cursorPos /\ q \notin top .. cursorPos - 1
    BY <1>6, <1>8, <2>3 DEF LineEndsIn
  <2> QED
    BY <2>1, <2>2, <2>3
<1> QED
  BY <1>5, <1>9

LEMMA KeyCharKeepsRow ==
    ASSUME Inv, NEW c \in PrintableChars, KeyChar(c), mode' # "fault"
    PROVE  RowKept
<1>1. /\ textBuffer' = InsertedAtCursor(c) /\ cursorPos' = cursorPos + 1 /\ topIndex' = topIndex
      /\ CursorInText /\ textLen < EditBuffSize - 1
  BY DEF KeyChar, MemoryFault
<1>2. cursorPos \in Nat /\ topIndex \in Nat /\ c # NL
  BY DEF Inv, TypeOK
<1>3. topIndex <= cursorPos
        => LineEndsIn(textBuffer', topIndex, cursorPos + 1) = LineEndsIn(textBuffer, topIndex, cursorPos)
  BY <1>1, <1>2, InsertKeepsBefore
<1> QED
  BY <1>1, <1>2, <1>3 DEF RowKept, RowVisible, VgaRow

LEMMA KeyEnterKeepsRow ==
    ASSUME Inv, KeyEnter, mode' # "fault"
    PROVE  RowKept
<1> SUFFICES ASSUME RowVisible(textBuffer, topIndex, cursorPos)
             PROVE  RowVisible(textBuffer', topIndex', cursorPos')
  BY DEF RowKept
<1> DEFINE p == cursorPos + 1
           row == VgaRow(textBuffer', topIndex, p)
           old == VgaRow(textBuffer, topIndex, cursorPos)
<1>1. /\ textBuffer' = InsertedAtCursor(NL) /\ cursorPos' = p /\ textLen' = textLen + 1
      /\ topIndex' = IF row > MaxR - 2 THEN NextLineTop(textBuffer', textLen', topIndex) ELSE topIndex
      /\ CursorInText /\ textLen < EditBuffSize - 1
  BY DEF KeyEnter, MemoryFault
<1>2. cursorPos \in Nat /\ topIndex \in Nat /\ textLen \in Nat
  BY DEF Inv, TypeOK
<1>3. topIndex <= cursorPos /\ old <= MaxR - 1 /\ cursorPos <= textLen
  BY <1>1 DEF RowVisible, CursorInText
<1>4. /\ LineEndsIn(textBuffer', topIndex, p) = LineEndsIn(textBuffer, topIndex, cursorPos) \cup {cursorPos}
      /\ textBuffer'[cursorPos] = NL
  BY <1>1, <1>2, <1>3, InsertKeepsBefore
<1>5. row = old + 1 /\ old \in Nat
  <2> DEFINE S == LineEndsIn(textBuffer, topIndex, cursorPos)
  <2>1. cursorPos \notin S
    BY <1>2 DEF LineEndsIn
  <2>2. IsFiniteSet(S) /\ Cardinality(S) \in Nat
    BY <1>2, LineEndsFinite
  <2>3. row = 2 + Cardinality(S \cup {cursorPos}) /\ old = 2 + Cardinality(S)
    BY <1>4 DEF VgaRow
  <2> HIDE DEF S, row, old
  <2>4. Cardinality(S \cup {cursorPos}) = Cardinality(S) + 1
    BY <2>1, <2>2, FS_AddElement
  <2> QED
    BY <2>2, <2>3, <2>4
<1>6. CASE row > MaxR - 2
  <2>1. /\ topIndex' \in topIndex + 1 .. cursorPos + 1
        /\ VgaRow(textBuffer', topIndex', p) = row - 1
    <3>1. topIndex' = NextLineTop(textBuffer', textLen', topIndex)
      BY <1>1, <1>6
    <3>2. textLen' \in Nat /\ p \in Nat /\ cursorPos < p /\ cursorPos < textLen'
      BY <1>1, <1>2, <1>3
    <3> QED
      BY <1>2, <1>3, <1>4, <3>1, <3>2, OneLineFurther
  <2>2. topIndex' <= p
    BY <1>2, <2>1
  <2> HIDE DEF row, old
  <2>3. VgaRow(textBuffer', topIndex', p) <= MaxR - 1
    BY <1>3, <1>5, <2>1
  <2> QED
    BY <1>1, <2>2, <2>3 DEF RowVisible
<1>7. CASE ~(row > MaxR - 2)
  <2>1. topIndex' = topIndex /\ topIndex <= p
    BY <1>1, <1>2, <1>3, <1>7
  <2>2. row <= MaxR - 1
    <3> HIDE DEF row, old
    <3> QED
      BY <1>5, <1>7
  <2> QED
    BY <1>1, <2>1, <2>2 DEF RowVisible
<1> QED
  BY <1>6, <1>7

(* One line of scrolling is always enough: a key that moves the cursor to  *)
(* the next line, or inserts at the cursor, keeps it on the screen when it *)
(* was there.                                                              *)
THEOREM EditorRowVisible == Spec => LineKeysKeepRowVisible
<1> DEFINE LineKey == KeyUp \/ KeyDown \/ KeyEnter \/ (\E c \in PrintableChars : KeyChar(c))
           Stays == LineKey /\ RowVisible(textBuffer, topIndex, cursorPos) /\ mode' # "fault"
                        => RowVisible(textBuffer', topIndex', cursorPos')
<1>1. Inv => (LineKey /\ mode' # "fault" => RowKept)
  BY KeyUpKeepsRow, KeyDownKeepsRow, KeyEnterKeepsRow, KeyCharKeepsRow
<1>2. Inv => [Stays]_vars
  BY <1>1 DEF RowKept
<1> QED
  BY <1>2, InvHolds, PTL DEF Spec, LineKeysKeepRowVisible

-----------------------------------------------------------------------------
(* The text as a sequence.  What the memory moves do to the buffer, the    *)
(* abstract text sees as one piece inserted or cut out.                    *)

Txt(b, n) == Bytes(b, 0, n)

LEMMA TxtType ==
    ASSUME NEW b \in [Index -> Chars], NEW n \in Index
    PROVE  /\ Txt(b, n) \in Seq(Chars) /\ Len(Txt(b, n)) = n
           /\ \A i \in 1 .. n : Txt(b, n)[i] = b[i - 1]
<1>1. n \in Nat /\ 0 + n <= EditBuffSize /\ 0 \in Nat
  BY DEF Index
<1>2. \A i \in 1 .. n : 0 + i - 1 = i - 1
  BY <1>1
<1>3. \A i \in 1 .. n : Txt(b, n)[i] = b[i - 1]
  BY <1>2 DEF Txt, Bytes
<1> QED
  BY <1>1, <1>3, BytesType DEF Txt

(* The pieces of the text before and behind a position.                    *)
LEMMA TxtPieces ==
    ASSUME NEW b \in [Index -> Chars], NEW n \in Index, NEW p \in 0 .. n
    PROVE  LET before == SubSeq(Txt(b, n), 1, p)
               after == SubSeq(Txt(b, n), p + 1, n)
           IN  /\ before \in Seq(Chars) /\ Len(before) = p /\ \A i \in 1 .. p : before[i] = b[i - 1]
               /\ after \in Seq(Chars) /\ Len(after) = n - p
               /\ \A i \in 1 .. n - p : after[i] = b[p + i - 1]
<1> DEFINE t == Txt(b, n)
<1>0. n \in Nat /\ p \in Nat /\ p <= n
  BY DEF Index
<1>1. t \in Seq(Chars) /\ Len(t) = n /\ \A i \in 1 .. n : t[i] = b[i - 1] /\ t[i] \in Chars
  <2>1. t \in Seq(Chars) /\ Len(t) = n /\ \A i \in 1 .. n : t[i] = b[i - 1]
    BY TxtType
  <2> HIDE DEF t
  <2> QED
    BY <2>1, ElementOfSeq
<1> HIDE DEF t
<1>2. /\ SubSeq(t, 1, p) \in Seq(Chars) /\ Len(SubSeq(t, 1, p)) = p
      /\ \A i \in 1 .. p : SubSeq(t, 1, p)[i] = b[i - 1]
  <2>1. \A i \in 1 .. p : t[i] \in Chars /\ t[i] = b[i - 1]
    BY <1>0, <1>1
  <2>2. /\ SubSeq(t, 1, p) \in Seq(Chars)
        /\ Len(SubSeq(t, 1, p)) = IF 1 <= p THEN p - 1 + 1 ELSE 0
        /\ \A i \in 1 .. p - 1 + 1 : SubSeq(t, 1, p)[i] = t[1 + i - 1]
    BY <1>0, <2>1, SubSeqProperties
  <2>3. p - 1 + 1 = p /\ (~(1 <= p) => p = 0) /\ \A i \in 1 .. p : 1 + i - 1 = i
    BY <1>0
  <2> QED
    BY <2>1, <2>2, <2>3
<1>3. /\ SubSeq(t, p + 1, n) \in Seq(Chars) /\ Len(SubSeq(t, p + 1, n)) = n - p
      /\ \A i \in 1 .. n - p : SubSeq(t, p + 1, n)[i] = b[p + i - 1]
  <2>1. \A i \in p + 1 .. n : i \in 1 .. n
    BY <1>0
  <2>2. \A i \in p + 1 .. n : t[i] \in Chars /\ t[i] = b[i - 1]
    BY <1>1, <2>1
  <2>3. /\ SubSeq(t, p + 1, n) \in Seq(Chars)
        /\ Len(SubSeq(t, p + 1, n)) = IF p + 1 <= n THEN n - (p + 1) + 1 ELSE 0
        /\ \A i \in 1 .. n - (p + 1) + 1 : SubSeq(t, p + 1, n)[i] = t[p + 1 + i - 1]
    BY <1>0, <2>2, SubSeqProperties
  <2>4. n - (p + 1) + 1 = n - p /\ (~(p + 1 <= n) => n - p = 0)
    BY <1>0
  <2>5. \A i \in 1 .. n - p : /\ p + 1 + i - 1 \in p + 1 .. n
                              /\ (p + 1 + i - 1) - 1 = p + i - 1
    BY <1>0
  <2> QED
    BY <2>2, <2>3, <2>4, <2>5
<1> QED
  BY <1>2, <1>3 DEF t

(* A piece s appears at p and the text behind p moves back.                *)
LEMMA PieceInserted ==
    ASSUME NEW b \in [Index -> Chars], NEW n \in Index, NEW p \in 0 .. n,
           NEW s \in Seq(Chars), NEW c \in [Index -> Chars], n + Len(s) \in Index,
           \A i \in 0 .. p - 1 : c[i] = b[i],
           \A i \in 1 .. Len(s) : c[p + i - 1] = s[i],
           \A i \in p .. n - 1 : c[i + Len(s)] = b[i]
    PROVE  Txt(c, n + Len(s)) = SubSeq(Txt(b, n), 1, p) \o s \o SubSeq(Txt(b, n), p + 1, n)
<1> DEFINE before == SubSeq(Txt(b, n), 1, p)
           after == SubSeq(Txt(b, n), p + 1, n)
           k == Len(s)
           t == Txt(c, n + k)
           u == before \o s
<1>1. n \in Nat /\ p \in Nat /\ p <= n /\ k \in Nat
  BY DEF Index
<1>2. /\ before \in Seq(Chars) /\ Len(before) = p /\ \A i \in 1 .. p : before[i] = b[i - 1]
      /\ after \in Seq(Chars) /\ Len(after) = n - p
      /\ \A i \in 1 .. n - p : after[i] = b[p + i - 1]
  BY TxtPieces, ZenonT(20)
<1>3. t \in Seq(Chars) /\ Len(t) = n + k /\ \A i \in 1 .. n + k : t[i] = c[i - 1]
  BY TxtType
<1> HIDE DEF before, after, t
<1>4. /\ u \in Seq(Chars) /\ Len(u) = p + k
      /\ \A i \in 1 .. p + k : u[i] = IF i <= p THEN before[i] ELSE s[i - p]
  <2>1. /\ u \in Seq(Chars) /\ Len(u) = Len(before) + k
        /\ \A i \in 1 .. Len(before) + k : u[i] = IF i <= Len(before) THEN before[i]
                                                   ELSE s[i - Len(before)]
    <3>1. before \in Seq(Chars) /\ s \in Seq(Chars)
      BY <1>2
    <3> QED
      BY ONLY <3>1, ConcatProperties
  <2> HIDE DEF u, k
  <2> QED
    BY <1>2, <2>1
<1> HIDE DEF u
<1>5. /\ u \o after \in Seq(Chars) /\ Len(u \o after) = n + k
      /\ \A i \in 1 .. n + k : (u \o after)[i] = IF i <= p + k THEN u[i] ELSE after[i - (p + k)]
  <2>1. p + k + (n - p) = n + k
    BY <1>1
  <2>2. /\ u \o after \in Seq(Chars) /\ Len(u \o after) = Len(u) + Len(after)
        /\ \A i \in 1 .. Len(u) + Len(after) : (u \o after)[i] = IF i <= Len(u) THEN u[i]
                                                                ELSE after[i - Len(u)]
    <3>1. u \in Seq(Chars) /\ after \in Seq(Chars)
      BY <1>2, <1>4
    <3> QED
      BY ONLY <3>1, ConcatProperties
  <2> HIDE DEF k
  <2> QED
    BY <1>2, <1>4, <2>1, <2>2
<1> HIDE DEF k
<1>6. ASSUME NEW i \in 1 .. n + k
      PROVE  t[i] = (u \o after)[i]
  <2>1. t[i] = c[i - 1]
    BY <1>3
  <2>2. CASE i <= p
    <3>1. i \in 1 .. p /\ i - 1 \in 0 .. p - 1 /\ i <= p + k /\ i \in 1 .. p + k
      BY <1>1, <2>2
    <3> QED
      BY <1>2, <1>4, <1>5, <2>1, <2>2, <3>1
  <2>3. CASE ~(i <= p) /\ i <= p + k
    <3>1. i \in 1 .. p + k /\ i - p \in 1 .. k /\ p + (i - p) - 1 = i - 1
      BY <1>1, <2>3
    <3>2. c[i - 1] = s[i - p]
      BY <3>1 DEF k
    <3> QED
      BY <1>4, <1>5, <2>1, <2>3, <3>1, <3>2
  <2>4. CASE ~(i <= p + k)
    <3> DEFINE j == i - 1 - k
    <3>1. j \in p .. n - 1 /\ j + k = i - 1 /\ i - (p + k) \in 1 .. n - p
          /\ p + (i - (p + k)) - 1 = j
      BY <1>1, <2>4
    <3> HIDE DEF j
    <3>2. c[j + k] = b[j]
      BY <3>1 DEF k
    <3>3. after[i - (p + k)] = b[j]
      BY <1>2, <3>1
    <3> QED
      BY <1>5, <2>1, <2>4, <3>1, <3>2, <3>3
  <2> QED
    BY <2>2, <2>3, <2>4
<1>7. t = u \o after
  BY <1>3, <1>5, <1>6, SeqEqual
<1> QED
  BY <1>7 DEF t, u, before, after, k

(* The k bytes at p disappear and the text behind them moves forward.      *)
LEMMA PieceCut ==
    ASSUME NEW b \in [Index -> Chars], NEW n \in Index, NEW p \in Nat, NEW k \in Nat, p + k <= n,
           NEW c \in [Index -> Chars],
           \A i \in 0 .. p - 1 : c[i] = b[i],
           \A i \in p .. n - k - 1 : c[i] = b[i + k]
    PROVE  Txt(c, n - k) = SubSeq(Txt(b, n), 1, p) \o SubSeq(Txt(b, n), p + k + 1, n)
<1> DEFINE before == SubSeq(Txt(b, n), 1, p)
           after == SubSeq(Txt(b, n), p + k + 1, n)
           t == Txt(c, n - k)
           m == n - k
<1>1. n \in Nat /\ p \in 0 .. n /\ p + k \in 0 .. n /\ m \in Index /\ m \in Nat
  BY DEF Index
<1>2. /\ before \in Seq(Chars) /\ Len(before) = p /\ \A i \in 1 .. p : before[i] = b[i - 1]
  BY <1>1, TxtPieces
<1>3. /\ after \in Seq(Chars) /\ Len(after) = n - (p + k)
      /\ \A i \in 1 .. n - (p + k) : after[i] = b[p + k + i - 1]
  BY <1>1, TxtPieces
<1>4. t \in Seq(Chars) /\ Len(t) = m /\ \A i \in 1 .. m : t[i] = c[i - 1]
  BY <1>1, TxtType
<1> HIDE DEF before, after, t
<1>5. /\ before \o after \in Seq(Chars) /\ Len(before \o after) = m
      /\ \A i \in 1 .. m : (before \o after)[i] = IF i <= p THEN before[i] ELSE after[i - p]
  <2>1. p + (n - (p + k)) = m
    BY <1>1
  <2>2. /\ before \o after \in Seq(Chars) /\ Len(before \o after) = Len(before) + Len(after)
        /\ \A i \in 1 .. Len(before) + Len(after) :
               (before \o after)[i] = IF i <= Len(before) THEN before[i] ELSE after[i - Len(before)]
    <3>1. before \in Seq(Chars) /\ after \in Seq(Chars)
      BY <1>2, <1>3
    <3> QED
      BY ONLY <3>1, ConcatProperties
  <2> HIDE DEF m
  <2> QED
    BY <1>2, <1>3, <2>1, <2>2
<1>6. ASSUME NEW i \in 1 .. m
      PROVE  t[i] = (before \o after)[i]
  <2>1. CASE i <= p
    <3>1. i \in 1 .. p /\ i - 1 \in 0 .. p - 1
      BY <1>1, <2>1
    <3> QED
      BY <1>2, <1>4, <1>5, <2>1, <3>1
  <2>2. CASE ~(i <= p)
    <3> DEFINE j == i - 1
    <3>1. j \in p .. n - k - 1 /\ i - p \in 1 .. n - (p + k) /\ p + k + (i - p) - 1 = j + k
      BY <1>1, <2>2
    <3>2. c[j] = b[j + k]
      <4> HIDE DEF j
      <4> QED
        BY <3>1
    <3>3. after[i - p] = b[j + k]
      <4> HIDE DEF j
      <4> QED
        BY <1>3, <3>1
    <3> QED
      BY <1>4, <1>5, <2>2, <3>2, <3>3
  <2> QED
    BY <2>1, <2>2
<1>7. t = before \o after
  <2> HIDE DEF m
  <2> QED
    BY <1>4, <1>5, <1>6, SeqEqual
<1> QED
  BY <1>7 DEF t, before, after

(* The move that makes room for k bytes at p, and the one that closes the  *)
(* gap of k bytes at p.                                                    *)
LEMMA MoveBack ==
    ASSUME NEW b, NEW n \in Index, NEW p \in 0 .. n, NEW k \in Nat, n + k \in Index
    PROVE  LET m == Memmove(b, p + k, p, n - p)
           IN  /\ \A i \in 0 .. p + k - 1 : m[i] = b[i]
               /\ \A i \in p .. n - 1 : m[i + k] = b[i]
<1>1. n \in Nat /\ p \in Nat /\ p <= n /\ EditBuffSize \in Nat /\ n + k < EditBuffSize
  BY DEF Index
<1>2. ASSUME NEW i \in 0 .. p + k - 1
      PROVE  i \in Index /\ ~(p + k <= i)
  BY <1>1 DEF Index
<1>3. ASSUME NEW i \in p .. n - 1
      PROVE  /\ i + k \in Index /\ p + k <= i + k /\ i + k < (p + k) + (n - p)
             /\ i + k - (p + k) + p = i
  BY <1>1 DEF Index
<1> QED
  BY <1>2, <1>3 DEF Memmove

LEMMA MoveForward ==
    ASSUME NEW b, NEW n \in Index, NEW p \in Nat, NEW k \in Nat, p + k <= n,
           NEW q \in Int, q >= n - (p + k)
    PROVE  LET m == Memmove(b, p, p + k, q)
           IN  /\ \A i \in 0 .. p - 1 : m[i] = b[i]
               /\ \A i \in p .. n - k - 1 : m[i] = b[i + k]
<1>1. n \in Nat /\ EditBuffSize \in Nat /\ n < EditBuffSize
  BY DEF Index
<1>2. ASSUME NEW i \in 0 .. p - 1
      PROVE  i \in Index /\ ~(p <= i)
  BY <1>1 DEF Index
<1>3. ASSUME NEW i \in p .. n - k - 1
      PROVE  i \in Index /\ p <= i /\ i < p + q /\ i - p + (p + k) = i + k
  BY <1>1 DEF Index
<1> QED
  BY <1>2, <1>3 DEF Memmove

-----------------------------------------------------------------------------
(* Every step is a step of TextEdit. *)

(* What the abstract text is in a state of the editor.                     *)
LEMMA AbstractText ==
    ASSUME Inv
    PROVE  /\ Bytes(textBuffer, 0, textLen) = Txt(textBuffer, textLen)
           /\ Txt(textBuffer, textLen) \in Seq(Chars)
           /\ Len(Txt(textBuffer, textLen)) = textLen
           /\ textLen \in Nat /\ textLen <= EditBuffSize - 1 /\ cursorPos \in Nat
           /\ textBuffer \in [Index -> Chars] /\ textLen \in Index
BY TxtType DEF Inv, TypeOK, IndicesInBuffer, Txt, Index

LEMMA InsertRefines ==
    ASSUME Inv, Inv', mode = "edit", mode' = "edit", CursorInText, NEW s \in Seq(Chars),
           textLen' = textLen + Len(s), cursorPos' = cursorPos + Len(s), clipboard' = clipboard,
           \A i \in 0 .. cursorPos - 1 : textBuffer'[i] = textBuffer[i],
           \A i \in 1 .. Len(s) : textBuffer'[cursorPos + i - 1] = s[i],
           \A i \in cursorPos .. textLen - 1 : textBuffer'[i + Len(s)] = textBuffer[i]
    PROVE  A!Insert(s)
<1>1. /\ Bytes(textBuffer, 0, textLen) = Txt(textBuffer, textLen)
      /\ Len(Txt(textBuffer, textLen)) = textLen /\ textLen \in Nat /\ cursorPos \in Nat
      /\ textBuffer \in [Index -> Chars] /\ textLen \in Index
  BY AbstractText
<1>2. /\ textBuffer' \in [Index -> Chars] /\ textLen + Len(s) \in Index
      /\ textLen + Len(s) <= EditBuffSize - 1
  BY DEF Inv, TypeOK, IndicesInBuffer, Index
<1>3. cursorPos \in 0 .. textLen
  BY <1>1 DEF CursorInText
<1>4. Txt(textBuffer', textLen + Len(s))
        = SubSeq(Txt(textBuffer, textLen), 1, cursorPos) \o s
            \o SubSeq(Txt(textBuffer, textLen), cursorPos + 1, textLen)
  <2>1. PICK b, n, c, p : b = textBuffer /\ n = textLen /\ c = textBuffer' /\ p = cursorPos
    OBVIOUS
  <2>2. /\ b \in [Index -> Chars] /\ n \in Index /\ c \in [Index -> Chars] /\ p \in 0 .. n
        /\ s \in Seq(Chars) /\ n + Len(s) \in Index
        /\ \A i \in 0 .. p - 1 : c[i] = b[i]
        /\ \A i \in 1 .. Len(s) : c[p + i - 1] = s[i]
        /\ \A i \in p .. n - 1 : c[i + Len(s)] = b[i]
    BY <1>1, <1>2, <1>3, <2>1
  <2>3. Txt(c, n + Len(s)) = SubSeq(Txt(b, n), 1, p) \o s \o SubSeq(Txt(b, n), p + 1, n)
    BY ONLY BufferAssumption, <2>2, PieceInserted
  <2> QED
    BY ONLY <2>1, <2>3
<1>5. Bytes(textBuffer, 0, textLen)' = Txt(textBuffer', textLen + Len(s))
  BY DEF Txt
<1>6. /\ cursorPos <= Len(Bytes(textBuffer, 0, textLen))
      /\ Len(Bytes(textBuffer, 0, textLen)) + Len(s) <= EditBuffSize - 1
  BY <1>1, <1>2 DEF CursorInText
<1>7. Bytes(textBuffer, 0, textLen)' = A!Before(cursorPos) \o s \o A!After(cursorPos)
  BY ONLY <1>1, <1>4, <1>5 DEF A!Before, A!After
<1>8. /\ (IF mode \in {"prompt", "fault"} THEN mode ELSE "editing")' = "editing"
      /\ (IF mode \in {"prompt", "fault"} THEN mode ELSE "editing") = "editing"
  OBVIOUS
<1> QED
  BY ONLY <1>6, <1>7, <1>8, cursorPos' = cursorPos + Len(s), clipboard' = clipboard DEF A!Insert

LEMMA CutRefines ==
    ASSUME Inv, Inv', NEW p \in Nat, NEW k \in Nat, p + k <= textLen, textLen' = textLen - k,
           \A i \in 0 .. p - 1 : textBuffer'[i] = textBuffer[i],
           \A i \in p .. textLen - k - 1 : textBuffer'[i] = textBuffer[i + k]
    PROVE  Bytes(textBuffer, 0, textLen)' = A!Before(p) \o A!After(p + k)
<1>1. /\ Bytes(textBuffer, 0, textLen) = Txt(textBuffer, textLen)
      /\ Len(Txt(textBuffer, textLen)) = textLen /\ textLen \in Nat
      /\ textBuffer \in [Index -> Chars] /\ textLen \in Index
  BY AbstractText
<1>2. textBuffer' \in [Index -> Chars]
  BY DEF Inv, TypeOK
<1>3. Txt(textBuffer', textLen - k)
        = SubSeq(Txt(textBuffer, textLen), 1, p) \o SubSeq(Txt(textBuffer, textLen), p + k + 1, textLen)
  <2>1. PICK b, n, c : b = textBuffer /\ n = textLen /\ c = textBuffer'
    OBVIOUS
  <2>2. /\ b \in [Index -> Chars] /\ n \in Index /\ p + k <= n /\ c \in [Index -> Chars]
        /\ \A i \in 0 .. p - 1 : c[i] = b[i]
        /\ \A i \in p .. n - k - 1 : c[i] = b[i + k]
    BY <1>1, <1>2, <2>1
  <2>3. Txt(c, n - k) = SubSeq(Txt(b, n), 1, p) \o SubSeq(Txt(b, n), p + k + 1, n)
    BY ONLY BufferAssumption, p \in Nat, k \in Nat, <2>2, PieceCut, ZenonT(60)
  <2> QED
    BY <2>1, <2>3
<1>4. Bytes(textBuffer, 0, textLen)' = Txt(textBuffer', textLen - k)
  BY DEF Txt
<1> QED
  BY <1>1, <1>3, <1>4 DEF A!Before, A!After

(* The cursor is behind the text, and the machine stops.                   *)
LEMMA FaultRefines ==
    ASSUME Inv, mode = "edit", ~CursorInText, MemoryFault
    PROVE  A!Next
<1>1. cursorPos > Len(Bytes(textBuffer, 0, textLen))
  BY AbstractText DEF CursorInText
<1>2. A!Fault
  BY <1>1 DEF A!Fault, MemoryFault, text, block
<1> QED
  BY <1>2 DEF A!Next

LEMMA KeyCharRefines ==
    ASSUME Inv, Inv', NEW c \in PrintableChars \cup {NL}, mode = "edit", mode' = "edit",
           textLen < EditBuffSize - 1, CursorInText,
           textBuffer' = InsertedAtCursor(c), cursorPos' = cursorPos + 1, textLen' = textLen + 1,
           clipboard' = clipboard
    PROVE  A!Next
<1> DEFINE m == Memmove(textBuffer, cursorPos + 1, cursorPos, textLen - cursorPos)
           s == <<c>>
<1>1. /\ cursorPos \in Nat /\ textLen \in Index /\ textLen \in Nat /\ cursorPos \in 0 .. textLen
      /\ textLen + 1 \in Index /\ cursorPos \in Index
  BY DEF Inv, TypeOK, IndicesInBuffer, CursorInText, Index
<1>2. /\ \A i \in 0 .. cursorPos : m[i] = textBuffer[i]
      /\ \A i \in cursorPos .. textLen - 1 : m[i + 1] = textBuffer[i]
  <2>1. cursorPos + 1 - 1 = cursorPos
    BY <1>1
  <2> HIDE DEF m
  <2>2. /\ \A i \in 0 .. cursorPos + 1 - 1 : m[i] = textBuffer[i]
        /\ \A i \in cursorPos .. textLen - 1 : m[i + 1] = textBuffer[i]
    BY <1>1, MoveBack DEF m
  <2> QED
    BY <2>1, <2>2
<1>3. textBuffer' = [m EXCEPT ![cursorPos] = c] /\ DOMAIN m = Index
  BY DEF InsertedAtCursor, Memmove
<1> HIDE DEF m
<1>4. textBuffer'[cursorPos] = c
  BY <1>1, <1>3
<1>5. \A i \in 0 .. cursorPos - 1 : textBuffer'[i] = textBuffer[i]
  <2>1. \A i \in 0 .. cursorPos - 1 : i \in 0 .. cursorPos /\ i \in Index /\ i # cursorPos
    BY <1>1 DEF Index
  <2> QED
    BY <1>2, <1>3, <2>1
<1>6. \A i \in cursorPos .. textLen - 1 : textBuffer'[i + 1] = textBuffer[i]
  <2>1. \A i \in cursorPos .. textLen - 1 : i + 1 \in Index /\ i + 1 # cursorPos
    BY <1>1 DEF Index
  <2> QED
    BY <1>2, <1>3, <2>1
<1>7. c \in Chars /\ s \in Seq(Chars) /\ Len(s) = 1 /\ s[1] = c
  BY DEF Chars
<1>8. \A i \in 1 .. 1 : i = 1 /\ cursorPos + i - 1 = cursorPos
  BY <1>1
<1> HIDE DEF s
<1>9. A!Insert(s)
  BY <1>4, <1>5, <1>6, <1>7, <1>8, InsertRefines
<1> QED
  BY <1>7, <1>9 DEF s, A!Next, A!Edit

LEMMA KeyPasteRefines ==
    ASSUME Inv, Inv', KeyPaste
    PROVE  A!Next
<1>1. CASE CursorInText
  <2> DEFINE s == Append(clipboard, NL)
             k == Len(s)
             m == Memmove(textBuffer, cursorPos + k, cursorPos, textLen - cursorPos)
  <2>1. /\ s \in Seq(Chars) /\ k = Len(clipboard) + 1 /\ k \in Nat /\ clipboard # <<>>
    <3>1. clipboard \in Seq(Chars) /\ NL \in Chars
      BY DEF Inv, TypeOK, Chars
    <3>2. Len(clipboard) > 0
      BY DEF KeyPaste, PasteFits
    <3> QED
      BY <3>1, <3>2, AppendProperties, EmptySeq
  <2>2. /\ cursorPos \in Nat /\ textLen \in Index /\ textLen \in Nat /\ cursorPos \in 0 .. textLen
    BY <1>1 DEF Inv, TypeOK, IndicesInBuffer, CursorInText
  <2>3. textLen + k \in Index
    <3>1. textLen + Len(clipboard) + 1 < EditBuffSize - 1 /\ Len(clipboard) \in Nat
      BY DEF KeyPaste, PasteFits, Inv, TypeOK
    <3> HIDE DEF k
    <3> QED
      BY <2>1, <2>2, <3>1 DEF Index
  <2>4. /\ textBuffer' = Memcpy(m, cursorPos, s)
        /\ textLen' = textLen + k /\ cursorPos' = cursorPos + k
        /\ clipboard' = clipboard /\ mode = "edit" /\ mode' = "edit"
    <3>1. LET n == Len(clipboard)
              moved == Memmove(textBuffer, cursorPos + n + 1, cursorPos, textLen - cursorPos)
          IN  /\ textBuffer' = Memcpy(moved, cursorPos, s)
              /\ textLen' = textLen + n + 1 /\ cursorPos' = cursorPos + n + 1
              /\ clipboard' = clipboard /\ mode = "edit" /\ mode' = "edit"
      BY <1>1 DEF KeyPaste, block
    <3>2. /\ cursorPos + Len(clipboard) + 1 = cursorPos + k
          /\ textLen + Len(clipboard) + 1 = textLen + k
      <4>1. Len(clipboard) \in Nat
        BY DEF Inv, TypeOK
      <4> HIDE DEF k
      <4> QED
        BY <2>1, <2>2, <4>1
    <3> HIDE DEF k, s
    <3> QED
      BY <3>1, <3>2
  <2> HIDE DEF s, k, m
  <2>5. /\ \A i \in 0 .. cursorPos + k - 1 : m[i] = textBuffer[i]
        /\ \A i \in cursorPos .. textLen - 1 : m[i + k] = textBuffer[i]
    BY ONLY BufferAssumption, <2>1, <2>2, <2>3, MoveBack, ZenonT(60) DEF m
  <2>6. \A i \in 0 .. cursorPos - 1 : textBuffer'[i] = textBuffer[i]
    <3>1. \A i \in 0 .. cursorPos - 1 : i \in Index /\ ~(cursorPos <= i) /\ i \in 0 .. cursorPos + k - 1
      BY <2>1, <2>2 DEF Index
    <3> QED
      BY <2>4, <2>5, <3>1 DEF Memcpy
  <2>7. \A i \in 1 .. k : textBuffer'[cursorPos + i - 1] = s[i]
    <3> SUFFICES ASSUME NEW i \in 1 .. k
                 PROVE  textBuffer'[cursorPos + i - 1] = s[i]
      OBVIOUS
    <3> DEFINE j == cursorPos + i - 1
    <3>1. j \in Index /\ cursorPos <= j /\ j < cursorPos + k /\ j - cursorPos + 1 = i
      BY <2>1, <2>2, <2>3 DEF Index
    <3> HIDE DEF j
    <3>2. textBuffer'[j] = s[j - cursorPos + 1]
      BY <2>4, <3>1 DEF Memcpy, k
    <3> QED
      BY <3>1, <3>2 DEF j
  <2>8. \A i \in cursorPos .. textLen - 1 : textBuffer'[i + k] = textBuffer[i]
    <3>1. \A i \in cursorPos .. textLen - 1 : i + k \in Index /\ ~(i + k < cursorPos + k)
      BY <2>1, <2>2, <2>3 DEF Index
    <3> QED
      BY <2>4, <2>5, <3>1 DEF Memcpy, k
  <2>9. A!Insert(s)
    BY <1>1, <2>1, <2>4, <2>6, <2>7, <2>8, InsertRefines DEF k
  <2> QED
    BY <2>1, <2>4, <2>9 DEF s, A!Next, A!Edit
<1>2. CASE ~CursorInText
  BY <1>2, FaultRefines DEF KeyPaste
<1> QED
  BY <1>1, <1>2

(* Backspace and DEL take out one byte and leave a zero behind the text.   *)
LEMMA OneByteCut ==
    ASSUME Inv, Inv', NEW p \in Nat, p < textLen, NEW q \in Int, q >= textLen - (p + 1),
           textBuffer' = [Memmove(textBuffer, p, p + 1, q) EXCEPT ![textLen - 1] = NUL],
           textLen' = textLen - 1
    PROVE  Bytes(textBuffer, 0, textLen)' = A!Before(p) \o A!After(p + 1)
<1> DEFINE m == Memmove(textBuffer, p, p + 1, q)
<1>1. textLen \in Index /\ textLen \in Nat /\ p + 1 <= textLen /\ DOMAIN m = Index
  <2>1. DOMAIN m = Index
    BY DEF Memmove
  <2> HIDE DEF m
  <2> QED
    BY <2>1 DEF Inv, TypeOK, IndicesInBuffer
<1>2. /\ \A i \in 0 .. p - 1 : m[i] = textBuffer[i]
      /\ \A i \in p .. textLen - 1 - 1 : m[i] = textBuffer[i + 1]
  BY <1>1, MoveForward
<1> HIDE DEF m
<1>3. textBuffer' = [m EXCEPT ![textLen - 1] = NUL]
  BY DEF m
<1>4. \A i \in 0 .. textLen - 2 : textBuffer'[i] = m[i]
  <2>1. \A i \in 0 .. textLen - 2 : i \in Index /\ i # textLen - 1
    BY <1>1 DEF Index
  <2> QED
    BY <1>1, <1>3, <2>1
<1>5. \A i \in 0 .. p - 1 : textBuffer'[i] = textBuffer[i]
  <2>1. \A i \in 0 .. p - 1 : i \in 0 .. textLen - 2
    BY <1>1
  <2> QED
    BY <1>2, <1>4, <2>1
<1>6. \A i \in p .. textLen - 1 - 1 : textBuffer'[i] = textBuffer[i + 1]
  <2>1. \A i \in p .. textLen - 1 - 1 : i \in 0 .. textLen - 2
    BY <1>1
  <2> QED
    BY <1>2, <1>4, <2>1
<1> QED
  BY <1>1, <1>5, <1>6, CutRefines

LEMMA KeyBackspaceRefines ==
    ASSUME Inv, Inv', KeyBackspace
    PROVE  A!Next
<1>1. CASE CursorInText
  <2>1. /\ cursorPos \in Nat /\ textLen \in Nat /\ cursorPos > 0 /\ cursorPos <= textLen
    BY <1>1 DEF KeyBackspace, CursorInText, Inv, TypeOK
  <2>2. /\ textBuffer' = [Memmove(textBuffer, cursorPos - 1, cursorPos, textLen - cursorPos)
                            EXCEPT ![textLen - 1] = NUL]
        /\ cursorPos' = cursorPos - 1 /\ textLen' = textLen - 1
        /\ clipboard' = clipboard /\ mode = "edit" /\ mode' = "edit"
    BY <1>1 DEF KeyBackspace, block
  <2> DEFINE p == cursorPos - 1
  <2>3. /\ p \in Nat /\ p < textLen /\ p + 1 = cursorPos
        /\ textLen - cursorPos \in Int /\ textLen - cursorPos >= textLen - (p + 1)
    BY <2>1
  <2> HIDE DEF p
  <2>4. Bytes(textBuffer, 0, textLen)' = A!Before(p) \o A!After(p + 1)
    <3>1. textBuffer' = [Memmove(textBuffer, p, p + 1, textLen - cursorPos) EXCEPT ![textLen - 1] = NUL]
      BY <2>2, <2>3 DEF p
    <3> QED
      BY <2>2, <2>3, <3>1, OneByteCut
  <2>5. p \in 0 .. Len(Bytes(textBuffer, 0, textLen)) - 1
    BY <2>1, <2>3, AbstractText
  <2>6. A!DeleteAt(p)
    BY <2>2, <2>4, <2>5 DEF A!DeleteAt, p
  <2> QED
    BY <2>1, <2>2, <2>6 DEF A!Next, A!Edit, p
<1>2. CASE ~CursorInText
  BY <1>2, FaultRefines DEF KeyBackspace
<1> QED
  BY <1>1, <1>2

LEMMA KeyDeleteRefines ==
    ASSUME Inv, Inv', KeyDelete
    PROVE  A!Next
<1>1. /\ cursorPos \in Nat /\ textLen \in Nat /\ cursorPos < textLen
      /\ mode = "edit" /\ mode' = "edit" /\ textLen \in Index
  BY DEF KeyDelete, Inv, TypeOK, IndicesInBuffer
<1>2. CASE DeleteChar
  <2>1. /\ textBuffer' = [Memmove(textBuffer, cursorPos, cursorPos + 1, textLen - cursorPos)
                            EXCEPT ![textLen - 1] = NUL]
        /\ textLen' = textLen - 1 /\ cursorPos' = cursorPos /\ clipboard' = clipboard
    BY <1>2 DEF DeleteChar, block
  <2>2. textLen - cursorPos \in Int /\ textLen - cursorPos >= textLen - (cursorPos + 1)
    BY <1>1
  <2>3. Bytes(textBuffer, 0, textLen)' = A!Before(cursorPos) \o A!After(cursorPos + 1)
    BY <1>1, <2>1, <2>2, OneByteCut
  <2>4. cursorPos \in 0 .. Len(Bytes(textBuffer, 0, textLen)) - 1 /\ cursorPos < Len(Bytes(textBuffer, 0, textLen))
    BY <1>1, AbstractText
  <2>5. A!DeleteAt(cursorPos)
    BY <1>1, <2>1, <2>3, <2>4 DEF A!DeleteAt
  <2> QED
    BY <1>1, <2>4, <2>5 DEF A!Next, A!Edit
<1>3. CASE DeleteBlock
  <2> DEFINE n == Len(clipboard)
             p == blockStartPos
             m == Memmove(textBuffer, p, p + n, textLen - (p + n))
  <2>1. /\ n \in Nat /\ p \in Nat /\ n > 0 /\ p + n <= textLen
        /\ Bytes(textBuffer, p, n) = clipboard
    BY <1>3 DEF DeleteBlock, BlockStands, Inv, TypeOK
  <2>2. /\ textBuffer' = [m EXCEPT ![textLen - n] = NUL] /\ DOMAIN m = Index
        /\ textLen' = textLen - n /\ cursorPos' = p /\ clipboard' = <<>>
    BY <1>3 DEF DeleteBlock, Memmove
  <2>3. /\ \A i \in 0 .. p - 1 : m[i] = textBuffer[i]
        /\ \A i \in p .. textLen - n - 1 : m[i] = textBuffer[i + n]
    <3>1. textLen - (p + n) \in Int /\ textLen - (p + n) >= textLen - (p + n)
      BY <1>1, <2>1
    <3> HIDE DEF n, p
    <3> QED
      BY <1>1, <2>1, <3>1, MoveForward
  <2> HIDE DEF n, p, m
  <2>4. \A i \in 0 .. textLen - n - 1 : textBuffer'[i] = m[i]
    <3>1. \A i \in 0 .. textLen - n - 1 : i \in Index /\ i # textLen - n
      BY <1>1, <2>1 DEF Index
    <3> QED
      BY <2>2, <3>1
  <2>5. /\ \A i \in 0 .. p - 1 : textBuffer'[i] = textBuffer[i]
        /\ \A i \in p .. textLen - n - 1 : textBuffer'[i] = textBuffer[i + n]
    <3>1. /\ \A i \in 0 .. p - 1 : i \in 0 .. textLen - n - 1
          /\ \A i \in p .. textLen - n - 1 : i \in 0 .. textLen - n - 1
      BY <1>1, <2>1
    <3> QED
      BY <2>3, <2>4, <3>1
  <2>6. Bytes(textBuffer, 0, textLen)' = A!Before(p) \o A!After(p + n)
    BY <2>1, <2>2, <2>5, CutRefines
  <2>7. p \in 0 .. Len(Bytes(textBuffer, 0, textLen)) - n
    BY <1>1, <2>1, AbstractText
  <2>8. SubSeq(Bytes(textBuffer, 0, textLen), p + 1, p + n) = clipboard
    <3> DEFINE t == Txt(textBuffer, textLen)
               u == SubSeq(t, p + 1, p + n)
    <3>1. /\ t \in Seq(Chars) /\ Len(t) = textLen /\ t = Bytes(textBuffer, 0, textLen)
          /\ \A i \in 1 .. textLen : t[i] = textBuffer[i - 1]
      BY AbstractText, TxtType
    <3> HIDE DEF t
    <3>2. \A i \in p + 1 .. p + n : i \in 1 .. textLen /\ t[i] \in Chars
      <4>1. \A i \in p + 1 .. p + n : i \in 1 .. textLen
        BY <1>1, <2>1
      <4> QED
        BY <3>1, <4>1, ElementOfSeq
    <3>3. /\ u \in Seq(Chars)
          /\ Len(u) = IF p + 1 <= p + n THEN p + n - (p + 1) + 1 ELSE 0
          /\ \A i \in 1 .. p + n - (p + 1) + 1 : u[i] = t[p + 1 + i - 1]
      BY <2>1, <3>2, SubSeqProperties
    <3>4. p + n - (p + 1) + 1 = n /\ p + 1 <= p + n
      BY <2>1
    <3>5. clipboard \in Seq(Chars) /\ Len(clipboard) = n
      BY DEF Inv, TypeOK, n
    <3>6. \A i \in 1 .. n : u[i] = clipboard[i]
      <4>1. \A i \in 1 .. n : /\ p + 1 + i - 1 \in p + 1 .. p + n
                              /\ (p + 1 + i - 1) - 1 = p + i - 1
        BY <2>1
      <4>2. \A i \in 1 .. n : u[i] = textBuffer[p + i - 1]
        BY <3>1, <3>2, <3>3, <3>4, <4>1
      <4>3. \A i \in 1 .. n : clipboard[i] = textBuffer[p + i - 1]
        BY <2>1 DEF Bytes
      <4> QED
        BY <4>2, <4>3
    <3> HIDE DEF u
    <3>7. u = clipboard
      BY <3>3, <3>4, <3>5, <3>6, SeqEqual
    <3> QED
      BY <3>1, <3>7 DEF u
  <2>9. clipboard # <<>>
    <3>1. clipboard = <<>> => Len(clipboard) = 0
      BY EmptySeq
    <3> QED
      BY <2>1, <3>1 DEF n
  <2>10. A!DeleteCopied
    BY <1>1, <2>2, <2>6, <2>7, <2>8, <2>9 DEF A!DeleteCopied, n
  <2> QED
    BY <1>1, <2>10 DEF A!Next, A!Edit
<1> QED
  BY <1>2, <1>3 DEF KeyDelete

(* A key that leaves the text and the copied block alone moves at most the *)
(* cursor.                                                                 *)
LEMMA MoveRefines ==
    ASSUME UNCHANGED <<text, clipboard>>, mode \notin {"prompt", "fault"}, mode' \notin {"prompt", "fault"}
    PROVE  A!Next \/ UNCHANGED A!tvars
<1>1. CASE cursorPos' = cursorPos
  BY <1>1 DEF A!tvars, text
<1>2. CASE cursorPos' # cursorPos
  <2>1. A!Move
    BY <1>2 DEF A!Move, text
  <2> QED
    BY <2>1 DEF A!Next
<1> QED
  BY <1>1, <1>2

LEMMA OpenRefines ==
    ASSUME Inv, Inv', NEW doc \in Documents, Open(doc)
    PROVE  A!Next
<1>1. Len(Loaded(doc)) \in Nat /\ textLen' = Len(Loaded(doc))
  BY LoadedType DEF Open
<1>2. cursorPos' = IF fehlerZeile > 1
                   THEN StartOfLine(textBuffer', textLen', fehlerZeile) ELSE 0
  BY DEF Open
<1>3. cursorPos' \in 0 .. textLen'
  BY <1>1, <1>2, StartOfLineRange
<1>4. /\ Len(Bytes(textBuffer, 0, textLen)') = textLen'
      /\ textLen' <= EditBuffSize - 1
  <2>1. /\ textBuffer' \in [Index -> Chars] /\ textLen' \in Index
        /\ Bytes(textBuffer, 0, textLen)' = Txt(textBuffer', textLen')
    BY DEF Inv, TypeOK, IndicesInBuffer, Txt
  <2>2. textLen' <= EditBuffSize - 1
    BY <2>1 DEF Index
  <2> QED
    BY <2>1, <2>2, TxtType
<1>5. mode = "prompt" /\ mode' = "edit" /\ clipboard' = clipboard
  BY DEF Open, block
<1>6. A!Load
  BY <1>3, <1>4, <1>5 DEF A!Load
<1> QED
  BY <1>6 DEF A!Next

LEMMA NextRefines ==
    ASSUME Inv, Inv', [Next]_vars
    PROVE  [A!Next]_A!tvars
<1> SUFFICES A!Next \/ UNCHANGED A!tvars
  OBVIOUS
<1>1. ASSUME NEW doc \in Documents, Open(doc)
      PROVE  A!Next
  BY <1>1, OpenRefines
<1>2. CASE KeyWithoutEffect \/ KeyMenu \/ MenuEsc
  BY <1>2, MoveRefines DEF KeyWithoutEffect, KeyMenu, MenuEsc, block
<1>3. CASE MenuSave \/ MenuQuit
  <2>1. A!Leave
    BY <1>3 DEF MenuSave, MenuQuit, A!Leave, text, block
  <2>2. mode = "menu"
    BY <1>3 DEF MenuSave, MenuQuit
  <2> QED
    BY <2>1, <2>2 DEF A!Next
<1>4. CASE KeyMark
  BY <1>4, MoveRefines DEF KeyMark
<1>5. CASE KeyCopy
  <2>1. CASE clipboard' = clipboard
    BY <1>5, <2>1, MoveRefines DEF KeyCopy
  <2>2. CASE clipboard' # clipboard
    <3>1. A!Copy
      BY <1>5, <2>2 DEF KeyCopy, A!Copy, text
    <3> QED
      BY <1>5, <3>1 DEF KeyCopy, A!Next
  <2> QED
    BY <2>1, <2>2
<1>6. CASE KeyPaste
  BY <1>6, KeyPasteRefines
<1>7. CASE SearchKey
  BY <1>7, MoveRefines DEF SearchKey, KeySearch, AskContinue, AskNew, SearchCancelled, InputTerm,
                           Search, block
<1>8. CASE CursorKey
  BY <1>8, MoveRefines DEF CursorKey, KeyUp, KeyDown, KeyLeft, KeyRight, KeyPageUp, KeyPageDown,
                           MoveCursor, block
<1>9. CASE KeyDelete
  BY <1>9, KeyDeleteRefines
<1>10. CASE KeyBackspace
  BY <1>10, KeyBackspaceRefines
<1>11. CASE KeyEnter
  <2>1. CASE CursorInText
    BY <1>11, <2>1, KeyCharRefines DEF KeyEnter, block
  <2>2. CASE ~CursorInText
    BY <1>11, <2>2, FaultRefines DEF KeyEnter
  <2> QED
    BY <2>1, <2>2
<1>12. ASSUME NEW c \in PrintableChars, KeyChar(c)
       PROVE  A!Next
  <2>1. CASE CursorInText
    BY <1>12, <2>1, KeyCharRefines DEF KeyChar, block
  <2>2. CASE ~CursorInText
    BY <1>12, <2>2, FaultRefines DEF KeyChar
  <2> QED
    BY <2>1, <2>2
<1>13. CASE Restart
  <2>1. /\ mode = "fault" /\ mode' = "prompt" /\ textLen' = 0 /\ cursorPos' = 0 /\ clipboard' = <<>>
    BY <1>13 DEF Restart, InitialValues
  <2>2. Bytes(textBuffer, 0, textLen)' = <<>>
    BY <2>1 DEF Bytes
  <2> QED
    BY <2>1, <2>2 DEF A!Next, A!Restart, A!Init
<1>14. CASE UNCHANGED vars
  BY <1>14 DEF vars, A!tvars, text, block
<1> QED
  BY <1>1, <1>2, <1>3, <1>4, <1>5, <1>6, <1>7, <1>8, <1>9, <1>10, <1>11, <1>12, <1>13, <1>14
     DEF Next, MenuKey, BlockKey, TextKey

(* The editor implements TextEdit: seen as a sequence with a cursor, the   *)
(* buffer changes only by the piece a key inserts or deletes, nothing else *)
(* of the text is lost, moved or invented by the memory moves, and an edit *)
(* behind the text is the only fault.                                      *)
THEOREM EditorImplementsTextEdit == Spec => ImplementsTextEdit
<1>1. Init => A!Init
  <2> SUFFICES ASSUME Init
               PROVE  A!Init
    OBVIOUS
  <2>1. textLen = 0 /\ cursorPos = 0 /\ clipboard = <<>> /\ mode = "prompt"
    BY DEF Init, InitialValues
  <2>2. Bytes(textBuffer, 0, textLen) = <<>>
    BY <2>1 DEF Bytes
  <2> QED
    BY <2>1, <2>2 DEF A!Init
<1>2. Inv /\ Inv' /\ [Next]_vars => [A!Next]_A!tvars
  BY NextRefines
<1> QED
  BY <1>1, <1>2, InvHolds, PTL DEF Spec, A!Spec, ImplementsTextEdit

=============================================================================
