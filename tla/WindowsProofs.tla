--------------------------- MODULE WindowsProofs ----------------------------
(***************************************************************************)
(* The background of the windows is restored, for every screen, every set  *)
(* of regions and texts and every number of slots, as long as programs     *)
(* keep to the rules of the window commands.  The invariant says where the *)
(* background is kept while it is hidden: a pixel under several windows in *)
(* the copy of the lowest of them.                                         *)
(***************************************************************************)
EXTENDS Windows, SequenceTheorems, TLAPS

USE WindowAssumption

(* The history order lists the windows, each once.                         *)
OrderListsWindows ==
    orderly => /\ \A n \in 1 .. Len(order) : Active(order[n])
               /\ \A i \in Slots : Active(i) => \E n \in 1 .. Len(order) : order[n] = i
               /\ \A m, n \in 1 .. Len(order) : order[m] = order[n] => m = n

(* In orderly use every window has a copy of the region it stands on.      *)
WindowsHaveCopies ==
    orderly => \A i \in Slots : Active(i) =>
        slot[i].rect = slot[i].savedRect /\ slot[i].screenBackup # NoBackup

(* No window below the n-th stands on pixel c.                             *)
LowestAt(n, c) == \A m \in 1 .. n - 1 : c \notin slot[order[m]].savedRect

CopiesHoldBase ==
    orderly => \A n \in 1 .. Len(order) : \A c \in slot[order[n]].savedRect :
        LowestAt(n, c) => slot[order[n]].screenBackup[c] = base[c]

Inv == /\ TypeOK
       /\ OrderListsWindows
       /\ WindowsHaveCopies
       /\ CopiesHoldBase
       /\ BackgroundRestored

-----------------------------------------------------------------------------
(* Types. *)

(* Writing a copy back and drawing a window yield a screen.                *)
LEMMA DrawingTypes ==
    ASSUME TypeOK, NEW i \in Slots, NEW r \in Rects \cup {{}}, NEW t \in Texts
    PROVE  /\ Restored(i) \in [Cells -> Pixels]
           /\ \A s \in [Cells -> Pixels] : Rendered(s, i, r, t) \in [Cells -> Pixels]
<1>1. <<i, t>> \in Pixels
  BY DEF Pixels
<1>2. Restored(i) \in [Cells -> Pixels]
  BY DEF TypeOK, Restored, WindowSlot
<1> QED
  BY <1>1, <1>2 DEF Rendered

(* Every step keeps the types.                                             *)
LEMMA TypesKept == TypeOK /\ [Next]_vars => TypeOK'
<1> SUFFICES ASSUME TypeOK, [Next]_vars
             PROVE  TypeOK'
  OBVIOUS
<1> USE DEF TypeOK
<1>1. ASSUME NEW i \in Slots, NEW r \in Rects, NEW t \in Texts, NEW saved \in BOOLEAN,
             OpenWindow(i, r, t, saved)
      PROVE  TypeOK'
  <2>1. screen' \in [Cells -> Pixels]
    BY <1>1, DrawingTypes DEF OpenWindow
  <2> DEFINE copy == IF saved THEN ReadScreen(r) ELSE NoBackup
             w == [aktiv |-> TRUE, rect |-> r, inhalt |-> t, savedRect |-> r,
                   screenBackup |-> copy]
  <2>2. copy = NoBackup \/ copy \in [r -> Pixels]
    BY DEF ReadScreen
  <2>3. copy \in Copies \cup {NoBackup}
    BY <2>2 DEF Copies
  <2>4. w \in WindowSlot
    BY <2>3 DEF WindowSlot
  <2>5. slot' = [slot EXCEPT ![i] = w]
    BY <1>1 DEF OpenWindow
  <2> HIDE DEF w
  <2>6. slot' \in [Slots -> WindowSlot]
    BY <2>4, <2>5
  <2>7. \A j \in Slots : \/ slot'[j].screenBackup = NoBackup
                         \/ slot'[j].screenBackup \in [slot'[j].savedRect -> Pixels]
    BY <2>2, <2>5 DEF w
  <2>8. order' \in Seq(Slots) /\ orderly' \in BOOLEAN
    BY <1>1 DEF OpenWindow
  <2> QED
    BY <1>1, <2>1, <2>6, <2>7, <2>8 DEF OpenWindow
<1>2. ASSUME NEW i \in Slots, NEW r \in Rects, NEW t \in Texts, OpenAborted(i, r, t)
      PROVE  TypeOK'
  <2>1. slot' \in [Slots -> WindowSlot]
    <3>1. CASE Active(i)
      <4>1. slot' = [slot EXCEPT ![i] = [slot[i] EXCEPT !.rect = r, !.inhalt = t]]
        BY <1>2, <3>1 DEF OpenAborted
      <4>2. [slot[i] EXCEPT !.rect = r, !.inhalt = t] \in WindowSlot
        <5>1. slot[i] \in WindowSlot
          OBVIOUS
        <5> DEFINE old == slot[i]
        <5> HIDE DEF old
        <5>2. [old EXCEPT !.rect = r, !.inhalt = t] \in WindowSlot
          <6>1. old \in WindowSlot
            BY <5>1 DEF old
          <6>2. r \in Rects \cup {{}} /\ t \in Texts \cup {<<>>}
            OBVIOUS
          <6> QED
            BY ONLY <6>1, <6>2 DEF WindowSlot
        <5> QED
          BY <5>2 DEF old
      <4> QED
        BY <4>1, <4>2
    <3>2. CASE ~Active(i)
      BY <1>2, <3>2 DEF OpenAborted
    <3> QED
      BY <3>1, <3>2
  <2>2. \A j \in Slots : slot'[j].screenBackup = slot[j].screenBackup
                         /\ slot'[j].savedRect = slot[j].savedRect
    BY <1>2 DEF OpenAborted, WindowSlot
  <2>3. \A j \in Slots : \/ slot'[j].screenBackup = NoBackup
                         \/ slot'[j].screenBackup \in [slot'[j].savedRect -> Pixels]
    BY <2>2
  <2>4. order' \in Seq(Slots) /\ orderly' \in BOOLEAN
    BY <1>2 DEF OpenAborted
  <2> QED
    BY <1>2, <2>1, <2>3, <2>4 DEF OpenAborted
<1>3. ASSUME NEW i \in Slots, NEW t \in Texts, UpdateWindow(i, t)
      PROVE  TypeOK'
  <2>1. slot[i].rect \in Rects \cup {{}}
    BY DEF WindowSlot
  <2>2. screen' \in [Cells -> Pixels]
    BY <1>3, <2>1, DrawingTypes DEF UpdateWindow
  <2>3. slot' \in [Slots -> WindowSlot]
    <3>1. slot' = [slot EXCEPT ![i] = [slot[i] EXCEPT !.inhalt = t]]
      BY <1>3 DEF UpdateWindow
    <3> DEFINE old == slot[i]
    <3> HIDE DEF old
    <3>2. [old EXCEPT !.inhalt = t] \in WindowSlot
      <4>1. old \in WindowSlot
        BY DEF old
      <4>2. t \in Texts \cup {<<>>}
        OBVIOUS
      <4> QED
        BY ONLY <4>1, <4>2 DEF WindowSlot
    <3> QED
      BY <3>1, <3>2 DEF old
  <2>4. \A j \in Slots : slot'[j].screenBackup = slot[j].screenBackup
                         /\ slot'[j].savedRect = slot[j].savedRect
    BY <1>3 DEF UpdateWindow, WindowSlot
  <2> QED
    BY <1>3, <2>2, <2>3, <2>4 DEF UpdateWindow
<1>4. ASSUME NEW i \in Slots, CloseWindow(i)
      PROVE  TypeOK'
  <2>1. screen' \in [Cells -> Pixels]
    BY <1>4 DEF CloseWindow, Restored, WindowSlot
  <2>2. Closed \in WindowSlot /\ Closed.screenBackup = NoBackup
    BY DEF Closed, WindowSlot
  <2>3. slot' = [slot EXCEPT ![i] = Closed]
    BY <1>4 DEF CloseWindow
  <2>4. slot' \in [Slots -> WindowSlot]
    BY <2>2, <2>3
  <2>5. \A j \in Slots : \/ slot'[j].screenBackup = NoBackup
                         \/ slot'[j].screenBackup \in [slot'[j].savedRect -> Pixels]
    BY <2>2, <2>3
  <2>6. orderly' \in BOOLEAN /\ Window_aktiv' \in BOOLEAN
    BY <1>4 DEF CloseWindow
  <2>7. order' \in Seq(Slots)
    <3>1. Len(order) \in Nat /\ Len(order) - 1 <= Len(order)
      OBVIOUS
    <3>2. \A n \in 1 .. Len(order) - 1 : order[n] \in Slots
      BY <3>1
    <3>3. SubSeq(order, 1, Len(order) - 1) \in Seq(Slots)
      BY <3>1, <3>2, SubSeqProperties
    <3> QED
      BY <1>4, <3>3 DEF CloseWindow
  <2> QED
    BY <1>4, <2>1, <2>4, <2>5, <2>6, <2>7 DEF CloseWindow
<1>5. ASSUME NEW c \in Cells, NEW color \in Colors, Draw(c, color)
      PROVE  TypeOK'
  BY <1>5 DEF Draw, Pixels
<1>6. CASE StartScript \/ EndScript
  BY <1>6 DEF StartScript, EndScript, history
<1>7. CASE UNCHANGED vars
  BY <1>7 DEF vars
<1> QED
  BY <1>1, <1>2, <1>3, <1>4, <1>5, <1>6, <1>7 DEF Next, WindowCommand

-----------------------------------------------------------------------------
(* Orderly use. *)

Orderly == OrderListsWindows /\ WindowsHaveCopies /\ CopiesHoldBase /\ BackgroundRestored

(* A closed slot is opened: the screen it copies shows the base wherever   *)
(* no other window stands.                                                 *)
LEMMA OpenKeepsOrder ==
    ASSUME Inv, NEW i \in Slots, NEW r \in Rects, NEW t \in Texts, NEW saved \in BOOLEAN,
           OpenWindow(i, r, t, saved)
    PROVE  Orderly'
<1> SUFFICES ASSUME orderly' PROVE Orderly'
  BY DEF Orderly, OrderListsWindows, WindowsHaveCopies, CopiesHoldBase, BackgroundRestored
<1> DEFINE w == [aktiv |-> TRUE, rect |-> r, inhalt |-> t, savedRect |-> r,
                 screenBackup |-> ReadScreen(r)]
<1>1. /\ orderly /\ ~Active(i) /\ saved = TRUE /\ Fits(r, t)
      /\ slot' = [slot EXCEPT ![i] = w]
      /\ order' = Append(order, i)
      /\ screen' = Rendered(screen, i, r, t)
      /\ base' = base
  BY DEF OpenWindow
<1>2. /\ slot \in [Slots -> WindowSlot] /\ order \in Seq(Slots)
      /\ screen \in [Cells -> Pixels] /\ r \subseteq Cells
  BY DEF Inv, TypeOK
<1>3. /\ slot'[i] = w /\ \A j \in Slots \ {i} : slot'[j] = slot[j]
      /\ Len(order') = Len(order) + 1 /\ order'[Len(order) + 1] = i
      /\ \A n \in 1 .. Len(order) : order'[n] = order[n] /\ order[n] \in Slots
      /\ Len(order) \in Nat
  <2> HIDE DEF w
  <2> QED
    BY <1>1, <1>2
<1>4. \A n \in 1 .. Len(order) : order[n] # i
  BY <1>1 DEF Inv, OrderListsWindows
<1>5. OrderListsWindows'
  <2>1. \A n \in 1 .. Len(order') : Active(order[n])' \/ n = Len(order) + 1
    BY <1>1, <1>3, <1>4 DEF Inv, OrderListsWindows, Active
  <2>2. \A n \in 1 .. Len(order') : Active(order[n])'
    BY <1>1, <1>3, <1>4 DEF Inv, OrderListsWindows, Active
  <2>3. \A j \in Slots : Active(j)' => \E n \in 1 .. Len(order') : order'[n] = j
    <3>1. \E n \in 1 .. Len(order') : order'[n] = i
      BY <1>3
    <3>2. ASSUME NEW j \in Slots \ {i}, Active(j)'
          PROVE  \E n \in 1 .. Len(order') : order'[n] = j
      <4>1. PICK n \in 1 .. Len(order) : order[n] = j
        BY <1>1, <1>3, <3>2 DEF Inv, OrderListsWindows, Active
      <4> QED
        BY <1>3, <4>1
    <3> QED
      BY <3>1, <3>2
  <2>4. \A m, n \in 1 .. Len(order') : order'[m] = order'[n] => m = n
    BY <1>1, <1>3, <1>4 DEF Inv, OrderListsWindows
  <2> QED
    BY <2>2, <2>3, <2>4 DEF OrderListsWindows
<1>6. WindowsHaveCopies'
  <2>1. ReadScreen(r) # NoBackup
    BY <1>2 DEF ReadScreen, Pixels
  <2> QED
    BY <1>1, <1>3, <2>1 DEF Inv, WindowsHaveCopies, Active
<1>7. CopiesHoldBase'
  <2> SUFFICES ASSUME NEW n \in 1 .. Len(order'), NEW c \in slot'[order'[n]].savedRect,
                      \A m \in 1 .. n - 1 : c \notin slot'[order'[m]].savedRect
               PROVE  slot'[order'[n]].screenBackup[c] = base[c]
    BY <1>1 DEF CopiesHoldBase, LowestAt
  <2>1. CASE n <= Len(order)
    <3>1. n \in 1 .. Len(order) /\ slot'[order'[n]] = slot[order[n]]
      BY <1>3, <1>4, <2>1
    <3>2. \A m \in 1 .. n - 1 : slot'[order'[m]] = slot[order[m]]
      BY <1>3, <1>4, <2>1
    <3>3. LowestAt(n, c)
      BY <3>2 DEF LowestAt
    <3> QED
      BY <1>1, <3>1, <3>3 DEF Inv, CopiesHoldBase
  <2>2. CASE n = Len(order) + 1
    <3>1. c \in r /\ slot'[order'[n]].screenBackup[c] = screen[c]
      BY <1>3, <2>2 DEF ReadScreen
    <3>2. \A m \in 1 .. Len(order) : c \notin slot[order[m]].savedRect
      BY <1>3, <1>4, <2>2
    <3>3. \A j \in Slots : Active(j) => c \notin slot[j].savedRect
      BY <1>1, <3>2 DEF Inv, OrderListsWindows
    <3>4. screen[c] = base[c]
      BY <1>1, <1>2, <3>1, <3>3 DEF Inv, BackgroundRestored
    <3> QED
      BY <3>1, <3>4
  <2> QED
    BY <1>3, <2>1, <2>2
<1>8. BackgroundRestored'
  <2> SUFFICES ASSUME NEW c \in Cells,
                      \A j \in Slots : Active(j)' => c \notin slot'[j].savedRect
               PROVE  screen'[c] = base[c]
    BY <1>1 DEF BackgroundRestored
  <2>1. c \notin r
    BY <1>3 DEF Active
  <2>2. \A j \in Slots : Active(j) => c \notin slot[j].savedRect
    BY <1>1, <1>3 DEF Active
  <2>3. screen'[c] = screen[c]
    BY <1>1, <2>1 DEF Rendered, Painted, Fits
  <2> QED
    BY <1>1, <2>2, <2>3 DEF Inv, BackgroundRestored
<1> QED
  BY <1>5, <1>6, <1>7, <1>8 DEF Orderly

(* Steps that keep the regions and copies of the windows, their order and  *)
(* the base, and the screen outside the windows.                           *)
LEMMA ContentKeepsOrder ==
    ASSUME Inv, orderly' => orderly, order' = order, base' = base,
           slot' \in [Slots -> WindowSlot],
           \A j \in Slots : /\ slot'[j].aktiv = slot[j].aktiv
                            /\ slot'[j].rect = slot[j].rect
                            /\ slot'[j].savedRect = slot[j].savedRect
                            /\ slot'[j].screenBackup = slot[j].screenBackup,
           \A c \in Cells : (\A j \in Slots : Active(j) => c \notin slot[j].savedRect)
                                => screen'[c] = screen[c]
    PROVE  Orderly'
<1>1. OrderListsWindows' /\ WindowsHaveCopies'
  BY DEF Inv, TypeOK, OrderListsWindows, WindowsHaveCopies, Active
<1>2. \A n \in 1 .. Len(order) : order[n] \in Slots
  BY DEF Inv, TypeOK
<1>3. CopiesHoldBase'
  <2> SUFFICES ASSUME orderly', NEW n \in 1 .. Len(order), NEW c \in slot'[order[n]].savedRect,
                      \A m \in 1 .. n - 1 : c \notin slot'[order[m]].savedRect
               PROVE  slot'[order[n]].screenBackup[c] = base[c]
    BY DEF CopiesHoldBase, LowestAt
  <2>1. \A m \in 1 .. n - 1 : m \in 1 .. Len(order)
    BY DEF Inv, TypeOK
  <2>2. LowestAt(n, c) /\ c \in slot[order[n]].savedRect
    BY <1>2, <2>1 DEF LowestAt
  <2> QED
    BY <1>2, <2>2 DEF Inv, CopiesHoldBase
<1>4. BackgroundRestored'
  BY DEF Inv, BackgroundRestored, Active
<1> QED
  BY <1>1, <1>3, <1>4 DEF Orderly

(* The topmost window closes: the pixels that come to light show the base, *)
(* or are still covered by a window below.                                 *)
LEMMA CloseKeepsOrder ==
    ASSUME Inv, NEW i \in Slots, CloseWindow(i)
    PROVE  Orderly'
<1> SUFFICES ASSUME orderly' PROVE Orderly'
  BY DEF Orderly, OrderListsWindows, WindowsHaveCopies, CopiesHoldBase, BackgroundRestored
<1>1. /\ orderly /\ Active(i) /\ order[Len(order)] = i
      /\ slot' = [slot EXCEPT ![i] = Closed]
      /\ order' = SubSeq(order, 1, Len(order) - 1)
      /\ screen' = Restored(i)
      /\ base' = base
  BY DEF CloseWindow
<1>2. /\ slot \in [Slots -> WindowSlot] /\ order \in Seq(Slots)
      /\ screen \in [Cells -> Pixels]
  BY DEF Inv, TypeOK
<1>3. Len(order) \in Nat \ {0}
  <2>1. PICK n \in 1 .. Len(order) : order[n] = i
    BY <1>1 DEF Inv, OrderListsWindows
  <2> QED
    BY <1>2, <2>1
<1> DEFINE top == Len(order)
<1>4. /\ Len(order') = top - 1
      /\ \A n \in 1 .. top - 1 : order'[n] = order[n]
  <2>1. \A n \in 1 .. top - 1 : order[n] \in Slots
    BY <1>2, <1>3
  <2>2. top - 1 \in Nat /\ top - 1 <= top
    BY <1>3
  <2> QED
    <3>1. 1 \in Int /\ Len(order) - 1 \in Int
      BY <1>3
    <3> DEFINE k == Len(order) - 1
               rest == SubSeq(order, 1, k)
    <3>2. /\ Len(rest) = IF 1 <= k THEN k - 1 + 1 ELSE 0
          /\ \A n \in 1 .. k - 1 + 1 : rest[n] = order[1 + n - 1]
      <4> HIDE DEF k
      <4>1. 1 \in Int /\ k \in Int /\ \A n \in 1 .. k : order[n] \in Slots
        BY <2>1, <3>1 DEF k
      <4> QED
        BY <4>1, SubSeqProperties
    <3>3. Len(rest) = k /\ \A n \in 1 .. k : rest[n] = order[n]
      <4> HIDE DEF rest, k
      <4>1. k \in Nat
        BY <2>2 DEF k
      <4> QED
        BY <3>2, <4>1
    <3> QED
      BY <1>1, <3>3
<1>5. \A n \in 1 .. top - 1 : n \in 1 .. top /\ order[n] \in Slots /\ order[n] # i
  <2>1. top \in 1 .. top /\ \A n \in 1 .. top - 1 : n \in 1 .. top /\ n # top
    BY <1>3
  <2> QED
    BY <1>1, <1>2, <2>1 DEF Inv, OrderListsWindows
<1>6. /\ ~slot'[i].aktiv
      /\ \A j \in Slots \ {i} : slot'[j] = slot[j]
  <2>1. Closed.aktiv = FALSE
    BY DEF Closed
  <2> QED
    BY <1>1, <1>2, <2>1
<1>7. OrderListsWindows'
  <2>1. \A n \in 1 .. Len(order') : Active(order[n])'
    BY <1>1, <1>4, <1>5, <1>6 DEF Inv, OrderListsWindows, Active
  <2>2. ASSUME NEW j \in Slots, Active(j)'
        PROVE  \E n \in 1 .. Len(order') : order'[n] = j
    <3>1. j # i /\ Active(j)
      BY <1>6, <2>2 DEF Active
    <3>2. PICK n \in 1 .. top : order[n] = j
      BY <1>1, <3>1 DEF Inv, OrderListsWindows
    <3>3. n \in 1 .. top - 1
      BY <1>1, <1>3, <3>1, <3>2
    <3> QED
      BY <1>4, <3>2, <3>3
  <2>3. \A m, n \in 1 .. Len(order') : order'[m] = order'[n] => m = n
    BY <1>1, <1>4, <1>5 DEF Inv, OrderListsWindows
  <2> QED
    BY <2>1, <2>2, <2>3 DEF OrderListsWindows
<1>8. WindowsHaveCopies'
  BY <1>1, <1>6 DEF Inv, WindowsHaveCopies, Active
<1>9. CopiesHoldBase'
  <2> SUFFICES ASSUME NEW n \in 1 .. top - 1, NEW c \in slot'[order'[n]].savedRect,
                      \A m \in 1 .. n - 1 : c \notin slot'[order'[m]].savedRect
               PROVE  slot'[order'[n]].screenBackup[c] = base[c]
    BY <1>1, <1>4 DEF CopiesHoldBase, LowestAt
  <2>1. slot'[order'[n]] = slot[order[n]]
    BY <1>4, <1>5, <1>6
  <2>2. \A m \in 1 .. n - 1 : slot'[order'[m]] = slot[order[m]]
    <3>1. \A m \in 1 .. n - 1 : m \in 1 .. top - 1
      BY <1>3
    <3> QED
      BY <1>4, <1>5, <1>6, <3>1
  <2>3. LowestAt(n, c)
    BY <2>2 DEF LowestAt
  <2> QED
    BY <1>1, <1>5, <2>1, <2>3 DEF Inv, CopiesHoldBase
<1>10. BackgroundRestored'
  <2> SUFFICES ASSUME NEW c \in Cells,
                      \A j \in Slots : Active(j)' => c \notin slot'[j].savedRect
               PROVE  screen'[c] = base[c]
    BY <1>1 DEF BackgroundRestored
  <2>1. \A j \in Slots \ {i} : Active(j) => c \notin slot[j].savedRect
    BY <1>6 DEF Active
  <2>2. slot[i].screenBackup # NoBackup
    BY <1>1 DEF Inv, WindowsHaveCopies
  <2>3. CASE c \in slot[i].savedRect
    <3>1. screen'[c] = slot[i].screenBackup[c]
      BY <1>1, <2>2, <2>3 DEF Restored
    <3>2. LowestAt(top, c)
      BY <1>1, <1>5, <2>1 DEF LowestAt, Inv, OrderListsWindows
    <3>3. top \in 1 .. top
      BY <1>3
    <3> QED
      BY <1>1, <2>3, <3>1, <3>2, <3>3 DEF Inv, CopiesHoldBase
  <2>4. CASE c \notin slot[i].savedRect
    <3>1. screen'[c] = screen[c]
      BY <1>1, <2>2, <2>4 DEF Restored
    <3> QED
      BY <1>1, <2>1, <2>4, <3>1 DEF Inv, BackgroundRestored
  <2> QED
    BY <2>3, <2>4
<1> QED
  BY <1>7, <1>8, <1>9, <1>10 DEF Orderly

(* A pixel is drawn: on the base too, unless a window stands there.        *)
LEMMA DrawKeepsOrder ==
    ASSUME Inv, NEW c \in Cells, NEW color \in Colors, Draw(c, color)
    PROVE  Orderly'
<1>1. OrderListsWindows' /\ WindowsHaveCopies'
  BY DEF Draw, Inv, OrderListsWindows, WindowsHaveCopies, Active
<1>2. CASE \E j \in Slots : Active(j) /\ c \in slot[j].savedRect
  <2>1. base' = base /\ \A d \in Cells \ {c} : screen'[d] = screen[d]
    BY <1>2 DEF Draw, Inv, TypeOK
  <2>2. CopiesHoldBase'
    BY <2>1 DEF Draw, Inv, CopiesHoldBase, LowestAt
  <2>3. BackgroundRestored'
    BY <1>2, <2>1 DEF Draw, Inv, BackgroundRestored, Active
  <2> QED
    BY <1>1, <2>2, <2>3 DEF Orderly
<1>3. CASE \A j \in Slots : Active(j) => c \notin slot[j].savedRect
  <2>1. /\ base' = [base EXCEPT ![c] = color]
        /\ screen' = [screen EXCEPT ![c] = color]
        /\ base \in [Cells -> Colors] /\ screen \in [Cells -> Pixels]
    BY <1>3 DEF Draw, Inv, TypeOK
  <2>2. /\ base'[c] = screen'[c]
        /\ \A d \in Cells \ {c} : base'[d] = base[d] /\ screen'[d] = screen[d]
    BY <2>1
  <2>3. CopiesHoldBase'
    <3> SUFFICES ASSUME orderly, NEW n \in 1 .. Len(order), NEW d \in slot[order[n]].savedRect,
                        LowestAt(n, d)
                 PROVE  slot[order[n]].screenBackup[d] = base'[d]
      BY DEF Draw, CopiesHoldBase, LowestAt
    <3>1. order[n] \in Slots /\ Active(order[n])
      BY DEF Inv, TypeOK, OrderListsWindows
    <3>2. d # c
      BY <1>3, <3>1
    <3>3. d \in Cells
      BY <3>1 DEF Inv, TypeOK, WindowSlot
    <3> QED
      BY <2>2, <3>2, <3>3 DEF Inv, CopiesHoldBase
  <2>4. BackgroundRestored'
    BY <2>2 DEF Draw, Inv, BackgroundRestored, Active
  <2> QED
    BY <1>1, <2>3, <2>4 DEF Orderly
<1> QED
  BY <1>2, <1>3

-----------------------------------------------------------------------------
(* The theorems. *)

LEMMA InvInit == Init => Inv
<1> SUFFICES ASSUME Init PROVE Inv
  OBVIOUS
<1>1. Closed \in WindowSlot /\ Closed.screenBackup = NoBackup /\ Closed.aktiv = FALSE
  BY DEF Closed, WindowSlot
<1>2. TypeOK
  <2>1. /\ screen \in [Cells -> Pixels] /\ base \in [Cells -> Colors]
        /\ Window_aktiv \in BOOLEAN /\ script \in BOOLEAN /\ orderly \in BOOLEAN
        /\ order \in Seq(Slots)
    <3>1. screen \in [Cells -> Colors] /\ base = screen
      BY DEF Init
    <3>2. screen \in [Cells -> Pixels]
      BY <3>1 DEF Pixels
    <3>3. Window_aktiv \in BOOLEAN /\ script \in BOOLEAN /\ orderly \in BOOLEAN
      BY DEF Init
    <3>4. order \in Seq(Slots)
      BY DEF Init
    <3> QED
      BY <3>1, <3>2, <3>3, <3>4
  <2>2. slot \in [Slots -> WindowSlot] /\ \A i \in Slots : slot[i].screenBackup = NoBackup
    BY <1>1 DEF Init
  <2> QED
    BY <2>1, <2>2 DEF TypeOK
<1>3. Len(order) = 0 /\ \A i \in Slots : ~Active(i)
  BY <1>1 DEF Init, Active
<1> QED
  BY <1>2, <1>3 DEF Inv, Init, OrderListsWindows, WindowsHaveCopies, CopiesHoldBase,
                    BackgroundRestored

LEMMA InvStep == Inv /\ [Next]_vars => Inv'
<1> SUFFICES ASSUME Inv, [Next]_vars
             PROVE  Inv'
  OBVIOUS
<1>1. TypeOK'
  BY TypesKept DEF Inv
<1>2. slot' \in [Slots -> WindowSlot]
  BY <1>1 DEF TypeOK
<1>3. ASSUME NEW i \in Slots, NEW r \in Rects, NEW t \in Texts, OpenAborted(i, r, t)
      PROVE  Orderly'
  <2>1. CASE orderly'
    BY <1>2, <1>3, <2>1, ContentKeepsOrder DEF OpenAborted
  <2>2. CASE ~orderly'
    BY <2>2 DEF Orderly, OrderListsWindows, WindowsHaveCopies, CopiesHoldBase,
                BackgroundRestored
  <2> QED
    BY <2>1, <2>2
<1>4. ASSUME NEW i \in Slots, NEW t \in Texts, UpdateWindow(i, t)
      PROVE  Orderly'
  <2>1. CASE orderly'
    <3>1. /\ orderly /\ order' = order /\ base' = base /\ Active(i)
          /\ Fits(slot[i].rect, t)
      BY <1>4, <2>1 DEF UpdateWindow
    <3>2. \A j \in Slots : /\ slot'[j].aktiv = slot[j].aktiv
                           /\ slot'[j].rect = slot[j].rect
                           /\ slot'[j].savedRect = slot[j].savedRect
                           /\ slot'[j].screenBackup = slot[j].screenBackup
      BY <1>4 DEF UpdateWindow, Inv, TypeOK, WindowSlot
    <3>3. slot[i].rect = slot[i].savedRect
      BY <3>1 DEF Inv, WindowsHaveCopies
    <3>4. ASSUME NEW c \in Cells, \A j \in Slots : Active(j) => c \notin slot[j].savedRect
          PROVE  screen'[c] = screen[c]
      <4>1. c \notin slot[i].savedRect /\ c \notin Painted(slot[i].rect, t)
        BY <3>1, <3>3, <3>4 DEF Painted, Fits
      <4> QED
        BY <1>4, <4>1 DEF UpdateWindow, Rendered, Restored
    <3> QED
      BY <1>2, <3>1, <3>2, <3>4, ContentKeepsOrder
  <2>2. CASE ~orderly'
    BY <2>2 DEF Orderly, OrderListsWindows, WindowsHaveCopies, CopiesHoldBase,
                BackgroundRestored
  <2> QED
    BY <2>1, <2>2
<1>5. ASSUME StartScript \/ EndScript \/ UNCHANGED vars
      PROVE  Orderly'
  BY <1>2, <1>5, ContentKeepsOrder DEF StartScript, EndScript, vars, history
<1>6. Orderly'
  <2>1. CASE WindowCommand
    BY <1>3, <1>4, <2>1, OpenKeepsOrder, CloseKeepsOrder DEF WindowCommand
  <2>2. ASSUME NEW c \in Cells, NEW color \in Colors, Draw(c, color)
        PROVE  Orderly'
    BY <2>2, DrawKeepsOrder
  <2> QED
    BY <1>5, <2>1, <2>2 DEF Next
<1> QED
  BY <1>1, <1>6 DEF Inv, Orderly

(* The flag follows the windows: a command that opens one sets it, the one *)
(* that closes the last one clears it, no other touches either.            *)
LEMMA FlagKept == TypeOK /\ FlagTellsWindows /\ [Next]_vars => FlagTellsWindows'
<1> SUFFICES ASSUME TypeOK, FlagTellsWindows, [Next]_vars
             PROVE  FlagTellsWindows'
  OBVIOUS
<1> USE DEF FlagTellsWindows, Active
<1>1. slot \in [Slots -> WindowSlot]
  BY DEF TypeOK
<1>2. ASSUME NEW i \in Slots, NEW r \in Rects, NEW t \in Texts, NEW saved \in BOOLEAN,
             OpenWindow(i, r, t, saved)
      PROVE  FlagTellsWindows'
  <2>1. slot'[i].aktiv
    BY <1>1, <1>2 DEF OpenWindow
  <2> QED
    BY <1>2, <2>1 DEF OpenWindow
<1>3. ASSUME NEW i \in Slots, NEW r \in Rects, NEW t \in Texts,
             OpenAborted(i, r, t) \/ UpdateWindow(i, t)
      PROVE  FlagTellsWindows'
  <2>1. \A j \in Slots : slot'[j].aktiv = slot[j].aktiv
    BY <1>1, <1>3 DEF OpenAborted, UpdateWindow, WindowSlot
  <2> QED
    BY <1>3, <2>1 DEF OpenAborted, UpdateWindow
<1>4. ASSUME NEW i \in Slots, CloseWindow(i)
      PROVE  FlagTellsWindows'
  BY <1>4 DEF CloseWindow
<1>5. ASSUME NEW c \in Cells, NEW color \in Colors, Draw(c, color)
      PROVE  FlagTellsWindows'
  BY <1>5 DEF Draw
<1>6. CASE StartScript \/ EndScript \/ UNCHANGED vars
  BY <1>6 DEF StartScript, EndScript, vars, history
<1>7. CASE WindowCommand
  <2>1. PICK i \in Slots :
            \/ \E r \in Rects, t \in Texts :
                   (\E saved \in BOOLEAN : OpenWindow(i, r, t, saved)) \/ OpenAborted(i, r, t)
            \/ \E t \in Texts : UpdateWindow(i, t)
            \/ CloseWindow(i)
    BY <1>7 DEF WindowCommand
  <2>2. CASE \E t \in Texts : UpdateWindow(i, t)
    <3>1. slot' = slot \/ \A j \in Slots : slot'[j].aktiv = slot[j].aktiv
      BY <1>1, <2>2 DEF UpdateWindow, WindowSlot
    <3> QED
      BY <2>2, <3>1 DEF UpdateWindow
  <2> QED
    BY <1>2, <1>3, <1>4, <2>1, <2>2
<1> QED
  BY <1>5, <1>6, <1>7 DEF Next

(* Every variable keeps its type; a slot's copy of the screen always has   *)
(* the extent of the region it writes it back to.                          *)
THEOREM WindowsTypeCorrect == Spec => []TypeOK
<1>1. Inv => TypeOK
  BY DEF Inv
<1> QED
  BY <1>1, InvInit, InvStep, PTL DEF Spec

(* As long as every window has a copy of its region and a text that fits,  *)
(* and the topmost window is closed first, the screen outside the windows  *)
(* is what it were without them, and all of it is when the last one closes.*)
THEOREM WindowsRestoreBackground == Spec => []BackgroundRestored
<1>1. Inv => BackgroundRestored
  BY DEF Inv
<1> QED
  BY <1>1, InvInit, InvStep, PTL DEF Spec

(* Window_aktiv is set exactly while some window is open, however windows  *)
(* are opened, taken over, aborted and closed: what depends on the flag    *)
(* never misses a window, and never finds one that is gone.                *)
THEOREM WindowsFlagExact == Spec => []FlagTellsWindows
<1>1. Init => TypeOK /\ FlagTellsWindows
  <2>1. Init => TypeOK
    BY InvInit DEF Inv
  <2>2. Init => FlagTellsWindows
    BY DEF Init, Closed, FlagTellsWindows, Active
  <2> QED
    BY <2>1, <2>2
<1>2. TypeOK /\ FlagTellsWindows /\ [Next]_vars => (TypeOK /\ FlagTellsWindows)'
  BY TypesKept, FlagKept
<1> QED
  BY <1>1, <1>2, PTL DEF Spec

=============================================================================
