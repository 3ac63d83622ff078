---------------------------- MODULE LuaSortProofs ---------------------------
(***************************************************************************)
(* table.sort is right for tables of every length: whatever the comparison *)
(* function answers, the table keeps its elements and the scans stay in    *)
(* their part; and by an order it ends sorted, without the error for an    *)
(* invalid order function.  The invariant compares the elements at two     *)
(* positions unless one part that is still to be sorted holds both.        *)
(***************************************************************************)
EXTENDS LuaSort, SequenceTheorems, TLAPS

USE SortAssumption

Part == [lo : Nat, up : Nat, random : BOOLEAN]

Apart(p, q) == p.up < q.lo \/ q.up < p.lo
AllApart(ps) == \A m, n \in 1 .. Len(ps) : m # n => Apart(ps[m], ps[n])

(* A part has two elements or more.                                        *)
Fits(p, n) == 1 <= p.lo /\ p.lo < p.up /\ p.up <= n

Questions == {"ends", "low", "high", "up", "down", "done", "error"}

Scans ==
    /\ at \in {"low", "high"} => pivot \in lo + 1 .. up - 1
    /\ at = "up" => i \in lo + 1 .. up - 1 /\ j \in lo + 1 .. up - 1
    /\ at = "down" => i \in lo + 1 .. up - 1 /\ j \in lo .. up - 2

Shape ==
    /\ array \in Seq(Nat) /\ ToSet(array) = 1 .. Len(array)
    /\ order = AnyAnswer \/ order \in [1 .. Len(array) -> Ranks]
    /\ todo \in Seq(Part) /\ AllApart(todo)
    /\ \A m \in 1 .. Len(todo) : Fits(todo[m], Len(array))
    /\ at \in Questions
    /\ at = "done" <=> todo = <<>>
    /\ Scans

Rank(k) == order[array[k]]

(* The positions k and l are in one part that is still to be sorted.       *)
Together(k, l) == \E m \in 1 .. Len(todo) : {k, l} \subseteq todo[m].lo .. todo[m].up

PartsInOrder ==
    \A k, l \in 1 .. Len(array) : k < l /\ ~Together(k, l) => Rank(k) <= Rank(l)

(* The part that is being sorted: what the partition knows of its elements.*)
HeadInOrder ==
    /\ at # "error"
    /\ at \in {"low", "high"} => Rank(lo) <= Rank(up)
    /\ at = "high" => Rank(lo) <= Rank(pivot)
    /\ at = "up" => /\ \A k \in lo .. i - 1 : Rank(k) <= Rank(up - 1)
                    /\ \A k \in j .. up : Rank(up - 1) <= Rank(k)
    /\ at = "down" => /\ \A k \in lo .. i - 1 : Rank(k) <= Rank(up - 1)
                      /\ \A k \in {i} \cup (j + 1 .. up) : Rank(up - 1) <= Rank(k)

Inv == /\ Shape
       /\ order # AnyAnswer => PartsInOrder /\ HeadInOrder

-----------------------------------------------------------------------------
(* The table. *)

(* Exchanging two elements.                                                *)
LEMMA SwapProperties ==
    ASSUME NEW s \in Seq(Nat), NEW x \in 1 .. Len(s), NEW y \in 1 .. Len(s)
    PROVE  /\ Swapped(s, x, y) \in Seq(Nat)
           /\ Len(Swapped(s, x, y)) = Len(s)
           /\ Swapped(s, x, y)[x] = s[y] /\ Swapped(s, x, y)[y] = s[x]
           /\ \A k \in 1 .. Len(s) : k \notin {x, y} => Swapped(s, x, y)[k] = s[k]
           /\ ToSet(Swapped(s, x, y)) = ToSet(s)
<1> DEFINE w == Swapped(s, x, y)
           n == Len(s)
<1>1. n \in Nat /\ s \in [1 .. n -> Nat] /\ DOMAIN s = 1 .. n
  OBVIOUS
<1>2. w = [k \in 1 .. n |-> IF k = y THEN s[x] ELSE IF k = x THEN s[y] ELSE s[k]]
  BY <1>1 DEF Swapped
<1>3. w \in [1 .. n -> Nat]
  BY <1>1, <1>2
<1>4. w \in Seq(Nat) /\ Len(w) = n /\ DOMAIN w = 1 .. n
  <2> HIDE DEF w, n
  <2>1. w \in Seq(Nat)
    BY ONLY <1>1, <1>3, SeqDef
  <2> QED
    BY ONLY <1>1, <1>3, <2>1
<1>5. w[x] = s[y] /\ w[y] = s[x] /\ \A k \in 1 .. n : k \notin {x, y} => w[k] = s[k]
  BY <1>2
<1>6. ToSet(w) = ToSet(s)
  <2>1. \A k \in 1 .. n : \E l \in 1 .. n : w[k] = s[l]
    BY <1>5
  <2>2. \A k \in 1 .. n : \E l \in 1 .. n : s[k] = w[l]
    BY <1>5
  <2>3. ToSet(w) = {w[k] : k \in 1 .. n} /\ ToSet(s) = {s[k] : k \in 1 .. n}
    BY <1>1, <1>4 DEF ToSet
  <2> HIDE DEF w, n
  <2> QED
    BY ONLY <2>1, <2>2, <2>3
<1> QED
  BY <1>4, <1>5, <1>6

(* The first part and the others.                                          *)
LEMMA HeadPart ==
    ASSUME Shape, todo # <<>>
    PROVE  /\ Head(todo) = todo[1] /\ Head(todo) \in Part
           /\ Len(todo) \in Nat \ {0} /\ Len(array) \in Nat
           /\ lo \in 1 .. Len(array) /\ up \in 1 .. Len(array) /\ lo < up
           /\ \A m \in 2 .. Len(todo) : todo[m] \in Part /\ Apart(todo[1], todo[m])
<1>1. todo \in Seq(Part) /\ Len(todo) \in Nat \ {0} /\ Head(todo) = todo[1]
  BY DEF Shape
<1>2. todo[1] \in Part /\ Fits(todo[1], Len(array)) /\ Len(array) \in Nat
  BY <1>1 DEF Shape
<1>3. lo = todo[1].lo /\ up = todo[1].up /\ lo \in Nat /\ up \in Nat
  BY <1>1, <1>2 DEF lo, up, Part
<1>4. lo \in 1 .. Len(array) /\ up \in 1 .. Len(array) /\ lo < up
  BY <1>2, <1>3 DEF Fits
<1>5. \A m \in 2 .. Len(todo) : todo[m] \in Part /\ Apart(todo[1], todo[m])
  BY <1>1 DEF Shape, AllApart
<1> QED
  BY <1>1, <1>2, <1>4, <1>5

(* a has the elements of the table, those of the first part rearranged.    *)
Rearranged(a) ==
    /\ a \in Seq(Nat) /\ Len(a) = Len(array) /\ ToSet(a) = ToSet(array)
    /\ \A k \in lo .. up : \E l \in lo .. up : a[k] = array[l]
    /\ \A k \in 1 .. Len(array) : k \notin lo .. up => a[k] = array[k]

LEMMA SwapRearranges ==
    ASSUME Shape, todo # <<>>, NEW a, Rearranged(a), NEW x \in lo .. up, NEW y \in lo .. up
    PROVE  Rearranged(Swapped(a, x, y))
<1>1. /\ lo \in 1 .. Len(array) /\ up \in 1 .. Len(array) /\ lo < up
      /\ a \in Seq(Nat) /\ Len(a) = Len(array)
  BY HeadPart DEF Rearranged
<1>2. x \in 1 .. Len(a) /\ y \in 1 .. Len(a)
  BY <1>1
<1> DEFINE w == Swapped(a, x, y)
<1>3. /\ w \in Seq(Nat) /\ Len(w) = Len(a) /\ ToSet(w) = ToSet(a)
      /\ w[x] = a[y] /\ w[y] = a[x]
      /\ \A k \in 1 .. Len(a) : k \notin {x, y} => w[k] = a[k]
  BY <1>1, <1>2, SwapProperties
<1> HIDE DEF w
<1>4. \A k \in lo .. up : k \in 1 .. Len(a) /\ \E l \in lo .. up : w[k] = a[l]
  <2> TAKE k \in lo .. up
  <2>1. k \in 1 .. Len(a)
    BY <1>1
  <2>2. w[k] = a[x] \/ w[k] = a[y] \/ w[k] = a[k]
    BY <1>3, <2>1
  <2> QED
    BY <2>1, <2>2
<1>5. \A k \in lo .. up : \E l \in lo .. up : w[k] = array[l]
  BY <1>4 DEF Rearranged
<1>6. \A k \in 1 .. Len(array) : k \notin lo .. up => w[k] = array[k]
  BY <1>1, <1>3 DEF Rearranged
<1>7. Rearranged(w)
  BY <1>1, <1>3, <1>5, <1>6 DEF Rearranged
<1> QED
  BY <1>7 DEF w

LEMMA ArrayRearranges ==
    ASSUME Shape, todo # <<>>
    PROVE  Rearranged(array)
BY HeadPart DEF Rearranged, Shape

(* Ranks are numbers.                                                      *)
LEMMA RanksAreNumbers ==
    ASSUME Shape, todo # <<>>, order # AnyAnswer, NEW a, Rearranged(a)
    PROVE  \A k \in 1 .. Len(array) : order[a[k]] \in Int
<1>1. a \in Seq(Nat) /\ Len(a) = Len(array) /\ ToSet(a) = 1 .. Len(array)
  BY DEF Rearranged, Shape
<1>2. \A k \in 1 .. Len(a) : a[k] \in ToSet(a)
  BY <1>1 DEF ToSet
<1>3. order \in [1 .. Len(array) -> Ranks]
  BY DEF Shape
<1> QED
  BY <1>1, <1>2, <1>3

-----------------------------------------------------------------------------
(* The parts. *)

(* Elements of different parts stay in order when the first part is        *)
(* rearranged, and split in parts that are in order.                       *)
LEMMA PartsStayInOrder ==
    ASSUME Shape, todo # <<>>, PartsInOrder, order' = order,
           Rearranged(array'),
           \A m \in 2 .. Len(todo) : \E n \in 1 .. Len(todo') : todo'[n] = todo[m],
           \A k, l \in lo .. up : k < l /\ ~Together(k, l)' => Rank(k)' <= Rank(l)'
    PROVE  PartsInOrder'
<1> SUFFICES ASSUME NEW k \in 1 .. Len(array), NEW l \in 1 .. Len(array), k < l, ~Together(k, l)'
             PROVE  order[array'[k]] <= order[array'[l]]
  BY DEF PartsInOrder, Rearranged, Rank
<1>1. /\ lo \in 1 .. Len(array) /\ up \in 1 .. Len(array) /\ lo < up /\ Len(todo) \in Nat \ {0}
      /\ \A m \in 2 .. Len(todo) : todo[m] \in Part /\ Apart(todo[1], todo[m])
      /\ todo[1].lo = lo /\ todo[1].up = up
  BY HeadPart DEF lo, up
<1>2. ASSUME ~(k \in lo .. up /\ l \in lo .. up),
             NEW m \in 1 .. Len(todo), {k, l} \subseteq todo[m].lo .. todo[m].up
      PROVE  FALSE
  <2>1. m # 1
    BY <1>1, <1>2
  <2>2. m \in 2 .. Len(todo)
    BY <1>1, <2>1
  <2> QED
    BY <1>2, <2>2 DEF Together
<1>3. CASE k \in lo .. up /\ l \in lo .. up
  BY <1>3 DEF Rank
<1>4. CASE k \in lo .. up /\ l \notin lo .. up
  <2>1. PICK q \in lo .. up : array'[k] = array[q]
    BY <1>4 DEF Rearranged
  <2>2. array'[l] = array[l]
    BY <1>4 DEF Rearranged
  <2>3. q \in 1 .. Len(array) /\ q < l
    BY <1>1, <1>4, <2>1
  <2>4. ~Together(q, l)
    <3> SUFFICES ASSUME NEW m \in 1 .. Len(todo), {q, l} \subseteq todo[m].lo .. todo[m].up
                 PROVE  FALSE
      BY DEF Together
    <3>1. m \in 2 .. Len(todo)
      BY <1>1, <1>4
    <3>2. todo[m].lo \in Nat /\ todo[m].up \in Nat /\ (up < todo[m].lo \/ todo[m].up < lo)
      BY <1>1, <3>1 DEF Apart, Part
    <3> QED
      BY <1>1, <3>2
  <2> QED
    BY <2>1, <2>2, <2>3, <2>4 DEF PartsInOrder, Rank
<1>5. CASE k \notin lo .. up /\ l \in lo .. up
  <2>1. PICK q \in lo .. up : array'[l] = array[q]
    BY <1>5 DEF Rearranged
  <2>2. array'[k] = array[k]
    BY <1>5 DEF Rearranged
  <2>3. q \in 1 .. Len(array) /\ k < q
    BY <1>1, <1>5, <2>1
  <2>4. ~Together(k, q)
    <3> SUFFICES ASSUME NEW m \in 1 .. Len(todo), {k, q} \subseteq todo[m].lo .. todo[m].up
                 PROVE  FALSE
      BY DEF Together
    <3>1. m \in 2 .. Len(todo)
      BY <1>1, <1>5
    <3>2. todo[m].lo \in Nat /\ todo[m].up \in Nat /\ (up < todo[m].lo \/ todo[m].up < lo)
      BY <1>1, <3>1 DEF Apart, Part
    <3> QED
      BY <1>1, <3>2
  <2> QED
    BY <2>1, <2>2, <2>3, <2>4 DEF PartsInOrder, Rank
<1>6. CASE k \notin lo .. up /\ l \notin lo .. up
  <2>1. array'[k] = array[k] /\ array'[l] = array[l]
    BY <1>6 DEF Rearranged
  <2>2. ~Together(k, l)
    BY <1>2, <1>6 DEF Together
  <2> QED
    BY <2>1, <2>2 DEF PartsInOrder, Rank
<1> QED
  BY <1>3, <1>4, <1>5, <1>6

(* The first part is replaced by parts of it.                              *)
LEMMA ReplaceHead ==
    ASSUME Shape, todo # <<>>, NEW ps \in Seq(Part), AllApart(ps),
           \A m \in 1 .. Len(ps) : lo <= ps[m].lo /\ ps[m].lo < ps[m].up /\ ps[m].up <= up,
           Continue(ps)
    PROVE  /\ todo' \in Seq(Part) /\ AllApart(todo')
           /\ \A m \in 1 .. Len(todo') : Fits(todo'[m], Len(array))
           /\ \A m \in 2 .. Len(todo) : \E n \in 1 .. Len(todo') : todo'[n] = todo[m]
           /\ \A m \in 1 .. Len(ps) : \E n \in 1 .. Len(todo') : todo'[n] = ps[m]
<1> DEFINE p == Len(ps)
           t == Len(todo)
           rest == Tail(todo)
           ns == todo'
<1>0. ns = ps \o rest
  BY DEF Continue
<1> HIDE DEF ns
<1>1. /\ lo \in 1 .. Len(array) /\ up \in 1 .. Len(array) /\ lo < up
      /\ t \in Nat \ {0} /\ p \in Nat /\ Len(array) \in Nat
      /\ todo[1].lo = lo /\ todo[1].up = up
  BY HeadPart DEF lo, up
<1>2. todo \in Seq(Part) /\ AllApart(todo) /\ \A m \in 1 .. t : Fits(todo[m], Len(array))
  BY DEF Shape
<1>3. /\ rest \in Seq(Part) /\ Len(rest) = t - 1
      /\ \A m \in 1 .. t - 1 : rest[m] = todo[m + 1]
  BY <1>1, <1>2
<1>4. ns \in Seq(Part) /\ Len(ns) = p + t - 1
  BY <1>0, <1>1, <1>3
<1>5. /\ \A m \in 1 .. p : m \in 1 .. p + t - 1 /\ ns[m] = ps[m]
      /\ \A m \in 2 .. t : p + m - 1 \in 1 .. p + t - 1 /\ ns[p + m - 1] = todo[m]
      /\ \A m \in 1 .. p + t - 1 : m \in 1 .. p \/ \E n \in 2 .. t : m = p + n - 1
  <2>1. \A m \in 1 .. p : m \in 1 .. p + t - 1 /\ ns[m] = ps[m]
    BY <1>0, <1>1, <1>3
  <2>2. ASSUME NEW m \in 2 .. t
        PROVE  p + m - 1 \in 1 .. p + t - 1 /\ ns[p + m - 1] = todo[m]
    <3>1. m - 1 \in 1 .. t - 1 /\ m - 1 + 1 = m
      BY <1>1
    <3>2. ns[p + (m - 1)] = rest[m - 1]
      BY <1>0, <1>1, <1>3, <3>1
    <3>3. rest[m - 1] = todo[m]
      BY <1>3, <3>1
    <3> HIDE DEF p, t, rest
    <3>4. p + (m - 1) = p + m - 1 /\ p + m - 1 \in 1 .. p + t - 1
      BY <1>1
    <3> QED
      BY <3>2, <3>3, <3>4
  <2>3. ASSUME NEW m \in 1 .. p + t - 1, m \notin 1 .. p
        PROVE  \E n \in 2 .. t : m = p + n - 1
    <3> HIDE DEF p, t, rest
    <3>1. m - p + 1 \in 2 .. t /\ m = p + (m - p + 1) - 1
      BY <1>1, <2>3
    <3> QED
      BY <3>1
  <2> QED
    BY <2>1, <2>2, <2>3
<1> HIDE DEF p, t, rest
<1>6. \A m \in 1 .. p : ps[m] \in Part
  BY DEF p
<1>7. \A m \in 1 .. t : todo[m] \in Part
  BY <1>2 DEF t
<1>8. \A m \in 1 .. p, n \in 2 .. t : Apart(ps[m], todo[n]) /\ Apart(todo[n], ps[m])
  <2> SUFFICES ASSUME NEW m \in 1 .. p, NEW n \in 2 .. t
               PROVE  Apart(ps[m], todo[n]) /\ Apart(todo[n], ps[m])
    OBVIOUS
  <2>1. up < todo[n].lo \/ todo[n].up < lo
    BY <1>1, <1>2 DEF AllApart, Apart, t
  <2>2. lo <= ps[m].lo /\ ps[m].up <= up
    BY DEF p
  <2>3. /\ todo[n].lo \in Nat /\ todo[n].up \in Nat /\ ps[m].lo \in Nat /\ ps[m].up \in Nat
        /\ lo \in Nat /\ up \in Nat
    BY <1>1, <1>6, <1>7 DEF Part
  <2> QED
    BY <2>1, <2>2, <2>3 DEF Apart
<1>9. AllApart(ns)
  <2> SUFFICES ASSUME NEW m \in 1 .. p + t - 1, NEW n \in 1 .. p + t - 1, m # n
               PROVE  Apart(ns[m], ns[n])
    BY <1>4 DEF AllApart
  <2>1. CASE m \in 1 .. p /\ n \in 1 .. p
    BY <1>5, <2>1 DEF AllApart, p
  <2>2. ASSUME m \in 1 .. p, NEW k \in 2 .. t, n = p + k - 1
        PROVE  Apart(ns[m], ns[n])
    BY <1>5, <1>8, <2>2
  <2>3. ASSUME NEW k \in 2 .. t, m = p + k - 1, n \in 1 .. p
        PROVE  Apart(ns[m], ns[n])
    BY <1>5, <1>8, <2>3
  <2>4. ASSUME NEW k \in 2 .. t, m = p + k - 1, NEW l \in 2 .. t, n = p + l - 1
        PROVE  Apart(ns[m], ns[n])
    <3>1. k \in 1 .. t /\ l \in 1 .. t /\ k # l
      BY <1>1, <2>4
    <3> QED
      BY <1>2, <1>5, <2>4, <3>1 DEF AllApart, t
  <2> QED
    BY <1>5, <2>1, <2>2, <2>3, <2>4
<1>10. ASSUME NEW m \in 1 .. p + t - 1
       PROVE  Fits(ns[m], Len(array))
  <2>1. CASE m \in 1 .. p
    <3>1. lo <= ps[m].lo /\ ps[m].lo < ps[m].up /\ ps[m].up <= up /\ ps[m].lo \in Nat /\ ps[m].up \in Nat
      BY <1>6, <2>1 DEF p, Part
    <3>2. ns[m] = ps[m]
      BY <1>5, <2>1
    <3>3. Fits(ps[m], Len(array))
      BY <1>1, <3>1 DEF Fits
    <3> QED
      BY <3>2, <3>3
  <2>2. ASSUME NEW k \in 2 .. t, m = p + k - 1
        PROVE  Fits(ns[m], Len(array))
    <3>1. k \in 1 .. t
      BY <1>1
    <3>2. Fits(todo[k], Len(array))
      BY <1>2, <3>1
    <3>3. ns[m] = todo[k]
      BY <1>5, <2>2
    <3> QED
      BY <3>2, <3>3
  <2> QED
    BY <1>5, <2>1, <2>2
<1> QED
  BY <1>4, <1>5, <1>9, <1>10 DEF p, t, ns

(* Two parts, without those that are sorted.                               *)
UnsortedOf(a, b, ps) ==
    /\ ps \in Seq(Part) /\ AllApart(ps)
    /\ \A m \in 1 .. Len(ps) : ps[m] \in {a, b} /\ ps[m].lo < ps[m].up
    /\ a.lo < a.up => \E m \in 1 .. Len(ps) : ps[m] = a
    /\ b.lo < b.up => \E m \in 1 .. Len(ps) : ps[m] = b

LEMMA TwoParts ==
    ASSUME NEW a \in Part, NEW b \in Part, Apart(a, b),
           NEW ps, ps = Unsorted(a) \o Unsorted(b)
    PROVE  UnsortedOf(a, b, ps)
<1>1. Apart(b, a)
  BY DEF Apart
<1>2. ASSUME a.lo < a.up /\ b.lo < b.up PROVE UnsortedOf(a, b, ps)
  <2> DEFINE x == <<a>>
             y == <<b>>
  <2>1. ps = x \o y
    BY <1>2 DEF Unsorted
  <2>2. x \in Seq(Part) /\ y \in Seq(Part) /\ Len(x) = 1 /\ Len(y) = 1 /\ x[1] = a /\ y[1] = b
    OBVIOUS
  <2> HIDE DEF x, y
  <2>3. ps \in Seq(Part) /\ Len(ps) = 2 /\ ps[1] = a /\ ps[2] = b
    BY <2>1, <2>2, ConcatProperties
  <2> QED
    BY <1>1, <1>2, <2>3 DEF AllApart, UnsortedOf
<1>3. ASSUME a.lo < a.up /\ ~(b.lo < b.up) PROVE UnsortedOf(a, b, ps)
  <2>1. ps = <<a>>
    BY <1>3 DEF Unsorted
  <2>2. ps \in Seq(Part) /\ Len(ps) = 1 /\ ps[1] = a
    BY <2>1
  <2> QED
    BY <1>3, <2>2 DEF AllApart, UnsortedOf
<1>4. ASSUME ~(a.lo < a.up) /\ b.lo < b.up PROVE UnsortedOf(a, b, ps)
  <2>1. ps = <<b>>
    BY <1>4 DEF Unsorted
  <2>2. ps \in Seq(Part) /\ Len(ps) = 1 /\ ps[1] = b
    BY <2>1
  <2> QED
    BY <1>4, <2>2 DEF AllApart, UnsortedOf
<1>5. ASSUME ~(a.lo < a.up) /\ ~(b.lo < b.up) PROVE UnsortedOf(a, b, ps)
  <2>1. ps = <<>>
    BY <1>5 DEF Unsorted
  <2>2. ps \in Seq(Part) /\ Len(ps) = 0
    BY <2>1
  <2> QED
    BY <1>5, <2>2 DEF AllApart, UnsortedOf
<1> QED
  BY <1>2, <1>3, <1>4, <1>5

(* The first part is done, or falls into parts that are in order.          *)
LEMMA ContinueKeeps ==
    ASSUME Inv, todo # <<>>, NEW ps \in Seq(Part), AllApart(ps),
           \A m \in 1 .. Len(ps) : lo <= ps[m].lo /\ ps[m].lo < ps[m].up /\ ps[m].up <= up,
           Continue(ps), order' = order, Rearranged(array'),
           order # AnyAnswer =>
               \A k, l \in lo .. up :
                   k < l /\ (\A m \in 1 .. Len(ps) : ~({k, l} \subseteq ps[m].lo .. ps[m].up))
                       => Rank(k)' <= Rank(l)'
    PROVE  Inv'
<1>1. Shape
  BY DEF Inv
<1>2. /\ todo' \in Seq(Part) /\ AllApart(todo')
      /\ \A m \in 1 .. Len(todo') : Fits(todo'[m], Len(array))
      /\ \A m \in 2 .. Len(todo) : \E n \in 1 .. Len(todo') : todo'[n] = todo[m]
      /\ \A m \in 1 .. Len(ps) : \E n \in 1 .. Len(todo') : todo'[n] = ps[m]
  BY <1>1, ReplaceHead
<1>3. at' \in {"ends", "done"} /\ (at' = "done" <=> todo' = <<>>)
  BY DEF Continue
<1>4. Shape'
  BY <1>1, <1>2, <1>3 DEF Shape, Rearranged, Questions, Scans
<1>5. ASSUME order # AnyAnswer
      PROVE  PartsInOrder' /\ HeadInOrder'
  <2>1. PartsInOrder
    BY <1>5 DEF Inv
  <2>2. ASSUME NEW k \in lo .. up, NEW l \in lo .. up, k < l, ~Together(k, l)'
        PROVE  Rank(k)' <= Rank(l)'
    <3>1. \A m \in 1 .. Len(ps) : ~({k, l} \subseteq ps[m].lo .. ps[m].up)
      BY <1>2, <2>2 DEF Together
    <3> QED
      BY <1>5, <2>2, <3>1
  <2>3. PartsInOrder'
    BY <1>1, <1>2, <2>1, <2>2, PartsStayInOrder
  <2> QED
    BY <1>3, <2>3 DEF HeadInOrder
<1> QED
  BY <1>4, <1>5 DEF Inv

(* The first part is sorted.                                               *)
LEMMA DoneKeeps ==
    ASSUME Inv, todo # <<>>, Continue(<<>>), order' = order, Rearranged(array'),
           order # AnyAnswer => \A k, l \in lo .. up : k < l => Rank(k)' <= Rank(l)'
    PROVE  Inv'
<1> DEFINE ps == <<>>
<1>1. ps \in Seq(Part) /\ AllApart(ps) /\ Continue(ps)
  BY DEF AllApart
<1>2. \A m \in 1 .. Len(ps) : lo <= ps[m].lo /\ ps[m].lo < ps[m].up /\ ps[m].up <= up
  OBVIOUS
<1>3. order # AnyAnswer =>
          \A k, l \in lo .. up :
              k < l /\ (\A m \in 1 .. Len(ps) : ~({k, l} \subseteq ps[m].lo .. ps[m].up))
                  => Rank(k)' <= Rank(l)'
  OBVIOUS
<1> HIDE DEF ps
<1> QED
  BY <1>1, <1>2, <1>3, ContinueKeeps

(* A step inside the first part.                                           *)
LEMMA InsideKeeps ==
    ASSUME Inv, todo # <<>>, todo' = todo, order' = order, Rearranged(array'),
           at' \in Questions \ {"done"}, Scans',
           order # AnyAnswer => HeadInOrder'
    PROVE  Inv'
<1>1. Shape
  BY DEF Inv
<1>2. Shape'
  BY <1>1 DEF Shape, Rearranged
<1>3. ASSUME order # AnyAnswer
      PROVE  PartsInOrder'
  <2>1. \A k, l \in lo .. up : Together(k, l)'
    BY <1>1, HeadPart DEF Together, lo, up
  <2> QED
    BY <1>1, <1>3, <2>1, PartsStayInOrder DEF Inv
<1> QED
  BY <1>2, <1>3 DEF Inv

-----------------------------------------------------------------------------
(* The steps. *)

(* The pivot is strictly inside the part.                                  *)
LEMMA PivotInside ==
    ASSUME Shape, todo # <<>>, up - lo # 1
    PROVE  choosePivot \subseteq lo + 1 .. up - 1
<1> DEFINE d == up - lo
           r4 == d \div 4
<1>1. lo \in Nat /\ up \in Nat /\ d \in Nat /\ d >= 2
  BY HeadPart
<1>2. (lo + up) \div 2 \in lo + 1 .. up - 1
  BY <1>1
<1>3. ASSUME d >= RANLIMIT
      PROVE  lo + r4 .. lo + 3 * r4 - 1 \subseteq lo + 1 .. up - 1
  <2>1. d >= 4
    BY <1>1, <1>3
  <2>2. r4 \in Nat /\ r4 >= 1 /\ 4 * r4 <= d
    BY <1>1, <2>1
  <2>3. up = lo + d
    BY <1>1
  <2> HIDE DEF r4, d
  <2> QED
    BY <1>1, <2>2, <2>3
<1> QED
  BY <1>1, <1>2, <1>3 DEF choosePivot

(* What every step inside the first part uses.                             *)
LEMMA InPart ==
    ASSUME Inv, todo # <<>>
    PROVE  /\ Shape /\ Rearranged(array)
           /\ lo \in Nat /\ up \in Nat /\ lo < up /\ 1 <= lo /\ up <= Len(array) /\ Len(array) \in Nat
           /\ order # AnyAnswer => HeadInOrder /\ \A k \in lo .. up : Rank(k) \in Int
<1>1. Shape
  BY DEF Inv
<1>2. Rearranged(array)
  BY <1>1, ArrayRearranges
<1>3. lo \in Nat /\ up \in Nat /\ lo < up /\ 1 <= lo /\ up <= Len(array) /\ Len(array) \in Nat
  BY <1>1, HeadPart
<1>4. ASSUME order # AnyAnswer
      PROVE  \A k \in lo .. up : Rank(k) \in Int
  BY <1>1, <1>2, <1>3, <1>4, RanksAreNumbers DEF Rank
<1> QED
  BY <1>1, <1>2, <1>3, <1>4 DEF Inv

(* An exchange of two elements of the first part.                          *)
LEMMA SwapInPart ==
    ASSUME Inv, todo # <<>>, NEW a, Rearranged(a), NEW x \in lo .. up, NEW y \in lo .. up
    PROVE  /\ Rearranged(Swapped(a, x, y))
           /\ Swapped(a, x, y)[x] = a[y] /\ Swapped(a, x, y)[y] = a[x]
           /\ \A k \in lo .. up : k \notin {x, y} => Swapped(a, x, y)[k] = a[k]
<1>1. /\ Shape /\ lo \in Nat /\ up \in Nat /\ 1 <= lo /\ up <= Len(array) /\ Len(array) \in Nat
      /\ a \in Seq(Nat) /\ Len(a) = Len(array)
  BY InPart DEF Rearranged
<1>2. x \in 1 .. Len(a) /\ y \in 1 .. Len(a) /\ \A k \in lo .. up : k \in 1 .. Len(a)
  BY <1>1
<1> QED
  BY <1>1, <1>2, SwapProperties, SwapRearranges

LEMMA CompareEndsKeeps ==
    ASSUME Inv, CompareEnds
    PROVE  Inv'
<1>1. PICK r \in sort_comp(array[up], array[lo]) : array' = IF r THEN Swapped(array, lo, up) ELSE array
  BY DEF CompareEnds
<1>2. todo # <<>> /\ order' = order /\ at = "ends"
  BY DEF CompareEnds, Inv, Shape
<1>3. /\ Shape /\ Rearranged(array)
      /\ lo \in Nat /\ up \in Nat /\ lo < up /\ 1 <= lo /\ up <= Len(array) /\ Len(array) \in Nat
      /\ order # AnyAnswer => HeadInOrder /\ \A k \in lo .. up : Rank(k) \in Int
  BY <1>2, InPart
<1> DEFINE w == IF r THEN Swapped(array, lo, up) ELSE array
<1>4. Rearranged(w) /\ w[lo] = (IF r THEN array[up] ELSE array[lo]) /\ w[up] = (IF r THEN array[lo] ELSE array[up])
  BY <1>2, <1>3, SwapInPart
<1>5. array' = w
  BY <1>1
<1> HIDE DEF w
<1>6. ASSUME order # AnyAnswer
      PROVE  order[w[lo]] <= order[w[up]]
  <2>1. IF r THEN order[array[up]] < order[array[lo]] ELSE ~(order[array[up]] < order[array[lo]])
    BY <1>1, <1>6 DEF sort_comp
  <2>2. order[array[up]] \in Int /\ order[array[lo]] \in Int
    BY <1>3, <1>6 DEF Rank
  <2>3. CASE r
    BY <1>4, <2>1, <2>2, <2>3
  <2>4. CASE ~r
    BY <1>4, <2>1, <2>2, <2>4
  <2> QED
    BY <2>3, <2>4
<1>7. Rearranged(array')
  BY <1>4, <1>5 DEF Rearranged
<1>8. CASE up - lo = 1
  <2>2. Continue(<<>>)
    BY <1>8 DEF CompareEnds
  <2>3. order # AnyAnswer => \A k, l \in lo .. up : k < l => Rank(k)' <= Rank(l)'
    <3>1. \A k, l \in lo .. up : k < l => k = lo /\ l = up
      BY <1>3, <1>8
    <3> QED
      BY <1>2, <1>5, <1>6, <3>1 DEF Rank
  <2> QED
    BY <1>2, <1>7, <2>2, <2>3, DoneKeeps
<1>9. CASE up - lo # 1
  <2>1. at' = "low" /\ pivot' \in choosePivot /\ todo' = todo
    BY <1>9 DEF CompareEnds
  <2>2. lo' = lo /\ up' = up
    BY <2>1 DEF lo, up
  <2>3. pivot' \in lo + 1 .. up - 1
    BY <1>2, <1>3, <1>9, <2>1, PivotInside
  <2>4. Scans'
    BY <2>1, <2>2, <2>3 DEF Scans
  <2>5. order # AnyAnswer => HeadInOrder'
    BY <1>2, <1>5, <1>6, <2>1, <2>2 DEF HeadInOrder, Rank
  <2> QED
    BY <1>2, <1>7, <2>1, <2>4, <2>5, InsideKeeps DEF Questions
<1> QED
  BY <1>8, <1>9

(* The pivot is put aside: the three elements are in order.                *)
LEMMA StartKeeps ==
    ASSUME Inv, at \in {"low", "high"}, order' = order, NEW b, Rearranged(b), StartPartition(b),
           order # AnyAnswer => order[b[lo]] <= order[b[pivot]] /\ order[b[pivot]] <= order[b[up]]
    PROVE  Inv'
<1>1. todo # <<>> /\ pivot \in lo + 1 .. up - 1
  BY DEF Inv, Shape, Scans
<1>2. /\ Shape
      /\ lo \in Nat /\ up \in Nat /\ lo < up /\ 1 <= lo /\ up <= Len(array) /\ Len(array) \in Nat
  BY <1>1, InPart
<1>3. order # AnyAnswer => \A k \in lo .. up : order[b[k]] \in Int
  BY <1>1, <1>2, RanksAreNumbers
<1>4. CASE up - lo = 2
  <2>2. Continue(<<>>) /\ array' = b
    BY <1>4 DEF StartPartition
  <2>3. ASSUME order # AnyAnswer, NEW k \in lo .. up, NEW l \in lo .. up, k < l
        PROVE  Rank(k)' <= Rank(l)'
    <3>1. pivot = lo + 1 /\ up = lo + 2
      BY <1>1, <1>2, <1>4
    <3>2. \/ k = lo /\ l = pivot
          \/ k = lo /\ l = up
          \/ k = pivot /\ l = up
      BY <1>2, <2>3, <3>1
    <3>3. order[b[lo]] \in Int /\ order[b[pivot]] \in Int /\ order[b[up]] \in Int
      BY <1>1, <1>2, <1>3, <2>3
    <3> QED
      BY <2>2, <2>3, <3>2, <3>3 DEF Rank
  <2>4. Rearranged(array')
    BY <2>2 DEF Rearranged
  <2> QED
    BY <1>1, <2>2, <2>3, <2>4, DoneKeeps
<1>5. CASE up - lo # 2
  <2> DEFINE w == Swapped(b, pivot, up - 1)
  <2>1. array' = w /\ at' = "up" /\ i' = lo + 1 /\ j' = up - 1 /\ todo' = todo
    BY <1>5 DEF StartPartition
  <2>2. pivot \in lo .. up /\ up - 1 \in lo .. up
    BY <1>1, <1>2
  <2>3. /\ Rearranged(w) /\ w[up - 1] = b[pivot]
        /\ \A k \in lo .. up : k \notin {pivot, up - 1} => w[k] = b[k]
    <3>1. PICK x, y : x = pivot /\ y = up - 1 /\ x \in lo .. up /\ y \in lo .. up
      BY <2>2
    <3>2. /\ Rearranged(Swapped(b, x, y)) /\ Swapped(b, x, y)[y] = b[x]
          /\ \A k \in lo .. up : k \notin {x, y} => Swapped(b, x, y)[k] = b[k]
      BY <1>1, <3>1, SwapInPart
    <3> QED
      BY ONLY <3>1, <3>2 DEF w
  <2> HIDE DEF w
  <2>4. lo' = lo /\ up' = up
    BY <2>1 DEF lo, up
  <2>5. Rearranged(array')
    BY <2>1, <2>3 DEF Rearranged
  <2>6. Scans'
    BY <1>1, <1>2, <2>1, <2>4 DEF Scans
  <2>7. ASSUME order # AnyAnswer
        PROVE  HeadInOrder'
    <3>1. w[lo] = b[lo] /\ w[up] = b[up]
      BY <1>1, <1>2, <2>3
    <3>2. order[b[pivot]] \in Int
      BY <1>2, <1>3, <2>2, <2>7
    <3>3. order[w[lo]] <= order[w[up - 1]] /\ \A k \in lo' .. i' - 1 : k = lo
      BY <1>2, <2>1, <2>3, <2>4, <2>7, <3>1
    <3>4. \A k \in up - 1 .. up : order[w[up - 1]] <= order[w[k]]
      <4>1. \A k \in up - 1 .. up : k = up - 1 \/ k = up
        BY <1>2
      <4> QED
        BY <2>3, <2>7, <3>1, <3>2, <4>1
    <3>5. \A k \in lo' .. i' - 1 : Rank(k)' <= Rank(up - 1)'
      BY <2>1, <2>4, <3>3 DEF Rank
    <3>6. \A k \in j' .. up' : Rank(up - 1)' <= Rank(k)'
      BY <2>1, <2>4, <3>4 DEF Rank
    <3> QED
      BY <2>1, <3>5, <3>6 DEF HeadInOrder
  <2> QED
    BY <1>1, <2>1, <2>5, <2>6, <2>7, InsideKeeps DEF Questions
<1> QED
  BY <1>4, <1>5

LEMMA PivotLowKeeps ==
    ASSUME Inv, PivotLow
    PROVE  Inv'
<1>1. PICK r \in sort_comp(array[pivot], array[lo]) :
          IF r THEN StartPartition(Swapped(array, pivot, lo)) ELSE at' = "high" /\ UNCHANGED <<array, todo, i, j>>
  BY DEF PivotLow
<1>2. at = "low" /\ order' = order /\ pivot' = pivot
  BY DEF PivotLow
<1>3. todo # <<>> /\ pivot \in lo + 1 .. up - 1
  BY <1>2 DEF Inv, Shape, Scans
<1>4. /\ Shape /\ Rearranged(array)
      /\ lo \in Nat /\ up \in Nat /\ lo < up /\ 1 <= lo /\ up <= Len(array) /\ Len(array) \in Nat
      /\ order # AnyAnswer => HeadInOrder /\ \A k \in lo .. up : Rank(k) \in Int
  BY <1>3, InPart
<1>5. ASSUME order # AnyAnswer
      PROVE  /\ IF r THEN Rank(pivot) < Rank(lo) ELSE ~(Rank(pivot) < Rank(lo))
             /\ Rank(lo) \in Int /\ Rank(pivot) \in Int /\ Rank(up) \in Int
             /\ Rank(lo) <= Rank(up)
  <2>1. lo \in lo .. up /\ pivot \in lo .. up /\ up \in lo .. up
    BY <1>3, <1>4
  <2>2. r \in {Rank(pivot) < Rank(lo)}
    BY <1>1, <1>5 DEF sort_comp, Rank
  <2> QED
    BY <1>2, <1>4, <1>5, <2>1, <2>2 DEF HeadInOrder
<1>6. CASE r
  <2> DEFINE b == Swapped(array, pivot, lo)
  <2>1. /\ Rearranged(b) /\ b[pivot] = array[lo] /\ b[lo] = array[pivot]
        /\ \A k \in lo .. up : k \notin {pivot, lo} => b[k] = array[k]
    BY <1>3, <1>4, SwapInPart
  <2>2. StartPartition(b)
    BY <1>1, <1>6
  <2> HIDE DEF b
  <2>3. b[up] = array[up]
    BY <1>3, <1>4, <2>1
  <2>4. order # AnyAnswer => order[b[lo]] <= order[b[pivot]] /\ order[b[pivot]] <= order[b[up]]
    BY <1>5, <1>6, <2>1, <2>3 DEF Rank
  <2> QED
    BY <1>2, <2>1, <2>2, <2>4, StartKeeps
<1>7. CASE ~r
  <2>1. at' = "high" /\ array' = array /\ todo' = todo
    BY <1>1, <1>7
  <2>2. lo' = lo /\ up' = up
    BY <2>1 DEF lo, up
  <2>3. Scans'
    BY <1>2, <1>3, <2>1, <2>2 DEF Scans
  <2>4. ASSUME order # AnyAnswer
        PROVE  HeadInOrder'
    <3>1. Rank(lo)' <= Rank(up)' /\ Rank(lo)' <= Rank(pivot)'
      BY <1>2, <1>5, <1>7, <2>1, <2>2, <2>4 DEF Rank
    <3> QED
      BY <2>1, <3>1 DEF HeadInOrder
  <2>5. Rearranged(array')
    BY <1>4, <2>1 DEF Rearranged
  <2> QED
    BY <1>2, <1>3, <2>1, <2>3, <2>4, <2>5, InsideKeeps DEF Questions
<1> QED
  BY <1>6, <1>7

LEMMA PivotHighKeeps ==
    ASSUME Inv, PivotHigh
    PROVE  Inv'
<1>1. PICK r \in sort_comp(array[up], array[pivot]) : StartPartition(IF r THEN Swapped(array, pivot, up) ELSE array)
  BY DEF PivotHigh
<1>2. at = "high" /\ order' = order
  BY DEF PivotHigh
<1>3. todo # <<>> /\ pivot \in lo + 1 .. up - 1
  BY <1>2 DEF Inv, Shape, Scans
<1>4. /\ Shape /\ Rearranged(array)
      /\ lo \in Nat /\ up \in Nat /\ lo < up /\ 1 <= lo /\ up <= Len(array) /\ Len(array) \in Nat
      /\ order # AnyAnswer => HeadInOrder /\ \A k \in lo .. up : Rank(k) \in Int
  BY <1>3, InPart
<1>5. ASSUME order # AnyAnswer
      PROVE  /\ IF r THEN Rank(up) < Rank(pivot) ELSE ~(Rank(up) < Rank(pivot))
             /\ Rank(lo) \in Int /\ Rank(pivot) \in Int /\ Rank(up) \in Int
             /\ Rank(lo) <= Rank(up) /\ Rank(lo) <= Rank(pivot)
  <2>1. lo \in lo .. up /\ pivot \in lo .. up /\ up \in lo .. up
    BY <1>3, <1>4
  <2>2. r \in {Rank(up) < Rank(pivot)}
    BY <1>1, <1>5 DEF sort_comp, Rank
  <2> QED
    BY <1>2, <1>4, <1>5, <2>1, <2>2 DEF HeadInOrder
<1>6. CASE r
  <2> DEFINE b == Swapped(array, pivot, up)
  <2>1. /\ Rearranged(b) /\ b[pivot] = array[up] /\ b[up] = array[pivot]
        /\ \A k \in lo .. up : k \notin {pivot, up} => b[k] = array[k]
    BY <1>3, <1>4, SwapInPart
  <2>2. StartPartition(b)
    BY <1>1, <1>6
  <2> HIDE DEF b
  <2>3. b[lo] = array[lo]
    BY <1>3, <1>4, <2>1
  <2>4. order # AnyAnswer => order[b[lo]] <= order[b[pivot]] /\ order[b[pivot]] <= order[b[up]]
    BY <1>5, <1>6, <2>1, <2>3 DEF Rank
  <2> QED
    BY <1>2, <2>1, <2>2, <2>4, StartKeeps
<1>7. CASE ~r
  <2> DEFINE b == array
  <2>1. StartPartition(b) /\ Rearranged(b)
    BY <1>1, <1>4, <1>7
  <2>2. order # AnyAnswer => order[b[lo]] <= order[b[pivot]] /\ order[b[pivot]] <= order[b[up]]
    BY <1>5, <1>7 DEF Rank
  <2> HIDE DEF b
  <2> QED
    BY <1>2, <2>1, <2>2, StartKeeps
<1> QED
  BY <1>6, <1>7

LEMMA ScanUpKeeps ==
    ASSUME Inv, ScanUp
    PROVE  Inv'
<1>1. PICK r \in sort_comp(array[i], array[up - 1]) :
          CASE r /\ i = up - 1 -> at' = "error" /\ UNCHANGED <<i, j>>
            [] r /\ i # up - 1 -> i' = i + 1 /\ UNCHANGED <<at, j>>
            [] ~r -> at' = "down" /\ j' = j - 1 /\ UNCHANGED i
  BY DEF ScanUp
<1>2. at = "up" /\ array' = array /\ order' = order /\ todo' = todo /\ pivot' = pivot
  BY DEF ScanUp
<1>3. todo # <<>> /\ i \in lo + 1 .. up - 1 /\ j \in lo + 1 .. up - 1
  BY <1>2 DEF Inv, Shape, Scans
<1>4. /\ Shape /\ Rearranged(array)
      /\ lo \in Nat /\ up \in Nat /\ lo < up /\ 1 <= lo /\ up <= Len(array) /\ Len(array) \in Nat
      /\ order # AnyAnswer => HeadInOrder /\ \A k \in lo .. up : Rank(k) \in Int
  BY <1>3, InPart
<1>5. lo' = lo /\ up' = up
  BY <1>2 DEF lo, up
<1>6. ASSUME order # AnyAnswer
      PROVE  /\ IF r THEN Rank(i) < Rank(up - 1) ELSE ~(Rank(i) < Rank(up - 1))
             /\ Rank(i) \in Int /\ Rank(up - 1) \in Int
             /\ \A k \in lo .. i - 1 : Rank(k) <= Rank(up - 1)
             /\ \A k \in j .. up : Rank(up - 1) <= Rank(k)
  <2>1. i \in lo .. up /\ up - 1 \in lo .. up
    BY <1>3, <1>4
  <2> QED
    BY <1>1, <1>2, <1>4, <1>6, <2>1 DEF sort_comp, HeadInOrder, Rank
<1>7. Rearranged(array')
  BY <1>2, <1>4 DEF Rearranged
<1>8. CASE r /\ i = up - 1
  <2>1. at' = "error"
    BY <1>1, <1>8
  <2>2. order = AnyAnswer
    BY <1>6, <1>8
  <2>3. Scans'
    BY <2>1 DEF Scans
  <2> QED
    BY <1>2, <1>3, <1>7, <2>1, <2>2, <2>3, InsideKeeps DEF Questions
<1>9. CASE r /\ i # up - 1
  <2>1. at' = "up" /\ i' = i + 1 /\ j' = j
    BY <1>1, <1>2, <1>9
  <2>2. i + 1 \in lo + 1 .. up - 1
    BY <1>3, <1>4, <1>9
  <2>3. Scans'
    BY <1>3, <1>5, <2>1, <2>2 DEF Scans
  <2>4. ASSUME order # AnyAnswer
        PROVE  HeadInOrder'
    <3>1. Rank(i) <= Rank(up - 1)
      BY <1>6, <1>9, <2>4
    <3>2. \A k \in lo' .. i' - 1 : k = i \/ k \in lo .. i - 1
      BY <1>3, <1>4, <1>5, <2>1
    <3>3. \A k \in lo' .. i' - 1 : Rank(k)' <= Rank(up - 1)'
      BY <1>2, <1>5, <1>6, <2>1, <2>4, <3>1, <3>2 DEF Rank
    <3>4. \A k \in j' .. up' : Rank(up - 1)' <= Rank(k)'
      BY <1>2, <1>5, <1>6, <2>1, <2>4 DEF Rank
    <3> QED
      BY <2>1, <3>3, <3>4 DEF HeadInOrder
  <2> QED
    BY <1>2, <1>3, <1>7, <2>1, <2>3, <2>4, InsideKeeps DEF Questions
<1>10. CASE ~r
  <2>1. at' = "down" /\ i' = i /\ j' = j - 1
    BY <1>1, <1>10
  <2>2. j - 1 \in lo .. up - 2
    BY <1>3, <1>4
  <2>3. Scans'
    BY <1>3, <1>5, <2>1, <2>2 DEF Scans
  <2>4. ASSUME order # AnyAnswer
        PROVE  HeadInOrder'
    <3>1. Rank(up - 1) <= Rank(i)
      BY <1>6, <1>10, <2>4
    <3>2. j - 1 + 1 = j
      BY <1>3, <1>4
    <3>3. \A k \in lo' .. i' - 1 : Rank(k)' <= Rank(up - 1)'
      BY <1>2, <1>5, <1>6, <2>1, <2>4 DEF Rank
    <3>4. \A k \in {i'} \cup (j' + 1 .. up') : Rank(up - 1)' <= Rank(k)'
      BY <1>2, <1>5, <1>6, <2>1, <2>4, <3>1, <3>2 DEF Rank
    <3> QED
      BY <2>1, <3>3, <3>4 DEF HeadInOrder
  <2> QED
    BY <1>2, <1>3, <1>7, <2>1, <2>3, <2>4, InsideKeeps DEF Questions
<1> QED
  BY <1>8, <1>9, <1>10

(* An exchange of two elements that the scans found.                       *)
LEMMA ExchangeKeeps ==
    ASSUME Inv, at = "down", order' = order, j >= i, Exchange,
           order # AnyAnswer => Rank(j) <= Rank(up - 1)
    PROVE  Inv'
<1> DEFINE w == Swapped(array, i, j)
<1>1. todo # <<>> /\ i \in lo + 1 .. up - 1 /\ j \in lo .. up - 2
  BY DEF Inv, Shape, Scans
<1>2. /\ Shape /\ Rearranged(array)
      /\ lo \in Nat /\ up \in Nat /\ lo < up /\ 1 <= lo /\ up <= Len(array) /\ Len(array) \in Nat
      /\ order # AnyAnswer => HeadInOrder /\ \A k \in lo .. up : Rank(k) \in Int
  BY <1>1, InPart
<1>3. array' = w /\ at' = "up" /\ i' = i + 1 /\ j' = j /\ todo' = todo
  BY DEF Exchange
<1>4. lo' = lo /\ up' = up
  BY <1>3 DEF lo, up
<1>5. i \in lo .. up /\ j \in lo .. up /\ up - 1 \in lo .. up /\ up - 1 \notin {i, j}
  BY <1>1, <1>2
<1>6. /\ Rearranged(w) /\ w[i] = array[j] /\ w[j] = array[i]
      /\ \A k \in lo .. up : k \notin {i, j} => w[k] = array[k]
  BY <1>1, <1>2, <1>5, SwapInPart
<1> HIDE DEF w
<1>7. Rearranged(array')
  BY <1>3, <1>6 DEF Rearranged
<1>8. i + 1 \in lo + 1 .. up - 1 /\ j \in lo + 1 .. up - 1
  BY <1>1, <1>2
<1>9. Scans'
  BY <1>3, <1>4, <1>8 DEF Scans
<1>10. ASSUME order # AnyAnswer
       PROVE  HeadInOrder'
  <2>1. /\ \A k \in lo .. i - 1 : Rank(k) <= Rank(up - 1)
        /\ \A k \in {i} \cup (j + 1 .. up) : Rank(up - 1) <= Rank(k)
    BY <1>2, <1>10 DEF HeadInOrder
  <2>2. w[up - 1] = array[up - 1]
    BY <1>5, <1>6
  <2>3. \A k \in lo' .. i' - 1 : k = i \/ (k \in lo .. i - 1 /\ w[k] = array[k])
    BY <1>1, <1>2, <1>3, <1>4, <1>6
  <2>4. \A k \in j' .. up' : k = j \/ (k \in j + 1 .. up /\ w[k] = array[k])
    BY <1>1, <1>2, <1>3, <1>4, <1>6
  <2>5. \A k \in lo' .. i' - 1 : Rank(k)' <= Rank(up - 1)'
    BY <1>3, <1>4, <1>6, <1>10, <2>1, <2>2, <2>3 DEF Rank
  <2>6. \A k \in j' .. up' : Rank(up - 1)' <= Rank(k)'
    BY <1>3, <1>4, <1>6, <2>1, <2>2, <2>4 DEF Rank
  <2> QED
    BY <1>3, <2>5, <2>6 DEF HeadInOrder
<1> QED
  BY <1>1, <1>3, <1>7, <1>9, <1>10, InsideKeeps DEF Questions

(* The end of a partition: the pivot comes between the two parts.          *)
LEMMA EndKeeps ==
    ASSUME Inv, at = "down", order' = order, j < i, EndPartition
    PROVE  Inv'
<1> DEFINE w == Swapped(array, up - 1, i)
           random == Head(todo).random
           n == IF i - lo < up - i THEN i - lo ELSE up - i
           large(x) == [x EXCEPT !.random = @ \/ (x.up - x.lo) \div Skew > n]
           left == [lo |-> lo, up |-> i - 1, random |-> random]
           right == [lo |-> i + 1, up |-> up, random |-> random]
<1>1. todo # <<>> /\ i \in lo + 1 .. up - 1 /\ j \in lo .. up - 2
  BY DEF Inv, Shape, Scans
<1>2. /\ Shape /\ Rearranged(array)
      /\ lo \in Nat /\ up \in Nat /\ lo < up /\ 1 <= lo /\ up <= Len(array) /\ Len(array) \in Nat
      /\ order # AnyAnswer => HeadInOrder /\ \A k \in lo .. up : Rank(k) \in Int
  BY <1>1, InPart
<1>3. random \in BOOLEAN
  BY <1>1, <1>2, HeadPart DEF Part
<1>4. PICK a \in Part, b \in Part :
          /\ \/ a.lo = lo /\ a.up = i - 1 /\ b.lo = i + 1 /\ b.up = up
             \/ b.lo = lo /\ b.up = i - 1 /\ a.lo = i + 1 /\ a.up = up
          /\ array' = w
          /\ Continue(Unsorted(a) \o Unsorted(b))
  <2>1. left \in Part /\ right \in Part
    BY <1>1, <1>2, <1>3 DEF Part
  <2>2. ASSUME NEW x \in Part
        PROVE  large(x) \in Part /\ large(x).lo = x.lo /\ large(x).up = x.up
    <3> DEFINE c == x.random \/ (x.up - x.lo) \div Skew > n
    <3>1. c \in BOOLEAN
      OBVIOUS
    <3>2. large(x) = [x EXCEPT !.random = c]
      BY DEF Part
    <3> HIDE DEF c, large
    <3> QED
      BY <3>1, <3>2 DEF Part
  <2>3. /\ large(left) \in Part /\ large(left).lo = lo /\ large(left).up = i - 1
        /\ large(right) \in Part /\ large(right).lo = i + 1 /\ large(right).up = up
    <3> HIDE DEF large
    <3> QED
      BY <2>1, <2>2
  <2>4. CASE i - lo < up - i
    <3>1. array' = w /\ Continue(Unsorted(left) \o Unsorted(large(right)))
      BY <2>4 DEF EndPartition, Parts2
    <3> QED
      BY <2>1, <2>3, <3>1
  <2>5. CASE ~(i - lo < up - i)
    <3>1. array' = w /\ Continue(Unsorted(right) \o Unsorted(large(left)))
      BY <2>5 DEF EndPartition, Parts2
    <3> QED
      BY <2>1, <2>3, <3>1
  <2> QED
    BY <2>4, <2>5
<1> DEFINE ps == Unsorted(a) \o Unsorted(b)
<1>5. Apart(a, b)
  BY <1>1, <1>2, <1>4 DEF Apart
<1>7. Continue(ps) /\ ps = Unsorted(a) \o Unsorted(b)
  BY <1>4
<1> HIDE DEF ps
<1>6. /\ ps \in Seq(Part) /\ AllApart(ps)
      /\ \A m \in 1 .. Len(ps) : ps[m] \in {a, b} /\ ps[m].lo < ps[m].up
      /\ a.lo < a.up => \E m \in 1 .. Len(ps) : ps[m] = a
      /\ b.lo < b.up => \E m \in 1 .. Len(ps) : ps[m] = b
  <2>1. UnsortedOf(a, b, ps)
    BY <1>5, <1>7, TwoParts
  <2> QED
    BY <2>1 DEF UnsortedOf
<1>8. \A m \in 1 .. Len(ps) : lo <= ps[m].lo /\ ps[m].lo < ps[m].up /\ ps[m].up <= up
  BY <1>1, <1>2, <1>4, <1>6
<1>9. i \in lo .. up /\ up - 1 \in lo .. up
  BY <1>1, <1>2
<1>10. /\ Rearranged(w) /\ w[up - 1] = array[i] /\ w[i] = array[up - 1]
       /\ \A k \in lo .. up : k \notin {up - 1, i} => w[k] = array[k]
  BY <1>1, <1>2, <1>9, SwapInPart
<1>11. array' = w
  BY <1>4
<1> HIDE DEF w
<1>12. Rearranged(array')
  BY <1>10, <1>11 DEF Rearranged
<1>13. ASSUME order # AnyAnswer, NEW k \in lo .. up, NEW l \in lo .. up, k < l,
              \A m \in 1 .. Len(ps) : ~({k, l} \subseteq ps[m].lo .. ps[m].up)
       PROVE  Rank(k)' <= Rank(l)'
  <2>1. /\ \A m \in lo .. i - 1 : Rank(m) <= Rank(up - 1)
        /\ \A m \in {i} \cup (j + 1 .. up) : Rank(up - 1) <= Rank(m)
        /\ \A m \in lo .. up : Rank(m) \in Int
    BY <1>2, <1>13 DEF HeadInOrder
  <2>2. order[w[i]] = Rank(up - 1) /\ order[w[up - 1]] = Rank(i)
    BY <1>10 DEF Rank
  <2>3. \A m \in lo .. i - 1 : order[w[m]] <= Rank(up - 1) /\ order[w[m]] \in Int
    <3>1. \A m \in lo .. i - 1 : m \in lo .. up /\ m \notin {up - 1, i}
      BY <1>1, <1>2
    <3> QED
      BY <1>10, <2>1, <3>1 DEF Rank
  <2>4. \A m \in i .. up : Rank(up - 1) <= order[w[m]] /\ order[w[m]] \in Int
    <3>1. \A m \in i .. up : \/ m = i \/ m = up - 1
                             \/ m \in j + 1 .. up /\ m \in lo .. up /\ m \notin {up - 1, i}
      BY <1>1, <1>2
    <3>2. Rank(up - 1) \in Int /\ Rank(i) \in Int
      BY <1>9, <2>1
    <3> QED
      BY <1>10, <2>1, <2>2, <3>1, <3>2 DEF Rank
  <2>5. k <= i /\ i <= l
    <3>3. ASSUME NEW p \in {a, b}, {k, l} \subseteq p.lo .. p.up
          PROVE  FALSE
      <4>1. p.lo \in Nat /\ p.up \in Nat
        BY DEF Part
      <4>2. p.lo < p.up
        BY <1>2, <1>13, <3>3, <4>1
      <4>3. PICK m \in 1 .. Len(ps) : ps[m] = p
        BY <1>6, <4>2
      <4> QED
        BY <1>13, <3>3, <4>3
    <3>4. /\ \E p \in {a, b} : p.lo = lo /\ p.up = i - 1
          /\ \E p \in {a, b} : p.lo = i + 1 /\ p.up = up
      BY <1>4
    <3>1. ~(k < i /\ l < i)
      <4>1. k < i /\ l < i => {k, l} \subseteq lo .. i - 1
        BY <1>1, <1>2, <1>13
      <4> QED
        BY <3>3, <3>4, <4>1
    <3>2. ~(i < k /\ i < l)
      <4>1. i < k /\ i < l => {k, l} \subseteq i + 1 .. up
        BY <1>1, <1>2, <1>13
      <4> QED
        BY <3>3, <3>4, <4>1
    <3> QED
      BY <1>1, <1>2, <1>13, <3>1, <3>2
  <2>6. order[w[k]] <= Rank(up - 1)
    <3>1. k = i \/ k \in lo .. i - 1
      BY <1>1, <1>2, <2>5
    <3>2. Rank(up - 1) \in Int
      BY <1>9, <2>1
    <3> QED
      BY <2>2, <2>3, <3>1, <3>2
  <2>7. Rank(up - 1) <= order[w[l]]
    <3>1. l \in i .. up
      BY <1>1, <1>2, <2>5
    <3> QED
      BY <2>4, <3>1
  <2>8. order[w[k]] \in Int /\ order[w[l]] \in Int /\ Rank(up - 1) \in Int
    <3>1. \A m \in lo .. up : m \in lo .. i - 1 \/ m \in i .. up
      BY <1>1, <1>2
    <3> QED
      BY <1>9, <1>13, <2>1, <2>3, <2>4, <3>1
  <2> QED
    BY <1>11, <2>6, <2>7, <2>8 DEF Rank
<1> QED
  BY <1>1, <1>6, <1>7, <1>8, <1>12, <1>13, ContinueKeeps

LEMMA ScanDownKeeps ==
    ASSUME Inv, ScanDown
    PROVE  Inv'
<1>1. PICK r \in sort_comp(array[up - 1], array[j]) :
          CASE r /\ j < i -> at' = "error" /\ UNCHANGED <<array, todo, i, j>>
            [] r /\ j >= i -> j' = j - 1 /\ UNCHANGED <<array, todo, at, i>>
            [] ~r /\ j < i -> EndPartition
            [] ~r /\ j >= i -> Exchange
  BY DEF ScanDown
<1>2. at = "down" /\ order' = order /\ pivot' = pivot
  BY DEF ScanDown
<1>3. todo # <<>> /\ i \in lo + 1 .. up - 1 /\ j \in lo .. up - 2
  BY <1>2 DEF Inv, Shape, Scans
<1>4. /\ Shape /\ Rearranged(array)
      /\ lo \in Nat /\ up \in Nat /\ lo < up /\ 1 <= lo /\ up <= Len(array) /\ Len(array) \in Nat
      /\ order # AnyAnswer => HeadInOrder /\ \A k \in lo .. up : Rank(k) \in Int
  BY <1>3, InPart
<1>5. ASSUME order # AnyAnswer
      PROVE  /\ IF r THEN Rank(up - 1) < Rank(j) ELSE ~(Rank(up - 1) < Rank(j))
             /\ Rank(j) \in Int /\ Rank(up - 1) \in Int
             /\ \A k \in lo .. i - 1 : Rank(k) <= Rank(up - 1)
             /\ \A k \in {i} \cup (j + 1 .. up) : Rank(up - 1) <= Rank(k)
  <2>1. j \in lo .. up /\ up - 1 \in lo .. up
    BY <1>3, <1>4
  <2>2. r \in {Rank(up - 1) < Rank(j)}
    BY <1>1, <1>5 DEF sort_comp, Rank
  <2> QED
    BY <1>2, <1>4, <1>5, <2>1, <2>2 DEF HeadInOrder
<1>10. j < i <=> ~(j >= i)
  BY <1>3, <1>4
<1>6. CASE r /\ j < i
  <2>1. at' = "error" /\ array' = array /\ todo' = todo
    BY <1>1, <1>6, <1>10
  <2>2. ASSUME order # AnyAnswer PROVE FALSE
    <3>1. j \in lo .. i - 1
      BY <1>3, <1>4, <1>6
    <3> QED
      BY <1>5, <1>6, <2>2, <3>1
  <2>3. Scans' /\ Rearranged(array')
    BY <1>4, <2>1 DEF Scans, Rearranged
  <2> QED
    BY <1>2, <1>3, <2>1, <2>2, <2>3, InsideKeeps DEF Questions
<1>7. CASE r /\ j >= i
  <2>1. at' = "down" /\ array' = array /\ todo' = todo /\ i' = i /\ j' = j - 1
    BY <1>1, <1>2, <1>7, <1>10
  <2>2. lo' = lo /\ up' = up
    BY <2>1 DEF lo, up
  <2>3. j - 1 \in lo .. up - 2
    BY <1>3, <1>4, <1>7
  <2>4. Scans'
    BY <1>3, <2>1, <2>2, <2>3 DEF Scans
  <2>5. Rearranged(array')
    BY <1>4, <2>1 DEF Rearranged
  <2>6. ASSUME order # AnyAnswer
        PROVE  HeadInOrder'
    <3>1. Rank(up - 1) <= Rank(j)
      BY <1>5, <1>7, <2>6
    <3>2. \A k \in {i'} \cup (j' + 1 .. up') : k = j \/ k \in {i} \cup (j + 1 .. up)
      BY <1>3, <1>4, <2>1, <2>2
    <3>3. \A k \in lo' .. i' - 1 : Rank(k)' <= Rank(up - 1)'
      BY <1>2, <1>5, <2>1, <2>2, <2>6 DEF Rank
    <3>4. \A k \in {i'} \cup (j' + 1 .. up') : Rank(up - 1)' <= Rank(k)'
      BY <1>2, <1>5, <2>1, <2>2, <2>6, <3>1, <3>2 DEF Rank
    <3> QED
      BY <2>1, <3>3, <3>4 DEF HeadInOrder
  <2> QED
    BY <1>2, <1>3, <2>1, <2>4, <2>5, <2>6, InsideKeeps DEF Questions
<1>8. CASE ~r /\ j < i
  <2>1. EndPartition
    BY <1>1, <1>8, <1>10
  <2> QED
    BY <1>2, <1>8, <2>1, EndKeeps
<1>9. CASE ~r /\ j >= i
  <2>1. Exchange
    BY <1>1, <1>9, <1>10
  <2>2. order # AnyAnswer => Rank(j) <= Rank(up - 1)
    BY <1>5, <1>9
  <2> QED
    BY <1>2, <1>9, <2>1, <2>2, ExchangeKeeps
<1> QED
  BY <1>3, <1>4, <1>6, <1>7, <1>8, <1>9

-----------------------------------------------------------------------------
LEMMA InvInit == SortInit => Inv
<1> SUFFICES ASSUME SortInit
             PROVE  Inv
  OBVIOUS
<1>1. PICK n \in Sizes :
          /\ array = [k \in 1 .. n |-> k]
          /\ order \in [1 .. n -> Ranks] \cup {AnyAnswer}
          /\ todo = IF n > 1 THEN <<[lo |-> 1, up |-> n, random |-> FALSE]>> ELSE <<>>
          /\ at = IF n > 1 THEN "ends" ELSE "done"
  BY DEF SortInit
<1>2. n \in Nat \ {0}
  OBVIOUS
<1>3. array \in [1 .. n -> Nat] /\ array \in Seq(Nat) /\ Len(array) = n /\ DOMAIN array = 1 .. n
  BY <1>1, <1>2
<1>4. ToSet(array) = 1 .. n
  BY <1>1, <1>3 DEF ToSet
<1>5. CASE n > 1
  <2> DEFINE p == [lo |-> 1, up |-> n, random |-> FALSE]
  <2>1. p \in Part /\ p.lo = 1 /\ p.up = n
    BY <1>2 DEF Part
  <2>2. todo = <<p>>
    BY <1>1, <1>5
  <2> HIDE DEF p
  <2>3. todo \in Seq(Part) /\ Len(todo) = 1 /\ todo[1] = p /\ todo # <<>>
    BY <2>1, <2>2
  <2>4. AllApart(todo) /\ \A m \in 1 .. Len(todo) : Fits(todo[m], Len(array))
    BY <1>2, <1>3, <1>5, <2>1, <2>3 DEF AllApart, Fits
  <2>5. at = "ends"
    BY <1>1, <1>5
  <2>6. Shape
    BY <1>1, <1>3, <1>4, <2>3, <2>4, <2>5 DEF Shape, Questions, Scans
  <2>7. PartsInOrder
    <3>1. \A k, l \in 1 .. n : {k, l} \subseteq todo[1].lo .. todo[1].up
      BY <1>2, <2>1, <2>3
    <3> QED
      BY <1>3, <2>3, <3>1 DEF PartsInOrder, Together
  <2> QED
    BY <2>5, <2>6, <2>7 DEF Inv, HeadInOrder
<1>6. CASE ~(n > 1)
  <2>1. todo = <<>> /\ at = "done" /\ n = 1
    BY <1>1, <1>2, <1>6
  <2>2. todo \in Seq(Part) /\ Len(todo) = 0
    BY <2>1
  <2>3. Shape
    BY <1>1, <1>3, <1>4, <2>1, <2>2 DEF Shape, AllApart, Questions, Scans
  <2>4. PartsInOrder
    BY <1>3, <2>1 DEF PartsInOrder
  <2> QED
    BY <2>1, <2>3, <2>4 DEF Inv, HeadInOrder
<1> QED
  BY <1>5, <1>6

LEMMA InvStep == Inv /\ [SortNext]_sortVars => Inv'
<1> SUFFICES ASSUME Inv, [SortNext]_sortVars
             PROVE  Inv'
  OBVIOUS
<1>1. CASE SortNext
  BY <1>1, CompareEndsKeeps, PivotLowKeeps, PivotHighKeeps, ScanUpKeeps, ScanDownKeeps DEF SortNext
<1>2. CASE UNCHANGED sortVars
  BY <1>2 DEF sortVars, Inv, Shape, PartsInOrder, HeadInOrder, Scans, Together, Rank, lo, up
<1> QED
  BY <1>1, <1>2

(* What is checked of table.sort on small tables follows.                  *)
LEMMA InvSorts == Inv => SortOrders
<1> SUFFICES ASSUME Inv
             PROVE  SortOrders
  OBVIOUS
<1>1. ToSet(array) = 1 .. Len(array) /\ Len(array) \in Nat
  BY DEF Inv, Shape
<1>2. at \in {"up", "down"} => {i, j} \subseteq lo .. up
  <2> SUFFICES ASSUME at \in {"up", "down"}
               PROVE  {i, j} \subseteq lo .. up
    OBVIOUS
  <2>1. todo # <<>> /\ i \in lo + 1 .. up - 1 /\ (j \in lo + 1 .. up - 1 \/ j \in lo .. up - 2)
    BY DEF Inv, Shape, Scans
  <2>2. lo \in Nat /\ up \in Nat
    BY <2>1, InPart
  <2> QED
    BY <2>1, <2>2
<1>3. order # AnyAnswer => at # "error"
  BY DEF Inv, HeadInOrder
<1>4. ASSUME order # AnyAnswer, at = "done", NEW k \in 2 .. Len(array)
      PROVE  order[array[k - 1]] <= order[array[k]]
  <2>1. todo = <<>> /\ PartsInOrder
    BY <1>4 DEF Inv, Shape
  <2>2. ~Together(k - 1, k)
    BY <2>1 DEF Together
  <2>3. k - 1 \in 1 .. Len(array) /\ k \in 1 .. Len(array) /\ k - 1 < k
    BY <1>1
  <2> QED
    BY <2>1, <2>2, <2>3 DEF PartsInOrder, Rank
<1> QED
  BY <1>1, <1>2, <1>3, <1>4 DEF SortOrders

(* At every question the table holds its elements in some order and the    *)
(* scans are inside their part, whatever the function answers; an order    *)
(* never makes auxsort or partition raise "invalid order function for      *)
(* sorting", and it ends with a sorted table.                              *)
THEOREM SortIsRight == SortSpec => []SortOrders
<1>1. SortSpec => []Inv
  BY InvInit, InvStep, PTL DEF SortSpec
<1> QED
  BY <1>1, InvSorts, PTL

=============================================================================
