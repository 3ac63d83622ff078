------------------------------- MODULE LuaSort ------------------------------
(***************************************************************************)
(* table.sort (ltablib.c): a quicksort that asks a function of the program *)
(* for the order of two elements, one question per step, and works in the  *)
(* table itself.  Elements are told apart by their numbers, the first has  *)
(* number 1.  The function may answer by an order or as it likes.          *)
(***************************************************************************)
EXTENDS Integers, Sequences, SequencesExt

CONSTANTS
    Sizes,           \* lengths of tables
    Ranks,           \* the ranks an order may give to elements
    AnyAnswer,             \* no order: any answer, at any time
    RANLIMIT,        \* shorter parts take the middle as pivot
    Skew             \* 128: how unequal parts may be

ASSUME SortAssumption ==
    /\ Sizes \subseteq Nat \ {0} /\ Ranks \subseteq Int
    /\ RANLIMIT \in Nat /\ RANLIMIT >= 4 /\ Skew \in Nat \ {0}

VARIABLES
    array,           \* the table
    order,           \* the rank of each element, or AnyAnswer
    todo,            \* parts to be sorted, the first is being sorted
    at,              \* the question that is asked next, "done" or "error"
    pivot, i, j      \* the pivot, and the two scans of the partition

sortVars == <<array, order, todo, at, pivot, i, j>>

lo == Head(todo).lo
up == Head(todo).up

Swapped(s, x, y) == [s EXCEPT ![x] = s[y], ![y] = s[x]]

(* sort_comp: the answers to "is x less than y?".                          *)
sort_comp(x, y) == IF order = AnyAnswer THEN BOOLEAN ELSE {order[x] < order[y]}

(* choosePivot: any element of the two quarters in the middle.             *)
choosePivot ==
    LET r4 == (up - lo) \div 4 IN
    IF up - lo < RANLIMIT \/ ~Head(todo).random THEN {(lo + up) \div 2} ELSE lo + r4 .. lo + 3 * r4 - 1

(* A part of fewer than two elements is sorted.                            *)
Unsorted(part) == IF part.lo < part.up THEN <<part>> ELSE <<>>

(* What is left when the first part is replaced by the parts ps.           *)
Continue(ps) ==
    /\ todo' = ps \o Tail(todo)
    /\ at' = IF todo' = <<>> THEN "done" ELSE "ends"

-----------------------------------------------------------------------------
(* auxsort: the first, the pivot and the last element come in order.       *)
CompareEnds ==
    /\ at = "ends"
    /\ \E r \in sort_comp(array[up], array[lo]) : array' = IF r THEN Swapped(array, lo, up) ELSE array
    /\ IF up - lo = 1 THEN Continue(<<>>) /\ UNCHANGED pivot
       ELSE at' = "low" /\ pivot' \in choosePivot /\ UNCHANGED todo
    /\ UNCHANGED <<order, i, j>>

(* The pivot, at q, is put aside, before the last element.                 *)
StartPartition(b) ==
    IF up - lo = 2 THEN Continue(<<>>) /\ array' = b /\ UNCHANGED <<i, j>>
    ELSE /\ array' = Swapped(b, pivot, up - 1)
         /\ at' = "up" /\ i' = lo + 1 /\ j' = up - 1
         /\ UNCHANGED todo

PivotLow ==
    /\ at = "low"
    /\ \E r \in sort_comp(array[pivot], array[lo]) :
          IF r THEN StartPartition(Swapped(array, pivot, lo)) ELSE at' = "high" /\ UNCHANGED <<array, todo, i, j>>
    /\ UNCHANGED <<order, pivot>>

PivotHigh ==
    /\ at = "high"
    /\ \E r \in sort_comp(array[up], array[pivot]) : StartPartition(IF r THEN Swapped(array, pivot, up) ELSE array)
    /\ UNCHANGED <<order, pivot>>

-----------------------------------------------------------------------------
(* partition: elements that are not less than the pivot, from the left.    *)
ScanUp ==
    /\ at = "up"
    /\ \E r \in sort_comp(array[i], array[up - 1]) :
          CASE r /\ i = up - 1 -> at' = "error" /\ UNCHANGED <<i, j>>
            [] r /\ i # up - 1 -> i' = i + 1 /\ UNCHANGED <<at, j>>
            [] ~r -> at' = "down" /\ j' = j - 1 /\ UNCHANGED i
    /\ UNCHANGED <<array, order, todo, pivot>>

(* A slip: the pivot changes places with the element the other scan found. *)
PartsAtJ == <<Swapped(array, up - 1, j), j>>

Parts2 == <<Swapped(array, up - 1, i), i>>

(* The smaller part is sorted first, in a call of its own.                 *)
EndPartition ==
    LET q == Parts2[2]
        random == Head(todo).random
        left == [lo |-> lo, up |-> q - 1, random |-> random]
        right == [lo |-> q + 1, up |-> up, random |-> random]
        n == IF q - lo < up - q THEN q - lo ELSE up - q
        large(x) == [x EXCEPT !.random = @ \/ (x.up - x.lo) \div Skew > n]
    IN /\ array' = Parts2[1]
       /\ Continue(IF q - lo < up - q THEN Unsorted(left) \o Unsorted(large(right))
                   ELSE Unsorted(right) \o Unsorted(large(left)))
       /\ UNCHANGED <<i, j>>

(* A slip: both scans start over after an exchange.                        *)
ExchangeStartsOver ==
    /\ array' = Swapped(array, i, j) /\ at' = "up"
    /\ i' = lo + 1 /\ j' = up - 1 /\ UNCHANGED todo

Exchange ==
    /\ array' = Swapped(array, i, j) /\ at' = "up"
    /\ i' = i + 1 /\ UNCHANGED <<j, todo>>

(* Elements that are not greater, from the right, until the scans meet.    *)
ScanDown ==
    /\ at = "down"
    /\ \E r \in sort_comp(array[up - 1], array[j]) :
          CASE r /\ j < i -> at' = "error" /\ UNCHANGED <<array, todo, i, j>>
            [] r /\ j >= i -> j' = j - 1 /\ UNCHANGED <<array, todo, at, i>>
            [] ~r /\ j < i -> EndPartition
            [] ~r /\ j >= i -> Exchange
    /\ UNCHANGED <<order, pivot>>

-----------------------------------------------------------------------------
SortInit ==
    /\ \E n \in Sizes :
          /\ array = [k \in 1 .. n |-> k]
          /\ order \in [1 .. n -> Ranks] \cup {AnyAnswer}
          /\ todo = IF n > 1 THEN <<[lo |-> 1, up |-> n, random |-> FALSE]>> ELSE <<>>
          /\ at = IF n > 1 THEN "ends" ELSE "done"
    /\ pivot = 0 /\ i = 0 /\ j = 0

SortNext == CompareEnds \/ PivotLow \/ PivotHigh \/ ScanUp \/ ScanDown

SortSpec == SortInit /\ [][SortNext]_sortVars /\ WF_sortVars(SortNext)

-----------------------------------------------------------------------------
(* Whenever the function of the program is called, and after an error, the *)
(* table holds what it held, in some order; the scans stay in their part.  *)
(* An order sorts it, ties included, and never is an "invalid order        *)
(* function for sorting" (auxsort, partition).                             *)
SortOrders ==
    /\ ToSet(array) = 1 .. Len(array)
    /\ at \in {"up", "down"} => {i, j} \subseteq lo .. up
    /\ order # AnyAnswer => at # "error"
    /\ order # AnyAnswer /\ at = "done" => \A k \in 2 .. Len(array) : order[array[k - 1]] <= order[array[k]]

(* Sorting ends, even by a function that contradicts itself.               *)
SortEnds == at \notin {"done", "error"} ~> at \in {"done", "error"}

=============================================================================
