-------------------------------- MODULE Paging ------------------------------
(*****************************************************************************)
(* What every paged list of the web console shares: pages of rows, newest    *)
(* first, below a cursor, and the walk through older pages that the page     *)
(* components keep beside their first page.  Rows are numbered as they come  *)
(* to exist; a page holds one, and its cursor is its last row, 0 at the end. *)
(*****************************************************************************)
EXTENDS Naturals, Sequences, FiniteSetsExt, SequencesExt

CONSTANTS
    MaxRows,         \* bound on the rows of a list
    Filter           \* the searches or filters of a list

ASSUME PagingAssumption == MaxRows \in Nat \ {0} /\ Filter \subseteq Nat

(* Filter 0 is everything; another one is the rows it divides. *)
Matches(f, rows) == {n \in 1..rows : f = 0 \/ n % f = 0}

EmptyPage == [filter |-> 0, items |-> <<>>, next |-> 0]

(* The page of filter f below a cursor; a first page is below everything. *)
PageOf(f, below, rows) ==
    LET found == {n \in Matches(f, rows) : n < below}
    IN [filter |-> f,
        items |-> IF found = {} THEN <<>> ELSE <<Max(found)>>,
        next |-> IF Cardinality(found) > 1 THEN Max(found) ELSE 0]

FirstPage(f, rows) == PageOf(f, MaxRows + 1, rows)

(* older, cursor and exhausted; exhausted is kept apart from a cursor of 0, *)
(* which is also the state before the walk.                                 *)
NewWalk == [older |-> <<>>, cursor |-> 0, exhausted |-> FALSE]

CursorOf(walk, head) == IF walk.cursor # 0 THEN walk.cursor ELSE head.next
MoreOf(walk, head) == ~walk.exhausted /\ CursorOf(walk, head) # 0

(* A defect: the cursor of the first page is used again. *)
WalkedInPlace(walk, page) ==
    [walk EXCEPT !.older = @ \o page.items, !.exhausted = @ \/ page.next = 0]
Walked(walk, page) ==
    [older |-> walk.older \o page.items, cursor |-> page.next,
     exhausted |-> walk.exhausted \/ page.next = 0]
RowsOf(walk, head) == head.items \o walk.older

Walk == [older : Seq(1..MaxRows), cursor : 0..MaxRows, exhausted : BOOLEAN]
PageType == [filter : Filter, items : Seq(1..MaxRows), next : 0..MaxRows]
=============================================================================
