---------------------------- MODULE HostedReads ----------------------------
(***************************************************************************)
(* Hosted read models.  A list is one transaction over the rows its reader *)
(* may see, in the order of their ids; a client walks it page by page with *)
(* a cursor that encodes an offset, while rows are inserted anywhere in    *)
(* that order.  Rows are numbers here, and the list a parameter.           *)
(***************************************************************************)
EXTENDS Naturals, FiniteSets

CONSTANTS
    Limit, \* rows per page
    NoPage \* no cursor, no walk

Walk == [cursor : Nat \cup {NoPage}, shown : SUBSET Nat, first : SUBSET Nat]

ASSUME ReadsAssumption == Limit \in Nat \ {0} /\ NoPage \notin Nat /\ NoPage \notin Walk

VARIABLE walk \* a reader's walk through the list: cursor and pages so far

ReadsInit == walk = NoPage

\* Rows of the list before x.
Position(rows, x) == Cardinality({y \in rows : y < x})

\* The rows of OFFSET o LIMIT n.
Window(rows, o, n) == {x \in rows : o <= Position(rows, x) /\ Position(rows, x) < o + n}

\* Mutant of NextCursor: a full page is taken for the last one.
NextCursorAtLimit(rows, o) ==
    IF Cardinality(Window(rows, o, Limit + 2)) > Limit + 1 THEN o + Limit ELSE NoPage

\* _read_window and _read_page: one row more than the limit is fetched, and a
\* cursor is returned if it was there.
NextCursor(rows, o) ==
    IF Cardinality(Window(rows, o, Limit + 1)) > Limit THEN o + Limit ELSE NoPage

\* A page at offset o, added to what the reader was shown; first is what the
\* list held at the first page.
Page(rows, o, shown, first) ==
    [cursor |-> NextCursor(rows, o), shown |-> shown \cup Window(rows, o, Limit), first |-> first]

FirstPage(rows) ==
    /\ walk = NoPage
    /\ walk' = Page(rows, 0, {}, rows)

NextPage(rows) ==
    /\ walk # NoPage /\ walk.cursor # NoPage
    /\ walk' = Page(rows, walk.cursor, walk.shown, walk.first)

\* The reader is done with the list, or leaves it.
EndWalk == walk # NoPage /\ walk' = NoPage

\* A walk to the last page shows every row that was there at its first page,
\* wherever other rows were inserted meanwhile (the offset cursors of
\* _read_page over lists whose rows are never deleted).
NoRowIsMissed ==
    walk # NoPage /\ walk.cursor = NoPage => walk.first \subseteq walk.shown
=============================================================================
