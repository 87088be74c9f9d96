----------------------------- MODULE PagedLists -----------------------------
(***************************************************************************)
(* A reader who pages through a list while records are filed.  The lists   *)
(* of audits and reports read a page and count the records at the same     *)
(* time, by two queries; the dashboard reads all records and cuts a page   *)
(* out of them.  Records are never deleted, and none that is filed later   *)
(* is sure to stand above those that were there.                           *)
(***************************************************************************)
EXTENDS Naturals, Sequences, SequencesExt, FiniteSetsExt

CONSTANTS Limit,       \* records of a page
          MaxRecords,  \* bound
          Unread

ASSUME PageAssumption == Limit \in Nat \ {0} /\ MaxRecords \in Nat

VARIABLES list,   \* the records in the order of the list
          page,   \* the page the reader is at
          items,  \* what the first query has returned
          total,  \* what the second has
          known,  \* the records that were there when the reader began
          seen,   \* the records on the pages so far, in their order
          grown,  \* a record was filed since the reader began
          raced   \* one was filed between the count and its page

pageVars == <<list, page, items, total, known, seen, grown, raced>>

AllRead == 0

\* Mutant: the last page is forgotten when it is not full.
TotalPagesDown(count) == Max({1, count \div Limit})

TotalPages(count) == Max({1, (count + Limit - 1) \div Limit})

PageOf(records) == SubSeq(records, ((page - 1) * Limit) + 1, Min({page * Limit, Len(records)}))

PageInit ==
  /\ \E n \in 0..MaxRecords : list = [i \in 1..n |-> n + 1 - i]
  /\ page = 1 /\ items = Unread /\ total = Unread
  /\ known = ToSet(list) /\ seen = <<>>
  /\ grown = FALSE /\ raced = FALSE

\* A record's time is set before its transaction commits.
FileRecord ==
  /\ Len(list) < MaxRecords
  /\ \E place \in 1..Len(list) + 1 : list' = InsertAt(list, place, Len(list) + 1)
  /\ grown' = TRUE
  /\ raced' = (raced \/ (total # Unread /\ items = Unread))
  /\ UNCHANGED <<page, items, total, known, seen>>

ReadItems ==
  /\ page # AllRead /\ items = Unread
  /\ items' = PageOf(list)
  /\ UNCHANGED <<list, page, total, known, seen, grown, raced>>

ReadTotal ==
  /\ page # AllRead /\ total = Unread
  /\ total' = Len(list)
  /\ UNCHANGED <<list, page, items, known, seen, grown, raced>>

\* The dashboard counts the records it has read.
ReadRecords ==
  /\ page # AllRead /\ items = Unread /\ total = Unread
  /\ items' = PageOf(list) /\ total' = Len(list)
  /\ UNCHANGED <<list, page, known, seen, grown, raced>>

\* The reader asks for pages until the answer says it was the last.
Turn ==
  /\ items # Unread /\ total # Unread
  /\ seen' = seen \o items
  /\ page' = IF page < TotalPages(total) THEN page + 1 ELSE AllRead
  /\ items' = Unread /\ total' = Unread
  /\ UNCHANGED <<list, known, grown, raced>>

PageNext == FileRecord \/ ReadItems \/ ReadTotal \/ ReadRecords \/ Turn

PageSpec == PageInit /\ [][PageNext]_pageVars

-----------------------------------------------------------------------------
(* Properties *)

\* A reader at the end has seen every record that was there at the beginning, unless
\* one was filed between the count and the page it belongs to; none is seen twice
\* unless the list has grown.
PagesMissNothing ==
  page = AllRead => /\ raced \/ known \subseteq ToSet(seen)
                    /\ grown \/ IsInjective(seen)
=============================================================================
