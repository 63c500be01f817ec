---------------------------- MODULE LedgerPaging -----------------------------
(***************************************************************************)
(* LedgerService with a client that reads an account's history page by     *)
(* page (get_transaction_history) while requests commit: each page is one  *)
(* query with LIMIT and OFFSET over a list that grows, at its head or      *)
(* wherever a late COMMIT has its created_at.                              *)
(***************************************************************************)
EXTENDS LedgerService, Sequences

CONSTANT PageSize  \* limit

ASSUME PagingAssumption == PageSize \in Nat \ {0}

VARIABLES
  paged,   \* the account whose history is read, from the first page on
  paging,  \* where the client is: "first", "next", "end"
  due,     \* transactions whose rows were there when the first page was read
  shown    \* transactions of the rows of the pages so far, as they were shown

client == <<paged, paging, due, shown>>
pagingVars == <<vars, client>>

Legs == {"debit", "credit"}

\* The rows of the join: a committed transaction with each of its entries on the
\* account, both if it is a deposit to SYSTEM_CASH or a withdrawal from it.
Rows(a) == {row \in committed \X Legs : a = IF row[2] = "debit" THEN From(row[1]) ELSE To(row[1])}

\* ORDER BY created_at DESC, as the transactions of the rows: at place i fewer
\* than i rows are newer and at least i are not older. The order of the two rows
\* of one transaction is open and makes no difference.
Histories(a) ==
  {h \in [1..Cardinality(Rows(a)) -> {row[1] : row \in Rows(a)}] :
    \A i \in DOMAIN h :
      /\ Cardinality({row \in Rows(a) : created[row[1]] > created[h[i]]}) < i
      /\ Cardinality({row \in Rows(a) : created[row[1]] >= created[h[i]]}) >= i}

\* LIMIT PageSize OFFSET offset
Pages(a, offset) ==
  {SubSeq(h, offset + 1, Min({offset + PageSize, Len(h)})) : h \in Histories(a)}

\* A client asks for the first page of any account, then for the next ones.
Asks(a) ==
  /\ paging # "end"
  /\ paging # "first" => a = paged
  /\ paged' = a
  /\ due' = IF paging = "first" THEN {row[1] : row \in Rows(a)} ELSE due

\* Mutant of ReadPage: a client that stops after as many rows as there were when
\* it read the first page.
StopAtCount(a) ==
  /\ Asks(a)
  /\ Present(a)
  /\ \E page \in Pages(a, Len(shown)) :
       /\ shown' = shown \o page
       /\ paging' = IF Len(shown') < Cardinality({row \in Rows(a) : row[1] \in due'})
                    THEN "next" ELSE "end"
  /\ UNCHANGED vars

\* One page, at the offset of all rows shown so far; a short one is the last.
\* An account that does not exist is a ValueError, answered with 404.
ReadPage(a) ==
  /\ Asks(a)
  /\ \/ ~Present(a) /\ shown' = shown /\ paging' = "end"
     \/ /\ Present(a)
        /\ \E page \in Pages(a, Len(shown)) :
             /\ shown' = shown \o page
             /\ paging' = IF Len(page) = PageSize THEN "next" ELSE "end"
  /\ UNCHANGED vars

PagingInit ==
  /\ Init
  /\ paging = "first" /\ paged = SystemCash /\ due = {} /\ shown = <<>>

PagingNext == (Next /\ UNCHANGED client) \/ \E a \in Account : ReadPage(a)

PagingSpec == PagingInit /\ [][PagingNext]_pagingVars

-----------------------------------------------------------------------------
(* Properties *)

\* A client that pages to the end has been shown every transaction that was
\* committed when it began, newest first, although commits meanwhile move the
\* rows under its offset: rows are repeated, never skipped.
NothingSkipped ==
  paging = "end" => \A t \in due :
    /\ \E i \in DOMAIN shown : shown[i] = t
    /\ \A i \in DOMAIN shown : shown[i] = t =>
         \A s \in due : created[s] > created[t] => \E j \in 1..(i - 1) : shown[j] = s

=============================================================================
