------------------------------- MODULE Paging -------------------------------
(***************************************************************************)
(* The paged lists of the API (utils/pagination.ts and the list handlers   *)
(* that use it) over tables that other requests and the indexer write.  A  *)
(* database row carries the time its transaction began, in microseconds,   *)
(* or the server's time in milliseconds; a cursor carries milliseconds.    *)
(***************************************************************************)
EXTENDS Integers, Sequences, FiniteSets, FiniteSetsExt

CONSTANTS
    Readers, Writers,
    UsedLists,          \* the lists the instance exercises
    Limit,              \* rows of a page
    Millisecond,        \* clock units to a millisecond
    MaxTime, MaxRows

ASSUME PagingConstants == Limit \in Nat \ {0} /\ Millisecond \in Nat \ {0}

------------------------------------------------------------------------------
(* The lists: the table, how its created_at is stamped, the order of the   *)
(* pages, and whether the statement and the count that follows it fit the  *)
(* parameters they are given.                                              *)

KeysetList(table) == [table |-> table, stamp |-> "database", order |-> "created", fits |-> TRUE]

getBorrowerEvents == KeysetList("contract_events")
getLoanEvents == KeysetList("contract_events")
getRecentEvents == KeysetList("contract_events")

(* The count keeps every placeholder of the page's WHERE clause and is     *)
(* given one value less than it names.                                     *)
getRemittances == [KeysetList("remittances") EXCEPT !.stamp = "server", !.fits = FALSE]

(* With a status filter the clause starts "WHERE" right after the table's  *)
(* name; without one it starts with a space.                               *)
listLoanDisputes(status) == [KeysetList("loan_disputes") EXCEPT !.fits = (status = "all")]

(* Pages in the order of the key itself.                                   *)
listQuarantinedEvents == [KeysetList("quarantine_events") EXCEPT !.order = "key"]
BorrowerLoanPages == [KeysetList("loans_of_borrower") EXCEPT !.order = "key"]

(* GET /transactions/me: the newest first, below the id of the cursor.     *)
listMyTransactions == [KeysetList("transaction_submissions") EXCEPT !.order = "newest"]

Lists ==
    [borrowerEvents |-> getBorrowerEvents, loanEvents |-> getLoanEvents,
     recentEvents |-> getRecentEvents, remittances |-> getRemittances,
     openDisputes |-> listLoanDisputes("open"), allDisputes |-> listLoanDisputes("all"),
     quarantine |-> listQuarantinedEvents, loans |-> BorrowerLoanPages,
     transactions |-> listMyTransactions]

ASSUME ListNames == UsedLists \subseteq DOMAIN Lists

(* The page size of a keyset request: 1 .. 100, 50 when absent or unusable. *)
parseKeysetParams(limit, wanted) == IF wanted < 1 THEN limit ELSE wanted

(* An offset or cursor request keeps a limit of 0.                         *)
parsePositiveInteger(limit, wanted) == IF wanted < 0 THEN limit ELSE wanted

PageSize(list, wanted) ==
    IF list.order = "key" THEN parsePositiveInteger(Limit, wanted) ELSE parseKeysetParams(Limit, wanted)

------------------------------------------------------------------------------
VARIABLES
    time,
    rows,               \* [table, seq, at, writer]
    writing,            \* writer -> the table it is inserting into, or "none"
    stamp,              \* writer -> created_at of its rows
    reader              \* reader -> [pc, list, snapshot, cursor, seen, expected]

pagingVars == <<time, rows, writing, stamp, reader>>

NoCursor == [at |-> -1, seq |-> -1]
FreshReader == [pc |-> "idle", list |-> "none", snapshot |-> 0, cursor |-> NoCursor,
                seen |-> <<>>, expected |-> {}]

PagingInit ==
    /\ time = 0
    /\ rows = {}
    /\ writing = [w \in Writers |-> "none"]
    /\ stamp = [w \in Writers |-> 0]
    /\ reader = [r \in Readers |-> FreshReader]

Truncated(t) == (t \div Millisecond) * Millisecond

(* A row is visible once its writer's transaction has committed.           *)
VisibleRows(table) == {row \in rows : row.table = table /\ writing[row.writer] # table}

Tables == {Lists[l].table : l \in UsedLists}
Stamping(table) == {Lists[l].stamp : l \in {k \in UsedLists : Lists[k].table = table}}

beginWrite(w, table) ==
    /\ writing[w] = "none" /\ \A row \in rows : row.writer # w
    /\ writing' = [writing EXCEPT ![w] = table]
    /\ stamp' = [stamp EXCEPT ![w] = IF "server" \in Stamping(table) THEN Truncated(time) ELSE time]
    /\ UNCHANGED <<time, rows, reader>>

insertRow(w) ==
    LET used == {row.seq : row \in {x \in rows : x.table = writing[w]}}
    IN  /\ writing[w] # "none" /\ Cardinality(rows) < MaxRows
        /\ rows' = rows \cup {[table |-> writing[w], seq |-> Max(used \cup {0}) + 1,
                               at |-> stamp[w], writer |-> w]}
        /\ UNCHANGED <<time, writing, stamp, reader>>

commitWrite(w) ==
    /\ writing[w] # "none"
    /\ writing' = [writing EXCEPT ![w] = "none"]
    /\ UNCHANGED <<time, rows, stamp, reader>>

(* The first page pins the highest seq of the table.                       *)
pinSnapshot(r, l) ==
    LET visible == VisibleRows(Lists[l].table)
    IN  /\ reader[r].pc = "idle"
        /\ reader' = [reader EXCEPT ![r] =
               [FreshReader EXCEPT !.pc = "fetch", !.list = l, !.expected = visible,
                                   !.snapshot = Max({row.seq : row \in visible} \cup {0})]]
        /\ UNCHANGED <<time, rows, writing, stamp>>

(* What the cursor of a page keeps of its last row.                        *)
encodeCursor(row) == [at |-> Truncated(row.at), seq |-> row.seq]

(* Fault: the row of the cursor itself is on the next page.                *)
buildKeysetClause_Faulty(row, cursor) ==
    cursor = NoCursor \/ row.at < cursor.at \/ (row.at = cursor.at /\ row.seq <= cursor.seq)

buildKeysetClause(row, cursor) ==
    cursor = NoCursor \/ row.at < cursor.at \/ (row.at = cursor.at /\ row.seq < cursor.seq)

(* The rows a page may hold, and which of two comes first.                 *)
InPage(state, list, row) ==
    CASE list.order = "key" -> row.seq > state.cursor.seq
      [] list.order = "newest" -> state.cursor = NoCursor \/ row.seq < state.cursor.seq
      [] list.order = "created" -> row.seq <= state.snapshot /\ buildKeysetClause(row, state.cursor)
Precedes(list, x, y) ==
    CASE list.order = "key" -> x.seq < y.seq
      [] list.order = "newest" -> x.seq > y.seq
      [] list.order = "created" -> x.at > y.at \/ (x.at = y.at /\ x.seq > y.seq)

InOrder(list, S) ==
    LET Rank(row) == Cardinality({x \in S : Precedes(list, x, row)}) + 1
    IN  [i \in 1 .. Cardinality(S) |-> CHOOSE row \in S : Rank(row) = i]

(* One page: limit + 1 rows are read to tell whether there is a next one.  *)
fetchPage(r, wanted) ==
    LET state == reader[r]
        list == Lists[state.list]
        found == InOrder(list, {row \in VisibleRows(list.table) : InPage(state, list, row)})
        size == PageSize(list, wanted)
        hasNext == Len(found) > size
        page == IF hasNext THEN SubSeq(found, 1, size) ELSE found
    IN  /\ state.pc = "fetch"
        /\ reader' = [reader EXCEPT ![r] =
               IF ~list.fits THEN [state EXCEPT !.pc = "failed"]
               ELSE [state EXCEPT !.pc = IF hasNext /\ page # <<>> THEN "fetch" ELSE "done",
                                  !.seen = @ \o page,
                                  !.cursor = IF page = <<>> THEN @ ELSE encodeCursor(page[Len(page)])]]
        /\ UNCHANGED <<time, rows, writing, stamp>>

PagingTick ==
    /\ time < MaxTime
    /\ time' = time + 1
    /\ UNCHANGED <<rows, writing, stamp, reader>>

PagingNext ==
    \/ \E w \in Writers : (\E table \in Tables : beginWrite(w, table)) \/ insertRow(w) \/ commitWrite(w)
    \/ \E r \in Readers : (\E l \in UsedLists : pinSnapshot(r, l)) \/ (\E n \in 0 .. Limit : fetchPage(r, n))
    \/ PagingTick

PagingSpec == PagingInit /\ [][PagingNext]_pagingVars

------------------------------------------------------------------------------
(* Whatever is written while a client pages through a list, no row comes   *)
(* twice, no row of a keyset list is newer than its snapshot, and a list   *)
(* in the order of its key has at its end shown every row that was there   *)
(* when it was opened (a page of size 0 aside, which has no next), as has  *)
(* the list that runs down from the newest id.                             *)
PagesNeverRepeat ==
    \A r \in Readers :
        LET s == reader[r]
        IN  /\ \A i, j \in 1 .. Len(s.seen) : i # j => s.seen[i] # s.seen[j]
            /\ s.list # "none" /\ Lists[s.list].order = "created" =>
                   \A i \in 1 .. Len(s.seen) : s.seen[i].seq <= s.snapshot
            /\ s.pc = "done" /\ Lists[s.list].order = "key" /\ s.seen # <<>> =>
                   \A row \in s.expected :
                       \/ \E i \in 1 .. Len(s.seen) : s.seen[i] = row
                       \/ row.seq > s.seen[Len(s.seen)].seq
            /\ s.pc = "done" /\ Lists[s.list].order = "newest" =>
                   \A row \in s.expected : \E i \in 1 .. Len(s.seen) : s.seen[i] = row
==============================================================================
