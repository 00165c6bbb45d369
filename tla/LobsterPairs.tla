----------------------------- MODULE LobsterPairs -----------------------------
(***************************************************************************)
(* A pair of LOBSTER files: messages and the order book after each.  What  *)
(* the importer checks before it converts a pair, the rows it converts,    *)
(* and the audit of a converted dataset.  A file is a sequence of rows; a  *)
(* message is a record of its columns, a row of the book a sequence of     *)
(* Depth records <<ask price, ask size, bid price, bid size>>.  Times are  *)
(* numbers of the session [0, SessionEnd).  Columns that are no numbers,   *)
(* the roundoff of timestamps and the stop after a hundred errors are left *)
(* out; errors are kept as the set of their kinds.                         *)
(***************************************************************************)
EXTENDS Integers, Sequences, SequencesExt

CONSTANTS
    Depth,       \* levels of a side in the book file
    SessionEnd,  \* end of the session that the file name states
    Dummy        \* price of a level that is not there, on either side
ASSUME PairsAssumption == Depth \in Nat \ {0} /\ SessionEnd \in Nat \ {0}

-----------------------------------------------------------------------------
(* Rows *)

Codes == [add |-> 1, reduce |-> 2, delete |-> 3, execute |-> 4, hidden |-> 5, cross |-> 6, halt |-> 7]
SideOf(m) == IF m.code = Codes.halt THEN "none" ELSE IF m.direction = 1 THEN "BUY" ELSE "SELL"

\* parse_message: a halt is a sentinel, everything else has a size, a price
\* and a direction, and what changes visible orders names one.
Parses(m) ==
    /\ m.time >= 0 /\ m.code \in 1 .. 7 /\ m.id >= 0 /\ m.size >= 0
    /\ IF m.code = Codes.halt
       THEN m.id = 0 /\ m.size = 0 /\ m.price \in {-1, 0, 1} /\ m.direction = -1
       ELSE /\ m.size > 0 /\ m.price > 0 /\ m.direction \in {-1, 1}
            /\ m.code <= Codes.execute => m.id > 0

\* The occupied levels of a side, in the order of the file.
Levels(row, side) ==
    LET quote(level) == IF side = "SELL" THEN <<level[1], level[2]>> ELSE <<level[3], level[4]>>
        occupied(level) == level[2] > 0 /\ level[1] # Dummy
    IN  SelectSeq([i \in DOMAIN row |-> quote(row[i])], occupied)

BookParses(row) ==
    /\ Len(row) = Depth
    /\ \A i \in DOMAIN row : row[i][2] >= 0 /\ row[i][4] >= 0
    /\ \A side \in {"SELL", "BUY"} : \A i \in DOMAIN Levels(row, side) : Levels(row, side)[i][1] > 0

\* Two prices that ascend (or descend) strictly also differ.
AsksAscend(row) ==
    LET asks == Levels(row, "SELL") IN \A i, k \in DOMAIN asks : i < k => asks[i][1] < asks[k][1]
BidsDescend(row) ==
    LET bids == Levels(row, "BUY") IN \A i, k \in DOMAIN bids : i < k => bids[i][1] > bids[k][1]

Best(row, side) == Levels(row, side)[1][1]
TwoSided(row) == Levels(row, "SELL") # <<>> /\ Levels(row, "BUY") # <<>>
Crossed(row) == TwoSided(row) /\ Best(row, "BUY") > Best(row, "SELL")
Locked(row) == TwoSided(row) /\ Best(row, "BUY") = Best(row, "SELL")

\* current_book: price to size; of two levels with one price the later counts.
Shown(row) == [side \in {"SELL", "BUY"} |->
    LET levels == Levels(row, side)
        last(p) == CHOOSE i \in DOMAIN levels :
            levels[i][1] = p /\ \A k \in DOMAIN levels : levels[k][1] = p => k <= i
    IN  [p \in {levels[i][1] : i \in DOMAIN levels} |-> levels[last(p)][2]]]

SizeAt(book, side, p) == IF p \in DOMAIN book[side] THEN book[side][p] ELSE 0

-----------------------------------------------------------------------------
(* A message against the books around it, and against the orders it follows *)

VisibleDelta(m) == CASE m.code = Codes.add -> m.size
                     [] m.code \in Codes.reduce .. Codes.execute -> 0 - m.size
                     [] OTHER -> 0

\* Nothing is checked of a price that was not shown before, or that an add
\* pushed out of sight.
DeltaErrors(m, before, book) ==
    LET side == SideOf(m)
    IN  IF /\ m.code <= Codes.execute
           /\ m.price \in DOMAIN before[side]
           /\ m.price \in DOMAIN book[side] \/ VisibleDelta(m) < 0
           /\ SizeAt(book, side, m.price) - SizeAt(before, side, m.price) # VisibleDelta(m)
        THEN {"visible quantity delta"} ELSE {}

HiddenErrors(m, before, book) ==
    IF m.code > Codes.execute /\ book # before THEN {"unexpectedly changed visible depth"} ELSE {}

\* The orders that were seen to be added, and what remains of them.
AddErrors(m, active, book) ==
    (IF m.id \in DOMAIN active THEN {"duplicate active source order"} ELSE {})
    \cup (IF SizeAt(book, SideOf(m), m.price) < m.size THEN {"added source order is absent"} ELSE {})

\* mutant: the last of an order cannot be taken
LifecycleErrorsStrict(m, order) ==
    (IF order.side # SideOf(m) \/ order.price # m.price THEN {"source order side or price changed"} ELSE {})
    \cup (IF m.size >= order.rest THEN {"source order volume is over-consumed"} ELSE {})
LifecycleErrors(m, order) ==
    (IF order.side # SideOf(m) \/ order.price # m.price THEN {"source order side or price changed"} ELSE {})
    \cup (IF m.size > order.rest THEN {"source order volume is over-consumed"}
          ELSE IF m.code = Codes.delete /\ m.size # order.rest THEN {"delete does not remove the remaining source order"}
          ELSE {})

Drop(active, id) == [i \in DOMAIN active \ {id} |-> active[i]]
Put(active, id, order) == [i \in DOMAIN active \cup {id} |-> IF i = id THEN order ELSE active[i]]

ActiveAfter(m, active) ==
    CASE m.code = Codes.add /\ m.id \notin DOMAIN active ->
            Put(active, m.id, [side |-> SideOf(m), price |-> m.price, rest |-> m.size])
      [] m.code \in Codes.reduce .. Codes.execute /\ m.id \in DOMAIN active ->
            LET order == active[m.id]
                kept == m.size > order.rest \/ (m.code = Codes.delete /\ m.size # order.rest)
            IN  IF kept THEN active
                ELSE IF m.code = Codes.delete \/ m.size = order.rest THEN Drop(active, m.id)
                ELSE Put(active, m.id, [order EXCEPT !.rest = @ - m.size])
      [] OTHER -> active

-----------------------------------------------------------------------------
(* validate_pair *)

NoRow == <<>>
Clean == [errors |-> {}, time |-> -1, before |-> NoRow, active |-> [i \in {} |-> 0], count |-> 0, stopped |-> FALSE]

InWindow(t, window) == window[1] <= t /\ t < window[2]

RowErrors(m, row, v) ==
    LET book == Shown(row)
    IN  UNION {IF m.time < v.time THEN {"timestamp decreased"} ELSE {},
               IF AsksAscend(row) THEN {} ELSE {"ask levels are not ascending"},
               IF BidsDescend(row) THEN {} ELSE {"bid levels are not descending"},
               IF Crossed(row) THEN {"book is crossed"} ELSE {},
               IF InWindow(m.time, <<0, SessionEnd>>) THEN {} ELSE {"filename session window"},
               IF v.before = NoRow THEN {}
               ELSE DeltaErrors(m, Shown(v.before), book) \cup HiddenErrors(m, Shown(v.before), book),
               IF m.code = Codes.add THEN AddErrors(m, v.active, book) ELSE {},
               IF m.code \in Codes.reduce .. Codes.execute /\ m.id \in DOMAIN v.active
               THEN LifecycleErrors(m, v.active[m.id]) ELSE {}}

\* One row of both files; a row that does not parse is skipped.
Checked(v, messages, books, i, window) ==
    LET m == messages[i]
        row == books[i]
    IN  CASE v.stopped -> v
          [] ~v.stopped /\ (i > Len(messages) \/ i > Len(books)) ->
               [v EXCEPT !.errors = @ \cup {"row counts differ"}, !.stopped = TRUE]
          [] ~v.stopped /\ i <= Len(messages) /\ i <= Len(books) /\ ~Parses(m) ->
               [v EXCEPT !.errors = @ \cup {"invalid message"}]
          [] ~v.stopped /\ i <= Len(messages) /\ i <= Len(books) /\ Parses(m) /\ ~BookParses(row) ->
               [v EXCEPT !.errors = @ \cup {"invalid book"} \cup (IF m.time < v.time THEN {"timestamp decreased"} ELSE {}),
                         !.time = m.time]
          [] OTHER ->
               [errors |-> v.errors \cup RowErrors(m, row, v), time |-> m.time, before |-> row,
                active |-> ActiveAfter(m, v.active), stopped |-> FALSE,
                count |-> IF InWindow(m.time, window) THEN v.count + 1 ELSE v.count]

Longer(pair) == IF Len(pair.messages) > Len(pair.books) THEN Len(pair.messages) ELSE Len(pair.books)

\* What is known after each row.
Validation(pair, window) ==
    LET after[i \in 0 .. Longer(pair)] ==
            IF i = 0 THEN Clean ELSE Checked(after[i - 1], pair.messages, pair.books, i, window)
    IN  after
Validated(pair, window) == Validation(pair, window)[Longer(pair)]

Errors(pair, window) ==
    LET v == Validated(pair, window)
    IN  v.errors \cup (IF v.count = 0 THEN {"no events"} ELSE {})
Valid(pair, window) == Errors(pair, window) = {}

-----------------------------------------------------------------------------
(* convert_pair: rows before the window are passed over, the first row      *)
(* behind it ends the conversion.                                           *)

\* mutant: a row at the end of the window still belongs to it
EndOfWindowLate(pair, window) == {i \in DOMAIN pair.messages : pair.messages[i].time > window[2]}
EndOfWindow(pair, window) == {i \in DOMAIN pair.messages : pair.messages[i].time >= window[2]}

\* The rows that are written of the first n.
Conversion(pair, window) ==
    LET skipped(i) == pair.messages[i].time < window[1]
        reached(i) == \A k \in EndOfWindow(pair, window) : i < k
        rows[n \in 0 .. Len(pair.messages)] ==
            IF n = 0 THEN <<>> ELSE IF skipped(n) \/ ~reached(n) THEN rows[n - 1] ELSE Append(rows[n - 1], n)
    IN  rows
Converted(pair, window) == Conversion(pair, window)[Len(pair.messages)]

\* The files are read again, and may be others than those that were checked.  What
\* is read has to parse, in both files, up to the row that ends the conversion.
Convertible(pair, window) ==
    LET read == {i \in DOMAIN pair.messages : \A k \in EndOfWindow(pair, window) : i <= k}
    IN  /\ \A i \in read : i <= Len(pair.books) /\ Parses(pair.messages[i])
        /\ EndOfWindow(pair, window) = {} => Len(pair.messages) = Len(pair.books)
        /\ \A i \in ToSet(Converted(pair, window)) : BookParses(pair.books[i])
        /\ Converted(pair, window) # <<>>

-----------------------------------------------------------------------------
(* validate_normalized_lobster: the audit of a dataset before it is handed  *)
(* over.  Rows hold their sequence number.                                  *)

AuditPasses(dataset, pair) ==
    LET time(i) == pair.messages[dataset.rows[i]].time
        row(i) == pair.books[dataset.rows[i]]
        all == DOMAIN dataset.rows
    IN  /\ dataset.rows # <<>> /\ dataset.count = Len(dataset.rows)
        /\ \A i, k \in all : i < k => dataset.rows[i] < dataset.rows[k] /\ time(i) <= time(k)
        /\ \A i \in all : InWindow(time(i), dataset.window)
        /\ \A i \in all : AsksAscend(row(i)) /\ BidsDescend(row(i)) /\ ~Crossed(row(i)) /\ ~Locked(row(i))
=============================================================================
