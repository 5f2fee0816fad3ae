----------------------------- MODULE ReadingsApi -----------------------------
(***************************************************************************)
(* api.php as a function: the page of readings that a table, a filter, a   *)
(* cursor and a page size give. The cursor is a bare timestamp and its     *)
(* bound is exclusive.                                                     *)
(***************************************************************************)
EXTENDS Integers, Sequences, FiniteSets, SequencesExt

CONSTANTS
    Rows,       \* rows that sensor_readings may hold
    Time,       \* their timestamps, a function into Nat \ {0}
    Device,     \* their devices
    PageSizes   \* 10, 25, 50 and 100 in the code

ASSUME ReadingsConstants ==
    /\ IsFiniteSet(Rows) /\ Rows \subseteq Nat
    /\ Time \in [Rows -> Nat \ {0}]
    /\ DOMAIN Device = Rows
    /\ PageSizes \subseteq Nat \ {0}

Devices == {Device[r] : r \in Rows}
Anything == "anything"
Filters == {Anything} \cup Devices
NoCursor == 0       \* no cursor, null or undefined

Matches(row, filter) == filter = Anything \/ Device[row] = filter
Matching(table, filter) == {row \in table : Matches(row, filter)}

Below(rows, cursor) == {row \in rows : cursor = NoCursor \/ Time[row] < cursor}

\* ORDER BY timestamp DESC. Among rows of one timestamp the order is the database's;
\* here, by number.
Newer(a, b) == Time[a] > Time[b] \/ (Time[a] = Time[b] /\ a > b)
NewestFirst(rows) ==
    CHOOSE s \in [1 .. Cardinality(rows) -> rows] :
        \A i, j \in DOMAIN s : i < j => Newer(s[i], s[j])

\* One row more than a page is fetched, to see whether another page follows.
HasMoreOffByOne(fetched, size) == Len(fetched) > size + 1     \* variant
HasMore(fetched, size) == Len(fetched) > size

CutOff(fetched, size) == SubSeq(fetched, 1, size)

Page(table, filter, cursor, size) ==
    LET sorted == NewestFirst(Below(Matching(table, filter), cursor))
        fetched == SubSeq(sorted, 1, IF Len(sorted) > size THEN size + 1 ELSE Len(sorted))
    IN  IF HasMore(fetched, size)
        THEN [readings |-> CutOff(fetched, size), has_more |-> TRUE,
              next_cursor |-> Time[fetched[size]]]
        ELSE [readings |-> fetched, has_more |-> FALSE, next_cursor |-> NoCursor]
=============================================================================
