--------------------------- MODULE MCReadingsView ---------------------------
(***************************************************************************)
(* A table of two rows of two devices, shown one or two at a time, and a   *)
(* history variable: whether two loads have overlapped or one has failed.  *)
(* What the screen promises while a load is under way holds only without   *)
(* that; what it ends on does not depend on it.                            *)
(***************************************************************************)
EXTENDS ReadingsView

VARIABLE disturbed

HistoryInit == Init /\ disturbed = FALSE
HistoryNext ==
    /\ Next
    /\ disturbed' = (disturbed \/ Cardinality(requests') > 1 \/ faults' > 0)

HistorySpec == HistoryInit /\ [][HistoryNext]_<<vars, disturbed>> /\ Fairness

\* With one load at a time that never fails, the readings and the total on the
\* screen are of the filters and the position on the screen, while the table grows
\* (use-readings.ts:65-88).
SerialFilters == ~disturbed => FiltersAreShown
SerialPosition == ~disturbed => PositionIsTrue

TwoRows == 1 .. 2
Times == [row \in Rows |-> row]
OneTime == [row \in Rows |-> 1]
TwoDevices == [row \in Rows |-> IF row % 2 = 0 THEN "a" ELSE "b"]
=============================================================================
