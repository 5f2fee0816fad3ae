---------------------------- MODULE ReadingsView ----------------------------
(***************************************************************************)
(* use-readings.ts: the dashboard's paged view of a table that grows. Each *)
(* load is a request that reads the table at some moment and is answered   *)
(* later, in any order; the user and the 30-second timer start loads       *)
(* meanwhile. The averages are left out.                                   *)
(***************************************************************************)
EXTENDS ReadingsApi

CONSTANTS
    DefaultSize,    \* DEFAULT_PAGE_SIZE, 50
    MaxRequests,    \* bound: loads in flight at a time
    MaxFaults       \* bound: loads that fail

ASSUME ViewConstants ==
    DefaultSize \in PageSizes /\ MaxRequests \in Nat \ {0} /\ MaxFaults \in Nat

VARIABLES
    table,      \* sensor_readings
    view,       \* the React state
    cursors,    \* the ref of that name; an entry that is missing is NoCursor
    current,    \* the ref of that name
    requests,   \* the loads in flight
    faults

vars == <<table, view, cursors, current, requests, faults>>

Pages == 0 .. Cardinality(Rows)
Cursors == {NoCursor} \cup {Time[r] : r \in Rows}
NotYet == -1

\* fetchReadings for this page; id tells loads apart that ask for the same.
Request(index, size, cursor, filters) ==
    [id |-> CHOOSE i \in 1 .. MaxRequests : \A r \in requests : r.id # i,
     page_index |-> index, page_size |-> size, cursor |-> cursor,
     filters |-> filters, total |-> NotYet, answer |-> <<>>]

FreeSlot == Cardinality(requests) < MaxRequests

\* load, up to the await.
Load(index, size, cursor, filters) ==
    /\ FreeSlot
    /\ requests' = requests \cup {Request(index, size, cursor, filters)}
    /\ view' = [view EXCEPT !.loading = TRUE]

\* The first load, of the effect.
Init ==
    /\ table \in SUBSET Rows
    /\ view = [readings |-> <<>>, total |-> 0, has_more |-> FALSE, page_size |-> DefaultSize,
               page_index |-> 0, filters |-> Anything, status |-> "pending",
               loading |-> TRUE]
    /\ cursors = [i \in Pages |-> NoCursor]
    /\ current = [page_index |-> 0, page_size |-> DefaultSize, filters |-> Anything]
    /\ requests = {[id |-> 1, page_index |-> 0, page_size |-> DefaultSize,
                    cursor |-> NoCursor, filters |-> Anything, total |-> NotYet, answer |-> <<>>]}
    /\ faults = 0

\* ingest.py stores a row; a batch brings rows that are older than others.
Insert(row) ==
    /\ row \notin table /\ table' = table \cup {row}
    /\ UNCHANGED <<view, cursors, current, requests, faults>>

-----------------------------------------------------------------------------
(* What starts a load.                                                     *)

\* variant: the timer keeps the filters of the first render
TimerOfFirstRender ==
    /\ Load(current.page_index, current.page_size, cursors[current.page_index], Anything)
    /\ UNCHANGED <<table, cursors, current, faults>>
\* The timer, and refresh.
Timer ==
    /\ Load(current.page_index, current.page_size, cursors[current.page_index],
            current.filters)
    /\ UNCHANGED <<table, cursors, current, faults>>

\* goToPage from the two buttons of pagination.tsx, which loading disables.
GoToPage(index) ==
    /\ ~view.loading
    /\ \/ index = view.page_index + 1 /\ view.has_more
       \/ index = view.page_index - 1 /\ view.page_index > 0
    /\ index \in Pages
    /\ Load(index, current.page_size, cursors[index], current.filters)
    /\ UNCHANGED <<table, cursors, current, faults>>

ForgetCursors == cursors' = [i \in Pages |-> NoCursor]

ChangePageSize(size) ==
    /\ ForgetCursors
    /\ Load(0, size, NoCursor, current.filters)
    /\ UNCHANGED <<table, current, faults>>

\* variant: the load starts before the filters are stored
ApplyFiltersAfterLoad(filters) ==
    /\ ~view.loading \/ (filters = Anything /\ view.filters # Anything)
    /\ current' = [current EXCEPT !.filters = filters]
    /\ ForgetCursors
    /\ Load(0, current.page_size, NoCursor, current.filters)
    /\ UNCHANGED <<table, faults>>
\* The form's buttons: loading disables the one that applies, not the one that
\* clears.
ApplyFilters(filters) ==
    /\ ~view.loading \/ (filters = Anything /\ view.filters # Anything)
    /\ current' = [current EXCEPT !.filters = filters]
    /\ ForgetCursors
    /\ Load(0, current.page_size, NoCursor, filters)
    /\ UNCHANGED <<table, faults>>

-----------------------------------------------------------------------------
(* What ends one.                                                          *)

\* api.php counts what matches, and then reads the page.
Count(request) ==
    /\ request.total = NotYet
    /\ requests' = (requests \ {request}) \cup
           {[request EXCEPT !.total = Cardinality(Matching(table, request.filters))]}
    /\ UNCHANGED <<table, view, cursors, current, faults>>
Answer(request) ==
    /\ request.total # NotYet /\ request.answer = <<>>
    /\ requests' = (requests \ {request}) \cup
           {[request EXCEPT !.answer =
                <<Page(table, request.filters, request.cursor, request.page_size)>>]}
    /\ UNCHANGED <<table, view, cursors, current, faults>>

\* variant: the cursor is stored for the page it came from
NextCursorsOffByOne(index, page) ==
    [i \in Pages |-> IF i < index THEN cursors[i]
                     ELSE IF ~page.has_more THEN NoCursor
                     ELSE IF i = index THEN page.next_cursor ELSE cursors[i]]
\* cursors[index + 1] is the cursor of the next page, or is cut off.
NextCursors(index, page) ==
    [i \in Pages |-> IF i <= index THEN cursors[i]
                     ELSE IF ~page.has_more THEN NoCursor
                     ELSE IF i = index + 1 THEN page.next_cursor ELSE cursors[i]]

\* load, after the await. The filters are the current ones, not the request's.
Show(request) ==
    /\ request.answer # <<>>
    /\ LET page == request.answer[1] IN
        /\ current' = [current EXCEPT !.page_index = request.page_index,
                                      !.page_size = request.page_size]
        /\ cursors' = NextCursors(request.page_index, page)
        /\ view' = [readings |-> page.readings, total |-> request.total,
                    has_more |-> page.has_more,
                    page_size |-> request.page_size, page_index |-> request.page_index,
                    filters |-> current.filters, status |-> "online",
                    loading |-> FALSE]
    /\ requests' = requests \ {request}
    /\ UNCHANGED <<table, faults>>

\* The catch of load: a fetch that failed, a reject or a 502 of api.php.
FailKeepsLoading(request) ==        \* variant: loading is not reset
    /\ faults < MaxFaults /\ faults' = faults + 1
    /\ view' = [view EXCEPT !.readings = <<>>, !.status = "offline"]
    /\ requests' = requests \ {request}
    /\ UNCHANGED <<table, cursors, current>>
Fail(request) ==
    /\ faults < MaxFaults /\ faults' = faults + 1
    /\ view' = [view EXCEPT !.readings = <<>>, !.status = "offline", !.loading = FALSE]
    /\ requests' = requests \ {request}
    /\ UNCHANGED <<table, cursors, current>>

User ==
    \/ \E index \in Pages : GoToPage(index)
    \/ \E size \in PageSizes : ChangePageSize(size)
    \/ \E filters \in Filters : ApplyFilters(filters)

Next ==
    \/ Timer \/ User
    \/ \E request \in requests :
          Count(request) \/ Answer(request) \/ Show(request) \/ Fail(request)
    \/ \E row \in Rows : Insert(row)

Spec == Init /\ [][Next]_vars

-----------------------------------------------------------------------------
\* The readings and the total on the screen are of the filters on the screen
\* (README.md:36). The table only grows, so an older total is smaller.
FiltersAreShown ==
    /\ \A i \in DOMAIN view.readings : Matches(view.readings[i], view.filters)
    /\ view.total <= Cardinality(Matching(table, view.filters))

\* "Viser 51-100": as many rows as the pages before hold are really newer than
\* what is shown (pagination.tsx:35-40, use-readings.ts:42).
PositionIsTrue ==
    view.readings # <<>> =>
        Cardinality({row \in Matching(table, view.filters) :
                        \A i \in DOMAIN view.readings : Time[row] > Time[view.readings[i]]})
            >= view.page_index * view.page_size

\* The dashboard never shows "loading" with nothing in flight, which would disable
\* its buttons until the timer comes.
LoadingIsServed == view.loading => requests # {}

\* README.md:25-26 and App.tsx:74: the pages that following next_cursor gives are
\* the whole history that matches, every reading once, newest first, none of them
\* longer than was asked for.
WholeHistory ==
    \A filter \in Filters, size \in PageSizes :
        LET PageFrom[cursor \in Cursors] ==
                LET page == Page(table, filter, cursor, size)
                IN  <<page>> \o (IF page.has_more THEN PageFrom[page.next_cursor] ELSE <<>>)
            pages == PageFrom[NoCursor]
        IN  /\ \A i \in DOMAIN pages : Len(pages[i].readings) <= size
            /\ FlattenSeq([i \in DOMAIN pages |-> pages[i].readings])
                    = NewestFirst(Matching(table, filter))

(***************************************************************************)
(* Fairness: each request is answered, the answer is shown, and the timer  *)
(* goes off between the user's clicks.                                     *)
(***************************************************************************)
Fairness ==
    /\ \A id \in 1 .. MaxRequests :
          /\ WF_vars(\E request \in requests : request.id = id /\ Count(request))
          /\ WF_vars(\E request \in requests : request.id = id /\ Answer(request))
          /\ WF_vars(\E request \in requests : request.id = id /\ Show(request))
    /\ SF_vars(Timer)

\* From some moment on the user asks for nothing that the timer does not ask for as
\* well: on a first page without cursors a click and the timer are the same step.
CalmDown == <>[][User => Timer]_vars

\* Then, when loads no longer fail, the screen ends on the filters that were asked
\* for last, and shows what they match, whatever loads overlapped or failed before.
EndsOnLastFilters ==
    CalmDown => <>[](view.filters = current.filters /\ FiltersAreShown)
=============================================================================
