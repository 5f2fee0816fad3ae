------------------------ MODULE ReadingsView_proofs ------------------------
(***************************************************************************)
(* Proofs about the dashboard's paged view, for any rows, timestamps,      *)
(* devices, page sizes, number of loads and number of loads that fail.     *)
(***************************************************************************)
EXTENDS MCReadingsView, FiniteSetTheorems, SequenceTheorems, WellFoundedInduction, TLAPS

-----------------------------------------------------------------------------
(* Finite sets, and sorting them.                                          *)

\* Of some finite sets, one is such that none of them is smaller by one element.
LEMMA SmallestSet ==
    ASSUME NEW F, F # {}, \A S \in F : IsFiniteSet(S)
    PROVE  \E S \in F : \A x \in S : S \ {x} \notin F
  <1> DEFINE Sizes == {Cardinality(S) : S \in F}
  <1>1. Sizes \subseteq Nat /\ Sizes # {}
    BY FS_CardinalityType
  <1>2. PICK n \in Sizes : \A m \in Sizes : <<m, n>> \notin OpToRel(<, Nat)
    <2> HIDE DEF Sizes
    <2> QED
      BY <1>1, NatLessThanWellFounded, WFMin
  <1>3. \A m \in Sizes : ~(m < n)
    BY <1>1, <1>2 DEF OpToRel
  <1>4. PICK S \in F : Cardinality(S) = n
    BY <1>2
  <1>5. ASSUME NEW x \in S, S \ {x} \in F PROVE FALSE
    <2>1. Cardinality(S \ {x}) = Cardinality(S) - 1
      BY <1>4, <1>5, FS_RemoveElement
    <2>2. Cardinality(S \ {x}) \in Sizes
      BY <1>5
    <2> QED
      BY <2>1, <2>2, <1>1, <1>3, <1>4
  <1> QED
    BY <1>5

\* A finite set of rows has an oldest one.
LEMMA OldestRow ==
    ASSUME NEW S \in SUBSET Rows, S # {}
    PROVE  \E r \in S : \A other \in S \ {r} : Newer(other, r)
  <1> DEFINE Bad == {T \in SUBSET S : T # {} /\ ~\E r \in T : \A other \in T \ {r} : Newer(other, r)}
  <1>1. SUFFICES ASSUME Bad # {} PROVE FALSE
    OBVIOUS
  <1>2. PICK T \in Bad : \A x \in T : T \ {x} \notin Bad
    <2>1. \A T \in Bad : IsFiniteSet(T)
      BY FS_Subset, ReadingsConstants
    <2> HIDE DEF Bad
    <2> QED
      BY <1>1, <2>1, SmallestSet
  <1>3. PICK x \in T : TRUE
    BY <1>2
  <1>4. T \ {x} # {}
    BY <1>2, <1>3
  <1>5. PICK r \in T \ {x} : \A other \in (T \ {x}) \ {r} : Newer(other, r)
    BY <1>2, <1>3, <1>4
  <1>6. x \in Rows /\ r \in Rows /\ T \subseteq Rows /\ x # r
    BY <1>2, <1>3, <1>5
  <1>7. CASE Newer(x, r)
    BY <1>2, <1>5, <1>7
  <1>8. CASE Newer(r, x)
    <2>1. \A other \in T \ {x} : Newer(other, x)
      BY <1>5, <1>6, <1>8, ReadingsConstants DEF Newer
    <2> QED
      BY <1>2, <1>3, <2>1
  <1>9. Newer(x, r) \/ Newer(r, x)
    BY <1>6, ReadingsConstants DEF Newer
  <1> QED
    BY <1>7, <1>8, <1>9

IsNewestFirst(s) == \A i, j \in DOMAIN s : i < j => Newer(s[i], s[j])
CanBeSorted(S) == \E s \in [1 .. Cardinality(S) -> S] : IsNewestFirst(s)

LEMMA RowsCanBeSorted ==
    ASSUME NEW S \in SUBSET Rows
    PROVE  CanBeSorted(S)
  <1> DEFINE Bad == {T \in SUBSET S : ~CanBeSorted(T)}
  <1>1. SUFFICES ASSUME Bad # {} PROVE FALSE
    OBVIOUS
  <1>2. \A T \in Bad : IsFiniteSet(T)
    BY FS_Subset, ReadingsConstants
  <1>3. PICK T \in Bad : \A x \in T : T \ {x} \notin Bad
    <2> HIDE DEF Bad
    <2> QED
      BY <1>1, <1>2, SmallestSet
  <1>4. T # {}
    <2> SUFFICES ASSUME T = {} PROVE CanBeSorted(T)
      BY <1>3
    <2>1. Cardinality(T) = 0
      BY FS_EmptySet
    <2> DEFINE s == [i \in 1 .. 0 |-> i]
    <2>2. s \in [1 .. 0 -> T] /\ IsNewestFirst(s)
      BY DEF IsNewestFirst
    <2> QED
      BY <2>1, <2>2 DEF CanBeSorted
  <1>5. PICK r \in T : \A other \in T \ {r} : Newer(other, r)
    BY <1>3, <1>4, OldestRow
  <1> DEFINE n == Cardinality(T)
  <1>6. n \in Nat \ {0} /\ Cardinality(T \ {r}) = n - 1
    BY <1>2, <1>3, <1>4, <1>5, FS_RemoveElement, FS_CardinalityType, FS_EmptySet
  <1>7. PICK s \in [1 .. n - 1 -> T \ {r}] : IsNewestFirst(s)
    BY <1>3, <1>5, <1>6 DEF CanBeSorted
  <1> DEFINE t == [i \in 1 .. n |-> IF i = n THEN r ELSE s[i]]
  <1>8. t \in [1 .. n -> T]
    BY <1>5, <1>6, <1>7
  <1>9. ASSUME NEW i \in 1 .. n, NEW j \in 1 .. n, i < j PROVE Newer(t[i], t[j])
    <2>1. i \in 1 .. n - 1 /\ t[i] = s[i] /\ s[i] \in T \ {r}
      BY <1>6, <1>7, <1>9
    <2>2. CASE j = n
      BY <2>1, <2>2, <1>5
    <2>3. CASE j # n
      BY <2>1, <2>3, <1>6, <1>7, <1>9 DEF IsNewestFirst
    <2> QED
      BY <2>2, <2>3
  <1>10. IsNewestFirst(t)
    BY <1>8, <1>9 DEF IsNewestFirst
  <1> QED
    BY <1>3, <1>8, <1>10 DEF CanBeSorted

\* The order in which api.php gets the rows: they are those asked for, each once,
\* and the later ones are not newer.
LEMMA Sorted ==
    ASSUME NEW S \in SUBSET Rows
    PROVE  /\ NewestFirst(S) \in Seq(S)
           /\ \A i, j \in 1 .. Len(NewestFirst(S)) : i < j =>
                 /\ NewestFirst(S)[i] # NewestFirst(S)[j]
                 /\ Time[NewestFirst(S)[i]] >= Time[NewestFirst(S)[j]]
  <1> DEFINE s == NewestFirst(S)
  <1>1. s \in [1 .. Cardinality(S) -> S] /\ IsNewestFirst(s)
    BY RowsCanBeSorted DEF CanBeSorted, IsNewestFirst, NewestFirst
  <1>2. Cardinality(S) \in Nat
    BY FS_Subset, FS_CardinalityType, ReadingsConstants
  <1>3. s \in Seq(S) /\ Len(s) = Cardinality(S)
    BY <1>1, <1>2
  <1> HIDE DEF s
  <1>4. \A i, j \in 1 .. Len(s) : i < j => s[i] # s[j] /\ Time[s[i]] >= Time[s[j]]
    <2> SUFFICES ASSUME NEW i \in 1 .. Len(s), NEW j \in 1 .. Len(s), i < j
                 PROVE  s[i] # s[j] /\ Time[s[i]] >= Time[s[j]]
      OBVIOUS
    <2>1. Newer(s[i], s[j])
      BY <1>1, <1>2, <1>3 DEF IsNewestFirst
    <2>2. s[i] \in Rows /\ s[j] \in Rows
      BY <1>1, <1>2, <1>3
    <2>3. \A a, b \in Rows : Newer(a, b) => a # b /\ Time[a] >= Time[b]
      BY ReadingsConstants DEF Newer
    <2> QED
      BY <2>1, <2>2, <2>3
  <1> USE DEF s
  <1> QED
    BY <1>3, <1>4

-----------------------------------------------------------------------------
(* Pages.                                                                  *)

PageType == [readings : Seq(Rows), has_more : BOOLEAN, next_cursor : Cursors]

\* The rows on the pages in front of a cursor, and those that are newer than all of
\* the readings.
Before(rows, cursor) == {row \in rows : Time[row] >= cursor}
NewerThan(rows, readings) ==
    {row \in rows : \A i \in DOMAIN readings : Time[row] > Time[readings[i]]}

LEMMA RowTypes ==
    /\ Cardinality(Rows) \in Nat /\ Cursors \subseteq Nat
    /\ NoCursor \in Cursors /\ \A r \in Rows : Time[r] \in Cursors \ {NoCursor}
    /\ Pages \subseteq Nat /\ 0 \in Pages /\ PageSizes \subseteq Nat \ {0}
  BY ReadingsConstants, FS_CardinalityType DEF Cursors, NoCursor, Pages

LEMMA MatchingRows ==
    ASSUME NEW tab \in SUBSET Rows, NEW filter
    PROVE  Matching(tab, filter) \in SUBSET Rows
  BY DEF Matching

LEMMA CountOfRows ==
    ASSUME NEW S \in SUBSET Rows
    PROVE  IsFiniteSet(S) /\ Cardinality(S) \in Nat
  BY FS_Subset, FS_CardinalityType, ReadingsConstants

LEMMA MoreRows ==
    ASSUME NEW S \in SUBSET Rows, NEW T \in SUBSET S
    PROVE  Cardinality(T) <= Cardinality(S)
  BY FS_Subset, CountOfRows

\* What a page holds, and where the next one begins.
LEMMA PageFacts ==
    ASSUME NEW tab \in SUBSET Rows, NEW filter, NEW cursor \in Cursors, NEW size \in PageSizes
    PROVE  LET page == Page(tab, filter, cursor, size)
           IN  /\ page \in PageType
               /\ page.readings \in Seq(Below(Matching(tab, filter), cursor))
               /\ \A i, j \in 1 .. Len(page.readings) :
                     i # j => page.readings[i] # page.readings[j]
               /\ page.has_more =>
                     /\ Len(page.readings) = size
                     /\ page.next_cursor # NoCursor
                     /\ \A i \in 1 .. size : Time[page.readings[i]] >= page.next_cursor
  <1> DEFINE rows == Below(Matching(tab, filter), cursor)
             sorted == NewestFirst(rows)
             fetched == SubSeq(sorted, 1, IF Len(sorted) > size THEN size + 1 ELSE Len(sorted))
             page == Page(tab, filter, cursor, size)
  <1>1. rows \in SUBSET Rows /\ size \in Nat \ {0}
    BY ReadingsConstants DEF Below, Matching
  <1>2. /\ sorted \in Seq(rows)
        /\ \A i, j \in 1 .. Len(sorted) : i < j =>
              sorted[i] # sorted[j] /\ Time[sorted[i]] >= Time[sorted[j]]
    <2> HIDE DEF rows
    <2> QED
      BY <1>1, Sorted
  <1> HIDE DEF rows, sorted
  <1>3. /\ fetched \in Seq(rows) /\ Len(fetched) <= size + 1
        /\ \A i \in 1 .. Len(fetched) : i \in 1 .. Len(sorted) /\ fetched[i] = sorted[i]
    BY <1>1, <1>2
  <1>4. page = IF Len(fetched) > size
               THEN [readings |-> SubSeq(fetched, 1, size), has_more |-> TRUE,
                     next_cursor |-> Time[fetched[size]]]
               ELSE [readings |-> fetched, has_more |-> FALSE, next_cursor |-> NoCursor]
    BY DEF Page, HasMore, CutOff, rows, sorted
  <1>5. \A r \in rows : r \in Rows /\ Time[r] \in Cursors \ {NoCursor} /\ Time[r] \in Nat
    BY <1>1, RowTypes
  <1> HIDE DEF fetched, page
  <1>6. CASE Len(fetched) > size
    <2>1. /\ page.readings \in Seq(rows) /\ Len(page.readings) = size
          /\ \A i \in 1 .. size : page.readings[i] = fetched[i] /\ fetched[i] = sorted[i]
                                  /\ i \in 1 .. Len(sorted)
          /\ page.next_cursor = Time[sorted[size]] /\ sorted[size] \in rows
      <3>1. page.readings = SubSeq(fetched, 1, size) /\ page.next_cursor = Time[fetched[size]]
        BY <1>4, <1>6
      <3>2. fetched \in Seq(rows) /\ size \in 1 .. Len(fetched) /\ Len(fetched) \in Nat
        BY <1>1, <1>3, <1>6
      <3>3. /\ SubSeq(fetched, 1, size) \in Seq(rows) /\ Len(SubSeq(fetched, 1, size)) = size
            /\ \A i \in 1 .. size : SubSeq(fetched, 1, size)[i] = fetched[i]
        BY <1>1, <3>2
      <3>4. \A i \in 1 .. size : fetched[i] = sorted[i] /\ i \in 1 .. Len(sorted)
        BY <1>1, <1>3, <3>2
      <3>5. sorted[size] \in rows
        BY <1>1, <1>2, <3>4
      <3> QED
        BY <1>1, <3>1, <3>3, <3>4, <3>5
    <2>2. \A i \in 1 .. size : Time[sorted[i]] >= Time[sorted[size]]
      <3> SUFFICES ASSUME NEW i \in 1 .. size PROVE Time[sorted[i]] >= Time[sorted[size]]
        OBVIOUS
      <3>1. CASE i = size
        BY <2>1, <3>1, <1>5
      <3>2. CASE i # size
        BY <2>1, <3>2, <1>1, <1>2
      <3> QED
        BY <3>1, <3>2
    <2>3. \A i, j \in 1 .. size : i # j => sorted[i] # sorted[j]
      BY <2>1, <1>1, <1>2
    <2>4. page.readings \in Seq(Rows) /\ page.next_cursor \in Cursors \ {NoCursor}
      BY <2>1, <1>5
    <2>5. page \in PageType
      BY <2>4, <1>4, <1>6 DEF PageType
    <2> QED
      BY <2>1, <2>2, <2>3, <2>4, <2>5 DEF page, rows
  <1>7. CASE ~(Len(fetched) > size)
    <2>1. page.readings = fetched /\ ~page.has_more /\ page.next_cursor = NoCursor
      BY <1>4, <1>7
    <2>2. \A i, j \in 1 .. Len(fetched) : i # j => fetched[i] # fetched[j]
      BY <1>2, <1>3
    <2>3. fetched \in Seq(Rows)
      BY <1>3, <1>5
    <2>4. page \in PageType
      BY <2>3, <1>4, <1>7, RowTypes DEF PageType
    <2> QED
      BY <2>1, <2>2, <2>4, <1>3 DEF page, rows
  <1> QED
    BY <1>6, <1>7

\* The rows in front of the next page are those in front of this one and those on it.
LEMMA NextPageIsFurther ==
    ASSUME NEW rows \in SUBSET Rows, NEW cursor \in Cursors, NEW next \in Cursors,
           NEW n \in Nat, NEW size \in Nat, NEW readings \in Seq(Below(rows, cursor)),
           Len(readings) = size, \A i \in 1 .. size : Time[readings[i]] >= next,
           \A i, j \in 1 .. size : i # j => readings[i] # readings[j],
           cursor = NoCursor => n = 0,
           Cardinality(Before(rows, cursor)) >= n,
           size > 0
    PROVE  Cardinality(Before(rows, next)) >= n + size
  <1> DEFINE shown == {readings[i] : i \in 1 .. size}
             front == IF cursor = NoCursor THEN {} ELSE Before(rows, cursor)
  <1>1. \A i \in 1 .. size : readings[i] \in Below(rows, cursor)
    OBVIOUS
  <1>2. shown \in SUBSET Rows /\ front \in SUBSET Rows
    BY <1>1 DEF Below, Before
  <1>3. Cardinality(shown) >= size
    <2> DEFINE f == [i \in 1 .. size |-> readings[i]]
    <2>1. f \in [1 .. size -> shown] /\ \A i, j \in 1 .. size : i # j => f[i] # f[j]
      OBVIOUS
    <2>2. IsFiniteSet(1 .. size) /\ Cardinality(1 .. size) = size
      <3>1. /\ IsFiniteSet(1 .. size)
            /\ Cardinality(1 .. size) = IF 1 > size THEN 0 ELSE size - 1 + 1
        BY FS_Interval, size \in Int, 1 \in Int, Zenon
      <3> QED
        BY <3>1
    <2>3. IsFiniteSet(shown) /\ Cardinality(shown) \in Nat
      BY <1>2, CountOfRows
    <2> HIDE DEF f, shown
    <2>4. ~(Cardinality(shown) < size)
      BY <2>1, <2>2, <2>3, FS_PigeonHole
    <2> QED
      BY <2>3, <2>4
  <1>4. Cardinality(front) >= n
    <2>1. CASE cursor = NoCursor
      BY <2>1, FS_EmptySet
    <2>2. CASE cursor # NoCursor
      BY <2>2
    <2> QED
      BY <2>1, <2>2
  <1>5. front \cap shown = {}
    <2>1. \A r \in rows : Time[r] \in Nat
      BY RowTypes
    <2>2. cursor \in Nat
      BY RowTypes
    <2> QED
      BY <1>1, <2>1, <2>2 DEF Below, Before
  <1>6. front \cup shown \subseteq Before(rows, next)
    <2>1. \A r \in rows : Time[r] \in Nat
      BY RowTypes
    <2>2. cursor \in Nat /\ next \in Nat
      BY RowTypes
    <2>3. shown \subseteq Before(rows, next)
      BY <1>1 DEF Below, Before
    <2>4. cursor # NoCursor => next < cursor
      <3>1. readings[1] \in Below(rows, cursor) /\ Time[readings[1]] >= next
        BY <1>1
      <3> QED
        BY <2>1, <2>2, <3>1 DEF Below
    <2>5. front \subseteq Before(rows, next)
      BY <2>1, <2>2, <2>4 DEF Before
    <2> QED
      BY <2>3, <2>5
  <1> HIDE DEF shown, front
  <1>7. Cardinality(front \cup shown) = Cardinality(front) + Cardinality(shown)
    <2>1. IsFiniteSet(front) /\ IsFiniteSet(shown)
      BY <1>2, CountOfRows
    <2>2. Cardinality(front) \in Nat /\ Cardinality(shown) \in Nat
      BY <1>2, CountOfRows
    <2>3. Cardinality(front \cap shown) = 0
      BY <1>5, FS_EmptySet
    <2>4. Cardinality(front \cup shown)
             = Cardinality(front) + Cardinality(shown) - Cardinality(front \cap shown)
      BY <2>1, FS_Union
    <2> QED
      BY <2>2, <2>3, <2>4
  <1>8. Before(rows, next) \in SUBSET Rows
    BY DEF Before
  <1>9. Cardinality(front \cup shown) <= Cardinality(Before(rows, next))
    BY <1>6, <1>8, MoreRows
  <1>10. /\ Cardinality(front) \in Nat /\ Cardinality(shown) \in Nat
         /\ Cardinality(Before(rows, next)) \in Nat
    BY <1>2, <1>8, CountOfRows
  <1> QED
    BY <1>3, <1>4, <1>7, <1>9, <1>10

\* The rows in front of a page are newer than those on it.
LEMMA BeforeIsNewer ==
    ASSUME NEW rows \in SUBSET Rows, NEW cursor \in Cursors,
           NEW readings \in Seq(Below(rows, cursor)), cursor # NoCursor
    PROVE  Before(rows, cursor) \subseteq NewerThan(rows, readings)
  <1>1. \A i \in DOMAIN readings : readings[i] \in Below(rows, cursor)
    OBVIOUS
  <1>2. cursor \in Nat /\ \A r \in rows : Time[r] \in Nat
    BY RowTypes
  <1> QED
    BY <1>1, <1>2 DEF Before, NewerThan, Below

-----------------------------------------------------------------------------
(* The types of the view.                                                  *)

ViewType == [readings : Seq(Rows), total : Nat, has_more : BOOLEAN, page_size : PageSizes,
             page_index : Pages, filters : Filters,
             status : {"pending", "online", "offline"}, loading : BOOLEAN]
CurrentType == [page_index : Pages, page_size : PageSizes, filters : Filters]

\* The type of a load, whose id need not be free when none is.
IsRequest(r) ==
    /\ r = [id |-> r.id, page_index |-> r.page_index, page_size |-> r.page_size,
            cursor |-> r.cursor, filters |-> r.filters, total |-> r.total,
            answer |-> r.answer]
    /\ r.page_index \in Pages /\ r.page_size \in PageSizes
    /\ r.cursor \in Cursors /\ r.filters \in Filters
    /\ r.total \in Nat \cup {NotYet}
    /\ r.answer # <<>> => r.total \in Nat /\ r.answer[1] \in PageType

TypesHold ==
    /\ table \subseteq Rows
    /\ view \in ViewType
    /\ cursors \in [Pages -> Cursors]
    /\ current \in CurrentType
    /\ \A r \in requests : IsRequest(r)
    /\ faults \in Nat

Loads == Timer \/ User
Ends == \E r \in requests : Count(r) \/ Answer(r) \/ Show(r) \/ Fail(r)
Inserts == \E row \in Rows : Insert(row)

\* What a step that starts a load does: the one it adds, and what it asks for.
LEMMA LoadSteps ==
    ASSUME TypesHold, Loads
    PROVE  \E index \in Pages, size \in PageSizes, cursor \in Cursors :
             /\ Load(index, size, cursor, current'.filters)
             /\ UNCHANGED <<table, faults>>
             /\ current' \in CurrentType
             /\ \/ /\ UNCHANGED <<cursors, current>>
                   /\ size = current.page_size /\ cursor = cursors[index]
                   /\ \/ index = current.page_index
                      \/ ~view.loading /\ index = view.page_index + 1 /\ view.has_more
                      \/ ~view.loading /\ index = view.page_index - 1 /\ view.page_index > 0
                \/ /\ cursors' = [i \in Pages |-> NoCursor]
                   /\ index = 0 /\ cursor = NoCursor
  <1> USE RowTypes DEF TypesHold, CurrentType
  <1>1. CASE Timer
    BY <1>1 DEF Timer
  <1>2. CASE \E index \in Pages : GoToPage(index)
    BY <1>2 DEF GoToPage
  <1>3. CASE \E size \in PageSizes : ChangePageSize(size)
    BY <1>3 DEF ChangePageSize, ForgetCursors
  <1>4. CASE \E filters \in Filters : ApplyFilters(filters)
    <2> PICK filters \in Filters : ApplyFilters(filters)
      BY <1>4
    <2>1. current' = [current EXCEPT !.filters = filters]
      BY DEF ApplyFilters
    <2>2. current' \in CurrentType /\ current'.filters = filters
      BY <2>1
    <2>3. /\ cursors' = [i \in Pages |-> NoCursor] /\ UNCHANGED <<table, faults>>
          /\ Load(0, current.page_size, NoCursor, filters)
      BY DEF ApplyFilters, ForgetCursors
    <2> QED
      BY <2>2, <2>3
  <1> QED
    BY <1>1, <1>2, <1>3, <1>4 DEF Loads, User

\* The load that Load adds.
LEMMA LoadAdds ==
    ASSUME NEW index \in Pages, NEW size \in PageSizes, NEW cursor \in Cursors,
           NEW filters \in Filters
    PROVE  LET r == Request(index, size, cursor, filters)
           IN  /\ IsRequest(r) /\ r.page_index = index /\ r.page_size = size
               /\ r.cursor = cursor /\ r.filters = filters
               /\ r.total = NotYet /\ r.answer = <<>>
  BY DEF Request, IsRequest, NotYet

LEMMA TypesStep ==
    ASSUME TypesHold, [Next]_vars
    PROVE  TypesHold'
  <1>1. CASE Loads
    <2> PICK index \in Pages, size \in PageSizes, cursor \in Cursors :
            /\ Load(index, size, cursor, current'.filters)
            /\ UNCHANGED <<table, faults>>
            /\ current' \in CurrentType
            /\ UNCHANGED cursors \/ cursors' = [i \in Pages |-> NoCursor]
      BY <1>1, LoadSteps
    <2> DEFINE r == Request(index, size, cursor, current'.filters)
    <2>1. requests' = requests \cup {r} /\ view' = [view EXCEPT !.loading = TRUE]
      BY DEF Load
    <2>2. IsRequest(r)
      BY LoadAdds DEF CurrentType
    <2>3. view' \in ViewType
      BY <2>1 DEF TypesHold, ViewType
    <2>4. cursors' \in [Pages -> Cursors]
      BY RowTypes DEF TypesHold
    <2> HIDE DEF r
    <2>5. \A q \in requests' : IsRequest(q)
      BY <2>1, <2>2 DEF TypesHold
    <2> QED
      BY <2>3, <2>4, <2>5 DEF TypesHold
  <1>2. ASSUME NEW r \in requests, Count(r) PROVE TypesHold'
    <2> DEFINE n == Cardinality(Matching(table, r.filters))
               q == [r EXCEPT !.total = n]
    <2>1. n \in Nat
      BY MatchingRows, CountOfRows DEF TypesHold
    <2> HIDE DEF n
    <2>2. IsRequest(r)
      BY DEF TypesHold
    <2>3. IsRequest(q)
      BY <2>1, <2>2 DEF IsRequest
    <2>4. requests' = (requests \ {r}) \cup {q} /\ UNCHANGED <<table, view, cursors, current, faults>>
      BY <1>2 DEF Count, n
    <2> HIDE DEF q
    <2> QED
      BY <2>3, <2>4 DEF TypesHold
  <1>3. ASSUME NEW r \in requests, Answer(r) PROVE TypesHold'
    <2> DEFINE p == Page(table, r.filters, r.cursor, r.page_size)
               q == [r EXCEPT !.answer = <<p>>]
    <2>1. IsRequest(r) /\ r.total # NotYet
      BY <1>3 DEF TypesHold, Answer
    <2>2. p \in PageType
      BY <2>1, PageFacts DEF TypesHold, IsRequest
    <2> HIDE DEF p
    <2>3. IsRequest(q)
      BY <2>1, <2>2 DEF IsRequest
    <2>4. requests' = (requests \ {r}) \cup {q} /\ UNCHANGED <<table, view, cursors, current, faults>>
      BY <1>3 DEF Answer, p
    <2> HIDE DEF q
    <2> QED
      BY <2>3, <2>4 DEF TypesHold
  <1>4. ASSUME NEW r \in requests, Show(r) PROVE TypesHold'
    <2> DEFINE page == r.answer[1]
    <2>1. IsRequest(r) /\ page \in PageType /\ r.total \in Nat
      BY <1>4 DEF TypesHold, Show, IsRequest
    <2> HIDE DEF page
    <2>2. current' \in CurrentType
      BY <1>4, <2>1 DEF Show, TypesHold, CurrentType, IsRequest
    <2>3. cursors' \in [Pages -> Cursors]
      BY <1>4, <2>1, RowTypes DEF Show, NextCursors, TypesHold, PageType, page
    <2>4. view' \in ViewType
      BY <1>4, <2>1 DEF Show, TypesHold, ViewType, CurrentType, PageType, IsRequest, page
    <2> QED
      BY <1>4, <2>2, <2>3, <2>4 DEF Show, TypesHold
  <1>5. ASSUME NEW r \in requests, Fail(r) PROVE TypesHold'
    <2>1. view' \in ViewType
      <3>1. <<>> \in Seq(Rows)
        OBVIOUS
      <3>2. view' = [view EXCEPT !.readings = <<>>, !.status = "offline", !.loading = FALSE]
        BY <1>5 DEF Fail
      <3> HIDE DEF TypesHold
      <3>3. view \in ViewType
        BY DEF TypesHold
      <3> DEFINE none == <<>>
      <3>4. none \in Seq(Rows)
        BY <3>1
      <3>5. view' = [view EXCEPT !.readings = none, !.status = "offline", !.loading = FALSE]
        BY <3>2
      <3> HIDE DEF none
      <3> QED
        BY <3>3, <3>4, <3>5 DEF ViewType
    <2> QED
      BY <1>5, <2>1 DEF Fail, TypesHold
  <1>6. CASE Inserts
    BY <1>6 DEF Inserts, Insert, TypesHold
  <1>7. CASE UNCHANGED vars
    BY <1>7 DEF vars, TypesHold
  <1> QED
    BY <1>1, <1>2, <1>3, <1>4, <1>5, <1>6, <1>7 DEF Next, Loads, Inserts

LEMMA InitTypes == Init => TypesHold
  <1> SUFFICES ASSUME Init PROVE TypesHold
    OBVIOUS
  <1> USE RowTypes, ViewConstants DEF Init
  <1>1. view \in ViewType
    BY DEF ViewType, Filters
  <1>2. current \in CurrentType
    BY DEF CurrentType, Filters
  <1>3. \A r \in requests : IsRequest(r)
    BY DEF IsRequest, Filters, NotYet
  <1> QED
    BY <1>1, <1>2, <1>3 DEF TypesHold

\* "loading", which disables the buttons, has a load behind it that will end it,
\* whatever loads overlap or fail (use-readings.ts:47-104).
THEOREM LoadingServed == Spec => []LoadingIsServed
  <1>1. Init => LoadingIsServed
    BY DEF Init, LoadingIsServed
  <1>2. TypesHold /\ LoadingIsServed /\ [Next]_vars => LoadingIsServed'
    <2> SUFFICES ASSUME TypesHold, LoadingIsServed, [Next]_vars PROVE LoadingIsServed'
      OBVIOUS
    <2>1. CASE Loads
      BY <2>1, LoadSteps DEF Load, LoadingIsServed
    <2>2. ASSUME NEW r \in requests, Count(r) \/ Answer(r) PROVE LoadingIsServed'
      BY <2>2 DEF Count, Answer, LoadingIsServed
    <2>3. ASSUME NEW r \in requests, Show(r) PROVE LoadingIsServed'
      BY <2>3 DEF Show, LoadingIsServed
    <2>4. ASSUME NEW r \in requests, Fail(r) PROVE LoadingIsServed'
      BY <2>4 DEF Fail, LoadingIsServed, TypesHold, ViewType
    <2>5. CASE Inserts \/ UNCHANGED vars
      BY <2>5 DEF Inserts, Insert, vars, LoadingIsServed
    <2> QED
      BY <2>1, <2>2, <2>3, <2>4, <2>5 DEF Next, Loads, Inserts
  <1> QED
    BY InitTypes, TypesStep, <1>1, <1>2, PTL DEF Spec

-----------------------------------------------------------------------------
(* One load at a time, none of which fails.                                *)

\* As many matching rows as the pages in front of it hold are in front of a cursor.
CursorFits(filters, index, size, cursor) ==
    cursor # NoCursor => Cardinality(Before(Matching(table, filters), cursor)) >= index * size

\* The same for all cursors, of which those of the pages up to index are known.
CursorsFit(filters, index, size) ==
    /\ \A i \in Pages : CursorFits(filters, i, size, cursors[i])
    /\ \A i \in Pages : i > 0 /\ i <= index => cursors[i] # NoCursor

\* The readings of a page match, and have as many newer rows as they ought to.
ReadingsFit(filters, index, size, readings) ==
    /\ \A i \in DOMAIN readings : Matches(readings[i], filters)
    /\ readings # <<>> =>
          Cardinality(NewerThan(Matching(table, filters), readings)) >= index * size

\* What a load asks for, and what it has got, is of the filters and the position
\* that it was started with.
RequestFits(r) ==
    /\ r.filters = current.filters
    /\ r.page_index > 0 => r.cursor # NoCursor
    /\ CursorFits(r.filters, r.page_index, r.page_size, r.cursor)
    /\ CursorsFit(r.filters, r.page_index, r.page_size)
    /\ r.total <= Cardinality(Matching(table, r.filters))
    /\ r.answer # <<>> =>
          /\ ReadingsFit(r.filters, r.page_index, r.page_size, r.answer[1].readings)
          /\ r.answer[1].has_more =>
                /\ r.answer[1].next_cursor # NoCursor
                /\ CursorFits(r.filters, r.page_index + 1, r.page_size, r.answer[1].next_cursor)

\* Between two loads the screen shows what the last one asked for.
Settled ==
    /\ ~view.loading
    /\ current = [page_index |-> view.page_index, page_size |-> view.page_size,
                  filters |-> view.filters]
    /\ CursorsFit(view.filters, view.page_index, view.page_size)
    /\ view.has_more /\ view.page_index + 1 \in Pages =>
          cursors[view.page_index + 1] # NoCursor

ScreenFits ==
    /\ ReadingsFit(view.filters, view.page_index, view.page_size, view.readings)
    /\ view.total <= Cardinality(Matching(table, view.filters))

Serial ==
    /\ faults = 0
    /\ requests = {} => Settled
    /\ \A r \in requests : requests = {r} /\ RequestFits(r)
    /\ ScreenFits

\* A table that grows leaves all of this true.
LEMMA GrowingTable ==
    ASSUME TypesHold, table' \in SUBSET Rows, table \subseteq table'
    PROVE  \A filters, cursor, readings :
             /\ Cardinality(Matching(table, filters)) <= Cardinality(Matching(table', filters))
             /\ Cardinality(Before(Matching(table, filters), cursor))
                    <= Cardinality(Before(Matching(table', filters), cursor))
             /\ Cardinality(NewerThan(Matching(table, filters), readings))
                    <= Cardinality(NewerThan(Matching(table', filters), readings))
  <1> TAKE filters, cursor, readings
  <1>1. Matching(table', filters) \in SUBSET Rows
        /\ Matching(table, filters) \in SUBSET Matching(table', filters)
    BY DEF Matching
  <1>2. /\ Before(Matching(table', filters), cursor) \in SUBSET Rows
        /\ Before(Matching(table, filters), cursor)
              \in SUBSET Before(Matching(table', filters), cursor)
    BY <1>1 DEF Before
  <1>3. /\ NewerThan(Matching(table', filters), readings) \in SUBSET Rows
        /\ NewerThan(Matching(table, filters), readings)
              \in SUBSET NewerThan(Matching(table', filters), readings)
    BY <1>1 DEF NewerThan
  <1> QED
    BY <1>1, <1>2, <1>3, MoreRows

\* The sizes of these sets are numbers.
LEMMA Counts ==
    ASSUME NEW tab \in SUBSET Rows
    PROVE  \A filters, cursor, readings :
             /\ Cardinality(Matching(tab, filters)) \in Nat
             /\ Cardinality(Before(Matching(tab, filters), cursor)) \in Nat
             /\ Cardinality(NewerThan(Matching(tab, filters), readings)) \in Nat
  <1> TAKE filters, cursor, readings
  <1>1. Matching(tab, filters) \in SUBSET Rows
    BY DEF Matching
  <1>2. Before(Matching(tab, filters), cursor) \in SUBSET Rows
        /\ NewerThan(Matching(tab, filters), readings) \in SUBSET Rows
    BY <1>1 DEF Before, NewerThan
  <1> QED
    BY <1>1, <1>2, CountOfRows

\* A load that starts while another is in flight gets an id of its own.
LEMMA SecondLoad ==
    ASSUME NEW r \in requests, requests = {r}, NEW index, NEW size, NEW cursor, NEW filters,
           Load(index, size, cursor, filters)
    PROVE  Cardinality(requests') > 1
  <1> DEFINE q == Request(index, size, cursor, filters)
             free == CHOOSE i \in 1 .. MaxRequests : \A x \in requests : x.id # i
  <1>1. q.id = free
    BY DEF Request
  <1>2. Cardinality({r}) = 1 /\ IsFiniteSet({r})
    BY FS_Singleton
  <1>3. 1 \in 1 .. MaxRequests /\ 2 \in 1 .. MaxRequests
    BY <1>2, ViewConstants DEF Load, FreeSlot
  <1>4. \E i \in 1 .. MaxRequests : \A x \in requests : x.id # i
    BY <1>3
  <1>5. \A x \in requests : x.id # free
    BY <1>4
  <1>6. requests' = {r} \cup {q}
    BY DEF Load
  <1>7. q # r
    BY <1>1, <1>5
  <1> HIDE DEF q
  <1>8. Cardinality({r} \cup {q}) = Cardinality({r}) + 1
    BY <1>2, <1>7, FS_AddElement, q \notin {r}, Zenon
  <1> QED
    BY <1>2, <1>6, <1>8

\* A load that starts from a settled screen asks for what the screen is about to show.
LEMMA FirstLoad ==
    ASSUME TypesHold, TypesHold', Serial, requests = {}, Loads
    PROVE  Serial'
  <1> PICK index \in Pages, size \in PageSizes, cursor \in Cursors :
         /\ Load(index, size, cursor, current'.filters)
         /\ UNCHANGED <<table, faults>>
         /\ current' \in CurrentType
         /\ \/ /\ UNCHANGED <<cursors, current>>
               /\ size = current.page_size /\ cursor = cursors[index]
               /\ \/ index = current.page_index
                  \/ ~view.loading /\ index = view.page_index + 1 /\ view.has_more
                  \/ ~view.loading /\ index = view.page_index - 1 /\ view.page_index > 0
            \/ /\ cursors' = [i \in Pages |-> NoCursor]
               /\ index = 0 /\ cursor = NoCursor
    BY LoadSteps
  <1> DEFINE filters == current'.filters
             q == Request(index, size, cursor, filters)
  <1>1. Settled /\ faults = 0 /\ ScreenFits
    BY DEF Serial
  <1>2. requests' = {q} /\ view' = [view EXCEPT !.loading = TRUE] /\ UNCHANGED <<table, faults>>
    BY DEF Load
  <1>3. /\ q.page_index = index /\ q.page_size = size /\ q.cursor = cursor
        /\ q.filters = filters /\ q.total = NotYet /\ q.answer = <<>>
    BY LoadAdds DEF CurrentType
  <1>4. view.page_index \in Nat /\ index \in Nat
    BY RowTypes DEF TypesHold, ViewType
  <1>5. /\ \A i \in Pages : cursors'[i] # NoCursor =>
              Cardinality(Before(Matching(table, filters), cursors'[i])) >= i * size
        /\ \A i \in Pages : i > 0 /\ i <= index => cursors'[i] # NoCursor
        /\ cursor = cursors'[index]
    <2>1. CASE cursors' = [i \in Pages |-> NoCursor] /\ index = 0 /\ cursor = NoCursor
      BY <2>1, RowTypes
    <2>2. CASE UNCHANGED <<cursors, current>> /\ size = current.page_size
               /\ cursor = cursors[index]
               /\ \/ index = current.page_index
                  \/ index = view.page_index + 1 /\ view.has_more
                  \/ index = view.page_index - 1 /\ view.page_index > 0
      <3>1. /\ filters = view.filters /\ size = view.page_size
            /\ current.page_index = view.page_index
        BY <1>1, <2>2 DEF Settled
      <3>2. CursorsFit(filters, view.page_index, size)
        BY <1>1, <3>1 DEF Settled
      <3>3. \A i \in Pages : i > 0 /\ i <= index => cursors[i] # NoCursor
        <4>1. \A i \in Pages : i \in Nat
          BY RowTypes
        <4>2. \A i \in Pages : i > 0 /\ i <= view.page_index => cursors[i] # NoCursor
          BY <3>2 DEF CursorsFit
        <4>3. index = view.page_index + 1 => cursors[index] # NoCursor
          BY <1>1, <1>4, <2>2, <3>1 DEF Settled
        <4> QED
          BY <1>4, <2>2, <3>1, <4>1, <4>2, <4>3
      <3>4. cursors' = cursors
        BY <2>2
      <3> HIDE DEF filters
      <3> QED
        BY <2>2, <3>2, <3>3, <3>4 DEF CursorsFit, CursorFits
    <2> QED
      BY <2>1, <2>2
  <1>6. q.total <= Cardinality(Matching(table, filters))
    <2>1. table \in SUBSET Rows
      BY DEF TypesHold
    <2>2. Cardinality(Matching(table, filters)) \in Nat
      BY <2>1, MatchingRows, CountOfRows
    <2> QED
      BY <1>3, <2>2 DEF NotYet
  <1> HIDE DEF q
  <1>7. ScreenFits'
    <2>1. /\ view'.readings = view.readings /\ view'.total = view.total
          /\ view'.filters = view.filters /\ view'.page_index = view.page_index
          /\ view'.page_size = view.page_size
      BY <1>2 DEF TypesHold, ViewType
    <2> QED
      BY <1>1, <1>2, <2>1 DEF ScreenFits, ReadingsFit
  <1>8. \A x \in requests' : requests' = {x} /\ RequestFits(x)'
    <2> SUFFICES ASSUME NEW x \in requests' PROVE requests' = {x} /\ RequestFits(x)'
      OBVIOUS
    <2>1. x = q
      BY <1>2
    <2>2. /\ x.page_index = index /\ x.page_size = size /\ x.cursor = cursor
          /\ x.filters = filters /\ x.answer = <<>>
          /\ x.total <= Cardinality(Matching(table', filters))
      BY <1>2, <1>3, <1>6, <2>1
    <2>3. CursorsFit(x.filters, x.page_index, x.page_size)'
      BY <1>2, <1>5, <2>2 DEF CursorsFit, CursorFits
    <2>4. CursorFits(x.filters, x.page_index, x.page_size, x.cursor)'
      BY <1>2, <1>5, <2>2 DEF CursorFits
    <2>5. x.page_index > 0 => x.cursor # NoCursor
      BY <1>4, <1>5, <2>2
    <2> QED
      BY <1>2, <2>1, <2>2, <2>3, <2>4, <2>5 DEF RequestFits
  <1>9. requests' # {} /\ faults' = 0
    BY <1>1, <1>2
  <1> QED
    BY <1>7, <1>8, <1>9 DEF Serial

\* What a load has read is what it asked for.
LEMMA LoadReads ==
    ASSUME TypesHold, TypesHold', Serial, NEW r \in requests, Count(r) \/ Answer(r)
    PROVE  Serial'
  <1>1. requests = {r} /\ RequestFits(r) /\ faults = 0 /\ ScreenFits /\ IsRequest(r)
    BY DEF Serial, TypesHold
  <1>2. UNCHANGED <<table, view, cursors, current, faults>>
    BY DEF Count, Answer
  <1>3. SUFFICES \A x \in requests' : requests' = {x} /\ RequestFits(x)
    <2>1. requests' # {}
      BY DEF Count, Answer
    <2>2. \A x : RequestFits(x) => RequestFits(x)'
      BY <1>2 DEF RequestFits, CursorsFit, CursorFits, ReadingsFit
    <2>3. ScreenFits'
      BY <1>1, <1>2 DEF ScreenFits, ReadingsFit
    <2> QED
      BY <1>1, <1>2, <1>3, <2>1, <2>2, <2>3 DEF Serial
  <1>4. CASE Count(r)
    <2> DEFINE n == Cardinality(Matching(table, r.filters))
               q == [r EXCEPT !.total = n]
    <2>1. requests' = {q} /\ r.total = NotYet
      BY <1>1, <1>4 DEF Count
    <2>2. n \in Nat
      BY MatchingRows, CountOfRows DEF TypesHold
    <2>3. r.answer = <<>>
      BY <1>1, <2>1 DEF IsRequest, NotYet
    <2>4. n <= Cardinality(Matching(table, r.filters))
      BY <2>2
    <2> HIDE DEF n
    <2>5. /\ q.page_index = r.page_index /\ q.page_size = r.page_size
          /\ q.cursor = r.cursor /\ q.filters = r.filters /\ q.answer = <<>> /\ q.total = n
      BY <1>1, <2>3 DEF IsRequest
    <2> HIDE DEF q
    <2>6. RequestFits(q)
      BY <1>1, <2>4, <2>5 DEF RequestFits
    <2> QED
      BY <2>1, <2>6
  <1>5. CASE Answer(r)
    <2> DEFINE p == Page(table, r.filters, r.cursor, r.page_size)
               rows == Matching(table, r.filters)
               q == [r EXCEPT !.answer = <<p>>]
    <2>1. requests' = {q}
      BY <1>1, <1>5 DEF Answer
    <2>2. r.cursor \in Cursors /\ r.page_size \in PageSizes /\ r.page_index \in Pages
      BY <1>1 DEF IsRequest
    <2>3. /\ p.readings \in Seq(Below(rows, r.cursor)) /\ p \in PageType
          /\ \A i, j \in 1 .. Len(p.readings) : i # j => p.readings[i] # p.readings[j]
          /\ p.has_more =>
                /\ Len(p.readings) = r.page_size /\ p.next_cursor # NoCursor
                /\ \A i \in 1 .. r.page_size : Time[p.readings[i]] >= p.next_cursor
      <3> DEFINE tab == table
                 filter == r.filters
                 cursor == r.cursor
                 size == r.page_size
      <3>1. tab \in SUBSET Rows /\ cursor \in Cursors /\ size \in PageSizes
        BY <2>2 DEF TypesHold
      <3>2. p = Page(tab, filter, cursor, size) /\ rows = Matching(tab, filter)
        OBVIOUS
      <3> HIDE DEF p, rows, tab, filter, cursor, size
      <3>3. p.readings \in Seq(Below(rows, cursor)) /\ p \in PageType
        BY <3>1, <3>2, PageFacts
      <3>4. \A i, j \in 1 .. Len(p.readings) : i # j => p.readings[i] # p.readings[j]
        BY <3>1, <3>2, PageFacts
      <3>5. p.has_more =>
                /\ Len(p.readings) = size /\ p.next_cursor # NoCursor
                /\ \A i \in 1 .. size : Time[p.readings[i]] >= p.next_cursor
        BY <3>1, <3>2, PageFacts
      <3> QED
        BY <3>3, <3>4, <3>5 DEF cursor, size
    <2>4. rows \in SUBSET Rows
      BY MatchingRows DEF TypesHold
    <2>5. /\ q.page_index = r.page_index /\ q.page_size = r.page_size
          /\ q.cursor = r.cursor /\ q.filters = r.filters /\ q.total = r.total
          /\ q.answer = <<p>>
      BY <1>1 DEF IsRequest
    <2> DEFINE n == r.page_index * r.page_size
    <2>6. r.page_index \in Nat /\ r.page_size \in Nat \ {0} /\ n \in Nat
      <3>1. r.page_index \in Nat /\ r.page_size \in Nat \ {0}
        BY <2>2, RowTypes
      <3> QED
        BY <3>1
    <2>7. r.cursor # NoCursor => Cardinality(Before(rows, r.cursor)) >= n
      BY <1>1 DEF RequestFits, CursorFits
    <2>8. r.cursor = NoCursor => r.page_index = 0 /\ n = 0
      BY <1>1, <2>6 DEF RequestFits
    <2>9. Before(rows, r.cursor) \in SUBSET Rows /\ NewerThan(rows, p.readings) \in SUBSET Rows
      BY <2>4 DEF Before, NewerThan
    <2>10. /\ Cardinality(Before(rows, r.cursor)) \in Nat
           /\ Cardinality(NewerThan(rows, p.readings)) \in Nat
      BY <2>9, CountOfRows
    <2>11. \A i \in DOMAIN p.readings : Matches(p.readings[i], r.filters)
      BY <2>3 DEF Below, Matching
    <2> HIDE DEF p, rows, n
    <2>12. Cardinality(NewerThan(rows, p.readings)) >= n
      <3>1. CASE r.cursor = NoCursor
        BY <2>8, <2>10, <3>1
      <3>2. CASE r.cursor # NoCursor
        <4>1. Before(rows, r.cursor) \subseteq NewerThan(rows, p.readings)
          BY <2>2, <2>3, <2>4, <3>2, BeforeIsNewer
        <4>2. Cardinality(Before(rows, r.cursor)) <= Cardinality(NewerThan(rows, p.readings))
          BY <2>9, <4>1, MoreRows
        <4> QED
          BY <2>6, <2>7, <2>10, <3>2, <4>2
      <3> QED
        BY <3>1, <3>2
    <2>13. p.has_more => Cardinality(Before(rows, p.next_cursor)) >= n + r.page_size
      <3>1. p.next_cursor \in Cursors
        BY <2>3 DEF PageType
      <3>2. Cardinality(Before(rows, r.cursor)) >= n
        BY <2>6, <2>7, <2>8, <2>10
      <3>3. r.page_size \in Nat /\ r.page_size > 0
        BY <2>6
      <3> DEFINE size == r.page_size
                 cursor == r.cursor
                 next == p.next_cursor
                 readings == p.readings
      <3>4. p.has_more =>
              /\ Len(readings) = size
              /\ \A i \in 1 .. size : Time[readings[i]] >= next
              /\ \A i, j \in 1 .. size : i # j => readings[i] # readings[j]
        BY <2>3
      <3>5. /\ readings \in Seq(Below(rows, cursor)) /\ cursor \in Cursors /\ next \in Cursors
            /\ size \in Nat /\ size > 0 /\ n \in Nat /\ (cursor = NoCursor => n = 0)
            /\ Cardinality(Before(rows, cursor)) >= n
        BY <2>2, <2>3, <2>6, <2>8, <3>1, <3>2, <3>3
      <3> HIDE DEF size, cursor, next, readings
      <3>6. p.has_more => Cardinality(Before(rows, next)) >= n + size
        BY <2>4, <3>4, <3>5, NextPageIsFurther
      <3> QED
        BY <3>6 DEF next, size
    <2>14. (r.page_index + 1) * r.page_size = n + r.page_size
      BY <2>6 DEF n
    <2> HIDE DEF q
    <2>15. ReadingsFit(r.filters, r.page_index, r.page_size, p.readings)
      BY <2>11, <2>12 DEF ReadingsFit, rows, n
    <2>16. p.has_more => p.next_cursor # NoCursor
                         /\ CursorFits(r.filters, r.page_index + 1, r.page_size, p.next_cursor)
      BY <2>3, <2>13, <2>14 DEF CursorFits, rows
    <2>17. q.answer[1] = p
      BY <2>5
    <2>18. RequestFits(q)
      BY <1>1, <2>5, <2>15, <2>16, <2>17 DEF RequestFits
    <2> QED
      BY <2>1, <2>18
  <1> QED
    BY <1>4, <1>5

\* The answer of the only load is shown where it was asked for.
LEMMA LoadIsShown ==
    ASSUME TypesHold, TypesHold', Serial, NEW r \in requests, Show(r)
    PROVE  Serial'
  <1> DEFINE page == r.answer[1]
  <1>1. /\ requests = {r} /\ RequestFits(r) /\ faults = 0 /\ IsRequest(r)
        /\ page \in PageType
    BY DEF Serial, TypesHold, IsRequest, Show
  <1>2. requests' = {} /\ UNCHANGED <<table, faults>>
    BY <1>1 DEF Show
  <1>3. /\ view'.readings = page.readings /\ view'.total = r.total
        /\ view'.has_more = page.has_more /\ view'.page_size = r.page_size
        /\ view'.page_index = r.page_index /\ view'.filters = r.filters /\ ~view'.loading
    BY <1>1 DEF Show, RequestFits
  <1>4. /\ current' = [page_index |-> r.page_index, page_size |-> r.page_size,
                       filters |-> r.filters]
    BY <1>1 DEF Show, TypesHold, CurrentType, RequestFits
  <1>5. \A i \in Pages : cursors'[i] = IF i <= r.page_index THEN cursors[i]
                                       ELSE IF ~page.has_more THEN NoCursor
                                       ELSE IF i = r.page_index + 1 THEN page.next_cursor
                                       ELSE cursors[i]
    BY DEF Show, NextCursors
  <1>6. /\ ReadingsFit(r.filters, r.page_index, r.page_size, page.readings)
        /\ page.has_more => page.next_cursor # NoCursor
              /\ CursorFits(r.filters, r.page_index + 1, r.page_size, page.next_cursor)
        /\ CursorsFit(r.filters, r.page_index, r.page_size)
        /\ r.total <= Cardinality(Matching(table, r.filters))
    BY <1>1 DEF RequestFits, Show
  <1>7. r.page_index \in Nat /\ \A i \in Pages : i \in Nat
    BY <1>1, RowTypes DEF IsRequest
  <1> HIDE DEF page
  <1>8. \A i \in Pages : CursorFits(r.filters, i, r.page_size, cursors'[i])
    <2> TAKE i \in Pages
    <2>1. \/ cursors'[i] \in {cursors[i], NoCursor}
          \/ i = r.page_index + 1 /\ page.has_more /\ cursors'[i] = page.next_cursor
      BY <1>5
    <2> QED
      BY <1>6, <2>1 DEF CursorsFit, CursorFits
  <1>9. \A i \in Pages : i > 0 /\ i <= r.page_index => cursors'[i] # NoCursor
    BY <1>5, <1>6 DEF CursorsFit
  <1>10. page.has_more /\ r.page_index + 1 \in Pages => cursors'[r.page_index + 1] # NoCursor
    BY <1>5, <1>6, <1>7
  <1>11. CursorsFit(view.filters, view.page_index, view.page_size)'
    BY <1>2, <1>3, <1>8, <1>9 DEF CursorsFit, CursorFits
  <1>12. Settled'
    BY <1>3, <1>4, <1>10, <1>11 DEF Settled
  <1>13. ScreenFits'
    BY <1>2, <1>3, <1>6 DEF ScreenFits, ReadingsFit
  <1> QED
    BY <1>1, <1>2, <1>12, <1>13 DEF Serial

\* A new row makes none of it false.
LEMMA TableGrows ==
    ASSUME TypesHold, TypesHold', Serial, Inserts
    PROVE  Serial'
  <1>1. table \subseteq table' /\ UNCHANGED <<view, cursors, current, requests, faults>>
    BY DEF Inserts, Insert
  <1>2. table \in SUBSET Rows /\ table' \in SUBSET Rows
    BY DEF TypesHold
  <1>3. \A filters, cursor, readings :
           /\ Cardinality(Matching(table, filters)) <= Cardinality(Matching(table', filters))
           /\ Cardinality(Before(Matching(table, filters), cursor))
                  <= Cardinality(Before(Matching(table', filters), cursor))
           /\ Cardinality(NewerThan(Matching(table, filters), readings))
                  <= Cardinality(NewerThan(Matching(table', filters), readings))
    BY <1>1, <1>2, GrowingTable
  <1>4. \A tab \in SUBSET Rows : \A filters, cursor, readings :
           /\ Cardinality(Matching(tab, filters)) \in Nat
           /\ Cardinality(Before(Matching(tab, filters), cursor)) \in Nat
           /\ Cardinality(NewerThan(Matching(tab, filters), readings)) \in Nat
    BY Counts
  <1>5. \A n \in Int, i, j \in Nat : n <= i /\ i <= j => n <= j
    OBVIOUS
  <1>6. \A filters, cursor : \A index \in Nat, size \in Nat :
           CursorFits(filters, index, size, cursor) => CursorFits(filters, index, size, cursor)'
    <2> TAKE filters, cursor
    <2> TAKE index \in Nat, size \in Nat
    <2>1. index * size \in Int
      OBVIOUS
    <2> DEFINE n == index * size
    <2> HIDE DEF n
    <2>2. Cardinality(Before(Matching(table, filters), cursor)) >= n
             => Cardinality(Before(Matching(table', filters), cursor)) >= n
      BY <1>2, <1>3, <1>4, <2>1 DEF n
    <2> QED
      BY <2>2 DEF CursorFits, n
  <1>7. \A filters : \A index \in Nat, size \in Nat :
           CursorsFit(filters, index, size) => CursorsFit(filters, index, size)'
    BY <1>1, <1>6, RowTypes DEF CursorsFit
  <1>8. \A filters, readings : \A index \in Nat, size \in Nat :
           ReadingsFit(filters, index, size, readings)
              => ReadingsFit(filters, index, size, readings)'
    <2> TAKE filters, readings
    <2> TAKE index \in Nat, size \in Nat
    <2>1. index * size \in Int
      OBVIOUS
    <2> DEFINE n == index * size
    <2> HIDE DEF n
    <2>2. Cardinality(NewerThan(Matching(table, filters), readings)) >= n
             => Cardinality(NewerThan(Matching(table', filters), readings)) >= n
      BY <1>2, <1>3, <1>4, <2>1 DEF n
    <2> QED
      BY <2>2 DEF ReadingsFit, n
  <1>9. \A filters : \A n \in Int : n <= Cardinality(Matching(table, filters))
                                       => n <= Cardinality(Matching(table', filters))
    BY <1>2, <1>3, <1>4
  <1>10. \A r \in requests : RequestFits(r) => RequestFits(r)'
    <2> SUFFICES ASSUME NEW r \in requests, RequestFits(r) PROVE RequestFits(r)'
      OBVIOUS
    <2>1. /\ r.page_index \in Nat /\ r.page_size \in Nat /\ r.page_index + 1 \in Nat
          /\ r.total \in Int
      BY RowTypes DEF TypesHold, IsRequest, NotYet
    <2>2. /\ CursorFits(r.filters, r.page_index, r.page_size, r.cursor)'
          /\ CursorsFit(r.filters, r.page_index, r.page_size)'
          /\ r.total <= Cardinality(Matching(table', r.filters))
      BY <1>6, <1>7, <1>9, <2>1 DEF RequestFits
    <2>3. r.answer # <<>> =>
             /\ ReadingsFit(r.filters, r.page_index, r.page_size, r.answer[1].readings)'
             /\ r.answer[1].has_more =>
                   CursorFits(r.filters, r.page_index + 1, r.page_size,
                              r.answer[1].next_cursor)'
      BY <1>6, <1>8, <2>1 DEF RequestFits
    <2> QED
      BY <1>1, <2>2, <2>3 DEF RequestFits
  <1>11. view.page_index \in Nat /\ view.page_size \in Nat /\ view.total \in Int
    <2>1. view.page_index \in Pages /\ view.page_size \in PageSizes /\ view.total \in Nat
      BY DEF TypesHold, ViewType
    <2>2. view.page_index \in Nat
      BY <2>1, RowTypes
    <2>3. view.page_size \in Nat
      BY <2>1, RowTypes
    <2> QED
      BY <2>1, <2>2, <2>3
  <1>12. Settled => Settled'
    BY <1>1, <1>7, <1>11 DEF Settled
  <1>13. ScreenFits => ScreenFits'
    BY <1>1, <1>8, <1>9, <1>11 DEF ScreenFits
  <1> QED
    BY <1>1, <1>10, <1>12, <1>13 DEF Serial

\* While no two loads have overlapped and none has failed, this is an invariant.
Undisturbed == TypesHold /\ (~disturbed => Serial)

LEMMA InitUndisturbed == HistoryInit => Undisturbed
  <1> SUFFICES ASSUME HistoryInit PROVE Undisturbed
    OBVIOUS
  <1> USE DEF HistoryInit, Init
  <1>1. TypesHold
    BY InitTypes
  <1>2. CursorsFit(Anything, 0, DefaultSize)
    BY RowTypes DEF CursorsFit, CursorFits
  <1>3. Cardinality(Matching(table, Anything)) \in Nat
    BY MatchingRows, CountOfRows
  <1>4. \A r \in requests : requests = {r} /\ RequestFits(r)
    BY <1>2, <1>3 DEF RequestFits, CursorFits, NotYet
  <1>5. ScreenFits
    BY <1>3 DEF ScreenFits, ReadingsFit
  <1>6. requests # {} /\ faults = 0
    OBVIOUS
  <1> QED
    BY <1>1, <1>4, <1>5, <1>6 DEF Undisturbed, Serial

LEMMA StepUndisturbed == Undisturbed /\ [HistoryNext]_<<vars, disturbed>> => Undisturbed'
  <1> SUFFICES ASSUME Undisturbed, [HistoryNext]_<<vars, disturbed>> PROVE Undisturbed'
    OBVIOUS
  <1>1. TypesHold /\ TypesHold'
    BY TypesStep DEF Undisturbed, HistoryNext, vars
  <1>2. CASE HistoryNext
    <2> SUFFICES ASSUME ~disturbed' PROVE Serial'
      BY <1>1 DEF Undisturbed
    <2>1. /\ Serial /\ ~(Cardinality(requests') > 1) /\ ~(faults' > 0)
      BY <1>2 DEF HistoryNext, Undisturbed
    <2>2. CASE Loads
      <3>1. CASE requests = {}
        BY <1>1, <2>1, <2>2, <3>1, FirstLoad
      <3>2. CASE requests # {}
        <4> PICK r \in requests : requests = {r}
          BY <2>1, <3>2 DEF Serial
        <4> PICK index \in Pages, size \in PageSizes, cursor \in Cursors :
               Load(index, size, cursor, current'.filters)
          BY <1>1, <2>2, LoadSteps
        <4> DEFINE filters == current'.filters
        <4>1. Load(index, size, cursor, filters)
          OBVIOUS
        <4> HIDE DEF filters
        <4> QED
          BY <2>1, <4>1, SecondLoad
      <3> QED
        BY <3>1, <3>2
    <2>3. ASSUME NEW r \in requests, Count(r) \/ Answer(r) PROVE Serial'
      BY <1>1, <2>1, <2>3, LoadReads
    <2>4. ASSUME NEW r \in requests, Show(r) PROVE Serial'
      BY <1>1, <2>1, <2>4, LoadIsShown
    <2>5. ASSUME NEW r \in requests, Fail(r) PROVE Serial'
      BY <1>1, <2>1, <2>5 DEF Fail, TypesHold
    <2>6. CASE Inserts
      BY <1>1, <2>1, <2>6, TableGrows
    <2> QED
      BY <1>2, <2>2, <2>3, <2>4, <2>5, <2>6 DEF HistoryNext, Next, Loads, Inserts
  <1>3. CASE UNCHANGED <<vars, disturbed>>
    <2>1. Serial => Serial'
      BY <1>3 DEF vars, Serial, Settled, RequestFits, CursorsFit, CursorFits, ReadingsFit,
                  ScreenFits
    <2> QED
      BY <1>1, <1>3, <2>1 DEF Undisturbed
  <1> QED
    BY <1>2, <1>3

\* The readings and the total on the screen are of the filters on the screen, as long
\* as loads do not overlap or fail (use-readings.ts:65-88).
THEOREM FiltersStay == HistorySpec => []SerialFilters
  <1>1. Undisturbed => SerialFilters
    BY DEF Undisturbed, Serial, ScreenFits, ReadingsFit, SerialFilters, FiltersAreShown
  <1> QED
    BY InitUndisturbed, StepUndisturbed, <1>1, PTL DEF HistorySpec

\* "Viser 51-100" is true of what is shown, for any table, page sizes and clicks, as
\* long as loads do not overlap or fail (pagination.tsx:35-40, use-readings.ts:42).
THEOREM PositionStays == HistorySpec => []SerialPosition
  <1>1. Undisturbed => SerialPosition
    BY DEF Undisturbed, Serial, ScreenFits, ReadingsFit, SerialPosition, PositionIsTrue,
           NewerThan
  <1> QED
    BY InitUndisturbed, StepUndisturbed, <1>1, PTL DEF HistorySpec

-----------------------------------------------------------------------------
(* Flattening.                                                             *)

LEMMA LeastNumber ==
    ASSUME NEW T, T \subseteq Nat, T # {}
    PROVE  \E n \in T : \A m \in T : n <= m
  <1> DEFINE Less == OpToRel(<, Nat)
  <1>1. IsWellFoundedOn(Less, Nat)
    BY NatLessThanWellFounded, Zenon
  <1>2. PICK n \in T : \A m \in T : <<m, n>> \notin Less
    <2> HIDE DEF Less
    <2> QED
      BY <1>1, WFMin
  <1>3. \A m \in T : ~(m < n)
    BY <1>2 DEF OpToRel
  <1> QED
    BY <1>3

\* f puts the first n of the sequences one after the other.
Flattened(n, seqs, f) ==
    /\ f = [i \in 1 .. n |-> f[i]]
    /\ \A i \in 1 .. n : f[i] = IF i = 1 THEN seqs[i] ELSE f[i - 1] \o seqs[i]

LEMMA FlattenedExists ==
    ASSUME NEW seqs, NEW n \in Nat
    PROVE  \E f : Flattened(n, seqs, f)
  <1> DEFINE Without == {k \in Nat : ~ \E f : Flattened(k, seqs, f)}
  <1> SUFFICES ASSUME Without # {}
               PROVE  FALSE
    OBVIOUS
  <1>1. PICK k \in Without : \A m \in Without : k <= m
    <2>1. Without \subseteq Nat
      OBVIOUS
    <2> HIDE DEF Without
    <2> QED
      BY <2>1, LeastNumber
  <1>2. k \in Nat /\ ~ \E f : Flattened(k, seqs, f)
    BY <1>1
  <1>3. CASE k = 0
    <2> DEFINE f == [i \in 1 .. k |-> i]
    <2>1. Flattened(k, seqs, f)
      BY <1>3 DEF Flattened
    <2> QED
      BY <2>1, <1>2
  <1>4. CASE k # 0
    <2>1. k - 1 \in Nat
      BY <1>2, <1>4
    <2>2. k - 1 \notin Without
      BY <1>1, <1>2, <2>1
    <2>3. PICK g : Flattened(k - 1, seqs, g)
      BY <2>1, <2>2
    <2> DEFINE last == IF k = 1 THEN seqs[k] ELSE g[k - 1] \o seqs[k]
               f == [i \in 1 .. k |-> IF i < k THEN g[i] ELSE last]
    <2>4. f = [i \in 1 .. k |-> f[i]]
      OBVIOUS
    <2>5. ASSUME NEW i \in 1 .. k
          PROVE  f[i] = IF i = 1 THEN seqs[i] ELSE f[i - 1] \o seqs[i]
      <3>1. CASE i < k
        <4>1. i \in 1 .. k - 1 /\ f[i] = g[i]
          BY <1>2, <3>1
        <4>2. g[i] = IF i = 1 THEN seqs[i] ELSE g[i - 1] \o seqs[i]
          BY <2>3, <4>1 DEF Flattened
        <4>3. i # 1 => f[i - 1] = g[i - 1]
          BY <1>2, <3>1
        <4> HIDE DEF f
        <4> QED
          BY <4>1, <4>2, <4>3
      <3>2. CASE i = k
        BY <1>2, <1>4, <2>3, <3>2 DEF Flattened
      <3> QED
        BY <1>2, <3>1, <3>2
    <2>6. Flattened(k, seqs, f)
      <3> HIDE DEF f
      <3> QED
        BY <2>4, <2>5 DEF Flattened
    <2> QED
      BY <2>6, <1>2
  <1> QED
    BY <1>3, <1>4

\* FlattenSeq ends on what such a function has for the last sequence.
LEMMA FlattenIsDefined ==
    ASSUME NEW S, NEW seqs \in Seq(S), seqs # <<>>
    PROVE  \E f : /\ f[1] = seqs[1]
                  /\ \A i \in 2 .. Len(seqs) : f[i] = f[i - 1] \o seqs[i]
                  /\ FlattenSeq(seqs) = f[Len(seqs)]
  <1> DEFINE Value(f, i) == IF i = 1 THEN seqs[i] ELSE f[i - 1] \o seqs[i]
             Flat == CHOOSE f : f = [i \in 1 .. Len(seqs) |-> Value(f, i)]
  <1>1. Len(seqs) \in Nat /\ Len(seqs) # 0
    OBVIOUS
  <1>2. PICK g : Flattened(Len(seqs), seqs, g)
    BY <1>1, FlattenedExists
  <1>3. g = [i \in 1 .. Len(seqs) |-> Value(g, i)]
    BY <1>2 DEF Flattened
  <1>4. Flat = [i \in 1 .. Len(seqs) |-> Value(Flat, i)]
    <2> HIDE DEF Value
    <2> QED
      BY <1>3, Zenon
  <1>5. FlattenSeq(seqs) = Flat[Len(seqs)]
    BY <1>1, Zenon DEF FlattenSeq
  <1> HIDE DEF Flat
  <1>6. \A i \in 1 .. Len(seqs) : Flat[i] = Value(Flat, i)
    <2> HIDE DEF Value
    <2> QED
      BY <1>4, Zenon
  <1>7. Flat[1] = seqs[1] /\ \A i \in 2 .. Len(seqs) : Flat[i] = Flat[i - 1] \o seqs[i]
    <2>1. 1 \in 1 .. Len(seqs) /\ \A i \in 2 .. Len(seqs) : i \in 1 .. Len(seqs) /\ i # 1
      BY <1>1
    <2> QED
      BY <1>6, <2>1, Zenon
  <1> QED
    BY <1>5, <1>7

LEMMA Associative ==
    ASSUME NEW S
    PROVE  \A s, t, u \in Seq(S) : (s \o t) \o u = s \o (t \o u)
  <1> SUFFICES ASSUME NEW s \in Seq(S), NEW t \in Seq(S), NEW u \in Seq(S)
               PROVE  (s \o t) \o u = s \o (t \o u)
    BY Zenon
  <1> QED
    OBVIOUS

\* The first sequence can be put in front of the others when they are flattened.
LEMMA FlattenCons ==
    ASSUME NEW S, NEW first \in Seq(S), NEW others \in Seq(Seq(S))
    PROVE  /\ FlattenSeq(others) \in Seq(S)
           /\ FlattenSeq(<<first>> \o others) = first \o FlattenSeq(others)
  <1> DEFINE all == <<first>> \o others
             n == Len(others)
  <1>1. /\ all \in Seq(Seq(S)) /\ Len(all) = n + 1 /\ n \in Nat /\ all # <<>>
        /\ all[1] = first /\ \A i \in 1 .. n : all[i + 1] = others[i] /\ others[i] \in Seq(S)
    OBVIOUS
  <1>2. PICK f : /\ f[1] = all[1] /\ FlattenSeq(all) = f[n + 1]
                 /\ \A i \in 2 .. n + 1 : f[i] = f[i - 1] \o all[i]
    <2> HIDE DEF all, n
    <2>1. \E f : /\ f[1] = all[1] /\ FlattenSeq(all) = f[Len(all)]
                 /\ \A i \in 2 .. Len(all) : f[i] = f[i - 1] \o all[i]
      BY <1>1, FlattenIsDefined
    <2> QED
      BY <1>1, <2>1
  <1> HIDE DEF all, n
  <1>3. f[1] = first /\ \A i \in 1 .. n : f[i + 1] = f[i] \o others[i]
    <2>1. ASSUME NEW i \in 1 .. n PROVE f[i + 1] = f[i] \o others[i]
      <3>1. i + 1 \in 2 .. n + 1 /\ (i + 1) - 1 = i
        BY <1>1
      <3>2. f[i + 1] = f[(i + 1) - 1] \o all[i + 1]
        BY <1>2, <3>1
      <3> QED
        BY <1>1, <3>1, <3>2
    <2> QED
      BY <1>1, <1>2, <2>1
  <1>4. CASE others = <<>>
    <2>1. n = 0 /\ FlattenSeq(others) = <<>>
      BY <1>4 DEF n, FlattenSeq
    <2>2. FlattenSeq(all) = first
      BY <1>2, <1>3, <2>1
    <2> QED
      BY <2>1, <2>2, ConcatEmptySeq DEF all
  <1>5. CASE others # <<>>
    <2>1. PICK g : /\ g[1] = others[1] /\ FlattenSeq(others) = g[n]
                   /\ \A i \in 2 .. n : g[i] = g[i - 1] \o others[i]
      BY <1>5, FlattenIsDefined DEF n
    <2>2. n \in Nat \ {0}
      BY <1>1, <1>5 DEF n
    <2> DEFINE Different == {i \in 1 .. n : ~(g[i] \in Seq(S) /\ f[i + 1] = first \o g[i])}
    <2>3. Different = {}
      <3> SUFFICES ASSUME Different # {} PROVE FALSE
        OBVIOUS
      <3>1. PICK i \in Different : \A j \in Different : i <= j
        <4>1. Different \subseteq Nat
          BY <1>1
        <4> HIDE DEF Different
        <4> QED
          BY <4>1, LeastNumber
      <3>2. i \in 1 .. n /\ others[i] \in Seq(S)
        BY <1>1, <3>1
      <3>3. CASE i = 1
        BY <1>3, <2>1, <3>1, <3>2, <3>3
      <3>4. CASE i # 1
        <4>1. i - 1 \in 1 .. n /\ i \in 2 .. n /\ (i - 1) + 1 = i /\ i - 1 \notin Different
          <5>1. i - 1 \in 1 .. n /\ i \in 2 .. n /\ (i - 1) + 1 = i /\ ~(i <= i - 1)
            BY <2>2, <3>2, <3>4
          <5> HIDE DEF Different
          <5> QED
            BY <3>1, <5>1
        <4>2. g[i - 1] \in Seq(S) /\ f[i] = first \o g[i - 1]
          BY <4>1
        <4>3. g[i] = g[i - 1] \o others[i] /\ f[i + 1] = f[i] \o others[i]
          BY <1>3, <2>1, <3>2, <4>1
        <4> DEFINE before == g[i - 1]
                   here == others[i]
        <4>4. (first \o before) \o here = first \o (before \o here) /\ before \o here \in Seq(S)
          <5>1. before \in Seq(S) /\ here \in Seq(S)
            BY <3>2, <4>2
          <5> HIDE DEF before, here, Different
          <5>2. (first \o before) \o here = first \o (before \o here)
            BY <5>1, Associative
          <5>3. before \o here \in Seq(S)
            BY <5>1
          <5> QED
            BY <5>2, <5>3
        <4> QED
          BY <3>1, <4>2, <4>3, <4>4
      <3> QED
        BY <3>3, <3>4
    <2>4. g[n] \in Seq(S) /\ f[n + 1] = first \o g[n]
      <3>1. n \in 1 .. n
        BY <2>2
      <3> QED
        BY <2>3, <3>1
    <2> QED
      BY <1>2, <2>1, <2>4 DEF all
  <1> QED
    BY <1>4, <1>5

-----------------------------------------------------------------------------
(* The order of the rows is unique, and a page takes its beginning.        *)

IsOnto(s, S) == \A x \in S : \E i \in DOMAIN s : s[i] = x

LEMMA NewerIsAnOrder ==
    /\ \A a, b \in Rows : Newer(a, b) => a # b /\ ~Newer(b, a) /\ Time[a] >= Time[b]
    /\ \A a, b \in Rows : a # b => Newer(a, b) \/ Newer(b, a)
  <1>1. \A a \in Rows : Time[a] \in Nat /\ a \in Nat
    BY ReadingsConstants
  <1> QED
    BY <1>1 DEF Newer

\* Rows in the order of api.php are each there once, so as many as the sequence is long.
LEMMA LengthOfOrder ==
    ASSUME NEW S \in SUBSET Rows, NEW n \in Nat, NEW s \in [1 .. n -> S], IsNewestFirst(s)
    PROVE  n = Cardinality(S) <=> IsOnto(s, S)
  <1>1. ASSUME NEW i \in 1 .. n, NEW j \in 1 .. n, i # j PROVE s[i] # s[j]
    <2>1. s[i] \in Rows /\ s[j] \in Rows
      OBVIOUS
    <2>2. i < j \/ j < i
      BY <1>1
    <2>3. Newer(s[i], s[j]) \/ Newer(s[j], s[i])
      BY <2>2 DEF IsNewestFirst
    <2> QED
      BY <2>1, <2>3, NewerIsAnOrder
  <1>2. s \in Injection(1 .. n, S)
    BY <1>1, Zenon DEF Injection, IsInjective
  <1>3. IsFiniteSet(1 .. n) /\ Cardinality(1 .. n) = n
    <2>1. /\ IsFiniteSet(1 .. n)
          /\ Cardinality(1 .. n) = IF 1 > n THEN 0 ELSE n - 1 + 1
      BY FS_Interval, n \in Int, 1 \in Int, Zenon
    <2> QED
      BY <2>1
  <1>4. IsFiniteSet(S)
    BY CountOfRows
  <1>5. Cardinality(1 .. n) = Cardinality(S) <=> s \in Surjection(1 .. n, S)
    BY <1>2, <1>4, FS_Injection, Zenon
  <1>6. s \in Surjection(1 .. n, S) <=> IsOnto(s, S)
    BY Zenon DEF Surjection, IsOnto
  <1> QED
    BY <1>3, <1>5, <1>6

LEMMA OneOrder ==
    ASSUME NEW S \in SUBSET Rows, NEW n \in Nat, NEW s \in [1 .. n -> S], NEW t \in [1 .. n -> S],
           IsNewestFirst(s), IsNewestFirst(t), IsOnto(s, S), IsOnto(t, S)
    PROVE  s = t
  <1> DEFINE Different == {i \in 1 .. n : s[i] # t[i]}
  <1>1. SUFFICES ASSUME Different # {} PROVE FALSE
    OBVIOUS
  <1>2. PICK i \in Different : \A j \in Different : i <= j
    <2>1. Different \subseteq Nat
      OBVIOUS
    <2> HIDE DEF Different
    <2> QED
      BY <1>1, <2>1, LeastNumber
  <1>3. i \in 1 .. n /\ s[i] # t[i] /\ s[i] \in S /\ t[i] \in S
    BY <1>2
  <1>4. \A j \in 1 .. n : j < i => s[j] = t[j]
    BY <1>2
  <1> HIDE DEF Different
  <1>5. PICK j \in 1 .. n : t[j] = s[i]
    BY <1>3 DEF IsOnto
  <1>6. PICK k \in 1 .. n : s[k] = t[i]
    BY <1>3 DEF IsOnto
  <1>7. s[i] \in Rows /\ t[i] \in Rows /\ \A m \in 1 .. n : s[m] \in Rows /\ t[m] \in Rows
    BY <1>3
  <1>8. i < j
    <2>1. CASE j < i
      <3>1. s[j] = s[i] /\ Newer(s[j], s[i])
        BY <1>3, <1>4, <1>5, <2>1 DEF IsNewestFirst
      <3> QED
        BY <1>7, <3>1, NewerIsAnOrder
    <2>2. j # i
      BY <1>3, <1>5
    <2> QED
      BY <1>3, <2>1, <2>2
  <1>9. i < k
    <2>1. CASE k < i
      <3>1. t[k] = t[i] /\ Newer(t[k], t[i])
        BY <1>3, <1>4, <1>6, <2>1 DEF IsNewestFirst
      <3> QED
        BY <1>7, <3>1, NewerIsAnOrder
    <2>2. k # i
      BY <1>3, <1>6
    <2> QED
      BY <1>3, <2>1, <2>2
  <1>10. Newer(t[i], s[i]) /\ Newer(s[i], t[i])
    <2>1. Newer(t[i], t[j])
      BY <1>3, <1>8 DEF IsNewestFirst
    <2>2. Newer(s[i], s[k])
      BY <1>3, <1>9 DEF IsNewestFirst
    <2> QED
      BY <1>5, <1>6, <2>1, <2>2
  <1> QED
    BY <1>7, <1>10, NewerIsAnOrder

\* A sequence with the rows in this order is the one that api.php gets.
LEMMA SortedIs ==
    ASSUME NEW S \in SUBSET Rows
    PROVE  /\ NewestFirst(S) \in Seq(S) /\ Len(NewestFirst(S)) = Cardinality(S)
           /\ IsNewestFirst(NewestFirst(S)) /\ IsOnto(NewestFirst(S), S)
           /\ \A s \in Seq(S) : IsNewestFirst(s) /\ IsOnto(s, S) => s = NewestFirst(S)
  <1> DEFINE sorted == NewestFirst(S)
             n == Cardinality(S)
  <1>1. sorted \in [1 .. n -> S] /\ IsNewestFirst(sorted)
    BY RowsCanBeSorted DEF CanBeSorted, IsNewestFirst, NewestFirst
  <1>2. n \in Nat
    BY CountOfRows
  <1> HIDE DEF sorted, n
  <1>3. sorted \in Seq(S) /\ Len(sorted) = n
    BY <1>1, <1>2
  <1>4. IsOnto(sorted, S)
    BY <1>1, <1>2, LengthOfOrder DEF n
  <1>5. ASSUME NEW s \in Seq(S), IsNewestFirst(s), IsOnto(s, S) PROVE s = sorted
    <2>1. Len(s) \in Nat /\ s \in [1 .. Len(s) -> S]
      OBVIOUS
    <2>2. Len(s) = n
      BY <1>5, <2>1, LengthOfOrder DEF n
    <2>3. s \in [1 .. n -> S]
      BY <2>1, <2>2
    <2> QED
      BY <1>1, <1>2, <1>4, <1>5, <2>3, OneOrder
  <1> QED
    BY <1>1, <1>3, <1>4, <1>5 DEF sorted, n

\* No two of the rows were measured at the same time.
TimesDiffer(rows) == \A a, b \in rows : Time[a] = Time[b] => a = b

\* What follows the first rows in this order is what is below the last of them.
LEMMA RestIsBelow ==
    ASSUME NEW rows \in SUBSET Rows, TimesDiffer(rows), NEW size \in Nat \ {0},
           Len(NewestFirst(rows)) > size
    PROVE  LET sorted == NewestFirst(rows)
               next == Time[sorted[size]]
           IN  /\ next \in Cursors \ {NoCursor}
               /\ NewestFirst(Below(rows, next)) = SubSeq(sorted, size + 1, Len(sorted))
               /\ sorted = SubSeq(sorted, 1, size) \o NewestFirst(Below(rows, next))
               /\ Cardinality(Below(rows, next)) < Cardinality(rows)
  <1> DEFINE sorted == NewestFirst(rows)
             n == Len(sorted)
             next == Time[sorted[size]]
             rest == SubSeq(sorted, size + 1, n)
  <1>1. /\ sorted \in Seq(rows) /\ n = Cardinality(rows)
        /\ IsNewestFirst(sorted) /\ IsOnto(sorted, rows)
    BY SortedIs
  <1>2. n \in Nat /\ size \in 1 .. n /\ size < n
    <2>1. size < n
      OBVIOUS
    <2> HIDE DEF sorted
    <2>2. n \in Nat
      BY <1>1
    <2> HIDE DEF n
    <2> QED
      BY <2>1, <2>2
  <1> HIDE DEF sorted, n
  <1>3. \A i \in 1 .. n : sorted[i] \in rows /\ sorted[i] \in Rows
    BY <1>1 DEF n
  <1>4. next \in Cursors \ {NoCursor} /\ next \in Nat
    BY <1>2, <1>3, RowTypes
  <1>5. \A i \in 1 .. n : Time[sorted[i]] < next <=> i > size
    <2> SUFFICES ASSUME NEW i \in 1 .. n PROVE Time[sorted[i]] < next <=> i > size
      OBVIOUS
    <2>1. Time[sorted[i]] \in Nat
      BY <1>3, RowTypes
    <2>2. CASE i > size
      <3>1. Newer(sorted[size], sorted[i])
        BY <1>1, <1>2, <2>2 DEF IsNewestFirst, n
      <3>2. sorted[size] # sorted[i] /\ next >= Time[sorted[i]]
        BY <1>2, <1>3, <3>1, NewerIsAnOrder
      <3>3. next # Time[sorted[i]]
        BY <1>2, <1>3, <3>2 DEF TimesDiffer
      <3> QED
        BY <1>4, <2>1, <2>2, <3>2, <3>3
    <2>3. CASE i = size
      BY <1>4, <2>3
    <2>4. CASE i < size
      <3>1. Newer(sorted[i], sorted[size])
        BY <1>1, <1>2, <2>4 DEF IsNewestFirst, n
      <3>2. Time[sorted[i]] >= next
        BY <1>2, <1>3, <3>1, NewerIsAnOrder
      <3> QED
        BY <1>2, <1>4, <2>1, <2>4, <3>2
    <2> QED
      BY <1>2, <2>2, <2>3, <2>4
  <1> HIDE DEF next
  <1>6. Below(rows, next) \in SUBSET Rows /\ \A row \in Below(rows, next) : Time[row] < next
    BY <1>4 DEF Below
  <1>7. Len(rest) = n - size /\ \A i \in 1 .. n - size : rest[i] = sorted[size + i]
    BY <1>1, <1>2 DEF n
  <1>8. \A i \in 1 .. n - size : size + i \in 1 .. n /\ size + i > size
    BY <1>2
  <1>9. rest \in Seq(Below(rows, next))
    <2>1. \A i \in 1 .. n - size : sorted[size + i] \in Below(rows, next)
      BY <1>3, <1>4, <1>5, <1>8 DEF Below
    <2>2. rest \in Seq(rows)
      BY <1>1, <1>2 DEF n
    <2>3. \A i \in 1 .. n - size : rest[i] \in Below(rows, next)
      BY <1>7, <2>1, Zenon
    <2> HIDE DEF rest
    <2>4. rest \in [1 .. n - size -> Below(rows, next)]
      BY <1>7, <2>2, <2>3
    <2>5. n - size \in Nat
      BY <1>2
    <2> QED
      BY <2>4, <2>5
  <1> HIDE DEF rest
  <1>10. IsNewestFirst(rest)
    <2> SUFFICES ASSUME NEW i \in 1 .. n - size, NEW j \in 1 .. n - size, i < j
                 PROVE  Newer(rest[i], rest[j])
      BY <1>7, <1>9 DEF IsNewestFirst
    <2>1. size + i \in 1 .. n /\ size + j \in 1 .. n /\ size + i < size + j
      BY <1>2, <1>8
    <2>2. Newer(sorted[size + i], sorted[size + j])
      BY <1>1, <2>1 DEF IsNewestFirst, n
    <2> QED
      BY <1>7, <2>2
  <1>11. IsOnto(rest, Below(rows, next))
    <2> SUFFICES ASSUME NEW row \in Below(rows, next) PROVE \E i \in DOMAIN rest : rest[i] = row
      BY DEF IsOnto
    <2>1. PICK k \in 1 .. n : sorted[k] = row
      BY <1>1 DEF IsOnto, Below, n
    <2>2. k > size
      BY <1>5, <1>6, <2>1
    <2>3. k - size \in 1 .. n - size /\ size + (k - size) = k
      BY <1>2, <2>1, <2>2
    <2>4. k - size \in DOMAIN rest
      BY <1>7, <1>9, <2>3
    <2> QED
      BY <1>7, <2>1, <2>3, <2>4
  <1>12. rest = NewestFirst(Below(rows, next))
    BY <1>6, <1>9, <1>10, <1>11, SortedIs
  <1>13. Len(rest) = Cardinality(Below(rows, next))
    BY <1>6, <1>12, SortedIs
  <1>14. sorted = SubSeq(sorted, 1, size) \o rest
    <2> DEFINE front == SubSeq(sorted, 1, size)
    <2>1. front \in Seq(rows) /\ Len(front) = size /\ \A i \in 1 .. size : front[i] = sorted[i]
      BY <1>1, <1>2 DEF n
    <2>2. rest \in Seq(rows)
      BY <1>9 DEF Below
    <2> HIDE DEF front
    <2>3. /\ front \o rest \in Seq(rows) /\ Len(front \o rest) = n
          /\ \A i \in 1 .. n : (front \o rest)[i] = IF i <= size THEN front[i] ELSE rest[i - size]
      <3>1. size + (n - size) = n
        BY <1>2
      <3>2. /\ front \o rest \in Seq(rows) /\ Len(front \o rest) = Len(front) + Len(rest)
            /\ \A i \in 1 .. Len(front) + Len(rest) :
                  (front \o rest)[i] = IF i <= Len(front) THEN front[i] ELSE rest[i - Len(front)]
        <4>1. front \in Seq(rows) /\ rest \in Seq(rows)
          BY <2>1, <2>2
        <4> HIDE DEF rest
        <4> QED
          BY <4>1, ConcatProperties
      <3>3. Len(front) = size /\ Len(rest) = n - size
        BY <1>7, <2>1
      <3> QED
        BY <3>1, <3>2, <3>3, Zenon
    <2>4. \A i \in 1 .. n : (front \o rest)[i] = sorted[i]
      <3> SUFFICES ASSUME NEW i \in 1 .. n PROVE (front \o rest)[i] = sorted[i]
        OBVIOUS
      <3>1. CASE i <= size
        BY <1>2, <2>1, <2>3, <3>1
      <3>2. CASE i > size
        <4>1. i - size \in 1 .. n - size /\ size + (i - size) = i
          BY <1>2, <3>2
        <4> QED
          BY <1>2, <1>7, <2>3, <3>2, <4>1
      <3>3. i <= size \/ i > size
        BY <1>2
      <3> QED
        BY <3>1, <3>2, <3>3, Zenon
    <2>5. sorted = front \o rest
      BY <1>1, <2>3, <2>4 DEF n
    <2> QED
      BY <2>5 DEF front
  <1>15. Cardinality(Below(rows, next)) < Cardinality(rows)
    BY <1>1, <1>2, <1>7, <1>13
  <1> QED
    BY <1>4, <1>12, <1>14, <1>15 DEF next, rest, sorted, n

\* A page is the beginning of what is below its cursor, and what follows is below
\* the next one.
LEMMA PageAndRest ==
    ASSUME NEW tab \in SUBSET Rows, TimesDiffer(tab), NEW filter,
           NEW cursor \in Cursors, NEW size \in PageSizes
    PROVE  LET page == Page(tab, filter, cursor, size)
               rows == Below(Matching(tab, filter), cursor)
               rest == Below(Matching(tab, filter), page.next_cursor)
           IN  /\ page.readings \in Seq(Rows) /\ Len(page.readings) <= size
               /\ ~page.has_more => page.readings = NewestFirst(rows)
               /\ page.has_more =>
                     /\ page.next_cursor \in Cursors
                     /\ NewestFirst(rows) = page.readings \o NewestFirst(rest)
                     /\ Cardinality(rest) < Cardinality(rows)
  <1> DEFINE all == Matching(tab, filter)
             rows == Below(all, cursor)
             sorted == NewestFirst(rows)
             n == Len(sorted)
             fetched == SubSeq(sorted, 1, IF n > size THEN size + 1 ELSE n)
             page == Page(tab, filter, cursor, size)
             rest == Below(all, page.next_cursor)
  <1>1. /\ all \in SUBSET Rows /\ rows \in SUBSET Rows /\ size \in Nat \ {0}
        /\ TimesDiffer(rows)
    BY ReadingsConstants DEF Below, Matching, TimesDiffer
  <1>2. page = IF Len(fetched) > size
               THEN [readings |-> SubSeq(fetched, 1, size), has_more |-> TRUE,
                     next_cursor |-> Time[fetched[size]]]
               ELSE [readings |-> fetched, has_more |-> FALSE, next_cursor |-> NoCursor]
    BY DEF Page, HasMore, CutOff
  <1>3. sorted \in Seq(rows)
    <2> HIDE DEF rows
    <2> QED
      BY <1>1, SortedIs
  <1>4. n \in Nat
    <2> HIDE DEF sorted
    <2> QED
      BY <1>3
  <1>5. page.readings \in Seq(Rows)
    BY PageFacts DEF PageType
  <1>6. CASE n > size
    <2>1. /\ Len(fetched) = size + 1 /\ fetched[size] = sorted[size]
          /\ SubSeq(fetched, 1, size) = SubSeq(sorted, 1, size)
      <3> HIDE DEF sorted, n
      <3>1. fetched = SubSeq(sorted, 1, size + 1)
        BY <1>6
      <3>2. size + 1 \in 1 .. n /\ size \in 1 .. size + 1 /\ size \in 1 .. n
        BY <1>1, <1>4, <1>6
      <3>3. /\ SubSeq(sorted, 1, size + 1) \in Seq(rows)
            /\ Len(SubSeq(sorted, 1, size + 1)) = size + 1
            /\ \A i \in 1 .. size + 1 : SubSeq(sorted, 1, size + 1)[i] = sorted[i]
        BY <1>1, <1>3, <3>2 DEF n
      <3> HIDE DEF fetched
      <3>4. /\ fetched \in Seq(rows) /\ Len(fetched) = size + 1
            /\ \A i \in 1 .. size + 1 : fetched[i] = sorted[i]
        BY <3>1, <3>3
      <3>5. /\ SubSeq(fetched, 1, size) \in Seq(rows) /\ Len(SubSeq(fetched, 1, size)) = size
            /\ \A i \in 1 .. size : SubSeq(fetched, 1, size)[i] = fetched[i]
        BY <1>1, <3>2, <3>4
      <3>6. /\ SubSeq(sorted, 1, size) \in Seq(rows) /\ Len(SubSeq(sorted, 1, size)) = size
            /\ \A i \in 1 .. size : SubSeq(sorted, 1, size)[i] = sorted[i]
        BY <1>1, <1>3, <3>2 DEF n
      <3> DEFINE a == SubSeq(fetched, 1, size)
                 b == SubSeq(sorted, 1, size)
      <3>7. \A i \in 1 .. size : a[i] = b[i]
        <4>1. \A i \in 1 .. size : i \in 1 .. size + 1
          BY <1>1
        <4> QED
          BY <3>4, <3>5, <3>6, <4>1
      <3>8. a \in Seq(rows) /\ b \in Seq(rows) /\ Len(a) = size /\ Len(b) = size
        BY <3>5, <3>6
      <3> HIDE DEF a, b
      <3>9. a = b
        BY <3>7, <3>8
      <3> QED
        BY <3>2, <3>4, <3>9 DEF a, b
    <2>2. /\ page.readings = SubSeq(sorted, 1, size) /\ page.has_more
          /\ page.next_cursor = Time[sorted[size]]
      <3> HIDE DEF sorted, fetched, page
      <3>1. Len(fetched) > size
        BY <1>1, <2>1
      <3> QED
        BY <1>2, <2>1, <3>1
    <2>3. Len(page.readings) <= size
      <3> HIDE DEF sorted, n
      <3>1. Len(SubSeq(sorted, 1, size)) = size
        BY <1>1, <1>3, <1>4, <1>6 DEF n
      <3> QED
        BY <1>1, <2>2, <3>1
    <2> DEFINE next == page.next_cursor
    <2>4. /\ next \in Cursors \ {NoCursor} /\ sorted = page.readings \o NewestFirst(Below(rows, next))
          /\ Cardinality(Below(rows, next)) < Cardinality(rows)
      <3> HIDE DEF rows, page
      <3> QED
        BY <1>1, <1>6, <2>2, RestIsBelow
    <2>5. Below(rows, next) = Below(all, next)
      <3> HIDE DEF n, page, all
      <3>1. size \in 1 .. n
        BY <1>1, <1>4, <1>6
      <3>2. sorted[size] \in rows
        <4> HIDE DEF sorted, rows
        <4> QED
          BY <1>3, <3>1 DEF n
      <3>3. cursor = NoCursor \/ next < cursor
        <4> HIDE DEF sorted
        <4> QED
          BY <2>2, <3>2 DEF Below
      <3>4. cursor \in Nat /\ next \in Nat /\ \A r \in all : Time[r] \in Nat
        BY <1>1, <2>4, RowTypes
      <3> HIDE DEF sorted, next
      <3> QED
        BY <2>4, <3>3, <3>4 DEF Below
    <2> HIDE DEF rows, page, all, sorted
    <2>6. /\ page.next_cursor \in Cursors /\ sorted = page.readings \o NewestFirst(rest)
          /\ Cardinality(rest) < Cardinality(rows)
      BY <2>4, <2>5
    <2> HIDE DEF rest
    <2>7. page.has_more
      BY <2>2
    <2>8. /\ page.readings \in Seq(Rows) /\ Len(page.readings) <= size
      BY <1>5, <2>3
    <2> QED
      BY <2>6, <2>7, <2>8, Zenon DEF rows, page, all, sorted, rest
  <1>7. CASE ~(n > size)
    <2>1. fetched = sorted
      <3> HIDE DEF sorted, rows
      <3>1. fetched = SubSeq(sorted, 1, n)
        BY <1>7
      <3>2. SubSeq(sorted, 1, n) = sorted
        <4> HIDE DEF fetched
        <4> QED
          BY <1>3
      <3> HIDE DEF fetched
      <3> QED
        BY <3>1, <3>2
    <2>2. page.readings = sorted /\ ~page.has_more
      <3> HIDE DEF fetched, sorted, page
      <3> QED
        BY <1>2, <1>7, <2>1
    <2>3. Len(page.readings) <= size
      <3> HIDE DEF sorted, page
      <3> QED
        BY <1>1, <1>4, <1>7, <2>2
    <2> HIDE DEF rows, page, all, sorted
    <2> QED
      BY <1>5, <2>2, <2>3, Zenon DEF rows, page, all, sorted, rest
  <1> QED
    BY <1>6, <1>7

-----------------------------------------------------------------------------
(* Following next_cursor.                                                  *)

\* A walk: what head gives at each place, and then what it gives at the next ones.
Walked(places, head, more, next, f) ==
    /\ f = [p \in places |-> f[p]]
    /\ \A p \in places : f[p] = head[p] \o (IF more[p] THEN f[next[p]] ELSE <<>>)

\* A walk that goes down at each step is defined everywhere.
LEMMA WalkExists ==
    ASSUME NEW places, NEW rank \in [places -> Nat], NEW top \in Nat, NEW head, NEW more, NEW next,
           \A p \in places : rank[p] <= top,
           \A p \in places : more[p] => next[p] \in places /\ rank[next[p]] < rank[p]
    PROVE  \E f : Walked(places, head, more, next, f)
  <1> DEFINE Low(n) == {p \in places : rank[p] <= n}
             Without == {n \in Nat : ~ \E f : Walked(Low(n), head, more, next, f)}
  <1>1. Without = {}
    <2> SUFFICES ASSUME Without # {} PROVE FALSE
      OBVIOUS
    <2>1. PICK k \in Without : \A m \in Without : k <= m
      <3>1. Without \subseteq Nat
        OBVIOUS
      <3> HIDE DEF Without
      <3> QED
        BY <3>1, LeastNumber
    <2>2. k \in Nat /\ ~ \E f : Walked(Low(k), head, more, next, f)
      BY <2>1
    <2>3. k # 0 => \E f : Walked(Low(k - 1), head, more, next, f)
      <3> SUFFICES ASSUME k # 0 PROVE \E f : Walked(Low(k - 1), head, more, next, f)
        OBVIOUS
      <3>1. k - 1 \in Nat /\ ~(k <= k - 1)
        BY <2>2
      <3>2. k - 1 \notin Without
        <4> HIDE DEF Without
        <4> QED
          BY <2>1, <3>1
      <3> QED
        BY <3>1, <3>2
    <2>4. PICK g : k # 0 => Walked(Low(k - 1), head, more, next, g)
      BY <2>3
    <2> DEFINE Value(h, p) == head[p] \o (IF more[p] THEN h[next[p]] ELSE <<>>)
               f == [p \in Low(k) |-> Value(g, p)]
    <2>5. ASSUME NEW p \in Low(k) PROVE f[p] = Value(f, p)
      <3>1. CASE ~more[p]
        BY <3>1
      <3>2. CASE more[p]
        <4>1. /\ next[p] \in places /\ rank[next[p]] < rank[p] /\ rank[p] <= k
              /\ rank[p] \in Nat /\ rank[next[p]] \in Nat
          BY <3>2
        <4>2. k # 0 /\ rank[next[p]] <= k - 1 /\ rank[next[p]] <= k
          BY <2>2, <4>1
        <4>3. next[p] \in Low(k - 1) /\ next[p] \in Low(k)
          BY <4>1, <4>2
        <4>4. g[next[p]] = Value(g, next[p])
          BY <2>4, <4>2, <4>3, Zenon DEF Walked
        <4>5. f[next[p]] = Value(g, next[p])
          <5> HIDE DEF Low, Value
          <5> QED
            BY <4>3
        <4>6. f[p] = Value(g, p)
          <5> HIDE DEF Low, Value
          <5> QED
            OBVIOUS
        <4>7. g[next[p]] = f[next[p]]
          BY <4>4, <4>5, Zenon
        <4> HIDE DEF f
        <4> QED
          BY <3>2, <4>6, <4>7
      <3> QED
        BY <3>1, <3>2
    <2>6. f = [p \in Low(k) |-> f[p]]
      <3> HIDE DEF Low, Value
      <3> QED
        OBVIOUS
    <2>7. Walked(Low(k), head, more, next, f)
      <3> HIDE DEF f, Low
      <3> QED
        BY <2>5, <2>6, Zenon DEF Walked
    <2> QED
      BY <2>2, <2>7
  <1>2. Low(top) = places
    OBVIOUS
  <1>3. \E f : Walked(Low(top), head, more, next, f)
    BY <1>1
  <1> QED
    BY <1>2, <1>3

Rank(tab, filter, cursor) == Cardinality(Below(Matching(tab, filter), cursor))

\* f gives the page at a cursor and the pages that follow it.
FollowsCursors(tab, filter, size, f) ==
    \A cursor \in Cursors :
        f[cursor] =
            LET page == Page(tab, filter, cursor, size)
            IN  <<page>> \o (IF page.has_more THEN f[page.next_cursor] ELSE <<>>)

Readings(pages) == [i \in DOMAIN pages |-> pages[i].readings]

\* The pages are all that is below the cursor, in order.
AreAllBelow(tab, filter, size, cursor, pages) ==
    /\ pages \in Seq(PageType)
    /\ \A i \in DOMAIN pages : Len(pages[i].readings) <= size
    /\ FlattenSeq(Readings(pages)) = NewestFirst(Below(Matching(tab, filter), cursor))

\* The pages that WholeHistory speaks of exist, as they come to an end.
LEMMA PagesExist ==
    ASSUME NEW tab \in SUBSET Rows, TimesDiffer(tab), NEW filter, NEW size \in PageSizes
    PROVE  \E f : f = [cursor \in Cursors |->
                          LET page == Page(tab, filter, cursor, size)
                          IN  <<page>> \o (IF page.has_more THEN f[page.next_cursor] ELSE <<>>)]
  <1> DEFINE page(c) == Page(tab, filter, c, size)
             rank == [c \in Cursors |-> Rank(tab, filter, c)]
             head == [c \in Cursors |-> <<page(c)>>]
             more == [c \in Cursors |-> page(c).has_more]
             next == [c \in Cursors |-> page(c).next_cursor]
  <1>1. \A c \in Cursors : /\ Below(Matching(tab, filter), c) \in SUBSET Rows
                           /\ Rank(tab, filter, c) \in Nat
                           /\ Rank(tab, filter, c) <= Cardinality(Rows)
    <2> SUFFICES ASSUME NEW c \in Cursors
                 PROVE  /\ Below(Matching(tab, filter), c) \in SUBSET Rows
                        /\ Rank(tab, filter, c) \in Nat
                        /\ Rank(tab, filter, c) <= Cardinality(Rows)
      OBVIOUS
    <2> DEFINE rows == Below(Matching(tab, filter), c)
    <2>1. rows \in SUBSET Rows
      BY DEF Below, Matching
    <2> HIDE DEF rows
    <2>2. Cardinality(rows) \in Nat /\ Cardinality(rows) <= Cardinality(Rows)
      BY <2>1, CountOfRows, MoreRows
    <2> QED
      BY <2>1, <2>2 DEF rows, Rank
  <1>2. Cardinality(Rows) \in Nat
    BY RowTypes
  <1>3. \A c \in Cursors : page(c).has_more =>
            /\ page(c).next_cursor \in Cursors
            /\ Rank(tab, filter, page(c).next_cursor) < Rank(tab, filter, c)
    BY PageAndRest DEF Rank
  <1> HIDE DEF page
  <1>4. rank \in [Cursors -> Nat] /\ \A c \in Cursors : rank[c] <= Cardinality(Rows)
    BY <1>1
  <1>5. \A c \in Cursors : more[c] => next[c] \in Cursors /\ rank[next[c]] < rank[c]
    BY <1>3
  <1>6. \A c \in Cursors : /\ head[c] = <<page(c)>> /\ more[c] = page(c).has_more
                           /\ next[c] = page(c).next_cursor
    OBVIOUS
  <1> HIDE DEF rank, head, more, next
  <1>7. PICK f : Walked(Cursors, head, more, next, f)
    BY <1>2, <1>4, <1>5, WalkExists
  <1> DEFINE Value(c) == <<page(c)>> \o (IF page(c).has_more THEN f[page(c).next_cursor] ELSE <<>>)
  <1>8. \A c \in Cursors : f[c] = Value(c)
    BY <1>6, <1>7, Zenon DEF Walked
  <1>9. f = [c \in Cursors |-> f[c]]
    BY <1>7, Zenon DEF Walked
  <1>10. f = [c \in Cursors |-> Value(c)]
    <2> HIDE DEF Value
    <2> QED
      BY <1>8, <1>9, Zenon
  <1> QED
    BY <1>10, Zenon DEF page

\* Following the cursors gives all that is below the first.
LEMMA WalkIsAll ==
    ASSUME NEW tab \in SUBSET Rows, TimesDiffer(tab), NEW filter, NEW size \in PageSizes,
           NEW f, FollowsCursors(tab, filter, size, f)
    PROVE  \A cursor \in Cursors : AreAllBelow(tab, filter, size, cursor, f[cursor])
  <1> DEFINE Fine(c) == AreAllBelow(tab, filter, size, c, f[c])
             Ranks == {Rank(tab, filter, c) : c \in {d \in Cursors : ~Fine(d)}}
  <1>1. SUFFICES ASSUME Ranks # {} PROVE FALSE
    OBVIOUS
  <1>2. \A c \in Cursors : Rank(tab, filter, c) \in Nat
    <2> SUFFICES ASSUME NEW c \in Cursors PROVE Rank(tab, filter, c) \in Nat
      OBVIOUS
    <2>1. Below(Matching(tab, filter), c) \in SUBSET Rows
      BY DEF Below, Matching
    <2> QED
      BY <2>1, CountOfRows DEF Rank
  <1>3. PICK n \in Ranks : \A m \in Ranks : n <= m
    <2>1. Ranks \subseteq Nat
      BY <1>2
    <2> HIDE DEF Ranks
    <2> QED
      BY <1>1, <2>1, LeastNumber
  <1>4. PICK cursor \in Cursors : ~Fine(cursor) /\ n = Rank(tab, filter, cursor)
    OBVIOUS
  <1>5. \A c \in Cursors : Rank(tab, filter, c) < n => Fine(c)
    <2> SUFFICES ASSUME NEW c \in Cursors, Rank(tab, filter, c) < n, ~Fine(c) PROVE FALSE
      OBVIOUS
    <2>1. Rank(tab, filter, c) \in Ranks
      OBVIOUS
    <2> HIDE DEF Ranks
    <2> QED
      BY <1>2, <1>3, <1>4, <2>1
  <1> HIDE DEF Ranks
  <1> DEFINE page == Page(tab, filter, cursor, size)
             sorted == NewestFirst(Below(Matching(tab, filter), cursor))
             others == IF page.has_more THEN f[page.next_cursor] ELSE <<>>
             readings == page.readings
             later == Readings(others)
  <1>6. f[cursor] = <<page>> \o others
    BY Zenon DEF FollowsCursors
  <1>7. page \in PageType
    BY PageFacts
  <1>8. readings \in Seq(Rows) /\ Len(readings) <= size
    BY PageAndRest
  <1>9. /\ others \in Seq(PageType) /\ \A i \in DOMAIN others : Len(others[i].readings) <= size
        /\ sorted = readings \o FlattenSeq(later)
    <2>1. CASE page.has_more
      <3> DEFINE next == page.next_cursor
      <3>1. /\ next \in Cursors /\ Rank(tab, filter, next) < n
            /\ sorted = readings \o NewestFirst(Below(Matching(tab, filter), next))
        BY <1>4, <2>1, PageAndRest DEF Rank
      <3> HIDE DEF next, Fine, sorted, readings
      <3>2. Fine(next)
        BY <1>5, <3>1
      <3>3. others = f[next]
        BY <2>1 DEF next
      <3> HIDE DEF others
      <3> QED
        BY <3>1, <3>2, <3>3 DEF Fine, AreAllBelow
    <2>2. CASE ~page.has_more
      <3>1. sorted = readings
        BY <2>2, PageAndRest
      <3>2. others = <<>>
        BY <2>2
      <3> HIDE DEF sorted, readings, others
      <3>3. FlattenSeq(later) = <<>>
        <4> DEFINE none == <<>>
        <4>1. later = <<>>
          BY <3>2 DEF Readings
        <4> QED
          BY <4>1 DEF FlattenSeq
      <3>4. readings \o <<>> = readings
        BY <1>8
      <3>5. others \in Seq(PageType) /\ DOMAIN others = {}
        BY <3>2
      <3>6. sorted = readings \o FlattenSeq(later)
        <4> HIDE DEF later
        <4> QED
          BY <3>1, <3>3, <3>4
      <3> QED
        BY <3>5, <3>6, Zenon
    <2> QED
      BY <2>1, <2>2
  <1> HIDE DEF page, sorted, others, readings, later
  <1>10. later \in Seq(Seq(Rows))
    <2>1. Len(others) \in Nat /\ \A i \in 1 .. Len(others) : others[i].readings \in Seq(Rows)
      <3>1. \A p \in PageType : p.readings \in Seq(Rows)
        BY DEF PageType
      <3>2. Len(others) \in Nat /\ \A i \in 1 .. Len(others) : others[i] \in PageType
        BY <1>9
      <3> QED
        BY <3>1, <3>2
    <2>2. DOMAIN others = 1 .. Len(others)
      BY <1>9
    <2> QED
      BY <2>1, <2>2 DEF later, Readings
  <1>11. Readings(<<page>> \o others) = <<readings>> \o later
    <2> DEFINE pages == <<page>> \o others
               k == Len(others)
    <2>1. /\ pages \in Seq(PageType) /\ Len(pages) = k + 1 /\ pages[1] = page
          /\ \A i \in 2 .. k + 1 : pages[i] = others[i - 1]
      BY <1>7, <1>9
    <2>2. /\ <<readings>> \o later \in Seq(Seq(Rows)) /\ Len(<<readings>> \o later) = k + 1
          /\ (<<readings>> \o later)[1] = readings
          /\ \A i \in 2 .. k + 1 : (<<readings>> \o later)[i] = others[i - 1].readings
      <3>1. Len(later) = k /\ \A i \in 1 .. k : later[i] = others[i].readings
        BY <1>9 DEF later, Readings
      <3> HIDE DEF k
      <3>2. k \in Nat
        BY <1>9 DEF k
      <3> QED
        BY <1>8, <1>10, <3>1, <3>2
    <2> HIDE DEF pages
    <2>3. k \in Nat
      BY <1>9
    <2> HIDE DEF k
    <2>4. Readings(pages) = [i \in 1 .. k + 1 |-> pages[i].readings]
      BY <2>1, <2>3 DEF Readings
    <2> DEFINE s == <<readings>> \o later
    <2>5. \A i \in 1 .. k + 1 : pages[i].readings = s[i]
      <3> SUFFICES ASSUME NEW i \in 1 .. k + 1 PROVE pages[i].readings = s[i]
        OBVIOUS
      <3> HIDE DEF s
      <3>1. CASE i = 1
        BY <2>1, <2>2, <3>1 DEF s, readings
      <3>2. CASE i # 1
        <4>1. i \in 2 .. k + 1
          BY <2>3, <3>2
        <4> QED
          BY <2>1, <2>2, <4>1 DEF s
      <3> QED
        BY <3>1, <3>2
    <2>6. s = [i \in 1 .. k + 1 |-> s[i]]
      <3>1. s \in Seq(Seq(Rows)) /\ Len(s) = k + 1
        BY <2>2
      <3> HIDE DEF s
      <3> QED
        BY <2>3, <3>1
    <2> HIDE DEF s
    <2>7. Readings(pages) = s
      BY <2>4, <2>5, <2>6, Zenon
    <2> QED
      BY <2>7 DEF s, pages
  <1>12. FlattenSeq(Readings(f[cursor])) = sorted
    BY <1>6, <1>8, <1>9, <1>10, <1>11, FlattenCons
  <1>13. /\ f[cursor] \in Seq(PageType)
         /\ \A i \in DOMAIN f[cursor] : Len(f[cursor][i].readings) <= size
    <2> DEFINE pages == <<page>> \o others
    <2>1. /\ pages \in Seq(PageType) /\ Len(pages) = Len(others) + 1 /\ pages[1] = page
          /\ \A i \in 2 .. Len(others) + 1 : pages[i] = others[i - 1]
      BY <1>7, <1>9
    <2>2. Len(others) \in Nat /\ \A i \in 1 .. Len(others) : Len(others[i].readings) <= size
      BY <1>9
    <2> HIDE DEF pages
    <2>3. \A i \in 1 .. Len(others) + 1 : Len(pages[i].readings) <= size
      <3> SUFFICES ASSUME NEW i \in 1 .. Len(others) + 1 PROVE Len(pages[i].readings) <= size
        OBVIOUS
      <3>1. CASE i = 1
        BY <1>8, <2>1, <3>1, Zenon DEF readings
      <3>2. CASE i # 1
        <4>1. i \in 2 .. Len(others) + 1 /\ i - 1 \in 1 .. Len(others)
          BY <2>2, <3>2
        <4>2. pages[i] = others[i - 1] /\ Len(others[i - 1].readings) <= size
          BY <2>1, <2>2, <4>1, Zenon
        <4> QED
          BY <4>2, Zenon
      <3> QED
        BY <3>1, <3>2
    <2>4. DOMAIN pages = 1 .. Len(others) + 1
      BY <2>1, <2>2
    <2> QED
      BY <1>6, <2>1, <2>3, <2>4 DEF pages
  <1>14. Fine(cursor)
    BY <1>12, <1>13 DEF AreAllBelow, sorted
  <1> QED
    BY <1>4, <1>14

\* As long as no two readings were stored with the same timestamp, the pages that
\* following next_cursor gives are the whole history that matches, every reading once,
\* newest first, none of them longer than was asked for (README.md:25-26, App.tsx:74).
\* The view_ties run shows that two readings of one timestamp can break it.
THEOREM PagesAreTheHistory == HistorySpec => [](TimesDiffer(table) => WholeHistory)
  <1>1. ASSUME TypesHold, TimesDiffer(table)
        PROVE  WholeHistory
    <2> SUFFICES ASSUME NEW filter \in Filters, NEW size \in PageSizes
                 PROVE  LET PageFrom[cursor \in Cursors] ==
                                LET page == Page(table, filter, cursor, size)
                                IN  <<page>> \o (IF page.has_more THEN PageFrom[page.next_cursor]
                                                 ELSE <<>>)
                            pages == PageFrom[NoCursor]
                        IN  /\ \A i \in DOMAIN pages : Len(pages[i].readings) <= size
                            /\ FlattenSeq([i \in DOMAIN pages |-> pages[i].readings])
                                    = NewestFirst(Matching(table, filter))
      BY Zenon DEF WholeHistory
    <2> DEFINE PageFrom[cursor \in Cursors] ==
                   LET page == Page(table, filter, cursor, size)
                   IN  <<page>> \o (IF page.has_more THEN PageFrom[page.next_cursor] ELSE <<>>)
    <2>1. table \in SUBSET Rows
      BY <1>1 DEF TypesHold
    <2>2. PageFrom = [cursor \in Cursors |->
                         LET page == Page(table, filter, cursor, size)
                         IN  <<page>> \o (IF page.has_more THEN PageFrom[page.next_cursor]
                                          ELSE <<>>)]
      BY <1>1, <2>1, PagesExist, Zenon
    <2> HIDE DEF PageFrom
    <2>3. FollowsCursors(table, filter, size, PageFrom)
      BY <2>2, Zenon DEF FollowsCursors
    <2>4. AreAllBelow(table, filter, size, NoCursor, PageFrom[NoCursor])
      BY <1>1, <2>1, <2>3, WalkIsAll, RowTypes
    <2>5. Below(Matching(table, filter), NoCursor) = Matching(table, filter)
      BY DEF Below
    <2> QED
      BY <2>4, <2>5, Zenon DEF AreAllBelow, Readings, PageFrom
  <1>2. Undisturbed => TypesHold
    BY DEF Undisturbed
  <1> QED
    BY InitUndisturbed, StepUndisturbed, <1>1, <1>2, PTL DEF HistorySpec
=============================================================================
