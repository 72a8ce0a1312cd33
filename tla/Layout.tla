------------------------------- MODULE Layout -------------------------------
(***************************************************************************)
(* How a page of days is laid out (internal/view): which entry becomes a   *)
(* block in the column of a day, which a bar across days, which lane each  *)
(* gets, what is only counted, and where the bands of sleep lie.  Time is  *)
(* in minutes from the start of the page, in the viewer's zone; a day is   *)
(* a few slots of a few minutes.                                           *)
(***************************************************************************)
EXTENDS Integers, Sequences, FiniteSets, SequencesExt

CONSTANTS
    SlotMinutes, SlotsPerDay, MinSpan, MaxLanes,    \* as in the code, made small
    AllDayLanes,                                    \* rows for bars
    PageDays,                                       \* days shown
    MaxEntries,                                     \* bound: entries on the page
    Given                                           \* the entries a page may hold, some of Entry

DayMinutes == SlotMinutes * SlotsPerDay
Columns    == 0..PageDays - 1

\* Entries of a day before the page to a day after it.
Entry == {e \in [allDay : BOOLEAN, start : -DayMinutes..(PageDays + 1) * DayMinutes,
                 end : -DayMinutes..(PageDays + 1) * DayMinutes] :
            /\ e.start <= e.end
            /\ e.allDay => e.start % DayMinutes = 0 /\ e.end % DayMinutes = 0 /\ e.start < e.end}

Nights == [from : 0..DayMinutes - 1, to : 0..DayMinutes - 1]

VARIABLES
    entries,    \* the entries of the page, in the order they were read
    nights      \* column, from -1 on -> the window of its weekday; from = to: none

layoutVars == <<entries, nights>>

LayoutTypeOK == entries \in Seq(Entry) /\ nights \in [-1..PageDays - 1 -> Nights]

LeastOf(a, b) == IF a < b THEN a ELSE b
MostOf(a, b)  == IF a > b THEN a ELSE b
DayOf(t)      == t \div DayMinutes
Up(t)         == (t + SlotMinutes - 1) \div SlotMinutes

-----------------------------------------------------------------------------
(* Entries. *)

Long(e) == e.allDay \/ e.end - e.start >= DayMinutes

\* dates: the first and last day, an end at midnight not counted.
Dates(e) == [first |-> DayOf(e.start),
             last |-> MostOf(DayOf(e.start), IF e.end > e.start THEN DayOf(e.end - 1) ELSE DayOf(e.end))]

Overlaps(e, from, to) == e.start < to /\ (e.end > from \/ (e.end = e.start /\ e.start >= from))

-----------------------------------------------------------------------------
(* Blocks. *)

\* The block of e in day d, as dayBlocks makes it.
ToBlock(e, d) ==
    LET start == d * DayMinutes
        from  == MostOf(e.start, start) - start
        to    == MostOf(from, IF e.end < start + DayMinutes THEN e.end - start ELSE DayMinutes)
        row   == LeastOf(from \div SlotMinutes, SlotsPerDay - 1)
        span  == LeastOf(MostOf(Up(to) - row, MinSpan), SlotsPerDay - row)
    IN  [of |-> e, row |-> row + 1, span |-> span, lane |-> 0, lanes |-> 0]

End(b) == b.row + b.span
BlockBefore(a, b) == a.row < b.row \/ (a.row = b.row /\ a.span >= b.span)

\* setLanes
SetLanes(bs, n) ==
    [i \in DOMAIN bs |-> [bs[i] EXCEPT !.lanes = MostOf(1, LeastOf(n, MaxLanes))]]

\* The first lane that is free from row on, or a new one, counted from 0.
LaneFor(ends, row) ==
    IF \E k \in DOMAIN ends : ends[k] <= row
    THEN (CHOOSE k \in DOMAIN ends : ends[k] <= row /\ \A j \in DOMAIN ends : j < k => ends[j] > row) - 1
    ELSE Len(ends)

Taken(ends, lane, to) == IF lane < Len(ends) THEN [ends EXCEPT ![lane + 1] = to] ELSE Append(ends, to)

\* Mutant: the cluster ends with its last block.
LastEnd(acc, b) == End(b)

\* clusterEnd
ClusterEnd(acc, b) == MostOf(acc.to, End(b))

\* One block of layoutBlocks: a block after the end of the cluster starts another.
Lay(acc, b) ==
    LET new  == acc.now # <<>> /\ b.row >= acc.to
        a    == IF new THEN [done |-> acc.done \o SetLanes(acc.now, Len(acc.ends)), now |-> <<>>, ends |-> <<>>, to |-> 0]
                       ELSE acc
        lane == LaneFor(a.ends, b.row)
    IN  [a EXCEPT !.now = Append(@, [b EXCEPT !.lane = LeastOf(lane, MaxLanes - 1)]),
                  !.ends = Taken(@, lane, End(b)), !.to = ClusterEnd(a, b)]

layoutBlocks(bs) ==
    LET acc == FoldLeft(Lay, [done |-> <<>>, now |-> <<>>, ends |-> <<>>, to |-> 0], SortSeq(bs, BlockBefore))
    IN  acc.done \o SetLanes(acc.now, Len(acc.ends))

dayBlocks(d) ==
    LET short(e) == ~Long(e) /\ Overlaps(e, d * DayMinutes, (d + 1) * DayMinutes)
        mine == SelectSeq(entries, short)
    IN  layoutBlocks([i \in DOMAIN mine |-> ToBlock(mine[i], d)])

-----------------------------------------------------------------------------
(* Bars. *)

OnPage(e) == Dates(e).last >= 0 /\ Dates(e).first <= PageDays - 1

toBar(e) ==
    LET s == MostOf(Dates(e).first, 0)
    IN  [of |-> e, row |-> s, span |-> LeastOf(Dates(e).last, PageDays - 1) - s + 1, lane |-> 0]

BarBefore(a, b) ==
    \/ a.row < b.row
    \/ a.row = b.row /\ Long(a.of) /\ ~Long(b.of)
    \/ a.row = b.row /\ Long(a.of) = Long(b.of) /\ a.span > b.span
    \/ a.row = b.row /\ Long(a.of) = Long(b.of) /\ a.span = b.span /\ a.of.start <= b.of.start

\* The lane is taken, shown or not.
LaneTaken(acc, lane, b) == Taken(acc.ends, lane, End(b))

\* One bar of layoutBars: shown in a row, or counted in each column it covers.
LayBar(acc, b) ==
    LET lane == LaneFor(acc.ends, b.row)
        hide == lane >= AllDayLanes
    IN  [bars   |-> IF hide THEN acc.bars ELSE Append(acc.bars, [b EXCEPT !.lane = lane]),
         hidden |-> [c \in Columns |-> acc.hidden[c] + IF hide /\ c \in b.row..End(b) - 1 THEN 1 ELSE 0],
         ends   |-> LaneTaken(acc, lane, b)]

layoutBars(es) ==
    FoldLeft(LayBar, [bars |-> <<>>, hidden |-> [c \in Columns |-> 0], ends |-> <<>>],
             SortSeq([i \in DOMAIN es |-> toBar(es[i])], BarBefore))

\* BuildGrid puts the long entries into bars, BuildMonth all of them.
BuildGrid  == LET long(e) == Long(e) /\ OnPage(e) IN layoutBars(SelectSeq(entries, long))
BuildMonth == layoutBars(SelectSeq(entries, OnPage))

\* BuildYear: how many entries a day has.
BuildYear == [c \in Columns |-> Cardinality({i \in DOMAIN entries : OnPage(entries[i]) /\
                 c \in MostOf(Dates(entries[i]).first, 0)..LeastOf(Dates(entries[i]).last, PageDays - 1)})]

\* moreCells
moreCells(hidden) == {[col |-> c, count |-> hidden[c]] : c \in {c \in Columns : hidden[c] > 0}}

-----------------------------------------------------------------------------
(* Bands of sleep: slots of a column. *)

\* appendBand
Band(from, to) == IF to <= from THEN {} ELSE from \div SlotMinutes + 1..Up(to)

\* sleepBands: the morning of the night before, and the day's own window.
sleepBands(d) ==
    LET last == nights[d - 1]  own == nights[d]
    IN  (IF last.from > last.to THEN Band(0, last.to) ELSE {})
        \cup (IF own.from = own.to THEN {} ELSE Band(own.from, IF own.from < own.to THEN own.to ELSE DayMinutes))

-----------------------------------------------------------------------------
(* A page: its entries are read one by one.  Entries and nights do not meet *)
(* in the code, so either varies while the other stays empty.                *)

NoNights == [c \in -1..PageDays - 1 |-> [from |-> 0, to |-> 0]]

Read(e) ==
    /\ nights = NoNights /\ Len(entries) < MaxEntries
    /\ entries' = Append(entries, e) /\ UNCHANGED nights

SleepSchedule(c, n) ==
    /\ entries = <<>>
    /\ nights' = [nights EXCEPT ![c] = n] /\ UNCHANGED entries

LayoutInit == entries = <<>> /\ nights = NoNights
LayoutNext == \/ \E e \in Given : Read(e)
              \/ \E c \in {-1, 0}, n \in Nights : SleepSchedule(c, n)
LayoutSpec == LayoutInit /\ [][LayoutNext]_layoutVars

-----------------------------------------------------------------------------
(* Properties. *)

Meet(a, b) == a.row < End(b) /\ b.row < End(a)

\* Minute t of column d is slept through: by the window of the day, or of the day before.
Asleep(d, t) ==
    \/ nights[d].from < nights[d].to /\ t \in nights[d].from..nights[d].to - 1
    \/ nights[d].from > nights[d].to /\ t >= nights[d].from
    \/ nights[d - 1].from > nights[d - 1].to /\ t < nights[d - 1].to

\* Nothing is lost on a page and nothing hides anything (view/layout.go): blocks that meet share
\* their number of lanes and lie in different ones, up to MaxLanes; every short entry of a day
\* has one block in it, long enough and inside the day; bars that meet lie in different rows, and
\* what a column shows and what it only counts add up to what it has; and a slot is banded exactly
\* when somebody who keeps the schedule sleeps in it, windows over midnight included.
PageIsWhole ==
    /\ \A d \in Columns :
         LET bs == dayBlocks(d)
         IN  /\ Len(bs) = Cardinality({i \in DOMAIN entries : ~Long(entries[i]) /\ Overlaps(entries[i], d * DayMinutes, (d + 1) * DayMinutes)})
             /\ \A i \in DOMAIN bs : /\ bs[i].lane < bs[i].lanes /\ bs[i].row >= 1 /\ End(bs[i]) <= SlotsPerDay + 1
                                     /\ bs[i].span >= 1
             /\ \A i, j \in DOMAIN bs : i # j /\ Meet(bs[i], bs[j]) =>
                  bs[i].lanes = bs[j].lanes /\ (bs[i].lane # bs[j].lane \/ bs[i].lane = MaxLanes - 1)
    /\ \A page \in {BuildGrid, BuildMonth} :
         \A i, j \in DOMAIN page.bars : i # j /\ Meet(page.bars[i], page.bars[j]) => page.bars[i].lane # page.bars[j].lane
    /\ \A c \in Columns :
         BuildYear[c] = BuildMonth.hidden[c] + Cardinality({i \in DOMAIN BuildMonth.bars : c \in BuildMonth.bars[i].row..End(BuildMonth.bars[i]) - 1})
    /\ \A d \in Columns : sleepBands(d) =
         {s \in 1..SlotsPerDay : \E t \in (s - 1) * SlotMinutes..s * SlotMinutes - 1 : Asleep(d, t)}
=============================================================================
