------------------------- MODULE EventSeriesProofs -------------------------
(***************************************************************************)
(* What is proved of EventSeries for all ids, contents, rules and patches: *)
(* their types, and the shape of the rows that every proof about them      *)
(* starts from.                                                            *)
(***************************************************************************)
EXTENDS EventSeries, TLAPS, FiniteSetTheorems

\* An override names a series that is there and is none itself; an id in use was given out.
SeriesInv ==
    /\ \A i \in Ids : rows[i].status = "absent" => rows[i].series = Nil
    /\ \A i \in Ids : rows[i].series # Nil =>
         /\ rows[i].rid \in Time
         /\ rows[rows[i].series].status # "absent"
         /\ rows[rows[i].series].series = Nil

\* A row in the trash carries the time it got there.
ClockInv ==
    \A i \in Ids :
        /\ rows[i].status = "live" => rows[i].deletedAt = 0
        /\ rows[i].status = "trashed" => rows[i].deletedAt > 0 /\ rows[i].deletedAt < Now

ShapeInv == TypeOK /\ SeriesInv /\ ClockInv

USE SeriesAssumption

-----------------------------------------------------------------------------
(* The operators keep their types. *)

LEMMA Typed ==
    /\ Time \subseteq Int /\ 0 \in Time /\ NoTime \notin Time /\ NoTime \in Int
    /\ IsFiniteSet(Time)
    /\ NoRule \in Rule
  <1>1. IsFiniteSet(0..Horizon)
    BY FS_Interval
  <1> QED
    BY <1>1 DEF Time, NoTime, NoRule, Rule

LEMMA BlankTyped ==
    /\ Blank \in Row
    /\ Blank.status = "absent" /\ Blank.deletedAt = 0 /\ Blank.series = Nil /\ Blank.event \in Event
  <1> DEFINE e == [start |-> 0, val |-> Cancelled, rule |-> NoRule, rdate |-> {}, exdate |-> {}]
  <1>1. e \in Event
    BY Typed DEF Event
  <1> HIDE DEF e
  <1>2. Blank = [status |-> "absent", deletedAt |-> 0, uid |-> <<>>, series |-> Nil, rid |-> NoTime, event |-> e]
    BY DEF Blank, e
  <1> QED
    BY <1>1, <1>2 DEF Row

LEMMA OccursTyped ==
    ASSUME NEW e \in Event
    PROVE  Occurs(e) \subseteq Time
  BY DEF Occurs, RuleTimes, OnRule, Event

\* Counting occurrences of a rule makes sense: the window is finite.
LEMMA CountTyped ==
    ASSUME NEW r, NEW start, NEW S, S \subseteq RuleTimes(r, start)
    PROVE  IsFiniteSet(S) /\ Cardinality(S) \in Nat
  <1>1. S \subseteq Time
    BY DEF RuleTimes, OnRule
  <1> QED
    BY <1>1, Typed, FS_Subset, FS_CardinalityType

LEMMA SplitTyped ==
    ASSUME NEW e \in Event, NEW at \in Time
    PROVE  Split(e, at).head \in Rule /\ Split(e, at).tail \in Rule
  <1> DEFINE n == Cardinality({t \in RuleTimes(e.rule, e.start) : t < at})
  <1>1. n \in Nat
    BY CountTyped
  <1>2. e.rule \in Rule /\ at - 1 \in Int
    BY Typed DEF Event
  <1> HIDE DEF n
  <1>3. [e.rule EXCEPT !.until = at - 1] \in Rule
    BY <1>2 DEF Rule
  <1>4. [e.rule EXCEPT !.count = n] \in Rule
    BY <1>1, <1>2 DEF Rule
  <1>5. e.rule.count > n => [e.rule EXCEPT !.count = e.rule.count - n] \in Rule
    BY <1>1, <1>2 DEF Rule
  <1> QED
    BY <1>2, <1>3, <1>4, <1>5, Typed DEF Split, n

LEMMA AppliedTyped ==
    ASSUME NEW e \in Event, NEW p \in Patches
    PROVE  Applied(e, p) \in Event
  <1>1. p \in Patch
    OBVIOUS
  <1>2. /\ Field(p.start, e.start) \in Time /\ Field(p.val, e.val) \in Contents
        /\ Field(p.rule, e.rule) \in Rule
        /\ Field(p.rdate, e.rdate) \in SUBSET Time /\ Field(p.exdate, e.exdate) \in SUBSET Time
    BY <1>1 DEF Field, Event, Patch
  <1> QED
    BY <1>2 DEF Applied, Event

\* A shifted series differs in its dates only.
LEMMA ShiftTyped ==
    ASSUME NEW before \in Event, NEW after \in Event, NEW p, NEW next,
           next = ShiftSeries(before, after, p),
           next.rdate \subseteq Time, next.exdate \subseteq Time
    PROVE  /\ next \in Event
           /\ next.start = after.start /\ next.val = after.val /\ next.rule = after.rule
  <1>1. \A x, y : x \subseteq Time /\ y \subseteq Time =>
          [[after EXCEPT !.exdate = x] EXCEPT !.rdate = y] \in Event
    BY DEF Event
  <1>2. CASE ~Recurs(before) \/ ~Moved(before, after)
    BY <1>2 DEF ShiftSeries
  <1>3. CASE ~(~Recurs(before) \/ ~Moved(before, after))
    <2> DEFINE d == after.start - before.start
               x == IF p.exdate = Keep THEN MoveBy(after.exdate, d) ELSE after.exdate
               y == IF p.rdate = Keep THEN MoveBy(after.rdate, d) ELSE after.rdate
    <2>1. next = [after EXCEPT !.exdate = x, !.rdate = y]
      BY <1>3 DEF ShiftSeries
    <2> HIDE DEF x, y
    <2>2. next.exdate = x /\ next.rdate = y /\ next = [start |-> after.start, val |-> after.val,
             rule |-> after.rule, rdate |-> y, exdate |-> x]
      BY <2>1 DEF Event
    <2> QED
      BY <2>2 DEF Event
  <1> QED
    BY <1>2, <1>3

LEMMA SyncTyped ==
    ASSUME NEW table \in [Ids -> Row], NEW m, NEW before, NEW after \in Event, NEW at \in Nat
    PROVE  SyncOverrides(table, m, before, after, at) \in [Ids -> Row]
  <1> DEFINE d == IF Moved(before, after) THEN after.start - before.start ELSE 0
             S == SyncOverrides(table, m, before, after, at)
  <1>1. ASSUME NEW i \in Ids PROVE S[i] \in Row
    <2>1. table[i] \in Row
      OBVIOUS
    <2>2. \A x \in Time : [table[i] EXCEPT !.rid = x] \in Row
      BY <2>1 DEF Row
    <2>3. [table[i] EXCEPT !.status = "trashed", !.deletedAt = at] \in Row
      BY <2>1 DEF Row
    <2>4. table[i].rid + d \in Occurs(after) => table[i].rid + d \in Time
      BY OccursTyped
    <2> QED
      BY <2>1, <2>2, <2>3, <2>4 DEF SyncOverrides
  <1> QED
    BY <1>1 DEF SyncOverrides

LEMMA TrashTyped ==
    ASSUME NEW table \in [Ids -> Row], NEW doomed, NEW at \in Nat
    PROVE  Trash(table, doomed, at) \in [Ids -> Row]
  <1>1. ASSUME NEW i \in Ids PROVE Trash(table, doomed, at)[i] \in Row
    <2>1. table[i] \in Row
      OBVIOUS
    <2>2. [table[i] EXCEPT !.status = "trashed", !.deletedAt = at] \in Row
      BY <2>1 DEF Row
    <2> QED
      BY <2>1, <2>2 DEF Trash
  <1> QED
    BY <1>1 DEF Trash

LEMMA LinesTyped ==
    ASSUME NEW table \in [Ids -> Row], NEW m \in Ids,
           \A o \in Ids : table[o].series = m => table[o].rid \in Time
    PROVE  Lines(table, m) \subseteq Time \X Time \X Contents
  <1>1. table[m].event \in Event /\ \A o \in Ids : table[o].event \in Event
    BY DEF Row
  <1>2. Occurs(table[m].event) \subseteq Time
    BY <1>1, OccursTyped
  <1>3. table[m].event.start \in Time /\ table[m].event.val \in Contents
        /\ \A o \in Ids : table[o].event.start \in Time /\ table[o].event.val \in Contents
    BY <1>1 DEF Event
  <1> DEFINE e  == table[m].event
             ov == Overrides(table, m)
             on == IF table[m].status # "live" \/ table[m].series # Nil THEN {}
                   ELSE IF Recurs(e) THEN Occurs(e) \ {table[o].rid : o \in ov} ELSE {e.start}
  <1>4. on \subseteq Time
    BY <1>2, <1>3
  <1>5. \A o \in ov : o \in Ids /\ table[o].series = m
    BY DEF Overrides
  <1>6. Lines(table, m) = {<<t, t, e.val>> : t \in {t \in on : e.val # Cancelled}}
                            \cup {<<table[o].rid, table[o].event.start, table[o].event.val>> :
                                    o \in {o \in ov : table[o].event.val # Cancelled}}
    BY DEF Lines
  <1> HIDE DEF e, ov, on
  <1>7. {<<t, t, e.val>> : t \in {t \in on : e.val # Cancelled}} \subseteq Time \X Time \X Contents
    BY <1>3, <1>4 DEF e
  <1>8. ASSUME NEW o \in ov
        PROVE  <<table[o].rid, table[o].event.start, table[o].event.val>> \in Time \X Time \X Contents
    BY <1>3, <1>5
  <1>9. {<<table[o].rid, table[o].event.start, table[o].event.val>> :
            o \in {o \in ov : table[o].event.val # Cancelled}} \subseteq Time \X Time \X Contents
    BY <1>8
  <1> QED
    BY <1>6, <1>7, <1>9

-----------------------------------------------------------------------------
(* What the operators do to one row. *)

\* How far the overrides of a series move.
Shift(before, after) == IF Moved(before, after) THEN after.start - before.start ELSE 0

\* syncOverrides leaves other rows alone, and of an override all but its instant: it still
\* occurs, or the override goes to the trash.
LEMMA SyncRows ==
    ASSUME NEW table \in [Ids -> Row], NEW m, NEW before, NEW after, NEW at, NEW i \in Ids,
           NEW row, row = SyncOverrides(table, m, before, after, at)[i]
    PROVE  /\ i \notin Overrides(table, m) => row = table[i]
           /\ row.series = table[i].series /\ row.event = table[i].event /\ row.uid = table[i].uid
           /\ i \in Overrides(table, m) =>
                \/ /\ row.status = "live" /\ row.deletedAt = table[i].deletedAt
                   /\ row.rid = table[i].rid + Shift(before, after)
                   /\ Recurs(after) /\ row.rid \in Occurs(after)
                \/ /\ row.status = "trashed" /\ row.deletedAt = at /\ row.rid = table[i].rid
                   /\ ~(Recurs(after) /\ table[i].rid + Shift(before, after) \in Occurs(after))
  <1>0. table[i] \in Row
    OBVIOUS
  <1> DEFINE there == table[i].rid + Shift(before, after)
  <1>1. row = IF i \notin Overrides(table, m) THEN table[i]
              ELSE IF Recurs(after) /\ there \in Occurs(after)
                   THEN [table[i] EXCEPT !.rid = there]
                   ELSE [table[i] EXCEPT !.status = "trashed", !.deletedAt = at]
    BY DEF SyncOverrides, Shift
  <1>2. i \in Overrides(table, m) => table[i].status = "live"
    BY DEF Overrides
  <1> HIDE DEF there
  <1>3. row = table[i] \/ row = [table[i] EXCEPT !.rid = there]
        \/ row = [table[i] EXCEPT !.status = "trashed", !.deletedAt = at]
    BY <1>1
  <1>4. row.series = table[i].series /\ row.event = table[i].event /\ row.uid = table[i].uid
    BY <1>0, <1>3 DEF Row
  <1>5. CASE i \notin Overrides(table, m)
    BY <1>1, <1>4, <1>5
  <1>6. CASE i \in Overrides(table, m) /\ Recurs(after) /\ there \in Occurs(after)
    <2>1. row = [table[i] EXCEPT !.rid = there]
      BY <1>1, <1>6
    <2>2. row.status = table[i].status /\ row.deletedAt = table[i].deletedAt /\ row.rid = there
      BY <1>0, <2>1 DEF Row
    <2> QED
      BY <1>2, <1>4, <1>6, <2>2 DEF there
  <1>7. CASE i \in Overrides(table, m) /\ ~(Recurs(after) /\ there \in Occurs(after))
    <2>1. row = [table[i] EXCEPT !.status = "trashed", !.deletedAt = at]
      BY <1>1, <1>7
    <2>2. row.status = "trashed" /\ row.deletedAt = at /\ row.rid = table[i].rid
      BY <1>0, <2>1 DEF Row
    <2> QED
      BY <1>4, <1>7, <2>2 DEF there
  <1> QED
    BY <1>5, <1>6, <1>7

\* A change to a series leaves every row alone that is no override of it.
LEMMA SyncLeaves ==
    ASSUME NEW table \in [Ids -> Row], NEW m, NEW before, NEW after, NEW at, NEW i \in Ids, i \notin Overrides(table, m)
    PROVE  SyncOverrides(table, m, before, after, at)[i] = table[i]
  BY DEF SyncOverrides

\* A deletion only marks rows.
LEMMA TrashRows ==
    ASSUME NEW table \in [Ids -> Row], NEW doomed, NEW at, NEW i \in Ids,
           NEW row, row = Trash(table, doomed, at)[i]
    PROVE  /\ ~(table[i].status = "live" /\ (i \in doomed \/ table[i].series \in doomed)) => row = table[i]
           /\ table[i].status = "live" /\ (i \in doomed \/ table[i].series \in doomed) =>
                row.status = "trashed" /\ row.deletedAt = at
           /\ row.series = table[i].series /\ row.event = table[i].event
           /\ row.uid = table[i].uid /\ row.rid = table[i].rid
  <1>0. table[i] \in Row
    OBVIOUS
  <1>1. row = IF table[i].status = "live" /\ (i \in doomed \/ table[i].series \in doomed)
              THEN [table[i] EXCEPT !.status = "trashed", !.deletedAt = at] ELSE table[i]
    BY DEF Trash
  <1>2. CASE row = table[i] /\ ~(table[i].status = "live" /\ (i \in doomed \/ table[i].series \in doomed))
    BY <1>2
  <1>3. CASE /\ row = [table[i] EXCEPT !.status = "trashed", !.deletedAt = at]
             /\ table[i].status = "live" /\ (i \in doomed \/ table[i].series \in doomed)
    BY <1>0, <1>3 DEF Row
  <1> QED
    BY <1>1, <1>2, <1>3

\* A restore only unmarks rows.
LEMMA RestoredRows ==
    ASSUME rows \in [Ids -> Row], NEW i, NEW j \in Ids, NEW row, row = Restored(i)[j]
    PROVE  /\ row \in Row
           /\ row.series = rows[j].series /\ row.event = rows[j].event
           /\ row.uid = rows[j].uid /\ row.rid = rows[j].rid
           /\ \/ /\ row.status = "live" /\ row.deletedAt = 0
                 /\ j = i \/ rows[j].series = i
                 /\ rows[j].status = "trashed" /\ rows[j].deletedAt = rows[i].deletedAt
              \/ /\ row = rows[j]
                 /\ ~(/\ j = i \/ rows[j].series = i
                      /\ rows[j].status = "trashed" /\ rows[j].deletedAt = rows[i].deletedAt)
  <1>0. rows[j] \in Row
    OBVIOUS
  <1> DEFINE back == /\ j = i \/ rows[j].series = i
                     /\ rows[j].status = "trashed" /\ rows[j].deletedAt = rows[i].deletedAt
             new  == [rows[j] EXCEPT !.status = "live", !.deletedAt = 0]
  <1>1. row = IF back THEN new ELSE rows[j]
    BY DEF Restored
  <1>2. /\ new \in Row /\ new.status = "live" /\ new.deletedAt = 0
        /\ new.series = rows[j].series /\ new.event = rows[j].event
        /\ new.uid = rows[j].uid /\ new.rid = rows[j].rid
    BY <1>0 DEF Row
  <1> HIDE DEF new
  <1> QED
    BY <1>0, <1>1, <1>2

-----------------------------------------------------------------------------
(* The shape of the rows. *)

\* Every operation moves the clock on by one.
LEMMA ClockOn ==
    ASSUME TypeOK, EditStep \/ DeleteStep \/ TrashStep
    PROVE  /\ ops' \in [edits : 0..MaxEdits, deletes : 0..MaxDeletes, trash : 0..MaxTrashOps]
           /\ Now \in Nat /\ Now > 0 /\ Now' = Now + 1
  <1> DEFINE O == [edits : 0..MaxEdits, deletes : 0..MaxDeletes, trash : 0..MaxTrashOps]
  <1>0. /\ ops \in O
        /\ ops.edits \in 0..MaxEdits /\ ops.deletes \in 0..MaxDeletes /\ ops.trash \in 0..MaxTrashOps
    BY DEF TypeOK
  <1>1. CASE EditStep
    <2>1. ops' = [edits |-> ops.edits + 1, deletes |-> ops.deletes, trash |-> ops.trash]
          /\ ops.edits + 1 \in 0..MaxEdits
      BY <1>0, <1>1 DEF EditStep
    <2> QED
      BY <1>0, <2>1 DEF Now
  <1>2. CASE DeleteStep
    <2>1. ops' = [edits |-> ops.edits, deletes |-> ops.deletes + 1, trash |-> ops.trash]
          /\ ops.deletes + 1 \in 0..MaxDeletes
      BY <1>0, <1>2 DEF DeleteStep
    <2> QED
      BY <1>0, <2>1 DEF Now
  <1>3. CASE TrashStep
    <2>1. ops' = [edits |-> ops.edits, deletes |-> ops.deletes, trash |-> ops.trash + 1]
          /\ ops.trash + 1 \in 0..MaxTrashOps
      BY <1>0, <1>3 DEF TrashStep
    <2> QED
      BY <1>0, <2>1 DEF Now
  <1> QED
    BY <1>1, <1>2, <1>3

\* What an edit concerns, and which of the three edits it is.
LEMMA UpdateCases ==
    ASSUME ShapeInv, NEW i \in Ids, NEW scope \in Scopes, NEW inst \in Time \cup {NoTime}, NEW p \in Patches,
           Update(i, scope, inst, p)
    PROVE  \E m \in Ids :
              /\ Resolves(i, scope, inst, m) /\ Live(m) /\ rows[m].series = Nil
              /\ \/ IsMaster(m) /\ inst \in Time /\ UpdateThis(m, inst, p)
                 \/ IsMaster(m) /\ inst \in Time /\ inst > rows[m].event.start /\ UpdateFollowing(m, inst, p)
                 \/ UpdateAll(m, p)
  <1>1. PICK m \in Ids :
          /\ Resolves(i, scope, inst, m)
          /\ \/ Whole(m, scope, inst) /\ UpdateAll(m, p)
             \/ ~Whole(m, scope, inst) /\ scope = "this" /\ UpdateThis(m, inst, p)
             \/ ~Whole(m, scope, inst) /\ scope = "following" /\ UpdateFollowing(m, inst, p)
    BY DEF Update
  <1>2. Live(m) /\ rows[m].series = Nil
    BY <1>1 DEF Resolves, Live, IsOverride, IsMaster, ShapeInv, SeriesInv
  <1>3. ~Whole(m, scope, inst) =>
          IsMaster(m) /\ inst \in Time /\ (scope = "following" => inst > rows[m].event.start)
    <2>1. rows[m].event \in Event /\ rows[m].event.start \in Int
      BY Typed DEF ShapeInv, TypeOK, Row, Event
    <2>2. inst \in Int
      BY Typed
    <2> QED
      BY <1>1, <2>1, <2>2, OccursTyped DEF Whole, Resolves, IsOverride, ShapeInv, SeriesInv
  <1>4. \/ IsMaster(m) /\ inst \in Time /\ UpdateThis(m, inst, p)
        \/ IsMaster(m) /\ inst \in Time /\ inst > rows[m].event.start /\ UpdateFollowing(m, inst, p)
        \/ UpdateAll(m, p)
    BY <1>1, <1>3
  <1> QED
    BY <1>1, <1>2, <1>4

\* What a deletion concerns, and which of the three deletions it is.
LEMMA DeleteCases ==
    ASSUME ShapeInv, NEW i \in Ids, NEW scope \in Scopes, NEW inst \in Time \cup {NoTime},
           Delete(i, scope, inst)
    PROVE  \E m \in Ids :
              /\ Resolves(i, scope, inst, m) /\ Live(m) /\ rows[m].series = Nil
              /\ \/ DeleteAll(m)
                 \/ IsMaster(m) /\ inst \in Time /\ inst > rows[m].event.start /\ TruncateSeries(m, inst)
                 \/ IsMaster(m) /\ inst \in Time /\ ExcludeInstance(m, inst)
  <1>1. PICK m \in Ids :
          /\ Resolves(i, scope, inst, m)
          /\ \/ Whole(m, scope, inst) /\ DeleteAll(m)
             \/ ~Whole(m, scope, inst) /\ scope = "this" /\ ExcludeInstance(m, inst)
             \/ ~Whole(m, scope, inst) /\ scope = "following" /\ TruncateSeries(m, inst)
    BY DEF Delete
  <1>2. Live(m) /\ rows[m].series = Nil
    BY <1>1 DEF Resolves, Live, IsOverride, IsMaster, ShapeInv, SeriesInv
  <1>3. ~Whole(m, scope, inst) =>
          IsMaster(m) /\ inst \in Time /\ (scope = "following" => inst > rows[m].event.start)
    <2>1. rows[m].event \in Event /\ rows[m].event.start \in Int
      BY Typed DEF ShapeInv, TypeOK, Row, Event
    <2>2. inst \in Int
      BY Typed
    <2> QED
      BY <1>1, <2>1, <2>2, OccursTyped DEF Whole, Resolves, IsOverride, ShapeInv, SeriesInv
  <1>4. \/ DeleteAll(m)
        \/ IsMaster(m) /\ inst \in Time /\ inst > rows[m].event.start /\ TruncateSeries(m, inst)
        \/ IsMaster(m) /\ inst \in Time /\ ExcludeInstance(m, inst)
    BY <1>1, <1>3
  <1> QED
    BY <1>1, <1>2, <1>4

GhostsTyped ==
    /\ did \in [op : {"none", "create", "this", "all", "following", "trash", "truncate",
                       "exclude", "restore", "purge"},
                series : Ids \cup {Nil}, at : Time \cup {NoTime}, patch : Patches \cup {Nil}]
    /\ gone \in [Ids -> SUBSET (Time \X Time \X Contents)]

Bare(e) == e.rule = NoRule /\ e.rdate = {} /\ e.exdate = {}

\* A row keeps its mark, or gets the one of this operation, or is gone.
MarkedNow(i) ==
    \/ rows'[i].status = rows[i].status /\ rows'[i].deletedAt = rows[i].deletedAt
    \/ rows'[i].status = "live" /\ rows'[i].deletedAt = 0
    \/ rows'[i].status = "trashed" /\ rows'[i].deletedAt = Now
    \/ rows'[i].status = "absent"

LEMMA ShapeKept ==
    ASSUME ShapeInv, EditStep \/ DeleteStep \/ TrashStep,
           rows' \in [Ids -> Row],
           GhostsTyped',
           \A i \in Ids : MarkedNow(i),
           \A i \in Ids : rows'[i].status = "absent" => rows'[i].series = Nil,
           \A i \in Ids : rows'[i].series # Nil =>
              /\ rows'[i].rid \in Time /\ Bare(rows'[i].event)
              /\ rows'[rows'[i].series].status # "absent" /\ rows'[rows'[i].series].series = Nil
    PROVE  ShapeInv'
  <1>1. TypeOK'
    BY ClockOn DEF ShapeInv, TypeOK, Bare, GhostsTyped
  <1>2. SeriesInv'
    BY DEF SeriesInv
  <1>3. ClockInv'
    <2>1. Now \in Nat /\ Now > 0 /\ Now' = Now + 1
      BY ClockOn DEF ShapeInv
    <2>2. \A i \in Ids : rows[i].deletedAt \in Nat
      BY DEF ShapeInv, TypeOK, Row
    <2> QED
      BY <2>1, <2>2 DEF ShapeInv, ClockInv, MarkedNow
  <1> QED
    BY <1>1, <1>2, <1>3 DEF ShapeInv

\* An operation that gives no id out or back and ties no override to another series.
LEMMA ShapeSame ==
    ASSUME ShapeInv, EditStep \/ DeleteStep \/ TrashStep,
           rows' \in [Ids -> Row],
           GhostsTyped',
           \A i \in Ids :
              /\ MarkedNow(i)
              /\ rows'[i].series = rows[i].series
              /\ rows'[i].status = "absent" <=> rows[i].status = "absent"
              /\ rows[i].series # Nil => rows'[i].rid \in Time /\ Bare(rows'[i].event)
    PROVE  ShapeInv'
  <1>1. \A i \in Ids : rows[i].series \in Ids \cup {Nil}
    BY DEF ShapeInv, TypeOK, Row
  <1>2. /\ \A i \in Ids : MarkedNow(i)
        /\ \A i \in Ids : rows'[i].status = "absent" => rows'[i].series = Nil
    BY DEF ShapeInv, SeriesInv
  <1>3. \A i \in Ids : rows'[i].series # Nil =>
          /\ rows'[i].rid \in Time /\ Bare(rows'[i].event)
          /\ rows'[rows'[i].series].status # "absent" /\ rows'[rows'[i].series].series = Nil
    BY ZenonT(60), <1>1 DEF ShapeInv, SeriesInv
  <1> QED
    BY <1>2, <1>3, ShapeKept

LEMMA ShapeCreate ==
    ASSUME ShapeInv, NEW i \in Ids, NEW e \in Creations, Create(i, e)
    PROVE  ShapeInv'
  <1> DEFINE new == [Blank EXCEPT !.status = "live", !.uid = <<i>>, !.event = e]
  <1>1. rows' = [rows EXCEPT ![i] = new] /\ rows \in [Ids -> Row]
    BY DEF Create, ShapeInv, TypeOK
  <1>2. e \in Event /\ <<i>> \in Seq(Ids \cup Time)
    OBVIOUS
  <1>3. \A row \in Row :
          LET made == [row EXCEPT !.status = "live", !.uid = <<i>>, !.event = e]
          IN  made \in Row /\ made.status = "live" /\ made.series = row.series /\ made.deletedAt = row.deletedAt
    BY <1>2 DEF Row
  <1>4. new \in Row /\ new.series = Nil /\ new.status = "live" /\ new.deletedAt = 0
    BY <1>3, BlankTyped
  <1> HIDE DEF new
  <1>5. /\ did' = [op |-> "create", series |-> i, at |-> NoTime, patch |-> Nil]
        /\ gone' = gone /\ EditStep
    BY DEF Create, Did
  <1>6. rows[i].status = "absent"
    BY DEF Create, Fresh
  <1>7. \A j \in Ids : /\ rows'[j] = IF j = i THEN new ELSE rows[j]
                       /\ rows[j].series \in Ids \cup {Nil}
    BY <1>1 DEF Row
  <1>8. \A j \in Ids : /\ rows[j].status = "absent" => rows[j].series = Nil
                       /\ rows[j].series # Nil =>
                            /\ rows[j].rid \in Time /\ Bare(rows[j].event)
                            /\ rows[rows[j].series].status # "absent" /\ rows[rows[j].series].series = Nil
    BY DEF ShapeInv, TypeOK, SeriesInv, Bare
  <1>9. /\ \A j \in Ids : MarkedNow(j)
        /\ \A j \in Ids : rows'[j].status = "absent" => rows'[j].series = Nil
    BY <1>4, <1>7, <1>8 DEF MarkedNow
  <1>10. \A j \in Ids : rows'[j].series # Nil =>
          /\ rows'[j].rid \in Time /\ Bare(rows'[j].event)
          /\ rows'[rows'[j].series].status # "absent" /\ rows'[rows'[j].series].series = Nil
    BY ZenonT(60), <1>4, <1>6, <1>7, <1>8
  <1>11. rows' \in [Ids -> Row]
    BY <1>1, <1>4
  <1>12. GhostsTyped'
    BY <1>5 DEF GhostsTyped, ShapeInv, TypeOK
  <1> QED
    BY <1>5, <1>9, <1>10, <1>11, <1>12, ShapeKept

\* The shape, row by row.
LEMMA RowShape ==
    ASSUME ShapeInv, NEW i \in Ids
    PROVE  /\ rows \in [Ids -> Row] /\ rows[i] \in Row /\ rows[i].event \in Event
           /\ rows[i].series \in Ids \cup {Nil} /\ Now \in Nat
           /\ rows[i].status = "absent" => rows[i].series = Nil
           /\ rows[i].series # Nil =>
                /\ rows[i].rid \in Time /\ Bare(rows[i].event)
                /\ rows[rows[i].series].status # "absent" /\ rows[rows[i].series].series = Nil
  <1>1. Now \in Nat
    BY DEF ShapeInv, TypeOK, Now
  <1> QED
    BY <1>1 DEF ShapeInv, TypeOK, Row, SeriesInv, Bare

\* The patch of one occurrence.
PatchedRow(row, p) == [row EXCEPT !.event.start = Field(p.start, @), !.event.val = Field(p.val, @)]

LEMMA PatchedTyped ==
    ASSUME NEW row \in Row, NEW p \in Patches
    PROVE  /\ PatchedRow(row, p) \in Row
           /\ PatchedRow(row, p).event.start = Field(p.start, row.event.start)
           /\ PatchedRow(row, p).event.val = Field(p.val, row.event.val)
           /\ PatchedRow(row, p).event.rule = row.event.rule
           /\ PatchedRow(row, p).event.rdate = row.event.rdate
           /\ PatchedRow(row, p).event.exdate = row.event.exdate
           /\ Bare(row.event) => Bare(PatchedRow(row, p).event)
           /\ PatchedRow(row, p).status = row.status /\ PatchedRow(row, p).deletedAt = row.deletedAt
           /\ PatchedRow(row, p).uid = row.uid
           /\ PatchedRow(row, p).series = row.series /\ PatchedRow(row, p).rid = row.rid
  <1> DEFINE x == Field(p.start, row.event.start)
             y == Field(p.val, row.event.val)
  <1>1. p \in Patch /\ row.event \in Event
    BY DEF Row
  <1>2. x \in Time /\ y \in Contents
    BY <1>1 DEF Field, Event, Patch
  <1>3. PatchedRow(row, p) = [row EXCEPT !.event = [row.event EXCEPT !.start = x, !.val = y]]
    BY <1>1 DEF PatchedRow, Row, Event
  <1> HIDE DEF x, y
  <1> DEFINE e == [row.event EXCEPT !.start = x, !.val = y]
  <1>4. /\ e \in Event /\ e.start = x /\ e.val = y
        /\ e.rule = row.event.rule /\ e.rdate = row.event.rdate /\ e.exdate = row.event.exdate
    BY <1>1, <1>2 DEF Event
  <1> HIDE DEF e
  <1> DEFINE new == [row EXCEPT !.event = e]
  <1>5. /\ new \in Row /\ new.event = e /\ new.status = row.status /\ new.deletedAt = row.deletedAt
        /\ new.uid = row.uid /\ new.series = row.series /\ new.rid = row.rid
    BY <1>4 DEF Row
  <1>6. PatchedRow(row, p) = new
    BY <1>3 DEF e
  <1> HIDE DEF new
  <1> QED
    BY <1>4, <1>5, <1>6 DEF e, x, y, Bare

LEMMA NewOverrideTyped ==
    ASSUME NEW m \in Ids, rows[m] \in Row, NEW inst \in Time
    PROVE  /\ NewOverride(m, inst) \in Row
           /\ NewOverride(m, inst).series = m /\ NewOverride(m, inst).rid = inst
           /\ NewOverride(m, inst).event.start = inst
           /\ NewOverride(m, inst).event.val = rows[m].event.val
           /\ Bare(NewOverride(m, inst).event)
           /\ NewOverride(m, inst).status = rows[m].status
           /\ NewOverride(m, inst).deletedAt = rows[m].deletedAt
  <1> DEFINE e == [rows[m].event EXCEPT !.start = inst, !.rule = NoRule, !.rdate = {}, !.exdate = {}]
  <1>1. rows[m].event \in Event
    BY DEF Row
  <1>2. NewOverride(m, inst) = [rows[m] EXCEPT !.series = m, !.rid = inst, !.event = e]
    BY <1>1 DEF NewOverride, Row, Event
  <1>3. e \in Event /\ e.start = inst /\ e.val = rows[m].event.val /\ Bare(e)
    BY <1>1, Typed DEF Event, Bare
  <1> HIDE DEF e
  <1> DEFINE new == [rows[m] EXCEPT !.series = m, !.rid = inst, !.event = e]
  <1>4. /\ new \in Row /\ new.series = m /\ new.rid = inst /\ new.event = e
        /\ new.status = rows[m].status /\ new.deletedAt = rows[m].deletedAt
    BY <1>3 DEF Row
  <1> HIDE DEF new
  <1>5. NewOverride(m, inst) = new
    BY <1>2 DEF new
  <1> QED
    BY <1>3, <1>4, <1>5

\* updateThis changes one row o: the override that the occurrence had, or a new one.
ChangedOne(m, o, inst, p) ==
    /\ rows' = [rows EXCEPT ![o] = rows'[o]] /\ rows'[o] \in Row
    /\ \/ o \in Overrides(rows, m) /\ rows[o].rid = inst /\ rows'[o] = PatchedRow(rows[o], p)
       \/ /\ Fresh(o) /\ rows'[o] = PatchedRow(NewOverride(m, inst), p)
          /\ \A x \in Overrides(rows, m) : rows[x].rid # inst
    /\ rows'[o].status = "live" /\ rows'[o].series = m /\ rows'[o].rid = inst
    /\ rows'[o].deletedAt = 0 /\ Bare(rows'[o].event)

LEMMA ThisRow ==
    ASSUME ShapeInv, NEW m \in Ids, NEW inst \in Time, NEW p \in Patches, rows[m].series = Nil, Live(m),
           UpdateThis(m, inst, p)
    PROVE  \E o \in Ids : ChangedOne(m, o, inst, p)
  <1>0. rows \in [Ids -> Row] /\ rows[m] \in Row
    BY RowShape
  <1>1. CASE \E o \in {o \in Overrides(rows, m) : rows[o].rid = inst} : rows' = [rows EXCEPT ![o] = PatchedRow(@, p)]
    <2>1. PICK o \in Ids : /\ o \in Overrides(rows, m) /\ rows[o].rid = inst
                           /\ rows' = [rows EXCEPT ![o] = PatchedRow(rows[o], p)]
      BY <1>1 DEF Overrides
    <2>2. /\ rows[o] \in Row /\ rows[o].series = m /\ rows[o].status = "live"
          /\ rows[o].deletedAt = 0 /\ Bare(rows[o].event)
      BY <2>1, RowShape DEF Overrides, ShapeInv, ClockInv
    <2>3. rows'[o] = PatchedRow(rows[o], p)
      BY <1>0, <2>1
    <2>4. rows' = [rows EXCEPT ![o] = rows'[o]]
      BY <2>1, <2>3
    <2>5. /\ rows'[o] \in Row /\ rows'[o].status = "live" /\ rows'[o].series = m /\ rows'[o].rid = inst
          /\ rows'[o].deletedAt = 0 /\ Bare(rows'[o].event)
      BY <2>1, <2>2, <2>3, PatchedTyped
    <2> QED
      BY <2>1, <2>3, <2>4, <2>5 DEF ChangedOne
  <1>2. CASE /\ {o \in Overrides(rows, m) : rows[o].rid = inst} = {}
             /\ \E o \in Ids : Fresh(o) /\ rows' = [rows EXCEPT ![o] = PatchedRow(NewOverride(m, inst), p)]
    <2>1. PICK o \in Ids : Fresh(o) /\ rows' = [rows EXCEPT ![o] = PatchedRow(NewOverride(m, inst), p)]
      BY <1>2
    <2>2. rows[m].status = "live" /\ rows[m].deletedAt = 0
      BY DEF Live, ShapeInv, ClockInv
    <2>3. rows'[o] = PatchedRow(NewOverride(m, inst), p)
      BY <1>0, <2>1
    <2>4. rows' = [rows EXCEPT ![o] = rows'[o]]
      BY <2>1, <2>3
    <2>5. /\ rows'[o] \in Row /\ rows'[o].status = "live" /\ rows'[o].series = m /\ rows'[o].rid = inst
          /\ rows'[o].deletedAt = 0 /\ Bare(rows'[o].event)
      <3> DEFINE new == NewOverride(m, inst)
      <3>1. /\ new \in Row /\ new.status = "live" /\ new.series = m /\ new.rid = inst
            /\ new.deletedAt = 0 /\ Bare(new.event)
        BY <1>0, <2>2, NewOverrideTyped
      <3> HIDE DEF new
      <3>2. rows'[o] = PatchedRow(new, p)
        BY <2>3 DEF new
      <3> QED
        BY <3>1, <3>2, PatchedTyped
    <2>6. \A x \in Overrides(rows, m) : rows[x].rid # inst
      BY <1>2
    <2> QED
      BY <2>1, <2>3, <2>4, <2>5, <2>6 DEF ChangedOne
  <1> QED
    BY <1>1, <1>2 DEF UpdateThis, PatchedRow

LEMMA ShapeThis ==
    ASSUME ShapeInv, EditStep, NEW m \in Ids, NEW inst \in Time, NEW p \in Patches, rows[m].series = Nil, Live(m),
           UpdateThis(m, inst, p)
    PROVE  ShapeInv'
  <1>0. PICK o \in Ids : ChangedOne(m, o, inst, p)
    BY ThisRow
  <1>1. /\ rows' = [rows EXCEPT ![o] = rows'[o]] /\ rows'[o] \in Row
        /\ o \in Overrides(rows, m) \/ Fresh(o)
        /\ rows'[o].status = "live" /\ rows'[o].series = m /\ rows'[o].rid = inst
        /\ rows'[o].deletedAt = 0 /\ Bare(rows'[o].event)
    BY <1>0 DEF ChangedOne
  <1>2. /\ did' = [op |-> "this", series |-> m, at |-> inst, patch |-> p] /\ gone' = gone
    BY DEF UpdateThis, Did
  <1>3. GhostsTyped'
    BY <1>2 DEF GhostsTyped, ShapeInv, TypeOK
  <1>4. rows' \in [Ids -> Row] /\ \A j \in Ids : j # o => rows'[j] = rows[j]
    BY <1>1, RowShape
  <1>5. m # o
    BY <1>1 DEF Overrides, Fresh, Live
  <1>6. /\ \A j \in Ids : MarkedNow(j)
        /\ \A j \in Ids : rows'[j].status = "absent" => rows'[j].series = Nil
    BY <1>1, <1>4, RowShape DEF MarkedNow
  <1>7. ASSUME NEW j \in Ids, rows'[j].series # Nil
        PROVE  /\ rows'[j].rid \in Time /\ Bare(rows'[j].event)
               /\ rows'[rows'[j].series].status # "absent" /\ rows'[rows'[j].series].series = Nil
    <2>1. CASE j = o
      BY <1>1, <1>4, <1>5, <2>1 DEF Live
    <2>2. CASE j # o
      <3>1. rows'[j] = rows[j] /\ rows[j].series \in Ids
        BY <1>4, <1>7, <2>2, RowShape
      <3>2. /\ rows[j].rid \in Time /\ Bare(rows[j].event)
            /\ rows[rows[j].series].status # "absent" /\ rows[rows[j].series].series = Nil
        BY <1>7, <3>1, RowShape
      <3>3. rows[j].series # o
        BY <1>1, <3>2, RowShape DEF Overrides, Fresh
      <3> QED
        BY <1>4, <3>1, <3>2, <3>3
    <2> QED
      BY <2>1, <2>2
  <1> QED
    BY <1>3, <1>4, <1>6, <1>7, ShapeKept

\* The table with another event in one row.
Saved(table, m, e) == [table EXCEPT ![m].event = e]

LEMMA SavedTyped ==
    ASSUME NEW table \in [Ids -> Row], NEW m \in Ids, NEW e \in Event,
           NEW saved, saved = Saved(table, m, e)
    PROVE  /\ saved \in [Ids -> Row]
           /\ \A j \in Ids : j # m => saved[j] = table[j]
           /\ saved[m].event = e
           /\ saved[m].status = table[m].status /\ saved[m].deletedAt = table[m].deletedAt
           /\ saved[m].uid = table[m].uid /\ saved[m].series = table[m].series /\ saved[m].rid = table[m].rid
           /\ \A x : Overrides(saved, x) = Overrides(table, x)
  <1> DEFINE new == [table[m] EXCEPT !.event = e]
  <1>1. saved = [table EXCEPT ![m] = new]
    BY DEF Saved
  <1>2. /\ new \in Row /\ new.event = e /\ new.status = table[m].status /\ new.deletedAt = table[m].deletedAt
        /\ new.uid = table[m].uid /\ new.series = table[m].series /\ new.rid = table[m].rid
    BY DEF Row
  <1> HIDE DEF new
  <1>3. saved[m] = new /\ saved \in [Ids -> Row] /\ \A j \in Ids : j # m => saved[j] = table[j]
    BY <1>1, <1>2
  <1>4. \A o \in Ids : saved[o].status = table[o].status /\ saved[o].series = table[o].series
    BY <1>2, <1>3
  <1>5. \A x : Overrides(saved, x) = Overrides(table, x)
    BY <1>4 DEF Overrides
  <1> QED
    BY <1>2, <1>3, <1>5

\* What the series becomes when all of it is edited.
AfterAll(m, p) == ShiftSeries(rows[m].event, Applied(rows[m].event, p), p)

\* updateAll saves the event, and its overrides follow.
LEMMA AllRows ==
    ASSUME ShapeInv, NEW m \in Ids, NEW p \in Patches, UpdateAll(m, p), rows[m].series = Nil
    PROVE  /\ AfterAll(m, p) \in Event
           /\ AfterAll(m, p).rule = Field(p.rule, rows[m].event.rule)
           /\ rows' \in [Ids -> Row]
           /\ rows'[m].event = AfterAll(m, p) /\ rows'[m].series = Nil
           /\ rows'[m].status = rows[m].status /\ rows'[m].deletedAt = rows[m].deletedAt
           /\ \A j \in Ids \ {m} :
                /\ rows'[j].series = rows[j].series /\ rows'[j].event = rows[j].event
                /\ \/ rows'[j] = rows[j] /\ (Recurs(rows[m].event) => j \notin Overrides(rows, m))
                   \/ /\ Recurs(rows[m].event) /\ j \in Overrides(rows, m)
                      /\ rows'[j].status = "live" /\ rows'[j].deletedAt = rows[j].deletedAt
                      /\ rows'[j].rid = rows[j].rid + Shift(rows[m].event, AfterAll(m, p))
                      /\ Recurs(AfterAll(m, p)) /\ rows'[j].rid \in Occurs(AfterAll(m, p))
                   \/ /\ Recurs(rows[m].event) /\ j \in Overrides(rows, m)
                      /\ rows'[j].status = "trashed" /\ rows'[j].deletedAt = Now /\ rows'[j].rid = rows[j].rid
                      /\ ~(/\ Recurs(AfterAll(m, p))
                           /\ rows[j].rid + Shift(rows[m].event, AfterAll(m, p)) \in Occurs(AfterAll(m, p)))
  <1> DEFINE before == rows[m].event
             after  == AfterAll(m, p)
             saved  == [rows EXCEPT ![m].event = after]
  <1>0. rows \in [Ids -> Row] /\ before \in Event /\ Now \in Nat
    BY RowShape
  <1>1. /\ after.rdate \subseteq Time /\ after.exdate \subseteq Time
        /\ rows' = IF Recurs(before) THEN SyncOverrides(saved, m, before, after, Now) ELSE saved
    BY DEF UpdateAll, InWindow, AfterAll
  <1>2. after \in Event /\ after.rule = Field(p.rule, before.rule)
    <2>1. Applied(before, p) \in Event /\ Applied(before, p).rule = Field(p.rule, before.rule)
      BY <1>0, AppliedTyped DEF Applied
    <2> QED
      BY <1>0, <1>1, <2>1, ShiftTyped DEF AfterAll
  <1> HIDE DEF before, after
  <1>s. saved = Saved(rows, m, after)
    BY DEF Saved
  <1> HIDE DEF saved
  <1>3. /\ saved \in [Ids -> Row] /\ \A j \in Ids : j # m => saved[j] = rows[j]
        /\ saved[m].event = after /\ saved[m].series = Nil /\ Overrides(saved, m) = Overrides(rows, m)
        /\ saved[m].status = rows[m].status /\ saved[m].deletedAt = rows[m].deletedAt
    BY <1>0, <1>2, <1>s, SavedTyped
  <1>4. CASE ~Recurs(before)
    BY <1>1, <1>2, <1>3, <1>4 DEF before, after
  <1>5. CASE Recurs(before)
    <2>1. rows' = SyncOverrides(saved, m, before, after, Now)
      BY <1>1, <1>5
    <2>2. rows' \in [Ids -> Row]
      BY <1>0, <1>2, <1>3, <2>1, SyncTyped
    <2>3. m \notin Overrides(saved, m)
      BY <1>3 DEF Overrides
    <2>4. rows'[m] = saved[m]
      BY <1>3, <2>1, <2>3, SyncRows
    <2>5. ASSUME NEW j \in Ids \ {m}
          PROVE  /\ rows'[j].series = rows[j].series /\ rows'[j].event = rows[j].event
                 /\ \/ rows'[j] = rows[j] /\ j \notin Overrides(rows, m)
                    \/ /\ j \in Overrides(rows, m)
                       /\ rows'[j].status = "live" /\ rows'[j].deletedAt = rows[j].deletedAt
                       /\ rows'[j].rid = rows[j].rid + Shift(before, after)
                       /\ Recurs(after) /\ rows'[j].rid \in Occurs(after)
                    \/ /\ j \in Overrides(rows, m)
                       /\ rows'[j].status = "trashed" /\ rows'[j].deletedAt = Now /\ rows'[j].rid = rows[j].rid
                       /\ ~(Recurs(after) /\ rows[j].rid + Shift(before, after) \in Occurs(after))
      <3>1. saved[j] = rows[j] /\ Overrides(saved, m) = Overrides(rows, m)
        BY <1>3
      <3> QED
        BY <1>3, <2>1, <3>1, SyncRows
    <2> QED
      BY <1>2, <1>3, <1>5, <2>2, <2>4, <2>5 DEF before, after
  <1> QED
    BY <1>4, <1>5

LEMMA ShapeAll ==
    ASSUME ShapeInv, EditStep, NEW m \in Ids, NEW p \in Patches, UpdateAll(m, p), rows[m].series = Nil, Live(m)
    PROVE  ShapeInv'
  <1>1. did' = [op |-> "all", series |-> m, at |-> NoTime, patch |-> p] /\ gone' = gone
    BY DEF UpdateAll, Did
  <1>2. GhostsTyped'
    BY <1>1 DEF GhostsTyped, ShapeInv, TypeOK
  <1>3. ASSUME NEW j \in Ids
        PROVE  /\ MarkedNow(j)
               /\ rows'[j].series = rows[j].series
               /\ rows'[j].status = "absent" <=> rows[j].status = "absent"
               /\ rows[j].series # Nil => rows'[j].rid \in Time /\ Bare(rows'[j].event)
    <2>1. CASE j = m
      BY <2>1, AllRows DEF MarkedNow
    <2>2. CASE j # m
      <3>1. rows'[j].series = rows[j].series /\ rows'[j].event = rows[j].event
        BY <2>2, AllRows
      <3>2. CASE rows'[j] = rows[j]
        BY <3>2, RowShape DEF MarkedNow
      <3>3. CASE j \in Overrides(rows, m) /\ rows'[j].status = "live" /\ rows'[j].deletedAt = rows[j].deletedAt
                 /\ rows'[j].rid \in Occurs(AfterAll(m, p))
        <4>1. rows'[j].rid \in Time
          BY <3>3, AllRows, OccursTyped
        <4> QED
          BY <3>1, <3>3, <4>1, RowShape DEF MarkedNow, Overrides
      <3>4. CASE j \in Overrides(rows, m) /\ rows'[j].status = "trashed" /\ rows'[j].deletedAt = Now /\ rows'[j].rid = rows[j].rid
        BY <3>1, <3>4, RowShape DEF MarkedNow, Overrides
      <3> QED
        BY <2>2, <3>2, <3>3, <3>4, AllRows
    <2> QED
      BY <2>1, <2>2
  <1> QED
    BY <1>2, <1>3, AllRows, ShapeSame

\* The series before `at', and with one more date excluded.
Cut(e, at) == [e EXCEPT !.rule = Split(e, at).head, !.rdate = {t \in @ : t < at}, !.exdate = {t \in @ : t < at}]
Without(e, at) == [e EXCEPT !.exdate = @ \cup {at}]

LEMMA CutTyped ==
    ASSUME NEW e \in Event, NEW at \in Time
    PROVE  /\ Cut(e, at) \in Event
           /\ Cut(e, at).start = e.start /\ Cut(e, at).val = e.val
           /\ Cut(e, at).rule = Split(e, at).head
           /\ Cut(e, at).rdate = {t \in e.rdate : t < at} /\ Cut(e, at).exdate = {t \in e.exdate : t < at}
           /\ Without(e, at) \in Event
           /\ Without(e, at).start = e.start /\ Without(e, at).val = e.val
           /\ Without(e, at).rule = e.rule /\ Without(e, at).rdate = e.rdate
           /\ Without(e, at).exdate = e.exdate \cup {at}
  <1>1. Split(e, at).head \in Rule
    BY SplitTyped
  <1>2. e.rdate \subseteq Time /\ e.exdate \subseteq Time
    BY DEF Event
  <1>3. /\ Cut(e, at) \in Event
        /\ Cut(e, at).start = e.start /\ Cut(e, at).val = e.val
        /\ Cut(e, at).rule = Split(e, at).head
        /\ Cut(e, at).rdate = {t \in e.rdate : t < at} /\ Cut(e, at).exdate = {t \in e.exdate : t < at}
    <2> DEFINE h == Split(e, at).head
               x == {t \in e.rdate : t < at}
               y == {t \in e.exdate : t < at}
    <2>1. h \in Rule /\ x \in SUBSET Time /\ y \in SUBSET Time
      BY <1>1, <1>2
    <2>2. Cut(e, at) = [e EXCEPT !.rule = h, !.rdate = x, !.exdate = y]
      BY DEF Cut, Event
    <2> HIDE DEF h, x, y
    <2> DEFINE c == [e EXCEPT !.rule = h, !.rdate = x, !.exdate = y]
    <2>3. c \in Event /\ c.start = e.start /\ c.val = e.val /\ c.rule = h /\ c.rdate = x /\ c.exdate = y
      BY <2>1 DEF Event
    <2>4. Cut(e, at) = c
      BY <2>2
    <2> HIDE DEF c
    <2> QED
      BY <2>3, <2>4 DEF h, x, y
  <1>4. /\ Without(e, at) \in Event
        /\ Without(e, at).start = e.start /\ Without(e, at).val = e.val
        /\ Without(e, at).rule = e.rule /\ Without(e, at).rdate = e.rdate
        /\ Without(e, at).exdate = e.exdate \cup {at}
    BY <1>2 DEF Without, Event
  <1> QED
    BY <1>3, <1>4

\* A deletion marks rows of the table, in which the event of one series may be new.
LEMMA ShapeTrash ==
    ASSUME ShapeInv, DeleteStep, NEW m \in Ids, rows[m].series = Nil, NEW e \in Event, NEW doomed,
           NEW table, table = Saved(rows, m, e), rows' = Trash(table, doomed, Now), GhostsTyped'
    PROVE  ShapeInv'
  <1>0. rows \in [Ids -> Row] /\ Now \in Nat
    BY RowShape
  <1>1. /\ table \in [Ids -> Row] /\ \A j \in Ids : j # m => table[j] = rows[j]
        /\ table[m].status = rows[m].status /\ table[m].deletedAt = rows[m].deletedAt
        /\ table[m].series = rows[m].series
    BY <1>0, SavedTyped
  <1>2. rows' \in [Ids -> Row]
    BY <1>0, <1>1, TrashTyped
  <1>3. ASSUME NEW j \in Ids
        PROVE  /\ MarkedNow(j)
               /\ rows'[j].series = rows[j].series
               /\ rows'[j].status = "absent" <=> rows[j].status = "absent"
               /\ rows[j].series # Nil => rows'[j].rid \in Time /\ Bare(rows'[j].event)
    <2>1. /\ table[j].status = rows[j].status /\ table[j].deletedAt = rows[j].deletedAt
          /\ table[j].series = rows[j].series
          /\ rows[j].series # Nil => table[j] = rows[j]
      BY <1>1
    <2>2. /\ \/ rows'[j] = table[j]
             \/ table[j].status = "live" /\ rows'[j].status = "trashed" /\ rows'[j].deletedAt = Now
          /\ rows'[j].series = table[j].series /\ rows'[j].event = table[j].event /\ rows'[j].rid = table[j].rid
      <3>1. rows'[j] = Trash(table, doomed, Now)[j]
        OBVIOUS
      <3>2. /\ \/ rows'[j] = table[j]
               \/ table[j].status = "live" /\ rows'[j].status = "trashed" /\ rows'[j].deletedAt = Now
        BY <1>1, <3>1, TrashRows
      <3>3. rows'[j].series = table[j].series /\ rows'[j].event = table[j].event /\ rows'[j].rid = table[j].rid
        BY <1>1, <3>1, TrashRows
      <3> QED
        BY <3>2, <3>3
    <2> QED
      BY <2>1, <2>2, RowShape DEF MarkedNow
  <1> QED
    BY <1>2, <1>3, ShapeSame

LEMMA SavedSame ==
    ASSUME NEW table \in [Ids -> Row], NEW m \in Ids
    PROVE  Saved(table, m, table[m].event) = table
  BY DEF Saved, Row

\* The three deletions, as a mark on the table.
LEMMA DeleteRows ==
    ASSUME ShapeInv, NEW m \in Ids, rows[m].series = Nil, NEW at \in Time
    PROVE  /\ DeleteAll(m) => rows' = Trash(Saved(rows, m, rows[m].event), {m}, Now)
           /\ TruncateSeries(m, at) =>
                rows' = Trash(Saved(rows, m, Cut(rows[m].event, at)), {o \in Overrides(rows, m) : rows[o].rid >= at}, Now)
           /\ ExcludeInstance(m, at) =>
                rows' = Trash(Saved(rows, m, Without(rows[m].event, at)), {o \in Overrides(rows, m) : rows[o].rid = at}, Now)
  <1>1. DeleteAll(m) => rows' = Trash(Saved(rows, m, rows[m].event), {m}, Now)
    BY RowShape, SavedSame DEF DeleteAll
  <1>2. TruncateSeries(m, at) =>
          rows' = Trash(Saved(rows, m, Cut(rows[m].event, at)), {o \in Overrides(rows, m) : rows[o].rid >= at}, Now)
    BY DEF TruncateSeries, Saved, Cut
  <1>3. ExcludeInstance(m, at) =>
          rows' = Trash(Saved(rows, m, Without(rows[m].event, at)), {o \in Overrides(rows, m) : rows[o].rid = at}, Now)
    <2>1. [rows EXCEPT ![m].event.exdate = @ \cup {at}] = Saved(rows, m, Without(rows[m].event, at))
      BY RowShape DEF Saved, Without, Row, Event
    <2> QED
      BY <2>1 DEF ExcludeInstance
  <1> QED
    BY <1>1, <1>2, <1>3

LEMMA ShapeDelete ==
    ASSUME ShapeInv, DeleteStep, NEW m \in Ids, rows[m].series = Nil, NEW at \in Time,
           DeleteAll(m) \/ TruncateSeries(m, at) \/ ExcludeInstance(m, at)
    PROVE  ShapeInv'
  <1>0. rows \in [Ids -> Row] /\ rows[m].event \in Event
    BY RowShape
  <1>1. CASE DeleteAll(m)
    <2>1. did' = [op |-> "trash", series |-> m, at |-> NoTime, patch |-> Nil]
          /\ gone' = [gone EXCEPT ![m] = Lines(rows, m)]
      BY <1>1 DEF DeleteAll, Did
    <2>2. Lines(rows, m) \subseteq Time \X Time \X Contents
      <3>1. \A o \in Ids : rows[o].series = m => rows[o].rid \in Time
        BY RowShape
      <3> QED
        BY <1>0, <3>1, LinesTyped
    <2>3. GhostsTyped'
      BY <2>1, <2>2 DEF GhostsTyped, ShapeInv, TypeOK
    <2>4. rows' = Trash(Saved(rows, m, rows[m].event), {m}, Now)
      BY <1>1, DeleteRows
    <2> QED
      BY <1>0, <2>3, <2>4, ShapeTrash
  <1>2. CASE TruncateSeries(m, at)
    <2>1. did' = [op |-> "truncate", series |-> m, at |-> at, patch |-> Nil] /\ gone' = gone
      BY <1>2 DEF TruncateSeries, Did
    <2>2. GhostsTyped'
      BY <2>1 DEF GhostsTyped, ShapeInv, TypeOK
    <2> DEFINE doomed == {o \in Overrides(rows, m) : rows[o].rid >= at}
    <2>3. rows' = Trash(Saved(rows, m, Cut(rows[m].event, at)), doomed, Now)
      BY <1>2, DeleteRows
    <2>4. Cut(rows[m].event, at) \in Event
      BY <1>0, CutTyped
    <2> HIDE DEF doomed
    <2> QED
      BY <2>2, <2>3, <2>4, ShapeTrash
  <1>3. CASE ExcludeInstance(m, at)
    <2>1. did' = [op |-> "exclude", series |-> m, at |-> at, patch |-> Nil] /\ gone' = gone
      BY <1>3 DEF ExcludeInstance, Did
    <2>2. GhostsTyped'
      BY <2>1 DEF GhostsTyped, ShapeInv, TypeOK
    <2> DEFINE doomed == {o \in Overrides(rows, m) : rows[o].rid = at}
    <2>3. rows' = Trash(Saved(rows, m, Without(rows[m].event, at)), doomed, Now)
      BY <1>3, DeleteRows
    <2>4. Without(rows[m].event, at) \in Event
      BY <1>0, CutTyped
    <2> HIDE DEF doomed
    <2> QED
      BY <2>2, <2>3, <2>4, ShapeTrash
  <1> QED
    BY <1>1, <1>2, <1>3

\* The series from `at' on, before and after the patch.
Rest(e, at) == [e EXCEPT !.start = at, !.rule = Split(e, at).tail,
                         !.rdate = {t \in @ : t >= at}, !.exdate = {t \in @ : t >= at}]
AfterRest(e, at, p) == ShiftSeries(Rest(e, at), Applied(Rest(e, at), p), p)

LEMMA RestTyped ==
    ASSUME NEW e \in Event, NEW at \in Time
    PROVE  /\ Rest(e, at) \in Event
           /\ Rest(e, at).start = at /\ Rest(e, at).val = e.val
           /\ Rest(e, at).rule = Split(e, at).tail
           /\ Rest(e, at).rdate = {t \in e.rdate : t >= at} /\ Rest(e, at).exdate = {t \in e.exdate : t >= at}
  <1>1. Split(e, at).tail \in Rule
    BY SplitTyped
  <1>2. e.rdate \subseteq Time /\ e.exdate \subseteq Time
    BY DEF Event
  <1> DEFINE h == Split(e, at).tail
             x == {t \in e.rdate : t >= at}
             y == {t \in e.exdate : t >= at}
  <1>3. h \in Rule /\ x \in SUBSET Time /\ y \in SUBSET Time
    BY <1>1, <1>2
  <1>4. Rest(e, at) = [e EXCEPT !.start = at, !.rule = h, !.rdate = x, !.exdate = y]
    BY DEF Rest, Event
  <1> HIDE DEF h, x, y
  <1> DEFINE c == [e EXCEPT !.start = at, !.rule = h, !.rdate = x, !.exdate = y]
  <1>5. c \in Event /\ c.start = at /\ c.val = e.val /\ c.rule = h /\ c.rdate = x /\ c.exdate = y
    BY <1>3 DEF Event
  <1>6. Rest(e, at) = c
    BY <1>4
  <1> HIDE DEF c
  <1> QED
    BY <1>5, <1>6 DEF h, x, y

\* The table when the series is split and the new one is in row n; and when its overrides
\* from `at' on have followed.
SplitTable(m, n, at, p) ==
    [rows EXCEPT ![m].event = Cut(rows[m].event, at),
                 ![n] = [rows[m] EXCEPT !.uid = Append(@, at), !.event = AfterRest(rows[m].event, at, p)]]
MovedTable(table, m, n, at) ==
    [i \in Ids |-> IF i \in Overrides(table, m) /\ table[i].rid >= at
                   THEN [table[i] EXCEPT !.series = n, !.uid = table[n].uid] ELSE table[i]]

LEMMA FollowingTable ==
    ASSUME NEW m \in Ids, NEW at, NEW p, UpdateFollowing(m, at, p)
    PROVE  /\ AfterRest(rows[m].event, at, p).rdate \subseteq Time
           /\ AfterRest(rows[m].event, at, p).exdate \subseteq Time
           /\ rows[m].event.rule # NoRule
           /\ \E n \in Ids :
                /\ Fresh(n)
                /\ rows' = SyncOverrides(MovedTable(SplitTable(m, n, at, p), m, n, at), n,
                                         Rest(rows[m].event, at), AfterRest(rows[m].event, at, p), Now)
  BY DEF UpdateFollowing, AfterRest, Rest, Cut, SplitTable, MovedTable, InWindow

LEMMA SplitTyped2 ==
    ASSUME ShapeInv, NEW m \in Ids, NEW n \in Ids, NEW at \in Time, NEW p, rows[m].series = Nil, Live(m), Fresh(n),
           AfterRest(rows[m].event, at, p) \in Event,
           NEW table, table = SplitTable(m, n, at, p)
    PROVE  /\ table \in [Ids -> Row] /\ n # m
           /\ \A j \in Ids \ {m, n} : table[j] = rows[j]
           /\ table[m].event = Cut(rows[m].event, at) /\ table[m].series = Nil
           /\ table[m].status = "live" /\ table[m].deletedAt = rows[m].deletedAt
           /\ table[n].event = AfterRest(rows[m].event, at, p) /\ table[n].series = Nil
           /\ table[n].status = "live" /\ table[n].deletedAt = rows[m].deletedAt
           /\ table[n].uid \in Seq(Ids \cup Time)
           /\ Overrides(table, m) = Overrides(rows, m)
  <1> DEFINE head == Cut(rows[m].event, at)
             next == AfterRest(rows[m].event, at, p)
             old  == [rows[m] EXCEPT !.event = head]
             uid  == Append(rows[m].uid, at)
             new  == [rows[m] EXCEPT !.uid = uid, !.event = next]
  <1>1. /\ rows \in [Ids -> Row] /\ rows[m] \in Row /\ head \in Event /\ next \in Event
        /\ rows[m].series = Nil /\ rows[m].status = "live" /\ n # m
    BY RowShape, CutTyped DEF Live, Fresh
  <1>2. uid \in Seq(Ids \cup Time)
    BY <1>1 DEF Row
  <1>3. table = [rows EXCEPT ![m] = old, ![n] = new]
    BY <1>1 DEF SplitTable
  <1> HIDE DEF head, next, uid
  <1>4. /\ old \in Row /\ old.event = head /\ old.series = Nil /\ old.status = "live" /\ old.deletedAt = rows[m].deletedAt
    BY <1>1 DEF Row
  <1>5. /\ new \in Row /\ new.event = next /\ new.series = Nil /\ new.status = "live" /\ new.deletedAt = rows[m].deletedAt
        /\ new.uid = uid
    BY <1>1, <1>2 DEF Row
  <1> HIDE DEF old, new
  <1>6. table \in [Ids -> Row] /\ table[m] = old /\ table[n] = new /\ \A j \in Ids \ {m, n} : table[j] = rows[j]
    BY <1>1, <1>3, <1>4, <1>5
  <1>7. Overrides(table, m) = Overrides(rows, m)
    <2>1. m \in Ids /\ Nil # m
      OBVIOUS
    <2>2. rows[n].status = "absent"
      BY DEF Fresh
    <2>3. \A j \in Ids : table[j].status = "live" /\ table[j].series = m <=> rows[j].status = "live" /\ rows[j].series = m
      BY <1>1, <1>4, <1>5, <1>6, <2>1, <2>2
    <2> QED
      BY <2>3 DEF Overrides
  <1>8. table[n].uid \in Seq(Ids \cup Time)
    BY <1>2, <1>5, <1>6
  <1> QED
    BY <1>1, <1>4, <1>5, <1>6, <1>7, <1>8 DEF head, next

\* updateFollowing ends the series, makes a new one in row n, and gives it the overrides
\* from there on.
Followed(m, n, at, p) ==
    /\ n # m /\ Fresh(n) /\ rows' \in [Ids -> Row]
    /\ AfterRest(rows[m].event, at, p) \in Event
    /\ rows'[m].event = Cut(rows[m].event, at) /\ rows'[m].series = Nil
    /\ rows'[m].status = "live" /\ rows'[m].deletedAt = rows[m].deletedAt
    /\ rows'[n].event = AfterRest(rows[m].event, at, p) /\ rows'[n].series = Nil
    /\ rows'[n].status = "live" /\ rows'[n].deletedAt = rows[m].deletedAt
    /\ \A j \in Ids \ {m, n} :
         \/ /\ rows'[j] = rows[j]
            /\ ~(j \in Overrides(rows, m) /\ rows[j].rid >= at)
         \/ /\ j \in Overrides(rows, m) /\ rows[j].rid >= at
            /\ rows'[j].series = n /\ rows'[j].event = rows[j].event
            /\ \/ /\ rows'[j].status = "live" /\ rows'[j].deletedAt = rows[j].deletedAt
                  /\ rows'[j].rid = rows[j].rid
                       + Shift(Rest(rows[m].event, at), AfterRest(rows[m].event, at, p))
                  /\ Recurs(AfterRest(rows[m].event, at, p))
                  /\ rows'[j].rid \in Occurs(AfterRest(rows[m].event, at, p))
               \/ /\ rows'[j].status = "trashed" /\ rows'[j].deletedAt = Now /\ rows'[j].rid = rows[j].rid
                  /\ ~(/\ Recurs(AfterRest(rows[m].event, at, p))
                       /\ rows[j].rid + Shift(Rest(rows[m].event, at), AfterRest(rows[m].event, at, p))
                            \in Occurs(AfterRest(rows[m].event, at, p)))

LEMMA FollowingRows ==
    ASSUME ShapeInv, NEW m \in Ids, NEW at \in Time, NEW p \in Patches, rows[m].series = Nil, Live(m),
           UpdateFollowing(m, at, p)
    PROVE  \E n \in Ids : Followed(m, n, at, p)
  <1> DEFINE e    == rows[m].event
             base == Rest(e, at)
             next == AfterRest(e, at, p)
  <1>0. rows \in [Ids -> Row] /\ e \in Event /\ Now \in Nat /\ base \in Event
    BY RowShape, RestTyped
  <1>1. next \in Event
    <2>1. Applied(base, p) \in Event
      BY <1>0, AppliedTyped
    <2>2. next = ShiftSeries(base, Applied(base, p), p) /\ next.rdate \subseteq Time /\ next.exdate \subseteq Time
      BY FollowingTable DEF AfterRest
    <2> HIDE DEF base, next
    <2> QED
      BY <1>0, <2>1, <2>2, ShiftTyped
  <1>2. PICK n \in Ids :
           /\ Fresh(n)
           /\ rows' = SyncOverrides(MovedTable(SplitTable(m, n, at, p), m, n, at), n, base, next, Now)
    BY FollowingTable
  <1> DEFINE table == SplitTable(m, n, at, p)
             moved == MovedTable(table, m, n, at)
  <1>3. /\ table \in [Ids -> Row] /\ n # m
        /\ \A j \in Ids \ {m, n} : table[j] = rows[j]
        /\ table[m].event = Cut(e, at) /\ table[m].series = Nil
        /\ table[m].status = "live" /\ table[m].deletedAt = rows[m].deletedAt
        /\ table[n].event = next /\ table[n].series = Nil
        /\ table[n].status = "live" /\ table[n].deletedAt = rows[m].deletedAt
        /\ table[n].uid \in Seq(Ids \cup Time)
        /\ Overrides(table, m) = Overrides(rows, m)
    <2>1. table = SplitTable(m, n, at, p)
      OBVIOUS
    <2> HIDE DEF table
    <2> QED
      BY <1>1, <1>2, <2>1, SplitTyped2
  <1> HIDE DEF e, base, next, table
  <1>4. m \notin Overrides(rows, m) /\ n \notin Overrides(rows, m)
    BY <1>2 DEF Overrides, Fresh, Live
  <1>5. ASSUME NEW j \in Ids
        PROVE  /\ moved[j] \in Row
               /\ moved[j].event = table[j].event /\ moved[j].status = table[j].status
               /\ moved[j].deletedAt = table[j].deletedAt /\ moved[j].rid = table[j].rid
               /\ \/ j \in Overrides(rows, m) /\ table[j].rid >= at /\ moved[j].series = n
                  \/ ~(j \in Overrides(rows, m) /\ table[j].rid >= at) /\ moved[j] = table[j]
    <2>1. table[j] \in Row
      BY <1>3
    <2> DEFINE u == table[n].uid
               new == [table[j] EXCEPT !.series = n, !.uid = u]
    <2>2. moved[j] = IF j \in Overrides(rows, m) /\ table[j].rid >= at THEN new ELSE table[j]
      BY <1>3 DEF MovedTable
    <2>3. u \in Seq(Ids \cup Time)
      BY <1>3
    <2> HIDE DEF u, moved
    <2>4. /\ new \in Row /\ new.event = table[j].event /\ new.status = table[j].status
          /\ new.deletedAt = table[j].deletedAt /\ new.rid = table[j].rid /\ new.series = n
      BY <2>1, <2>3 DEF Row
    <2> HIDE DEF new
    <2> QED
      BY <2>1, <2>2, <2>4
  <1>6. moved \in [Ids -> Row]
    BY <1>5 DEF MovedTable
  <1> HIDE DEF moved
  <1>7. rows' = SyncOverrides(moved, n, base, next, Now)
    BY <1>2 DEF moved, table
  <1>8. rows' \in [Ids -> Row]
    BY <1>0, <1>1, <1>6, <1>7, SyncTyped
  <1>9. /\ n \notin Overrides(moved, n) /\ m \notin Overrides(moved, n)
        /\ \A j \in Ids \ {m, n} :
             j \in Overrides(moved, n) <=> j \in Overrides(rows, m) /\ rows[j].rid >= at
    <2>1. \A j \in Ids : rows[j].series # n
      BY <1>2, RowShape DEF Fresh
    <2>2. n # Nil
      OBVIOUS
    <2> QED
      BY <1>3, <1>4, <1>5, <2>1, <2>2 DEF Overrides
  <1>10. rows'[m] = table[m] /\ rows'[n] = table[n]
    <2>1. rows'[m] = moved[m] /\ rows'[n] = moved[n]
      BY <1>6, <1>7, <1>9, SyncRows
    <2> QED
      BY <1>4, <1>5, <2>1
  <1>11. ASSUME NEW j \in Ids \ {m, n}
         PROVE  \/ /\ rows'[j] = rows[j]
                   /\ ~(j \in Overrides(rows, m) /\ rows[j].rid >= at)
                \/ /\ j \in Overrides(rows, m) /\ rows[j].rid >= at
                   /\ rows'[j].series = n /\ rows'[j].event = rows[j].event
                   /\ \/ /\ rows'[j].status = "live" /\ rows'[j].deletedAt = rows[j].deletedAt
                         /\ rows'[j].rid = rows[j].rid + Shift(base, next)
                         /\ Recurs(next) /\ rows'[j].rid \in Occurs(next)
                      \/ /\ rows'[j].status = "trashed" /\ rows'[j].deletedAt = Now /\ rows'[j].rid = rows[j].rid
                         /\ ~(Recurs(next) /\ rows[j].rid + Shift(base, next) \in Occurs(next))
    <2>1. table[j] = rows[j]
      BY <1>3
    <2>2. CASE j \notin Overrides(moved, n)
      <3>0. SyncOverrides(moved, n, base, next, Now)[j] = moved[j]
        BY <1>6, <2>2, SyncLeaves
      <3>1. rows'[j] = moved[j]
        BY <1>7, <3>0
      <3>2. ~(j \in Overrides(rows, m) /\ rows[j].rid >= at)
        BY <1>9, <2>2
      <3>3. moved[j] = table[j]
        <4>1. \/ j \in Overrides(rows, m) /\ table[j].rid >= at /\ moved[j].series = n
              \/ ~(j \in Overrides(rows, m) /\ table[j].rid >= at) /\ moved[j] = table[j]
          BY <1>5
        <4> QED
          BY <2>1, <3>2, <4>1
      <3>4. rows'[j] = rows[j]
        BY <2>1, <3>1, <3>3
      <3> QED
        BY <3>2, <3>4
    <2>3. CASE j \in Overrides(moved, n)
      <3>1. /\ rows'[j].series = moved[j].series /\ rows'[j].event = moved[j].event
            /\ \/ /\ rows'[j].status = "live" /\ rows'[j].deletedAt = moved[j].deletedAt
                  /\ rows'[j].rid = moved[j].rid + Shift(base, next)
                  /\ Recurs(next) /\ rows'[j].rid \in Occurs(next)
               \/ /\ rows'[j].status = "trashed" /\ rows'[j].deletedAt = Now /\ rows'[j].rid = moved[j].rid
                  /\ ~(Recurs(next) /\ moved[j].rid + Shift(base, next) \in Occurs(next))
        BY <1>6, <1>7, <2>3, SyncRows
      <3> QED
        BY <1>5, <1>9, <2>1, <2>3, <3>1
    <2> QED
      BY <2>2, <2>3
  <1> QED
    <2> WITNESS n \in Ids
    <2> QED
      BY <1>1, <1>2, <1>3, <1>8, <1>10, <1>11 DEF e, base, next, Followed

LEMMA ShapeFollowing ==
    ASSUME ShapeInv, EditStep, NEW m \in Ids, NEW at \in Time, NEW p \in Patches, rows[m].series = Nil, Live(m),
           UpdateFollowing(m, at, p)
    PROVE  ShapeInv'
  <1>0. PICK n \in Ids : Followed(m, n, at, p)
    BY FollowingRows
  <1>1. /\ n # m /\ Fresh(n) /\ rows' \in [Ids -> Row]
        /\ AfterRest(rows[m].event, at, p) \in Event
        /\ rows'[m].series = Nil
        /\ rows'[m].status = "live" /\ rows'[m].deletedAt = rows[m].deletedAt
        /\ rows'[n].series = Nil
        /\ rows'[n].status = "live" /\ rows'[n].deletedAt = rows[m].deletedAt
        /\ \A j \in Ids \ {m, n} :
             \/ rows'[j] = rows[j]
             \/ /\ j \in Overrides(rows, m)
                /\ rows'[j].series = n /\ rows'[j].event = rows[j].event
                /\ \/ /\ rows'[j].status = "live" /\ rows'[j].deletedAt = rows[j].deletedAt
                      /\ rows'[j].rid \in Occurs(AfterRest(rows[m].event, at, p))
                   \/ rows'[j].status = "trashed" /\ rows'[j].deletedAt = Now /\ rows'[j].rid = rows[j].rid
    BY Zenon, <1>0 DEF Followed
  <1>2. did' = [op |-> "following", series |-> m, at |-> at, patch |-> p] /\ gone' = gone
    BY DEF UpdateFollowing, Did
  <1>3. GhostsTyped'
    BY <1>2 DEF GhostsTyped, ShapeInv, TypeOK
  <1>4. rows[m].status = "live" /\ rows[m].deletedAt = 0 /\ rows[n].status = "absent"
    BY <1>1 DEF Live, Fresh, ShapeInv, ClockInv
  <1>5. ASSUME NEW j \in Ids
        PROVE  /\ MarkedNow(j)
               /\ rows'[j].status = "absent" => rows'[j].series = Nil
               /\ rows[j].status # "absent" => rows'[j].status # "absent"
               /\ rows[j].series = Nil => rows'[j].series = Nil
               /\ rows'[j].series # Nil =>
                    /\ rows'[j].series \in {rows[j].series, n}
                    /\ rows[j].series # Nil /\ rows'[j].rid \in Time /\ Bare(rows'[j].event)
    <2>1. CASE j \in {m, n}
      BY <1>1, <1>4, <2>1 DEF MarkedNow
    <2>2. CASE j \notin {m, n} /\ rows'[j] = rows[j]
      BY <2>2, RowShape DEF MarkedNow
    <2>3. CASE /\ j \in Overrides(rows, m)
               /\ rows'[j].series = n /\ rows'[j].event = rows[j].event
               /\ \/ /\ rows'[j].status = "live" /\ rows'[j].deletedAt = rows[j].deletedAt
                     /\ rows'[j].rid \in Occurs(AfterRest(rows[m].event, at, p))
                  \/ rows'[j].status = "trashed" /\ rows'[j].deletedAt = Now /\ rows'[j].rid = rows[j].rid
      <3>1. rows[j].status = "live" /\ rows[j].series = m /\ rows[j].series # Nil
        BY <2>3 DEF Overrides
      <3>2. rows'[j].rid \in Time /\ Bare(rows'[j].event)
        BY <1>1, <2>3, <3>1, RowShape, OccursTyped
      <3> QED
        BY <2>3, <3>1, <3>2 DEF MarkedNow
    <2> QED
      BY <1>1, <2>1, <2>2, <2>3
  <1>6. ASSUME NEW j \in Ids, rows'[j].series # Nil
        PROVE  rows'[rows'[j].series].status # "absent" /\ rows'[rows'[j].series].series = Nil
    <2>1. CASE rows'[j].series = n
      BY <1>1, <2>1
    <2>2. CASE rows'[j].series = rows[j].series
      <3>1. rows[j].series \in Ids /\ rows[rows[j].series].status # "absent" /\ rows[rows[j].series].series = Nil
        BY <1>6, <2>2, RowShape
      <3> QED
        BY <1>5, <2>2, <3>1
    <2> QED
      BY <1>5, <1>6, <2>1, <2>2
  <1> QED
    BY <1>1, <1>3, <1>5, <1>6, ShapeKept

LEMMA ShapeRestore ==
    ASSUME ShapeInv, NEW i \in Ids, Restore(i)
    PROVE  ShapeInv'
  <1>1. rows \in [Ids -> Row] /\ rows' = Restored(i) /\ TrashStep
    BY RowShape DEF Restore
  <1>2. did' = [op |-> "restore", series |-> i, at |-> NoTime, patch |-> Nil] /\ gone' = gone
    BY DEF Restore, Did
  <1>3. GhostsTyped'
    BY <1>2 DEF GhostsTyped, ShapeInv, TypeOK
  <1>4. ASSUME NEW j \in Ids
        PROVE  /\ rows'[j] \in Row
               /\ rows'[j].series = rows[j].series /\ rows'[j].event = rows[j].event /\ rows'[j].rid = rows[j].rid
               /\ \/ rows'[j] = rows[j]
                  \/ rows'[j].status = "live" /\ rows'[j].deletedAt = 0 /\ rows[j].status = "trashed"
    BY SMTT(30), <1>1, RestoredRows
  <1>5. rows' \in [Ids -> Row]
    BY <1>1, <1>4 DEF Restored
  <1>6. \A j \in Ids :
          /\ MarkedNow(j)
          /\ rows'[j].series = rows[j].series
          /\ rows'[j].status = "absent" <=> rows[j].status = "absent"
          /\ rows[j].series # Nil => rows'[j].rid \in Time /\ Bare(rows'[j].event)
    BY <1>4, RowShape DEF MarkedNow
  <1> QED
    BY <1>1, <1>3, <1>5, <1>6, ShapeSame

\* A purge blanks rows of the trash and what belongs to them.
LEMMA PurgeRows ==
    ASSUME ShapeInv, NEW i \in Ids, PurgeItem(i)
    PROVE  /\ rows' \in [Ids -> Row]
           /\ \A j \in Ids : rows'[j] = rows[j] \/ rows'[j] = Blank
           /\ \A j \in Ids : rows'[j] = Blank =>
                \/ rows[j].status = "trashed" /\ (j = i \/ rows[j].series = i)
                \/ rows[j].series \in Ids /\ rows'[rows[j].series] = Blank
                \/ rows[j] = Blank
           /\ \A j \in Ids : rows[j].series \in Ids /\ rows'[rows[j].series] # rows[rows[j].series] => rows'[j] = Blank
  <1> DEFINE picked == {j \in Ids : rows[j].status = "trashed" /\ (j = i \/ rows[j].series = i)}
  <1>1. rows' = [j \in Ids |-> IF j \in picked \/ rows[j].series \in picked THEN Blank ELSE rows[j]]
    BY DEF PurgeItem
  <1>2. \A j \in Ids : j \in picked => rows[j].status = "trashed" /\ (j = i \/ rows[j].series = i)
    OBVIOUS
  <1>3. \A j \in Ids : rows[j].series \in picked => rows[j].series \in Ids
    OBVIOUS
  <1>4. \A j \in Ids : rows[j].series \in Ids => j \in Ids /\ (rows[rows[j].series].series \in picked => FALSE)
    BY RowShape
  <1> HIDE DEF picked
  <1>5. rows' \in [Ids -> Row]
    BY <1>1, RowShape, BlankTyped
  <1>6. \A j \in Ids : rows'[j] = IF j \in picked \/ rows[j].series \in picked THEN Blank ELSE rows[j]
    BY <1>1
  <1>7. ASSUME NEW j \in Ids, rows[j].series \in Ids, rows'[rows[j].series] # rows[rows[j].series]
        PROVE  rows'[j] = Blank
    BY <1>4, <1>6, <1>7
  <1>8. ASSUME NEW j \in Ids, rows'[j] = Blank
        PROVE  \/ rows[j].status = "trashed" /\ (j = i \/ rows[j].series = i)
               \/ rows[j].series \in Ids /\ rows'[rows[j].series] = Blank
               \/ rows[j] = Blank
    BY <1>2, <1>3, <1>6, <1>8
  <1> QED
    BY <1>5, <1>6, <1>7, <1>8

LEMMA ShapePurge ==
    ASSUME ShapeInv, NEW i \in Ids, PurgeItem(i)
    PROVE  ShapeInv'
  <1>1. did' = [op |-> "purge", series |-> i, at |-> NoTime, patch |-> Nil] /\ gone' = gone /\ TrashStep
    BY DEF PurgeItem, Did
  <1>2. GhostsTyped'
    BY <1>1 DEF GhostsTyped, ShapeInv, TypeOK
  <1>3. \A j \in Ids : rows'[j] = rows[j] \/ (rows'[j].status = "absent" /\ rows'[j].series = Nil)
    BY PurgeRows, BlankTyped
  <1>4. ASSUME NEW j \in Ids, rows'[j].series # Nil
        PROVE  /\ rows'[j].rid \in Time /\ Bare(rows'[j].event)
               /\ rows'[rows'[j].series].status # "absent" /\ rows'[rows'[j].series].series = Nil
    <2>1. rows'[j] = rows[j] /\ rows[j].series \in Ids /\ rows'[j] # Blank
      BY <1>3, <1>4, RowShape, BlankTyped
    <2>2. rows'[rows[j].series] = rows[rows[j].series]
      BY <2>1, PurgeRows
    <2> QED
      BY <1>4, <2>1, <2>2, RowShape
  <1>5. \A j \in Ids : MarkedNow(j) /\ (rows'[j].status = "absent" => rows'[j].series = Nil)
    BY <1>3, RowShape DEF MarkedNow
  <1> QED
    BY <1>1, <1>2, <1>4, <1>5, PurgeRows, ShapeKept

LEMMA ShapeStep ==
    ASSUME ShapeInv, [Next]_vars
    PROVE  ShapeInv'
  <1>1. CASE UNCHANGED vars
    BY <1>1 DEF vars, ShapeInv, TypeOK, SeriesInv, ClockInv, Now
  <1>2. CASE Next
    <2>1. PICK i \in Ids :
             \/ \E e \in Creations : Create(i, e)
             \/ \E scope \in Scopes, inst \in Time \cup {NoTime} :
                   \/ Delete(i, scope, inst)
                   \/ \E p \in Patches : Update(i, scope, inst, p)
             \/ Restore(i)
             \/ PurgeItem(i)
      BY <1>2 DEF Next
    <2>2. ASSUME NEW scope \in Scopes, NEW inst \in Time \cup {NoTime}, Delete(i, scope, inst)
          PROVE  ShapeInv'
      <3>1. DeleteStep
        BY <2>2 DEF Delete
      <3>2. PICK m \in Ids :
              /\ rows[m].series = Nil
              /\ DeleteAll(m) \/ (inst \in Time /\ (TruncateSeries(m, inst) \/ ExcludeInstance(m, inst)))
        BY <2>2, DeleteCases
      <3>3. 0 \in Time
        BY Typed
      <3> QED
        BY <3>1, <3>2, <3>3, ShapeDelete
    <2>3. ASSUME NEW scope \in Scopes, NEW inst \in Time \cup {NoTime}, NEW p \in Patches, Update(i, scope, inst, p)
          PROVE  ShapeInv'
      <3>1. EditStep
        BY <2>3 DEF Update
      <3>2. PICK m \in Ids :
              /\ rows[m].series = Nil /\ Live(m)
              /\ UpdateAll(m, p) \/ (inst \in Time /\ (UpdateThis(m, inst, p) \/ UpdateFollowing(m, inst, p)))
        BY <2>3, UpdateCases
      <3> QED
        BY <3>1, <3>2, ShapeAll, ShapeThis, ShapeFollowing
    <2> QED
      BY <2>1, <2>2, <2>3, ShapeCreate, ShapeRestore, ShapePurge
  <1> QED
    BY <1>1, <1>2

LEMMA ShapeInit ==
    ASSUME Init
    PROVE  ShapeInv
  <1>1. /\ rows \in [Ids -> Row]
        /\ \A i \in Ids : rows[i].status = "absent" /\ rows[i].series = Nil
    BY BlankTyped DEF Init
  <1>2. ops \in [edits : 0..MaxEdits, deletes : 0..MaxDeletes, trash : 0..MaxTrashOps]
    BY DEF Init
  <1>3. /\ did \in [op : {"none", "create", "this", "all", "following", "trash", "truncate",
                           "exclude", "restore", "purge"},
                    series : Ids \cup {Nil}, at : Time \cup {NoTime}, patch : Patches \cup {Nil}]
        /\ gone \in [Ids -> SUBSET (Time \X Time \X Contents)]
    BY DEF Init
  <1> QED
    BY <1>1, <1>2, <1>3 DEF ShapeInv, TypeOK, SeriesInv, ClockInv

LEMMA ShapeHolds == Spec => []ShapeInv
  <1>1. ShapeInv /\ [Next]_vars => ShapeInv'
    BY ShapeStep
  <1> QED
    BY <1>1, ShapeInit, PTL DEF Spec

\* Every row of the events table keeps its type through every edit, deletion, restore and
\* purge, and a changed occurrence never carries a recurrence of its own: dates stay whole
\* when a series is moved, split or truncated (applyEvent, shiftSeries, Split).
THEOREM TypeCorrect == Spec => []TypeOK
  <1>1. ShapeInv => TypeOK
    BY DEF ShapeInv
  <1> QED
    BY <1>1, ShapeHolds, PTL
=============================================================================
