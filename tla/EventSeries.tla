---------------------------- MODULE EventSeries ----------------------------
(***************************************************************************)
(* Recurring events of one writable calendar: service/events.go over       *)
(* store/pg/events.go, recurrence/series.go and store/pg/trash.go.         *)
(*                                                                         *)
(* A series is a row with a rule or extra dates.  A changed occurrence is  *)
(* a row of its own (an override) that names its series and the instant it *)
(* replaces.  An edit or a deletion has a scope: this occurrence, this and *)
(* the following ones, or all.                                             *)
(*                                                                         *)
(* Every operation is one transaction that locks the rows it reads, so it  *)
(* is one step.  An operation the code refuses changes nothing and is not  *)
(* a step.  Instants are the integers 0..Horizon, far enough apart for     *)
(* "one second before" to be the instant before; an edit that would move a *)
(* date out of this window is not tried.  The content of a row stands for  *)
(* its title, place, status and so on.                                     *)
(***************************************************************************)
EXTENDS Integers, Sequences, FiniteSets

CONSTANTS
    Ids,          \* row ids (bound)
    Nil,          \* no id
    Horizon,      \* bound: the last instant looked at
    Contents,     \* contents of an event
    Cancelled,    \* the content of an event with status cancelled
    Keep,         \* a field that a patch leaves alone
    Creations,    \* rows a client creates (bound on the inputs)
    Patches,      \* patches a client sends (bound on the inputs)
    MaxEdits,     \* bound: creations and updates
    MaxDeletes,   \* bound: deletions
    MaxTrashOps,  \* bound: restores and purges
    LoneTrash     \* bound: may an override be restored or purged without its series

Time    == 0..Horizon
NoTime  == -1
Scopes  == {"this", "following", "all"}

\* A parsed RRULE.  With anchor NoTime the rule repeats every `step' instants
\* from the start of the event (FREQ=DAILY;INTERVAL=step); otherwise at the
\* instants congruent to `anchor' (FREQ=WEEKLY;BYDAY=...).  step = 0: no rule.
Rule   == [step : Nat, anchor : Int, count : Nat, until : Int]
NoRule == [step |-> 0, anchor |-> NoTime, count |-> 0, until |-> NoTime]

Event  == [start : Time, val : Contents, rule : Rule, rdate : SUBSET Time, exdate : SUBSET Time]
Row    == [status : {"absent", "live", "trashed"}, deletedAt : Nat, uid : Seq(Ids \cup Time),
           series : Ids \cup {Nil}, rid : Time \cup {NoTime}, event : Event]
Patch  == [start : Time \cup {Keep}, val : Contents \cup {Keep}, rule : Rule \cup {Keep},
           rdate : (SUBSET Time) \cup {Keep}, exdate : (SUBSET Time) \cup {Keep}]

\* parseOption refuses a rule with both COUNT and UNTIL, and an interval is positive.
ASSUME SeriesAssumption ==
    /\ Ids \subseteq Nat /\ Nil \notin Ids
    /\ Horizon \in Nat /\ MaxEdits \in Nat /\ MaxDeletes \in Nat /\ MaxTrashOps \in Nat
    /\ LoneTrash \in BOOLEAN
    /\ Cancelled \in Contents /\ Keep \notin Contents /\ Keep \notin Rule
    /\ Creations \subseteq Event /\ Patches \subseteq Patch
    /\ \A r \in {c.rule : c \in Creations} \cup {p.rule : p \in Patches} :
          r \notin {Keep, NoRule} => r.step > 0 /\ (r.count = 0 \/ r.until = NoTime)

VARIABLES
    rows,    \* the events table
    ops,     \* operations done, by kind; their sum is the clock
    did,     \* ghost: the last operation, on which event, at which occurrence
    gone     \* ghost: what an event showed when it was moved to the trash

vars == <<rows, ops, did, gone>>

Blank == [status |-> "absent", deletedAt |-> 0, uid |-> <<>>, series |-> Nil, rid |-> NoTime,
          event |-> [start |-> 0, val |-> Cancelled, rule |-> NoRule, rdate |-> {}, exdate |-> {}]]

\* Every row keeps its type, and an override carries no recurrence of its own.
TypeOK ==
    /\ rows \in [Ids -> Row]
    /\ ops \in [edits : 0..MaxEdits, deletes : 0..MaxDeletes, trash : 0..MaxTrashOps]
    /\ did \in [op : {"none", "create", "this", "all", "following", "trash", "truncate",
                       "exclude", "restore", "purge"},
                series : Ids \cup {Nil}, at : Time \cup {NoTime}, patch : Patches \cup {Nil}]
    /\ gone \in [Ids -> SUBSET (Time \X Time \X Contents)]
    /\ \A i \in Ids : rows[i].series # Nil =>
          rows[i].event.rule = NoRule /\ rows[i].event.rdate = {} /\ rows[i].event.exdate = {}

-----------------------------------------------------------------------------
(* The recurrence of an event (recurrence/series.go). *)

\* The instants of the rule, before COUNT and UNTIL.
OnRule(r, start) ==
    {t \in Time : /\ r.step > 0 /\ t >= start
                  /\ IF r.anchor = NoTime THEN (t - start) % r.step = 0
                                          ELSE t % r.step = r.anchor}

\* rrule.Iterator: the first `count' of them, or those up to `until'.
RuleTimes(r, start) ==
    LET all == OnRule(r, start)
    IN  {t \in all : /\ r.until # NoTime => t <= r.until
                     /\ r.count > 0 => Cardinality({u \in all : u < t}) < r.count}

\* Series.each: the start always occurs, and so do the extra dates; excluded
\* dates never do.
Occurs(e) == ((RuleTimes(e.rule, e.start) \cup {e.start}) \cup e.rdate) \ e.exdate

\* Mutants: the first occurrence of the tail is counted to the head as well; the tail
\* keeps the whole count.
SplitOffByOne(e, at) ==
    LET n == Cardinality({t \in RuleTimes(e.rule, e.start) : t <= at})
    IN  [head |-> IF e.rule.count = 0 THEN [e.rule EXCEPT !.until = at - 1]
                                      ELSE [e.rule EXCEPT !.count = n],
         tail |-> e.rule]
SplitKeepsCount(e, at) ==
    LET n == Cardinality({t \in RuleTimes(e.rule, e.start) : t < at})
    IN  [head |-> IF e.rule.count = 0 THEN [e.rule EXCEPT !.until = at - 1]
                                      ELSE [e.rule EXCEPT !.count = n],
         tail |-> e.rule]

\* Split: the rules of the series before `at' and of the series from `at' on.
Split(e, at) ==
    LET r == e.rule
        n == Cardinality({t \in RuleTimes(r, e.start) : t < at})
    IN  IF r.count = 0
        THEN [head |-> [r EXCEPT !.until = at - 1], tail |-> r]
        ELSE [head |-> IF n > 0 THEN [r EXCEPT !.count = n] ELSE NoRule,
              tail |-> IF r.count > n THEN [r EXCEPT !.count = r.count - n] ELSE NoRule]

-----------------------------------------------------------------------------
(* Rows. *)

Live(i)       == rows[i].status = "live"
IsOverride(i) == rows[i].series # Nil
Recurs(e)     == e.rule # NoRule \/ e.rdate # {}
IsMaster(i)   == ~IsOverride(i) /\ Recurs(rows[i].event)

\* The live overrides of series m.
Overrides(table, m) == {o \in Ids : table[o].status = "live" /\ table[o].series = m}

\* The next id that is free.
Fresh(i) == rows[i].status = "absent" /\ \A j \in Ids : j < i => rows[j].status # "absent"

\* events_calendar_uid_idx and events_series_recurrence_idx over the live rows.
Unique(table) ==
    \A i, j \in Ids :
        /\ i # j
        /\ table[i].status = "live" /\ table[j].status = "live"
        => /\ table[i].series = Nil /\ table[j].series = Nil => table[i].uid # table[j].uid
           /\ table[i].series # Nil /\ table[i].series = table[j].series
                 => table[i].rid # table[j].rid

\* eventTx.Delete: the row, and with a series every live override of it.
Trash(table, doomed, at) ==
    [i \in Ids |->
        IF table[i].status = "live" /\ (i \in doomed \/ table[i].series \in doomed)
        THEN [table[i] EXCEPT !.status = "trashed", !.deletedAt = at]
        ELSE table[i]]

\* What a user sees of series m (or of the single event m): the instant that is
\* shown, where it is shown, and its content.  Events.occurrences draws the
\* overrides, and of a series the occurrences that have none.
Lines(table, m) ==
    LET e  == table[m].event
        ov == Overrides(table, m)
        on == IF table[m].status # "live" \/ table[m].series # Nil THEN {}
              ELSE IF Recurs(e) THEN Occurs(e) \ {table[o].rid : o \in ov} ELSE {e.start}
    IN  {<<t, t, e.val>> : t \in {t \in on : e.val # Cancelled}}
          \cup {<<table[o].rid, table[o].event.start, table[o].event.val>> :
                  o \in {o \in ov : table[o].event.val # Cancelled}}

-----------------------------------------------------------------------------
(* Patches and moves. *)

Field(new, old) == IF new = Keep THEN old ELSE new

\* applyEvent on a row that may recur.
Applied(e, p) == [start |-> Field(p.start, e.start), val |-> Field(p.val, e.val),
                  rule |-> Field(p.rule, e.rule), rdate |-> Field(p.rdate, e.rdate),
                  exdate |-> Field(p.exdate, e.exdate)]

\* applyEvent on an override refuses a recurrence.
FitsOverride(p) == p.rule \in {Keep, NoRule} /\ p.rdate \in {Keep, {}} /\ p.exdate \in {Keep, {}}

MoveBy(times, d) == {t + d : t \in times}

\* The series is moved as it is: its start changes and its rule does not.
Moved(before, after) == before.start # after.start /\ before.rule = after.rule

\* Mutant: the dates stay where they are.
ShiftNothing(before, after, p) == after

\* shiftSeries: the dates of a moved series move with it, unless the patch sets them.
ShiftSeries(before, after, p) ==
    LET d == after.start - before.start
    IN  IF ~Recurs(before) \/ ~Moved(before, after) THEN after
        ELSE [after EXCEPT !.exdate = IF p.exdate = Keep THEN MoveBy(@, d) ELSE @,
                           !.rdate  = IF p.rdate = Keep THEN MoveBy(@, d) ELSE @]

\* Mutant: overrides that do not occur any more are kept.
SyncKeepsAll(table, m, before, after, at) ==
    LET d == IF Moved(before, after) THEN after.start - before.start ELSE 0
    IN  [i \in Ids |-> IF i \notin Overrides(table, m) THEN table[i]
                       ELSE [table[i] EXCEPT !.rid = @ + d]]

\* syncOverrides: the overrides of a moved series name their instants anew; those
\* whose instant does not occur any more go to the trash, and all of them if the
\* event stopped recurring.  The code moves them last first or first first, away
\* from the unique index; together they are one step.
SyncOverrides(table, m, before, after, at) ==
    LET d == IF Moved(before, after) THEN after.start - before.start ELSE 0
    IN  [i \in Ids |->
            IF i \notin Overrides(table, m) THEN table[i]
            ELSE IF Recurs(after) /\ table[i].rid + d \in Occurs(after)
                 THEN [table[i] EXCEPT !.rid = @ + d]
                 ELSE [table[i] EXCEPT !.status = "trashed", !.deletedAt = at]]

\* Bound: the dates of a moved event, those of its overrides too, stay in the window.
InWindow(before, after, rids) ==
    /\ after.rdate \subseteq Time /\ after.exdate \subseteq Time
    /\ Moved(before, after) => MoveBy(rids, after.start - before.start) \subseteq Time

-----------------------------------------------------------------------------
(* Operations. *)

\* Each operation moves the clock on.
Now == ops.edits + ops.deletes + ops.trash + 1

EditStep   == ops.edits < MaxEdits /\ ops' = [ops EXCEPT !.edits = @ + 1]
DeleteStep == ops.deletes < MaxDeletes /\ ops' = [ops EXCEPT !.deletes = @ + 1]
TrashStep  == ops.trash < MaxTrashOps /\ ops' = [ops EXCEPT !.trash = @ + 1]

\* Ghost: this was the operation; only DeleteAll writes `gone'.
Did(op, m, at, p) == did' = [op |-> op, series |-> m, at |-> at, patch |-> p]

\* Events.Create.
Create(i, e) ==
    /\ EditStep /\ Fresh(i)
    /\ rows' = [rows EXCEPT ![i] = [Blank EXCEPT !.status = "live", !.uid = <<i>>, !.event = e]]
    /\ Did("create", i, NoTime, Nil) /\ UNCHANGED gone

\* resolve: the edit of row i with this scope and instance concerns the event m
\* and, where there is one, its occurrence `inst'.
Resolves(i, scope, inst, m) ==
    /\ Live(i)
    /\ \/ IsOverride(i) /\ m = rows[i].series /\ Live(m) /\ inst = rows[i].rid
       \/ IsMaster(i) /\ m = i /\ inst \in Occurs(rows[i].event)
       \/ ~IsOverride(i) /\ m = i /\ inst = NoTime /\ (IsMaster(i) => scope = "all")

\* Mutant: the override keeps the recurrence of the series.
NewOverrideWhole(m, inst) ==
    [rows[m] EXCEPT !.series = m, !.rid = inst, !.event.start = inst]

\* newOverride: the occurrence as a row of its own.
NewOverride(m, inst) ==
    [rows[m] EXCEPT !.series = m, !.rid = inst, !.event.start = inst,
                    !.event.rule = NoRule, !.event.rdate = {}, !.event.exdate = {}]

\* Mutant: an override of the series is taken for that of the occurrence.
UpdateThisAny(m, inst, p) ==
    /\ FitsOverride(p)
    /\ LET Patched(row) == [row EXCEPT !.event.start = Field(p.start, @),
                                       !.event.val = Field(p.val, @)]
       IN  \/ \E o \in Overrides(rows, m) : rows' = [rows EXCEPT ![o] = Patched(@)]
           \/ /\ Overrides(rows, m) = {}
              /\ \E o \in Ids : Fresh(o) /\ rows' = [rows EXCEPT ![o] = Patched(NewOverride(m, inst))]
    /\ Did("this", m, inst, p) /\ UNCHANGED gone

\* updateThis: the override of the occurrence, old or new, takes the patch.
UpdateThis(m, inst, p) ==
    /\ FitsOverride(p)
    /\ LET old == {o \in Overrides(rows, m) : rows[o].rid = inst}
           Patched(row) == [row EXCEPT !.event.start = Field(p.start, @),
                                       !.event.val = Field(p.val, @)]
       IN  \/ \E o \in old : rows' = [rows EXCEPT ![o] = Patched(@)]
           \/ /\ old = {}
              /\ \E o \in Ids : Fresh(o) /\ rows' = [rows EXCEPT ![o] = Patched(NewOverride(m, inst))]
    /\ Did("this", m, inst, p) /\ UNCHANGED gone

\* updateAll: the event takes the patch, and its overrides follow.
UpdateAll(m, p) ==
    LET before == rows[m].event
        after  == ShiftSeries(before, Applied(before, p), p)
        saved  == [rows EXCEPT ![m].event = after]
    IN  /\ InWindow(before, after, {rows[o].rid : o \in Overrides(rows, m)})
        /\ rows' = IF Recurs(before) THEN SyncOverrides(saved, m, before, after, Now) ELSE saved
        /\ Did("all", m, NoTime, p) /\ UNCHANGED gone

\* updateFollowing: the series ends before `at', and a new one with the patch
\* starts there; it takes over the overrides from `at' on.
UpdateFollowing(m, at, p) ==
    LET e     == rows[m].event
        split == Split(e, at)
        base  == [e EXCEPT !.start = at, !.rule = split.tail,
                           !.rdate = {t \in @ : t >= at}, !.exdate = {t \in @ : t >= at}]
        next  == ShiftSeries(base, Applied(base, p), p)
        head  == [e EXCEPT !.rule = split.head,
                           !.rdate = {t \in @ : t < at}, !.exdate = {t \in @ : t < at}]
    IN  /\ e.rule # NoRule                \* Split fails without a rule
        /\ InWindow(base, next, {t \in {rows[o].rid : o \in Overrides(rows, m)} : t >= at})
        /\ \E n \in Ids :
              LET split2 == [rows EXCEPT
                               ![m].event = head,
                               ![n] = [rows[m] EXCEPT !.uid = Append(@, at), !.event = next]]
                  moved  == [i \in Ids |->
                               IF i \in Overrides(split2, m) /\ split2[i].rid >= at
                               THEN [split2[i] EXCEPT !.series = n, !.uid = split2[n].uid]
                               ELSE split2[i]]
              IN  /\ Fresh(n)
                  /\ Unique(split2)       \* the new uid may be in use
                  /\ rows' = SyncOverrides(moved, n, base, next, Now)
        /\ Did("following", m, at, p) /\ UNCHANGED gone

\* The edit or deletion concerns the whole event: it does not recur, or all of it is
\* meant, or what follows its start.
Whole(m, scope, inst) ==
    IsMaster(m) => \/ scope = "all"
                   \/ scope = "following" /\ inst <= rows[m].event.start

\* Events.Update.
Update(i, scope, inst, p) ==
    /\ EditStep
    /\ \E m \in Ids :
          /\ Resolves(i, scope, inst, m)
          /\ \/ Whole(m, scope, inst) /\ UpdateAll(m, p)
             \/ ~Whole(m, scope, inst) /\ scope = "this" /\ UpdateThis(m, inst, p)
             \/ ~Whole(m, scope, inst) /\ scope = "following" /\ UpdateFollowing(m, inst, p)

\* eventTx.Delete of the whole event.
DeleteAll(m) ==
    /\ rows' = Trash(rows, {m}, Now)
    /\ Did("trash", m, NoTime, Nil) /\ gone' = [gone EXCEPT ![m] = Lines(rows, m)]

\* truncateSeries: the series ends before `at'.
TruncateSeries(m, at) ==
    LET e     == rows[m].event
        saved == [rows EXCEPT ![m].event = [e EXCEPT !.rule = Split(e, at).head,
                                                     !.rdate = {t \in @ : t < at},
                                                     !.exdate = {t \in @ : t < at}]]
    IN  /\ e.rule # NoRule
        /\ rows' = Trash(saved, {o \in Overrides(rows, m) : rows[o].rid >= at}, Now)
        /\ Did("truncate", m, at, Nil) /\ UNCHANGED gone

\* excludeInstance: the occurrence becomes an excluded date; its override goes.
ExcludeInstance(m, at) ==
    /\ rows' = Trash([rows EXCEPT ![m].event.exdate = @ \cup {at}],
                     {o \in Overrides(rows, m) : rows[o].rid = at}, Now)
    /\ Did("exclude", m, at, Nil) /\ UNCHANGED gone

\* Events.Delete.
Delete(i, scope, inst) ==
    /\ DeleteStep
    /\ \E m \in Ids :
          /\ Resolves(i, scope, inst, m)
          /\ \/ Whole(m, scope, inst) /\ DeleteAll(m)
             \/ ~Whole(m, scope, inst) /\ scope = "this" /\ ExcludeInstance(m, inst)
             \/ ~Whole(m, scope, inst) /\ scope = "following" /\ TruncateSeries(m, inst)

\* Mutant: every trashed override comes back with its series.
RestoredWhole(i) ==
    [j \in Ids |->
        IF (j = i \/ rows[j].series = i) /\ rows[j].status = "trashed"
        THEN [rows[j] EXCEPT !.status = "live", !.deletedAt = 0]
        ELSE rows[j]]

\* Store.Restore: the row, and what was deleted with it, by one time stamp.
Restored(i) ==
    [j \in Ids |->
        IF (j = i \/ rows[j].series = i) /\ rows[j].status = "trashed"
              /\ rows[j].deletedAt = rows[i].deletedAt
        THEN [rows[j] EXCEPT !.status = "live", !.deletedAt = 0]
        ELSE rows[j]]

Restore(i) ==
    /\ TrashStep
    /\ rows[i].status = "trashed"
    /\ rows[i].series = Nil \/ LoneTrash
    /\ Unique(Restored(i))
    /\ rows' = Restored(i)
    /\ Did("restore", i, NoTime, Nil) /\ UNCHANGED gone

\* Store.PurgeItem: the trashed rows among the event and its overrides; the
\* foreign key takes every override of an event that is removed.
PurgeItem(i) ==
    LET picked == {j \in Ids : rows[j].status = "trashed" /\ (j = i \/ rows[j].series = i)}
    IN  /\ TrashStep
        /\ rows[i].series = Nil \/ LoneTrash
        /\ picked # {}
        /\ rows' = [j \in Ids |-> IF j \in picked \/ rows[j].series \in picked THEN Blank ELSE rows[j]]
        /\ Did("purge", i, NoTime, Nil) /\ UNCHANGED gone

Init ==
    /\ rows = [i \in Ids |-> Blank]
    /\ ops = [edits |-> 0, deletes |-> 0, trash |-> 0]
    /\ did = [op |-> "none", series |-> Nil, at |-> NoTime, patch |-> Nil]
    /\ gone = [i \in Ids |-> {}]

Next ==
    \E i \in Ids :
        \/ \E e \in Creations : Create(i, e)
        \/ \E scope \in Scopes, inst \in Time \cup {NoTime} :
              \/ Delete(i, scope, inst)
              \/ \E p \in Patches : Update(i, scope, inst, p)
        \/ Restore(i)
        \/ PurgeItem(i)

Spec == Init /\ [][Next]_vars

-----------------------------------------------------------------------------
(* Properties. *)

\* Every changed occurrence belongs to a live series and stands for an instant at
\* which the series really occurs: otherwise it is drawn beside the occurrence it
\* was to replace, and an edit of it reaches the whole event (resolve, syncOverrides).
OverridesOccur ==
    \A o \in Ids : Live(o) /\ IsOverride(o) =>
        LET m == rows[o].series
        IN  Live(m) /\ IsMaster(m) /\ rows[o].rid \in Occurs(rows[m].event)

\* After an edit of a series no changed occurrence of it is left that its recurrence
\* does not reach: "A changed occurrence that no longer falls on the rule is deleted"
\* (api/openapi.yaml, updateEvent).
EditDropsStrays ==
    did.op \in {"all", "following"} =>
        \A o \in Overrides(rows, did.series) :
            IsMaster(did.series) /\ rows[o].rid \in Occurs(rows[did.series].event)

\* An edit or deletion of one occurrence changes nothing else that a user sees, of
\* this or any other event, and leaves one line for the occurrence at most, none if
\* it was deleted (updateThis, excludeInstance).
TouchesOne ==
    [][did'.op \in {"this", "exclude"} =>
         LET Rest(table, k)  == {l \in Lines(table, k) : k # did'.series \/ l[1] # did'.at}
             It(table)       == Lines(table, did'.series) \ Rest(table, did'.series)
         IN  /\ \A k \in Ids : Rest(rows', k) = Rest(rows, k)
             /\ Cardinality(It(rows')) <= 1
             /\ did'.op = "exclude" => It(rows') = {}]_vars

\* An edit or deletion from one occurrence on leaves what came before as it was, ends
\* the series there, and leaves other events alone (updateFollowing, truncateSeries).  A
\* rule that had ended before, the occurrence being an extra date, is left out: Split puts
\* the new UNTIL in place of the earlier one.
PastStays ==
    [][/\ did'.op \in {"following", "truncate"}
       /\ LET r == rows[did'.series].event.rule IN r.until = NoTime \/ r.until >= did'.at - 1
       =>
         /\ Lines(rows', did'.series) = {l \in Lines(rows, did'.series) : l[1] < did'.at}
         /\ \A k \in Ids \ {did'.series} : Live(k) => Lines(rows', k) = Lines(rows, k)]_vars

\* An edit of the content alone from one occurrence of the rule on keeps every later
\* occurrence at its time, COUNT, extra and excluded dates included, and every changed
\* occurrence as it was changed (Split, splitTimes, MoveOverrides).
FutureKeepsTimes ==
    [][did'.op = "following" =>
         LET p    == did'.patch
             m    == did'.series
             e    == rows[m].event
             Changed(table, k) == {<<table[o].rid, table[o].event>> : o \in Overrides(table, k)}
         IN  p.start = Keep /\ p.rule = Keep /\ p.rdate = Keep /\ p.exdate = Keep
               /\ did'.at \in RuleTimes(e.rule, e.start)
             => \E n \in Ids :
                  /\ Fresh(n)
                  /\ Occurs(rows'[n].event) = {t \in Occurs(e) : t >= did'.at}
                  /\ Changed(rows', n) = {c \in Changed(rows, m) : c[1] >= did'.at}]_vars

\* Moving a whole series by changing its start moves all of it: every occurrence, and
\* with it every excluded, extra and changed one, by the same distance (shiftSeries,
\* syncOverrides).  For a rule that counts from the start and has no UNTIL, and for the
\* instants whose images lie in the window.
MovesAsOne ==
    [][did'.op = "all" =>
         LET p == did'.patch
             m == did'.series
             e == rows[m].event
             d == rows'[m].event.start - e.start
             Rids(table) == {table[o].rid : o \in Overrides(table, m)}
         IN  p.rule = Keep /\ p.rdate = Keep /\ p.exdate = Keep
               /\ IsMaster(m) /\ e.rule.anchor = NoTime /\ e.rule.until = NoTime
             => /\ \A t \in Time : t + d \in Time =>
                       (t \in Occurs(e) <=> t + d \in Occurs(rows'[m].event))
                /\ Rids(rows') = MoveBy(Rids(rows), d)]_vars

\* Restoring an event from the trash brings back what it showed when it was deleted:
\* its changed occurrences too, and none of those deleted before (Restore, deletedAt).
RestoreIsExact ==
    [][did'.op = "restore" /\ rows[did'.series].series = Nil =>
         Lines(rows', did'.series) = gone[did'.series]]_vars
=============================================================================
