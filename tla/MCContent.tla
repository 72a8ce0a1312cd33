----------------------------- MODULE MCContent -----------------------------
(***************************************************************************)
(* The parts that keep what people write, each on a small instance: todos  *)
(* and their order, the forms of todos and events and their undo,          *)
(* duplicates, imports, reminders, subscribed feeds, the layout of a page  *)
(* and the file formats.  They share no state here, so one behaviour       *)
(* follows one part, chosen at its start, and the state space is the sum   *)
(* of theirs: the variables v1..v9 stand for the variables of that part.   *)
(* The parts that ContentProofs proves about take their bounds from the    *)
(* constants.                                                              *)
(***************************************************************************)
EXTENDS Integers, FiniteSets, TLC

CONSTANTS
    Pair,                                                             \* two requests, workers or runs
    Ids, TodoLists, DefaultList, Count, MaxTodoCalls,                     \* todos
    ListItems, Checks, Base, MaxLen, MaxMoves,                            \* their order
    Scanners, Copies, Uid, Looks, NoLook, Far, Linked, MaxPairs, MaxDedupCalls,  \* duplicates
    ImportIDs, Events, Todos, Plain, Subtasks, MaxImportFaults,       \* imports
    Timed, TodoIds, Starts, Minutes, Devices, Lookback, MaxItems,   \* reminders
    MaxNow, MaxRemEdits, MaxDeaths,
    Masters, Overrides, MasterOf, Contents, Every, Day, MaxFailures, MaxSubCalls    \* feeds

VARIABLES part, v1, v2, v3, v4, v5, v6, v7, v8, v9

vars == <<part, v1, v2, v3, v4, v5, v6, v7, v8, v9>>

TodoRows == INSTANCE Todos WITH
    Sessions <- Pair, Lists <- TodoLists,
    rows <- v1, lists <- v2, txs <- v3, calls <- v4

TodoForms == INSTANCE TodoForms WITH
    Handlers <- Pair, MaxFormEdits <- 2, MaxTicks <- 1,
    todo <- v1, page <- v2, handlers <- v3, undos <- v4, edits <- v5, ticks <- v6

Positions == INSTANCE Positions WITH
    Movers <- Pair, Items <- ListItems,
    pos <- v1, ask <- v2, checks <- v3, moves <- v4

EventForms == INSTANCE EventForms WITH
    Posts <- Pair, Slots <- 2, Zones <- {0, 1}, Horizon <- 3, MaxPatches <- 1,
    event <- v1, override <- v2, form <- v3, posts <- v4, entries <- v5, patches <- v6, saved <- v7

Dedup == INSTANCE Dedup WITH
    Blank <- NoLook,
    entity <- v1, copies <- v2, pairRows <- v3, policy <- v4, scanQueued <- v5, scans <- v6, batch <- v7,
    answer <- v8, dedupCalls <- v9

Imports == INSTANCE Imports WITH
    Commits <- Pair, Places <- {"cal", "list", "newcal", "newlist"},
    held <- v1, file <- v2, imports <- v3, commits <- v4, lists <- v5, applied <- v6, importFaults <- v7

Reminders == INSTANCE Reminders WITH
    Runs <- Pair, Entries <- Timed,
    now <- v1, entries <- v2, devices <- v3, claims <- v4, runs <- v5, got <- v6, shown <- v7, remEdits <- v8,
    deaths <- v9

Subscriptions == INSTANCE Subscriptions WITH
    Refreshers <- Pair,
    feed <- v1, row <- v2, cal <- v3, subQueued <- v4, refreshers <- v5, asking <- v6, torn <- v7, subCalls <- v8

\* The UIDs of four copies, two and two alike, and the feed of one series with one override.
TwoUids    == <<"u", "v", "u", "v">>
UnderOne   == [o \in {"o"} |-> "m"]

\* What a page of two days of four slots is given: short, long and all-day entries.
PageEntries ==
    {e \in [allDay : {FALSE}, start : {0, 1, 3, 6}, end : {1, 3, 6, 9, 14}] : e.start <= e.end}
    \cup {e \in [allDay : {TRUE}, start : {-8, 0, 8}, end : {0, 8, 16}] : e.start < e.end}

Layout == INSTANCE Layout WITH
    SlotMinutes <- 2, SlotsPerDay <- 4, MinSpan <- 1, MaxLanes <- 3, AllDayLanes <- 2, PageDays <- 2, MaxEntries <- 3,
    Given <- PageEntries,
    entries <- v1, nights <- v2

-----------------------------------------------------------------------------
(* The accounts that are exported: one event, a series with an override, two calendars, todos. *)

Ev == [uid |-> "a", cal |-> "c", seq |-> 0, title |-> "t", allDay |-> FALSE, tz |-> "UTC", start |-> 1, end |-> 2,
       status |-> "confirmed", private |-> FALSE, color |-> "red", reminders |-> {}, rule |-> FALSE, exdates |-> {},
       rid |-> -9]
Plainly == {[Ev EXCEPT !.tz = z, !.start = t, !.end = t + 1] : z \in {"Z", "UTC"}, t \in 1..4}
           \cup {[Ev EXCEPT !.allDay = TRUE, !.tz = "", !.start = 4, !.end = 8]}
Marked == {[e EXCEPT !.status = s, !.private = p, !.title = n] :
              e \in Plainly, s \in {"confirmed", "cancelled", "tentative"}, p \in BOOLEAN, n \in {"t", ""}}
Ruled  == {[e EXCEPT !.rule = TRUE, !.exdates = x, !.private = p, !.reminders = {0, 5}] :
              e \in Plainly, x \in {{}, {4}}, p \in BOOLEAN}
Over(m) == {[o EXCEPT !.rid = m.start + 4, !.status = s, !.private = p] :
              o \in Plainly, s \in {"confirmed", "cancelled"}, p \in BOOLEAN}
Second == [Ev EXCEPT !.cal = "d", !.start = 3, !.end = 4, !.seq = 1]
Td  == [uid |-> "x", parent |-> "", title |-> "t", body |-> "", status |-> "open", priority |-> 0, due |-> -9,
        time |-> -9, tz |-> "UTC", show |-> FALSE, rule |-> FALSE, long |-> FALSE, checks |-> {}]
Tds == {[Td EXCEPT !.status = s, !.priority = p, !.due = 0, !.time = h, !.tz = z, !.rule = r, !.long = r /\ h # -9,
                   !.checks = c] :
           s \in {"open", "completed"}, p \in 0..3, h \in {-9, 1, 2}, z \in {"Z", "UTC"}, r \in BOOLEAN,
           c \in {{}, {"c"}}}
Account(es, ts) == [events |-> es, todos |-> ts, week |-> 1]
AccountsGiven ==
    {Account(<<e>>, <<>>) : e \in Marked}
    \cup UNION {{Account(<<m, o>>, <<>>) : o \in Over(m)} : m \in Ruled}
    \cup {Account(<<m, [Second EXCEPT !.uid = u]>>, <<>>) : m \in Ruled, u \in {"a", "b"}}
    \cup {Account(<<>>, <<t, [Td EXCEPT !.uid = "y", !.parent = "x"]>>) : t \in Tds}
    \cup {Account(<<Ev, [Second EXCEPT !.uid = "b"]>>, <<Td, [Td EXCEPT !.uid = "y", !.parent = "x"]>>)}

Formats == INSTANCE Formats WITH
    DayHours <- 4, Change <- 2, Zones <- {"Z"}, MaxItems <- 3, MaxReminders <- 2, Given <- AccountsGiven,
    account <- v1, file <- v2, read <- v3

ASSUME ContentAssumption == TodoRows!TodosAssumption /\ Reminders!RemindersAssumption /\ Imports!ImportsAssumption
                            /\ Subscriptions!SubsAssumption /\ Dedup!DedupAssumption

-----------------------------------------------------------------------------

Init ==
    \/ part = "todos" /\ TodoRows!TodosInit /\ v5 = 0 /\ v6 = 0 /\ v7 = 0 /\ v8 = 0 /\ v9 = 0
    \/ part = "todo forms" /\ TodoForms!FormsInit /\ v7 = 0 /\ v8 = 0 /\ v9 = 0
    \/ part = "positions" /\ Positions!PositionsInit /\ v5 = 0 /\ v6 = 0 /\ v7 = 0 /\ v8 = 0 /\ v9 = 0
    \/ part = "event forms" /\ EventForms!EventFormsInit /\ v8 = 0 /\ v9 = 0
    \/ part = "dedup" /\ Dedup!DedupInit
    \/ part = "imports" /\ Imports!ImportsInit /\ v8 = 0 /\ v9 = 0
    \/ part = "reminders" /\ Reminders!RemindersInit
    \/ part = "subscriptions" /\ Subscriptions!SubsInit /\ v9 = 0
    \/ part = "layout" /\ Layout!LayoutInit /\ v3 = 0 /\ v4 = 0 /\ v5 = 0 /\ v6 = 0 /\ v7 = 0 /\ v8 = 0 /\ v9 = 0
    \/ part = "formats" /\ Formats!FormatsInit /\ v4 = 0 /\ v5 = 0 /\ v6 = 0 /\ v7 = 0 /\ v8 = 0 /\ v9 = 0

Next ==
    \/ part = "todos" /\ TodoRows!TodosNext /\ UNCHANGED <<part, v5, v6, v7, v8, v9>>
    \/ part = "todo forms" /\ TodoForms!FormsNext /\ UNCHANGED <<part, v7, v8, v9>>
    \/ part = "positions" /\ Positions!PositionsNext /\ UNCHANGED <<part, v5, v6, v7, v8, v9>>
    \/ part = "event forms" /\ EventForms!EventFormsNext /\ UNCHANGED <<part, v8, v9>>
    \/ part = "dedup" /\ Dedup!DedupNext /\ UNCHANGED part
    \/ part = "imports" /\ Imports!ImportsNext /\ UNCHANGED <<part, v8, v9>>
    \/ part = "reminders" /\ Reminders!RemindersNext /\ UNCHANGED part
    \/ part = "subscriptions" /\ Subscriptions!SubsNext /\ UNCHANGED <<part, v9>>
    \/ part = "layout" /\ Layout!LayoutNext /\ UNCHANGED <<part, v3, v4, v5, v6, v7, v8, v9>>
    \/ part = "formats" /\ Formats!FormatsNext /\ UNCHANGED <<part, v4, v5, v6, v7, v8, v9>>

Spec == Init /\ [][Next]_vars

\* The two requests, workers or runs are alike.
Alike == Permutations(Pair)

-----------------------------------------------------------------------------
(* Properties. *)

\* The types of every part (the tables, forms and files they stand for).
TypeOK ==
    CASE part = "todos"         -> TodoRows!TodosTypeOK
      [] part = "todo forms"    -> TodoForms!FormsTypeOK
      [] part = "positions"     -> Positions!PositionsTypeOK
      [] part = "event forms"   -> EventForms!EventFormsTypeOK
      [] part = "dedup"         -> Dedup!DedupTypeOK
      [] part = "imports"       -> Imports!ImportsTypeOK
      [] part = "reminders"     -> Reminders!RemindersTypeOK
      [] part = "subscriptions" -> Subscriptions!SubsTypeOK
      [] part = "layout"        -> Layout!LayoutTypeOK
      [] part = "formats"       -> Formats!FormatsTypeOK

\* Subtasks stay one level deep and in the list of their parent, however the moves, restores,
\* completions and purges of two requests interleave (service/todos.go, relocate;
\* todos_check_depth).
OneLevel == part = "todos" => TodoRows!OneLevel

\* A recurring todo is done as often as its rule says, by whomever it is completed, reopened,
\* deleted and restored (service/todos.go, Complete and nextTodo).
RepeatsExactly == part = "todos" => TodoRows!RepeatsExactly

\* Undoing an edit or a deletion made on a page gives back what it replaced, of todos and of
\* events, when nothing was saved since (web/todos and web/calendar: update, formValues,
\* ApplyUndo).
UndoGivesBack ==
    [][/\ part = "todo forms" => TodoForms!UndoGaveBack
       /\ part = "event forms" => EventForms!EventUndoGaveBack]_vars

\* A todo lands between the neighbours it was dropped between, and the items of a checklist
\* have an order (domain/position.go, KeyBetween).
DropsBetween == part = "positions" => Positions!DropsBetween

\* Two kept copies are not flagged again, and a scan that nothing disturbed leaves one copy of
\* everything it removes (dedup: SaveDuplicate, HandleScan).
DuplicatesSettled == [][part = "dedup" => Dedup!DismissedStood /\ Dedup!OneCopyWasLeft]_vars

\* An upload is written once at most, as its status says, and no UID twice in one place
\* (importer: Commit; "An import can only be committed once.").
ImportIsExact == part = "imports" => Imports!ImportIsExact

\* A reminder reaches a device once, however runs of the job overlap, and one that was
\* delivered was shown somewhere (reminders.go, deliver and inPage).
RemindedOnce == part = "reminders" => Reminders!RemindedOnce

\* What a feed's row takes for merged stands in the calendar as it stands in the feed, unless
\* refreshes overlapped or a worker died in between (subscription.go, refresh; merge.go).
FeedAgrees == part = "subscriptions" => Subscriptions!FeedAgrees

\* Blocks and bars that meet lie beside each other, nothing is lost or counted twice, and the
\* hours of sleep are shaded (view/layout.go).
PageIsWhole == part = "layout" => Layout!PageIsWhole

\* An export reads back as the account, up to what its format cannot say, and a shared feed
\* holds nothing private (yamlfmt, ical, csvfmt, exporter).
ReadsBack == part = "formats" => Formats!ReadsBack /\ Formats!FeedIsPublic
=============================================================================
