------------------------------ MODULE Formats ------------------------------
(***************************************************************************)
(* What an account becomes in a file and what a file reads back as: the    *)
(* exports (internal/exporter), the feed of a share (web/shares), and the  *)
(* three formats, YAML (internal/yamlfmt), iCalendar (internal/ical) and   *)
(* CSV (internal/csvfmt).  A time in a file is a date, an exact instant or *)
(* a wall time in a zone, which is all the formats write; texts are model  *)
(* values and only their being empty matters.  Time counts hours, a day    *)
(* has DayHours of them, and the clocks of every zone but UTC go back by   *)
(* one hour at Change.                                                     *)
(***************************************************************************)
EXTENDS Integers, Sequences, FiniteSets, SequencesExt

CONSTANTS
    DayHours, Change,
    Zones,          \* zones but UTC
    MaxItems,       \* import.max_entries
    MaxReminders,   \* domain.MaxReminders, made small
    Given           \* the accounts a run starts from

VARIABLES
    account,    \* its events, masters and overrides (rid # NoTime), its todos and its first weekday
    file,       \* the last file written, or NoFile
    read        \* what was read from it, or NoFile

formatVars == <<account, file, read>>

NoFile == [format |-> "none"]
NoTime == -9
Unset  == ""

-----------------------------------------------------------------------------
(* Clocks. *)

Offset(z, t)   == IF z \in Zones /\ t < Change THEN 1 ELSE 0
Wall(t, z)     == t + Offset(z, t)
Midnight(t)    == (t \div DayHours) * DayHours
ZoneOf(e)      == IF e.allDay THEN "UTC" ELSE e.tz

\* time.ParseInLocation: of a wall time that comes twice, either instant.
Resolve(w, z, early) ==
    LET at == {t \in w - 1 .. w : Wall(t, z) = w}
    IN  CHOOSE t \in at : \A u \in at : IF early THEN t <= u ELSE t >= u

Date(t)        == [kind |-> "date", day |-> t \div DayHours]
Exact(t)       == [kind |-> "exact", at |-> t]
Local(t, z)    == [kind |-> "wall", wall |-> Wall(t, z), tz |-> z]
Problem        == [kind |-> "problem"]
Blank          == [kind |-> "blank"]

-----------------------------------------------------------------------------
(* What is exported. *)

\* group: overrides go with their master, alone they are left out.
Group(events) ==
    LET masters == SelectSeq(events, LAMBDA e : e.rid = NoTime)
    IN  [i \in DOMAIN masters |->
            [master |-> masters[i],
             overrides |-> SelectSeq(events, LAMBDA e : e.rid # NoTime /\ e.uid = masters[i].uid
                                                        /\ e.cal = masters[i].cal)]]

\* nest
Nest(todos) ==
    LET top == SelectSeq(todos, LAMBDA t : t.parent = Unset)
    IN  [i \in DOMAIN top |-> [todo |-> top[i], subtasks |-> SelectSeq(todos, LAMBDA t : t.parent = top[i].uid)]]

Span(e) == [from |-> e.start - (IF e.allDay THEN DayHours ELSE 0),
            to |-> e.end + (IF e.allDay THEN DayHours ELSE 0), open |-> e.rid = NoTime /\ e.rule]

Overlaps(e, from, to) == Span(e).from < to /\ (Span(e).open \/ Span(e).to > from)

Calendars == Group(account.events)
Lists     == Nest(account.todos)

\* Range: the feed view.
KeptInFeed(e, from, to) == ~e.private /\ Overlaps(e, from, to)
Scheduled(t, from, to)  == t.due # NoTime /\ t.due >= from \div DayHours /\ t.due < to \div DayHours

\* redactSet
Redact(s) ==
    [s EXCEPT !.master.title = "Busy",
              !.overrides = [i \in DOMAIN s.overrides |-> [s.overrides[i] EXCEPT !.title = "Busy"]]]

-----------------------------------------------------------------------------
(* YAML. *)

\* Mutant: stamps without the offset of their zone.
YamlStampLocal(t, e) == IF e.allDay THEN Date(t) ELSE Local(t, e.tz)

YamlStamp(t, e) == IF e.allDay THEN Date(t) ELSE Exact(t)

YamlEvent(e) ==
    [e EXCEPT !.start = YamlStamp(e.start, e), !.end = YamlStamp(e.end, e),
              !.tz = IF e.allDay THEN Unset ELSE e.tz,
              !.status = IF e.status = "confirmed" THEN Unset ELSE e.status,
              !.exdates = {YamlStamp(t, e) : t \in e.exdates}, !.seq = 0]

\* An override is written without all_day and timezone.
YamlOverride(e) == [YamlEvent(e) EXCEPT !.rid = YamlStamp(e.rid, e), !.allDay = FALSE, !.tz = Unset]

YamlTodo(t) == [t EXCEPT !.status = IF t.status = "completed" THEN t.status ELSE Unset, !.parent = Unset]

YamlEncode(set, week) ==
    [format |-> "yaml", week |-> week,
     series |-> [i \in DOMAIN set.series |->
        [master |-> YamlEvent(set.series[i].master),
         overrides |-> [k \in DOMAIN set.series[i].overrides |-> YamlOverride(set.series[i].overrides[k])]]],
     todos |-> [i \in DOMAIN set.todos |->
        [todo |-> YamlTodo(set.todos[i].todo),
         subtasks |-> [k \in DOMAIN set.todos[i].subtasks |-> YamlTodo(set.todos[i].subtasks[k])]]]]

\* parseStamp: NoTime is its error.
ParseStamp(s, tz, allDay, early) ==
    CASE allDay             -> IF s.kind = "date" THEN s.day * DayHours ELSE NoTime
      [] s.kind = "exact"   -> s.at
      [] s.kind = "wall"    -> Resolve(s.wall, tz, early)
      [] OTHER              -> NoTime

\* stamps
ParseStamps(ss, tz, allDay, early) == {ParseStamp(s, tz, allDay, early) : s \in ss}

\* event
YamlReadEvent(in, fallback, early) ==
    LET tz    == IF in.tz # Unset THEN in.tz ELSE fallback
        start == ParseStamp(in.start, tz, in.allDay, early)
        end   == ParseStamp(in.end, tz, in.allDay, early)
        ex    == ParseStamps(in.exdates, tz, in.allDay, early)
    IN  IF start = NoTime \/ end = NoTime \/ NoTime \in ex THEN Problem
        ELSE [in EXCEPT !.start = start, !.end = end, !.exdates = ex,
                        !.tz = IF in.allDay THEN Unset ELSE tz,
                        !.status = IF in.status = Unset THEN "confirmed" ELSE in.status]

\* The loop of series over the overrides of in.
YamlReadOverride(o, in, fallback, early) ==
    LET e   == YamlReadEvent([o EXCEPT !.tz = IF o.tz = Unset THEN in.tz ELSE o.tz,
                                       !.allDay = o.allDay \/ in.allDay], fallback, early)
        rid == ParseStamp(o.rid, fallback, in.allDay, early)
    IN  IF e = Problem \/ rid = NoTime THEN Problem ELSE [e EXCEPT !.rid = rid, !.rule = FALSE, !.exdates = {}]

\* series: one bad override and the whole series is a problem.
YamlReadSeries(in, fallback, early) ==
    LET master    == YamlReadEvent(in.master, fallback, early)
        overrides == [k \in DOMAIN in.overrides |-> YamlReadOverride(in.overrides[k], in.master, fallback, early)]
    IN  IF master = Problem \/ \E k \in DOMAIN overrides : overrides[k] = Problem THEN Problem
        ELSE [master |-> master, overrides |-> overrides]

\* node, with the uid its parent is inserted under.
YamlReadTodo(t, parent, early) ==
    IF t.title = Unset THEN Problem
    ELSE [t EXCEPT !.status = IF t.status = "completed" THEN t.status ELSE "open", !.parent = parent,
                   !.long = t.long /\ t.time # NoTime, !.rule = t.rule /\ t.due # NoTime]

\* settings: only a weekday is taken.
YamlReadWeek(w) == IF w \in 0..6 THEN w ELSE NoTime

\* Entries before the i-th, as Decode counts them: overrides and subtasks
\* count only once their entry was read.
Before(seq, subs(_), i) == FoldSeq(LAMBDA x, n : n + 1 + Len(subs(x)), 0, SubSeq(seq, 1, i - 1))

YamlTooMany(f) ==
    \/ \E i \in DOMAIN f.series : Before(f.series, LAMBDA s : s.overrides, i) + 1 > MaxItems
    \/ \E i \in DOMAIN f.todos :
          Before(f.series, LAMBDA s : s.overrides, Len(f.series) + 1)
            + Before(f.todos, LAMBDA t : t.subtasks, i) + 1 > MaxItems

NotProblem(x) == x # Problem

YamlDecode(f, tz, early) ==
    [series |-> SelectSeq([i \in DOMAIN f.series |-> YamlReadSeries(f.series[i], tz, early)], NotProblem),
     todos |-> [i \in DOMAIN f.todos |->
        [todo |-> YamlReadTodo(f.todos[i].todo, Unset, early),
         subtasks |-> [k \in DOMAIN f.todos[i].subtasks |->
                         YamlReadTodo(f.todos[i].subtasks[k], f.todos[i].todo.uid, early)]]],
     week |-> YamlReadWeek(f.week)]

-----------------------------------------------------------------------------
(* iCalendar. *)

\* setWhen
SetWhen(t, e) ==
    CASE e.allDay       -> Date(t)
      [] e.tz = "UTC"   -> Exact(t)
      [] OTHER          -> Local(t, e.tz)

SetDates(ts, e) == {SetWhen(t, e) : t \in ts}

\* addAlarms and parseDuration: an alarm is triggered a duration after the start.
AddAlarms(minutes) == {-m : m \in minutes}

\* alarms: those before the start or at it, at most MaxReminders of them.
Alarms(triggers) == LET ms == {-d : d \in {d \in triggers : d <= 0}}
                    IN  CHOOSE kept \in SUBSET ms : Cardinality(kept) = IF Cardinality(ms) < MaxReminders THEN Cardinality(ms) ELSE MaxReminders

\* encodeEvent: neither the calendar nor the colour is written.
IcsEvent(e) ==
    [e EXCEPT !.cal = Unset, !.color = Unset, !.start = SetWhen(e.start, e), !.end = SetWhen(e.end, e),
              !.exdates = SetDates(e.exdates, e), !.reminders = AddAlarms(e.reminders),
              !.rid = IF e.rid = NoTime THEN Blank ELSE SetWhen(e.rid, e)]

\* todoNotes: the checklist becomes part of the notes.
TodoNotes(t) == IF t.checks = {} THEN t.body ELSE "notes and checks"

IcsPriority == [p \in 0..3 |-> CASE p = 1 -> 9 [] p = 2 -> 5 [] p = 3 -> 1 [] OTHER -> 0]

DueStart(t, early) == IF t.time = NoTime THEN t.due * DayHours ELSE Resolve(t.due * DayHours + t.time, t.tz, early)

\* encodeTodo: neither the length nor the place on the calendar is written.
IcsTodo(t, early) ==
    [uid |-> t.uid, title |-> t.title, body |-> TodoNotes(t), parent |-> t.parent, status |-> t.status,
     priority |-> IcsPriority[t.priority],
     due |-> IF t.due = NoTime THEN Blank ELSE SetWhen(DueStart(t, early), [allDay |-> t.time = NoTime, tz |-> t.tz]),
     rule |-> t.due # NoTime /\ t.rule]

IcsEncode(set, early) ==
    [format |-> "ics",
     events |-> FlattenSeq([i \in DOMAIN set.series |->
        <<IcsEvent(set.series[i].master)>>
          \o [k \in DOMAIN set.series[i].overrides |-> IcsEvent(set.series[i].overrides[k])]]),
     todos |-> FlattenSeq([i \in DOMAIN set.todos |->
        <<IcsTodo(set.todos[i].todo, early)>>
          \o [k \in DOMAIN set.todos[i].subtasks |-> IcsTodo(set.todos[i].subtasks[k], early)]])]

\* propTime: instant, all-day and zone of a property.
PropTime(p, zone, early) ==
    CASE p.kind = "date"    -> [at |-> p.day * DayHours, allDay |-> TRUE, zone |-> zone]
      [] p.kind = "exact"   -> [at |-> p.at, allDay |-> FALSE, zone |-> "UTC"]
      [] OTHER              -> [at |-> Resolve(p.wall, p.tz, early), allDay |-> FALSE, zone |-> p.tz]

\* dates
Dates(ss, zone, early) == {PropTime(s, zone, early).at : s \in ss}

\* decodeEvent
IcsReadEvent(c, tz, early) ==
    LET start == PropTime(c.start, tz, early)
        rid   == IF c.rid = Blank THEN NoTime ELSE PropTime(c.rid, start.zone, early).at
    IN  [c EXCEPT !.start = start.at, !.allDay = start.allDay, !.tz = IF start.allDay THEN Unset ELSE start.zone,
                  !.end = PropTime(c.end, start.zone, early).at,
                  !.exdates = Dates(c.exdates, start.zone, early), !.reminders = Alarms(c.reminders),
                  !.rid = IF rid # NoTime /\ start.allDay THEN Midnight(rid) ELSE rid]

\* assemble: of two masters with one uid the newer; a cancelled master is left out and a
\* cancelled occurrence is excluded.
Assemble(events) ==
    LET masters == SelectSeq(events, LAMBDA e : e.rid = NoTime /\ e.status # "cancelled")
        first   == {i \in DOMAIN masters : \A j \in 1..i - 1 : masters[j].uid # masters[i].uid}
        newest(i) == CHOOSE j \in DOMAIN masters :
            /\ masters[j].uid = masters[i].uid
            /\ \A k \in DOMAIN masters : masters[k].uid = masters[i].uid =>
                 masters[j].seq > masters[k].seq \/ (masters[j].seq = masters[k].seq /\ j <= k)
        gone(u)   == {events[i].rid : i \in {i \in DOMAIN events :
                        events[i].uid = u /\ events[i].rid # NoTime /\ events[i].status = "cancelled"}}
        series(i) == [master |-> [masters[newest(i)] EXCEPT !.exdates = @ \cup gone(masters[i].uid)],
                      overrides |-> SelectSeq(events, LAMBDA e : e.uid = masters[i].uid /\ e.rid # NoTime
                                                                 /\ e.status # "cancelled")]
    IN  [n \in 1..Cardinality(first) |->
            series(CHOOSE i \in first : Cardinality({j \in first : j <= i}) = n)]

\* decodeTodo
IcsReadTodo(c, tz, early) ==
    LET due  == IF c.due = Blank THEN [at |-> NoTime, allDay |-> TRUE, zone |-> tz] ELSE PropTime(c.due, tz, early)
        wall == Wall(due.at, IF due.allDay THEN "UTC" ELSE due.zone)
    IN  [uid |-> c.uid, title |-> c.title, body |-> c.body, parent |-> c.parent,
         status |-> IF c.status = "completed" THEN c.status ELSE "open",
         priority |-> CASE c.priority \in 1..4 -> 3 [] c.priority = 5 -> 2 [] c.priority \in 6..9 -> 1 [] OTHER -> 0,
         due |-> IF due.at = NoTime THEN NoTime ELSE wall \div DayHours,
         time |-> IF due.allDay THEN NoTime ELSE wall % DayHours, tz |-> due.zone,
         show |-> ~due.allDay, rule |-> c.rule /\ due.at # NoTime, long |-> FALSE, checks |-> {}]

\* tree: a todo whose parent is missing, or is itself a child, stands alone.
Tree(todos) ==
    LET parentOf(t) == {i \in DOMAIN todos : todos[i].uid = t.parent /\ todos[i].parent = Unset}
        top == SelectSeq(todos, LAMBDA t : t.parent = Unset \/ parentOf(t) = {})
    IN  [i \in DOMAIN top |-> [todo |-> top[i], subtasks |-> SelectSeq(todos, LAMBDA t : t.parent = top[i].uid)]]

IcsDecode(f, tz, early) ==
    [series |-> Assemble([i \in DOMAIN f.events |-> IcsReadEvent(f.events[i], tz, early)]),
     todos |-> Tree([i \in DOMAIN f.todos |-> IcsReadTodo(f.todos[i], tz, early)]), week |-> NoTime]

-----------------------------------------------------------------------------
(* CSV. *)

\* A row: one per series, overrides and excluded dates are not written.
CsvRow(s) ==
    LET e   == s.master
        day(t) == Wall(t, ZoneOf(e)) \div DayHours
        clock(t) == IF e.allDay THEN NoTime ELSE Wall(t, ZoneOf(e)) % DayHours
    IN  [uid |-> e.uid, title |-> e.title, reminders |-> e.reminders, allDay |-> e.allDay, private |-> e.private, rule |-> e.rule,
         tentative |-> e.status = "tentative", startDate |-> day(e.start), startTime |-> clock(e.start),
         endDate |-> day(e.end) - (IF e.allDay THEN 1 ELSE 0), endTime |-> clock(e.end)]

CsvEncode(set) == [format |-> "csv", rows |-> [i \in DOMAIN set.series |-> CsvRow(set.series[i])]]

\* row
CsvReadRow(r, tz, early) ==
    LET at(d, c) == Resolve(d * DayHours + c, tz, early)
        start    == IF r.allDay THEN r.startDate * DayHours ELSE at(r.startDate, r.startTime)
        given    == IF r.allDay THEN (r.endDate + 1) * DayHours ELSE at(r.endDate, r.endTime)
        end      == IF r.allDay /\ given <= start THEN start + DayHours
                    ELSE IF given < start THEN start + 1 ELSE given
    IN  IF r.title = Unset THEN Problem
        ELSE [master |-> [uid |-> r.uid, cal |-> Unset, seq |-> 0, title |-> r.title, allDay |-> r.allDay, tz |-> tz,
                          start |-> start, end |-> end, status |-> IF r.tentative THEN "tentative" ELSE "confirmed",
                          private |-> r.private, reminders |-> r.reminders, color |-> Unset, rule |-> r.rule, exdates |-> {}, rid |-> NoTime],
              overrides |-> <<>>]

CsvDecode(f, tz, early) ==
    [series |-> SelectSeq([i \in DOMAIN f.rows |-> CsvReadRow(f.rows[i], tz, early)], NotProblem),
     todos |-> <<>>, week |-> NoTime]

-----------------------------------------------------------------------------
(* The exports, the feed and the import. *)

Write(f, of) == file' = f @@ [of |-> of] /\ read' = NoFile /\ UNCHANGED account

ExportYAML == Write(YamlEncode([series |-> Calendars, todos |-> Lists], account.week), "account")

ExportICS == Write(IcsEncode([series |-> Calendars, todos |-> <<>>], TRUE), "account")

ExportCSV == Write(CsvEncode([series |-> Calendars]), "account")

\* feed, of a share whose period is from..to
Feed(from, to, busy) ==
    LET series == Group(SelectSeq(account.events, LAMBDA e : KeptInFeed(e, from, to)))
        todos  == Nest(SelectSeq(account.todos, LAMBDA t : Scheduled(t, from, to)))
    IN  \E early \in BOOLEAN :
          Write(IcsEncode([series |-> IF busy THEN [i \in DOMAIN series |-> Redact(series[i])] ELSE series,
                           todos |-> IF busy THEN <<>> ELSE todos], early),
                IF busy THEN "busy feed" ELSE "feed")

TooMany == CASE file.format = "yaml" -> YamlTooMany(file)
             [] file.format = "ics"  -> Len(file.events) + Len(file.todos) > MaxItems
             [] OTHER                -> Len(file.rows) > MaxItems

\* Decode of the file's format, for an importer whose zone is tz.
Decode(tz, early) ==
    CASE file.format = "yaml" -> YamlDecode(file, tz, early)
      [] file.format = "ics"  -> IcsDecode(file, tz, early)
      [] OTHER                -> CsvDecode(file, tz, early)

Import(tz) ==
    /\ file # NoFile /\ read = NoFile /\ ~TooMany
    /\ \E early \in BOOLEAN :
         read' = [format |-> file.format, of |-> file.of, set |-> Decode(tz, early), tz |-> tz]
    /\ UNCHANGED <<account, file>>

FormatsInit == account \in Given /\ file = NoFile /\ read = NoFile

FormatsNext ==
    \/ ExportYAML \/ ExportICS \/ ExportCSV
    \/ \E busy \in BOOLEAN : Feed(0, 2 * DayHours, busy)
    \/ \E tz \in Zones \cup {"UTC"} : Import(tz)

FormatsSpec == FormatsInit /\ [][FormatsNext]_formatVars

-----------------------------------------------------------------------------
(* Properties. *)

FormatsTypeOK ==
    /\ account.week \in 0..6
    /\ \A e \in Range(account.events) : e.start \in Nat /\ e.end \in Nat /\ e.start <= e.end
    /\ file.format \in {"none", "yaml", "ics", "csv"}
    /\ read.format \in {"none", file.format}

Found == IF read = NoFile THEN {} ELSE Range(read.set.series)

\* Two times that look the same on the clock of zone z.
SameClock(t, u, z) == Wall(t, z) = Wall(u, z)

SameEvent(e, r) ==
    /\ r.uid = e.uid /\ r.title = e.title /\ r.allDay = e.allDay /\ r.private = e.private /\ r.rule = e.rule /\ r.reminders = e.reminders
    /\ SameClock(r.start, e.start, ZoneOf(e)) /\ SameClock(r.end, e.end, ZoneOf(e))
    /\ ~e.allDay => r.tz = e.tz

\* A series whose overrides are timed like it, and whose uid no other series has.
Regular(s) ==
    /\ \A o \in Range(s.overrides) : o.allDay = s.master.allDay /\ o.tz = s.master.tz
    /\ \A c \in Range(Calendars) : c.master.uid = s.master.uid => c = s

\* YAML: the same series, todos and settings, to the instant.
YamlKeeps ==
    LET bare(e) == [e EXCEPT !.seq = 0]
    IN  /\ \A s \in Range(Calendars) : Regular(s) =>
             [master |-> bare(s.master), overrides |-> [k \in DOMAIN s.overrides |-> bare(s.overrides[k])]] \in Found
        /\ read.set.todos = Lists /\ read.set.week = account.week

\* iCalendar: what is not cancelled, to the clock of its zone, and a cancelled occurrence
\* still does not happen.
IcsKeeps ==
    \A s \in Range(Calendars) : Regular(s) /\ s.master.status # "cancelled" =>
        \E r \in Found :
          LET at(t) == \E x \in r.master.exdates : SameClock(x, t, ZoneOf(s.master)) IN
          /\ SameEvent(s.master, r.master)
          /\ \A d \in s.master.exdates : at(d)
          /\ \A o \in Range(s.overrides) :
               IF o.status = "cancelled" THEN at(o.rid)
               ELSE \E x \in Range(r.overrides) :
                      SameEvent(o, x) /\ SameClock(x.rid, o.rid, ZoneOf(s.master))

\* CSV: titled events at their day and hour, which are now the importer's.
CsvKeeps ==
    \A s \in Range(Calendars) : s.master.title # Unset =>
        \E r \in Found :
          /\ r.master.uid = s.master.uid /\ r.master.allDay = s.master.allDay /\ r.master.reminders = s.master.reminders
          /\ Wall(r.master.start, ZoneOf(r.master)) = Wall(s.master.start, ZoneOf(s.master))
          /\ Wall(r.master.end, ZoneOf(r.master)) = Wall(s.master.end, ZoneOf(s.master))

\* An export of the account reads back as the account, up to what its format cannot say:
\* whatever the importer's zone and however an hour that comes twice is read
\* (yamlfmt, ical and csvfmt, Encode and Decode).
ReadsBack ==
    (read # NoFile /\ read.of = "account") =>
        CASE read.format = "yaml" -> YamlKeeps
          [] read.format = "ics"  -> IcsKeeps
          [] OTHER                -> CsvKeeps

\* The feed of a share holds no private event, no occurrence of a private series, and
\* with busy detail no title and no todo (exporter.Range, redactSet).
FeedIsPublic ==
    (read # NoFile /\ read.of # "account") =>
        /\ \A r \in Found :
             /\ \A e \in {r.master} \cup Range(r.overrides) :
                  ~e.private /\ (read.of = "busy feed" => e.title = "Busy")
             /\ \E s \in Range(Calendars) : s.master.uid = r.master.uid /\ ~s.master.private
        /\ read.of = "busy feed" => read.set.todos = <<>>

\* "It imports back with nothing lost" (api/openapi.yaml): every series is read from the
\* account's own YAML export, and each of its overrides.
NothingLost ==
    read.format = "yaml" =>
        \A s \in Range(Calendars) : \E r \in Found :
            r.master.uid = s.master.uid /\ Len(r.overrides) = Len(s.overrides)
=============================================================================
