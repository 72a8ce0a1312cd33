----------------------------- MODULE EventForms -----------------------------
(***************************************************************************)
(* Editing an event through the pages of internal/web/calendar (events.go, *)
(* undo.go) and undoing it: the form of an event or of one occurrence of a *)
(* series, the patch made of it, applyEvent of                             *)
(* internal/service/event_apply.go, and the undo entry, which is the form  *)
(* as it was shown, posted again.                                          *)
(*                                                                         *)
(* Time is counted in slots, Slots of them a day; a zone is its offset.    *)
(* The event may repeat daily; an occurrence changed alone is the one      *)
(* override.  The scope "following", which leaves no undo entry, and the   *)
(* other texts of the form are in module EventSeries or left out.          *)
(***************************************************************************)
EXTENDS Integers, FiniteSets

CONSTANTS Posts,        \* requests
          Slots,        \* slots of a day
          Zones,        \* offsets of the time zones
          Horizon,      \* the calendar looks at the days 0..Horizon
          MaxPatches    \* bound on API patches

VARIABLES event,    \* the row of the event
          override, \* the row of the occurrence changed alone, if there is one
          form,     \* an open form
          posts,    \* what each request read before its transaction
          entries,  \* undo entries, with a history of what the edit replaced
          patches,
          saved     \* the one edit of a behaviour was made

eventFormsVars == <<event, override, form, posts, entries, patches, saved>>

NoTime == -1
NoInst == -1
NoRow == [st |-> "none"]
Closed == [st |-> "closed"]

Event == [st : {"none", "live", "trash"}, allDay : BOOLEAN, start : Int, end : Int, zone : Zones, daily : BOOLEAN, version : Nat]

-----------------------------------------------------------------------------
(* Times.                                                                  *)

\* Event.Zone: all-day events are in UTC.
Offset(e) == IF e.allDay THEN 0 ELSE e.zone
Duration(e) == e.end - e.start
LocalDay(e, t) == (t + Offset(e)) \div Slots
LocalTime(e, t) == (t + Offset(e)) % Slots

IsMaster(e) == e.daily
Contains(e, t) == t >= e.start /\ (t - e.start) % Slots = 0

\* The occurrences of the event the calendar shows.
Line(e) == [allDay |-> e.allDay, start |-> e.start, end |-> e.end]
Lines(e, o) ==
    IF e.st # "live" THEN {}
    ELSE IF ~IsMaster(e) THEN {Line(e)}
    ELSE {Line([e EXCEPT !.start = t, !.end = t + Duration(e)]) :
             t \in {u \in e.start..(Horizon * Slots + Slots - 1) : Contains(e, u) /\ (o # NoRow => u # o.inst)}}
         \cup (IF o # NoRow /\ Contains(e, o.inst) THEN {Line(o)} ELSE {})

-----------------------------------------------------------------------------
(* event -> form -> patch -> event.                                        *)

\* atInstance: the master as it is at one of its occurrences.
AtInstance(e, i) == IF i = NoInst \/ ~IsMaster(e) THEN e ELSE [e EXCEPT !.start = i, !.end = i + Duration(e)]

\* formValues as it would be if it showed the end of an all-day event as it is stored.
FormValuesRawEnd(e) ==
    [allDay |-> e.allDay, startDate |-> LocalDay(e, e.start), endDate |-> LocalDay(e, e.end),
     startTime |-> IF e.allDay THEN NoTime ELSE LocalTime(e, e.start),
     endTime |-> IF e.allDay THEN NoTime ELSE LocalTime(e, e.end), zone |-> e.zone, daily |-> e.daily]

\* formValues: the last day of an all-day event is the day before its end.
FormValues(e) ==
    [allDay |-> e.allDay, startDate |-> LocalDay(e, e.start),
     endDate |-> IF e.allDay THEN LocalDay(e, e.end) - 1 ELSE LocalDay(e, e.end),
     startTime |-> IF e.allDay THEN NoTime ELSE LocalTime(e, e.start),
     endTime |-> IF e.allDay THEN NoTime ELSE LocalTime(e, e.end), zone |-> e.zone, daily |-> e.daily]

\* eventPatch: dates as many days earlier as the instance shown is after the series' start;
\* an end before the start on the same day is on the next.
EventPatch(f, allowRule, shift) ==
    LET late == f.endDate = f.startDate /\ f.endTime < f.startTime
    IN  [allDay |-> f.allDay, startDay |-> f.startDate - shift,
         endDay |-> f.endDate - shift + (IF f.allDay \/ late THEN 1 ELSE 0),
         startTime |-> f.startTime, endTime |-> f.endTime, zone |-> f.zone,
         daily |-> IF allowRule THEN {f.daily} ELSE {}]

\* shiftDays: an edit of the whole series shown at one of its occurrences.
ShiftDays(e, i, scope) ==
    IF scope # "all" \/ ~IsMaster(e) \/ i = NoInst THEN 0 ELSE LocalDay(e, i) - LocalDay(e, e.start)

\* parseEventTime, in the zone the event will have.
Parse(p, day, time) == IF p.allDay THEN day * Slots ELSE day * Slots + time - p.zone

\* applyEvent: timing and recurrence; an override keeps no rule.
ApplyEvent(e, p) ==
    [e EXCEPT !.allDay = p.allDay, !.zone = IF p.allDay THEN @ ELSE p.zone,
              !.start = Parse(p, p.startDay, p.startTime), !.end = Parse(p, p.endDay, p.endTime),
              !.daily = IF p.daily = {} THEN @ ELSE CHOOSE b \in p.daily : TRUE]

\* validateEvent, and a timed event needs its times.
ValidPatch(e, p) == /\ p.allDay \/ (p.startTime # NoTime /\ p.endTime # NoTime)
                    /\ LET n == ApplyEvent(e, p) IN IF n.allDay THEN n.end > n.start ELSE n.end >= n.start

\* newOverride: the occurrence as a row of its own.
NewOverride(e, i) == [st |-> "live", inst |-> i, allDay |-> e.allDay, start |-> i, end |-> i + Duration(e),
                      zone |-> e.zone, daily |-> FALSE]

-----------------------------------------------------------------------------
(* Events.Update.                                                          *)

\* resolve: a series needs an occurrence of it for the scope "this"; without one the scope is "all".
ScopeOf(e, scope, i) == IF ~IsMaster(e) \/ i = NoInst THEN "all" ELSE IF scope = "" THEN "this" ELSE scope
Resolves(e, scope, i) == e.st = "live" /\ (IsMaster(e) /\ i # NoInst => Contains(e, i))
                         /\ (IsMaster(e) /\ i = NoInst => scope \in {"", "all"})

Target(e, o, i) == IF o # NoRow /\ o.inst = i THEN o ELSE NewOverride(e, i)

UpdateAllowed(scope, i, p) ==
    /\ Resolves(event, scope, i)
    /\ ValidPatch(IF ScopeOf(event, scope, i) = "this" THEN Target(event, override, i) ELSE event, p)

UpdateEvent(scope, i, p) ==
    /\ UpdateAllowed(scope, i, p)
    /\ IF ScopeOf(event, scope, i) = "this"
       THEN override' = ApplyEvent(Target(event, override, i), p) /\ event' = event
       ELSE event' = [ApplyEvent(event, p) EXCEPT !.version = @ + 1] /\ override' = override

-----------------------------------------------------------------------------
(* The pages.                                                              *)

Idle == [pc |-> "idle"]

\* scopesFor.
ScopesFor(e, i) == IF IsMaster(e) /\ i # NoInst THEN {"this", "all"} ELSE {""}
Instances(e) == {NoInst} \cup (IF IsMaster(e) THEN {t \in 0..(Horizon * Slots + Slots - 1) : Contains(e, t)} ELSE {})

\* editEvent: the form of the event or of one occurrence, with the etag.
EditEvent ==
    /\ form = Closed /\ ~saved /\ event.st = "live"
    /\ \E i \in Instances(event) :
         form' = [st |-> "open", values |-> FormValues(AtInstance(event, i)), inst |-> i, etag |-> event.version]
    /\ UNCHANGED <<event, override, posts, entries, patches, saved>>

\* What a user may change in the form.
Filled(f) ==
    {[f EXCEPT !.startDate = @ + 1, !.endDate = @ + 1], [f EXCEPT !.endDate = @ + 1],
     [f EXCEPT !.allDay = TRUE],
     [f EXCEPT !.allDay = FALSE, !.startTime = 0, !.endTime = 1],
     [f EXCEPT !.daily = ~@]}

\* updateEvent, up to the transaction: the event is read again, the form becomes a patch.
PostUpdate(h) ==
    /\ posts[h] = Idle /\ form # Closed /\ event.st = "live"
    /\ \E f \in Filled(form.values), scope \in ScopesFor(event, form.inst) :
         posts' = [posts EXCEPT ![h] =
            [pc |-> "save", read |-> event, scope |-> scope, inst |-> form.inst, etag |-> form.etag,
             patch |-> EventPatch(f, ~(IsMaster(event) /\ scope = "this"), ShiftDays(event, form.inst, scope))]]
    /\ form' = Closed /\ saved' = TRUE
    /\ UNCHANGED <<event, override, entries, patches>>

\* moveEvent: a drop on the grid, an instant and the duration the event has.
MovePatch(e, t) == LET n == [e EXCEPT !.start = t, !.end = t + Duration(e)]
                   IN  [allDay |-> e.allDay, startDay |-> LocalDay(n, n.start), endDay |-> LocalDay(n, n.end),
                        startTime |-> LocalTime(n, n.start), endTime |-> LocalTime(n, n.end), zone |-> e.zone, daily |-> {}]

MoveEvent(h) ==
    /\ posts[h] = Idle /\ ~saved /\ event.st = "live" /\ ~event.allDay
    /\ \E i \in Instances(event) :
         posts' = [posts EXCEPT ![h] =
            [pc |-> "save", read |-> event, scope |-> IF i = NoInst THEN "" ELSE "this", inst |-> i, etag |-> event.version,
             patch |-> MovePatch(event, (IF i = NoInst THEN event.start ELSE i) + 1)]]
    /\ saved' = TRUE
    /\ UNCHANGED <<event, override, form, entries, patches>>

\* The transaction of either.
SaveEvent(h) ==
    /\ posts[h].pc = "save" /\ posts[h].etag = event.version
    /\ UpdateEvent(posts[h].scope, posts[h].inst, posts[h].patch)
    /\ posts' = [posts EXCEPT ![h] = [pc |-> "record", read |-> @.read, scope |-> @.scope, inst |-> @.inst,
                                      was |-> Lines(event, override), now |-> <<event', override'>>,
                                      again |-> override # NoRow]]
    /\ UNCHANGED <<form, entries, patches, saved>>

RefuseEvent(h) ==
    /\ posts[h].pc = "save"
    /\ posts[h].etag # event.version \/ ~UpdateAllowed(posts[h].scope, posts[h].inst, posts[h].patch)
    /\ posts' = [posts EXCEPT ![h] = Idle]
    /\ UNCHANGED <<event, override, form, entries, patches, saved>>

\* undo.Record: the snapshot is the form of the event as the handler read it, at the instance.
RecordUndo(h) ==
    /\ posts[h].pc = "record"
    /\ entries' = entries \cup {[kind |-> "restore", values |-> FormValues(AtInstance(posts[h].read, posts[h].inst)),
                                 scope |-> posts[h].scope, inst |-> posts[h].inst,
                                 was |-> posts[h].was, now |-> posts[h].now, again |-> posts[h].again]}
    /\ posts' = [posts EXCEPT ![h] = Idle]
    /\ UNCHANGED <<event, override, form, patches, saved>>

\* newEvent and createEvent: a form of its own, whose undo deletes the event.
NewValues == {[allDay |-> FALSE, startDate |-> 0, endDate |-> 0, startTime |-> 1, endTime |-> t, zone |-> z, daily |-> b] :
                 t \in {0, 1}, z \in Zones, b \in BOOLEAN}

CreateEvent(h) ==
    \E f \in NewValues :
        /\ posts[h] = Idle /\ ~saved /\ event.st = "none" /\ saved' = TRUE
        /\ event' = [ApplyEvent(event, EventPatch(f, TRUE, 0)) EXCEPT !.st = "live", !.version = @ + 1]
        /\ entries' = entries \cup {[kind |-> "create", scope |-> "", was |-> {}, now |-> <<event', override>>,
                                     again |-> FALSE]}
        /\ UNCHANGED <<override, form, posts, patches>>

\* deleteEvent of the whole event, which records an undo, and the restore that undoes it.
DeleteEvent(h) ==
    /\ posts[h] = Idle /\ ~saved /\ event.st = "live" /\ saved' = TRUE
    /\ event' = [event EXCEPT !.st = "trash", !.version = @ + 1]
    /\ entries' = entries \cup {[kind |-> "delete", scope |-> "", was |-> Lines(event, override),
                                 now |-> <<event', override>>, again |-> FALSE]}
    /\ UNCHANGED <<override, form, posts, patches>>

\* ApplyUndo: every entry is claimed once; the form is posted with no shift and no etag.
UndoPatch(n) == EventPatch(n.values, n.scope # "this", 0)

ApplyUndo(n) ==
    /\ n \in entries /\ entries' = entries \ {n}
    /\ \/ n.kind = "restore" /\ UpdateEvent(n.scope, n.inst, UndoPatch(n))
       \/ /\ n.kind = "delete" /\ event.st = "trash" /\ UNCHANGED override
          /\ event' = [event EXCEPT !.st = "live", !.version = @ + 1]
       \/ /\ n.kind = "create" /\ event.st = "live" /\ UNCHANGED override
          /\ event' = [event EXCEPT !.st = "trash", !.version = @ + 1]
       \/ n.kind = "create" /\ event.st = "trash" /\ UNCHANGED <<event, override>>
       \/ n.kind = "restore" /\ ~UpdateAllowed(n.scope, n.inst, UndoPatch(n)) /\ UNCHANGED <<event, override>>
    /\ UNCHANGED <<form, posts, patches, saved>>

\* A patch of the API moves the event by a slot.
PatchEvent ==
    /\ patches < MaxPatches /\ patches' = patches + 1 /\ event.st = "live" /\ ~event.allDay /\ override = NoRow
    /\ event' = [event EXCEPT !.start = @ + 1, !.end = @ + 1, !.version = @ + 1]
    /\ UNCHANGED <<override, form, posts, entries, saved>>

-----------------------------------------------------------------------------
EventFormsInit ==
    /\ \E st \in {"none", "live"}, allDay, daily \in BOOLEAN, z \in Zones, s \in 0..(Slots - 1), d \in 1..Slots :
         /\ allDay \/ st = "none" => s = 0 /\ d = Slots /\ z = 0
         /\ st = "none" => ~allDay /\ ~daily
         /\ event = [st |-> st, allDay |-> allDay, start |-> s, end |-> s + d, zone |-> z, daily |-> daily,
                     version |-> 1]
    /\ override = NoRow /\ form = Closed /\ posts = [h \in Posts |-> Idle] /\ entries = {} /\ patches = 0
    /\ saved = FALSE

EventFormsNext ==
    \/ EditEvent \/ PatchEvent
    \/ \E h \in Posts : PostUpdate(h) \/ MoveEvent(h) \/ SaveEvent(h) \/ RefuseEvent(h) \/ RecordUndo(h) \/ CreateEvent(h) \/ DeleteEvent(h)
    \/ \E n \in entries : ApplyUndo(n)

EventFormsSpec == EventFormsInit /\ [][EventFormsNext]_eventFormsVars

EventFormsTypeOK == /\ event \in Event /\ event.end >= event.start
                    /\ override # NoRow => override.end >= override.start /\ ~override.daily
                    /\ patches \in 0..MaxPatches /\ saved \in BOOLEAN

-----------------------------------------------------------------------------
\* An undo taken while nothing was saved since the edit it undoes.
\* An edit, from a page opened before, of an occurrence that was changed in the meantime is left out:
\* its snapshot is the series at that occurrence, so that its undo reverts both edits.
UndoesOwn(n) == n \in entries /\ n \notin entries' /\ n.now = <<event, override>> /\ ~n.again

(* Undoing an edit of one event, of one occurrence or a deletion gives the *)
(* calendar back as it was before, when nothing was saved since: dates,    *)
(* times, zones and all-day ends survive the form and the patch            *)
(* (updateEvent, moveEvent, formValues, eventPatch, ApplyUndo).            *)
EventUndoGaveBack ==
    \A n \in entries : UndoesOwn(n) /\ n.scope # "all" => Lines(event', override') = n.was

\* Of every step.
EventUndoGivesBack == [][EventUndoGaveBack]_eventFormsVars

(* The same of an edit of a whole series, made from one of its             *)
(* occurrences: the snapshot is shown at the occurrence, and the undo      *)
(* posts it without the shift of days updateEvent applies.                 *)
SeriesUndoGivesBack ==
    [][\A n \in entries : UndoesOwn(n) /\ n.scope = "all" => Lines(event', override') = n.was]_eventFormsVars
=============================================================================
