----------------------------- MODULE TodoForms ------------------------------
(***************************************************************************)
(* Editing one todo through its form and undoing it: the pages of          *)
(* internal/web/todos (todos.go, rows.go, undo.go), applyTodo of           *)
(* internal/service/todo_apply.go, the columns of internal/store/pg, the   *)
(* undo entries of internal/undo and internal/web/undoweb.                 *)
(*                                                                         *)
(* The undo of an edit is a snapshot of the form as it would have been     *)
(* shown before the edit, posted again later.  Every field takes the trip  *)
(* todo -> form -> patch -> todo, and the handler reads the todo for the   *)
(* snapshot outside the transaction of the edit.  The empty string is a    *)
(* field left empty, Unset a field a patch does not name; title, body,     *)
(* priority and reminders, which are copied as they are, are one field.    *)
(***************************************************************************)
EXTENDS Naturals, FiniteSets

CONSTANTS Handlers,      \* requests of the pages and of the API
          MaxFormEdits,  \* bound on edits asked for
          MaxTicks       \* bound on the clock; an undo entry lives one tick

VARIABLES todo,     \* the row of the todo, with the version
          page,     \* a form open in a browser: its values and the etag in it
          handlers, \* what every request read before its transaction
          undos,    \* the table undo_entries, with a history of the edit each stands for
          edits,    \* edits asked for so far
          ticks

formsVars == <<todo, page, handlers, undos, edits, ticks>>

Asks == edits < MaxFormEdits /\ edits' = edits + 1

Unset == "unset"
Null == "null"
Viewer == "home"     \* the time zone of the viewer, what an unset zone shows as
Presets == {"FREQ=DAILY"}

Fields == [text : {"x", "y"}, due : {"", "d1", "d2"}, time : {"", "t1"}, dur : {"", "30"},
           tz : {"", "home", "away"}, rule : {"", "FREQ=DAILY", "FREQ=DAILY;COUNT=3"}, show : BOOLEAN]

\* What the checks of the table and the end of applyTodo allow.
Valid(t) == /\ t.time # "" => t.due # "" /\ t.tz # ""
            /\ t.dur # "" => t.time # ""
            /\ t.rule # "" => t.due # ""

-----------------------------------------------------------------------------
(* The columns.                                                            *)

\* Mutant: a date is written only with its time.
DueArgsTimed(t) == [f \in {"due", "time", "dur"} |-> IF t[f] = "" \/ t.time = "" THEN Null ELSE t[f]]

\* dueArgs: an absent date, time or duration is NULL.
DueArgs(t) == [f \in {"due", "time", "dur"} |-> IF t[f] = "" THEN Null ELSE t[f]]

\* setDue and scanTodo.
SetDue(r) == [f \in {"due", "time", "dur"} |-> IF r[f] = Null THEN "" ELSE r[f]]

Row(t) == [t EXCEPT !.due = DueArgs(t).due, !.time = DueArgs(t).time, !.dur = DueArgs(t).dur]
ScanTodo(r) == [r EXCEPT !.due = SetDue(r).due, !.time = SetDue(r).time, !.dur = SetDue(r).dur]

-----------------------------------------------------------------------------
(* todo -> form -> patch -> todo.                                          *)

RepeatValue(rule) == IF rule = "" THEN [repeat |-> "none", rrule |-> ""]
                     ELSE IF rule \in Presets THEN [repeat |-> "daily", rrule |-> ""]
                     ELSE [repeat |-> "custom", rrule |-> rule]

RepeatRule(f) == CASE f.repeat = "custom" -> f.rrule
                   [] f.repeat = "daily" -> "FREQ=DAILY"
                   [] OTHER -> ""

Shown(t) == IF t.show = (t.time # "") THEN "auto" ELSE IF t.show THEN "yes" ELSE "no"

FormValues(t) ==
    [text |-> t.text, due |-> t.due, time |-> t.time, dur |-> t.dur,
     tz |-> IF t.tz = "" THEN Viewer ELSE t.tz,
     repeat |-> RepeatValue(t.rule).repeat, rrule |-> RepeatValue(t.rule).rrule, show |-> Shown(t)]

TodoPatch(f) ==
    [text |-> f.text, due |-> f.due, time |-> f.time,
     dur |-> IF f.time = "" THEN "" ELSE f.dur,
     tz |-> f.tz, rule |-> RepeatRule(f),
     show |-> IF f.show = "auto" THEN (IF f.due # "" /\ f.time # "" THEN "yes" ELSE "no") ELSE f.show]

NoPatch == [text |-> Unset, due |-> Unset, time |-> Unset, dur |-> Unset, tz |-> Unset, rule |-> Unset, show |-> Unset]

\* movePatch: a drop on a day clears the time, a drop on an hour shows the todo on the calendar.
MovePatch(day, time) ==
    IF time = "" THEN [NoPatch EXCEPT !.due = day, !.time = "", !.dur = ""]
    ELSE [NoPatch EXCEPT !.due = day, !.time = time, !.tz = Viewer, !.show = "yes"]

Given(old, new) == IF new = Unset THEN old ELSE new

\* applyTodo: clearing the date clears time, duration and rule, clearing the time the duration.
ApplyTodo(t, p) ==
    LET undated == p.due = "" IN
    [text |-> Given(t.text, p.text),
     due  |-> Given(t.due, p.due),
     time |-> IF p.time # Unset THEN p.time ELSE IF undated THEN "" ELSE t.time,
     dur  |-> IF p.dur # Unset THEN p.dur ELSE IF undated \/ p.time = "" THEN "" ELSE t.dur,
     tz   |-> Given(t.tz, p.tz),
     rule |-> IF p.rule # Unset THEN p.rule ELSE IF undated THEN "" ELSE t.rule,
     show |-> IF p.show = Unset THEN t.show ELSE p.show = "yes"]

-----------------------------------------------------------------------------
(* Requests.  Each reads the todo, then saves in a transaction of its own. *)

Idle == [pc |-> "idle"]
NoPage == [etag |-> 0]
Now == ScanTodo(todo.row)

\* loadTodo: the todo as a handler reads it, before the transaction.
LoadTodo == Now

\* edit: the page with the form and the etag.
Edit == /\ page = NoPage /\ edits < MaxFormEdits
        /\ page' = [values |-> FormValues(Now), etag |-> todo.version]
        /\ UNCHANGED <<todo, handlers, undos, edits, ticks>>

\* update, up to the transaction: loadTodo and the form the user filled in.
LoadUpdate(h) ==
    /\ handlers[h].pc = "idle" /\ page # NoPage
    /\ \E f \in {"due", "time", "tz", "repeat", "show"} :
         \E v \in CASE f = "due" -> {"", "d2"} [] f = "time" -> {""} [] f = "tz" -> {"home"}
                    [] f = "repeat" -> {"none"} [] f = "show" -> {"yes", "no"} :
           handlers' = [handlers EXCEPT ![h] =
               [pc |-> "save", read |-> LoadTodo, patch |-> TodoPatch([page.values EXCEPT ![f] = v]),
                etag |-> page.etag, undo |-> "form"]]
    /\ page' = NoPage
    /\ Asks /\ UNCHANGED <<todo, undos, ticks>>

\* moveTime, up to the transaction: a drop on the calendar carries no etag.
LoadMove(h) ==
    /\ handlers[h].pc = "idle"
    /\ \E time \in {"", "t1"} :
         handlers' = [handlers EXCEPT ![h] =
             [pc |-> "save", read |-> LoadTodo, patch |-> MovePatch("d2", time), etag |-> 0, undo |-> "move"]]
    /\ Asks /\ UNCHANGED <<todo, page, undos, ticks>>

\* A patch of the API: If-Match is the client's choice and it leaves no undo entry.
LoadPatch(h) ==
    /\ handlers[h].pc = "idle"
    /\ \E p \in {[NoPatch EXCEPT !.text = "y"], [NoPatch EXCEPT !.due = ""]} :
         handlers' = [handlers EXCEPT ![h] =
             [pc |-> "save", read |-> Now, patch |-> p, etag |-> 0, undo |-> "none"]]
    /\ Asks /\ UNCHANGED <<todo, page, undos, ticks>>

\* CheckIfMatch of withTodo; a form without a tag writes over whatever is there.
IfMatch(h) == handlers[h].etag \in {0, todo.version}

\* Todos.Update: the transaction.
Save(h) ==
    LET t == ApplyTodo(Now, handlers[h].patch) IN
    /\ handlers[h].pc = "save" 
    /\ IfMatch(h) /\ Valid(t)
    /\ todo' = [row |-> Row(t), version |-> todo.version + 1]
    /\ handlers' = [handlers EXCEPT ![h] = [pc |-> "record", read |-> @.read, undo |-> @.undo,
                                            was |-> Now, version |-> todo.version + 1]]
    /\ UNCHANGED <<page, undos, edits, ticks>>

Refused(h) ==
    /\ handlers[h].pc = "save"
    /\ ~IfMatch(h) \/ ~Valid(ApplyTodo(Now, handlers[h].patch))
    /\ handlers' = [handlers EXCEPT ![h] = Idle]
    /\ UNCHANGED <<todo, page, undos, edits, ticks>>

\* CreateUndo and ClaimUndo: an entry is taken once and before it expires.
CreateUndo(e) == undos' = undos \cup {e}
ClaimUndo(e) == /\ e \in undos /\ ~e.used /\ ticks < e.expires
                /\ undos' = (undos \ {e}) \cup {[e EXCEPT !.used = TRUE]}

\* undo.Record, after the commit; a failure to record is only logged.
Record(h) ==
    /\ handlers[h].pc = "record"
    /\ \/ /\ handlers[h].undo # "none"
          /\ CreateUndo([values |-> FormValues(handlers[h].read), used |-> FALSE, expires |-> ticks + 1,
                         kind |-> handlers[h].undo, was |-> handlers[h].was, version |-> handlers[h].version])
       \/ undos' = undos
    /\ handlers' = [handlers EXCEPT ![h] = Idle]
    /\ UNCHANGED <<todo, page, edits, ticks>>

\* undoweb.apply: the entry is spent whatever comes of it.
Take(h, e) ==
    /\ handlers[h].pc = "idle" /\ ClaimUndo(e)
    /\ handlers' = [handlers EXCEPT ![h] = [pc |-> "undo", entry |-> e]]
    /\ UNCHANGED <<todo, page, edits, ticks>>

\* ApplyUndo of todo_restore: an update without an etag.
ApplyUndo(h) ==
    LET t == ApplyTodo(Now, TodoPatch(handlers[h].entry.values)) IN
    /\ handlers[h].pc = "undo" /\ Valid(t)
    /\ todo' = [row |-> Row(t), version |-> todo.version + 1]
    /\ handlers' = [handlers EXCEPT ![h] = Idle]
    /\ UNCHANGED <<page, undos, edits, ticks>>

\* Time matters once there is an entry to expire.
Clock == undos # {} /\ ticks < MaxTicks /\ ticks' = ticks + 1 /\ UNCHANGED <<todo, page, handlers, undos, edits>>

-----------------------------------------------------------------------------
FormsInit ==
    /\ \E t \in Fields : Valid(t) /\ t.text = "x" /\ t.due # "d2" /\ t.tz # "home" /\ todo = [row |-> Row(t), version |-> 1]
    /\ page = NoPage
    /\ handlers = [h \in Handlers |-> Idle] /\ undos = {} /\ edits = 0 /\ ticks = 0

FormsNext ==
    \/ Edit \/ Clock
    \/ \E h \in Handlers :
         \/ LoadUpdate(h) \/ LoadMove(h) \/ LoadPatch(h) \/ Save(h) \/ Refused(h) \/ Record(h)
         \/ (\E e \in undos : Take(h, e)) \/ ApplyUndo(h)

FormsSpec == FormsInit /\ [][FormsNext]_formsVars

FormsTypeOK == /\ Now \in Fields /\ Valid(Now) /\ todo.version \in 1..2 * MaxFormEdits + 2
               /\ page.etag \in 0..todo.version /\ ticks \in 0..MaxTicks /\ edits \in 0..MaxFormEdits
               /\ \A e \in undos : e.was \in Fields /\ e.used \in BOOLEAN

-----------------------------------------------------------------------------
\* The same fields, but for a zone that was not set: the form fills in the viewer's.
Alike(t, u) == [t EXCEPT !.tz = u.tz] = u /\ (u.tz # "" => t.tz = u.tz)

(* Undoing an edit made in the form gives back the todo the edit replaced, *)
(* when nothing was saved in between: every field survives the trip to the *)
(* form and back, and the snapshot, read before the transaction, is of the *)
(* version the transaction replaced (update, formValues, todoPatch,        *)
(* ApplyUndo).                                                             *)
UndoGaveBack ==
    \A h \in Handlers :
      handlers[h].pc = "undo" /\ handlers[h].entry.kind = "form"
        /\ todo.version = handlers[h].entry.version /\ todo' # todo
        /\ handlers'[h].pc = "idle"
      => Alike(ScanTodo(todo'.row), handlers[h].entry.was)

\* Of every step.
UndoGivesBack == [][UndoGaveBack]_formsVars
=============================================================================
