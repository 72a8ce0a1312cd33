------------------------------ MODULE Settings ------------------------------
(***************************************************************************)
(* Calendars, todo lists and the settings of the user (service/calendars,  *)
(* todo_lists and settings over store/pg): read by a page or a client,     *)
(* written back under a row lock when the tag the client saw still stands. *)
(* The tag is updated_at, the time the last writing transaction began,     *)
(* which is before it got the lock.  The settings are two tables, read one *)
(* after the other.  The profile page sends no tag and turns the sleep     *)
(* schedule into a form and back.                                          *)
(***************************************************************************)
EXTENDS Integers, FiniteSets

CONSTANTS
    Boxes,          \* ids of calendars and lists; 1 is the default one
    Clients,        \* pages and API clients
    SleepDays,      \* days of the week
    Windows,        \* sleep windows, numbers from 1; the form starts from DefaultWindow
    DefaultWindow,
    MaxBoxes,       \* MaxCalendars, MaxTodoLists
    MaxStamp        \* bound: writing transactions

\* What the constants must satisfy: 0 is the settings and no box, no window is numbered 0, and
\* the week has a first day.
SettingsAssumption ==
    /\ 1 \in Boxes /\ 0 \notin Boxes /\ MaxStamp \in Nat
    /\ DefaultWindow \in Windows /\ 0 \notin Windows
    /\ SleepDays \subseteq Nat /\ \E d \in SleepDays : \A e \in SleepDays : d <= e

Schedules == [SleepDays -> {0} \cup Windows]      \* 0: no window on that day
NoSleep   == [d \in SleepDays |-> 0]

VARIABLES
    boxes,      \* id -> [live, tag, val]
    user,       \* the user's row: [tag, val, on]
    sleep,      \* sleep_schedule
    clients,    \* client -> what it holds
    stamp       \* the database's clock

settingsVars == <<boxes, user, sleep, clients, stamp>>

Vals    == {1, 2}
Nothing == [val |-> 1, on |-> FALSE, sleep |-> NoSleep]
Free    == [pc |-> "idle", on |-> 0, tag |-> 0, match |-> FALSE, form |-> FALSE,
            shown |-> Nothing, put |-> Nothing, at |-> 0, last |-> "none"]

Shown  == [val : Vals, on : BOOLEAN, sleep : Schedules]
Client == [pc : {"idle", "reading", "shown", "begun", "counted"}, on : Boxes \cup {0}, tag : 0..MaxStamp,
           match : BOOLEAN, form : BOOLEAN, shown : Shown, put : Shown, at : 0..MaxStamp,
           last : {"none", "saved", "refused"}]

SettingsTypeOK ==
    /\ boxes \in [Boxes -> [live : BOOLEAN, tag : 0..MaxStamp, val : Vals]]
    /\ user \in [tag : 0..MaxStamp, val : Vals, on : BOOLEAN]
    /\ sleep \in Schedules /\ stamp \in 0..MaxStamp
    /\ clients \in [Clients -> Client]
    /\ user.on => sleep # NoSleep

With(c, r) == clients' = [clients EXCEPT ![c] = r]

-----------------------------------------------------------------------------
(* Reading.  Target 0 is the settings. *)

Load(c, b) ==
    /\ clients[c].pc \in {"idle", "shown"} /\ boxes[b].live
    /\ With(c, [Free EXCEPT !.pc = "shown", !.on = b, !.tag = boxes[b].tag, !.shown.val = boxes[b].val])
    /\ UNCHANGED <<boxes, user, sleep, stamp>>

getCalendar(c, b)  == Load(c, b)
getTodoList(c, b)  == Load(c, b)
editCalendar(c, b) == Load(c, b)

\* Settings.Get: the user first ...
GetUser(c) ==
    /\ clients[c].pc \in {"idle", "shown"}
    /\ With(c, [Free EXCEPT !.pc = "reading", !.tag = user.tag, !.shown.val = user.val, !.shown.on = user.on])
    /\ UNCHANGED <<boxes, user, sleep, stamp>>

\* ... and then the schedule.
SleepSchedule(c) == [clients[c] EXCEPT !.pc = "shown", !.shown.sleep = sleep]

GetSleep(c) ==
    /\ clients[c].pc = "reading" /\ With(c, SleepSchedule(c))
    /\ UNCHANGED <<boxes, user, sleep, stamp>>

-----------------------------------------------------------------------------
(* The profile form. *)

\* Mutant: the days are not counted.
uniformAny(ws) == \A d, e \in {d \in SleepDays : ws[d] # 0} : ws[d] = ws[e]

\* uniformSleep
uniformSleep(ws) == \A d, e \in SleepDays : ws[d] # 0 /\ ws[d] = ws[e]

First(ws) == LET d == CHOOSE d \in SleepDays : ws[d] # 0 /\ \A e \in SleepDays : e < d => ws[e] = 0
             IN  IF ws = NoSleep THEN DefaultWindow ELSE ws[d]

\* profileValues
ProfileValues(x) ==
    [on |-> x.on, custom |-> x.sleep # NoSleep /\ ~uniformSleep(x.sleep),
     all |-> First(x.sleep), each |-> x.sleep]

\* profilePatch: a daily schedule is one window for every day.
ProfilePatch(f, val) ==
    [val |-> val, on |-> f.on, sleep |-> IF f.custom THEN f.each ELSE [d \in SleepDays |-> f.all]]

-----------------------------------------------------------------------------
(* Writing. *)

\* The transaction begins: now() is fixed, the lock is still to come.
Begin(c, r) ==
    /\ clients[c].pc = "shown" /\ stamp < MaxStamp /\ stamp' = stamp + 1
    /\ With(c, [r EXCEPT !.pc = "begun", !.at = stamp + 1])
    /\ UNCHANGED <<boxes, user, sleep>>

\* A calendar or list: a form sends its tag, an API client may.
updateCalendar(c, v) ==
    \E match \in BOOLEAN :
      /\ clients[c].on # 0
      /\ Begin(c, [clients[c] EXCEPT !.put.val = v, !.match = match])

updateTodoList(c, v) == updateCalendar(c, v)

postCalendar(c, v) ==
    /\ clients[c].on # 0
    /\ Begin(c, [clients[c] EXCEPT !.put.val = v, !.match = TRUE, !.form = TRUE])

\* updateMe: some of the fields, here the schedule or the rest.
updateMe(c) ==
    /\ clients[c].on = 0 /\ clients[c].pc = "shown"
    /\ \E match \in BOOLEAN, v \in Vals, on \in BOOLEAN, ws \in Schedules :
      /\ ws = clients[c].shown.sleep \/ v = clients[c].shown.val
      /\ Begin(c, [clients[c] EXCEPT !.put = [val |-> v, on |-> on, sleep |-> ws], !.match = match])

\* saveProfile: everything on the page, and no tag.
saveProfile(c, v) ==
    /\ clients[c].on = 0
    /\ Begin(c, [clients[c] EXCEPT !.put = ProfilePatch(ProfileValues(clients[c].shown), v), !.form = TRUE])

\* CheckIfMatch
CheckIfMatch(c, tag) == ~clients[c].match \/ tag = clients[c].tag

Done(c, how) == With(c, [Free EXCEPT !.last = how])

\* Update of a calendar or list: lock, check, apply, save.
UpdateBox(c) ==
    LET b == clients[c].on
    IN  /\ clients[c].pc = "begun" /\ b # 0
        /\ IF boxes[b].live /\ CheckIfMatch(c, boxes[b].tag)
           THEN /\ boxes' = [boxes EXCEPT ![b] = [@ EXCEPT !.tag = clients[c].at, !.val = clients[c].put.val]]
                /\ Done(c, "saved")
           ELSE Done(c, "refused") /\ UNCHANGED boxes
        /\ UNCHANGED <<user, sleep, stamp>>

\* applySettings refuses sleep without a window.
ValidSettings(x) == x.on => x.sleep # NoSleep

\* UpdateSettings: the user's row is locked; the schedule is replaced in the same transaction.
UpdateSettings(c) ==
    /\ clients[c].pc = "begun" /\ clients[c].on = 0
    /\ IF CheckIfMatch(c, user.tag) /\ ValidSettings(clients[c].put)
       THEN /\ user' = [tag |-> clients[c].at, val |-> clients[c].put.val, on |-> clients[c].put.on]
            /\ sleep' = clients[c].put.sleep
            /\ Done(c, "saved")
       ELSE Done(c, "refused") /\ UNCHANGED <<user, sleep>>
    /\ UNCHANGED <<boxes, stamp>>

-----------------------------------------------------------------------------
(* Creating and deleting. *)

Count == Cardinality({b \in Boxes : boxes[b].live})

\* Create counts, and later inserts.
CountBoxes(c) ==
    /\ clients[c].pc = "idle" /\ Count < MaxBoxes
    /\ With(c, [Free EXCEPT !.pc = "counted"])
    /\ UNCHANGED <<boxes, user, sleep, stamp>>

InsertBox(c) ==
    /\ clients[c].pc = "counted" /\ stamp < MaxStamp /\ stamp' = stamp + 1
    /\ \E b \in Boxes : /\ ~boxes[b].live /\ boxes[b].tag = 0
                        /\ boxes' = [boxes EXCEPT ![b] = [live |-> TRUE, tag |-> stamp + 1, val |-> 1]]
    /\ Done(c, "none") /\ UNCHANGED <<user, sleep>>

\* Delete: not the default one, and not one that was changed.
DeleteBox(c, match) ==
    LET b == clients[c].on
    IN  /\ clients[c].pc = "shown" /\ b # 0
        /\ IF boxes[b].live /\ b # 1 /\ (match => boxes[b].tag = clients[c].tag)
           THEN boxes' = [boxes EXCEPT ![b].live = FALSE] ELSE UNCHANGED boxes
        /\ Done(c, "none") /\ UNCHANGED <<user, sleep, stamp>>

createCalendar(c)        == CountBoxes(c)
createTodoList(c)        == CountBoxes(c)
postNewCalendar(c)       == CountBoxes(c)
deleteCalendar(c, match) == DeleteBox(c, match)
deleteTodoList(c, match) == DeleteBox(c, match)
postDelete(c)            == DeleteBox(c, TRUE)

SettingsInit ==
    /\ boxes = [b \in Boxes |-> [live |-> b = 1, tag |-> 0, val |-> 1]]
    /\ sleep \in Schedules
    /\ user \in {u \in [tag : {0}, val : {1}, on : BOOLEAN] : u.on => sleep # NoSleep}
    /\ clients = [c \in Clients |-> Free] /\ stamp = 0

SettingsNext ==
    \E c \in Clients :
      \/ \E b \in Boxes : getCalendar(c, b) \/ getTodoList(c, b) \/ editCalendar(c, b)
      \/ GetUser(c) \/ GetSleep(c)
      \/ \E v \in Vals : updateCalendar(c, v) \/ updateTodoList(c, v) \/ postCalendar(c, v) \/ saveProfile(c, v)
      \/ updateMe(c) \/ UpdateBox(c) \/ UpdateSettings(c)
      \/ createCalendar(c) \/ createTodoList(c) \/ postNewCalendar(c) \/ InsertBox(c)
      \/ \E match \in BOOLEAN : deleteCalendar(c, match) \/ deleteTodoList(c, match)
      \/ postDelete(c)

SettingsSpec == SettingsInit /\ [][SettingsNext]_settingsVars

-----------------------------------------------------------------------------
(* Properties. *)

Effective(u, ws) == IF u.on THEN ws ELSE NoSleep

\* "resource was modified, reload it and retry" (domain/etag.go, CheckIfMatch): a write that
\* carries the tag it was shown and succeeds writes over exactly what its client was shown, of
\* both tables of the settings, though updated_at may run backwards and the two tables are read
\* by two statements.  And saving a profile page as it was shown leaves the hours of sleep as
\* they are (web/account/profile.go, profileValues and profilePatch).
WroteWhatWasSeen ==
    \A c \in Clients :
      LET me == clients[c]
      IN  me.pc = "begun" /\ clients'[c].pc = "idle" /\ clients'[c].last = "saved" =>
            /\ me.match => IF me.on # 0 THEN boxes[me.on].val = me.shown.val
                           ELSE me.shown = [val |-> user.val, on |-> user.on, sleep |-> sleep]
            /\ me.form /\ me.on = 0 /\ me.shown.on = user.on /\ me.shown.sleep = sleep
                 => Effective(user', sleep') = Effective(user, sleep)

\* Of every step.
WritesWhatWasSeen == [][WroteWhatWasSeen]_settingsVars

-----------------------------------------------------------------------------
(* Why it holds: the inductive invariant. *)

\* A client whose tag still stands was shown what stands; a form is only filled in to be sent.
Agrees(r) ==
    /\ r.tag <= stamp /\ r.at <= stamp
    /\ r.pc \in {"shown", "begun"} /\ r.on # 0 /\ r.tag = boxes[r.on].tag => r.shown.val = boxes[r.on].val
    /\ r.pc \in {"reading", "shown", "begun"} /\ r.on = 0 /\ r.tag = user.tag =>
         /\ r.shown.val = user.val /\ r.shown.on = user.on
         /\ r.pc # "reading" => r.shown.sleep = sleep
    /\ r.pc = "reading" => r.on = 0
    /\ r.pc # "begun" => ~r.form
    /\ r.form /\ r.on = 0 => r.put = ProfilePatch(ProfileValues(r.shown), r.put.val)

AgreeInv == \A c \in Clients : Agrees(clients[c])

\* The time a transaction will write is nobody's yet: no row's, no reader's, no other writer's.
StampInv ==
    /\ user.tag <= stamp /\ \A b \in Boxes : boxes[b].tag <= stamp
    /\ \A c \in Clients : clients[c].pc = "begun" =>
         /\ clients[c].at # 0 /\ clients[c].at # user.tag /\ \A b \in Boxes : clients[c].at # boxes[b].tag
         /\ \A e \in Clients : clients[e].tag # clients[c].at
         /\ \A e \in Clients \ {c} : clients[e].pc = "begun" => clients[e].at # clients[c].at

SettingsInv == SettingsTypeOK /\ AgreeInv /\ StampInv
=============================================================================
