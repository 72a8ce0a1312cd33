----------------------------- MODULE Reminders -----------------------------
(***************************************************************************)
(* Reminders (internal/reminders over store/pg/reminders.go and            *)
(* internal/push): a job that runs every minute lists the events, and then *)
(* the todos, whose reminders fire within the last Lookback, claims every  *)
(* reminder by a unique row, and sends it to the devices of the owner; a   *)
(* tab shows it when no device took it.  Two runs of the job may overlap,  *)
(* and a worker may die anywhere.  Devices come and go, entries are moved  *)
(* and deleted in the meantime.                                            *)
(***************************************************************************)
EXTENDS Integers, FiniteSets

CONSTANTS
    Entries,        \* ids, ordered by creation
    TodoIds,        \* those of them that are todos
    Starts,         \* when entries may start or be due
    Minutes,        \* how long before the reminders of an entry fire
    Devices,
    Lookback,
    MaxItems,       \* entries one listing returns
    Runs,           \* runs of the job that may overlap
    MaxNow, MaxRemEdits, MaxDeaths    \* bounds

\* A start is never 0, which stands for none.
RemindersAssumption ==
    /\ TodoIds \subseteq Entries /\ 0 \notin Starts
    /\ MaxNow \in Nat \ {0} /\ MaxRemEdits \in Nat /\ MaxDeaths \in Nat

VARIABLES
    now,
    entries,        \* entry -> its start, 0 if it was deleted or completed
    devices,        \* push_subscriptions, and the devices that are still there
    claims,         \* reminder_deliveries: reminder -> "none", "claimed" or "sent"
    runs,           \* run -> what it is doing
    got,            \* ghost: <<reminder, device>> -> how often it was shown
    shown,          \* ghost: reminder -> notices sent to the open tabs
    remEdits, deaths

reminderVars == <<now, entries, devices, claims, runs, got, shown, remEdits, deaths>>

\* A reminder: the key of reminder_deliveries.
Keys == Entries \X Starts \X Minutes
NoKey == <<0, 0, 0>>
NoSubs == {"not loaded"}
Run  == [pc : {"rest", "events", "todos"}, at : 0..MaxNow, todo : SUBSET Keys, key : Keys \cup {NoKey},
         subs : {NoSubs} \cup SUBSET Devices, left : SUBSET Devices, sent : Nat]
Begun(pc, at, todo) ==
    [pc |-> pc, at |-> at, todo |-> todo, key |-> NoKey, subs |-> NoSubs, left |-> {}, sent |-> 0]
Rest == Begun("rest", 0, {})

RemindersTypeOK ==
    /\ now \in 1..MaxNow
    /\ entries \in [Entries -> Starts \cup {0}]
    /\ devices \in [known : SUBSET Devices, there : SUBSET Devices]
    /\ claims \in [Keys -> {"none", "claimed", "sent"}]
    /\ runs \in [Runs -> Run]
    /\ got \in [Keys \X Devices -> Nat] /\ shown \in [Keys -> Nat]
    /\ remEdits \in 0..MaxRemEdits /\ deaths \in 0..MaxDeaths

Sending(r) == runs[r].key # NoKey

Set(r, pc, todo) == [runs EXCEPT ![r] = [runs[r] EXCEPT !.pc = pc, !.todo = todo]]

\* RemindableEvents and RemindableTodos: LIMIT, in the order of the ids.
Listed(kind) ==
    LET live == {e \in kind : entries[e] # 0}
    IN  {e \in live : Cardinality({d \in live : d < e}) < MaxItems}

\* event, starts, todo: the reminders that fire in a half-open window.
InWindow(fire, at) == at - Lookback < fire /\ fire <= at
Due(kind) == {<<e, entries[e], m>> : e \in Listed(kind), m \in Minutes}
Firing(kind, at) == {k \in Due(kind) : InWindow(k[2] - k[3], at)}

\* Handle: the window is fixed, and the events are listed.
Handle(r) ==
    /\ runs[r].pc = "rest"
    /\ runs' = [runs EXCEPT ![r] = Begun("events", now, Firing(Entries \ TodoIds, now))]
    /\ UNCHANGED <<now, entries, devices, claims, got, shown, remEdits, deaths>>

\* All events are through: the todos are listed, with the window of the run.
HandleTodos(r) ==
    /\ runs[r].pc = "events" /\ runs[r].todo = {} /\ ~Sending(r)
    /\ runs' = Set(r, "todos", Firing(TodoIds, runs[r].at))
    /\ UNCHANGED <<now, entries, devices, claims, got, shown, remEdits, deaths>>

HandleEnds(r) ==
    /\ runs[r].pc = "todos" /\ runs[r].todo = {} /\ ~Sending(r)
    /\ runs' = [runs EXCEPT ![r] = Rest]
    /\ UNCHANGED <<now, entries, devices, claims, got, shown, remEdits, deaths>>

-----------------------------------------------------------------------------
(* deliver *)

\* ClaimReminder: INSERT ... ON CONFLICT DO NOTHING.
ClaimReminder(k) == claims[k] = "none"

\* subscriptions: read once in a run and kept.
Subscriptions(r) == IF runs[r].subs = NoSubs THEN devices.known ELSE runs[r].subs

\* A claimed reminder is sent to every device known to this run; another run's is passed over.
Deliver(r, k) ==
    /\ runs[r].pc \in {"events", "todos"} /\ k \in runs[r].todo /\ ~Sending(r)
    /\ IF ClaimReminder(k)
       THEN /\ claims' = [claims EXCEPT ![k] = "claimed"]
            /\ runs' = [runs EXCEPT ![r] = [runs[r] EXCEPT !.key = k, !.subs = Subscriptions(r),
                                    !.left = Subscriptions(r), !.sent = 0, !.todo = @ \ {k}]]
            /\ UNCHANGED <<now, entries, devices, got, shown, remEdits, deaths>>
       ELSE /\ runs' = Set(r, runs[r].pc, runs[r].todo \ {k})
            /\ UNCHANGED <<now, entries, devices, claims, got, shown, remEdits, deaths>>

\* Send took it: TouchPushSubscription.
SendOK(r, d) ==
    /\ d \in devices.there
    /\ got' = [got EXCEPT ![<<runs[r].key, d>>] = @ + 1]
    /\ runs' = [runs EXCEPT ![r] = [runs[r] EXCEPT !.left = @ \ {d}, !.sent = @ + 1]]
    /\ UNCHANGED devices

\* ErrGone: the service does not know the subscription any more, and it is dropped.
SendGone(r, d) ==
    /\ d \notin devices.there
    /\ devices' = [devices EXCEPT !.known = @ \ {d}]
    /\ runs' = [runs EXCEPT ![r].left = @ \ {d}]
    /\ UNCHANGED got

\* Any other answer counts as a failure of the device and is not tried again.
SendFails(r, d) ==
    /\ runs' = [runs EXCEPT ![r].left = @ \ {d}]
    /\ UNCHANGED <<got, devices>>

Send(r, d) ==
    /\ Sending(r) /\ d \in runs[r].left
    /\ SendOK(r, d) \/ SendGone(r, d) \/ SendFails(r, d)
    /\ UNCHANGED <<now, entries, claims, shown, remEdits, deaths>>

\* Mutant: the tabs are told only when the user has no device.
NoDevice(r) == runs[r].subs = {}

\* inPage: no device took it.
InPage(r) == runs[r].sent = 0

\* MarkReminderSent, after the fallback.
MarkReminderSent(r) ==
    /\ Sending(r) /\ runs[r].left = {}
    /\ claims' = [claims EXCEPT ![runs[r].key] = "sent"]
    /\ shown' = IF InPage(r) THEN [shown EXCEPT ![runs[r].key] = @ + 1] ELSE shown
    /\ runs' = [runs EXCEPT ![r].key = NoKey]
    /\ UNCHANGED <<now, entries, devices, got, remEdits, deaths>>

\* The worker dies, or a query fails: the run is over, what it claimed stays claimed.
Die(r) ==
    /\ runs[r].pc # "rest" /\ deaths < MaxDeaths
    /\ deaths' = deaths + 1
    /\ runs' = [runs EXCEPT ![r] = Rest]
    /\ UNCHANGED <<now, entries, devices, claims, got, shown, remEdits>>

-----------------------------------------------------------------------------
(* What users do. *)

UserEdit == remEdits < MaxRemEdits /\ remEdits' = remEdits + 1
                /\ UNCHANGED <<now, claims, runs, got, shown, deaths>>

\* An entry is moved, or deleted, cancelled or completed.
MoveEntry(e, t) == UserEdit /\ entries' = [entries EXCEPT ![e] = t] /\ UNCHANGED devices

\* subscribe: the device is there, and known.
Subscribe(d) ==
    /\ UserEdit /\ devices' = [known |-> devices.known \cup {d}, there |-> devices.there \cup {d}]
    /\ UNCHANGED entries

\* remove: known no more, though the browser would still take messages.
RemoveDevice(d) ==
    /\ UserEdit /\ d \in devices.known
    /\ devices' = [devices EXCEPT !.known = @ \ {d}] /\ UNCHANGED entries

\* The user blocks notifications in the browser.
Unsubscribe(d) ==
    /\ UserEdit /\ d \in devices.there
    /\ devices' = [devices EXCEPT !.there = @ \ {d}] /\ UNCHANGED entries

\* test: a message to one device, which is dropped when it is gone.
TestDevice(d) ==
    /\ UserEdit /\ d \in devices.known \ devices.there
    /\ devices' = [devices EXCEPT !.known = @ \ {d}] /\ UNCHANGED entries

Tick == now < MaxNow /\ now' = now + 1
            /\ UNCHANGED <<entries, devices, claims, runs, got, shown, remEdits, deaths>>

RemindersInit ==
    /\ now = 1
    /\ entries \in [Entries -> Starts]
    /\ devices \in {[known |-> ds, there |-> ds] : ds \in SUBSET Devices}
    /\ claims = [k \in Keys |-> "none"] /\ runs = [r \in Runs |-> Rest]
    /\ got = [x \in Keys \X Devices |-> 0] /\ shown = [k \in Keys |-> 0]
    /\ remEdits = 0 /\ deaths = 0

RemindersNext ==
    \/ Tick
    \/ \E r \in Runs : Handle(r) \/ HandleTodos(r) \/ HandleEnds(r) \/ MarkReminderSent(r) \/ Die(r)
    \/ \E r \in Runs, k \in Keys : Deliver(r, k)
    \/ \E r \in Runs, d \in Devices : Send(r, d)
    \/ \E e \in Entries, t \in Starts \cup {0} : MoveEntry(e, t)
    \/ \E d \in Devices : Subscribe(d) \/ RemoveDevice(d) \/ Unsubscribe(d) \/ TestDevice(d)

RemindersSpec == RemindersInit /\ [][RemindersNext]_reminderVars

-----------------------------------------------------------------------------
(* Why it holds. *)

\* A reminder that is being sent was claimed, by one run only; a device it is still to be sent
\* to has not had it, and it was counted as sent only where a device took it.
SendInv ==
    \A r \in Runs : Sending(r) =>
      LET k == runs[r].key
      IN  /\ claims[k] = "claimed"
          /\ \A q \in Runs : runs[q].key = k => q = r
          /\ \A d \in runs[r].left : got[<<k, d>>] = 0
          /\ runs[r].sent > 0 => \E d \in Devices : got[<<k, d>>] = 1

\* What nobody has claimed was not sent, and the tabs are told at the end.
ClaimInv ==
    \A k \in Keys :
      /\ claims[k] = "none" => \A d \in Devices : got[<<k, d>>] = 0
      /\ claims[k] # "sent" => shown[k] = 0

-----------------------------------------------------------------------------
(* Properties. *)

\* However runs of the job overlap, fail or are repeated, a reminder reaches a device once
\* (reminders.go, deliver: the claim), and one whose delivery ended was shown somewhere:
\* "so a reminder is never silently dropped" (reminders.go, inPage).
RemindedOnce ==
    \A k \in Keys :
      /\ \A d \in Devices : got[<<k, d>>] <= 1
      /\ shown[k] <= 1
      /\ claims[k] = "sent" => shown[k] = 1 \/ \E d \in Devices : got[<<k, d>>] = 1

RemindersInv == RemindersTypeOK /\ SendInv /\ ClaimInv /\ RemindedOnce

\* The windows of two runs that follow one another meet (Handle, starts, todo): when a run
\* comes to its end, every reminder of its listings that fired since the run before it is
\* claimed, by this run or by another.
WindowsMet ==
    \A r \in Runs :
      runs[r].pc = "todos" /\ runs'[r].pc = "rest" /\ deaths' = deaths /\ remEdits = 0
      => \A e \in Listed(TodoIds) \cup Listed(Entries \ TodoIds), m \in Minutes :
           entries[e] - m \in (runs[r].at - Lookback + 1)..runs[r].at
             => claims[<<e, entries[e], m>>] # "none"

\* Of every step.
WindowsMeet == [][WindowsMet]_reminderVars
=============================================================================
