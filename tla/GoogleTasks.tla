---------------------------- MODULE GoogleTasks ----------------------------
(***************************************************************************)
(* The two-way sync of a todo list with a Google task list (internal/gsync *)
(* pullTasks and pushTodo).  GoogleSync models the sync of events, which   *)
(* works item by item; tasks have no event ids to adopt, no preconditions  *)
(* on a patch and a cursor of time stamps, and a task may have subtasks.   *)
(* A time stamp also serves as the entity tag of a task.                   *)
(***************************************************************************)
EXTENDS Integers, Sequences, FiniteSets, SequencesExt

CONSTANTS
    Locals, Remotes,    \* identities of todos and of tasks
    Notes,              \* [body, checks] a todo may have; lines are "text", "---" or "check"
    Days,               \* days a todo may be due
    MaxStamp,           \* bound: stamps given
    MaxLosses           \* bound: answers of Google that are lost

VARIABLES
    todos,      \* todo -> NoTodo or its state
    tasks,      \* task -> NoTask or its state at Google
    maps,       \* todo -> NoMap or the row of sync_mappings
    outbox,     \* todo -> the row of sync_outbox: "none", "upsert" or "delete", and the task
    cursor,     \* UpdatedMin of the binding; 0: none, every task is listed
    batch,      \* NoBatch, or what a pull has listed and not yet applied
    gaveUp,     \* todos whose push was dropped after maxPushTries
    stamp, losses

taskVars == <<todos, tasks, maps, outbox, cursor, batch, gaveUp, stamp, losses>>

None    == "none"
NoDay   == 0
NoTodo  == [st |-> None]
NoTask  == [st |-> None]
NoMap   == [remote |-> None]
NoBatch == [items |-> <<>>, full |-> FALSE, open |-> FALSE]
NoOp    == [op |-> None, remote |-> None]

Live(db, l)  == l # None /\ db[l].st = "live"
Children(db, l) == {k \in DOMAIN db : db[k].st = "live" /\ db[k].parent = l}
MapOf(ms, r) == {l \in Locals : ms[l].remote = r}

TasksTypeOK ==
    /\ \A l \in Locals : todos[l] = NoTodo \/ (todos[l].st \in {"live", "trash"} /\ todos[l].parent \in Locals \cup {None}
                                               /\ todos[l].at \in 1..MaxStamp)
    /\ \A r \in Remotes : tasks[r] = NoTask \/ (tasks[r].st \in {"live", "deleted"} /\ tasks[r].updated \in 1..MaxStamp)
    /\ \A l \in Locals : maps[l].remote \in Remotes \cup {None} /\ outbox[l].op \in {None, "upsert", "delete"}
    /\ cursor \in 0..MaxStamp /\ stamp \in 0..MaxStamp /\ gaveUp \subseteq Locals

-----------------------------------------------------------------------------
(* Notes: the checklist of a todo travels in the notes of its task. *)

\* JoinNotes
JoinNotes(n) == IF n.checks = <<>> THEN n.body ELSE n.body \o <<"---">> \o n.checks

\* SplitNotes: the lines after the last separator, if they are checks.
SplitNotes(lines) ==
    LET cuts == {i \in DOMAIN lines : lines[i] = "---"}
        last == CHOOSE i \in cuts : \A j \in cuts : j <= i
    IN  IF cuts # {} /\ last < Len(lines) /\ \A i \in last + 1..Len(lines) : lines[i] = "check"
        THEN [body |-> SubSeq(lines, 1, last - 1), checks |-> SubSeq(lines, last + 1, Len(lines))]
        ELSE [body |-> lines, checks |-> <<>>]

-----------------------------------------------------------------------------
(* The owner's edits; each queues its todo (queueSync). *)

Tick == stamp < MaxStamp /\ stamp' = stamp + 1

\* queueSyncSQL: a deletion of what Google never had leaves nothing to send.
QueueSync(l, op) ==
    LET r == maps[l].remote
    IN  [outbox EXCEPT ![l] = IF op = "delete" /\ r = None THEN NoOp
                              ELSE [op |-> op, remote |-> IF r # None THEN r ELSE @.remote]]

Parents(db, l) == {p \in DOMAIN db \ {l} : Live(db, p) /\ db[p].parent = None} \cup {None}

SaveTodo(l, t) ==
    /\ Tick /\ todos' = [todos EXCEPT ![l] = t] /\ outbox' = QueueSync(l, "upsert")
    /\ UNCHANGED <<tasks, maps, cursor, batch, gaveUp, losses>>

CreateTodo(l) ==
    /\ todos[l] = NoTodo
    /\ \E n \in Notes, p \in Parents(todos, l) :
         SaveTodo(l, [st |-> "live", notes |-> n, due |-> NoDay, timed |-> FALSE, parent |-> p, at |-> stamp + 1])

EditTodo(l) ==
    /\ Live(todos, l)
    /\ \/ \E n \in Notes \ {todos[l].notes} : SaveTodo(l, [todos[l] EXCEPT !.notes = n, !.at = stamp + 1])
       \/ \E d \in Days : SaveTodo(l, [todos[l] EXCEPT !.due = d, !.timed = TRUE, !.at = stamp + 1])
       \/ /\ Children(todos, l) = {}
          /\ \E p \in Parents(todos, l) \ {todos[l].parent} : SaveTodo(l, [todos[l] EXCEPT !.parent = p, !.at = stamp + 1])

\* deleteTodoSQL takes the subtasks along; only the todo itself is queued.
Trashed(db, l) == [k \in Locals |-> IF Live(db, k) /\ l \in {k, db[k].parent} THEN [db[k] EXCEPT !.st = "trash"] ELSE db[k]]

DeleteTodo(l) ==
    /\ Live(todos, l) /\ Tick
    /\ todos' = Trashed(todos, l) /\ outbox' = QueueSync(l, "delete")
    /\ UNCHANGED <<tasks, maps, cursor, batch, gaveUp, losses>>

-----------------------------------------------------------------------------
(* Google. *)

RemoteStep == Tick /\ UNCHANGED <<todos, maps, outbox, cursor, batch, gaveUp, losses>>

RemoteCreate(r) ==
    /\ tasks[r] = NoTask /\ RemoteStep
    /\ \E n \in Notes, p \in Parents(tasks, r) :
         tasks' = [tasks EXCEPT ![r] = [st |-> "live", notes |-> JoinNotes(n), due |-> NoDay, parent |-> p, updated |-> stamp + 1]]

RemoteEdit(r) ==
    /\ Live(tasks, r) /\ RemoteStep
    /\ \/ \E n \in Notes : tasks' = [tasks EXCEPT ![r].notes = JoinNotes(n), ![r].updated = stamp + 1]
       \/ \E d \in Days \cup {NoDay} : tasks' = [tasks EXCEPT ![r].due = d, ![r].updated = stamp + 1]
       \/ /\ Children(tasks, r) = {}
          /\ \E p \in Parents(tasks, r) : tasks' = [tasks EXCEPT ![r].parent = p, ![r].updated = stamp + 1]

Gone(r) == [k \in Remotes |-> IF Live(tasks, k) /\ r \in {k, tasks[k].parent}
                              THEN [tasks[k] EXCEPT !.st = "deleted", !.updated = stamp + 1] ELSE tasks[k]]

RemoteDelete(r) == Live(tasks, r) /\ RemoteStep /\ tasks' = Gone(r)

\* Tasks: everything, or what was updated since the cursor, deleted tasks too.
Listed == {r \in Remotes : tasks[r] # NoTask /\ tasks[r].updated >= cursor}

-----------------------------------------------------------------------------
(* Pull. *)

Item(r) == [id |-> r, task |-> tasks[r]]

\* Tasks without a parent come first.
Ordered(rs) ==
    LET top == {r \in rs : tasks[r].parent = None}
    IN  SetToSeq({Item(r) : r \in top}) \o SetToSeq({Item(r) : r \in rs \ top})

PullList ==
    /\ ~batch.open
    /\ batch' = [items |-> Ordered(Listed), full |-> cursor = 0, open |-> TRUE]
    /\ UNCHANGED <<todos, tasks, maps, outbox, cursor, gaveUp, stamp, losses>>

\* parent: the todo of a task, if it is still there and has no parent itself.
LocalParent(s, r) ==
    LET known == {l \in MapOf(s.maps, r) : Live(s.todos, l) /\ s.todos[l].parent = None}
    IN  IF r = None \/ known = {} THEN None ELSE CHOOSE l \in known : TRUE

MapRow(i) == [remote |-> i.id, etag |-> i.task.updated, due |-> i.task.due]

\* SaveMapping, which takes the task from any other todo.
SaveMap(ms, l, row) == [k \in Locals |-> IF k = l THEN row ELSE IF ms[k].remote = row.remote THEN NoMap ELSE ms[k]]

\* fillTodo: a due date Google did not change leaves the todo's date and time alone.
FillTodo(t, i, m) ==
    [t EXCEPT !.notes = SplitNotes(i.task.notes), !.at = stamp + 1,
              !.due = IF i.task.due # NoDay /\ m # NoMap /\ m.due = i.task.due THEN t.due ELSE i.task.due,
              !.timed = t.timed /\ i.task.due # NoDay]

\* removeLocal
RemoveLocal(s, l) ==
    [s EXCEPT !.todos = IF Live(s.todos, l) THEN Trashed(s.todos, l) ELSE @,
              !.outbox[l] = NoOp, !.maps[l] = NoMap]

\* create, as a todo not used yet.
PullCreate(s, i) ==
    LET free == {l \in Locals : s.todos[l] = NoTodo}
        l    == CHOOSE l \in free : TRUE
        t    == [st |-> "live", notes |-> <<>>, due |-> NoDay, timed |-> FALSE,
                 parent |-> LocalParent(s, i.task.parent), at |-> 0]
    IN  IF free = {} THEN [s EXCEPT !.full = TRUE]
        ELSE [s EXCEPT !.todos[l] = FillTodo(t, i, NoMap), !.maps = SaveMap(@, l, MapRow(i))]

\* localWins: a pending edit newer than the task is kept for the push.
LocalWins(s, l, i) == s.outbox[l].op # None /\ s.todos[l].at > i.task.updated

Movable(s, l, p) == p = None \/ (Children(s.todos, l) = {} /\ p # l)

PullUpdate(s, l, i) ==
    LET p == LocalParent(s, i.task.parent)
        t == FillTodo(s.todos[l], i, s.maps[l])
    IN  CASE ~Live(s.todos, l) ->
               IF s.outbox[l].op = "delete" THEN s ELSE PullCreate([s EXCEPT !.maps[l] = NoMap], i)
          [] Live(s.todos, l) /\ s.maps[l].etag = i.task.updated -> s
          [] Live(s.todos, l) /\ s.maps[l].etag # i.task.updated ->
               IF LocalWins(s, l, i) THEN s
               ELSE [s EXCEPT !.todos[l] = IF p # t.parent /\ Movable(s, l, p) THEN [t EXCEPT !.parent = p] ELSE t,
                              !.maps = SaveMap(@, l, MapRow(i)), !.outbox[l] = NoOp]

\* apply
Apply(i, s) ==
    LET of == MapOf(s.maps, i.id)
        l  == CHOOSE l \in of : TRUE
    IN  CASE i.task.st = "deleted" -> IF of = {} THEN s ELSE RemoveLocal(s, l)
          [] i.task.st = "live" /\ of = {} -> PullCreate(s, i)
          [] OTHER -> PullUpdate(s, l, i)

\* reconcile, after a full list: mapped todos whose task was not listed go.
Reconcile(s, b) ==
    LET missing == {l \in Locals : s.maps[l] # NoMap /\ \A i \in Range(b.items) : i.id # s.maps[l].remote}
    IN  IF b.full THEN FoldSeq(LAMBDA l, x : RemoveLocal(x, l), s, SetToSeq(missing)) ELSE s

Pulled(b) == Reconcile(FoldLeft(LAMBDA s, i : Apply(i, s),
                                [todos |-> todos, maps |-> maps, outbox |-> outbox, full |-> FALSE], b.items), b)

\* Mutant: the cursor is the time of the pull.
NextNow(items) == stamp + 1

\* The newest stamp listed; a list that was always empty leaves a margin.
NextCursor(items) ==
    LET all == {i.task.updated : i \in Range(items)} \cup {cursor}
    IN  CHOOSE u \in all : \A v \in all : v <= u

\* The transaction of pullTasks and the save of the binding.
PullTasks ==
    /\ batch.open /\ Tick /\ ~Pulled(batch).full
    /\ todos' = Pulled(batch).todos /\ maps' = Pulled(batch).maps /\ outbox' = Pulled(batch).outbox
    /\ cursor' = NextCursor(batch.items) /\ batch' = NoBatch
    /\ UNCHANGED <<tasks, gaveUp, losses>>

\* The pull fails or its worker dies: nothing of it is kept.
PullDies ==
    /\ batch.open /\ losses < MaxLosses /\ losses' = losses + 1
    /\ batch' = NoBatch /\ UNCHANGED <<todos, tasks, maps, outbox, cursor, gaveUp, stamp>>

-----------------------------------------------------------------------------
(* Push. *)

RemoteOf(l) == IF maps[l] # NoMap THEN maps[l].remote ELSE outbox[l].remote

\* A todo that is gone is deleted at Google.
Deletes(l) == outbox[l].op = "delete" \/ ~Live(todos, l)

ParentReady(l) == IF todos[l].parent = None THEN TRUE ELSE maps[todos[l].parent] # NoMap

\* taskFromTodo
TaskFromTodo(l) ==
    [st |-> "live", notes |-> JoinNotes(todos[l].notes), due |-> todos[l].due,
     parent |-> IF todos[l].parent = None THEN None ELSE maps[todos[l].parent].remote, updated |-> stamp + 1]

\* The task that is patched, or inserted if there is none left.
Target(l) == IF RemoteOf(l) # None /\ Live(tasks, RemoteOf(l)) THEN {RemoteOf(l)}
             ELSE {r \in Remotes : tasks[r] = NoTask}

Sent(l, r) == IF Deletes(l) THEN (IF RemoteOf(l) = None THEN tasks ELSE Gone(RemoteOf(l)))
              ELSE [tasks EXCEPT ![r] = TaskFromTodo(l)]

\* pushTodo, answered and recorded.
PushTodo(l) ==
    /\ outbox[l].op # None /\ Tick
    /\ outbox' = [outbox EXCEPT ![l] = NoOp]
    /\ \/ Deletes(l) /\ tasks' = Sent(l, None) /\ maps' = [maps EXCEPT ![l] = NoMap]
       \/ /\ ~Deletes(l) /\ ParentReady(l)
          /\ \E r \in Target(l) :
               /\ tasks' = Sent(l, r)
               /\ maps' = SaveMap(maps, l, [remote |-> r, etag |-> stamp + 1, due |-> todos[l].due])
    /\ UNCHANGED <<todos, cursor, batch, gaveUp, losses>>

\* Google did what was asked and the answer or the commit was lost: the item is sent again.
PushLost(l) ==
    /\ outbox[l].op # None /\ losses < MaxLosses /\ losses' = losses + 1 /\ Tick
    /\ \/ Deletes(l) /\ tasks' = Sent(l, None)
       \/ ~Deletes(l) /\ ParentReady(l) /\ \E r \in Target(l) : tasks' = Sent(l, r)
    /\ UNCHANGED <<todos, maps, outbox, cursor, batch, gaveUp>>

\* Every try failed, or the parent never got its task.
PushDropped(l) ==
    /\ outbox[l].op # None /\ losses < MaxLosses /\ losses' = losses + 1
    /\ outbox' = [outbox EXCEPT ![l] = NoOp] /\ gaveUp' = gaveUp \cup {l}
    /\ UNCHANGED <<todos, tasks, maps, cursor, batch, stamp>>

-----------------------------------------------------------------------------
TasksInit ==
    /\ todos = [l \in Locals |-> NoTodo] /\ tasks = [r \in Remotes |-> NoTask]
    /\ maps = [l \in Locals |-> NoMap] /\ outbox = [l \in Locals |-> NoOp]
    /\ cursor = 0 /\ batch = NoBatch /\ gaveUp = {} /\ stamp = 0 /\ losses = 0

TasksNext ==
    \/ \E l \in Locals : CreateTodo(l) \/ EditTodo(l) \/ DeleteTodo(l)
    \/ \E r \in Remotes : RemoteCreate(r) \/ RemoteEdit(r) \/ RemoteDelete(r)
    \/ PullList \/ PullTasks \/ PullDies
    \/ \E l \in Locals : PushTodo(l) \/ PushLost(l) \/ PushDropped(l)

TasksSpec == TasksInit /\ [][TasksNext]_taskVars

-----------------------------------------------------------------------------
(* Properties. *)

\* Nothing is pending and a pull would change nothing.
Quiet ==
    LET b == [items |-> Ordered(Listed), full |-> cursor = 0]
    IN  /\ ~batch.open /\ \A l \in Locals : outbox[l] = NoOp
        /\ Pulled(b).todos = todos /\ Pulled(b).maps = maps /\ ~Pulled(b).full

\* Once nothing is left to send or to take, every todo has its task with the same notes
\* and checks, and every task its todo, whatever was edited, listed, lost and sent again in
\* between, unless a push was given up (pullTasks, taskPull.apply, pushTodo).
TasksAgree ==
    (Quiet /\ gaveUp = {}) =>
        /\ \A l \in Locals : Live(todos, l) =>
             Live(tasks, maps[l].remote) /\ tasks[maps[l].remote].notes = JoinNotes(todos[l].notes)
        /\ \A r \in Remotes : Live(tasks, r) => \E l \in MapOf(maps, r) : Live(todos, l)
=============================================================================
