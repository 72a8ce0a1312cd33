------------------------------- MODULE Todos --------------------------------
(***************************************************************************)
(* The todos of one account: internal/service/todos.go and todo_lists.go   *)
(* over internal/store/pg/todos.go, todo_lists.go and trash.go, with the   *)
(* trigger and the foreign keys of migrations/000009_todos.up.sql.         *)
(*                                                                         *)
(* A call is a transaction at READ COMMITTED in four steps: it locks the   *)
(* todo (SELECT ... FOR UPDATE), locks and checks the parent it moves to,  *)
(* runs its statements, and commits.  What it wrote is in `put' and unseen *)
(* by the others until the commit; its row locks and the advisory lock of  *)
(* the trigger are held to that moment.  A transaction may fail at any     *)
(* point (If-Match, validation, deadlock victim, cancelled request) and    *)
(* then leaves nothing.  A todo is reduced to its place, its status, its   *)
(* deletion time and how many repetitions its rule has left; the fields of *)
(* the form are in module TodoForms, the order within a list in Positions. *)
(***************************************************************************)
EXTENDS Naturals, FiniteSets

CONSTANTS Sessions,     \* concurrent requests
          Ids,          \* ids of todos, from 1
          Lists,        \* todo lists
          DefaultList,  \* the list that cannot be deleted
          Count,        \* repetitions of the recurring todo
          MaxTodoCalls  \* bound on the calls of a behaviour

\* What the constants must satisfy.
TodosAssumption ==
    /\ IsFiniteSet(Ids) /\ {1, 2, 3} \subseteq Ids /\ Ids = 1..Cardinality(Ids)
    /\ DefaultList \in Lists /\ Count \in Nat \ {0} /\ MaxTodoCalls \in Nat

VARIABLES rows,   \* the table todos
          lists,  \* the table todo_lists
          txs,    \* the transaction of every session
          calls   \* calls begun so far; the clock of deleted_at

todosVars == <<rows, lists, txs, calls>>

None == 0
NoList == "nolist"
Keep == Cardinality(Ids) + 1   \* a patch that does not name a parent

Todo == [st : {"none", "live", "trash", "gone"}, parent : Ids \cup {None}, list : Lists \cup {NoList},
         open : BOOLEAN, left : 0..Count, root : Ids \cup {None}, at : 0..MaxTodoCalls]

Free == [st |-> "none", parent |-> None, list |-> NoList, open |-> TRUE, left |-> 0, root |-> None, at |-> 0]

Ops == {"create", "move", "complete", "reopen", "delete", "restore"}

IsWrite(w) == DOMAIN w \subseteq Ids /\ w \in [DOMAIN w -> Todo]

IsTx(c) ==
    /\ c \in [pc : {"idle", "get", "place", "write", "commit"}, op : Ops \cup {"none"}, id : Ids \cup {None},
               list : Lists \cup {NoList}, parent : Ids \cup {None, Keep}, locks : SUBSET Ids,
               advisory : SUBSET (Lists \cup {NoList}), put : {c.put}, at : 0..MaxTodoCalls]
    /\ IsWrite(c.put)

\* A transaction that holds nothing yet; none at all.
Begun(pc, op, i, l, p, at) == [pc |-> pc, op |-> op, id |-> i, list |-> l, parent |-> p,
                               locks |-> {}, advisory |-> {}, put |-> <<>>, at |-> at]
NoTx == Begun("idle", "none", None, NoList, None, 0)

\* Rows with some written over.
Over(w, r) == [i \in DOMAIN w \cup DOMAIN r |-> IF i \in DOMAIN w THEN w[i] ELSE r[i]]

\* The write of one row.
Row(i, t) == [j \in {i} |-> t]

\* The rows as the session sees them: committed ones under its own writes.
Sees(s) == Over(txs[s].put, rows)

Live(r, i) == i \in DOMAIN r /\ r[i].st = "live"
HasChildren(r, i) == \E c \in Ids : Live(r, c) /\ r[c].parent = i

\* Rows and all that hangs under them, live or trashed, at any depth: what a foreign key's cascade reaches.
Under(is) ==
    {i \in Ids : \A all \in SUBSET Ids :
        /\ is \subseteq all
        /\ \A j \in Ids : rows[j].st \in {"live", "trash"} /\ rows[j].parent \in all => j \in all
        => i \in all}

-----------------------------------------------------------------------------
(* Locks.                                                                  *)

Others(s) == Sessions \ {s}
CanLock(s, is) == \A o \in Others(s) : txs[o].locks \cap is = {}

\* The trigger without its lock.
CanAdviseAlways(s, ls) == TRUE

\* pg_advisory_xact_lock of the trigger, one per list.
CanAdvise(s, ls) == \A o \in Others(s) : txs[o].advisory \cap ls = {}

\* todos_check_depth, for one row about to be written; r holds the writes so far.
Depth(r, i) ==
    r[i].parent # None /\ r[i].st = "live" => r[r[i].parent].parent = None /\ ~HasChildren(r, i)

\* The rows of a write that make the trigger take the lock of their list.
Advised(w) == {w[i].list : i \in {j \in DOMAIN w : w[j].parent # None /\ w[j].st = "live"}}

\* A statement: waits for the locks, runs the trigger on every row, keeps the rows pending.
Statement(s, w, shared) ==
    /\ CanLock(s, DOMAIN w \cup shared)
    /\ CanAdvise(s, Advised(w))
    /\ \A i \in DOMAIN w : Depth(Over(w, Sees(s)), i)
    /\ \A i \in DOMAIN w : w[i].list \in lists
    /\ txs' = [txs EXCEPT ![s] = [txs[s] EXCEPT !.put = Over(w, @), !.locks = @ \cup DOMAIN w \cup shared,
                                                !.advisory = @ \cup Advised(w), !.pc = "commit"]]
    /\ UNCHANGED <<rows, lists, calls>>

-----------------------------------------------------------------------------
(* The calls.                                                              *)

Begin(s, op, i, l, p, pc) ==
    /\ txs[s].pc = "idle" /\ calls < MaxTodoCalls
    /\ calls' = calls + 1
    /\ txs' = [txs EXCEPT ![s] = Begun(pc, op, i, l, p, calls + 1)]
    /\ UNCHANGED <<rows, lists>>

\* A new id; ids are used in order.
NewID(s, i) == /\ rows[i].st = "none" /\ \A j \in Ids : j < i => rows[j].st # "none"
               /\ \A o \in Others(s) : i \notin DOMAIN txs[o].put /\ txs[o].id # i

\* Todos.Create: the list map is read before the transaction.
Create(s, l, p) == \E i \in Ids : NewID(s, i) /\ l \in lists /\ Begin(s, "create", i, l, p, "place")

\* Todos.Update and Todos.Move; NoList and Keep stand for fields left out.
Update(s, i, l, p) == l \in lists \cup {NoList} /\ Begin(s, "move", i, l, p, "get")
Move(s, i, l, p) == Update(s, i, l, p)

Complete(s, i) == Begin(s, "complete", i, NoList, None, "get")
Reopen(s, i) == Begin(s, "reopen", i, NoList, None, "get")
Delete(s, i) == Begin(s, "delete", i, NoList, None, "get")

\* The API: any list and any parent, in a create, a patch or a move.
createTodo(s) == \E l \in lists, p \in Ids \cup {None} : Create(s, l, p)
updateTodo(s) == \E i \in Ids, l \in lists, p \in Ids \cup {None, Keep} : rows[i].st = "live" /\ Update(s, i, l, p)
moveTodo(s) == \E i \in Ids, p \in Ids \cup {None} : rows[i].st = "live" /\ Move(s, i, NoList, p)
completeTodo(s) == \E i \in Ids : rows[i].st = "live" /\ Complete(s, i)
reopenTodo(s) == \E i \in Ids : rows[i].st = "live" /\ Reopen(s, i)
deleteTodo(s) == \E i \in Ids : rows[i].st = "live" /\ Delete(s, i)

\* The pages: a subtask is made from its parent's page, in the parent's list.
WebCreate(s) == \/ Create(s, DefaultList, None)
                \/ \E p \in Ids : rows[p].st = "live" /\ Create(s, rows[p].list, p)

\* The form offers the list of a todo without a parent, as it was when the page loaded it.
WebUpdate(s) == \E i \in Ids, l \in lists : rows[i].st = "live" /\ rows[i].parent = None /\ Update(s, i, l, Keep)

\* The box is ticked or not by the status the handler read before the transaction.
WebToggle(s) == \E i \in Ids : /\ rows[i].st = "live"
                               /\ IF rows[i].open THEN Complete(s, i) ELSE Reopen(s, i)

WebRemove(s) == \E i \in Ids : rows[i].st = "live" /\ Delete(s, i)

\* Store.Restore reads deleted_at without a lock.
Restore(s) == \E i \in Ids : /\ txs[s].pc = "idle" /\ calls < MaxTodoCalls /\ rows[i].st = "trash"
                             /\ calls' = calls + 1
                             /\ txs' = [txs EXCEPT ![s] = Begun("write", "restore", i, NoList, None, rows[i].at)]
                             /\ UNCHANGED <<rows, lists>>

\* todoTx.Get: SELECT ... FOR UPDATE, which sees the row as last committed.
Get(s) ==
    /\ txs[s].pc = "get" /\ CanLock(s, {txs[s].id}) /\ rows[txs[s].id].st = "live"
    /\ txs' = [txs EXCEPT ![s] = [txs[s] EXCEPT !.locks = @ \cup {txs[s].id},
                                                !.pc = IF txs[s].op = "move" THEN "place" ELSE "write"]]
    /\ UNCHANGED <<rows, lists, calls>>

\* relocate by list alone: a subtask stays with its parent.
PlaceKept(s) ==
    LET c == txs[s]  t == rows[c.id]  l == IF c.list = NoList THEN t.list ELSE c.list IN
    /\ c.pc = "place" /\ c.parent = Keep
    /\ t.parent # None => l = t.list /\ ~HasChildren(rows, c.id)
    /\ txs' = [txs EXCEPT ![s] = [txs[s] EXCEPT !.pc = "write", !.list = l, !.parent = t.parent]]
    /\ UNCHANGED <<rows, lists, calls>>

\* relocate to the top of a list.
PlaceTop(s) ==
    LET c == txs[s] IN
    /\ c.pc = "place" /\ c.parent = None
    /\ txs' = [txs EXCEPT ![s] = [txs[s] EXCEPT !.pc = "write",
                                                !.list = IF c.list = NoList THEN rows[c.id].list ELSE c.list]]
    /\ UNCHANGED <<rows, lists, calls>>

\* relocate under a parent: the parent is locked, has no parent and is in the list asked for.
PlaceUnder(s) ==
    LET c == txs[s] IN
    /\ c.pc = "place" /\ c.parent \in Ids /\ CanLock(s, {c.parent})
    /\ Live(rows, c.parent) /\ c.parent # c.id /\ rows[c.parent].parent = None
    /\ c.list \in {NoList, rows[c.parent].list}
    /\ c.op = "move" => ~HasChildren(rows, c.id)
    /\ txs' = [txs EXCEPT ![s] = [txs[s] EXCEPT !.pc = "write", !.locks = @ \cup {c.parent},
                                                !.list = rows[c.parent].list]]
    /\ UNCHANGED <<rows, lists, calls>>

-----------------------------------------------------------------------------
(* The statements.                                                         *)

\* todoTx.Insert; the foreign key shares a lock on the parent row.
Insert(s) ==
    LET c == txs[s] IN
    /\ c.pc = "write" /\ c.op = "create"
    /\ \E k \in {0, Count} :
         Statement(s, Row(c.id, [Free EXCEPT !.st = "live", !.parent = c.parent, !.list = c.list,
                                             !.left = k, !.root = c.id]), {c.parent} \ {None})

\* todoTx.Update of the place: ON UPDATE CASCADE takes what hangs under it to the new list, the trashed too.
Relocate(s) ==
    LET c == txs[s]  t == rows[c.id]
        moved == [t EXCEPT !.parent = c.parent, !.list = c.list]
        along == IF c.list = t.list THEN {} ELSE Under({c.id})
    IN  /\ c.pc = "write" /\ c.op = "move"
        /\ Statement(s, [i \in along \cup {c.id} |-> IF i = c.id THEN moved ELSE [rows[i] EXCEPT !.list = c.list]],
                     {c.parent} \ {None})

\* nextTodo: the next repetition beside the completed one, with one fewer to come.
Next1(t, i) == Row(i, [t EXCEPT !.left = @ - 1])

\* Complete as it would be if the completed todo kept its rule.
FinishKeepsRule(s) ==
    LET c == txs[s]  t == rows[c.id] IN
    /\ c.pc = "write" /\ c.op = "complete" /\ t.open /\ t.left > 1
    /\ \E i \in Ids : /\ NewID(s, i)
                      /\ Statement(s, Over(Next1(t, i), Row(c.id, [t EXCEPT !.open = FALSE])), {t.parent} \ {None})

\* Todos.Complete: the rule moves to the next repetition; completing twice changes nothing.
Finish(s) ==
    LET c == txs[s]  t == rows[c.id]
        done == Row(c.id, [t EXCEPT !.open = FALSE, !.left = 0])
    IN  /\ c.pc = "write" /\ c.op = "complete"
        /\ \/ ~t.open /\ Statement(s, <<>>, {})
           \/ t.open /\ t.left <= 1 /\ Statement(s, done, {})
           \/ /\ t.open /\ t.left > 1
              /\ \E i \in Ids : /\ NewID(s, i)
                                /\ Statement(s, Over(Next1(t, i), done), {t.parent} \ {None})

ReopenRow(s) == /\ txs[s].pc = "write" /\ txs[s].op = "reopen"
                /\ Statement(s, IF rows[txs[s].id].open THEN <<>>
                                ELSE Row(txs[s].id, [rows[txs[s].id] EXCEPT !.open = TRUE]), {})

\* deleteTodoSQL: the todo and its live subtasks, at one time.
DeleteRows(s) ==
    LET c == txs[s]  batch == {i \in Ids : Live(rows, i) /\ c.id \in {i, rows[i].parent}}
    IN  /\ c.pc = "write" /\ c.op = "delete"
        /\ Statement(s, [i \in batch |-> [rows[i] EXCEPT !.st = "trash", !.at = c.at]], {})

\* restoreTodoSQL: the todo and the subtasks deleted with it; nothing left to restore is an error.
RestoreRows(s) ==
    LET c == txs[s]
        batch == {i \in Ids : rows[i].st = "trash" /\ rows[i].at = c.at /\ c.id \in {i, rows[i].parent}}
    IN  /\ c.pc = "write" /\ c.op = "restore" /\ batch # {}
        /\ Statement(s, [i \in batch |-> [rows[i] EXCEPT !.st = "live", !.at = 0]], {})

Commit(s) ==
    /\ txs[s].pc = "commit"
    /\ rows' = Sees(s)
    /\ txs' = [txs EXCEPT ![s] = NoTx]
    /\ UNCHANGED <<lists, calls>>

\* An error of any step: rawTx rolls back, and retries it as a new call where the error says so.
Rollback(s) ==
    /\ txs[s].pc # "idle"
    /\ txs' = [txs EXCEPT ![s] = NoTx]
    /\ UNCHANGED <<rows, lists, calls>>

-----------------------------------------------------------------------------
(* One-statement transactions.                                             *)

\* Rows that go, and with them by ON DELETE CASCADE what hangs under them.
Remove(is) ==
    /\ \A s \in Sessions : txs[s].locks \cap Under(is) = {}
    /\ rows' = [i \in Ids |-> IF i \in Under(is) THEN [rows[i] EXCEPT !.st = "gone"] ELSE rows[i]]

\* purgeTodoSQL, from the trash page.
PurgeItem(i) ==
    LET hit == {j \in Ids : rows[j].st = "trash" /\ i \in {j, rows[j].parent}}
    IN  calls < MaxTodoCalls /\ calls' = calls + 1 /\ hit # {} /\ Remove(hit) /\ UNCHANGED <<lists, txs>>

\* The retention job: everything deleted up to a time.
PurgeDeleted(t) ==
    LET hit == {j \in Ids : rows[j].st = "trash" /\ rows[j].at <= t}
    IN  calls < MaxTodoCalls /\ calls' = calls + 1 /\ hit # {} /\ Remove(hit) /\ UNCHANGED <<lists, txs>>

\* TodoLists.Delete: not the default list; its todos go with it.
DeleteList(l) ==
    /\ calls < MaxTodoCalls /\ calls' = calls + 1
    /\ l \in lists \ {DefaultList}
    /\ \A s \in Sessions : \A i \in DOMAIN txs[s].put : txs[s].put[i].list # l
    /\ Remove({i \in Ids : rows[i].list = l /\ rows[i].st \in {"live", "trash"}})
    /\ lists' = lists \ {l} /\ UNCHANGED txs

CreateList(l) == /\ calls < MaxTodoCalls /\ calls' = calls + 1
                 /\ l \in Lists \ lists /\ \A i \in Ids : rows[i].list # l
                 /\ lists' = lists \cup {l} /\ UNCHANGED <<rows, txs>>

deleteTodoList(l) == DeleteList(l)
createTodoList(l) == CreateList(l)
WebCreateList(l) == CreateList(l)

-----------------------------------------------------------------------------
TodosInit ==
    /\ \E there \in SUBSET (Lists \ {DefaultList}) :
         /\ lists = there \cup {DefaultList}
         /\ \E l \in lists, sub \in {"live", "trash"} :
              rows = [i \in Ids |->
                  IF i = 1 THEN [Free EXCEPT !.st = "live", !.list = DefaultList, !.root = 1]
                  ELSE IF i = 2 THEN [Free EXCEPT !.st = sub, !.parent = 1, !.list = DefaultList,
                                                  !.left = Count, !.root = 2]
                  ELSE IF i = 3 THEN [Free EXCEPT !.st = "live", !.list = l, !.root = 3]
                  ELSE Free]
    /\ txs = [s \in Sessions |-> NoTx] /\ calls = 0

TodosNext ==
    \/ \E s \in Sessions :
         \/ /\ txs[s].pc = "idle" /\ calls < MaxTodoCalls
            /\ \/ createTodo(s) \/ updateTodo(s) \/ moveTodo(s) \/ completeTodo(s) \/ reopenTodo(s) \/ deleteTodo(s)
               \/ WebCreate(s) \/ WebUpdate(s) \/ WebToggle(s) \/ WebRemove(s) \/ Restore(s)
         \/ Get(s) \/ PlaceKept(s) \/ PlaceTop(s) \/ PlaceUnder(s)
         \/ Insert(s) \/ Relocate(s) \/ Finish(s) \/ ReopenRow(s) \/ DeleteRows(s) \/ RestoreRows(s)
         \/ Commit(s) \/ Rollback(s)
    \/ \E i \in Ids : PurgeItem(i)
    \/ \E t \in 0..calls : PurgeDeleted(t)
    \/ \E l \in Lists : deleteTodoList(l) \/ createTodoList(l) \/ WebCreateList(l)

TodosSpec == TodosInit /\ [][TodosNext]_todosVars

TodosTypeOK ==
    /\ rows \in [Ids -> Todo] /\ lists \subseteq Lists /\ calls \in 0..MaxTodoCalls
    /\ txs = [s \in Sessions |-> txs[s]] /\ \A s \in Sessions : IsTx(txs[s])

-----------------------------------------------------------------------------
(* Properties.                                                             *)

(* Subtasks go one level deep and are in the list of their parent: a live  *)
(* todo's parent exists, has no parent itself and shares its list, however *)
(* moves, restores, completions and purges of two requests interleave      *)
(* (relocate, todos_check_depth and the parent's foreign key).             *)
OneLevel ==
    \A i \in Ids : Live(rows, i) /\ rows[i].parent # None =>
        LET p == rows[rows[i].parent]
        IN  p.st \in {"live", "trash"} /\ p.parent = None /\ p.list = rows[i].list

(* A recurring todo is done as often as its rule says: the todos it has    *)
(* become and those still to come always add up to the count, and the rule *)
(* is with one of them, however often and by whomever it is completed,     *)
(* reopened, deleted and restored (Complete and nextTodo).                 *)
RepeatsExactly ==
    \A r \in Ids : rows[r].root = r /\ (\E i \in Ids : rows[i].root = r /\ rows[i].left > 0) =>
        LET of == {i \in Ids : rows[i].root = r}
            ruled == {i \in of : rows[i].left > 0}
        IN  /\ Cardinality(ruled) = 1
            /\ \A i \in ruled : Cardinality(of) + rows[i].left - 1 = Count

-----------------------------------------------------------------------------
(* What every transaction can rely on, and what OneLevel rests on.         *)

\* A subtask that is kept, and a parent that it fits under.
Kept(v) == v.st \in {"live", "trash"} /\ v.parent # None
Fits(v, u) == u.st \in {"live", "trash"} /\ u.list = v.list /\ (v.st = "live" => u.parent = None)
Fitting(r) == \A i \in Ids : Kept(r[i]) => r[i].parent \in Ids /\ Fits(r[i], r[r[i].parent])

\* The todo of a transaction is locked and not deleted.
Held(c) == c.id \in c.locks /\ Live(rows, c.id)

\* Its new place is free of races: the top, or a parent that is locked and can have subtasks.
Placed(c) == c.parent # None => /\ c.parent \in c.locks /\ Live(rows, c.parent)
                                /\ rows[c.parent].parent = None /\ rows[c.parent].list = c.list

\* A written row is locked; its parent is locked too, or was its parent before.  A subtask is live
\* only under the lock of its list, and a trashed one has not changed its parent.
WrittenInv(c) ==
    /\ DOMAIN c.put \subseteq c.locks
    /\ \A i \in DOMAIN c.put :
        /\ c.put[i].st \in {"live", "trash"} /\ rows[i].st # "gone"
        /\ c.put[i].parent # None =>
             /\ c.put[i].parent \in c.locks \/ (rows[i].st # "none" /\ rows[i].parent = c.put[i].parent)
             /\ c.put[i].st = "live" => c.put[i].list \in c.advisory
             /\ c.put[i].st = "trash" => rows[i].st # "none" /\ rows[i].parent = c.put[i].parent

StageInv(c) ==
    /\ c.pc \in {"idle", "get"} => c.locks = {}
    /\ c.pc # "commit" => DOMAIN c.put = {} /\ c.advisory = {}
    /\ c.pc = "get" => c.id \in Ids /\ c.op \in {"move", "complete", "reopen", "delete"}
    /\ c.op = "create" => c.id \in Ids /\ rows[c.id].st = "none" /\ c.parent # Keep
    /\ c.pc = "place" => c.op = "create" \/ (c.op = "move" /\ Held(c))
    /\ c.pc = "write" =>
        /\ c.op \in {"move", "complete", "reopen", "delete"} => Held(c)
        /\ c.op = "create" => Placed(c)
        /\ c.op = "move" => Placed(c) \/ (c.parent = rows[c.id].parent /\ c.list = rows[c.id].list)

\* Two transactions never hold one lock, and the new todo of one is no other's.
Apart(c, d) == /\ c.locks \cap d.locks = {} /\ c.advisory \cap d.advisory = {}
               /\ c.op = "create" => d.id # c.id /\ c.id \notin DOMAIN d.put

\* The inductive invariant: subtasks fit under their parents in what is committed and in what
\* every transaction sees.
TodosInv ==
    /\ TodosTypeOK
    /\ Fitting(rows)
    /\ \A s \in Sessions : Fitting(Sees(s)) /\ WrittenInv(txs[s]) /\ StageInv(txs[s])
    /\ \A s \in Sessions : \A o \in Others(s) : Apart(txs[s], txs[o])

-----------------------------------------------------------------------------
(* What RepeatsExactly rests on.                                           *)

\* A todo that never was has neither a rule nor a root; the root of any other is or was a todo.
Rooted ==
    \A i \in Ids : \/ rows[i].st = "none" /\ rows[i].left = 0 /\ rows[i].root = None
                   \/ rows[i].st # "none" /\ rows[i].root \in Ids /\ rows[rows[i].root].st # "none"

\* One todo at most of those that go back to a root has the rule, and with it the rest of the count.
Family(r) == {j \in Ids : rows[j].root = r}
Counted ==
    \A i \in Ids : rows[i].left > 0 =>
        /\ \A j \in Family(rows[i].root) : rows[j].left > 0 => j = i
        /\ Cardinality(Family(rows[i].root)) + rows[i].left = Count + 1

\* A write keeps the root of a todo, and its rule or drops it.  At most one todo in it is new: the
\* root of its own, or the next of one whose rule it takes over.
Spends(w) ==
    \A i \in DOMAIN w :
        /\ rows[i].st # "none" => w[i].root = rows[i].root /\ w[i].left \in {rows[i].left, 0}
        /\ rows[i].st = "none" =>
             /\ \A j \in DOMAIN w : rows[j].st = "none" => j = i
             /\ \/ w[i].root = i /\ w[i].left \in {0, Count}
                \/ \E k \in DOMAIN w : /\ rows[k].left > 1 /\ w[k].left = 0
                                       /\ w[i].root = rows[k].root /\ w[i].left = rows[k].left - 1

CountInv == Rooted /\ Counted /\ \A s \in Sessions : Spends(txs[s].put)
=============================================================================
