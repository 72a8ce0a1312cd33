------------------------------ MODULE Changes ------------------------------
(***************************************************************************)
(* The change log as a client with an API token follows it: GET /changes   *)
(* (internal/api/changes.go), and the MCP endpoint (api/mcp.go,            *)
(* api/mcp_tools.go), whose tools read and write through the same          *)
(* services and whose list_changes is the same poll.  A write leaves a row *)
(* in `changes' inside its own transaction, retention deletes old rows,    *)
(* and one poll is two statements: the rows after `since', then the newest *)
(* number.  One owner, one token, one poll at a time.                      *)
(***************************************************************************)
EXTENDS Integers, Sequences, FiniteSets

CONSTANTS
    Grants,             \* the sets of scopes a token may have
    AskedLimits,        \* the limits the client asks for
    MaxChangeLimit,     \* maxChangeLimit
    Follow,             \* what the client sends as its next since: "latest", or "items" for the last row's seq
    MaxSeq              \* bound: rows ever written

\* What the constants must satisfy.
ChangesAssumption == MaxSeq \in Nat /\ MaxChangeLimit \in Nat \ {0} /\ AskedLimits \subseteq Int

VARIABLES
    log,     \* the table, by seq: the row is open, done, undone or purged
    client,  \* the token's client: its poll, where it has got to, the rows it was given
    reply    \* the answer to its last request

changesVars == <<log, client, reply>>

-----------------------------------------------------------------------------
(* The tools: what scope they need, what they write, what their annotations say. *)

Tool(name, scope, hints, writes) == [name |-> name, scope |-> scope, hints |-> hints, writes |-> writes]

AccountTools == {
    Tool("get_account", "account:read", "read", "none"),
    Tool("update_account", "account:write", "update", "settings")}

CalendarTools == {
    Tool("list_calendars", "calendars:read", "read", "none"),
    Tool("export_calendar", "exports:read", "read", "none"),
    Tool("list_subscriptions", "calendars:read", "read", "none")}

ReadTools == {
    Tool("list_events", "calendars:read", "read", "none"),
    Tool("search", "calendars:read", "read", "none"),
    Tool("get_event", "calendars:read", "read", "none")}

EventTools == {
    Tool("create_event", "calendars:write", "create", "event"),
    Tool("update_event", "calendars:write", "update", "event"),
    Tool("delete_event", "calendars:write", "delete", "event")}

TodoTools == {
    Tool("list_todo_lists", "todos:read", "read", "none"),
    Tool("list_todos", "todos:read", "read", "none"),
    Tool("get_todo", "todos:read", "read", "none"),
    Tool("create_todo", "todos:write", "create", "todo"),
    Tool("update_todo", "todos:write", "update", "todo"),
    Tool("complete_todo", "todos:write", "update", "todo"),
    Tool("reopen_todo", "todos:write", "update", "todo"),
    Tool("delete_todo", "todos:write", "delete", "todo")}

CheckTools == {
    Tool("add_check", "todos:write", "create", "todo"),
    Tool("update_check", "todos:write", "update", "todo")}

ListChanges == Tool("list_changes", "calendars:read", "read", "none")

Tools == AccountTools \cup CalendarTools \cup ReadTools \cup EventTools \cup TodoTools \cup CheckTools \cup {ListChanges}

\* Allows: a write scope includes the read scope of its resource.
Implied == [s \in {"account:read", "calendars:read", "todos:read"} |->
               CASE s = "account:read" -> "account:write" [] s = "calendars:read" -> "calendars:write"
                 [] s = "todos:read" -> "todos:write"]
Can(scope) == scope \in client.granted \/ (scope \in DOMAIN Implied /\ Implied[scope] \in client.granted)

Replies == {"none", "accepted", "invalid", "unknown method", "unknown tool", "lacks scope", "failed", "forbidden",
            "tools", "result"}

ChangesTypeOK ==
    /\ log \in Seq({"open", "done", "undone", "purged"}) /\ Len(log) <= MaxSeq
    /\ client \in [granted : Grants, st : {"idle", "rows"}, since : 0..MaxSeq,
                   rows : SUBSET (1..MaxSeq), seen : SUBSET (1..MaxSeq)]
    /\ reply \in [kind : Replies, tools : SUBSET {t.name : t \in Tools}]

-----------------------------------------------------------------------------
(* The table. *)

Stored == {i \in DOMAIN log : log[i] = "done"}

\* Mutant: the number is taken without the owner's lock.
RecordUnordered(st) ==
    /\ Len(log) < MaxSeq
    /\ log' = Append(log, st)

\* recordChange: changes_assign_seq takes the owner's lock before the number, until the transaction ends.
Record(st) ==
    /\ Len(log) < MaxSeq
    /\ \A i \in DOMAIN log : log[i] # "open"
    /\ log' = Append(log, st)

\* A transaction of the owner's pages or jobs ends.
EndTransaction ==
    \E i \in DOMAIN log, st \in {"done", "undone"} :
        /\ log[i] = "open"
        /\ log' = [log EXCEPT ![i] = st]
        /\ UNCHANGED <<client, reply>>

Write == Record("open") /\ UNCHANGED <<client, reply>>

\* Purge: rows past the retention window go, the oldest first.
PurgeChanges ==
    /\ Stored # {}
    /\ LET oldest == CHOOSE i \in Stored : \A j \in Stored : i <= j
       IN  log' = [log EXCEPT ![oldest] = "purged"]
    /\ UNCHANGED <<client, reply>>

LastOf(rows) == CHOOSE i \in rows : \A j \in rows : j <= i
LatestSeq    == IF Stored = {} THEN 0 ELSE LastOf(Stored)

\* ChangesSince: ORDER BY seq LIMIT, the first of the rows after a number.
ChangesSince(since, limit) ==
    {i \in Stored : i > since /\ Cardinality({j \in Stored : since < j /\ j < i}) < limit}

-----------------------------------------------------------------------------
(* The poll. *)

Said(kind)   == [kind |-> kind, tools |-> {}]
Answer(kind) == client.st = "idle" /\ reply' = Said(kind) /\ UNCHANGED <<log, client>>

Clamp(limit) == IF limit < 1 THEN 1 ELSE IF limit > MaxChangeLimit THEN MaxChangeLimit ELSE limit

\* The rows of one poll are read; a negative since counts as 0.
ReadRows(since, limit) ==
    /\ client.st = "idle"
    /\ client' = [client EXCEPT !.st = "rows", !.rows = ChangesSince(IF since < 0 THEN 0 ELSE since, Clamp(limit))]
    /\ UNCHANGED <<log, reply>>

\* GET /changes behind RequireScope.
GetChanges ==
    \E limit \in AskedLimits :
        IF Can("calendars:read") THEN ReadRows(client.since, limit)
        ELSE Answer("forbidden")

\* The newest number is read by a second statement, and the client moves on.
Reply ==
    /\ client.st = "rows"
    /\ client' = [client EXCEPT !.st = "idle", !.rows = {}, !.seen = @ \cup client.rows,
                                !.since = IF Follow = "latest" THEN LatestSeq
                                          ELSE IF client.rows = {} THEN @ ELSE LastOf(client.rows)]
    /\ reply' = Said("result")
    /\ UNCHANGED log

\* The connection is lost before the answer arrives: the client asks again from where it was.
Lost ==
    /\ client.st = "rows"
    /\ client' = [client EXCEPT !.st = "idle", !.rows = {}]
    /\ UNCHANGED <<log, reply>>

-----------------------------------------------------------------------------
(* The MCP endpoint: requireBearer, serve, dispatch. *)

visible == {t.name : t \in {u \in Tools : Can(u.scope)}}

\* A body that is no single JSON-RPC 2.0 object with a method.
McpInvalid == Answer("invalid")

\* A request without an id is a notification: accepted, whatever its method, and not run.
McpNotification == Answer("accepted")

McpUnknownMethod == Answer("unknown method")

\* initialize and ping: whatever the token may do.
McpHello == Answer("result")

McpList ==
    /\ client.st = "idle"
    /\ reply' = [kind |-> "tools", tools |-> visible]
    /\ UNCHANGED <<log, client>>

\* call: an unknown name, a missing scope, then the tool, which answers once its transaction
\* is over; a failing tool is a result that says so.
McpCall ==
    \/ Answer("unknown tool")
    \/ \E t \in Tools :
          \/ ~Can(t.scope) /\ Answer("lacks scope")
          \/ Can(t.scope) /\ Answer("failed")
          \/ /\ Can(t.scope) /\ t = ListChanges
             /\ \E limit \in AskedLimits : ReadRows(client.since, limit)
          \/ Can(t.scope) /\ t # ListChanges /\ t.writes = "none" /\ Answer("result")
          \/ /\ Can(t.scope) /\ t.writes # "none" /\ client.st = "idle"
             /\ Record("done") /\ reply' = Said("result") /\ UNCHANGED client

ChangesInit ==
    /\ log = <<>> /\ reply = Said("none")
    /\ client \in [granted : Grants, st : {"idle"}, since : {0}, rows : {{}}, seen : {{}}]

ChangesNext ==
    \/ Write \/ EndTransaction \/ PurgeChanges
    \/ GetChanges \/ Reply \/ Lost
    \/ McpInvalid \/ McpNotification \/ McpUnknownMethod \/ McpHello \/ McpList \/ McpCall

ChangesSpec == ChangesInit /\ [][ChangesNext]_changesVars

-----------------------------------------------------------------------------
\* A client that polls the way it is told to has been given every change up to the number
\* it polls from next, but for the rows that retention deleted (listChanges, ChangesSince,
\* LatestSeq; `Send it back as since to continue').
PollSkipsNothing == \A i \in Stored : i <= client.since => i \in client.seen

-----------------------------------------------------------------------------
(* Why it holds: the inductive invariant. *)

\* A row that is still open is the newest, and newer than anything the client has been told.
OpenInv ==
    \A i \in DOMAIN log : log[i] = "open" =>
        i = Len(log) /\ client.since < i /\ \A r \in client.rows : r < i

\* What the client asks for next lies in the table, or did.
ReachInv == client.since <= Len(log) /\ \A r \in client.rows : r <= Len(log)

\* The rows of a poll leave none out between where it began and the last of them.
RowsInv == \A r \in client.rows, i \in Stored : client.since < i /\ i <= r => i \in client.rows

PollInv == ChangesTypeOK /\ OpenInv /\ ReachInv /\ RowsInv /\ PollSkipsNothing
=============================================================================
