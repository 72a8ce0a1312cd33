------------------------------ MODULE Realtime ------------------------------
(***************************************************************************)
(* Live pages (internal/realtime over store/pg/changes.go and db/listen.go,*)
(* pages loaded by web/timeline).  Every write of an owner leaves a row in *)
(* `changes'; Postgres notifies the listener of committed rows; the hub    *)
(* puts them in the buffers of the open streams; a stream tells its page   *)
(* to load again when the change matters to it.  The listener's connection *)
(* drops, buffers overflow, streams close, and a page is loaded by several *)
(* statements.  One owner.                                                 *)
(***************************************************************************)
EXTENDS Integers, Sequences, FiniteSets

CONSTANTS
    Streams,        \* pages with a stream
    ChangeKinds,    \* the changes that are made
    ViewFrom, ViewTo,  \* what the pages show
    ShareCals, ShareTodos,  \* what the share includes
    ShareID,
    SubBuffer, MaxSubsPerOwner, ReplayLimit,
    MaxChanges,     \* bound
    MaxDrops        \* bound: lost connections and closed streams

Entities == {"event", "todo", "calendar", "list", "settings", "share", "import"}
Unset    == -1
Wake     == 0      \* the change without a number that Resync delivers

Change == [entity : Entities, id : Nat, cal : Nat, from : Nat \cup {Unset}, to : Nat \cup {Unset}]

\* What the constants must satisfy.
RealtimeAssumption ==
    /\ ChangeKinds \subseteq Change
    /\ {SubBuffer, MaxSubsPerOwner, ReplayLimit} \subseteq Nat \ {0} /\ IsFiniteSet(Streams)
    /\ ViewFrom \in Nat /\ ViewTo \in Nat /\ MaxChanges \in Nat /\ MaxDrops \in Nat

VARIABLES
    changes,   \* the table, by seq: the change and "open", "done" or "undone"
    wire,      \* notifications on their way to the listener
    listener,  \* "new" before its first connection, then "up" or "down"
    hub,       \* "open" or "closed"
    spill,     \* streams whose buffer was found full and that are about to be marked
    streams,   \* stream -> its state, buffers and what its page shows
    drops      \* faults that happened

realtimeVars == <<changes, wire, listener, hub, spill, streams, drops>>

Actions == {"Skip", "Refresh", "Reload"}
Rank    == [a \in Actions |-> IF a = "Skip" THEN 0 ELSE IF a = "Refresh" THEN 1 ELSE 2]

Stream == [kind : {"user", "share"}, st : {"off", "replay", "live"}, page : {"none", "data", "shown"},
           since : Nat, has : SUBSET Nat, buf : Seq(Nat), notes : 0..SubBuffer,
           lost : BOOLEAN, told : BOOLEAN, heard : BOOLEAN]

RealtimeTypeOK ==
    /\ changes \in Seq([c : ChangeKinds, st : {"open", "done", "undone"}])
    /\ wire \in Seq(DOMAIN changes)
    /\ listener \in {"new", "up", "down"} /\ hub \in {"open", "closed"}
    /\ spill \subseteq Streams /\ drops \in 0..MaxDrops
    /\ streams \in [Streams -> Stream]
    /\ \A s \in Streams : streams[s].has \subseteq DOMAIN changes /\ Len(streams[s].buf) <= SubBuffer
    /\ Cardinality({s \in Streams : streams[s].st # "off"}) <= MaxSubsPerOwner

-----------------------------------------------------------------------------
(* Filters. *)

\* Overlaps: a change without a time overlaps nothing, an instant lies in the range it starts.
Overlaps(c, from, to) ==
    /\ c.from # Unset /\ c.from < to
    /\ c.to = Unset \/ c.to > from \/ (c.to <= c.from /\ c.from >= from)

\* RangeFilter, for the owner's own pages.
RangeFilter(c) ==
    IF \/ c.entity \in {"event", "todo"} /\ Overlaps(c, ViewFrom, ViewTo)
       \/ c.entity \in {"calendar", "list", "settings"}
    THEN "Refresh" ELSE "Skip"

\* ShareFilter, for a page somebody was given a link to.
ShareFilter(c) ==
    IF c.entity = "share" /\ c.id = ShareID THEN "Reload"
    ELSE IF \/ c.entity = "calendar" /\ c.id \in ShareCals
            \/ c.entity = "event" /\ c.cal \in ShareCals /\ Overlaps(c, ViewFrom, ViewTo)
            \/ c.entity = "todo" /\ ShareTodos /\ Overlaps(c, ViewFrom, ViewTo)
            \/ c.entity = "list" /\ ShareTodos
            \/ c.entity = "settings"
    THEN "Refresh" ELSE "Skip"

\* live: the stream of the owner's pages; publicLive is that of a shared page.
Live(s) == streams[s].kind = "user"
Filter(s, c) == IF Live(s) THEN RangeFilter(c) ELSE ShareFilter(c)

-----------------------------------------------------------------------------
(* The changes table. *)

Committed == {i \in DOMAIN changes : changes[i].st = "done"}
LatestSeq == IF Committed = {} THEN 0 ELSE CHOOSE i \in Committed : \A j \in Committed : j <= i

\* ChangesSince: the first of the changes after a number.
ChangesSince(n) == {i \in Committed : i > n /\ Cardinality({j \in Committed : n < j /\ j < i}) < ReplayLimit}

\* recordChange: the row takes its number under a lock of the owner that is held until
\* the transaction ends.
RecordChange(c) ==
    /\ Len(changes) < MaxChanges
    /\ \A i \in DOMAIN changes : changes[i].st # "open"
    /\ changes' = Append(changes, [c |-> c, st |-> "open"])
    /\ UNCHANGED <<wire, listener, hub, spill, streams, drops>>

\* A writer's transaction commits, which notifies who listens, or is rolled back.
EndWrite ==
    \E i \in DOMAIN changes :
        /\ changes[i].st = "open"
        /\ \/ /\ changes' = [changes EXCEPT ![i].st = "done"]
              /\ wire' = IF listener = "up" THEN Append(wire, i) ELSE wire
           \/ changes' = [changes EXCEPT ![i].st = "undone"] /\ UNCHANGED wire
        /\ UNCHANGED <<listener, hub, spill, streams, drops>>

-----------------------------------------------------------------------------
(* The listener and the hub.  The hub's mutex is held while `spill' is not empty. *)

Subscribed == {s \in Streams : streams[s].st # "off"}

\* deliver, for every stream: a full buffer is not waited for.
Deliver(x, to) ==
    /\ spill = {}
    /\ spill' = {s \in to : Len(streams[s].buf) = SubBuffer}
    /\ streams' = [s \in Streams |-> IF s \notin to \/ Len(streams[s].buf) = SubBuffer THEN streams[s]
                                     ELSE [streams[s] EXCEPT !.buf = Append(@, x)]]

\* Publish: the next notification goes to every stream.
Publish ==
    /\ wire # <<>> /\ wire' = Tail(wire)
    /\ Deliver(Head(wire), Subscribed)
    /\ UNCHANGED <<changes, listener, hub, drops>>

\* A stream whose buffer was full is marked.
MarkLost ==
    /\ spill # {} /\ spill' = {}
    /\ streams' = [s \in Streams |-> IF s \in spill THEN [streams[s] EXCEPT !.lost = TRUE] ELSE streams[s]]
    /\ UNCHANGED <<changes, wire, listener, hub, drops>>

\* The connection of the listener fails, with what is on its way.
Disconnect ==
    /\ listener = "up" /\ drops < MaxDrops
    /\ listener' = "down" /\ wire' = <<>> /\ drops' = drops + 1
    /\ UNCHANGED <<changes, hub, spill, streams>>

\* listenOnce and Listen: the first connection; later ones resynchronise every stream.
Connect ==
    /\ listener = "new" /\ listener' = "up"
    /\ UNCHANGED <<changes, wire, hub, spill, streams, drops>>

\* Resync: every stream is marked and woken.
Resync ==
    /\ listener = "down" /\ listener' = "up" /\ spill = {} /\ UNCHANGED spill
    /\ streams' = [s \in Streams |-> IF s \notin Subscribed THEN streams[s]
                     ELSE [streams[s] EXCEPT !.lost = TRUE, !.heard = TRUE,
                              !.buf = IF Len(@) < SubBuffer THEN Append(@, Wake) ELSE @]]
    /\ UNCHANGED <<changes, wire, hub, drops>>

\* Notify: a reminder for the pages that are open; a full buffer drops it.
Notify ==
    /\ spill = {}
    /\ \E s \in Subscribed : streams[s].notes < SubBuffer
    /\ streams' = [s \in Streams |-> IF s \in Subscribed /\ streams[s].notes < SubBuffer
                                     THEN [streams[s] EXCEPT !.notes = @ + 1] ELSE streams[s]]
    /\ UNCHANGED <<changes, wire, listener, hub, spill, drops>>

\* Close, when the server stops: every stream ends.
CloseHub ==
    /\ spill = {} /\ hub = "open" /\ hub' = "closed"
    /\ streams' = [s \in Streams |-> [streams[s] EXCEPT !.st = "off"]]
    /\ UNCHANGED <<changes, wire, listener, spill, drops>>

-----------------------------------------------------------------------------
(* Pages and their streams. *)

Stays == UNCHANGED <<changes, wire, listener, hub, spill, drops>>

\* Load: the number of the newest change is read before the data, which other
\* statements read.
LoadSeq(s) ==
    /\ streams[s].page = "none" \/ (streams[s].page = "shown" /\ streams[s].told)
    /\ streams' = [streams EXCEPT ![s].page = "data", ![s].told = FALSE, ![s].since = LatestSeq]
    /\ Stays
LoadData(s) ==
    /\ streams[s].page = "data"
    /\ streams' = [streams EXCEPT ![s].page = "shown", ![s].has = Committed]
    /\ Stays

\* Subscribe: a place in the hub, unless the owner has too many.
Subscribe(s) ==
    /\ streams[s].page = "shown" /\ streams[s].st = "off"
    /\ spill = {} /\ hub = "open" /\ Cardinality(Subscribed) < MaxSubsPerOwner
    /\ streams' = [streams EXCEPT ![s].st = "replay", ![s].buf = <<>>, ![s].notes = 0,
                                  ![s].lost = FALSE, ![s].heard = (listener = "up")]
    /\ Stays

Told(s, acts) == streams[s].told \/ \E a \in acts : Rank[a] > 0

\* Serve: what was written since the page was loaded, before what the stream carries; a
\* page that never had a change has no number to start from.
Replay(s) ==
    LET pending == IF streams[s].since > 0 THEN ChangesSince(streams[s].since) ELSE {}
        acts    == {Filter(s, changes[i].c) : i \in pending}
                     \cup (IF Cardinality(pending) >= ReplayLimit THEN {"Refresh"} ELSE {})
    IN  /\ streams[s].st = "replay"
        /\ streams' = [streams EXCEPT ![s].st = "live", ![s].told = Told(s, acts)]
        /\ Stays

\* Serve's loop: the next of the stream's changes.
ServeChange(s) ==
    LET x    == Head(streams[s].buf)
        acts == (IF streams[s].lost THEN {"Refresh"} ELSE {})
                  \cup (IF x # Wake THEN {Filter(s, changes[x].c)} ELSE {})
    IN  /\ streams[s].st = "live" /\ streams[s].buf # <<>>
        /\ streams' = [streams EXCEPT ![s].buf = Tail(@), ![s].lost = FALSE, ![s].told = Told(s, acts)]
        /\ Stays

\* Serve's loop: the next notice, which only the owner's pages show.
ServeNotice(s) ==
    /\ streams[s].st = "live" /\ streams[s].notes > 0
    /\ streams' = [streams EXCEPT ![s].notes = @ - 1]
    /\ Stays

\* The connection of a page ends (a write or a ping fails): Unsubscribe.
Unsubscribe(s) ==
    /\ streams[s].st # "off" /\ spill = {} /\ drops < MaxDrops
    /\ drops' = drops + 1
    /\ streams' = [streams EXCEPT ![s].st = "off"]
    /\ UNCHANGED <<changes, wire, listener, hub, spill>>

Serve(s) == Replay(s) \/ ServeChange(s) \/ ServeNotice(s) \/ Unsubscribe(s)

RealtimeInit ==
    /\ changes \in {<<>>} \cup {<<[c |-> c, st |-> "done"]>> : c \in ChangeKinds}
    /\ wire = <<>> /\ listener = "new" /\ hub = "open" /\ spill = {} /\ drops = 0
    /\ \E kind \in [Streams -> {"user", "share"}] :
          streams = [s \in Streams |-> [kind |-> kind[s], st |-> "off", page |-> "none", since |-> 0, has |-> {}, buf |-> <<>>,
                        notes |-> 0, lost |-> FALSE, told |-> FALSE, heard |-> FALSE]]

RealtimeNext ==
    \/ EndWrite \/ \E c \in ChangeKinds : RecordChange(c)
    \/ Publish \/ MarkLost \/ Disconnect \/ Connect \/ Resync \/ Notify \/ CloseHub
    \/ \E s \in Streams : LoadSeq(s) \/ LoadData(s) \/ Subscribe(s) \/ Serve(s)

RealtimeSpec == RealtimeInit /\ [][RealtimeNext]_realtimeVars

-----------------------------------------------------------------------------
\* Nothing is on its way to the page: the listener is connected, and was when the stream
\* began or has resynchronised it since.
Quiet(s) ==
    /\ streams[s].st = "live" /\ streams[s].page = "shown" /\ streams[s].since > 0
    /\ streams[s].buf = <<>> /\ ~streams[s].lost /\ s \notin spill
    /\ wire = <<>> /\ listener = "up" /\ streams[s].heard

\* When nothing is on its way, a page shows every committed change that matters to it or
\* has been told to load again: whatever was written while it was loaded, before it
\* subscribed, while its buffer was full or the listener away (Load, Serve, deliver,
\* Resync, changes_assign_seq).
NothingMissed ==
    \A s \in Streams : Quiet(s) =>
        \/ streams[s].told
        \/ \A i \in Committed \ streams[s].has : Filter(s, changes[i].c) = "Skip"

-----------------------------------------------------------------------------
(* Why it holds: the inductive invariant. *)

\* A change whose transaction is open is the newest, and newer than what any page started from.
OpenInv ==
    /\ \A i \in DOMAIN changes : changes[i].st = "open" =>
          i = Len(changes) /\ \A s \in Streams : streams[s].since < i
    /\ \A s \in Streams : streams[s].since <= Len(changes)

\* Before the listener's first connection no stream hears anything.
HeardInv == listener = "new" => \A s \in Streams : ~streams[s].heard

\* A committed change that a page lacks is newer than what the page started from; the
\* page has been told or the change means nothing to it, or else word of it is still to
\* come: the stream has yet to replay or to resynchronise, or its buffer or the wire
\* holds the change.
Coming(s, i) ==
    \/ streams[s].st # "live" \/ ~streams[s].heard \/ listener # "up"
    \/ streams[s].lost \/ s \in spill
    \/ \E j \in DOMAIN wire : wire[j] = i
    \/ \E j \in DOMAIN streams[s].buf : streams[s].buf[j] = i
MissInv ==
    \A s \in Streams : streams[s].page = "shown" =>
        \A i \in Committed \ streams[s].has :
            /\ streams[s].since < i
            /\ \/ streams[s].since = 0 \/ streams[s].told \/ Filter(s, changes[i].c) = "Skip"
               \/ Coming(s, i)

RealtimeInv == RealtimeTypeOK /\ OpenInv /\ HeardInv /\ MissInv
=============================================================================
