----------------------------- MODULE GoogleLink -----------------------------
(***************************************************************************)
(* The link to a Google account (gsync/engine.go over store/pg/google.go): *)
(* connecting, choosing which Google calendar syncs with which calendar,   *)
(* watch channels, the webhook and disconnecting.  Requests and jobs call  *)
(* Google between their statements: each holds the rows it read when it    *)
(* began, and only the unique indexes keep them apart.  What a pull or a   *)
(* push does to the entries is module GoogleSync; here a pull only meets   *)
(* the account and the poll it sets.                                       *)
(***************************************************************************)
EXTENDS Integers, FiniteSets

CONSTANTS
    Remotes, ReadOnly,    \* Google's calendars, and those it lets one only read
    Locals,               \* calendars here, numbers; 1 is the default one
    Dirs,                 \* of "both", "pull", "push"
    Procs,                \* requests and jobs at work
    BindIds, Channels,    \* numbers, in the order they are made
    MaxLocals,            \* MaxCalendars
    MaxLinkCalls          \* bound: requests, jobs and faults

\* What the constants must satisfy.
LinkAssumption ==
    /\ Locals \subseteq Nat \ {0} /\ 1 \in Locals /\ ReadOnly \subseteq Remotes
    /\ Dirs \subseteq {"both", "pull", "push"} /\ BindIds \subseteq Nat \ {0} /\ Channels \subseteq Nat \ {0}
    /\ MaxLocals \in Nat /\ MaxLinkCalls \in Nat

VARIABLES
    account,    \* google_accounts: [is, token]
    valid,      \* the refresh tokens Google honours
    locals,     \* calendars that exist
    binds,      \* sync_bindings: id -> row
    life,       \* channel -> 2 new, 1 to be renewed within a day, 0 over, -1 not made yet
    dead,       \* channels stopped at Google
    procs,      \* process -> what it is doing
    pulls,      \* bindings whose pull is queued
    orphans,    \* ghost: channels stopped by a process that came no further
    linkCalls

linkVars == <<account, valid, locals, binds, life, dead, procs, pulls, orphans, linkCalls>>

NoBind == [live |-> FALSE, remote |-> "", local |-> 0, dir |-> "both", chan |-> 0, slow |-> FALSE]
Gone   == [NoBind EXCEPT !.remote = "gone"]        \* ids are not used again
Idle   == [pc |-> "idle", token |-> 0, rows |-> [b \in BindIds |-> NoBind], left |-> {},
           at |-> 0, pick |-> [remote |-> "", target |-> 0, dir |-> "both"], stopped |-> {}]

Row  == [live : BOOLEAN, remote : Remotes \cup {"", "gone"}, local : Locals \cup {0},
         dir : {"both", "pull", "push"}, chan : Channels \cup {0}, slow : BOOLEAN]
Proc == [pc : {"idle", "watch", "open", "save", "refused", "next", "pull", "apply", "unbind", "redirect", "bind",
               "delete", "clean"},
         token : 0..MaxLinkCalls, rows : [BindIds -> Row], left : SUBSET BindIds, at : BindIds \cup {0},
         pick : [remote : Remotes \cup {""}, target : {0, -1} \cup Locals \cup Channels,
                 dir : {"both", "pull", "push"}],
         stopped : SUBSET Channels]

LinkTypeOK ==
    /\ account \in [is : {"none", "ok", "revoked"}, token : 0..MaxLinkCalls]
    /\ valid \subseteq 1..MaxLinkCalls /\ locals \subseteq Locals /\ 1 \in locals
    /\ binds \in [BindIds -> Row]
    /\ \A b \in BindIds : binds[b].live => binds[b].remote \in Remotes /\ binds[b].local \in locals /\ account.is # "none"
    /\ life \in [Channels -> -1..2] /\ dead \subseteq Channels /\ procs \in [Procs -> Proc]
    /\ \A p \in Procs : procs[p].pc \in {"apply", "unbind", "bind", "redirect"} => procs[p].pick.remote \in Remotes
    /\ pulls \subseteq BindIds /\ orphans \subseteq Channels /\ linkCalls \in 0..MaxLinkCalls

Call == linkCalls < MaxLinkCalls /\ linkCalls' = linkCalls + 1

With(p, r)   == procs' = [procs EXCEPT ![p] = r]
Pulls(row)   == row.live /\ row.dir # "push"
Bindings     == {b \in BindIds : binds[b].live}
Honoured(p)  == procs[p].token \in valid

-----------------------------------------------------------------------------
(* The account. *)

\* Connect: one row a user, taken over by a new token; then Run.
Connect ==
    /\ Call
    /\ valid' = valid \cup {linkCalls + 1}
    /\ account' = [is |-> "ok", token |-> linkCalls + 1]
    /\ pulls' = pulls \cup Bindings
    /\ UNCHANGED <<locals, binds, life, dead, procs, orphans>>

\* Run: a pull for every binding, from the page or the API.
Run ==
    /\ pulls # pulls \cup Bindings /\ pulls' = pulls \cup Bindings
    /\ UNCHANGED <<account, valid, locals, binds, life, dead, procs, orphans, linkCalls>>

WebRun  == Run
runSync == Run

\* The user takes the access back at Google.
RevokeAtGoogle ==
    /\ Call /\ valid # {} /\ valid' = {}
    /\ UNCHANGED <<account, locals, binds, life, dead, procs, pulls, orphans>>

\* failed: an answer that says "revoked" marks the account, whatever token it holds by now.
Failed == IF account.is = "none" THEN account ELSE [account EXCEPT !.is = "revoked"]

-----------------------------------------------------------------------------
(* Watch channels. *)

\* StopWatch: an error is only logged.
StopWatch(cs, token) == dead' = IF token \in valid THEN dead \cup cs ELSE dead

Named(row) == {row.chan} \ {0}

\* The other half of watch: Watch failed, and the row says so.
WatchFailed(p) == [binds EXCEPT ![procs[p].at].chan = 0]

\* watch, up to the answer; nothing to do for a binding that does not pull.
Watch(p) ==
    LET row == procs[p].rows[procs[p].at]
    IN  /\ procs[p].pc = "watch"
        /\ IF ~Pulls(row) THEN With(p, [procs[p] EXCEPT !.pc = "next"]) /\ UNCHANGED dead
           ELSE /\ StopWatch(Named(row), procs[p].token)
                /\ With(p, [procs[p] EXCEPT !.pc = "open", !.stopped = Named(row)])
        /\ UNCHANGED <<account, valid, locals, binds, life, pulls, orphans, linkCalls>>

\* Watch answers, or fails ...
OpenChannel(p) ==
    /\ procs[p].pc = "open"
    /\ \/ \E c \in Channels :
            /\ Honoured(p) /\ life[c] = -1 /\ \A d \in Channels : d < c => life[d] # -1
            /\ life' = [life EXCEPT ![c] = 2]
            /\ With(p, [procs[p] EXCEPT !.pc = "save", !.pick.target = c])
            /\ UNCHANGED linkCalls
       \/ /\ IF Honoured(p) THEN Call ELSE UNCHANGED linkCalls
          /\ With(p, [procs[p] EXCEPT !.pc = "refused"]) /\ UNCHANGED life
    /\ UNCHANGED <<account, valid, locals, binds, dead, pulls, orphans>>

\* ... and SaveWatch writes the channel, if the row is still there.
SaveWatch(p) ==
    /\ procs[p].pc \in {"save", "refused"}
    /\ binds' = IF procs[p].pc = "refused" THEN WatchFailed(p)
                ELSE IF binds[procs[p].at].live THEN [binds EXCEPT ![procs[p].at].chan = procs[p].pick.target]
                ELSE binds
    /\ With(p, [procs[p] EXCEPT !.pc = "next", !.stopped = {}])
    /\ UNCHANGED <<account, valid, locals, life, dead, pulls, orphans, linkCalls>>

\* WatchCandidates
Candidates == {b \in Bindings : account.is = "ok" /\ Pulls(binds[b]) /\ (binds[b].chan = 0 \/ life[binds[b].chan] < 2)}

HandleWatch(p) ==
    /\ procs[p].pc = "idle" /\ Call /\ Candidates # {}
    /\ With(p, [Idle EXCEPT !.pc = "next", !.rows = binds, !.left = Candidates])
    /\ UNCHANGED <<account, valid, locals, binds, life, dead, pulls, orphans>>

\* Webhook: a channel some row names queues a pull.
Webhook(c) ==
    /\ life[c] > 0 /\ c \notin dead
    /\ \E b \in Bindings : binds[b].chan = c /\ b \notin pulls /\ pulls' = pulls \cup {b}
    /\ UNCHANGED <<account, valid, locals, binds, life, dead, procs, orphans, linkCalls>>

-----------------------------------------------------------------------------
(* HandlePull. *)

\* load
Load(p, b) ==
    /\ procs[p].pc = "idle" /\ b \in pulls /\ pulls' = pulls \ {b}
    /\ IF binds[b].live /\ account.is = "ok"
       THEN With(p, [Idle EXCEPT !.pc = "pull", !.token = account.token, !.rows = binds, !.at = b])
       ELSE UNCHANGED procs
    /\ UNCHANGED <<account, valid, locals, binds, life, dead, orphans, linkCalls>>

\* Mutant: the whole row is written back.
SaveRow(b, old, slow) == IF binds[b].live THEN [binds EXCEPT ![b].slow = slow, ![b].chan = old.chan] ELSE binds

\* SaveBindingState: the columns of the poll, never those of the channel.
SaveBindingState(b, old, slow) == IF binds[b].live THEN [binds EXCEPT ![b].slow = slow] ELSE binds

\* Watching, of the row read before the pull; pollAfter
Watching(row)  == row.chan # 0 /\ life[row.chan] > 0
PollAfter(row) == Watching(row)

HandlePull(p) ==
    LET b == procs[p].at  old == procs[p].rows[procs[p].at]
    IN  /\ procs[p].pc = "pull"
        /\ IF Pulls(old) /\ ~Honoured(p)
           THEN account' = Failed /\ binds' = SaveBindingState(b, old, FALSE)
           ELSE account' = account /\ binds' = SaveBindingState(b, old, PollAfter(old))
        /\ With(p, Idle)
        /\ UNCHANGED <<valid, locals, life, dead, pulls, orphans, linkCalls>>

\* HandlePoll: what is due is queued.
HandlePoll(b) ==
    /\ b \in Bindings /\ account.is = "ok" /\ b \notin pulls /\ pulls' = pulls \cup {b}
    /\ UNCHANGED <<account, valid, locals, binds, life, dead, procs, orphans, linkCalls>>

-----------------------------------------------------------------------------
(* Apply. *)

Targets == {0, -1} \cup Locals          \* 0: don't sync; -1: a new calendar
Choices == [remote : Remotes, target : Targets, dir : Dirs]

\* save, and the first half of Apply: Google's calendars and the bindings are read.
Apply(p, pick) ==
    /\ procs[p].pc = "idle" /\ account.is # "none" /\ Call
    /\ IF account.token \notin valid THEN account' = Failed /\ UNCHANGED procs
       ELSE /\ UNCHANGED account
            /\ With(p, [Idle EXCEPT !.pc = "apply", !.token = account.token, !.rows = binds, !.pick = pick])
    /\ UNCHANGED <<valid, locals, binds, life, dead, pulls, orphans>>

WebSave(p, pick) == Apply(p, pick)

Current(p)  == {b \in BindIds : procs[p].rows[b].live /\ procs[p].rows[b].remote = procs[p].pick.remote}
Wanted(p)   == IF procs[p].pick.remote \in ReadOnly THEN "pull" ELSE procs[p].pick.dir

\* One choice: nothing, a new direction, an end, or another calendar.
Choose(p) ==
    LET me == procs[p]
        same(b) == me.rows[b].local = me.pick.target
    IN  /\ me.pc = "apply"
        /\ \/ /\ Current(p) = {} /\ With(p, IF me.pick.target = 0 THEN Idle ELSE [me EXCEPT !.pc = "bind"])
              /\ UNCHANGED dead
           \/ \E b \in Current(p) :
                IF me.pick.target # 0 /\ same(b)
                THEN /\ With(p, IF me.pick.dir = me.rows[b].dir \/ Wanted(p) = me.rows[b].dir THEN Idle
                                ELSE [me EXCEPT !.pc = "redirect", !.at = b])
                     /\ UNCHANGED dead
                ELSE \* unbind: the channel first
                     /\ StopWatch(Named(me.rows[b]), me.token)
                     /\ With(p, [me EXCEPT !.pc = "unbind", !.at = b, !.stopped = Named(me.rows[b])])
        /\ UNCHANGED <<account, valid, locals, binds, life, pulls, orphans, linkCalls>>

\* DeleteBinding; a row that is gone is no error.
Unbind(p) ==
    /\ procs[p].pc = "unbind"
    /\ binds' = [binds EXCEPT ![procs[p].at] = Gone]
    /\ With(p, IF procs[p].pick.target = 0 THEN Idle ELSE [procs[p] EXCEPT !.pc = "bind", !.stopped = {}])
    /\ UNCHANGED <<account, valid, locals, life, dead, pulls, orphans, linkCalls>>

\* redirect: UpdateBinding, and a pull.
Redirect(p) ==
    LET b == procs[p].at
    IN  /\ procs[p].pc = "redirect"
        /\ IF binds[b].live THEN binds' = [binds EXCEPT ![b].dir = Wanted(p)] /\ pulls' = pulls \cup {b}
                            ELSE UNCHANGED <<binds, pulls>>
        /\ With(p, Idle)
        /\ UNCHANGED <<account, valid, locals, life, dead, orphans, linkCalls>>

\* createLocal, within the number of calendars allowed.
CreateLocal(p) ==
    /\ procs[p].pc = "bind" /\ procs[p].pick.target = -1
    /\ IF Cardinality(locals) >= MaxLocals THEN With(p, Idle) /\ UNCHANGED locals
       ELSE \E l \in Locals \ locals : locals' = locals \cup {l} /\ With(p, [procs[p] EXCEPT !.pick.target = l])
    /\ UNCHANGED <<account, valid, binds, life, dead, pulls, orphans, linkCalls>>

\* CreateBinding under the two unique keys and the account's foreign key; a pull, then watch.
Bind(p) ==
    LET me == procs[p]
        new == [NoBind EXCEPT !.live = TRUE, !.remote = me.pick.remote, !.local = me.pick.target, !.dir = Wanted(p)]
        free(b) == binds[b] = NoBind /\ \A d \in BindIds : d < b => binds[d] # NoBind
    IN  /\ me.pc = "bind" /\ me.pick.target # -1
        /\ \/ /\ \/ me.pick.target \notin locals \/ account.is = "none"
                 \/ \E b \in Bindings : binds[b].remote = new.remote \/ binds[b].local = new.local
              /\ With(p, Idle) /\ UNCHANGED <<binds, pulls>>
           \/ /\ me.pick.target \in locals /\ account.is # "none"
              /\ \A b \in Bindings : binds[b].remote # new.remote /\ binds[b].local # new.local
              /\ \E b \in BindIds : /\ free(b) /\ binds' = [binds EXCEPT ![b] = new] /\ pulls' = pulls \cup {b}
                                    /\ With(p, [me EXCEPT !.pc = "watch", !.at = b, !.rows[b] = new])
        /\ UNCHANGED <<account, valid, locals, life, dead, orphans, linkCalls>>

\* The end of bind, and the next of HandleWatch's bindings.
NextOne(p) ==
    /\ procs[p].pc = "next"
    /\ \/ (procs[p].left = {} \/ account.is = "none") /\ With(p, Idle)
       \/ \E b \in procs[p].left :
            /\ account.is # "none"
            /\ With(p, [procs[p] EXCEPT !.pc = "watch", !.at = b, !.left = @ \ {b},
                                        !.token = IF @ = 0 THEN account.token ELSE @])
    /\ UNCHANGED <<account, valid, locals, binds, life, dead, pulls, orphans, linkCalls>>

-----------------------------------------------------------------------------
(* Disconnect: channels, the token, the rows, and unless kept the calendars. *)

StopAll(p, keep) ==
    LET had == {binds[b].chan : b \in Bindings} \ {0}
    IN  /\ procs[p].pc = "idle" /\ account.is # "none" /\ Call
        /\ StopWatch(had, account.token)
        /\ valid' \in {valid, valid \ {account.token}}
        /\ With(p, [Idle EXCEPT !.pc = "delete", !.rows = binds, !.stopped = had, !.pick.target = IF keep THEN 0 ELSE 1])
        /\ UNCHANGED <<account, locals, binds, life, pulls, orphans>>

WebDisconnect(p, keep) == StopAll(p, keep)

\* DeleteGoogleAccount takes the bindings along.
DeleteAccount(p) ==
    /\ procs[p].pc = "delete"
    /\ account' = [is |-> "none", token |-> 0]
    /\ binds' = [b \in BindIds |-> IF binds[b].live THEN Gone ELSE binds[b]]
    /\ With(p, IF procs[p].pick.target = 0 THEN Idle ELSE [procs[p] EXCEPT !.pc = "clean", !.stopped = {}])
    /\ UNCHANGED <<valid, locals, life, dead, pulls, orphans, linkCalls>>

\* The calendars of the rows read at the start go, but for the default one, and whatever
\* is bound to them by now.
Disconnect(p) ==
    LET go == {procs[p].rows[b].local : b \in {b \in BindIds : procs[p].rows[b].live}} \ {1}
    IN  /\ procs[p].pc = "clean"
        /\ locals' = locals \ go
        /\ binds' = [b \in BindIds |-> IF binds[b].live /\ binds[b].local \in go THEN Gone ELSE binds[b]]
        /\ With(p, Idle) /\ UNCHANGED <<account, valid, life, dead, pulls, orphans, linkCalls>>

\* A process dies, or a statement of it fails.
Dies(p) ==
    /\ procs[p].pc # "idle" /\ Call
    /\ orphans' = orphans \cup procs[p].stopped
    /\ With(p, Idle)
    /\ UNCHANGED <<account, valid, locals, binds, life, dead, pulls>>

\* A channel comes near its end, and ends.
Age(c) ==
    /\ life[c] > 0 /\ life' = [life EXCEPT ![c] = @ - 1]
    /\ UNCHANGED <<account, valid, locals, binds, dead, procs, pulls, orphans, linkCalls>>

LinkInit ==
    /\ account = [is |-> "none", token |-> 0] /\ valid = {} /\ locals = {1}
    /\ binds = [b \in BindIds |-> NoBind] /\ life = [c \in Channels |-> -1] /\ dead = {}
    /\ procs = [p \in Procs |-> Idle] /\ pulls = {} /\ orphans = {} /\ linkCalls = 0

LinkNext ==
    \/ Connect \/ WebRun \/ runSync \/ RevokeAtGoogle
    \/ \E c \in Channels : Webhook(c) \/ Age(c)
    \/ \E b \in BindIds : HandlePoll(b)
    \/ \E p \in Procs :
         \/ \E b \in BindIds : Load(p, b)
         \/ \E pick \in Choices : WebSave(p, pick)
         \/ \E keep \in BOOLEAN : WebDisconnect(p, keep)
         \/ Watch(p) \/ OpenChannel(p) \/ SaveWatch(p) \/ HandleWatch(p) \/ HandlePull(p)
         \/ Choose(p) \/ Unbind(p) \/ Redirect(p) \/ CreateLocal(p) \/ Bind(p) \/ NextOne(p)
         \/ DeleteAccount(p) \/ Disconnect(p) \/ Dies(p)

LinkSpec == LinkInit /\ [][LinkNext]_linkVars

-----------------------------------------------------------------------------
(* Properties. *)

\* A binding that says it is watching, and is polled once an hour for that (domain/google.go,
\* Watching; gsync/engine.go, pollAfter), has a channel that Google still serves, unless a
\* request or job is between stopping it and writing that down, or died there: whatever pulls,
\* renewals, choices and disconnects hold old copies of the row meanwhile.
WatchIsAlive ==
    \A b \in Bindings :
      Watching(binds[b]) => \/ binds[b].chan \notin dead
                           \/ binds[b].chan \in orphans \cup UNION {procs[p].stopped : p \in Procs}

-----------------------------------------------------------------------------
(* Why it holds: the inductive invariant. *)

\* The channels a binding is or was known to have.
Owns(b) == ({binds[b].chan} \cup {procs[p].rows[b].chan : p \in Procs}) \ {0}

\* They were made, and are no other binding's; a row that is gone has none.
OwnInv ==
    /\ \A b \in BindIds : \A c \in Owns(b) : life[c] # -1 /\ \A d \in BindIds \ {b} : c \notin Owns(d)
    /\ \A b \in BindIds : ~binds[b].live => binds[b].chan = 0

\* A channel that was just opened is in no row yet, and nobody stopped it.
FreshInv ==
    /\ \A c \in dead : life[c] # -1
    /\ \A p \in Procs : procs[p].pc = "save" =>
         LET c == procs[p].pick.target
         IN  /\ c \in Channels /\ life[c] # -1 /\ c \notin dead /\ \A b \in BindIds : c \notin Owns(b)
             /\ \A q \in Procs \ {p} : procs[q].pc = "save" => procs[q].pick.target # c

\* A process that works on a binding stops the channel of that binding and no other.
StopInv ==
    \A p \in Procs :
      LET me == procs[p]
      IN  /\ me.pc \in {"watch", "open", "save", "refused", "unbind", "redirect", "pull"} => me.at \in BindIds
          /\ me.pc \in {"open", "save", "refused", "unbind"} => me.stopped \subseteq Named(me.rows[me.at])
          /\ me.pc \notin {"open", "save", "refused", "unbind", "delete"} => me.stopped = {}

\* Not only while it lasts: a row names a stopped channel only as WatchIsAlive allows.
AliveInv ==
    \A b \in Bindings : binds[b].chan \in dead
                          => binds[b].chan \in orphans \cup UNION {procs[p].stopped : p \in Procs}

LinkInv == LinkTypeOK /\ OwnInv /\ FreshInv /\ StopInv /\ AliveInv
=============================================================================
