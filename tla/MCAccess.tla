------------------------------ MODULE MCAccess ------------------------------
(***************************************************************************)
(* The parts that decide who gets in and what reaches them, each on a      *)
(* small instance: accounts, the rate limiter, idempotency keys, shared    *)
(* links, live pages, the change log, calendars and settings, the link to  *)
(* Google, the sync of todos with Google Tasks, and migrations.  They      *)
(* share no state, so one behaviour follows one part, chosen at its start, *)
(* and the state space is the sum of theirs: the variables v1..v10 stand   *)
(* for the variables of that part.                                         *)
(* The parts that AccessProofs proves about take their bounds from the     *)
(* constants.                                                              *)
(***************************************************************************)
EXTENDS Integers, FiniteSets, TLC

CONSTANTS
    Pair,            \* two requests, viewers, clients or processes
    Attempts,        \* requests with an idempotency key, or of one address each
    NoBody,
    Sessions, Links, Passwords, Rejected, SessionTTL, AbsoluteTTL,       \* accounts
    TouchInterval, SudoWindow, LinkTTL, MaxCalls, MaxTime,
    ReqKeys, Bodies, MaxCrashes, MaxPurges,                              \* idempotency
    Period, Interval, SweepEvery, MaxKeys, EvictFraction, MaxHits, MaxClock,  \* limiter
    Builds, BuildLatest, Newest, MaxCommands,                            \* migrations
    Boxes, SleepDays, Windows, DefaultWindow, MaxBoxes, MaxStamp,        \* settings
    Streams, Kinds, ViewFrom, ViewTo, ShareCals, ShareTodos, ShareID,    \* live pages
    SubBuffer, MaxSubsPerOwner, ReplayLimit, MaxChanges, MaxDrops,
    Grants, AskedLimits, MaxChangeLimit, MaxSeq,                         \* change log
    ShareIDs, Cals, Details, Viewers, MaxShares, MaxEdits, MaxFiles, MaxViews,  \* links and their pictures
    Remotes, ReadOnly, Dirs, Locals, BindIds, Channels,                  \* the link to Google
    MaxLocals, MaxLinkCalls,
    Todos, Tasks     \* here, and at Google

VARIABLES part, v1, v2, v3, v4, v5, v6, v7, v8, v9, v10

vars == <<part, v1, v2, v3, v4, v5, v6, v7, v8, v9, v10>>

Accounts == INSTANCE Accounts WITH
    Calls <- Pair,
    user <- v1, sess <- v2, apiToken <- v3, links <- v4, calls <- v5, made <- v6, now <- v7, ended <- v8, uses <- v9

Limiter == INSTANCE Limiter WITH
    Keys <- Attempts,
    tat <- v1, turn <- v2, clock <- v3, hits <- v4, told <- v5

Idempotency == INSTANCE Idempotency WITH
    keyRows <- v1, attempts <- v2, effects <- v3, faults <- v4

Shares == INSTANCE Shares WITH
    shares <- v1, cals <- v2, other <- v3, seq <- v4, cache <- v5, views <- v6, opened <- v7, moved <- v8

Realtime == INSTANCE Realtime WITH
    ChangeKinds <- Kinds,
    changes <- v1, wire <- v2, listener <- v3, hub <- v4, spill <- v5, streams <- v6, drops <- v7

\* Two changes: of an event in view, and of the share.
TwoKinds == {[entity |-> "event", id |-> 1, cal |-> 1, from |-> 1, to |-> 2],
             [entity |-> "share", id |-> 1, cal |-> 0, from |-> -1, to |-> -1]}

Changes == INSTANCE Changes WITH
    Follow <- "items",
    log <- v1, client <- v2, reply <- v3

Settings == INSTANCE Settings WITH
    Clients <- Pair,
    boxes <- v1, user <- v2, sleep <- v3, clients <- v4, stamp <- v5

GoogleLink == INSTANCE GoogleLink WITH
    Procs <- Pair,
    account <- v1, valid <- v2, locals <- v3, binds <- v4, life <- v5, dead <- v6, procs <- v7, pulls <- v8,
    orphans <- v9, linkCalls <- v10

SomeNotes == {[body |-> <<"text">>, checks |-> <<>>], [body |-> <<>>, checks |-> <<"check">>]}

GoogleTasks == INSTANCE GoogleTasks WITH
    Locals <- Todos, Remotes <- Tasks, Notes <- SomeNotes, Days <- {1}, MaxStamp <- 4, MaxLosses <- 1,
    todos <- v1, tasks <- v2, maps <- v3, outbox <- v4, cursor <- v5, batch <- v6, gaveUp <- v7, stamp <- v8,
    losses <- v9

\* One build is older than the others.
OneOlder == [m \in Builds |-> IF m = "old" THEN Newest - 1 ELSE Newest]

Migrations == INSTANCE Migrations WITH
    Migrators <- Builds, Latest <- BuildLatest,
    schema <- v1, version <- v2, holder <- v3, migs <- v4, forced <- v5, commands <- v6

ASSUME AccessAssumption ==
    /\ Accounts!AccountsAssumption /\ Limiter!LimiterAssumption /\ Idempotency!IdempotencyAssumption
    /\ Shares!SharesAssumption /\ Realtime!RealtimeAssumption /\ Migrations!MigrationsAssumption
    /\ Changes!ChangesAssumption /\ Settings!SettingsAssumption /\ GoogleLink!LinkAssumption

-----------------------------------------------------------------------------

Init ==
    \/ part = "accounts" /\ Accounts!AccountsInit /\ v10 = 0
    \/ part = "limiter" /\ Limiter!LimiterInit /\ v6 = 0 /\ v7 = 0 /\ v8 = 0 /\ v9 = 0 /\ v10 = 0
    \/ part = "idempotency" /\ Idempotency!IdempotencyInit /\ v5 = 0 /\ v6 = 0 /\ v7 = 0 /\ v8 = 0 /\ v9 = 0 /\ v10 = 0
    \/ part = "shares" /\ Shares!SharesInit /\ v9 = 0 /\ v10 = 0
    \/ part = "realtime" /\ Realtime!RealtimeInit /\ v8 = 0 /\ v9 = 0 /\ v10 = 0
    \/ part = "changes" /\ Changes!ChangesInit
                        /\ v4 = 0 /\ v5 = 0 /\ v6 = 0 /\ v7 = 0 /\ v8 = 0 /\ v9 = 0 /\ v10 = 0
    \/ part = "settings" /\ Settings!SettingsInit /\ v6 = 0 /\ v7 = 0 /\ v8 = 0 /\ v9 = 0 /\ v10 = 0
    \/ part = "link" /\ GoogleLink!LinkInit
    \/ part = "tasks" /\ GoogleTasks!TasksInit /\ v10 = 0
    \/ part = "migrations" /\ Migrations!MigrationsInit /\ v7 = 0 /\ v8 = 0 /\ v9 = 0 /\ v10 = 0

Next ==
    \/ part = "accounts" /\ Accounts!AccountsNext /\ UNCHANGED <<part, v10>>
    \/ part = "limiter" /\ Limiter!LimiterNext /\ UNCHANGED <<part, v6, v7, v8, v9, v10>>
    \/ part = "idempotency" /\ Idempotency!IdempotencyNext /\ UNCHANGED <<part, v5, v6, v7, v8, v9, v10>>
    \/ part = "shares" /\ Shares!SharesNext /\ UNCHANGED <<part, v9, v10>>
    \/ part = "realtime" /\ Realtime!RealtimeNext /\ UNCHANGED <<part, v8, v9, v10>>
    \/ part = "changes" /\ Changes!ChangesNext /\ UNCHANGED <<part, v4, v5, v6, v7, v8, v9, v10>>
    \/ part = "settings" /\ Settings!SettingsNext /\ UNCHANGED <<part, v6, v7, v8, v9, v10>>
    \/ part = "link" /\ GoogleLink!LinkNext /\ UNCHANGED part
    \/ part = "tasks" /\ GoogleTasks!TasksNext /\ UNCHANGED <<part, v10>>
    \/ part = "migrations" /\ Migrations!MigrationsNext /\ UNCHANGED <<part, v7, v8, v9, v10>>

Spec == Init /\ [][Next]_vars

\* The requests of a pair, and the attempts, are alike.
Alike == Permutations(Pair) \cup Permutations(Attempts)

-----------------------------------------------------------------------------
(* Properties. *)

\* The types of every part (the tables and rows they stand for).
TypeOK ==
    CASE part = "accounts"    -> Accounts!AccountsTypeOK
      [] part = "limiter"     -> Limiter!LimiterTypeOK
      [] part = "idempotency" -> Idempotency!IdempotencyTypeOK
      [] part = "shares"      -> Shares!SharesTypeOK
      [] part = "realtime"    -> Realtime!RealtimeTypeOK
      [] part = "changes"     -> Changes!ChangesTypeOK
      [] part = "settings"    -> Settings!SettingsTypeOK
      [] part = "link"        -> GoogleLink!LinkTypeOK
      [] part = "tasks"       -> GoogleTasks!TasksTypeOK
      [] part = "migrations"  -> Migrations!MigrationsTypeOK

\* A replaced password or a disabled account ends the sessions it should, for good, whatever
\* request runs beside it; and a mailed link works once (auth: ChangePassword, ResetPassword,
\* SetPassword, SetDisabled, adopt; store/pg: ConsumeEmailToken).
AccountIsSafe == part = "accounts" => Accounts!EndedStayEnded /\ Accounts!LinkOnce

\* No key gets more than its burst and rate, though a full table forgets keys, and one that
\* waited as long as it was told is let in (ratelimit: AllowN, sweep, evict, expire).
RateIsKept == part = "limiter" => Limiter!WithinRate /\ Limiter!RetryIsHonoured

\* However requests with one key overlap, fail and are sent again, the work is done once, for
\* one body, and whoever is told so is told the truth: api/idempotency.go implements OnceOnly.
RetriesAreSafe ==
    /\ part = "idempotency" => Idempotency!Once!OnceInit
    /\ [][part = "idempotency" => Idempotency!Once!OnceNext \/ UNCHANGED Idempotency!Once!onceVars]_vars

\* A shared link's preview picture shows what the share shows now (web/shares/og.go), while no
\* event moves from one calendar to another.
PictureFollows == part = "shares" => Shares!PictureFollows

\* Nobody who follows the change log misses a change: not an open page, through lost
\* connections and full buffers, when nothing is on its way (realtime), and not a client
\* that polls from the last row it was given (api/changes.go).
NothingMissed ==
    /\ part = "realtime" => Realtime!NothingMissed
    /\ part = "changes" => Changes!PollSkipsNothing

\* A write that names the version it was shown, and succeeds, replaces exactly that version,
\* of calendars, lists and settings (domain/etag.go, CheckIfMatch; service/settings.go).
WritesWhatWasSeen == [][part = "settings" => Settings!WroteWhatWasSeen]_vars

\* A binding whose calendar is being watched is watched by a channel Google has not been told
\* to stop, unless a process is between stopping and saving, or died there (gsync/engine.go,
\* Watch, Unbind, Disconnect).
WatchIsAlive == part = "link" => GoogleLink!WatchIsAlive

\* When nothing waits on either side, todos and Google's tasks hold the same
\* (gsync: PullTasks, PushTodo).
TasksAgree == part = "tasks" => GoogleTasks!TasksAgree

\* A server that comes up found the schema its build was made for, whatever other builds
\* migrate beside it, unless a version was forced by hand (app/app.go, New; db/migrate.go, CheckSchema).
StartsOnItsSchema == [][part = "migrations" => Migrations!StartedOnItsSchema]_vars
=============================================================================
