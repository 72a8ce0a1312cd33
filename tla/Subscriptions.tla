--------------------------- MODULE Subscriptions ---------------------------
(***************************************************************************)
(* Subscriptions to a feed (internal/subscription over                     *)
(* store/pg/subscriptions.go).  A refresh reads the row, asks the feed     *)
(* with the validators it finds there, merges the answer into the calendar *)
(* in one transaction and writes the whole row back, whatever happened to  *)
(* it meanwhile.  The unique key of the job holds off a second refresh     *)
(* only while the first is queued, so two may overlap, with each other and *)
(* with the user's own request, which also writes the whole row.  A feed   *)
(* holds masters and, under them, overrides.                               *)
(***************************************************************************)
EXTENDS Integers, FiniteSets, Functions

CONSTANTS
    Masters, Overrides,    \* what feeds may hold
    MasterOf,              \* override -> master
    Contents,              \* item -> what may stand in it, small positive numbers
    Refreshers,            \* workers
    Every, Day,            \* the interval, and the longest wait
    MaxFailures,
    MaxSubCalls            \* bound: what users, the feed and failures do

SubsAssumption ==
    /\ Masters \cap Overrides = {} /\ MasterOf \in [Overrides -> Masters]
    /\ 0 \notin Contents /\ Every \in Nat /\ Day \in Nat /\ Every <= Day
    /\ MaxFailures \in Nat /\ MaxSubCalls \in Nat

Items == Masters \cup Overrides

\* A body of the feed: item -> its content, 0 if it is not there.
Bodies == {b \in [Items -> {0} \cup Contents] : \A o \in Overrides : b[o] # 0 => b[MasterOf[o]] # 0}
NoBody == [i \in Items |-> 0]

VARIABLES
    feed,        \* [tag, body]: what the feed answers now
    row,         \* ics_subscriptions
    cal,         \* item -> the content of its live event, 0 without one
    subQueued,   \* a refresh is queued
    refreshers,  \* refresher -> what it is doing
    asking,      \* the user's request
    torn,        \* ghost: the row and the calendar were not written by one refresh, without another
    subCalls

subVars == <<feed, row, cal, subQueued, refreshers, asking, torn, subCalls>>

\* The row; hash is the body itself, for sha256 tells bodies apart.
NoRow == [is |-> "none", status |-> "ok", tag |-> 0, hash |-> NoBody, failures |-> 0, wait |-> 0]
Reads(pc, r) == [pc |-> pc, row |-> r, got |-> [tag |-> 0, body |-> NoBody], stale |-> FALSE]
Idle  == Reads("rest", NoRow)

Rows == [is : {"none", "live", "gone"}, status : {"ok", "error"}, tag : Nat,
         hash : Bodies, failures : 0..MaxFailures + 1, wait : 0..Day]
Feeds   == [tag : Nat, body : Bodies]
Working == [pc : {"rest", "fetch", "merge", "save"}, row : Rows, got : Feeds, stale : BOOLEAN]

SubsTypeOK ==
    /\ feed \in Feeds /\ feed.tag > 0
    /\ row \in Rows /\ cal \in [Items -> {0} \cup Contents]
    /\ subQueued \in BOOLEAN /\ torn \in BOOLEAN /\ subCalls \in 0..MaxSubCalls
    /\ refreshers \in [Refreshers -> Working] /\ asking \in Working

Call == subCalls < MaxSubCalls /\ subCalls' = subCalls + 1

\* Everybody who has read the row holds an old one now.
Outdate(rs) == [r \in Refreshers |-> [rs[r] EXCEPT !.stale = rs[r].pc # "rest"]]

\* SaveSubscriptionState: UPDATE ... WHERE id, which says nothing about a row that is gone.
SaveSubscriptionState(new, stale) ==
    /\ row'  = IF row.is = "live" THEN new ELSE row
    /\ torn' = (torn \/ (stale /\ row.is = "live"))

-----------------------------------------------------------------------------
(* Requests. *)

\* CreateSubscription and queue.
Create ==
    /\ row.is = "none" /\ Call
    /\ row' = [NoRow EXCEPT !.is = "live"] /\ subQueued' = TRUE
    /\ UNCHANGED <<feed, cal, refreshers, asking, torn>>

createSubscription == Create
WebSubscribe       == Create

\* Refresh reads the row ...
Refresh ==
    /\ row.is = "live" /\ asking.pc = "rest" /\ Call
    /\ asking' = Reads("save", [row EXCEPT !.status = "ok", !.failures = 0, !.wait = 0])
    /\ UNCHANGED <<feed, row, cal, subQueued, refreshers, torn>>

refreshSubscription == Refresh
WebRefresh          == Refresh

\* ... writes it back and queues the job.
RefreshSaves ==
    /\ asking.pc = "save"
    /\ SaveSubscriptionState(asking.row, asking.stale)
    /\ subQueued' = (subQueued \/ row.is = "live")
    /\ asking' = Idle /\ refreshers' = Outdate(refreshers)
    /\ UNCHANGED <<feed, cal, subCalls>>

\* Delete: the calendar goes, the row and the events with it.
Delete ==
    /\ row.is = "live" /\ Call
    /\ row' = [NoRow EXCEPT !.is = "gone"] /\ cal' = NoBody
    /\ UNCHANGED <<feed, subQueued, refreshers, asking, torn>>

deleteSubscription == Delete
WebDelete          == Delete

\* HandleDue with DueSubscriptions: what has waited long enough is queued, running or not.
HandleDue ==
    /\ row.is = "live" /\ row.wait = 0 /\ ~subQueued
    /\ subQueued' = TRUE
    /\ UNCHANGED <<feed, row, cal, refreshers, asking, torn, subCalls>>

-----------------------------------------------------------------------------
(* HandleRefresh. *)

HandleRefresh(r) ==
    /\ refreshers[r].pc = "rest" /\ subQueued /\ subQueued' = FALSE
    /\ refreshers' = IF row.is # "live" THEN refreshers
                     ELSE [refreshers EXCEPT ![r] = Reads("fetch", row)]
    /\ torn' = (torn \/ \E q \in Refreshers : refreshers[q].pc # "rest")
    /\ UNCHANGED <<feed, row, cal, asking, subCalls>>

\* backoff
Backoff(failures) ==
    LET shift == IF failures <= 1 THEN 0 ELSE IF failures > 6 THEN 5 ELSE failures - 1
    IN  IF Every * 2 ^ shift < Day THEN Every * 2 ^ shift ELSE Day

Succeeded(old) == [old EXCEPT !.status = "ok", !.failures = 0, !.wait = Every]
Failed(old)    == [old EXCEPT !.failures = @ + 1, !.wait = Backoff(old.failures + 1),
                              !.status = IF old.failures + 1 >= MaxFailures THEN "error" ELSE @]

\* What is to be written of the row is known.
GoesToSave(r, new) == refreshers' = [refreshers EXCEPT ![r] = [refreshers[r] EXCEPT !.pc = "save", !.row = new]]

\* The fetch: 304 leaves the row as it is, and so does, but for the tag, a body that was
\* merged before; a new body goes on to the merge.
Fetch(r) ==
    LET old == refreshers[r].row
    IN  /\ refreshers[r].pc = "fetch"
        /\ \/ feed.tag = old.tag /\ GoesToSave(r, Succeeded(old))
           \/ /\ feed.tag # old.tag /\ old.tag # 0 /\ feed.body = old.hash
              /\ GoesToSave(r, [Succeeded(old) EXCEPT !.tag = feed.tag])
           \/ /\ feed.tag # old.tag /\ (old.tag = 0 \/ feed.body # old.hash)
              /\ refreshers' = [refreshers EXCEPT ![r] = [refreshers[r] EXCEPT !.pc = "merge", !.got = feed]]
        /\ UNCHANGED <<feed, row, cal, subQueued, asking, torn, subCalls>>

\* No answer, a status other than 200, a body too long, or one ical cannot read.
FetchFails(r) ==
    /\ refreshers[r].pc = "fetch" /\ Call /\ refreshers[r].row.failures < MaxFailures
    /\ GoesToSave(r, Failed(refreshers[r].row))
    /\ UNCHANGED <<feed, row, cal, subQueued, asking, torn>>

\* merge: what the feed holds is inserted or updated, masters it no longer holds are deleted,
\* and their overrides with them; an override that left the feed alone stays.
Merged(had, body) ==
    [i \in Items |-> IF body[i] # 0 THEN body[i]
                     ELSE IF i \in Overrides /\ body[MasterOf[i]] # 0 /\ had[MasterOf[i]] # 0
                          THEN had[i] ELSE 0]

\* The row after the merge: the validators of what was merged.
Validators(old, got) == [Succeeded(old) EXCEPT !.tag = got.tag, !.hash = got.body]

Merge(r) ==
    LET new == refreshers[r]
    IN  /\ new.pc = "merge" /\ row.is = "live"
        /\ cal' = Merged(cal, new.got.body)
        /\ GoesToSave(r, Validators(new.row, new.got))
        /\ UNCHANGED <<feed, row, subQueued, asking, torn, subCalls>>

\* Mutant: a refresh that could not merge keeps the validators of the answer.
KeepsTag(r) == [Failed(refreshers[r].row) EXCEPT !.tag = refreshers[r].got.tag]

\* What a failed merge leaves of the row.
AfterFailure(r) == Failed(refreshers[r].row)

\* A statement fails: the next ones fail too and the transaction is rolled back.  It does when
\* the calendar is gone.
MergeFails(r) ==
    /\ refreshers[r].pc = "merge" /\ refreshers[r].row.failures < MaxFailures
    /\ \/ row.is = "live" /\ Call
       \/ row.is # "live" /\ UNCHANGED subCalls
    /\ GoesToSave(r, AfterFailure(r))
    /\ UNCHANGED <<feed, row, cal, subQueued, asking, torn>>

HandleSaves(r) ==
    /\ refreshers[r].pc = "save"
    /\ SaveSubscriptionState(refreshers[r].row, refreshers[r].stale)
    /\ refreshers' = [Outdate(refreshers) EXCEPT ![r] = Idle]
    /\ asking' = [asking EXCEPT !.stale = asking.pc # "rest"]
    /\ UNCHANGED <<feed, cal, subQueued, subCalls>>

\* The worker dies; the reaper queues the job again.
Dies(r) ==
    /\ refreshers[r].pc # "rest" /\ Call
    /\ refreshers' = [refreshers EXCEPT ![r] = Idle] /\ subQueued' = TRUE
    /\ torn' = (torn \/ refreshers[r].pc = "save")
    /\ UNCHANGED <<feed, row, cal, asking>>

-----------------------------------------------------------------------------

\* The feed is published again, with a new tag and perhaps the same body.
Publish(b) ==
    /\ Call /\ feed' = [tag |-> feed.tag + 1, body |-> b]
    /\ UNCHANGED <<row, cal, subQueued, refreshers, asking, torn>>

Wait ==
    /\ row.wait > 0 /\ row' = [row EXCEPT !.wait = @ - 1]
    /\ UNCHANGED <<feed, cal, subQueued, refreshers, asking, torn, subCalls>>

SubsInit ==
    /\ feed \in [tag : {1}, body : Bodies] /\ row = NoRow /\ cal = NoBody
    /\ subQueued = FALSE /\ refreshers = [r \in Refreshers |-> Idle] /\ asking = Idle
    /\ torn = FALSE /\ subCalls = 0

SubsNext ==
    \/ createSubscription \/ WebSubscribe \/ refreshSubscription \/ WebRefresh
    \/ deleteSubscription \/ WebDelete \/ RefreshSaves \/ HandleDue \/ Wait
    \/ \E r \in Refreshers : \/ HandleRefresh(r) \/ Fetch(r) \/ FetchFails(r) \/ Merge(r)
                             \/ MergeFails(r) \/ HandleSaves(r) \/ Dies(r)
    \/ \E b \in Bodies : Publish(b)

SubsSpec == SubsInit /\ [][SubsNext]_subVars

-----------------------------------------------------------------------------
(* Why it holds. *)

\* The calendar holds what a body holds, and no master that left it.
Holds(body) == \A i \in Items : IF body[i] # 0 THEN cal[i] = body[i] ELSE i \in Masters => cal[i] = 0

\* A tag names one body: what carries the tag of now carries the body of now.
NamesBody(tag, body) == tag <= feed.tag /\ (tag = feed.tag => body = feed.body)
TagInv ==
    /\ NamesBody(row.tag, row.hash) /\ NamesBody(asking.row.tag, asking.row.hash)
    /\ \A r \in Refreshers : /\ NamesBody(refreshers[r].row.tag, refreshers[r].row.hash)
                             /\ NamesBody(refreshers[r].got.tag, refreshers[r].got.body)

Busy(r) == refreshers[r].pc # "rest"

\* One refresh is under way; until it merges the calendar holds what the row says, and then
\* what the refresh is about to write there.
Same(a, b) == a.tag = b.tag /\ a.hash = b.hash
RefreshInv ==
    /\ \A q, r \in Refreshers : Busy(q) /\ Busy(r) => q = r
    /\ \A r \in Refreshers : refreshers[r].pc \in {"fetch", "merge"} => Same(refreshers[r].row, row)
    /\ asking.pc = "save" /\ ~asking.stale => Same(asking.row, row)
    /\ (\A r \in Refreshers : refreshers[r].pc # "save") /\ row.tag # 0 => Holds(row.hash)
    /\ \A r \in Refreshers : refreshers[r].pc = "save" /\ refreshers[r].row.tag # 0 => Holds(refreshers[r].row.hash)

\* Nobody refreshes before there is a row, and what is held is a row that was there.
HolderInv ==
    /\ row.is = "none" => asking.pc = "rest" /\ \A r \in Refreshers : ~Busy(r)
    /\ asking.pc = "save" => asking.row.is = "live"
    /\ \A r \in Refreshers : Busy(r) => refreshers[r].row.is = "live"

SubsInv == SubsTypeOK /\ TagInv /\ HolderInv /\ (~torn /\ row.is = "live" => RefreshInv)

-----------------------------------------------------------------------------
(* Properties. *)

\* Unless refreshes overlapped or a worker died between the merge and the row, a feed that the
\* row takes for merged is merged: when no refresh is under way and the next one would be
\* answered 304, or would find the hash it knows (subscription.go, refresh), every item of the
\* feed stands in the calendar as it stands in the feed, and no master stands there that left
\* the feed, whatever else failed or was asked for on the way.
FeedAgrees ==
    /\ ~torn /\ row.is = "live" /\ \A r \in Refreshers : ~Busy(r)
    /\ row.tag # 0 /\ (row.tag = feed.tag \/ row.hash = feed.body)
    => Holds(feed.body)
=============================================================================
