----------------------------- MODULE GoogleSync -----------------------------
(***************************************************************************)
(* One calendar bound to one Google calendar in both directions            *)
(* (internal/gsync, store/pg/sync.go, store/pg/google.go).                 *)
(*                                                                         *)
(* Local edits queue a row in the outbox; push jobs send the rows to       *)
(* Google; pull jobs fetch what changed there and apply it.  A pull reads  *)
(* Google before its transaction and saves the sync token after it, so     *)
(* edits, pushes and other pulls fall in between.                          *)
(*                                                                         *)
(* `stamp' is a clock both sides share: every edit and every change at     *)
(* Google takes the next value.  A content is named by the stamp of the    *)
(* edit (or deletion) that made it; the stamp of the last change of a      *)
(* Google event is its ETag and its Updated time; a sync token is the      *)
(* stamp of its fetch.                                                     *)
(*                                                                         *)
(* The transaction of a pull is a run of steps during which nothing else   *)
(* moves (Open is false): it is atomic, and one that fails rolls back,     *)
(* which is a pull that stops before it.                                   *)
(***************************************************************************)
EXTENDS Integers, FiniteSets

CONSTANTS
    Events,       \* local event ids (bound)
    Remotes,      \* Google event ids (bound); the iCalUID of r is r
    Pullers,      \* pull jobs of the binding that may run at one time
    None,         \* no remote id
    MaxTries,     \* maxPushTries
    MaxEdits,     \* bound: edits of users, on either side
    MaxRestores,  \* bound: events taken out of the trash
    MaxBinds,     \* bound: times the calendar is bound
    MaxFaults,    \* bound: failed calls, crashes, expired tokens, revocations
    MaxLost       \* bound: calls that took effect and whose answer was lost

ASSUME SyncAssumption ==
    /\ MaxTries \in Nat \ {0}
    /\ MaxEdits \in Nat /\ MaxRestores \in Nat /\ MaxBinds \in Nat
    /\ MaxFaults \in Nat /\ MaxLost \in Nat
    /\ None \notin Events \cup Remotes /\ Events \cap Remotes = {}

VARIABLES
    local,     \* the events table, this calendar
    remote,    \* the Google calendar (external)
    mapping,   \* sync_mappings of the binding
    outbox,    \* sync_outbox of the binding
    binding,   \* the sync_bindings row and the state of its account
    pull,      \* the pull jobs
    push,      \* the push job (the binding's lock lets one work at a time)
    stamp,     \* the shared clock
    used,      \* how much of each bound is spent
    gaveUp     \* ghost: events with a change that push dropped after MaxTries

vars == <<local, remote, mapping, outbox, binding, pull, push, stamp, used, gaveUp>>

\* `origin' is a ghost: the id under which the event was first created, on
\* whichever side.  Two live events of one origin on one side are doubles.
LocalEvent  == [status : {"absent", "live", "trashed"}, val : Nat, at : Nat,
                uid : Events \cup Remotes \cup {None}, origin : Events \cup Remotes \cup {None}]
RemoteEvent == [status : {"absent", "live", "cancelled"}, val : Nat, at : Nat,
                origin : Events \cup Remotes \cup {None}]
Mapping     == [rid : Remotes \cup {None}, etag : Nat, val : Nat]
OutboxRow   == [op : {"none", "upsert", "delete"}, rid : Remotes \cup {None},
                tries : 0..(MaxTries - 1)]
Item        == [rid : Remotes, event : RemoteEvent]
PullJob     == [phase : {"idle", "fetched", "apply", "applied"}, full : BOOLEAN,
                items : SUBSET Item, seen : SUBSET Remotes, token : Nat, old : Nat]
PushJob     == [phase : {"idle", "call", "force"}, event : Events \cup {None}]

NoLocal   == [status |-> "absent", val |-> 0, at |-> 0, uid |-> None, origin |-> None]
NoRemote  == [status |-> "absent", val |-> 0, at |-> 0, origin |-> None]
NoMapping == [rid |-> None, etag |-> 0, val |-> 0]
NoRow     == [op |-> "none", rid |-> None, tries |-> 0]
IdlePull  == [phase |-> "idle", full |-> FALSE, items |-> {}, seen |-> {}, token |-> 0, old |-> 0]
IdlePush  == [phase |-> "idle", event |-> None]

\* Every record keeps its type; an outbox row is tried less than MaxTries times.
TypeOK ==
    /\ local \in [Events -> LocalEvent]
    /\ remote \in [Remotes -> RemoteEvent]
    /\ mapping \in [Events -> Mapping]
    /\ outbox \in [Events -> OutboxRow]
    /\ binding \in [bound : BOOLEAN, token : Nat, account : {"ok", "revoked"}]
    /\ pull \in [Pullers -> PullJob]
    /\ push \in PushJob
    /\ stamp \in Nat
    /\ used \in [edits : 0..MaxEdits, restores : 0..MaxRestores, binds : 0..MaxBinds,
                 faults : 0..MaxFaults, lost : 0..MaxLost]
    /\ gaveUp \subseteq Events

Init ==
    /\ local = [e \in Events |-> NoLocal]
    /\ remote = [r \in Remotes |-> NoRemote]
    /\ mapping = [e \in Events |-> NoMapping]
    /\ outbox = [e \in Events |-> NoRow]
    /\ binding = [bound |-> FALSE, token |-> 0, account |-> "ok"]
    /\ pull = [p \in Pullers |-> IdlePull]
    /\ push = IdlePush
    /\ stamp = 0
    /\ used = [edits |-> 0, restores |-> 0, binds |-> 0, faults |-> 0, lost |-> 0]
    /\ gaveUp = {}

-----------------------------------------------------------------------------
Live(e)      == local[e].status = "live"
Mapped(e)    == mapping[e].rid # None
Pending(e)   == outbox[e].op # "none"
UidTaken(u)  == \E e \in Events : Live(e) /\ local[e].uid = u
Applying(p)  == pull[p].phase = "apply"
Open         == \A p \in Pullers : ~Applying(p)       \* no pull transaction is under way
LockFree     == Open /\ push.phase = "idle"           \* pg_advisory_xact_lock of WithSync
Active       == binding.bound /\ binding.account = "ok"  \* load()
Now          == stamp + 1

Edit    == used.edits < MaxEdits /\ used' = [used EXCEPT !.edits = @ + 1]
Restore == used.restores < MaxRestores /\ used' = [used EXCEPT !.restores = @ + 1]
Fault   == used.faults < MaxFaults /\ used' = [used EXCEPT !.faults = @ + 1]
Lost    == used.lost < MaxLost /\ used' = [used EXCEPT !.lost = @ + 1]

-----------------------------------------------------------------------------
(* Local edits: eventTx writes the event and queueSync the outbox row, in    *)
(* one transaction.                                                          *)

\* Mistake: a delete cancels an edit that waits, as if Google knew nothing of it.
QueueSyncCancels(e, op) ==
    /\ outbox' = IF ~binding.bound THEN outbox
                 ELSE IF op = "delete" /\ Pending(e) THEN [outbox EXCEPT ![e] = NoRow]
                 ELSE [outbox EXCEPT ![e] = [op |-> op, rid |-> mapping[e].rid, tries |-> 0]]
    /\ gaveUp' = gaveUp \ {e}

QueueSync(e, op) ==
    LET rid == IF Mapped(e) THEN mapping[e].rid ELSE outbox[e].rid
    IN  /\ outbox' = IF ~binding.bound THEN outbox
                     ELSE IF op = "delete" /\ ~Mapped(e) THEN [outbox EXCEPT ![e] = NoRow]
                     ELSE [outbox EXCEPT ![e] = [op |-> op, rid |-> rid, tries |-> 0]]
        /\ gaveUp' = gaveUp \ {e}

\* The edit does not meet a sync transaction that holds the event's row.
CanEdit(e) == Open /\ push.event # e

LocalStep == stamp' = Now /\ UNCHANGED <<remote, mapping, binding, pull, push>>

CreateLocal(e) ==
    /\ CanEdit(e) /\ Edit
    /\ local[e] = NoLocal
    /\ local' = [local EXCEPT ![e] =
                   [status |-> "live", val |-> Now, at |-> Now, uid |-> e, origin |-> e]]
    /\ QueueSync(e, "upsert")
    /\ LocalStep

EditLocal(e) ==
    /\ CanEdit(e) /\ Edit
    /\ Live(e)
    /\ local' = [local EXCEPT ![e].val = Now, ![e].at = Now]
    /\ QueueSync(e, "upsert")
    /\ LocalStep

DeleteLocal(e) ==
    /\ CanEdit(e) /\ Edit
    /\ Live(e)
    /\ local' = [local EXCEPT ![e].status = "trashed", ![e].at = Now]
    /\ QueueSync(e, "delete")
    /\ LocalStep

\* Store.Restore writes the event and the change feed; it does not queue a row.
RestoreLocal(e) ==
    /\ CanEdit(e) /\ Restore
    /\ local[e].status = "trashed"
    /\ ~UidTaken(local[e].uid)
    /\ local' = [local EXCEPT ![e].status = "live", ![e].at = Now]
    /\ UNCHANGED <<outbox, gaveUp>>
    /\ LocalStep

-----------------------------------------------------------------------------
(* Edits made at Google (external).                                          *)

RemoteStep == /\ Open /\ Edit /\ stamp' = Now
              /\ UNCHANGED <<local, mapping, outbox, binding, pull, push, gaveUp>>

RemoteCreate(r) ==
    /\ remote[r] = NoRemote
    /\ remote' = [remote EXCEPT ![r] = [status |-> "live", val |-> Now, at |-> Now, origin |-> r]]
    /\ RemoteStep

RemoteEdit(r) ==
    /\ remote[r].status = "live"
    /\ remote' = [remote EXCEPT ![r].val = Now, ![r].at = Now]
    /\ RemoteStep

RemoteDelete(r) ==
    /\ remote[r].status = "live"
    /\ remote' = [remote EXCEPT ![r].status = "cancelled", ![r].val = Now, ![r].at = Now]
    /\ RemoteStep

-----------------------------------------------------------------------------
(* The binding: bind() seeds the outbox with the live events, DeleteBinding  *)
(* cascades to mappings and outbox and leaves its jobs without a binding.    *)

Bind ==
    /\ LockFree
    /\ ~binding.bound /\ binding.account = "ok"
    /\ used.binds < MaxBinds
    /\ used' = [used EXCEPT !.binds = @ + 1]
    /\ binding' = [binding EXCEPT !.bound = TRUE, !.token = 0]
    /\ outbox' = [e \in Events |-> IF Live(e) THEN [NoRow EXCEPT !.op = "upsert"] ELSE NoRow]
    /\ gaveUp' = {}
    /\ UNCHANGED <<local, remote, mapping, pull, push, stamp>>

Unbind ==
    /\ LockFree
    /\ binding.bound
    /\ used.binds < MaxBinds
    /\ binding' = [binding EXCEPT !.bound = FALSE, !.token = 0]
    /\ mapping' = [e \in Events |-> NoMapping]
    /\ outbox' = [e \in Events |-> NoRow]
    /\ pull' = [p \in Pullers |-> IdlePull]
    /\ gaveUp' = {}
    /\ UNCHANGED <<local, remote, push, stamp, used>>

\* Connect: the user signs in again, the account is usable and pulls are queued.
Connect ==
    /\ Open
    /\ binding.account = "revoked"
    /\ binding' = [binding EXCEPT !.account = "ok"]
    /\ UNCHANGED <<local, remote, mapping, outbox, pull, push, stamp, used, gaveUp>>

-----------------------------------------------------------------------------
(* HandlePull: fetch, one transaction, save the token.                       *)

Changed(token) == {r \in Remotes : remote[r].at > token}
LiveRemotes    == {r \in Remotes : remote[r].status = "live"}
Cancelled      == {r \in Remotes : remote[r].status = "cancelled"}
Items(R)       == {[rid |-> r, event |-> remote[r]] : r \in R}

Fetched(p, R, full) ==
    /\ Active
    /\ pull[p].phase = "idle"
    /\ pull' = [pull EXCEPT ![p] =
                  [phase |-> "fetched", full |-> full, items |-> Items(R),
                   seen |-> IF full THEN R ELSE {}, token |-> stamp, old |-> binding.token]]
    /\ UNCHANGED <<local, remote, mapping, outbox, binding, push, stamp, gaveUp>>

PullFetch(p) ==
    /\ binding.token # 0
    /\ Fetched(p, Changed(binding.token), FALSE)
    /\ UNCHANGED used

\* Without a token, or when Google no longer knows it (ErrGone), everything is
\* listed; Google may have forgotten deleted events by then.
PullFetchFull(p) ==
    /\ \/ binding.token = 0 /\ UNCHANGED used
       \/ binding.token # 0 /\ Fault
    /\ \E R \in SUBSET Cancelled : Fetched(p, LiveRemotes \cup R, TRUE)

PullBegin(p) ==
    /\ LockFree
    /\ pull[p].phase = "fetched"
    /\ pull' = [pull EXCEPT ![p].phase = "apply"]
    /\ UNCHANGED <<local, remote, mapping, outbox, binding, push, stamp, used, gaveUp>>

Takes(p, it) ==
    /\ Applying(p) /\ it \in pull[p].items
    /\ pull' = [pull EXCEPT ![p].items = @ \ {it}]
    /\ UNCHANGED <<remote, binding, push, stamp, used, gaveUp>>

Owners(r)     == {e \in Events : mapping[e].rid = r}
MapTo(r, val) == [rid |-> r.rid, etag |-> r.event.at, val |-> val]

\* SaveMapping: another event mapped to the same remote one loses its mapping.
SaveMapping(e, it, val) ==
    [x \in Events |-> IF x = e THEN MapTo(it, val)
                      ELSE IF mapping[x].rid = it.rid THEN NoMapping ELSE mapping[x]]

\* removeLocal
RemoveLocal(S) ==
    /\ local' = [e \in Events |-> IF e \in S /\ Live(e)
                                  THEN [local[e] EXCEPT !.status = "trashed", !.at = stamp] ELSE local[e]]
    /\ outbox' = [e \in Events |-> IF e \in S THEN NoRow ELSE outbox[e]]
    /\ mapping' = [e \in Events |-> IF e \in S THEN NoMapping ELSE mapping[e]]

PullCancelled(p, it) ==
    /\ Takes(p, it)
    /\ it.event.status = "cancelled"
    /\ RemoveLocal(Owners(it.rid))

\* The remote event has no mapping, or one to an event that is gone here
\* without a delete waiting to be sent.
Deleting(e)  == ~Live(e) /\ outbox[e].op = "delete"
Unmatched(r) == \A e \in Owners(r) : ~Live(e) /\ ~Deleting(e)

\* create(): re-link the unmapped event with the remote's iCalUID ...
Adoptable(e, r) == Live(e) /\ local[e].uid = r /\ ~Mapped(e)

PullAdopt(p, it, e) ==
    /\ Takes(p, it)
    /\ it.event.status = "live" /\ Unmatched(it.rid)
    /\ Adoptable(e, it.rid)
    /\ local' = [local EXCEPT ![e].val = it.event.val, ![e].at = stamp]
    /\ mapping' = SaveMapping(e, it, it.event.val)
    /\ UNCHANGED outbox

\* ... or insert a new one, under the iCalUID unless a live event has it.
PullCreate(p, it, e) ==
    /\ Takes(p, it)
    /\ it.event.status = "live" /\ Unmatched(it.rid)
    /\ \A x \in Events : ~Adoptable(x, it.rid)
    /\ local[e] = NoLocal
    /\ local' = [local EXCEPT ![e] =
                   [status |-> "live", val |-> it.event.val, at |-> stamp,
                    uid |-> IF UidTaken(it.rid) THEN e ELSE it.rid, origin |-> it.event.origin]]
    /\ mapping' = SaveMapping(e, it, it.event.val)
    /\ UNCHANGED outbox

\* update(): nothing to do for an event whose delete is still to be sent, for
\* the version we wrote or read last, or when a pending local edit is newer.
\* Mistake: whichever side is older wins.
LocalWinsOlder(e, at) == Pending(e) /\ at > local[e].at

LocalWins(e, at) == Pending(e) /\ local[e].at > at

KeepsLocal(e, it) ==
    \/ Deleting(e)
    \/ Live(e) /\ (mapping[e].etag = it.event.at \/ LocalWins(e, it.event.at))

PullKeep(p, it, e) ==
    /\ Takes(p, it)
    /\ it.event.status = "live" /\ e \in Owners(it.rid)
    /\ KeepsLocal(e, it)
    /\ UNCHANGED <<local, mapping, outbox>>

\* Mistake: a remote change is noted in the mapping and not written.
TakeMapping(e, it) ==
    /\ mapping' = SaveMapping(e, it, it.event.val)
    /\ outbox' = [outbox EXCEPT ![e] = NoRow]
    /\ UNCHANGED local

\* The remote content replaces the local one; a losing push is dropped.
TakeRemote(e, it) ==
    /\ local' = [local EXCEPT ![e].val = it.event.val, ![e].at = stamp]
    /\ mapping' = SaveMapping(e, it, it.event.val)
    /\ outbox' = [outbox EXCEPT ![e] = NoRow]

PullUpdate(p, it, e) ==
    /\ Takes(p, it)
    /\ it.event.status = "live" /\ e \in Owners(it.rid)
    /\ Live(e) /\ ~KeepsLocal(e, it)
    /\ TakeRemote(e, it)

\* reconcile(): after a full listing, a mapped event that was not listed goes.
Unlisted(p) == {e \in Events : pull[p].full /\ Mapped(e) /\ mapping[e].rid \notin pull[p].seen}

PullCommit(p) ==
    /\ Applying(p) /\ pull[p].items = {}
    /\ RemoveLocal(Unlisted(p))
    /\ pull' = [pull EXCEPT ![p].phase = "applied", ![p].seen = {}]
    /\ UNCHANGED <<remote, binding, push, stamp, used, gaveUp>>

\* Mistake: the token saved is the one of now, not the one of the fetch.
PullSaveLate(p) ==
    /\ Open
    /\ pull[p].phase = "applied"
    /\ binding' = [binding EXCEPT !.token = stamp]
    /\ pull' = [pull EXCEPT ![p] = IdlePull]
    /\ UNCHANGED <<local, remote, mapping, outbox, push, stamp, used, gaveUp>>

PullSave(p) ==
    /\ Open
    /\ pull[p].phase = "applied"
    /\ binding' = [binding EXCEPT !.token = pull[p].token]
    /\ pull' = [pull EXCEPT ![p] = IdlePull]
    /\ UNCHANGED <<local, remote, mapping, outbox, push, stamp, used, gaveUp>>

\* The transaction fails: the binding is saved with the token it was loaded with.
PullFail(p) ==
    /\ Open /\ Fault
    /\ pull[p].phase = "fetched"
    /\ binding' = [binding EXCEPT !.token = pull[p].old]
    /\ pull' = [pull EXCEPT ![p] = IdlePull]
    /\ UNCHANGED <<local, remote, mapping, outbox, push, stamp, gaveUp>>

\* The worker stops before or after the transaction; the token is not saved.
PullCrash(p) ==
    /\ Open /\ Fault
    /\ pull[p].phase \in {"fetched", "applied"}
    /\ pull' = [pull EXCEPT ![p] = IdlePull]
    /\ UNCHANGED <<local, remote, mapping, outbox, binding, push, stamp, gaveUp>>

PullRevoked(p) ==
    /\ Open /\ Fault
    /\ Active /\ pull[p].phase = "idle"
    /\ binding' = [binding EXCEPT !.account = "revoked"]
    /\ UNCHANGED <<local, remote, mapping, outbox, pull, push, stamp, gaveUp>>

-----------------------------------------------------------------------------
(* HandlePush: one transaction per outbox row, which holds the row, the      *)
(* event and the binding's lock while it calls Google.                       *)

\* Mistake: a row whose push failed is not claimed again.
PushClaimFresh(e) ==
    /\ LockFree
    /\ Active /\ Pending(e) /\ outbox[e].tries = 0
    /\ push' = [phase |-> "call", event |-> e]
    /\ UNCHANGED <<local, remote, mapping, outbox, binding, pull, stamp, used, gaveUp>>

PushClaim(e) ==
    /\ LockFree
    /\ Active /\ Pending(e)
    /\ push' = [phase |-> "call", event |-> e]
    /\ UNCHANGED <<local, remote, mapping, outbox, binding, pull, stamp, used, gaveUp>>

Sending(e, phase) == push.phase = phase /\ push.event = e

\* An upsert of an event that is gone here is sent as a delete.
Upsert(e)   == outbox[e].op = "upsert" /\ Live(e)
RemoteId(e) == IF Mapped(e) THEN mapping[e].rid ELSE outbox[e].rid

\* Mistake: a failing row is retried for ever.
RetryForEver(e) ==
    /\ outbox' = [outbox EXCEPT ![e].tries = @ + 1]
    /\ gaveUp' = gaveUp

Retry(e) ==
    IF outbox[e].tries + 1 >= MaxTries
    THEN outbox' = [outbox EXCEPT ![e] = NoRow] /\ gaveUp' = gaveUp \cup {e}
    ELSE outbox' = [outbox EXCEPT ![e].tries = @ + 1] /\ gaveUp' = gaveUp

\* Mistake: the id Google gave is not kept.
FinishUnmapped(e, map) ==
    /\ outbox' = [outbox EXCEPT ![e] = NoRow]
    /\ UNCHANGED <<mapping, used, gaveUp>>

Finish(e, map) ==
    /\ mapping' = map
    /\ outbox' = [outbox EXCEPT ![e] = NoRow]
    /\ UNCHANGED <<used, gaveUp>>

\* Google did it and the answer is lost: an error to the job (the row is tried
\* again), or a crash (the transaction rolls back).
Unanswered(e) ==
    /\ Lost
    /\ UNCHANGED mapping
    /\ Retry(e) \/ UNCHANGED <<outbox, gaveUp>>

Answer(e, answered, map) ==
    /\ IF answered THEN Finish(e, map) ELSE Unanswered(e)
    /\ push' = IdlePush
    /\ UNCHANGED <<local, binding, pull>>

\* Nothing is sent for an event Google never had.
PushDelete(e, answered) ==
    LET r == RemoteId(e)
    IN  /\ Sending(e, "call")
        /\ ~Upsert(e)
        /\ IF r # None /\ remote[r].status = "live"
           THEN /\ remote' = [remote EXCEPT ![r].status = "cancelled",
                                            ![r].val = local[e].at, ![r].at = Now]
                /\ stamp' = Now
           ELSE UNCHANGED <<remote, stamp>>
        /\ Answer(e, answered, [mapping EXCEPT ![e] = NoMapping])

Sent(e) == [status |-> "live", val |-> local[e].val, at |-> Now, origin |-> local[e].origin]

Write(e, r, answered) ==
    /\ remote' = [remote EXCEPT ![r] = Sent(e)]
    /\ stamp' = Now
    /\ Answer(e, answered, SaveMapping(e, [rid |-> r, event |-> Sent(e)], local[e].val))

\* Insert an event Google does not have, or has deleted and calls gone.  The
\* body carries no iCalUID.
PushInsert(e, r, answered) ==
    /\ Sending(e, "call")
    /\ Upsert(e)
    /\ RemoteId(e) # None => remote[RemoteId(e)].status = "cancelled"
    /\ remote[r] = NoRemote
    /\ Write(e, r, answered)

\* Patch with If-Match when there is a mapping.
Matches(e) == ~Mapped(e) \/ mapping[e].etag = remote[RemoteId(e)].at

PushPatch(e, answered) ==
    /\ Sending(e, "call")
    /\ Upsert(e) /\ RemoteId(e) # None
    /\ Matches(e)
    /\ Write(e, RemoteId(e), answered)

\* resolveEvent: the remote event changed since; the newer side wins.
Mismatch(e) == Sending(e, "call") /\ Upsert(e) /\ RemoteId(e) # None /\ ~Matches(e)

LocalNewer(e) == local[e].at > remote[RemoteId(e)].at

PushLoses(e) ==
    /\ Mismatch(e) /\ ~LocalNewer(e)
    /\ TakeRemote(e, [rid |-> RemoteId(e), event |-> remote[RemoteId(e)]])
    /\ push' = IdlePush
    /\ UNCHANGED <<remote, binding, pull, stamp, used, gaveUp>>

PushInsists(e) ==
    /\ Mismatch(e) /\ LocalNewer(e)
    /\ push' = [push EXCEPT !.phase = "force"]
    /\ UNCHANGED <<local, remote, mapping, outbox, binding, pull, stamp, used, gaveUp>>

\* The second patch has no If-Match: what changed since the read is overwritten.
PushForce(e, answered) ==
    /\ Sending(e, "force")
    /\ Write(e, RemoteId(e), answered)

PushError(e) ==
    /\ push.event = e /\ Open /\ Fault
    /\ Retry(e)
    /\ push' = IdlePush
    /\ UNCHANGED <<local, remote, mapping, binding, pull, stamp>>

\* ErrRevoked, or a crash before the call: the transaction rolls back.
PushAbort(e, account) ==
    /\ push.event = e /\ Open /\ Fault
    /\ binding' = [binding EXCEPT !.account = account]
    /\ push' = IdlePush
    /\ UNCHANGED <<local, remote, mapping, outbox, pull, stamp, gaveUp>>

-----------------------------------------------------------------------------
UserStep ==
    \/ \E e \in Events : CreateLocal(e) \/ EditLocal(e) \/ DeleteLocal(e) \/ RestoreLocal(e)
    \/ \E r \in Remotes : RemoteCreate(r) \/ RemoteEdit(r) \/ RemoteDelete(r)
    \/ Bind \/ Unbind

PullFetches(p) == PullFetch(p) \/ PullFetchFull(p)

PullWork(p) ==
    \/ PullBegin(p) \/ PullCommit(p) \/ PullSave(p)
    \/ \E it \in pull[p].items :
         \/ PullCancelled(p, it)
         \/ \E e \in Events : \/ PullAdopt(p, it, e) \/ PullCreate(p, it, e)
                              \/ PullKeep(p, it, e) \/ PullUpdate(p, it, e)

PullTrouble(p) == PullFail(p) \/ PullCrash(p) \/ PullRevoked(p)

PushWork(e) ==
    \/ PushLoses(e) \/ PushInsists(e)
    \/ PushDelete(e, TRUE) \/ PushPatch(e, TRUE) \/ PushForce(e, TRUE)
    \/ \E r \in Remotes : PushInsert(e, r, TRUE)

PushTrouble(e) ==
    \/ PushDelete(e, FALSE) \/ PushPatch(e, FALSE) \/ PushForce(e, FALSE)
    \/ \E r \in Remotes : PushInsert(e, r, FALSE)
    \/ PushError(e)
    \/ \E account \in {"ok", "revoked"} : PushAbort(e, account)

Next ==
    \/ UserStep
    \/ Connect
    \/ \E p \in Pullers : PullFetches(p) \/ PullWork(p) \/ PullTrouble(p)
    \/ \E e \in Events : PushClaim(e) \/ PushWork(e) \/ PushTrouble(e)

Spec == Init /\ [][Next]_vars

(***************************************************************************)
(* Fairness: the poll queues a pull of every active binding again and      *)
(* again, each pull ends by queueing a push when rows wait, and a job that *)
(* has started goes on.  Jobs of both kinds wait for the binding's         *)
(* advisory lock, which Postgres grants in the order of the requests:      *)
(* strong fairness of the steps that take it.  Users need not do anything. *)
(***************************************************************************)
Fairness ==
    /\ \A p \in Pullers : /\ WF_vars(PullFetches(p))
                          /\ WF_vars(PullWork(p))
                          /\ SF_vars(PullBegin(p))
    /\ WF_vars(\E e \in Events : PushWork(e))
    /\ SF_vars(\E e \in Events : PushClaim(e))

FairSpec == Spec /\ Fairness

-----------------------------------------------------------------------------
(* Properties.                                                               *)

\* Nothing is on its way: no row waits, no job runs, every change at Google
\* is behind the token.
Quiet ==
    /\ Active
    /\ \A e \in Events : ~Pending(e)
    /\ \A p \in Pullers : pull[p].phase = "idle"
    /\ push.phase = "idle"
    /\ Changed(binding.token) = {}

Agrees(e) == /\ Mapped(e)
             /\ remote[mapping[e].rid].status = "live"
             /\ remote[mapping[e].rid].val = local[e].val

SameCalendar ==
    /\ \A e \in Events \ gaveUp : Live(e) => Agrees(e)
    /\ \A r \in LiveRemotes : \E e \in Owners(r) : Live(e) \/ e \in gaveUp

\* When nothing is on its way the two calendars hold the same events with the
\* same content, but for changes that push gave up.
QuietAgrees == Quiet => SameCalendar

\* Once users stop editing, the calendars become the same and stay so, whatever
\* conflicts, failed calls and crashes came before, as long as the account is
\* usable and the model has ids left for the copies that sync makes.
IdsLeft == (\E e \in Events : local[e] = NoLocal) /\ (\E r \in Remotes : remote[r] = NoRemote)

SyncSettles == <>[](Active /\ IdsLeft => SameCalendar)

\* An event created once exists once on each side: neither an echoed push nor
\* a listing makes a second copy.  (An insert whose answer was lost is sent
\* again and does make one.)
NoDoubles ==
    Quiet /\ used.lost = 0 =>
        /\ \A e, f \in Events : e # f /\ Live(e) /\ Live(f) => local[e].origin # local[f].origin
        /\ \A r, s \in LiveRemotes : r # s => remote[r].origin # remote[s].origin

\* Every local change reaches Google: a live event has a row in the outbox or is
\* mapped at the content it has, a deleted one that is still mapped has a row.
NothingForgotten ==
    binding.bound => \A e \in Events \ gaveUp :
        /\ Live(e) => Pending(e) \/ (Mapped(e) /\ mapping[e].val = local[e].val)
        /\ ~Live(e) /\ Mapped(e) => Pending(e)

\* An event with a mapping and no row is at the content the mapping was saved
\* with, whatever pulls, pushes, restores and reconnects ran in between.
CleanIsSynced ==
    \A e \in Events \ gaveUp :
        Live(e) /\ Mapped(e) /\ ~Pending(e) => mapping[e].val = local[e].val

\* A local edit that waits to be sent is replaced only by a newer one.
PendingYieldsToNewer ==
    [][\A e \in Events :
         Live(e) /\ local'[e].status = "live" /\ outbox[e].op = "upsert"
           => local'[e].val >= local[e].val]_vars
=============================================================================
