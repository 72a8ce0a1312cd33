-------------------------- MODULE GoogleSyncProofs --------------------------
(***************************************************************************)
(* Proofs about the sync of events with Google, for every number of        *)
(* events, Google events, pull jobs, edits, restores, rebinds, faults and  *)
(* lost answers.                                                           *)
(***************************************************************************)
EXTENDS GoogleSync, TLAPS

\* Without a binding there is nothing of it: its rows cascade, its jobs stop.
UnboundInv ==
    ~binding.bound =>
        /\ \A e \in Events : mapping[e] = NoMapping /\ outbox[e] = NoRow
        /\ \A p \in Pullers : pull[p] = IdlePull
        /\ push = IdlePush

\* A push job holds a row of the outbox, and no pull is in its transaction meanwhile;
\* one that insists has an event to send and knows Google's copy.
PushInv ==
    /\ push.phase = "idle" => push = IdlePush
    /\ push.phase # "idle" => push.event \in Events /\ Pending(push.event) /\ Open
    /\ push.phase = "force" => Upsert(push.event) /\ RemoteId(push.event) # None

\* What is mapped or listed exists at Google, if only as a deleted event.
RemoteInv ==
    /\ \A r \in Remotes : remote[r].status = "absent" => remote[r] = NoRemote
    /\ \A e \in Events : Mapped(e) => remote[mapping[e].rid].status # "absent"
    /\ \A p \in Pullers : \A it \in pull[p].items : remote[it.rid].status # "absent"

\* A Google event is mapped to one event at most.
MapInv ==
    \A e, f \in Events : Mapped(e) /\ mapping[e].rid = mapping[f].rid => e = f

\* A row knows no other Google event than the mapping does, the event of an upsert is
\* live, and what is mapped was once created.
RowInv ==
    \A e \in Events :
        /\ outbox[e].rid \in {None, mapping[e].rid}
        /\ outbox[e].op = "none" => outbox[e] = NoRow
        /\ outbox[e].op = "upsert" => Live(e)
        /\ Mapped(e) => local[e].status # "absent"

\* A mapping without a row holds the content of the event, live or in the trash.
CleanInv ==
    \A e \in Events \ gaveUp : Mapped(e) /\ ~Pending(e) => mapping[e].val = local[e].val

SyncInv == TypeOK /\ UnboundInv /\ PushInv /\ RemoteInv /\ MapInv /\ RowInv /\ CleanInv

-----------------------------------------------------------------------------
(* Types of what the statements write.                                       *)

USE SyncAssumption

LEMMA InitInv == Init => SyncInv
  <1> SUFFICES ASSUME Init PROVE SyncInv
    OBVIOUS
  <1> USE DEF Init, NoLocal, NoRemote, NoMapping, NoRow, IdlePull, IdlePush
  <1>1. TypeOK
    BY DEF TypeOK, LocalEvent, RemoteEvent, Mapping, OutboxRow, PullJob, PushJob
  <1>2. UnboundInv /\ PushInv
    BY DEF UnboundInv, PushInv
  <1>3. RemoteInv /\ MapInv /\ RowInv /\ CleanInv
    BY DEF RemoteInv, MapInv, RowInv, CleanInv, Mapped, Pending
  <1> QED
    BY <1>1, <1>2, <1>3 DEF SyncInv

\* Constant records have their types.
LEMMA NoneTyped ==
    /\ NoLocal \in LocalEvent /\ NoRemote \in RemoteEvent /\ NoMapping \in Mapping
    /\ NoRow \in OutboxRow /\ IdlePull \in PullJob /\ IdlePush \in PushJob
  BY DEF NoLocal, NoRemote, NoMapping, NoRow, IdlePull, IdlePush,
         LocalEvent, RemoteEvent, Mapping, OutboxRow, PullJob, PushJob

\* queueSync writes rows.
LEMMA QueueTyped ==
    ASSUME TypeOK, NEW e \in Events, NEW op \in {"upsert", "delete"}, QueueSync(e, op)
    PROVE  outbox' \in [Events -> OutboxRow] /\ gaveUp' \subseteq Events
  <1> DEFINE rid == IF Mapped(e) THEN mapping[e].rid ELSE outbox[e].rid
             row == [op |-> op, rid |-> rid, tries |-> 0]
  <1>1. mapping[e] \in Mapping /\ outbox[e] \in OutboxRow
    BY DEF TypeOK
  <1>2. row \in OutboxRow
    BY <1>1 DEF OutboxRow, Mapping
  <1>3. \/ outbox' = outbox \/ outbox' = [outbox EXCEPT ![e] = NoRow]
        \/ outbox' = [outbox EXCEPT ![e] = row]
    BY DEF QueueSync
  <1>4. gaveUp' = gaveUp \ {e}
    BY DEF QueueSync
  <1> QED
    BY <1>2, <1>3, <1>4, NoneTyped DEF TypeOK

\* SaveMapping writes mappings.
LEMMA SaveTyped ==
    ASSUME TypeOK, NEW e \in Events, NEW it, it.rid \in Remotes, it.event \in RemoteEvent, NEW val \in Nat
    PROVE  SaveMapping(e, it, val) \in [Events -> Mapping]
  <1>1. MapTo(it, val) \in Mapping
    BY DEF MapTo, Mapping, RemoteEvent
  <1> QED
    BY <1>1, NoneTyped DEF SaveMapping, TypeOK

\* removeLocal keeps the types of the three tables.
LEMMA RemoveTyped ==
    ASSUME TypeOK, NEW S, RemoveLocal(S)
    PROVE  /\ local' \in [Events -> LocalEvent] /\ outbox' \in [Events -> OutboxRow]
           /\ mapping' \in [Events -> Mapping]
  <1>1. ASSUME NEW e \in Events
        PROVE  [local[e] EXCEPT !.status = "trashed", !.at = stamp] \in LocalEvent
    <2>1. local[e] \in LocalEvent /\ stamp \in Nat
      BY DEF TypeOK
    <2> QED
      BY <2>1 DEF LocalEvent
  <1> QED
    BY <1>1, NoneTyped DEF RemoveLocal, TypeOK

\* A retried row is still tried less than MaxTries times.
LEMMA RetryTyped ==
    ASSUME TypeOK, NEW e \in Events, Retry(e)
    PROVE  outbox' \in [Events -> OutboxRow] /\ gaveUp' \subseteq Events
  <1>1. outbox[e] \in OutboxRow
    BY DEF TypeOK
  <1>2. CASE outbox[e].tries + 1 >= MaxTries
    BY <1>2, NoneTyped DEF Retry, TypeOK
  <1>3. CASE ~(outbox[e].tries + 1 >= MaxTries)
    <2>1. [outbox[e] EXCEPT !.tries = @ + 1] \in OutboxRow
      BY <1>1, <1>3 DEF OutboxRow
    <2>2. outbox' = [outbox EXCEPT ![e] = [outbox[e] EXCEPT !.tries = @ + 1]] /\ gaveUp' = gaveUp
      BY <1>3 DEF Retry
    <2> QED
      BY <2>1, <2>2 DEF TypeOK
  <1> QED
    BY <1>2, <1>3

\* A copy taken from Google keeps the event's type.
LEMMA TakeTyped ==
    ASSUME TypeOK, NEW e \in Events, NEW it, it.rid \in Remotes, it.event \in RemoteEvent
    PROVE  /\ [local EXCEPT ![e].val = it.event.val, ![e].at = stamp] \in [Events -> LocalEvent]
           /\ SaveMapping(e, it, it.event.val) \in [Events -> Mapping]
           /\ [outbox EXCEPT ![e] = NoRow] \in [Events -> OutboxRow]
  <1>1. local[e] \in LocalEvent /\ stamp \in Nat /\ it.event.val \in Nat
    BY DEF TypeOK, RemoteEvent
  <1>2. [local[e] EXCEPT !.val = it.event.val, !.at = stamp] \in LocalEvent
    BY <1>1 DEF LocalEvent
  <1>3. [local EXCEPT ![e].val = it.event.val, ![e].at = stamp] \in [Events -> LocalEvent]
    BY <1>2 DEF TypeOK
  <1> QED
    BY <1>1, <1>3, SaveTyped, NoneTyped DEF TypeOK

\* The answer of Google, or its loss, leaves the tables and the job in their types.
LEMMA AnswerTyped ==
    ASSUME TypeOK, NEW e \in Events, NEW answered \in BOOLEAN, NEW map \in [Events -> Mapping],
           Answer(e, answered, map)
    PROVE  /\ local' = local /\ binding' = binding /\ pull' = pull /\ push' = IdlePush
           /\ mapping' \in [Events -> Mapping] /\ outbox' \in [Events -> OutboxRow]
           /\ gaveUp' \subseteq Events
           /\ used' \in [edits : 0..MaxEdits, restores : 0..MaxRestores, binds : 0..MaxBinds,
                         faults : 0..MaxFaults, lost : 0..MaxLost]
  <1>1. local' = local /\ binding' = binding /\ pull' = pull /\ push' = IdlePush
    BY DEF Answer
  <1>2. CASE answered
    BY <1>1, <1>2, NoneTyped DEF Answer, Finish, TypeOK
  <1>3. CASE ~answered
    <2>1. Unanswered(e)
      BY <1>3 DEF Answer
    <2>2. outbox' \in [Events -> OutboxRow] /\ gaveUp' \subseteq Events
      BY <2>1, RetryTyped DEF Unanswered, TypeOK
    <2>3. used' \in [edits : 0..MaxEdits, restores : 0..MaxRestores, binds : 0..MaxBinds,
                     faults : 0..MaxFaults, lost : 0..MaxLost]
      BY <2>1 DEF Unanswered, Lost, TypeOK
    <2> QED
      BY <1>1, <2>1, <2>2, <2>3 DEF Unanswered, TypeOK
  <1> QED
    BY <1>2, <1>3

\* What is sent is an event of Google's.
LEMMA SentTyped ==
    ASSUME TypeOK, NEW e \in Events
    PROVE  Sent(e) \in RemoteEvent /\ local[e].val \in Nat /\ local[e].at \in Nat /\ Now \in Nat
  <1>1. local[e] \in LocalEvent /\ stamp \in Nat
    BY DEF TypeOK
  <1> QED
    BY <1>1 DEF Sent, RemoteEvent, LocalEvent, Now

LEMMA WriteTyped ==
    ASSUME TypeOK, NEW e \in Events, NEW r \in Remotes, NEW answered \in BOOLEAN, Write(e, r, answered)
    PROVE  TypeOK'
  <1> DEFINE it == [rid |-> r, event |-> Sent(e)]
  <1>1. it.rid \in Remotes /\ it.event \in RemoteEvent
    BY SentTyped
  <1>2. SaveMapping(e, it, local[e].val) \in [Events -> Mapping]
    BY <1>1, SentTyped, SaveTyped
  <1>3. Answer(e, answered, SaveMapping(e, it, local[e].val))
    BY DEF Write
  <1>4. remote' \in [Remotes -> RemoteEvent] /\ stamp' \in Nat
    BY SentTyped DEF Write, TypeOK
  <1> HIDE DEF it
  <1> QED
    BY <1>2, <1>3, <1>4, AnswerTyped, NoneTyped DEF TypeOK

\* Items of a pull.
LEMMA ItemTyped ==
    ASSUME TypeOK, NEW p \in Pullers, NEW it, Takes(p, it)
    PROVE  /\ it \in Item /\ it.rid \in Remotes /\ it.event \in RemoteEvent /\ it.event.val \in Nat
           /\ pull' \in [Pullers -> PullJob]
  <1>1. pull[p] \in PullJob /\ it \in pull[p].items
    BY DEF TypeOK, Takes
  <1>2. it \in Item
    BY <1>1 DEF PullJob
  <1>3. [pull[p] EXCEPT !.items = @ \ {it}] \in PullJob
    BY <1>1 DEF PullJob
  <1>4. pull' \in [Pullers -> PullJob]
    BY <1>3 DEF Takes, TypeOK
  <1> QED
    BY <1>2, <1>4 DEF Item, RemoteEvent

-----------------------------------------------------------------------------
(* Every step keeps the types.                                               *)

\* Steps of users.
LEMMA UserTyped == ASSUME TypeOK, UserStep PROVE TypeOK'
  <1>0. stamp \in Nat /\ Now \in Nat
    BY DEF TypeOK, Now
  <1>1. ASSUME NEW e \in Events, CreateLocal(e) PROVE TypeOK'
    <2>1. [status |-> "live", val |-> Now, at |-> Now, uid |-> e, origin |-> e] \in LocalEvent
      BY <1>0 DEF LocalEvent
    <2>2. local' \in [Events -> LocalEvent]
      BY <1>1, <2>1 DEF CreateLocal, TypeOK
    <2>3. outbox' \in [Events -> OutboxRow] /\ gaveUp' \subseteq Events
      BY <1>1, QueueTyped DEF CreateLocal
    <2> QED
      BY <1>0, <1>1, <2>2, <2>3 DEF CreateLocal, LocalStep, Edit, TypeOK
  <1>2. ASSUME NEW e \in Events, EditLocal(e) PROVE TypeOK'
    <2>1. local[e] \in LocalEvent
      BY DEF TypeOK
    <2>2. [local[e] EXCEPT !.val = Now, !.at = Now] \in LocalEvent
      BY <1>0, <2>1 DEF LocalEvent
    <2>3. local' \in [Events -> LocalEvent]
      BY <1>2, <2>2 DEF EditLocal, TypeOK
    <2>4. outbox' \in [Events -> OutboxRow] /\ gaveUp' \subseteq Events
      BY <1>2, QueueTyped DEF EditLocal
    <2> QED
      BY <1>0, <1>2, <2>3, <2>4 DEF EditLocal, LocalStep, Edit, TypeOK
  <1>3. ASSUME NEW e \in Events, DeleteLocal(e) PROVE TypeOK'
    <2>1. local[e] \in LocalEvent
      BY DEF TypeOK
    <2>2. [local[e] EXCEPT !.status = "trashed", !.at = Now] \in LocalEvent
      BY <1>0, <2>1 DEF LocalEvent
    <2>3. local' \in [Events -> LocalEvent]
      BY <1>3, <2>2 DEF DeleteLocal, TypeOK
    <2>4. outbox' \in [Events -> OutboxRow] /\ gaveUp' \subseteq Events
      BY <1>3, QueueTyped DEF DeleteLocal
    <2> QED
      BY <1>0, <1>3, <2>3, <2>4 DEF DeleteLocal, LocalStep, Edit, TypeOK
  <1>4. ASSUME NEW e \in Events, RestoreLocal(e) PROVE TypeOK'
    <2>1. local[e] \in LocalEvent
      BY DEF TypeOK
    <2>2. [local[e] EXCEPT !.status = "live", !.at = Now] \in LocalEvent
      BY <1>0, <2>1 DEF LocalEvent
    <2>3. local' \in [Events -> LocalEvent]
      BY <1>4, <2>2 DEF RestoreLocal, TypeOK
    <2> QED
      BY <1>0, <1>4, <2>3 DEF RestoreLocal, LocalStep, Restore, TypeOK
  <1>5. ASSUME NEW r \in Remotes, RemoteCreate(r) PROVE TypeOK'
    <2>1. [status |-> "live", val |-> Now, at |-> Now, origin |-> r] \in RemoteEvent
      BY <1>0 DEF RemoteEvent
    <2> QED
      BY <1>0, <1>5, <2>1 DEF RemoteCreate, RemoteStep, Edit, TypeOK
  <1>6. ASSUME NEW r \in Remotes, RemoteEdit(r) PROVE TypeOK'
    <2>1. remote[r] \in RemoteEvent
      BY DEF TypeOK
    <2>2. [remote[r] EXCEPT !.val = Now, !.at = Now] \in RemoteEvent
      BY <1>0, <2>1 DEF RemoteEvent
    <2> QED
      BY <1>0, <1>6, <2>2 DEF RemoteEdit, RemoteStep, Edit, TypeOK
  <1>7. ASSUME NEW r \in Remotes, RemoteDelete(r) PROVE TypeOK'
    <2>1. remote[r] \in RemoteEvent
      BY DEF TypeOK
    <2>2. [remote[r] EXCEPT !.status = "cancelled", !.val = Now, !.at = Now] \in RemoteEvent
      BY <1>0, <2>1 DEF RemoteEvent
    <2> QED
      BY <1>0, <1>7, <2>2 DEF RemoteDelete, RemoteStep, Edit, TypeOK
  <1>8. CASE Bind
    <2>1. [NoRow EXCEPT !.op = "upsert"] \in OutboxRow
      BY NoneTyped DEF OutboxRow, NoRow
    <2>2. outbox' \in [Events -> OutboxRow]
      BY <1>8, <2>1, NoneTyped DEF Bind
    <2>3. used' \in [edits : 0..MaxEdits, restores : 0..MaxRestores, binds : 0..MaxBinds,
                     faults : 0..MaxFaults, lost : 0..MaxLost]
      BY <1>8 DEF Bind, TypeOK
    <2>4. binding' \in [bound : BOOLEAN, token : Nat, account : {"ok", "revoked"}]
      BY <1>8 DEF Bind, TypeOK
    <2> QED
      BY <1>8, <2>2, <2>3, <2>4 DEF Bind, TypeOK
  <1>9. CASE Unbind
    BY <1>9, NoneTyped DEF Unbind, TypeOK
  <1> QED
    BY <1>1, <1>2, <1>3, <1>4, <1>5, <1>6, <1>7, <1>8, <1>9 DEF UserStep

\* Steps of pull jobs.
LEMMA PullTyped ==
    ASSUME TypeOK, NEW p \in Pullers, PullFetches(p) \/ PullWork(p) \/ PullTrouble(p)
    PROVE  TypeOK'
  <1>0. pull[p] \in PullJob /\ stamp \in Nat /\ binding.token \in Nat
    BY DEF TypeOK
  <1>1. ASSUME NEW R \in SUBSET Remotes, NEW full \in BOOLEAN, Fetched(p, R, full),
               \/ UNCHANGED used
               \/ Fault
        PROVE  TypeOK'
    <2>1. Items(R) \subseteq Item
      BY DEF Items, Item, TypeOK
    <2>2. [phase |-> "fetched", full |-> full, items |-> Items(R),
           seen |-> IF full THEN R ELSE {}, token |-> stamp, old |-> binding.token] \in PullJob
      BY <1>0, <2>1 DEF PullJob
    <2>3. pull' \in [Pullers -> PullJob]
      BY <1>1, <2>2 DEF Fetched, TypeOK
    <2> QED
      BY <1>1, <2>3 DEF Fetched, Fault, TypeOK
  <1>2. CASE PullFetch(p)
    BY <1>1, <1>2 DEF PullFetch, Changed
  <1>3. CASE PullFetchFull(p)
    <2>1. PICK R \in SUBSET Cancelled : Fetched(p, LiveRemotes \cup R, TRUE)
      BY <1>3 DEF PullFetchFull
    <2>2. LiveRemotes \cup R \in SUBSET Remotes
      BY DEF LiveRemotes, Cancelled
    <2> QED
      BY <1>1, <1>3, <2>1, <2>2 DEF PullFetchFull
  <1>4. CASE PullBegin(p)
    <2>1. [pull[p] EXCEPT !.phase = "apply"] \in PullJob
      BY <1>0 DEF PullJob
    <2> QED
      BY <1>4, <2>1 DEF PullBegin, TypeOK
  <1>5. CASE PullCommit(p)
    <2>1. [pull[p] EXCEPT !.phase = "applied", !.seen = {}] \in PullJob
      BY <1>0 DEF PullJob
    <2> QED
      BY <1>5, <2>1, RemoveTyped DEF PullCommit, TypeOK
  <1>6. CASE PullSave(p)
    <2>1. pull[p].token \in Nat
      BY <1>0 DEF PullJob
    <2> QED
      BY <1>6, <2>1, NoneTyped DEF PullSave, TypeOK
  <1>7. ASSUME NEW it \in pull[p].items, PullCancelled(p, it) PROVE TypeOK'
    BY <1>7, ItemTyped, RemoveTyped DEF PullCancelled, Takes, TypeOK
  <1>8. ASSUME NEW it \in pull[p].items, NEW e \in Events, PullAdopt(p, it, e) PROVE TypeOK'
    BY <1>8, ItemTyped, TakeTyped DEF PullAdopt, Takes, TypeOK
  <1>9. ASSUME NEW it \in pull[p].items, NEW e \in Events, PullCreate(p, it, e) PROVE TypeOK'
    <2>1. Takes(p, it)
      BY <1>9 DEF PullCreate
    <2> DEFINE u == IF UidTaken(it.rid) THEN e ELSE it.rid
               new == [status |-> "live", val |-> it.event.val, at |-> stamp,
                       uid |-> u, origin |-> it.event.origin]
    <2>2. new \in LocalEvent
      <3>1. u \in Events \cup Remotes
        BY <2>1, ItemTyped
      <3>2. it.event.origin \in Events \cup Remotes \cup {None} /\ it.event.val \in Nat
        BY <2>1, ItemTyped DEF RemoteEvent
      <3> HIDE DEF u
      <3> QED
        BY <1>0, <3>1, <3>2 DEF LocalEvent
    <2>3. local' = [local EXCEPT ![e] = new]
      BY <1>9 DEF PullCreate
    <2>4. mapping' \in [Events -> Mapping]
      BY <1>9, <2>1, ItemTyped, TakeTyped DEF PullCreate
    <2> HIDE DEF new
    <2>5. local' \in [Events -> LocalEvent]
      BY <2>2, <2>3 DEF TypeOK
    <2>6. UNCHANGED <<outbox, remote, binding, push, stamp, used, gaveUp>>
      BY <1>9 DEF PullCreate, Takes
    <2>7. pull' \in [Pullers -> PullJob]
      BY <2>1, ItemTyped
    <2> QED
      BY <2>4, <2>5, <2>6, <2>7 DEF TypeOK
  <1>10. ASSUME NEW it \in pull[p].items, NEW e \in Events, PullKeep(p, it, e) PROVE TypeOK'
    BY <1>10, ItemTyped DEF PullKeep, Takes, TypeOK
  <1>11. ASSUME NEW it \in pull[p].items, NEW e \in Events, PullUpdate(p, it, e) PROVE TypeOK'
    BY <1>11, ItemTyped, TakeTyped DEF PullUpdate, TakeRemote, Takes, TypeOK
  <1>12. CASE PullFail(p)
    <2>1. pull[p].old \in Nat
      BY <1>0 DEF PullJob
    <2> QED
      BY <1>12, <2>1, NoneTyped DEF PullFail, Fault, TypeOK
  <1>13. CASE PullCrash(p)
    BY <1>13, NoneTyped DEF PullCrash, Fault, TypeOK
  <1>14. CASE PullRevoked(p)
    BY <1>14 DEF PullRevoked, Fault, TypeOK
  <1> QED
    BY <1>2, <1>3, <1>4, <1>5, <1>6, <1>7, <1>8, <1>9, <1>10, <1>11, <1>12, <1>13, <1>14
    DEF PullFetches, PullWork, PullTrouble

\* Steps of the push job.  Google's copy of a mapped or queued event has an id.
LEMMA RemoteIdTyped ==
    ASSUME TypeOK, NEW e \in Events
    PROVE  RemoteId(e) \in Remotes \cup {None}
  <1>1. mapping[e] \in Mapping /\ outbox[e] \in OutboxRow
    BY DEF TypeOK
  <1> QED
    BY <1>1 DEF RemoteId, Mapping, OutboxRow

LEMMA PushTyped ==
    ASSUME TypeOK, PushInv, NEW e \in Events, PushClaim(e) \/ PushWork(e) \/ PushTrouble(e)
    PROVE  TypeOK'
  <1>1. CASE PushClaim(e)
    BY <1>1 DEF PushClaim, PushJob, TypeOK
  <1>2. CASE PushLoses(e)
    <2> DEFINE it == [rid |-> RemoteId(e), event |-> remote[RemoteId(e)]]
    <2>1. it.rid \in Remotes /\ it.event \in RemoteEvent
      BY <1>2, RemoteIdTyped DEF PushLoses, Mismatch, TypeOK
    <2>2. TakeRemote(e, it)
      BY <1>2 DEF PushLoses
    <2> HIDE DEF it
    <2>3. /\ local' \in [Events -> LocalEvent] /\ mapping' \in [Events -> Mapping]
          /\ outbox' \in [Events -> OutboxRow]
      BY <2>1, <2>2, TakeTyped DEF TakeRemote
    <2>4. push' \in PushJob /\ UNCHANGED <<remote, binding, pull, stamp, used, gaveUp>>
      BY <1>2, NoneTyped DEF PushLoses
    <2> QED
      BY <2>3, <2>4 DEF TypeOK
  <1>3. CASE PushInsists(e)
    BY <1>3 DEF PushInsists, PushJob, TypeOK
  <1>4. ASSUME NEW answered \in BOOLEAN, PushDelete(e, answered) PROVE TypeOK'
    <2>1. [mapping EXCEPT ![e] = NoMapping] \in [Events -> Mapping]
      BY NoneTyped DEF TypeOK
    <2>2. Answer(e, answered, [mapping EXCEPT ![e] = NoMapping])
      BY <1>4 DEF PushDelete
    <2>3. remote' \in [Remotes -> RemoteEvent] /\ stamp' \in Nat
      <3> DEFINE r == RemoteId(e)
      <3>1. CASE r # None /\ remote[r].status = "live"
        <4>1. r \in Remotes
          BY <3>1, RemoteIdTyped
        <4>2. remote[r] \in RemoteEvent
          BY <4>1 DEF TypeOK
        <4>3. [remote[r] EXCEPT !.status = "cancelled", !.val = local[e].at, !.at = Now] \in RemoteEvent
          BY <4>2, SentTyped DEF RemoteEvent
        <4>4. remote' = [remote EXCEPT ![r].status = "cancelled", ![r].val = local[e].at, ![r].at = Now]
              /\ stamp' = Now
          BY <1>4, <3>1 DEF PushDelete
        <4> HIDE DEF r
        <4> QED
          BY <4>1, <4>3, <4>4, SentTyped DEF TypeOK
      <3>2. CASE ~(r # None /\ remote[r].status = "live")
        BY <1>4, <3>2 DEF PushDelete, TypeOK
      <3> QED
        BY <3>1, <3>2
    <2>4. /\ local' = local /\ binding' = binding /\ pull' = pull /\ push' = IdlePush
          /\ mapping' \in [Events -> Mapping] /\ outbox' \in [Events -> OutboxRow]
          /\ gaveUp' \subseteq Events
          /\ used' \in [edits : 0..MaxEdits, restores : 0..MaxRestores, binds : 0..MaxBinds,
                        faults : 0..MaxFaults, lost : 0..MaxLost]
      BY <2>1, <2>2, AnswerTyped
    <2> QED
      BY <2>3, <2>4, NoneTyped DEF TypeOK
  <1>5. ASSUME NEW answered \in BOOLEAN, PushPatch(e, answered) PROVE TypeOK'
    BY <1>5, WriteTyped, RemoteIdTyped DEF PushPatch
  <1>6. ASSUME NEW answered \in BOOLEAN, PushForce(e, answered) PROVE TypeOK'
    BY <1>6, WriteTyped, RemoteIdTyped DEF PushForce, PushInv, Sending
  <1>7. ASSUME NEW answered \in BOOLEAN, NEW r \in Remotes, PushInsert(e, r, answered) PROVE TypeOK'
    BY <1>7, WriteTyped DEF PushInsert
  <1>8. CASE PushError(e)
    <2>1. outbox' \in [Events -> OutboxRow] /\ gaveUp' \subseteq Events
      BY <1>8, RetryTyped DEF PushError
    <2> QED
      BY <1>8, <2>1, NoneTyped DEF PushError, Fault, TypeOK
  <1>9. ASSUME NEW account \in {"ok", "revoked"}, PushAbort(e, account) PROVE TypeOK'
    BY <1>9, NoneTyped DEF PushAbort, Fault, TypeOK
  <1> QED
    BY <1>1, <1>2, <1>3, <1>4, <1>5, <1>6, <1>7, <1>8, <1>9 DEF PushWork, PushTrouble

LEMMA NextTyped == ASSUME TypeOK, PushInv, [Next]_vars PROVE TypeOK'
  <1>1. CASE Connect
    BY <1>1 DEF Connect, TypeOK
  <1>2. CASE UNCHANGED vars
    BY <1>2 DEF vars, TypeOK
  <1> QED
    BY <1>1, <1>2, UserTyped, PullTyped, PushTyped DEF Next

-----------------------------------------------------------------------------
(* Every step keeps the other conjuncts.                                     *)

\* An edit by the user: the event is written and its row queued.
LocalEdit(e, op) ==
    /\ CanEdit(e) /\ LocalStep /\ QueueSync(e, op)
    /\ \E new \in LocalEvent :
         /\ local' = [local EXCEPT ![e] = new]
         /\ op = "upsert" => new.status = "live"
         /\ op = "delete" => new.status = "trashed" /\ new.val = local[e].val

LEMMA LocalEditInv ==
    ASSUME SyncInv, NEW e \in Events, NEW op \in {"upsert", "delete"}, LocalEdit(e, op)
    PROVE  (UnboundInv /\ PushInv /\ RemoteInv /\ MapInv /\ RowInv /\ CleanInv)'
  <1> PICK new \in LocalEvent :
        /\ local' = [local EXCEPT ![e] = new]
        /\ op = "upsert" => new.status = "live"
        /\ op = "delete" => new.status = "trashed" /\ new.val = local[e].val
    BY DEF LocalEdit
  <1> DEFINE rid == IF Mapped(e) THEN mapping[e].rid ELSE outbox[e].rid
  <1>0. TypeOK /\ UnboundInv /\ PushInv /\ RemoteInv /\ MapInv /\ RowInv /\ CleanInv
    BY DEF SyncInv
  <1>1. UNCHANGED <<remote, mapping, binding, pull, push>> /\ gaveUp' = gaveUp \ {e}
    BY DEF LocalEdit, LocalStep, QueueSync
  <1>2. rid \in {None, mapping[e].rid}
    BY <1>0 DEF RowInv
  <1>3. \/ ~binding.bound /\ outbox' = outbox
        \/ op = "delete" /\ ~Mapped(e) /\ outbox' = [outbox EXCEPT ![e] = NoRow]
        \/ /\ op = "delete" => Mapped(e)
           /\ outbox' = [outbox EXCEPT ![e] = [op |-> op, rid |-> rid, tries |-> 0]]
    BY DEF LocalEdit, QueueSync
  <1> HIDE DEF rid
  <1>4. push.event # e /\ Open
    BY DEF LocalEdit, CanEdit
  <1>5. outbox' \in [Events -> OutboxRow] /\ DOMAIN outbox = Events /\ DOMAIN local = Events
        /\ \A x \in Events : x # e => outbox'[x] = outbox[x] /\ local'[x] = local[x]
    BY <1>0, QueueTyped, <1>3 DEF LocalEdit, TypeOK
  <1>6. local'[e] = new
    BY <1>5
  <1>7. \/ ~binding.bound /\ outbox'[e] = outbox[e]
        \/ op = "delete" /\ ~Mapped(e) /\ outbox'[e] = NoRow
        \/ (op = "delete" => Mapped(e)) /\ outbox'[e] = [op |-> op, rid |-> rid, tries |-> 0]
    BY <1>3, <1>5
  <1>11. UnboundInv'
    <2> SUFFICES ASSUME ~binding.bound PROVE outbox' = outbox
      BY <1>0, <1>1 DEF UnboundInv
    <2>1. outbox[e] = NoRow /\ ~Mapped(e)
      BY <1>0 DEF UnboundInv, NoMapping, Mapped
    <2> QED
      BY DEF LocalEdit, QueueSync
  <1>12. PushInv'
    BY <1>0, <1>1, <1>4, <1>5 DEF PushInv, Pending, Open, Applying, Upsert, Live, RemoteId, Mapped
  <1>13. RemoteInv' /\ MapInv'
    BY <1>0, <1>1 DEF RemoteInv, MapInv, Mapped
  <1>14. RowInv'
    BY <1>0, <1>1, <1>2, <1>5, <1>6, <1>7 DEF RowInv, UnboundInv, Live, NoRow, Mapped
  <1>15. CleanInv'
    BY <1>0, <1>1, <1>5, <1>6, <1>7 DEF CleanInv, UnboundInv, NoRow, NoMapping, Mapped, Pending
  <1> QED
    BY <1>11, <1>12, <1>13, <1>14, <1>15

\* Creating, editing and deleting an event here are edits in that sense.
LEMMA UserEdits ==
    ASSUME SyncInv, TypeOK', NEW e \in Events
    PROVE  /\ CreateLocal(e) \/ EditLocal(e) => LocalEdit(e, "upsert")
           /\ DeleteLocal(e) => LocalEdit(e, "delete")
  <1>0. TypeOK /\ TypeOK'
    BY DEF SyncInv
  <1>1. ASSUME CreateLocal(e) \/ EditLocal(e)
        PROVE  LocalEdit(e, "upsert")
    <2> DEFINE new == local'[e]
    <2>1. new \in LocalEvent /\ local \in [Events -> LocalEvent]
      BY <1>0 DEF TypeOK
    <2>2. CASE CreateLocal(e)
      BY <2>1, <2>2 DEF CreateLocal, LocalEdit
    <2>3. CASE EditLocal(e)
      <3>1. local' = [local EXCEPT ![e] = [local[e] EXCEPT !.val = Now, !.at = Now]]
        BY <2>3 DEF EditLocal
      <3>2. new.status = "live"
        BY <2>1, <2>3, <3>1 DEF EditLocal, Live, LocalEvent
      <3> QED
        BY <2>1, <2>3, <3>1, <3>2 DEF EditLocal, LocalEdit
    <2> QED
      BY <1>1, <2>2, <2>3
  <1>2. ASSUME DeleteLocal(e)
        PROVE  LocalEdit(e, "delete")
    <2> DEFINE new == local'[e]
    <2>1. new \in LocalEvent /\ local \in [Events -> LocalEvent]
      BY <1>0 DEF TypeOK
    <2>2. local' = [local EXCEPT ![e] = [local[e] EXCEPT !.status = "trashed", !.at = Now]]
      BY <1>2 DEF DeleteLocal
    <2>3. new.status = "trashed" /\ new.val = local[e].val
      BY <2>1, <2>2 DEF LocalEvent
    <2> QED
      BY <1>2, <2>1, <2>2, <2>3 DEF DeleteLocal, LocalEdit
  <1> QED
    BY <1>1, <1>2

LEMMA UserInv ==
    ASSUME SyncInv, UserStep
    PROVE  (UnboundInv /\ PushInv /\ RemoteInv /\ MapInv /\ RowInv /\ CleanInv)'
  <1>0. TypeOK /\ UnboundInv /\ PushInv /\ RemoteInv /\ MapInv /\ RowInv /\ CleanInv /\ TypeOK'
    BY UserTyped DEF SyncInv
  <1>3. ASSUME NEW e \in Events, RestoreLocal(e)
        PROVE  (UnboundInv /\ PushInv /\ RemoteInv /\ MapInv /\ RowInv /\ CleanInv)'
    <2>1. /\ UNCHANGED <<remote, mapping, outbox, binding, pull, push, gaveUp>>
          /\ push.event # e
      BY <1>3 DEF RestoreLocal, LocalStep, CanEdit
    <2>2. /\ \A x \in Events : x # e => local'[x] = local[x]
          /\ local'[e].status = "live" /\ local'[e].val = local[e].val
      BY <1>0, <1>3 DEF RestoreLocal, TypeOK, LocalEvent
    <2>3. UnboundInv' /\ RemoteInv' /\ MapInv'
      BY <1>0, <2>1 DEF UnboundInv, RemoteInv, MapInv, Mapped
    <2>4. PushInv'
      BY <1>0, <2>1, <2>2 DEF PushInv, Pending, Open, Applying, Upsert, Live, RemoteId, Mapped
    <2>5. RowInv' /\ CleanInv'
      BY <1>0, <2>1, <2>2 DEF RowInv, CleanInv, Live, Mapped, Pending
    <2> QED
      BY <2>3, <2>4, <2>5
  <1>4. ASSUME NEW r \in Remotes, RemoteCreate(r) \/ RemoteEdit(r) \/ RemoteDelete(r)
        PROVE  (UnboundInv /\ PushInv /\ RemoteInv /\ MapInv /\ RowInv /\ CleanInv)'
    <2>1. UNCHANGED <<local, mapping, outbox, binding, pull, push, gaveUp>>
      BY <1>4 DEF RemoteCreate, RemoteEdit, RemoteDelete, RemoteStep
    <2>2. /\ \A x \in Remotes : x # r => remote'[x] = remote[x]
          /\ remote'[r].status # "absent"
      <3>0. remote \in [Remotes -> RemoteEvent]
        BY <1>0 DEF TypeOK
      <3>1. CASE RemoteCreate(r)
        BY <3>0, <3>1 DEF RemoteCreate
      <3>2. CASE RemoteEdit(r)
        BY <3>0, <3>2 DEF RemoteEdit, RemoteEvent
      <3>3. CASE RemoteDelete(r)
        BY <3>0, <3>3 DEF RemoteDelete, RemoteEvent
      <3> QED
        BY <1>4, <3>1, <3>2, <3>3
    <2>3. RemoteInv'
      <3>1. \A x \in Remotes : remote[x].status # "absent" => remote'[x].status # "absent"
        BY <2>2
      <3>2. \A x \in Remotes : remote'[x].status = "absent" => remote'[x] = NoRemote
        BY <1>0, <2>2 DEF RemoteInv
      <3>3. \A e \in Events : mapping[e].rid \in Remotes \cup {None}
        BY <1>0 DEF TypeOK, Mapping
      <3>4. \A p \in Pullers : \A it \in pull[p].items : it.rid \in Remotes
        BY <1>0 DEF TypeOK, PullJob, Item
      <3> QED
        BY <1>0, <2>1, <3>1, <3>2, <3>3, <3>4 DEF RemoteInv, Mapped
    <2> QED
      BY <1>0, <2>1, <2>3 DEF UnboundInv, PushInv, MapInv, RowInv, CleanInv,
         Mapped, Pending, Open, Applying, Upsert, Live, RemoteId
  <1>5. CASE Bind
    <2>1. /\ \A e \in Events : mapping[e] = NoMapping
          /\ UNCHANGED <<local, remote, mapping, pull, push>> /\ binding'.bound
          /\ push.phase = "idle"
      BY <1>0, <1>5 DEF Bind, UnboundInv, TypeOK, LockFree
    <2>2. \A e \in Events : outbox'[e] = IF Live(e) THEN [NoRow EXCEPT !.op = "upsert"] ELSE NoRow
      BY <1>5 DEF Bind
    <2>3. UnboundInv' /\ RemoteInv' /\ MapInv' /\ PushInv'
      BY <1>0, <2>1 DEF UnboundInv, RemoteInv, MapInv, PushInv, Mapped, IdlePush
    <2>4. RowInv' /\ CleanInv'
      BY <2>1, <2>2 DEF RowInv, CleanInv, Live, Mapped, NoRow, NoMapping
    <2> QED
      BY <2>3, <2>4
  <1>6. CASE Unbind
    <2>1. /\ \A e \in Events : mapping'[e] = NoMapping /\ outbox'[e] = NoRow
          /\ \A p \in Pullers : pull'[p] = IdlePull
          /\ UNCHANGED <<local, remote, push>> /\ push = IdlePush
      BY <1>0, <1>6 DEF Unbind, LockFree, PushInv
    <2>2. UnboundInv' /\ MapInv' /\ PushInv'
      BY <2>1 DEF UnboundInv, MapInv, PushInv, Mapped, NoMapping, IdlePush
    <2>3. RemoteInv'
      BY <1>0, <2>1 DEF RemoteInv, Mapped, NoMapping, IdlePull
    <2>4. RowInv' /\ CleanInv'
      BY <2>1 DEF RowInv, CleanInv, Mapped, NoRow, NoMapping
    <2> QED
      BY <2>2, <2>3, <2>4
  <1> QED
    BY <1>0, <1>3, <1>4, <1>5, <1>6, UserEdits, LocalEditInv DEF UserStep

\* Steps that write no table.
LEMMA TablesKept ==
    ASSUME SyncInv, UNCHANGED <<local, remote, mapping, outbox, gaveUp>>
    PROVE  /\ MapInv' /\ RowInv' /\ CleanInv'
           /\ (\A p \in Pullers : \A it \in pull'[p].items : remote[it.rid].status # "absent") => RemoteInv'
  BY DEF SyncInv, MapInv, RowInv, CleanInv, RemoteInv, Mapped, Pending, Live

\* removeLocal leaves rows and mappings in order.
LEMMA RemoveInv ==
    ASSUME SyncInv, NEW S, RemoveLocal(S), UNCHANGED <<remote, gaveUp>>
    PROVE  /\ MapInv' /\ RowInv' /\ CleanInv'
           /\ \A e \in Events : Mapped(e)' => Mapped(e) /\ mapping'[e] = mapping[e]
  <1>0. TypeOK /\ MapInv /\ RowInv /\ CleanInv
    BY DEF SyncInv
  <1>1. \A e \in Events :
          /\ e \in S => mapping'[e] = NoMapping /\ outbox'[e] = NoRow
          /\ e \notin S => mapping'[e] = mapping[e] /\ outbox'[e] = outbox[e] /\ local'[e] = local[e]
    BY DEF RemoveLocal
  <1>2. MapInv'
    BY <1>0, <1>1 DEF MapInv, Mapped, NoMapping
  <1>3. RowInv' /\ CleanInv'
    BY <1>0, <1>1 DEF RowInv, CleanInv, Mapped, NoMapping, NoRow, Pending, Live
  <1> QED
    BY <1>1, <1>2, <1>3 DEF Mapped, NoMapping

\* SaveMapping, with the content of the event in it.
LEMMA SaveInv ==
    ASSUME SyncInv, NEW e \in Events, NEW it, it.rid \in Remotes, NEW val,
           mapping' = SaveMapping(e, it, val),
           local'[e].status = "live", local'[e].val = val,
           \A x \in Events : x # e => local'[x] = local[x],
           \A x \in Owners(it.rid) : x # e => outbox[x] = NoRow,
           \A x \in Events : x # e => outbox'[x] = outbox[x],
           outbox'[e] = NoRow \/ (outbox'[e] = outbox[e] /\ outbox[e].rid = None),
           UNCHANGED gaveUp
    PROVE  /\ MapInv' /\ RowInv' /\ CleanInv'
           /\ mapping'[e].rid = it.rid
           /\ \A x \in Events : x # e /\ Mapped(x)' => Mapped(x) /\ mapping'[x] = mapping[x]
  <1>0. TypeOK /\ MapInv /\ RowInv /\ CleanInv
    BY DEF SyncInv
  <1>1. mapping'[e] = MapTo(it, val) /\ mapping'[e].rid = it.rid /\ mapping'[e].val = val
    BY DEF SaveMapping, MapTo
  <1>2. ASSUME NEW x \in Events, x # e
        PROVE  \/ mapping[x].rid = it.rid /\ mapping'[x] = NoMapping /\ outbox'[x] = NoRow
               \/ mapping[x].rid # it.rid /\ mapping'[x] = mapping[x]
    BY <1>2 DEF SaveMapping, Owners
  <1>3. MapInv'
    BY <1>0, <1>1, <1>2 DEF MapInv, Mapped, NoMapping
  <1>4. RowInv'
    BY <1>0, <1>1, <1>2 DEF RowInv, Mapped, NoMapping, NoRow, Live
  <1>5. CleanInv'
    BY <1>0, <1>1, <1>2 DEF CleanInv, Mapped, NoMapping, Pending
  <1> QED
    BY <1>1, <1>2, <1>3, <1>4, <1>5 DEF Mapped, NoMapping

\* Owners of a Google event without a match have no row.
LEMMA UnmatchedIdle ==
    ASSUME SyncInv, NEW r \in Remotes, Unmatched(r), NEW x \in Owners(r)
    PROVE  outbox[x] = NoRow
  <1>1. x \in Events /\ outbox[x] \in OutboxRow /\ ~Live(x) /\ ~Deleting(x)
    BY DEF SyncInv, TypeOK, Unmatched, Owners
  <1> QED
    BY <1>1 DEF SyncInv, RowInv, Deleting, OutboxRow

\* While a pull is in its transaction no push works and the calendar is bound.
LEMMA ApplyingAlone ==
    ASSUME SyncInv, NEW p \in Pullers, Applying(p)
    PROVE  push = IdlePush /\ binding.bound
  BY DEF SyncInv, PushInv, UnboundInv, Open, Applying, IdlePull

\* What stays at Google and in the listings while an item is applied.
LEMMA RemoteKept ==
    ASSUME SyncInv, UNCHANGED remote,
           \A p \in Pullers : pull'[p].items \subseteq pull[p].items,
           \A e \in Events : Mapped(e)' => \/ Mapped(e) /\ mapping'[e] = mapping[e]
                                           \/ remote[mapping'[e].rid].status # "absent"
    PROVE  RemoteInv'
  BY DEF SyncInv, RemoteInv, Mapped

LEMMA PullInv ==
    ASSUME SyncInv, NEW p \in Pullers, PullFetches(p) \/ PullWork(p) \/ PullTrouble(p)
    PROVE  (UnboundInv /\ PushInv /\ RemoteInv /\ MapInv /\ RowInv /\ CleanInv)'
  <1>0. TypeOK /\ UnboundInv /\ PushInv /\ RemoteInv /\ MapInv /\ RowInv /\ CleanInv
        /\ pull \in [Pullers -> PullJob]
    BY DEF SyncInv, TypeOK
  <1>1. ASSUME NEW R \in SUBSET Remotes, NEW full, Fetched(p, R, full),
               \A r \in R : remote[r].status # "absent"
        PROVE  (UnboundInv /\ PushInv /\ RemoteInv /\ MapInv /\ RowInv /\ CleanInv)'
    <2>1. UNCHANGED <<local, remote, mapping, outbox, binding, push, gaveUp>> /\ binding.bound
      BY <1>1 DEF Fetched, Active
    <2>2. /\ pull'[p].phase = "fetched" /\ pull'[p].items = Items(R)
          /\ \A q \in Pullers : q # p => pull'[q] = pull[q]
      BY <1>0, <1>1 DEF Fetched
    <2>3. \A q \in Pullers : \A it \in pull'[q].items : remote[it.rid].status # "absent"
      BY <1>0, <1>1, <2>2 DEF Items, RemoteInv
    <2>4. UnboundInv' /\ PushInv'
      BY <1>0, <2>1, <2>2 DEF UnboundInv, PushInv, Pending, Open, Applying, Upsert, Live, RemoteId, Mapped
    <2> QED
      BY <2>1, <2>3, <2>4, TablesKept
  <1>2. CASE PullFetch(p)
    <2>1. \A r \in Changed(binding.token) : remote[r].status # "absent"
      BY <1>0 DEF Changed, RemoteInv, NoRemote, TypeOK
    <2> QED
      BY <1>1, <1>2, <2>1 DEF PullFetch, Changed
  <1>3. CASE PullFetchFull(p)
    <2>1. PICK R \in SUBSET Cancelled : Fetched(p, LiveRemotes \cup R, TRUE)
      BY <1>3 DEF PullFetchFull
    <2>2. LiveRemotes \cup R \in SUBSET Remotes /\ \A r \in LiveRemotes \cup R : remote[r].status # "absent"
      BY DEF LiveRemotes, Cancelled
    <2> QED
      BY <1>1, <2>1, <2>2
  <1>4. CASE PullBegin(p)
    <2>1. /\ UNCHANGED <<local, remote, mapping, outbox, binding, push, gaveUp>>
          /\ push = IdlePush /\ pull[p].phase = "fetched"
          /\ \A q \in Pullers : pull'[q].items = pull[q].items
      BY <1>0, <1>4 DEF PullBegin, LockFree, PushInv, PullJob
    <2>2. UnboundInv' /\ PushInv'
      BY <1>0, <2>1 DEF UnboundInv, PushInv, IdlePull, IdlePush
    <2>3. RemoteInv'
      BY <1>0, <2>1 DEF RemoteInv, Mapped
    <2> QED
      BY <2>1, <2>2, <2>3, TablesKept
  <1>5. CASE PullSave(p) \/ PullFail(p) \/ PullCrash(p) \/ PullRevoked(p)
    <2>1. /\ UNCHANGED <<local, remote, mapping, outbox, push, gaveUp>>
          /\ binding'.bound = binding.bound
      BY <1>0, <1>5 DEF PullSave, PullFail, PullCrash, PullRevoked, TypeOK
    <2>2. \A q \in Pullers : pull'[q] = pull[q] \/ pull'[q] = IdlePull
      BY <1>0, <1>5 DEF PullSave, PullFail, PullCrash, PullRevoked
    <2>3. UnboundInv'
      BY <1>0, <2>1, <2>2 DEF UnboundInv
    <2>4. PushInv'
      BY <1>0, <2>1, <2>2
      DEF PushInv, Pending, Open, Applying, Upsert, Live, RemoteId, Mapped, IdlePull
    <2>5. RemoteInv'
      BY <1>0, <2>1, <2>2 DEF RemoteInv, Mapped, IdlePull
    <2> QED
      BY <2>1, <2>3, <2>4, <2>5, TablesKept
  <1>6. ASSUME Applying(p), UNCHANGED <<binding, push>>
        PROVE  UnboundInv' /\ PushInv'
    BY <1>6, ApplyingAlone DEF UnboundInv, PushInv, IdlePush
  <1>7. ASSUME NEW it, Takes(p, it)
        PROVE  /\ UnboundInv' /\ PushInv' /\ it.rid \in Remotes /\ UNCHANGED <<remote, gaveUp>>
               /\ remote[it.rid].status # "absent"
               /\ \A q \in Pullers : pull'[q].items \subseteq pull[q].items
    <2>1. \A q \in Pullers : pull'[q].items \subseteq pull[q].items
      BY <1>0, <1>7 DEF Takes, PullJob
    <2> QED
      BY <1>0, <1>6, <1>7, <2>1, ItemTyped DEF Takes, RemoteInv
  <1>8. CASE PullCommit(p)
    <2>1. \A q \in Pullers : pull'[q].items \subseteq pull[q].items
      BY <1>0, <1>8 DEF PullCommit, PullJob
    <2>2. UnboundInv' /\ PushInv' /\ RemoveLocal(Unlisted(p)) /\ UNCHANGED <<remote, gaveUp>>
      BY <1>6, <1>8 DEF PullCommit
    <2> QED
      BY <2>1, <2>2, RemoveInv, RemoteKept
  <1>9. ASSUME NEW it \in pull[p].items, PullCancelled(p, it)
        PROVE  (UnboundInv /\ PushInv /\ RemoteInv /\ MapInv /\ RowInv /\ CleanInv)'
    BY <1>7, <1>9, RemoveInv, RemoteKept DEF PullCancelled
  <1>10. ASSUME NEW it, NEW e \in Events, Takes(p, it), MapInv', RowInv', CleanInv',
                mapping'[e].rid = it.rid,
                \A x \in Events : x # e /\ Mapped(x)' => Mapped(x) /\ mapping'[x] = mapping[x]
         PROVE  (UnboundInv /\ PushInv /\ RemoteInv /\ MapInv /\ RowInv /\ CleanInv)'
    BY <1>7, <1>10, RemoteKept
  <1>11. ASSUME NEW it \in pull[p].items, NEW e \in Events, PullAdopt(p, it, e)
         PROVE  (UnboundInv /\ PushInv /\ RemoteInv /\ MapInv /\ RowInv /\ CleanInv)'
    <2>1. /\ Takes(p, it) /\ Unmatched(it.rid) /\ mapping' = SaveMapping(e, it, it.event.val)
          /\ outbox' = outbox /\ Live(e) /\ ~Mapped(e)
      BY <1>11 DEF PullAdopt, Adoptable
    <2>2. it.rid \in Remotes /\ UNCHANGED gaveUp
      BY <1>7, <2>1
    <2>3. /\ local'[e].status = "live" /\ local'[e].val = it.event.val
          /\ \A x \in Events : x # e => local'[x] = local[x]
      BY <1>0, <1>11, <2>1 DEF PullAdopt, Live, TypeOK, LocalEvent
    <2>4. outbox[e].rid = None
      BY <1>0, <2>1 DEF RowInv, Mapped
    <2>5. \A x \in Owners(it.rid) : outbox[x] = NoRow
      BY <2>1, <2>2, UnmatchedIdle
    <2> QED
      BY <1>10, <2>1, <2>2, <2>3, <2>4, <2>5, SaveInv
  <1>12. ASSUME NEW it \in pull[p].items, NEW e \in Events, PullCreate(p, it, e)
         PROVE  (UnboundInv /\ PushInv /\ RemoteInv /\ MapInv /\ RowInv /\ CleanInv)'
    <2>1. /\ Takes(p, it) /\ Unmatched(it.rid) /\ mapping' = SaveMapping(e, it, it.event.val)
          /\ outbox' = outbox /\ local[e] = NoLocal
      BY <1>12 DEF PullCreate
    <2>2. it.rid \in Remotes /\ UNCHANGED gaveUp
      BY <1>7, <2>1
    <2>3. /\ local'[e].status = "live" /\ local'[e].val = it.event.val
          /\ \A x \in Events : x # e => local'[x] = local[x]
      BY <1>0, <1>12 DEF PullCreate, TypeOK
    <2>4. outbox[e].rid = None
      BY <1>0, <2>1 DEF RowInv, Mapped, NoLocal
    <2>5. \A x \in Owners(it.rid) : outbox[x] = NoRow
      BY <2>1, <2>2, UnmatchedIdle
    <2> QED
      BY <1>10, <2>1, <2>2, <2>3, <2>4, <2>5, SaveInv
  <1>13. ASSUME NEW it \in pull[p].items, NEW e \in Events, PullKeep(p, it, e)
         PROVE  (UnboundInv /\ PushInv /\ RemoteInv /\ MapInv /\ RowInv /\ CleanInv)'
    <2>1. Takes(p, it) /\ UNCHANGED <<local, mapping, outbox>>
      BY <1>13 DEF PullKeep
    <2>2. UnboundInv' /\ PushInv' /\ UNCHANGED <<remote, gaveUp>>
          /\ \A q \in Pullers : pull'[q].items \subseteq pull[q].items
      BY <1>7, <2>1
    <2>3. RemoteInv'
      BY <2>1, <2>2, RemoteKept DEF Mapped
    <2> QED
      BY <2>1, <2>2, <2>3, TablesKept
  <1>14. ASSUME NEW it \in pull[p].items, NEW e \in Events, PullUpdate(p, it, e)
         PROVE  (UnboundInv /\ PushInv /\ RemoteInv /\ MapInv /\ RowInv /\ CleanInv)'
    <2>1. Takes(p, it) /\ e \in Owners(it.rid) /\ Live(e) /\ TakeRemote(e, it)
      BY <1>14 DEF PullUpdate
    <2>2. it.rid \in Remotes /\ UNCHANGED gaveUp
      BY <1>7, <2>1
    <2>3. /\ local'[e].status = "live" /\ local'[e].val = it.event.val
          /\ \A x \in Events : x # e => local'[x] = local[x]
      BY <1>0, <2>1 DEF TakeRemote, Live, TypeOK, LocalEvent
    <2>4. outbox'[e] = NoRow /\ \A x \in Events : x # e => outbox'[x] = outbox[x]
      BY <1>0, <2>1 DEF TakeRemote, TypeOK
    <2>5. \A x \in Owners(it.rid) : x = e
      BY <1>0, <2>1, <2>2 DEF MapInv, Owners, Mapped
    <2>6. mapping' = SaveMapping(e, it, it.event.val)
      BY <2>1 DEF TakeRemote
    <2> QED
      BY <1>10, <2>1, <2>2, <2>3, <2>4, <2>5, <2>6, SaveInv
  <1> QED
    BY <1>2, <1>3, <1>4, <1>5, <1>8, <1>9, <1>11, <1>12, <1>13, <1>14
    DEF PullFetches, PullWork, PullTrouble

\* A push that ends, however it ends, leaves the binding and no job.
LEMMA PushEnds ==
    ASSUME SyncInv, push.phase # "idle", push' = IdlePush, UNCHANGED pull, binding'.bound = binding.bound
    PROVE  UnboundInv' /\ PushInv' /\ binding.bound
  BY DEF SyncInv, UnboundInv, PushInv, IdlePush

\* A row that is tried again or given up, or a rolled back transaction.
LEMMA RetryInv ==
    ASSUME SyncInv, NEW e \in Events, push.phase # "idle", push.event = e,
           Retry(e) \/ UNCHANGED <<outbox, gaveUp>>, UNCHANGED <<local, mapping>>
    PROVE  MapInv' /\ RowInv' /\ CleanInv'
  <1>0. TypeOK /\ MapInv /\ RowInv /\ CleanInv /\ outbox \in [Events -> OutboxRow] /\ Pending(e)
    BY DEF SyncInv, TypeOK, PushInv
  <1>1. /\ \A x \in Events : x # e => outbox'[x] = outbox[x]
        /\ \/ outbox'[e] = NoRow /\ gaveUp' = gaveUp \cup {e}
           \/ outbox'[e].op = outbox[e].op /\ outbox'[e].rid = outbox[e].rid /\ gaveUp' = gaveUp
    <2>1. CASE UNCHANGED <<outbox, gaveUp>>
      BY <2>1
    <2>2. CASE Retry(e) /\ outbox[e].tries + 1 >= MaxTries
      BY <1>0, <2>2 DEF Retry
    <2>3. CASE Retry(e) /\ ~(outbox[e].tries + 1 >= MaxTries)
      <3>1. outbox[e] \in OutboxRow
        BY <1>0
      <3>2. outbox' = [outbox EXCEPT ![e] = [outbox[e] EXCEPT !.tries = @ + 1]] /\ gaveUp' = gaveUp
        BY <2>3 DEF Retry
      <3> QED
        BY <1>0, <3>1, <3>2 DEF OutboxRow
    <2> QED
      BY <2>1, <2>2, <2>3
  <1>2. MapInv'
    BY <1>0 DEF MapInv, Mapped
  <1>3. RowInv'
    BY <1>0, <1>1 DEF RowInv, Mapped, Live, NoRow, Pending
  <1>4. CleanInv'
    BY <1>0, <1>1 DEF CleanInv, Mapped, Pending
  <1> QED
    BY <1>2, <1>3, <1>4

\* The row of an event knows Google's copy only through the mapping.
LEMMA RemoteIdMapped ==
    ASSUME SyncInv, NEW e \in Events, RemoteId(e) # None
    PROVE  Mapped(e) /\ RemoteId(e) = mapping[e].rid /\ RemoteId(e) \in Remotes
  BY DEF SyncInv, RowInv, RemoteId, Mapped, TypeOK, Mapping

\* Google writes an event: what was there stays there, if only as a deleted one.
LEMMA RemoteWritten ==
    ASSUME SyncInv, NEW r \in Remotes, UNCHANGED pull,
           \A x \in Remotes : x # r => remote'[x] = remote[x],
           remote'[r].status # "absent",
           \A x \in Events : Mapped(x)' => (Mapped(x) /\ mapping'[x] = mapping[x]) \/ mapping'[x].rid = r
    PROVE  RemoteInv'
  <1>1. \A x \in Remotes : remote[x].status # "absent" => remote'[x].status # "absent"
    OBVIOUS
  <1>2. \A x \in Remotes : remote'[x].status = "absent" => remote'[x] = NoRemote
    BY DEF SyncInv, RemoteInv
  <1>3. \A e \in Events : mapping[e].rid \in Remotes \cup {None}
    BY DEF SyncInv, TypeOK, Mapping
  <1>4. \A p \in Pullers : \A it \in pull[p].items : it.rid \in Remotes
    BY DEF SyncInv, TypeOK, PullJob, Item
  <1> QED
    BY <1>1, <1>2, <1>3, <1>4 DEF SyncInv, RemoteInv, Mapped

\* A push writes an event at Google and hears of it, or not.
LEMMA WriteInv ==
    ASSUME SyncInv, NEW e \in Events, push.phase # "idle", push.event = e, Upsert(e),
           NEW r \in Remotes, NEW answered \in BOOLEAN, Write(e, r, answered),
           Owners(r) \subseteq {e}
    PROVE  (UnboundInv /\ PushInv /\ RemoteInv /\ MapInv /\ RowInv /\ CleanInv)'
  <1> DEFINE it == [rid |-> r, event |-> Sent(e)]
  <1>1. /\ remote' = [remote EXCEPT ![r] = Sent(e)]
        /\ Answer(e, answered, SaveMapping(e, it, local[e].val))
    BY DEF Write
  <1>2. push' = IdlePush /\ UNCHANGED <<local, binding, pull>>
    BY <1>1 DEF Answer
  <1>3. UnboundInv' /\ PushInv'
    BY <1>2, PushEnds
  <1>4. (\A x \in Remotes : x # r => remote'[x] = remote[x]) /\ remote'[r].status # "absent"
    BY <1>1 DEF SyncInv, TypeOK, Sent
  <1>5. CASE answered
    <2>1. /\ mapping' = SaveMapping(e, it, local[e].val) /\ UNCHANGED gaveUp
          /\ outbox' = [outbox EXCEPT ![e] = NoRow]
      BY <1>1, <1>5 DEF Answer, Finish
    <2>2. it.rid = r /\ it.rid \in Remotes
      OBVIOUS
    <2>3. outbox'[e] = NoRow /\ \A x \in Events : x # e => outbox'[x] = outbox[x]
      BY <2>1 DEF SyncInv, TypeOK
    <2>4. local'[e].status = "live" /\ local'[e].val = local[e].val
          /\ \A x \in Events : x # e => local'[x] = local[x]
      BY <1>2 DEF Upsert, Live
    <2> HIDE DEF it
    <2>5. /\ MapInv' /\ RowInv' /\ CleanInv' /\ mapping'[e].rid = it.rid
          /\ \A x \in Events : x # e /\ Mapped(x)' => Mapped(x) /\ mapping'[x] = mapping[x]
      BY <2>1, <2>2, <2>3, <2>4, SaveInv
    <2>6. RemoteInv'
      BY <1>2, <1>4, <2>2, <2>5, RemoteWritten
    <2> QED
      BY <1>3, <2>5, <2>6
  <1>6. CASE ~answered
    <2>1. UNCHANGED mapping /\ (Retry(e) \/ UNCHANGED <<outbox, gaveUp>>)
      BY <1>1, <1>6 DEF Answer, Unanswered
    <2>2. RemoteInv'
      BY <1>2, <1>4, <2>1, RemoteWritten DEF Mapped
    <2> QED
      BY <1>2, <1>3, <2>1, <2>2, RetryInv
  <1> QED
    BY <1>5, <1>6

\* Steps of the push job.
LEMMA PushStepInv ==
    ASSUME SyncInv, NEW e \in Events, PushClaim(e) \/ PushWork(e) \/ PushTrouble(e)
    PROVE  (UnboundInv /\ PushInv /\ RemoteInv /\ MapInv /\ RowInv /\ CleanInv)'
  <1>0. TypeOK /\ UnboundInv /\ PushInv /\ RemoteInv /\ MapInv /\ RowInv /\ CleanInv
    BY DEF SyncInv
  <1>1. CASE PushClaim(e)
    <2>1. /\ UNCHANGED <<local, remote, mapping, outbox, binding, pull, gaveUp>>
          /\ push' = [phase |-> "call", event |-> e] /\ binding.bound /\ Pending(e) /\ Open
      BY <1>1 DEF PushClaim, LockFree, Active
    <2>2. UnboundInv' /\ PushInv'
      BY <2>1 DEF UnboundInv, PushInv, Pending, Open, Applying
    <2> QED
      BY <1>0, <2>1, <2>2, TablesKept DEF RemoteInv
  <1>2. ASSUME push.phase # "idle", Upsert(e), push.event = e, RemoteId(e) # None,
               NEW answered \in BOOLEAN, Write(e, RemoteId(e), answered)
        PROVE  (UnboundInv /\ PushInv /\ RemoteInv /\ MapInv /\ RowInv /\ CleanInv)'
    <2>1. RemoteId(e) \in Remotes /\ Owners(RemoteId(e)) \subseteq {e}
      BY <1>0, <1>2, RemoteIdMapped DEF MapInv, Owners
    <2> QED
      BY <1>2, <2>1, WriteInv
  <1>3. ASSUME NEW answered \in BOOLEAN, PushPatch(e, answered)
        PROVE  (UnboundInv /\ PushInv /\ RemoteInv /\ MapInv /\ RowInv /\ CleanInv)'
    BY <1>2, <1>3 DEF PushPatch, Sending
  <1>4. ASSUME NEW answered \in BOOLEAN, PushForce(e, answered)
        PROVE  (UnboundInv /\ PushInv /\ RemoteInv /\ MapInv /\ RowInv /\ CleanInv)'
    BY <1>0, <1>2, <1>4 DEF PushForce, Sending, PushInv
  <1>5. ASSUME NEW answered \in BOOLEAN, NEW r \in Remotes, PushInsert(e, r, answered)
        PROVE  (UnboundInv /\ PushInv /\ RemoteInv /\ MapInv /\ RowInv /\ CleanInv)'
    <2>1. Owners(r) \subseteq {e}
      BY <1>0, <1>5 DEF PushInsert, RemoteInv, Owners, Mapped, NoRemote
    <2> QED
      BY <1>5, <2>1, WriteInv DEF PushInsert, Sending
  <1>6. ASSUME NEW answered \in BOOLEAN, PushDelete(e, answered)
        PROVE  (UnboundInv /\ PushInv /\ RemoteInv /\ MapInv /\ RowInv /\ CleanInv)'
    <2>1. /\ push.phase # "idle" /\ push.event = e
          /\ push' = IdlePush /\ UNCHANGED <<local, binding, pull>>
          /\ Answer(e, answered, [mapping EXCEPT ![e] = NoMapping])
      BY <1>6 DEF PushDelete, Sending, Answer
    <2>2. UnboundInv' /\ PushInv'
      BY <2>1, PushEnds
    <2>3. /\ MapInv' /\ RowInv' /\ CleanInv'
          /\ \A x \in Events : Mapped(x)' => Mapped(x) /\ mapping'[x] = mapping[x]
      <3>1. CASE answered
        <4>1. /\ mapping' = [mapping EXCEPT ![e] = NoMapping] /\ UNCHANGED <<gaveUp, local>>
              /\ outbox' = [outbox EXCEPT ![e] = NoRow]
          BY <2>1, <3>1 DEF Answer, Finish
        <4>2. /\ mapping'[e] = NoMapping /\ outbox'[e] = NoRow
              /\ \A x \in Events : x # e => mapping'[x] = mapping[x] /\ outbox'[x] = outbox[x]
          BY <1>0, <4>1 DEF TypeOK
        <4>3. MapInv' /\ RowInv' /\ CleanInv'
          BY <1>0, <4>1, <4>2 DEF MapInv, RowInv, CleanInv, Mapped, Pending, Live, NoMapping, NoRow
        <4> QED
          BY <4>2, <4>3 DEF Mapped, NoMapping
      <3>2. CASE ~answered
        <4>1. UNCHANGED mapping /\ (Retry(e) \/ UNCHANGED <<outbox, gaveUp>>)
          BY <2>1, <3>2 DEF Answer, Unanswered
        <4> QED
          BY <2>1, <4>1, RetryInv DEF Mapped
      <3> QED
        BY <3>1, <3>2
    <2>4. CASE UNCHANGED remote
      BY <2>1, <2>2, <2>3, <2>4, RemoteKept
    <2>5. CASE RemoteId(e) # None /\ remote' = [remote EXCEPT ![RemoteId(e)].status = "cancelled",
                                    ![RemoteId(e)].val = local[e].at, ![RemoteId(e)].at = Now]
      <3>1. RemoteId(e) \in Remotes
        BY <2>5, RemoteIdMapped
      <3>2. /\ \A x \in Remotes : x # RemoteId(e) => remote'[x] = remote[x]
            /\ remote'[RemoteId(e)].status # "absent"
        BY <1>0, <2>5, <3>1 DEF TypeOK, RemoteEvent
      <3> QED
        BY <2>1, <2>2, <2>3, <3>1, <3>2, RemoteWritten
    <2> QED
      BY <1>6, <2>4, <2>5 DEF PushDelete
  <1>7. CASE PushLoses(e)
    <2> DEFINE it == [rid |-> RemoteId(e), event |-> remote[RemoteId(e)]]
    <2>1. /\ TakeRemote(e, it) /\ push' = IdlePush /\ UNCHANGED <<remote, binding, pull, gaveUp>>
          /\ push.phase # "idle" /\ Live(e) /\ RemoteId(e) # None
      BY <1>7 DEF PushLoses, Mismatch, Sending, Upsert
    <2>2. UnboundInv' /\ PushInv'
      BY <2>1, PushEnds
    <2>3. it.rid = mapping[e].rid /\ it.rid \in Remotes /\ Mapped(e)
      BY <2>1, RemoteIdMapped
    <2> HIDE DEF it
    <2>4. /\ local'[e].status = "live" /\ local'[e].val = it.event.val
          /\ \A x \in Events : x # e => local'[x] = local[x]
      BY <1>0, <2>1 DEF TakeRemote, Live, TypeOK, LocalEvent
    <2>5. outbox'[e] = NoRow /\ \A x \in Events : x # e => outbox'[x] = outbox[x]
      BY <1>0, <2>1 DEF TakeRemote, TypeOK
    <2>6. \A x \in Owners(it.rid) : x = e
      BY <1>0, <2>3 DEF MapInv, Owners, Mapped
    <2>7. mapping' = SaveMapping(e, it, it.event.val)
      BY <2>1 DEF TakeRemote
    <2>8. /\ MapInv' /\ RowInv' /\ CleanInv' /\ mapping'[e].rid = it.rid
          /\ \A x \in Events : x # e /\ Mapped(x)' => Mapped(x) /\ mapping'[x] = mapping[x]
      BY <2>1, <2>3, <2>4, <2>5, <2>6, <2>7, SaveInv
    <2>9. remote[it.rid].status # "absent"
      BY <1>0, <2>3 DEF RemoteInv
    <2>10. RemoteInv'
      BY <2>1, <2>8, <2>9, RemoteKept
    <2> QED
      BY <2>2, <2>8, <2>10
  <1>8. CASE PushInsists(e)
    <2>1. /\ UNCHANGED <<local, remote, mapping, outbox, binding, pull, gaveUp>>
          /\ push.phase # "idle" /\ push.event = e /\ Upsert(e) /\ RemoteId(e) # None
          /\ push'.phase = "force" /\ push'.event = e
      BY <1>0, <1>8 DEF PushInsists, Mismatch, Sending, TypeOK, PushJob
    <2>2. PushInv'
      BY <1>0, <2>1 DEF PushInv, Pending, Open, Applying, Upsert, Live, RemoteId, Mapped
    <2>3. UnboundInv'
      BY <1>0, <2>1 DEF UnboundInv, IdlePush
    <2> QED
      BY <1>0, <2>1, <2>2, <2>3, TablesKept DEF RemoteInv
  <1>9. CASE PushError(e)
    <2>1. /\ push.phase # "idle" /\ push.event = e /\ push' = IdlePush /\ Retry(e)
          /\ UNCHANGED <<local, remote, mapping, binding, pull>>
      BY <1>0, <1>9 DEF PushError, PushInv, IdlePush
    <2> QED
      BY <2>1, PushEnds, RetryInv, RemoteKept DEF Mapped
  <1>10. ASSUME NEW account \in {"ok", "revoked"}, PushAbort(e, account)
         PROVE  (UnboundInv /\ PushInv /\ RemoteInv /\ MapInv /\ RowInv /\ CleanInv)'
    <2>1. /\ push.phase # "idle" /\ push' = IdlePush
          /\ UNCHANGED <<local, remote, mapping, outbox, pull, gaveUp>> /\ binding'.bound = binding.bound
      BY <1>0, <1>10 DEF PushAbort, PushInv, IdlePush, TypeOK
    <2> QED
      BY <1>0, <2>1, PushEnds, TablesKept DEF RemoteInv
  <1>11. CASE PushWork(e)
    BY <1>3, <1>4, <1>5, <1>6, <1>7, <1>8, <1>11 DEF PushWork
  <1>12. CASE PushTrouble(e)
    <2>1. FALSE \in BOOLEAN
      OBVIOUS
    <2> QED
      BY <1>3, <1>4, <1>5, <1>6, <1>9, <1>10, <1>12, <2>1 DEF PushTrouble
  <1> QED
    BY <1>1, <1>11, <1>12

\* Every step keeps the invariant.
LEMMA NextInv == SyncInv /\ [Next]_vars => SyncInv'
  <1> SUFFICES ASSUME SyncInv, [Next]_vars PROVE SyncInv'
    OBVIOUS
  <1>1. TypeOK'
    BY NextTyped DEF SyncInv
  <1>2. (UnboundInv /\ PushInv /\ RemoteInv /\ MapInv /\ RowInv /\ CleanInv)'
    <2>1. CASE UserStep
      BY <2>1, UserInv
    <2>2. ASSUME NEW p \in Pullers, PullFetches(p) \/ PullWork(p) \/ PullTrouble(p)
          PROVE  (UnboundInv /\ PushInv /\ RemoteInv /\ MapInv /\ RowInv /\ CleanInv)'
      BY <2>2, PullInv
    <2>3. ASSUME NEW e \in Events, PushClaim(e) \/ PushWork(e) \/ PushTrouble(e)
          PROVE  (UnboundInv /\ PushInv /\ RemoteInv /\ MapInv /\ RowInv /\ CleanInv)'
      BY <2>3, PushStepInv
    <2>4. CASE Connect
      <3>1. UNCHANGED <<local, remote, mapping, outbox, pull, push, gaveUp>> /\ binding'.bound = binding.bound
        BY <2>4 DEF Connect, SyncInv, TypeOK
      <3>2. UnboundInv' /\ PushInv'
        BY <3>1 DEF SyncInv, UnboundInv, PushInv, Pending, Open, Applying, Upsert, Live, RemoteId, Mapped
      <3> QED
        BY <3>1, <3>2, TablesKept DEF SyncInv, RemoteInv
    <2>5. CASE UNCHANGED vars
      <3>1. UnboundInv' /\ PushInv'
        BY <2>5 DEF vars, SyncInv, UnboundInv, PushInv, Pending, Open, Applying, Upsert, Live, RemoteId, Mapped
      <3> QED
        BY <2>5, <3>1, TablesKept DEF vars, SyncInv, RemoteInv
    <2> QED
      BY <2>1, <2>2, <2>3, <2>4, <2>5 DEF Next
  <1> QED
    BY <1>1, <1>2 DEF SyncInv

-----------------------------------------------------------------------------
LEMMA InvHolds == Spec => []SyncInv
  BY InitInv, NextInv, PTL DEF Spec

\* The tables of the sync and its jobs keep their types, and a row of the outbox is
\* dropped before it is tried MaxTries times (retry in gsync/push.go).
THEOREM TypeCorrect == Spec => []TypeOK
  <1>1. SyncInv => TypeOK
    BY DEF SyncInv
  <1> QED
    BY <1>1, InvHolds, PTL

\* An event that is mapped and has no row in the outbox has the content its mapping was
\* saved with, whatever pulls, pushes, restores, lost answers and rebinds came before.
THEOREM CleanStaysSynced == Spec => []CleanIsSynced
  <1>1. SyncInv => CleanIsSynced
    BY DEF SyncInv, CleanInv, CleanIsSynced
  <1> QED
    BY <1>1, InvHolds, PTL

-----------------------------------------------------------------------------
(* No local change is forgotten, as long as nothing is restored: Store.Restore *)
(* queues no row.                                                            *)

\* A delete waits only for an event in the trash; a live event has a row or a mapping,
\* a mapped event that is gone has a row.
Kept(e) ==
    /\ outbox[e].op = "delete" => local[e].status = "trashed"
    /\ binding.bound /\ e \notin gaveUp =>
         /\ Live(e) => Pending(e) \/ Mapped(e)
         /\ ~Live(e) /\ Mapped(e) => Pending(e)

KeptInv == used.restores = 0 => \A e \in Events : Kept(e)

\* Each step counts what it is: an edit, a fault, a lost answer, a restore or a bind.
LEMMA Counted ==
    ASSUME Next
    PROVE  \/ Edit \/ Fault \/ Lost \/ UNCHANGED used
           \/ Bind
           \/ \E e \in Events : RestoreLocal(e)
  <1>1. CASE UserStep
    <2>1. CASE Unbind
      BY <2>1 DEF Unbind
    <2>2. ASSUME NEW r \in Remotes, RemoteCreate(r) \/ RemoteEdit(r) \/ RemoteDelete(r) PROVE Edit
      BY <2>2 DEF RemoteCreate, RemoteEdit, RemoteDelete, RemoteStep
    <2>3. ASSUME NEW e \in Events, CreateLocal(e) \/ EditLocal(e) \/ DeleteLocal(e) PROVE Edit
      BY <2>3 DEF CreateLocal, EditLocal, DeleteLocal
    <2> QED
      BY <1>1, <2>1, <2>2, <2>3 DEF UserStep
  <1>2. CASE Connect
    BY <1>2 DEF Connect
  <1>3. ASSUME NEW p \in Pullers, PullFetches(p) \/ PullTrouble(p) PROVE Fault \/ UNCHANGED used
    BY <1>3 DEF PullFetches, PullFetch, PullFetchFull, PullTrouble, PullFail, PullCrash, PullRevoked
  <1>4. ASSUME NEW p \in Pullers, PullWork(p) PROVE UNCHANGED used
    <2>1. CASE PullBegin(p) \/ PullCommit(p) \/ PullSave(p)
      BY <2>1 DEF PullBegin, PullCommit, PullSave
    <2>2. ASSUME NEW it, Takes(p, it) PROVE UNCHANGED used
      BY <2>2 DEF Takes
    <2> QED
      BY <1>4, <2>1, <2>2 DEF PullWork, PullCancelled, PullAdopt, PullCreate, PullKeep, PullUpdate
  <1>5. ASSUME NEW e \in Events, NEW answered, NEW map, Answer(e, answered, map) PROVE Lost \/ UNCHANGED used
    BY <1>5 DEF Answer, Finish, Unanswered
  <1>6. ASSUME NEW e \in Events, NEW r, NEW answered, Write(e, r, answered) PROVE Lost \/ UNCHANGED used
    BY <1>5, <1>6 DEF Write
  <1>7. ASSUME NEW e \in Events, PushClaim(e) \/ PushWork(e) \/ PushTrouble(e)
        PROVE  Fault \/ Lost \/ UNCHANGED used
    <2>1. CASE PushClaim(e) \/ PushLoses(e) \/ PushInsists(e)
      BY <2>1 DEF PushClaim, PushLoses, PushInsists
    <2>2. ASSUME NEW answered, PushDelete(e, answered) PROVE Lost \/ UNCHANGED used
      BY <1>5, <2>2 DEF PushDelete
    <2>3. ASSUME NEW answered, PushPatch(e, answered) \/ PushForce(e, answered) PROVE Lost \/ UNCHANGED used
      BY <1>6, <2>3 DEF PushPatch, PushForce
    <2>4. ASSUME NEW answered, NEW r, PushInsert(e, r, answered) PROVE Lost \/ UNCHANGED used
      BY <1>6, <2>4 DEF PushInsert
    <2>5. CASE PushError(e)
      BY <2>5 DEF PushError
    <2>6. ASSUME NEW account, PushAbort(e, account) PROVE Fault
      BY <2>6 DEF PushAbort
    <2> QED
      BY <1>7, <2>1, <2>2, <2>3, <2>4, <2>5, <2>6 DEF PushWork, PushTrouble
  <1> QED
    BY <1>1, <1>2, <1>3, <1>4, <1>7 DEF Next

\* The counters of restores and binds never go back.
LEMMA CountersGrow ==
    ASSUME TypeOK, Next
    PROVE  /\ used.restores <= used'.restores /\ used.binds <= used'.binds
           /\ used'.restores = 0 => \A e \in Events : ~RestoreLocal(e)
           /\ Bind => used'.binds = used.binds + 1
           /\ ~Bind => used'.binds = used.binds
           /\ used.restores \in Nat /\ used.binds \in Nat /\ used'.restores \in Nat /\ used'.binds \in Nat
  <1>0. used \in [edits : 0..MaxEdits, restores : 0..MaxRestores, binds : 0..MaxBinds,
                  faults : 0..MaxFaults, lost : 0..MaxLost]
        /\ used.restores \in Nat /\ used.binds \in Nat
    BY DEF TypeOK
  <1>1. ASSUME Edit \/ Fault \/ Lost \/ UNCHANGED used
        PROVE  used'.restores = used.restores /\ used'.binds = used.binds
    BY <1>0, <1>1 DEF Edit, Fault, Lost
  <1>2. ASSUME Bind PROVE used'.restores = used.restores /\ used'.binds = used.binds + 1
    <2>1. used' = [used EXCEPT !.binds = @ + 1]
      BY <1>2 DEF Bind
    <2> QED
      BY <1>0, <2>1
  <1>3. ASSUME NEW e \in Events, RestoreLocal(e)
        PROVE  used'.restores = used.restores + 1 /\ used'.binds = used.binds
    BY <1>0, <1>3 DEF RestoreLocal, Restore
  <1> QED
    BY <1>0, <1>1, <1>2, <1>3, Counted

\* What a step leaves alone stays kept.
LEMMA KeptSame ==
    ASSUME NEW e \in Events, Kept(e), outbox'[e].op = outbox[e].op,
           local'[e].status = local[e].status, mapping'[e].rid = mapping[e].rid,
           e \in gaveUp => e \in gaveUp', binding'.bound => binding.bound
    PROVE  Kept(e)'
  BY DEF Kept, Live, Pending, Mapped

\* A live event with a mapping and no delete waiting is kept, and so is one that is
\* gone without a mapping or a row.
LEMMA KeptNow ==
    ASSUME NEW e \in Events,
           \/ local'[e].status = "live" /\ Mapped(e)' /\ outbox'[e].op # "delete"
           \/ /\ local'[e].status # "live" /\ ~Mapped(e)'
              /\ outbox'[e].op = "delete" => local'[e].status = "trashed"
    PROVE  Kept(e)'
  BY DEF Kept, Live, Mapped

LEMMA KeptStep ==
    ASSUME SyncInv, \A e \in Events : Kept(e), Next, \A e \in Events : ~RestoreLocal(e), TypeOK'
    PROVE  \A e \in Events : Kept(e)'
  <1>0. TypeOK /\ UnboundInv /\ PushInv /\ RemoteInv /\ MapInv /\ RowInv /\ CleanInv
    BY DEF SyncInv
  <1>a. /\ local \in [Events -> LocalEvent] /\ outbox \in [Events -> OutboxRow]
        /\ mapping \in [Events -> Mapping] /\ pull \in [Pullers -> PullJob]
    BY <1>0 DEF TypeOK
  <1>b. ASSUME UNCHANGED <<local, mapping, outbox, gaveUp>>, binding'.bound => binding.bound
        PROVE  \A e \in Events : Kept(e)'
    BY <1>b, KeptSame
  <1>1. ASSUME NEW e \in Events, NEW op \in {"upsert", "delete"}, LocalEdit(e, op)
        PROVE  \A x \in Events : Kept(x)'
    <2>1. UNCHANGED <<mapping, binding>> /\ gaveUp' = gaveUp \ {e}
      BY <1>1 DEF LocalEdit, LocalStep, QueueSync
    <2>2. /\ \A x \in Events : x # e => local'[x] = local[x]
          /\ op = "upsert" => local'[e].status = "live"
          /\ op = "delete" => local'[e].status = "trashed"
      BY <1>1, <1>a DEF LocalEdit
    <2>3. /\ \A x \in Events : x # e => outbox'[x] = outbox[x]
          /\ \/ ~binding.bound /\ outbox'[e] = outbox[e]
             \/ binding.bound /\ op = "delete" /\ ~Mapped(e) /\ outbox'[e].op = "none"
             \/ binding.bound /\ outbox'[e].op = op
      BY <1>1, <1>a DEF LocalEdit, QueueSync, NoRow
    <2>4. \A x \in Events : x # e => Kept(x)'
      BY <2>1, <2>2, <2>3, KeptSame
    <2>5. ~binding.bound => outbox[e].op = "none"
      BY <1>0 DEF UnboundInv, NoRow
    <2>6. Kept(e)'
      BY <2>1, <2>2, <2>3, <2>5 DEF Kept, Live, Mapped, Pending
    <2> QED
      BY <2>4, <2>6
  <1>2. CASE UserStep
    <2>1. ASSUME NEW r \in Remotes, RemoteCreate(r) \/ RemoteEdit(r) \/ RemoteDelete(r)
          PROVE  \A e \in Events : Kept(e)'
      BY <1>b, <2>1 DEF RemoteCreate, RemoteEdit, RemoteDelete, RemoteStep
    <2>2. CASE Bind
      <3>1. \A e \in Events : /\ mapping'[e] = NoMapping /\ local'[e] = local[e]
                              /\ outbox'[e].op = IF Live(e) THEN "upsert" ELSE "none"
        BY <1>0, <2>2 DEF Bind, UnboundInv, NoRow
      <3> QED
        BY <3>1 DEF Kept, Live, Pending, Mapped, NoMapping
    <2>3. CASE Unbind
      BY <2>3 DEF Unbind, Kept, NoRow
    <2> QED
      BY <1>1, <1>2, <2>1, <2>2, <2>3, UserEdits DEF UserStep
  <1>3. CASE Connect
    <2>1. binding'.bound = binding.bound
      BY <1>0, <1>3 DEF Connect, TypeOK
    <2> QED
      BY <1>3, <2>1, <1>b DEF Connect
  <1>4. ASSUME NEW S, RemoveLocal(S), UNCHANGED <<binding, gaveUp>>
        PROVE  \A e \in Events : Kept(e)'
    <2>1. ASSUME NEW e \in Events, e \in S PROVE Kept(e)'
      <3>1. ~Mapped(e)' /\ local'[e].status # "live" /\ outbox'[e].op # "delete"
        BY <1>4, <1>a, <2>1 DEF RemoveLocal, Mapped, NoMapping, NoRow, Live, LocalEvent
      <3> QED
        BY <3>1, KeptNow
    <2>2. ASSUME NEW e \in Events, e \notin S PROVE Kept(e)'
      BY <1>4, <2>2, KeptSame DEF RemoveLocal
    <2> QED
      BY <2>1, <2>2
  <1>5. ASSUME NEW p \in Pullers, NEW it, NEW e \in Events, Takes(p, it),
               mapping' = SaveMapping(e, it, it.event.val), local'[e].status = "live",
               \A x \in Events : x # e => local'[x] = local[x] /\ outbox'[x] = outbox[x],
               outbox'[e].op # "delete",
               \A x \in Owners(it.rid) : x # e => ~Live(x)
        PROVE  \A x \in Events : Kept(x)'
    <2>1. UNCHANGED <<binding, gaveUp>> /\ it.rid \in Remotes
      BY <1>0, <1>5, ItemTyped DEF Takes
    <2>2. Kept(e)'
      <3>1. Mapped(e)'
        BY <1>5, <2>1 DEF SaveMapping, MapTo, Mapped
      <3> QED
        BY <1>5, <3>1, KeptNow
    <2>3. ASSUME NEW x \in Events, x # e PROVE Kept(x)'
      <3>1. CASE mapping[x].rid = it.rid
        BY <1>5, <2>3, <3>1, KeptNow DEF SaveMapping, Mapped, NoMapping, Owners, Live, Kept
      <3>2. CASE mapping[x].rid # it.rid
        BY <1>5, <2>1, <2>3, <3>2, KeptSame DEF SaveMapping
      <3> QED
        BY <3>1, <3>2
    <2> QED
      BY <2>2, <2>3
  <1>6. ASSUME NEW p \in Pullers, PullFetches(p) \/ PullTrouble(p) \/ PullBegin(p) \/ PullSave(p)
        PROVE  \A e \in Events : Kept(e)'
    <2>1. UNCHANGED <<local, mapping, outbox, gaveUp>> /\ binding'.bound = binding.bound
      <3>1. CASE PullFetches(p)
        BY <3>1 DEF PullFetches, PullFetch, PullFetchFull, Fetched
      <3>2. CASE PullTrouble(p) \/ PullBegin(p) \/ PullSave(p)
        BY <1>0, <3>2 DEF PullTrouble, PullFail, PullCrash, PullRevoked, PullBegin, PullSave, TypeOK
      <3> QED
        BY <1>6, <3>1, <3>2
    <2> QED
      BY <2>1, <1>b
  <1>7. ASSUME NEW p \in Pullers, NEW it, PullCancelled(p, it)
        PROVE  \A e \in Events : Kept(e)'
    BY <1>4, <1>7 DEF PullCancelled, Takes
  <1>8. ASSUME NEW p \in Pullers, PullCommit(p)
        PROVE  \A e \in Events : Kept(e)'
    BY <1>4, <1>8 DEF PullCommit
  <1>9. ASSUME NEW p \in Pullers, NEW it, NEW e \in Events, PullKeep(p, it, e)
        PROVE  \A x \in Events : Kept(x)'
    BY <1>9, <1>b DEF PullKeep, Takes
  <1>10. ASSUME NEW p \in Pullers, NEW it, NEW e \in Events, PullAdopt(p, it, e)
         PROVE  \A x \in Events : Kept(x)'
    <2>1. /\ Takes(p, it) /\ Unmatched(it.rid) /\ mapping' = SaveMapping(e, it, it.event.val)
          /\ outbox' = outbox /\ Live(e)
      BY <1>10 DEF PullAdopt, Adoptable
    <2>2. local'[e].status = "live" /\ \A x \in Events : x # e => local'[x] = local[x]
      BY <1>10, <1>a, <2>1 DEF PullAdopt, Live, LocalEvent
    <2>3. outbox'[e].op # "delete"
      BY <2>1 DEF Kept, Live
    <2> QED
      BY <1>5, <2>1, <2>2, <2>3 DEF Unmatched
  <1>11. ASSUME NEW p \in Pullers, NEW it, NEW e \in Events, PullCreate(p, it, e)
         PROVE  \A x \in Events : Kept(x)'
    <2>1. /\ Takes(p, it) /\ Unmatched(it.rid) /\ mapping' = SaveMapping(e, it, it.event.val)
          /\ outbox' = outbox /\ local[e] = NoLocal
      BY <1>11 DEF PullCreate
    <2>2. local'[e].status = "live" /\ \A x \in Events : x # e => local'[x] = local[x]
      BY <1>11, <1>a DEF PullCreate
    <2>3. outbox'[e].op # "delete"
      BY <2>1 DEF Kept, NoLocal
    <2> QED
      BY <1>5, <2>1, <2>2, <2>3 DEF Unmatched
  <1>12. ASSUME NEW p \in Pullers, NEW it, NEW e \in Events, PullUpdate(p, it, e)
         PROVE  \A x \in Events : Kept(x)'
    <2>1. Takes(p, it) /\ e \in Owners(it.rid) /\ Live(e) /\ TakeRemote(e, it) /\ it.rid \in Remotes
      BY <1>0, <1>12, ItemTyped DEF PullUpdate
    <2>2. /\ local'[e].status = "live" /\ outbox'[e].op # "delete"
          /\ \A x \in Events : x # e => local'[x] = local[x] /\ outbox'[x] = outbox[x]
      BY <1>a, <2>1 DEF TakeRemote, Live, LocalEvent, NoRow
    <2>3. \A x \in Owners(it.rid) : x = e
      BY <1>0, <2>1 DEF MapInv, Owners, Mapped
    <2> QED
      BY <1>5, <2>1, <2>2, <2>3 DEF TakeRemote
  <1>13. ASSUME NEW p \in Pullers, PullFetches(p) \/ PullWork(p) \/ PullTrouble(p)
         PROVE  \A e \in Events : Kept(e)'
    BY <1>6, <1>7, <1>8, <1>9, <1>10, <1>11, <1>12, <1>13 DEF PullWork
  <1>14. ASSUME NEW e \in Events, push.phase # "idle", push.event = e,
                Retry(e) \/ UNCHANGED <<outbox, gaveUp>>, UNCHANGED <<local, mapping>>,
                binding'.bound = binding.bound
         PROVE  \A x \in Events : Kept(x)'
    <2>1. CASE UNCHANGED <<outbox, gaveUp>>
      BY <1>14, <2>1, <1>b
    <2>2. CASE Retry(e) /\ outbox[e].tries + 1 >= MaxTries
      <3>1. outbox'[e].op = "none" /\ e \in gaveUp' /\ gaveUp \subseteq gaveUp'
            /\ \A x \in Events : x # e => outbox'[x] = outbox[x]
        BY <1>a, <2>2 DEF Retry, NoRow
      <3>2. Kept(e)'
        BY <3>1 DEF Kept
      <3> QED
        BY <1>14, <3>1, <3>2, KeptSame
    <2>3. CASE Retry(e) /\ ~(outbox[e].tries + 1 >= MaxTries)
      <3>1. outbox' = [outbox EXCEPT ![e] = [outbox[e] EXCEPT !.tries = @ + 1]] /\ gaveUp' = gaveUp
        BY <2>3 DEF Retry
      <3>2. outbox[e] \in OutboxRow
        BY <1>a
      <3>3. \A x \in Events : outbox'[x].op = outbox[x].op
        BY <1>a, <3>1, <3>2 DEF OutboxRow
      <3> QED
        BY <1>14, <3>1, <3>3, KeptSame
    <2> QED
      BY <1>14, <2>1, <2>2, <2>3
  <1>15. ASSUME NEW e \in Events, push.phase # "idle", push.event = e, Upsert(e),
                NEW r \in Remotes, NEW answered \in BOOLEAN, Write(e, r, answered),
                Owners(r) \subseteq {e}
         PROVE  \A x \in Events : Kept(x)'
    <2> DEFINE it == [rid |-> r, event |-> Sent(e)]
    <2>1. Answer(e, answered, SaveMapping(e, it, local[e].val)) /\ it.rid = r
      BY <1>15 DEF Write
    <2>2. UNCHANGED <<local, binding>>
      BY <2>1 DEF Answer
    <2>3. CASE ~answered
      BY <1>14, <1>15, <2>1, <2>2, <2>3 DEF Answer, Unanswered
    <2>4. CASE answered
      <3>1. /\ mapping' = SaveMapping(e, it, local[e].val) /\ UNCHANGED gaveUp
            /\ outbox' = [outbox EXCEPT ![e] = NoRow]
        BY <2>1, <2>4 DEF Answer, Finish
      <3> HIDE DEF it
      <3>2. Kept(e)'
        BY <1>15, <1>a, <2>1, <2>2, <3>1, KeptNow DEF SaveMapping, MapTo, Mapped, Upsert, Live, NoRow
      <3>3. ASSUME NEW x \in Events, x # e PROVE Kept(x)'
        BY <1>15, <1>a, <2>1, <2>2, <3>1, <3>3, KeptSame DEF SaveMapping, Owners
      <3> QED
        BY <3>2, <3>3
    <2> QED
      BY <2>3, <2>4
  <1>16. ASSUME NEW e \in Events, push.phase # "idle", Upsert(e), push.event = e, RemoteId(e) # None,
                NEW answered \in BOOLEAN, Write(e, RemoteId(e), answered)
         PROVE  \A x \in Events : Kept(x)'
    <2>1. RemoteId(e) \in Remotes /\ Owners(RemoteId(e)) \subseteq {e}
      BY <1>0, <1>16, RemoteIdMapped DEF MapInv, Owners
    <2> QED
      BY <1>15, <1>16, <2>1
  <1>17. ASSUME NEW e \in Events, NEW answered \in BOOLEAN, PushPatch(e, answered)
         PROVE  \A x \in Events : Kept(x)'
    BY <1>16, <1>17 DEF PushPatch, Sending
  <1>18. ASSUME NEW e \in Events, NEW answered \in BOOLEAN, PushForce(e, answered)
         PROVE  \A x \in Events : Kept(x)'
    BY <1>0, <1>16, <1>18 DEF PushForce, Sending, PushInv
  <1>19. ASSUME NEW e \in Events, NEW answered \in BOOLEAN, NEW r \in Remotes, PushInsert(e, r, answered)
         PROVE  \A x \in Events : Kept(x)'
    <2>1. Owners(r) \subseteq {e}
      BY <1>0, <1>19 DEF PushInsert, RemoteInv, Owners, Mapped, NoRemote
    <2> QED
      BY <1>15, <1>19, <2>1 DEF PushInsert, Sending
  <1>20. ASSUME NEW e \in Events, NEW answered \in BOOLEAN, PushDelete(e, answered)
         PROVE  \A x \in Events : Kept(x)'
    <2>1. /\ push.phase # "idle" /\ push.event = e /\ UNCHANGED <<local, binding>>
          /\ Answer(e, answered, [mapping EXCEPT ![e] = NoMapping]) /\ ~Upsert(e)
      BY <1>20 DEF PushDelete, Sending, Answer
    <2>2. ~Live(e)
      BY <1>0, <1>a, <2>1 DEF PushInv, Pending, Upsert, Kept, RowInv, OutboxRow, Live
    <2>3. CASE answered
      <3>1. /\ mapping' = [mapping EXCEPT ![e] = NoMapping] /\ UNCHANGED gaveUp
            /\ outbox' = [outbox EXCEPT ![e] = NoRow]
        BY <2>1, <2>3 DEF Answer, Finish
      <3>2. Kept(e)'
        BY <1>a, <2>1, <2>2, <3>1, KeptNow DEF Mapped, NoMapping, NoRow, Live
      <3>3. ASSUME NEW x \in Events, x # e PROVE Kept(x)'
        BY <1>a, <2>1, <3>1, <3>3, KeptSame
      <3> QED
        BY <3>2, <3>3
    <2>4. CASE ~answered
      BY <1>14, <2>1, <2>4 DEF Answer, Unanswered
    <2> QED
      BY <2>3, <2>4
  <1>21. ASSUME NEW e \in Events, PushLoses(e)
         PROVE  \A x \in Events : Kept(x)'
    <2> DEFINE it == [rid |-> RemoteId(e), event |-> remote[RemoteId(e)]]
    <2>1. /\ TakeRemote(e, it) /\ UNCHANGED <<binding, gaveUp>>
          /\ Live(e) /\ RemoteId(e) # None
      BY <1>21 DEF PushLoses, Mismatch, Sending, Upsert
    <2>2. it.rid = mapping[e].rid /\ it.rid \in Remotes /\ Mapped(e)
      BY <2>1, RemoteIdMapped
    <2> HIDE DEF it
    <2>3. /\ local'[e].status = "live" /\ outbox'[e].op # "delete"
          /\ \A x \in Events : x # e => local'[x] = local[x] /\ outbox'[x] = outbox[x]
      BY <1>a, <2>1 DEF TakeRemote, Live, LocalEvent, NoRow
    <2>4. /\ mapping'[e].rid = it.rid
          /\ \A x \in Events : x # e => mapping'[x] = mapping[x]
      BY <1>0, <2>1, <2>2 DEF TakeRemote, SaveMapping, MapTo, MapInv, Mapped
    <2>5. Kept(e)'
      BY <2>2, <2>3, <2>4, KeptNow DEF Mapped
    <2>6. \A x \in Events : x # e => Kept(x)'
      BY <2>1, <2>3, <2>4, KeptSame
    <2> QED
      BY <2>5, <2>6
  <1>22. ASSUME NEW e \in Events, PushClaim(e) \/ PushInsists(e)
         PROVE  \A x \in Events : Kept(x)'
    BY <1>22, <1>b DEF PushClaim, PushInsists
  <1>23. ASSUME NEW e \in Events, PushError(e)
         PROVE  \A x \in Events : Kept(x)'
    BY <1>0, <1>14, <1>23 DEF PushError, PushInv, IdlePush
  <1>24. ASSUME NEW e \in Events, NEW account \in {"ok", "revoked"}, PushAbort(e, account)
         PROVE  \A x \in Events : Kept(x)'
    <2>1. UNCHANGED <<local, mapping, outbox, gaveUp>> /\ binding'.bound = binding.bound
      BY <1>0, <1>24 DEF PushAbort, TypeOK
    <2> QED
      BY <2>1, <1>b
  <1>25. ASSUME NEW e \in Events, PushWork(e)
         PROVE  \A x \in Events : Kept(x)'
    BY <1>17, <1>18, <1>19, <1>20, <1>21, <1>22, <1>25 DEF PushWork
  <1>26. ASSUME NEW e \in Events, PushTrouble(e)
         PROVE  \A x \in Events : Kept(x)'
    BY <1>17, <1>18, <1>19, <1>20, <1>23, <1>24, <1>26 DEF PushTrouble
  <1> QED
    BY <1>2, <1>3, <1>13, <1>22, <1>25, <1>26 DEF Next

LEMMA KeptNext == SyncInv /\ KeptInv /\ [Next]_vars => KeptInv'
  <1> SUFFICES ASSUME SyncInv, KeptInv, [Next]_vars, used'.restores = 0
               PROVE  \A e \in Events : Kept(e)'
    BY DEF KeptInv
  <1>1. CASE Next
    <2>1. TypeOK'
      BY <1>1, NextTyped DEF SyncInv
    <2>2. used.restores = 0 /\ \A e \in Events : ~RestoreLocal(e)
      BY <1>1, CountersGrow DEF SyncInv
    <2> QED
      BY <1>1, <2>1, <2>2, KeptStep DEF KeptInv
  <1>2. CASE UNCHANGED vars
    BY <1>2 DEF vars, KeptInv, Kept, Live, Pending, Mapped
  <1> QED
    BY <1>1, <1>2

\* Until an event is taken out of the trash, every local change reaches Google: eventTx
\* and queueSync write a row with each change, a row goes when its push is answered, when
\* a newer version is taken over, or when push gives it up.
THEOREM ChangesReachGoogle == Spec => [](used.restores = 0 => NothingForgotten)
  <1>1. Init => KeptInv
    BY DEF Init, KeptInv, Kept, NoRow, NoLocal, Live
  <1>2. SyncInv /\ KeptInv /\ [Next]_vars => KeptInv'
    BY KeptNext
  <1>3. SyncInv /\ KeptInv => (used.restores = 0 => NothingForgotten)
    BY DEF SyncInv, KeptInv, Kept, CleanInv, NothingForgotten
  <1> QED
    BY <1>1, <1>2, <1>3, InvHolds, PTL DEF Spec

-----------------------------------------------------------------------------
(* Conflicts: a local edit that waits yields only to a newer one.            *)

\* No content and no change is later than the shared clock.
TimeInv ==
    /\ \A e \in Events : local[e].val <= stamp /\ local[e].at <= stamp
    /\ \A r \in Remotes : remote[r].val <= stamp /\ remote[r].at <= stamp
    /\ \A p \in Pullers : \A it \in pull[p].items : it.event.val <= stamp /\ it.event.at <= stamp

\* What the clock and the versions are.
LEMMA VersionsTyped ==
    ASSUME TypeOK
    PROVE  /\ stamp \in Nat /\ Now = stamp + 1
           /\ local \in [Events -> LocalEvent] /\ remote \in [Remotes -> RemoteEvent]
           /\ pull \in [Pullers -> PullJob] /\ outbox \in [Events -> OutboxRow]
           /\ mapping \in [Events -> Mapping]
           /\ \A e \in Events : local[e] \in LocalEvent /\ local[e].val \in Nat /\ local[e].at \in Nat
           /\ \A r \in Remotes : remote[r] \in RemoteEvent /\ remote[r].val \in Nat /\ remote[r].at \in Nat
           /\ \A p \in Pullers : \A it \in pull[p].items :
                it.rid \in Remotes /\ it.event.val \in Nat /\ it.event.at \in Nat
  BY DEF TypeOK, LocalEvent, RemoteEvent, PullJob, Item, Now

\* A step that only moves the clock, or shrinks what was fetched.
LEMMA TimeKept ==
    ASSUME TypeOK, TimeInv, UNCHANGED <<local, remote>>, stamp' \in {stamp, Now},
           \A p \in Pullers : pull'[p].items \subseteq pull[p].items
    PROVE  TimeInv'
  BY VersionsTyped DEF TimeInv

\* A step of a pull that writes one event.
LEMMA TimeLocal ==
    ASSUME TypeOK, TimeInv, UNCHANGED remote, stamp' \in {stamp, Now}, NEW e \in Events,
           \A x \in Events : x # e => local'[x] = local[x],
           local'[e].val <= stamp', local'[e].at <= stamp',
           \A p \in Pullers : pull'[p].items \subseteq pull[p].items
    PROVE  TimeInv'
  BY VersionsTyped DEF TimeInv

\* A step that writes one event at Google.
LEMMA TimeRemote ==
    ASSUME TypeOK, TimeInv, UNCHANGED <<local, pull>>, stamp' = Now, NEW r \in Remotes,
           \A x \in Remotes : x # r => remote'[x] = remote[x],
           remote'[r].val <= Now, remote'[r].at <= Now
    PROVE  TimeInv'
  BY VersionsTyped DEF TimeInv

\* Users move the clock with each change.
LEMMA TimeUser == ASSUME TypeOK, TimeInv, UserStep PROVE TimeInv'
  <1>1. ASSUME NEW e \in Events, CreateLocal(e) PROVE TimeInv'
    BY <1>1, TimeLocal, VersionsTyped DEF CreateLocal, LocalStep
  <1>2. ASSUME NEW e \in Events, EditLocal(e) PROVE TimeInv'
    <2>1. local' = [local EXCEPT ![e] = [local[e] EXCEPT !.val = Now, !.at = Now]]
      BY <1>2 DEF EditLocal
    <2>2. local'[e].val = Now /\ local'[e].at = Now
      BY <2>1, VersionsTyped DEF LocalEvent
    <2> QED
      BY <1>2, <2>1, <2>2, TimeLocal, VersionsTyped DEF EditLocal, LocalStep
  <1>3. ASSUME NEW e \in Events, DeleteLocal(e) PROVE TimeInv'
    <2>1. local' = [local EXCEPT ![e] = [local[e] EXCEPT !.status = "trashed", !.at = Now]]
      BY <1>3 DEF DeleteLocal
    <2>2. local'[e].val = local[e].val /\ local'[e].at = Now
      BY <2>1, VersionsTyped DEF LocalEvent
    <2> QED
      BY <1>3, <2>1, <2>2, TimeLocal, VersionsTyped DEF DeleteLocal, LocalStep, TimeInv
  <1>4. ASSUME NEW e \in Events, RestoreLocal(e) PROVE TimeInv'
    <2>1. local' = [local EXCEPT ![e] = [local[e] EXCEPT !.status = "live", !.at = Now]]
      BY <1>4 DEF RestoreLocal
    <2>2. local'[e].val = local[e].val /\ local'[e].at = Now
      BY <2>1, VersionsTyped DEF LocalEvent
    <2> QED
      BY <1>4, <2>1, <2>2, TimeLocal, VersionsTyped DEF RestoreLocal, LocalStep, TimeInv
  <1>5. ASSUME NEW r \in Remotes, RemoteCreate(r) PROVE TimeInv'
    BY <1>5, TimeRemote, VersionsTyped DEF RemoteCreate, RemoteStep
  <1>6. ASSUME NEW r \in Remotes, RemoteEdit(r) PROVE TimeInv'
    <2>1. remote' = [remote EXCEPT ![r] = [remote[r] EXCEPT !.val = Now, !.at = Now]]
      BY <1>6 DEF RemoteEdit
    <2>2. remote'[r].val = Now /\ remote'[r].at = Now
      BY <2>1, VersionsTyped DEF RemoteEvent
    <2> QED
      BY <1>6, <2>1, <2>2, TimeRemote, VersionsTyped DEF RemoteEdit, RemoteStep
  <1>7. ASSUME NEW r \in Remotes, RemoteDelete(r) PROVE TimeInv'
    <2>1. remote' = [remote EXCEPT ![r] = [remote[r] EXCEPT !.status = "cancelled", !.val = Now, !.at = Now]]
      BY <1>7 DEF RemoteDelete
    <2>2. remote'[r].val = Now /\ remote'[r].at = Now
      BY <2>1, VersionsTyped DEF RemoteEvent
    <2> QED
      BY <1>7, <2>1, <2>2, TimeRemote, VersionsTyped DEF RemoteDelete, RemoteStep
  <1>8. CASE Bind
    BY <1>8, TimeKept DEF Bind
  <1>9. CASE Unbind
    BY <1>9, TimeKept DEF Unbind, IdlePull
  <1> QED
    BY <1>1, <1>2, <1>3, <1>4, <1>5, <1>6, <1>7, <1>8, <1>9 DEF UserStep

\* A pull copies versions that exist, at the time of the clock.
LEMMA TimePull ==
    ASSUME TypeOK, TimeInv, NEW p \in Pullers, PullFetches(p) \/ PullWork(p) \/ PullTrouble(p)
    PROVE  TimeInv'
  <1>1. ASSUME NEW R \in SUBSET Remotes, NEW full, Fetched(p, R, full) PROVE TimeInv'
    <2>1. UNCHANGED <<local, remote, stamp>>
      BY <1>1 DEF Fetched
    <2>2. pull'[p].items = Items(R) /\ \A q \in Pullers : q # p => pull'[q] = pull[q]
      BY <1>1, VersionsTyped DEF Fetched
    <2>3. \A it \in Items(R) : it.event.val <= stamp /\ it.event.at <= stamp
      BY DEF Items, TimeInv
    <2> QED
      BY <2>1, <2>2, <2>3 DEF TimeInv
  <1>2. CASE PullFetches(p)
    BY <1>1, <1>2 DEF PullFetches, PullFetch, PullFetchFull, Changed, LiveRemotes, Cancelled
  <1>3. CASE PullTrouble(p) \/ PullBegin(p) \/ PullSave(p)
    <2>1. \A q \in Pullers : pull'[q].items \subseteq pull[q].items
      BY <1>3, VersionsTyped DEF PullTrouble, PullFail, PullCrash, PullRevoked, PullBegin, PullSave, IdlePull, PullJob
    <2>2. UNCHANGED <<local, remote, stamp>>
      BY <1>3 DEF PullTrouble, PullFail, PullCrash, PullRevoked, PullBegin, PullSave
    <2> QED
      BY <2>1, <2>2, TimeKept
  <1>4. ASSUME NEW S, RemoveLocal(S), UNCHANGED <<remote, stamp>>,
               \A q \in Pullers : pull'[q].items \subseteq pull[q].items
        PROVE  TimeInv'
    <2>1. \A e \in Events : /\ local'[e].val = local[e].val
                            /\ local'[e].at = stamp \/ local'[e].at = local[e].at
      BY <1>4, VersionsTyped DEF RemoveLocal, LocalEvent
    <2> QED
      BY <1>4, <2>1, VersionsTyped DEF TimeInv
  <1>5. CASE PullCommit(p)
    <2>1. \A q \in Pullers : pull'[q].items \subseteq pull[q].items
      BY <1>5, VersionsTyped DEF PullCommit, PullJob
    <2> QED
      BY <1>4, <1>5, <2>1 DEF PullCommit
  <1>6. ASSUME NEW it, Takes(p, it)
        PROVE  /\ \A q \in Pullers : pull'[q].items \subseteq pull[q].items
               /\ UNCHANGED <<remote, stamp>> /\ it.event.val <= stamp /\ it \in pull[p].items
    BY <1>6, VersionsTyped DEF Takes, TimeInv, PullJob
  <1>7. ASSUME NEW it, PullCancelled(p, it) PROVE TimeInv'
    BY <1>4, <1>6, <1>7 DEF PullCancelled
  <1>8. ASSUME NEW it, NEW e \in Events, Takes(p, it), local' = [local EXCEPT ![e].val = it.event.val, ![e].at = stamp]
        PROVE  TimeInv'
    <2>1. local' = [local EXCEPT ![e] = [local[e] EXCEPT !.val = it.event.val, !.at = stamp]]
      BY <1>8
    <2>2. local'[e].val = it.event.val /\ local'[e].at = stamp
      BY <2>1, VersionsTyped DEF LocalEvent
    <2> QED
      BY <1>6, <1>8, <2>1, <2>2, TimeLocal, VersionsTyped
  <1>9. ASSUME NEW it, NEW e \in Events, PullAdopt(p, it, e) PROVE TimeInv'
    BY <1>8, <1>9 DEF PullAdopt
  <1>10. ASSUME NEW it, NEW e \in Events, PullUpdate(p, it, e) PROVE TimeInv'
    BY <1>8, <1>10 DEF PullUpdate, TakeRemote
  <1>11. ASSUME NEW it, NEW e \in Events, PullCreate(p, it, e) PROVE TimeInv'
    BY <1>6, <1>11, TimeLocal, VersionsTyped DEF PullCreate
  <1>12. ASSUME NEW it, NEW e \in Events, PullKeep(p, it, e) PROVE TimeInv'
    BY <1>6, <1>12, TimeKept DEF PullKeep
  <1> QED
    BY <1>2, <1>3, <1>5, <1>7, <1>9, <1>10, <1>11, <1>12 DEF PullWork

\* A push writes contents that exist, and Google stamps them.
LEMMA TimePush ==
    ASSUME SyncInv, TimeInv, NEW e \in Events, PushClaim(e) \/ PushWork(e) \/ PushTrouble(e)
    PROVE  TimeInv'
  <1>0. TypeOK
    BY DEF SyncInv
  <1>1. ASSUME NEW r \in Remotes, NEW answered, Write(e, r, answered) PROVE TimeInv'
    <2>1. UNCHANGED <<local, pull>> /\ stamp' = Now /\ remote' = [remote EXCEPT ![r] = Sent(e)]
      BY <1>1 DEF Write, Answer
    <2>2. remote'[r].val = local[e].val /\ remote'[r].at = Now
      BY <1>0, <2>1, VersionsTyped DEF Sent
    <2> QED
      BY <1>0, <2>1, <2>2, TimeRemote, VersionsTyped DEF TimeInv
  <1>2. ASSUME NEW answered, PushPatch(e, answered) PROVE TimeInv'
    BY <1>1, <1>2, RemoteIdMapped DEF PushPatch
  <1>3. ASSUME NEW answered, PushForce(e, answered) PROVE TimeInv'
    <2>1. RemoteId(e) # None
      BY <1>3 DEF PushForce, Sending, SyncInv, PushInv
    <2> QED
      BY <1>1, <1>3, <2>1, RemoteIdMapped DEF PushForce
  <1>4. ASSUME NEW answered, NEW r \in Remotes, PushInsert(e, r, answered) PROVE TimeInv'
    BY <1>1, <1>4 DEF PushInsert
  <1>5. ASSUME NEW answered, PushDelete(e, answered) PROVE TimeInv'
    <2>1. UNCHANGED <<local, pull>>
      BY <1>5 DEF PushDelete, Answer
    <2>2. CASE UNCHANGED <<remote, stamp>>
      BY <1>0, <2>1, <2>2, TimeKept
    <2>3. CASE /\ RemoteId(e) # None /\ stamp' = Now
               /\ remote' = [remote EXCEPT ![RemoteId(e)].status = "cancelled",
                                           ![RemoteId(e)].val = local[e].at, ![RemoteId(e)].at = Now]
      <3>1. RemoteId(e) \in Remotes
        BY <2>3, RemoteIdMapped
      <3>2. remote' = [remote EXCEPT ![RemoteId(e)] =
                         [remote[RemoteId(e)] EXCEPT !.status = "cancelled", !.val = local[e].at, !.at = Now]]
        BY <2>3
      <3>3. remote'[RemoteId(e)].val = local[e].at /\ remote'[RemoteId(e)].at = Now
        BY <1>0, <3>1, <3>2, VersionsTyped DEF RemoteEvent
      <3>4. \A x \in Remotes : x # RemoteId(e) => remote'[x] = remote[x]
        BY <1>0, <3>1, <3>2, VersionsTyped
      <3> QED
        BY <1>0, <2>1, <2>3, <3>1, <3>3, <3>4, TimeRemote, VersionsTyped DEF TimeInv
    <2> QED
      BY <1>5, <2>2, <2>3 DEF PushDelete
  <1>6. CASE PushLoses(e)
    <2>1. /\ local' = [local EXCEPT ![e] = [local[e] EXCEPT !.val = remote[RemoteId(e)].val, !.at = stamp]]
          /\ RemoteId(e) # None /\ UNCHANGED <<remote, stamp, pull>>
      BY <1>6 DEF PushLoses, Mismatch, TakeRemote
    <2>2. RemoteId(e) \in Remotes
      BY <2>1, RemoteIdMapped
    <2>3. local'[e].val = remote[RemoteId(e)].val /\ local'[e].at = stamp
      BY <1>0, <2>1, VersionsTyped DEF LocalEvent
    <2> QED
      BY <1>0, <2>1, <2>2, <2>3, TimeLocal, VersionsTyped DEF TimeInv
  <1>7. CASE PushClaim(e) \/ PushInsists(e) \/ PushError(e)
    BY <1>0, <1>7, TimeKept DEF PushClaim, PushInsists, PushError
  <1>8. ASSUME NEW account \in {"ok", "revoked"}, PushAbort(e, account) PROVE TimeInv'
    BY <1>0, <1>8, TimeKept DEF PushAbort
  <1> QED
    BY <1>2, <1>3, <1>4, <1>5, <1>6, <1>7, <1>8 DEF PushWork, PushTrouble

LEMMA TimeStep == ASSUME SyncInv, TimeInv, [Next]_vars PROVE TimeInv'
  <1>0. TypeOK
    BY DEF SyncInv
  <1>1. CASE Connect
    BY <1>0, <1>1, TimeKept DEF Connect
  <1>2. CASE UNCHANGED vars
    BY <1>2 DEF vars, TimeInv
  <1> QED
    BY <1>0, <1>1, <1>2, TimeUser, TimePull, TimePush DEF Next

\* A version of Google's that is not older than the local edit has content that is not.
NotOlder(e, v) == v.at >= local[e].at => v.val >= local[e].val

\* An event with Google's id keeps its mapping, so no pull adopts it; the edit that waits
\* made both the content and the time of its event; Google's copy of that event, and what
\* pulls have read of it, is older by its time unless its content is newer too.
Yields(e) ==
    /\ used.binds = 0 /\ Live(e) => local[e].at = local[e].val
    /\ Live(e) /\ local[e].uid \in Remotes => Mapped(e)
    /\ outbox[e].op = "upsert" => local[e].at = local[e].val
    /\ outbox[e].op = "upsert" /\ Mapped(e) =>
         /\ NotOlder(e, remote[mapping[e].rid])
         /\ \A p \in Pullers : \A it \in pull[p].items :
              it.rid = mapping[e].rid => NotOlder(e, it.event)

\* Nothing was taken out of the trash, and the calendar was bound once.
BoundOnce == used.restores = 0 /\ used.binds <= 1

YieldInv ==
    /\ used.binds = 0 => ~binding.bound
    /\ BoundOnce /\ (used.binds = 0 \/ binding.bound) => \A e \in Events : Yields(e)

\* An event the step leaves alone.
LEMMA YieldSame ==
    ASSUME NEW e \in Events, Yields(e), local'[e] = local[e], mapping'[e].rid = mapping[e].rid,
           outbox'[e].op = "upsert" => outbox[e].op = "upsert",
           used'.binds = 0 => used.binds = 0,
           Mapped(e) => \/ remote'[mapping[e].rid] = remote[mapping[e].rid]
                        \/ remote'[mapping[e].rid].val >= local[e].val,
           \A p \in Pullers : \A it \in pull'[p].items :
              it \in pull[p].items \/ it.event = remote[it.rid]
    PROVE  Yields(e)'
  BY DEF Yields, NotOlder, Live, Mapped

\* The case of steps that write no event, here or there.
LEMMA YieldStill ==
    ASSUME \A e \in Events : Yields(e), UNCHANGED <<local, mapping, remote>>,
           \A e \in Events : outbox'[e].op = "upsert" => outbox[e].op = "upsert",
           used'.binds = 0 => used.binds = 0,
           \A p \in Pullers : pull'[p].items \subseteq pull[p].items
    PROVE  \A e \in Events : Yields(e)'
  BY YieldSame

\* An event that no edit waits for.
LEMMA YieldNow ==
    ASSUME NEW e \in Events, outbox'[e].op # "upsert",
           \/ local'[e].status # "live"
           \/ used'.binds # 0 /\ Mapped(e)'
    PROVE  Yields(e)'
  BY DEF Yields, Live

LEMMA YieldUser ==
    ASSUME SyncInv, TimeInv, \A e \in Events : Yields(e), UserStep,
           \A e \in Events : ~RestoreLocal(e), ~Unbind, Bind => used.binds = 0,
           used.binds = 0 => ~binding.bound, TypeOK'
    PROVE  \A e \in Events : Yields(e)'
  <1>0. TypeOK /\ UnboundInv /\ RowInv
    BY DEF SyncInv
  <1>1. ASSUME Edit PROVE used'.binds = used.binds
    BY <1>0, <1>1 DEF Edit, TypeOK
  <1>2. ASSUME NEW e \in Events, NEW op \in {"upsert", "delete"}, LocalEdit(e, op), Edit
        PROVE  /\ \A x \in Events : x # e => Yields(x)'
               /\ UNCHANGED <<remote, mapping, pull, binding>>
               /\ (~binding.bound /\ outbox'[e] = outbox[e]) \/ outbox'[e].op \in {op, "none"}
    <2>1. UNCHANGED <<remote, mapping, pull, binding>>
      BY <1>2 DEF LocalEdit, LocalStep
    <2>2. \A x \in Events : x # e => local'[x] = local[x]
      BY <1>0, <1>2, VersionsTyped DEF LocalEdit
    <2>3. /\ \A x \in Events : x # e => outbox'[x] = outbox[x]
          /\ (~binding.bound /\ outbox'[e] = outbox[e]) \/ outbox'[e].op \in {op, "none"}
      BY <1>0, <1>2, VersionsTyped DEF LocalEdit, QueueSync, NoRow
    <2> QED
      BY <1>1, <1>2, <2>1, <2>2, <2>3, YieldSame
  <1>3. ASSUME NEW e \in Events, CreateLocal(e) PROVE \A x \in Events : Yields(x)'
    <2>1. LocalEdit(e, "upsert") /\ Edit
      BY <1>3, UserEdits DEF CreateLocal
    <2>2. local'[e].at = local'[e].val /\ local'[e].uid \notin Remotes
      BY <1>0, <1>3, VersionsTyped DEF CreateLocal
    <2>3. ~Mapped(e) /\ UNCHANGED mapping
      BY <1>0, <1>3 DEF RowInv, CreateLocal, NoLocal, LocalStep
    <2>4. Yields(e)'
      BY <2>2, <2>3 DEF Yields, Mapped
    <2> QED
      BY <1>2, <2>1, <2>4
  <1>4. ASSUME NEW e \in Events, EditLocal(e) PROVE \A x \in Events : Yields(x)'
    <2>1. LocalEdit(e, "upsert") /\ Edit /\ Live(e)
      BY <1>4, UserEdits DEF EditLocal
    <2>2. local' = [local EXCEPT ![e] = [local[e] EXCEPT !.val = Now, !.at = Now]]
      BY <1>4 DEF EditLocal
    <2>3. local'[e].at = Now /\ local'[e].val = Now /\ local'[e].uid = local[e].uid
      BY <1>0, <2>2, VersionsTyped DEF LocalEvent
    <2>4. UNCHANGED <<remote, mapping, pull>>
      BY <1>2, <2>1
    <2>5. \A r \in Remotes : ~(remote[r].at >= Now)
      BY <1>0, VersionsTyped DEF TimeInv
    <2>6. \A p \in Pullers : \A it \in pull[p].items : ~(it.event.at >= Now)
      BY <1>0, VersionsTyped DEF TimeInv
    <2>7. Mapped(e) => mapping[e].rid \in Remotes
      BY <1>0, VersionsTyped DEF Mapped, Mapping
    <2>8. Yields(e)'
      BY <2>1, <2>3, <2>4, <2>5, <2>6, <2>7 DEF Yields, NotOlder, Live, Mapped
    <2> QED
      BY <1>2, <2>1, <2>8
  <1>5. ASSUME NEW e \in Events, DeleteLocal(e) PROVE \A x \in Events : Yields(x)'
    <2>1. LocalEdit(e, "delete") /\ Edit
      BY <1>5, UserEdits DEF DeleteLocal
    <2>2. local'[e].status = "trashed"
      BY <1>0, <2>1, VersionsTyped DEF LocalEdit
    <2>3. outbox'[e].op # "upsert"
      BY <1>0, <1>2, <2>1 DEF UnboundInv, NoRow
    <2> QED
      BY <1>2, <2>1, <2>2, <2>3, YieldNow
  <1>6. ASSUME NEW r \in Remotes, Edit, RemoteStep, remote'[r].val = Now,
               \A x \in Remotes : x # r => remote'[x] = remote[x]
        PROVE  \A e \in Events : Yields(e)'
    <2>1. UNCHANGED <<local, mapping, outbox, pull>> /\ used'.binds = used.binds
      BY <1>1, <1>6 DEF RemoteStep
    <2>2. ASSUME NEW e \in Events PROVE Mapped(e) => \/ remote'[mapping[e].rid] = remote[mapping[e].rid]
                                                     \/ remote'[mapping[e].rid].val >= local[e].val
      BY <1>0, <1>6, VersionsTyped DEF TimeInv, Mapped, Mapping
    <2> QED
      BY <2>1, <2>2, YieldSame
  <1>7. ASSUME NEW r \in Remotes, RemoteCreate(r) PROVE \A e \in Events : Yields(e)'
    BY <1>0, <1>6, <1>7, VersionsTyped DEF RemoteCreate, RemoteStep
  <1>8. ASSUME NEW r \in Remotes, RemoteEdit(r) PROVE \A e \in Events : Yields(e)'
    <2>1. remote' = [remote EXCEPT ![r] = [remote[r] EXCEPT !.val = Now, !.at = Now]]
          /\ RemoteStep /\ Edit
      BY <1>8 DEF RemoteEdit, RemoteStep
    <2>2. remote'[r].val = Now /\ \A x \in Remotes : x # r => remote'[x] = remote[x]
      BY <1>0, <2>1, VersionsTyped DEF RemoteEvent
    <2> QED
      BY <1>6, <2>1, <2>2
  <1>9. ASSUME NEW r \in Remotes, RemoteDelete(r) PROVE \A e \in Events : Yields(e)'
    <2>1. remote' = [remote EXCEPT ![r] = [remote[r] EXCEPT !.status = "cancelled", !.val = Now, !.at = Now]]
          /\ RemoteStep /\ Edit
      BY <1>9 DEF RemoteDelete, RemoteStep
    <2>2. remote'[r].val = Now /\ \A x \in Remotes : x # r => remote'[x] = remote[x]
      BY <1>0, <2>1, VersionsTyped DEF RemoteEvent
    <2> QED
      BY <1>6, <2>1, <2>2
  <1>10. CASE Bind
    <2>1. /\ used.binds = 0 /\ UNCHANGED <<local, mapping>> /\ ~binding.bound
          /\ \A e \in Events : outbox'[e].op = "upsert" => Live(e)
      BY <1>10 DEF Bind, NoRow
    <2>2. \A e \in Events : ~Mapped(e)
      BY <1>0, <2>1 DEF UnboundInv, Mapped, NoMapping
    <2> QED
      BY <2>1, <2>2 DEF Yields, Live, Mapped
  <1> QED
    BY <1>3, <1>4, <1>5, <1>7, <1>8, <1>9, <1>10 DEF UserStep

LEMMA YieldPull ==
    ASSUME SyncInv, \A e \in Events : Kept(e), \A e \in Events : Yields(e),
           used.binds = 0 => ~binding.bound,
           NEW p \in Pullers, PullFetches(p) \/ PullWork(p) \/ PullTrouble(p)
    PROVE  \A e \in Events : Yields(e)'
  <1>0. TypeOK /\ UnboundInv /\ RowInv /\ MapInv
    BY DEF SyncInv
  <1>1. ASSUME Fault PROVE used'.binds = used.binds
    BY <1>0, <1>1 DEF Fault, TypeOK
  <1>2. ASSUME NEW R, NEW full, Fetched(p, R, full), used'.binds = used.binds
        PROVE  \A e \in Events : Yields(e)'
    <2>1. UNCHANGED <<local, remote, mapping, outbox>>
      BY <1>2 DEF Fetched
    <2>2. pull'[p].items = Items(R) /\ \A q \in Pullers : q # p => pull'[q] = pull[q]
      BY <1>0, <1>2, VersionsTyped DEF Fetched
    <2>3. \A q \in Pullers : \A it \in pull'[q].items : it \in pull[q].items \/ it.event = remote[it.rid]
      BY <2>2 DEF Items
    <2> QED
      BY <1>2, <2>1, <2>3, YieldSame
  <1>3. CASE PullFetches(p)
    BY <1>1, <1>2, <1>3 DEF PullFetches, PullFetch, PullFetchFull
  <1>4. CASE PullTrouble(p) \/ PullBegin(p) \/ PullSave(p)
    <2>1. \A q \in Pullers : pull'[q].items \subseteq pull[q].items
      BY <1>0, <1>4, VersionsTyped
      DEF PullTrouble, PullFail, PullCrash, PullRevoked, PullBegin, PullSave, IdlePull, PullJob
    <2>2. UNCHANGED <<local, remote, mapping, outbox>> /\ used'.binds = used.binds
      BY <1>1, <1>4 DEF PullTrouble, PullFail, PullCrash, PullRevoked, PullBegin, PullSave
    <2> QED
      BY <2>1, <2>2, YieldStill
  <1>5. ASSUME NEW S, RemoveLocal(S), UNCHANGED <<remote, used>>,
               \A q \in Pullers : pull'[q].items \subseteq pull[q].items
        PROVE  \A e \in Events : Yields(e)'
    <2>1. ASSUME NEW e \in Events, e \in S PROVE Yields(e)'
      <3>1. local'[e].status # "live" /\ outbox'[e].op # "upsert"
        BY <1>0, <1>5, <2>1, VersionsTyped DEF RemoveLocal, NoRow, Live, LocalEvent
      <3> QED
        BY <3>1, YieldNow
    <2>2. ASSUME NEW e \in Events, e \notin S PROVE Yields(e)'
      BY <1>5, <2>2, YieldSame DEF RemoveLocal
    <2> QED
      BY <2>1, <2>2
  <1>6. CASE PullCommit(p)
    <2>1. \A q \in Pullers : pull'[q].items \subseteq pull[q].items
      BY <1>0, <1>6, VersionsTyped DEF PullCommit, PullJob
    <2> QED
      BY <1>5, <1>6, <2>1 DEF PullCommit
  <1>7. ASSUME NEW it, Takes(p, it)
        PROVE  /\ \A q \in Pullers : pull'[q].items \subseteq pull[q].items
               /\ UNCHANGED <<remote, used>> /\ it.rid \in Remotes /\ used.binds # 0
    <2>1. binding.bound
      BY <1>7, ApplyingAlone DEF Takes
    <2> QED
      BY <1>0, <1>7, <2>1, VersionsTyped DEF Takes, PullJob
  <1>8. ASSUME NEW it, PullCancelled(p, it) PROVE \A e \in Events : Yields(e)'
    BY <1>5, <1>7, <1>8 DEF PullCancelled
  <1>9. ASSUME NEW it, NEW e \in Events, Takes(p, it), mapping' = SaveMapping(e, it, it.event.val),
               outbox'[e].op # "upsert",
               \A x \in Events : x # e => local'[x] = local[x] /\ outbox'[x] = outbox[x],
               \A x \in Owners(it.rid) : x # e => ~Live(x)
        PROVE  \A x \in Events : Yields(x)'
    <2>1. Yields(e)'
      <3>1. Mapped(e)'
        BY <1>7, <1>9 DEF SaveMapping, MapTo, Mapped
      <3> QED
        BY <1>7, <1>9, <3>1, YieldNow
    <2>2. ASSUME NEW x \in Events, x # e PROVE Yields(x)'
      <3>1. CASE mapping[x].rid = it.rid
        <4>1. ~Live(x)
          BY <1>9, <2>2, <3>1 DEF Owners
        <4>2. local'[x].status # "live" /\ outbox'[x].op # "upsert"
          BY <1>0, <1>9, <2>2, <4>1 DEF RowInv, Live
        <4> QED
          BY <4>2, YieldNow
      <3>2. CASE mapping[x].rid # it.rid
        <4>1. mapping'[x] = mapping[x]
          BY <1>9, <2>2, <3>2 DEF SaveMapping
        <4> QED
          BY <1>7, <1>9, <2>2, <4>1, YieldSame
      <3> QED
        BY <3>1, <3>2
    <2> QED
      BY <2>1, <2>2
  <1>10. ASSUME NEW it, NEW e \in Events, PullAdopt(p, it, e) PROVE FALSE
    <2>1. Takes(p, it) /\ Live(e) /\ local[e].uid = it.rid /\ ~Mapped(e)
      BY <1>10 DEF PullAdopt, Adoptable
    <2> QED
      BY <1>7, <2>1 DEF Yields
  <1>11. ASSUME NEW it, NEW e \in Events, PullCreate(p, it, e) PROVE \A x \in Events : Yields(x)'
    <2>1. /\ Takes(p, it) /\ Unmatched(it.rid) /\ mapping' = SaveMapping(e, it, it.event.val)
          /\ outbox' = outbox /\ local[e] = NoLocal
      BY <1>11 DEF PullCreate
    <2>2. \A x \in Events : x # e => local'[x] = local[x]
      BY <1>0, <1>11, VersionsTyped DEF PullCreate
    <2>3. outbox'[e].op # "upsert"
      BY <1>0, <2>1 DEF RowInv, Live, NoLocal
    <2> QED
      BY <1>9, <2>1, <2>2, <2>3 DEF Unmatched
  <1>12. ASSUME NEW it, NEW e \in Events, PullUpdate(p, it, e) PROVE \A x \in Events : Yields(x)'
    <2>1. Takes(p, it) /\ e \in Owners(it.rid) /\ TakeRemote(e, it)
      BY <1>12 DEF PullUpdate
    <2>2. /\ outbox'[e].op # "upsert"
          /\ \A x \in Events : x # e => local'[x] = local[x] /\ outbox'[x] = outbox[x]
      BY <1>0, <2>1, VersionsTyped DEF TakeRemote, NoRow
    <2>3. \A x \in Owners(it.rid) : x = e
      BY <1>0, <1>7, <2>1 DEF MapInv, Owners, Mapped
    <2> QED
      BY <1>9, <2>1, <2>2, <2>3 DEF TakeRemote
  <1>13. ASSUME NEW it, NEW e \in Events, PullKeep(p, it, e) PROVE \A x \in Events : Yields(x)'
    BY <1>7, <1>13, YieldStill DEF PullKeep
  <1> QED
    BY <1>3, <1>4, <1>6, <1>8, <1>10, <1>11, <1>12, <1>13 DEF PullWork

LEMMA YieldPush ==
    ASSUME SyncInv, \A e \in Events : Kept(e), \A e \in Events : Yields(e),
           used.binds = 0 => ~binding.bound,
           NEW e \in Events, PushClaim(e) \/ PushWork(e) \/ PushTrouble(e)
    PROVE  \A x \in Events : Yields(x)'
  <1>0. TypeOK /\ UnboundInv /\ PushInv /\ RowInv /\ MapInv /\ RemoteInv
    BY DEF SyncInv
  <1>1. ASSUME Fault \/ Lost PROVE used'.binds = used.binds
    BY <1>0, <1>1 DEF Fault, Lost, TypeOK
  <1>2. ASSUME Retry(e) PROVE \A x \in Events : outbox'[x].op = "upsert" => outbox[x].op = "upsert"
    <2>1. CASE outbox[e].tries + 1 >= MaxTries
      BY <1>0, <1>2, <2>1, VersionsTyped DEF Retry, NoRow
    <2>2. CASE ~(outbox[e].tries + 1 >= MaxTries)
      <3>1. outbox' = [outbox EXCEPT ![e] = [outbox[e] EXCEPT !.tries = @ + 1]] /\ outbox[e] \in OutboxRow
        BY <1>0, <1>2, <2>2, VersionsTyped DEF Retry
      <3> QED
        BY <1>0, <3>1, VersionsTyped DEF OutboxRow
    <2> QED
      BY <2>1, <2>2
  <1>3. ASSUME push.phase # "idle", push.event = e, Upsert(e), NEW r \in Remotes,
               NEW answered \in BOOLEAN, Write(e, r, answered), Owners(r) \subseteq {e}
        PROVE  \A x \in Events : Yields(x)'
    <2> DEFINE it == [rid |-> r, event |-> Sent(e)]
    <2>1. /\ remote' = [remote EXCEPT ![r] = Sent(e)]
          /\ Answer(e, answered, SaveMapping(e, it, local[e].val))
      BY <1>3 DEF Write
    <2>2. UNCHANGED <<local, pull>> /\ it.rid = r
      BY <2>1 DEF Answer
    <2>3. remote'[r].val = local[e].val /\ \A x \in Remotes : x # r => remote'[x] = remote[x]
      BY <1>0, <2>1, VersionsTyped DEF Sent
    <2>4. ASSUME NEW x \in Events, x # e, mapping'[x] = mapping[x], outbox'[x] = outbox[x],
                 used'.binds = used.binds
          PROVE  Yields(x)'
      <3>1. Mapped(x) => mapping[x].rid \in Remotes /\ mapping[x].rid # r
        BY <1>0, <1>3, <2>4, VersionsTyped DEF Mapped, Mapping, Owners
      <3> QED
        BY <2>2, <2>3, <2>4, <3>1, YieldSame
    <2>5. CASE ~answered
      <3>1. UNCHANGED mapping /\ (Retry(e) \/ UNCHANGED <<outbox, gaveUp>>) /\ used'.binds = used.binds
        BY <1>1, <2>1, <2>5 DEF Answer, Unanswered
      <3>2. \A x \in Events : outbox'[x].op = "upsert" => outbox[x].op = "upsert"
        BY <1>2, <3>1
      <3>3. ASSUME NEW x \in Events
            PROVE  Mapped(x) => \/ remote'[mapping[x].rid] = remote[mapping[x].rid]
                                \/ remote'[mapping[x].rid].val >= local[x].val
        <4>1. CASE Mapped(x) /\ mapping[x].rid = r
          BY <1>0, <1>3, <2>3, <4>1, VersionsTyped DEF Owners
        <4>2. CASE Mapped(x) /\ mapping[x].rid # r
          BY <1>0, <2>3, <4>2, VersionsTyped DEF Mapped, Mapping
        <4> QED
          BY <4>1, <4>2
      <3> QED
        BY <2>2, <3>1, <3>2, <3>3, YieldSame
    <2>6. CASE answered
      <3>1. /\ mapping' = SaveMapping(e, it, local[e].val) /\ UNCHANGED used
            /\ outbox' = [outbox EXCEPT ![e] = NoRow]
        BY <2>1, <2>6 DEF Answer, Finish
      <3>2. outbox'[e].op # "upsert" /\ \A x \in Events : x # e => outbox'[x] = outbox[x]
        BY <1>0, <3>1, VersionsTyped DEF NoRow
      <3>3. binding.bound
        BY <1>0, <1>3 DEF UnboundInv, IdlePush
      <3> HIDE DEF it
      <3>4. Mapped(e)' /\ \A x \in Events : x # e => mapping'[x] = mapping[x]
        BY <1>3, <2>2, <3>1 DEF SaveMapping, MapTo, Mapped, Owners
      <3>5. Yields(e)'
        BY <3>1, <3>2, <3>3, <3>4, YieldNow
      <3> QED
        BY <2>4, <3>1, <3>2, <3>4, <3>5
    <2> QED
      BY <2>5, <2>6
  <1>4. ASSUME push.phase # "idle", Upsert(e), push.event = e, RemoteId(e) # None,
               NEW answered \in BOOLEAN, Write(e, RemoteId(e), answered)
        PROVE  \A x \in Events : Yields(x)'
    <2>1. RemoteId(e) \in Remotes /\ Owners(RemoteId(e)) \subseteq {e}
      BY <1>0, <1>4, RemoteIdMapped DEF MapInv, Owners
    <2> QED
      BY <1>3, <1>4, <2>1
  <1>5. ASSUME NEW answered \in BOOLEAN, PushPatch(e, answered) PROVE \A x \in Events : Yields(x)'
    BY <1>4, <1>5 DEF PushPatch, Sending
  <1>6. ASSUME NEW answered \in BOOLEAN, PushForce(e, answered) PROVE \A x \in Events : Yields(x)'
    BY <1>0, <1>4, <1>6 DEF PushForce, Sending, PushInv
  <1>7. ASSUME NEW answered \in BOOLEAN, NEW r \in Remotes, PushInsert(e, r, answered)
        PROVE  \A x \in Events : Yields(x)'
    <2>1. Owners(r) \subseteq {e}
      BY <1>0, <1>7 DEF PushInsert, RemoteInv, Owners, Mapped, NoRemote
    <2> QED
      BY <1>3, <1>7, <2>1 DEF PushInsert, Sending
  <1>8. ASSUME NEW answered \in BOOLEAN, PushDelete(e, answered) PROVE \A x \in Events : Yields(x)'
    <2>1. /\ push.phase # "idle" /\ push.event = e /\ UNCHANGED <<local, pull>>
          /\ Answer(e, answered, [mapping EXCEPT ![e] = NoMapping]) /\ ~Upsert(e)
      BY <1>8 DEF PushDelete, Sending, Answer
    <2>2. ~Live(e) /\ outbox[e].op # "upsert"
      BY <1>0, <2>1, VersionsTyped DEF PushInv, Pending, Upsert, Kept, RowInv, OutboxRow, Live
    <2>3. /\ \A x \in Events : outbox'[x].op = "upsert" => outbox[x].op = "upsert"
          /\ \A x \in Events : x # e => mapping'[x] = mapping[x]
          /\ used'.binds = used.binds
      <3>1. CASE answered
        <4>1. /\ mapping' = [mapping EXCEPT ![e] = NoMapping] /\ UNCHANGED used
              /\ outbox' = [outbox EXCEPT ![e] = NoRow]
          BY <2>1, <3>1 DEF Answer, Finish
        <4> QED
          BY <1>0, <4>1, VersionsTyped DEF NoRow
      <3>2. CASE ~answered
        <4>1. UNCHANGED mapping /\ (Retry(e) \/ UNCHANGED <<outbox, gaveUp>>) /\ used'.binds = used.binds
          BY <1>1, <2>1, <3>2 DEF Answer, Unanswered
        <4> QED
          BY <1>2, <4>1
      <3> QED
        BY <3>1, <3>2
    <2>4. \A x \in Remotes : x # RemoteId(e) => remote'[x] = remote[x]
      <3>1. CASE UNCHANGED remote
        BY <3>1
      <3>2. CASE remote' = [remote EXCEPT ![RemoteId(e)].status = "cancelled",
                                          ![RemoteId(e)].val = local[e].at, ![RemoteId(e)].at = Now]
        BY <1>0, <3>2, VersionsTyped
      <3> QED
        BY <1>8, <3>1, <3>2 DEF PushDelete
    <2>5. Yields(e)'
      BY <2>1, <2>2, <2>3, YieldNow DEF Live
    <2>6. ASSUME NEW x \in Events, x # e PROVE Yields(x)'
      <3>1. Mapped(x) => mapping[x].rid \in Remotes /\ mapping[x].rid # RemoteId(e)
        BY <1>0, <2>6, RemoteIdMapped, VersionsTyped DEF Mapped, Mapping, MapInv
      <3> QED
        BY <2>1, <2>3, <2>4, <2>6, <3>1, YieldSame
    <2> QED
      BY <2>5, <2>6
  <1>9. CASE PushLoses(e)
    <2> DEFINE it == [rid |-> RemoteId(e), event |-> remote[RemoteId(e)]]
    <2>1. /\ TakeRemote(e, it) /\ UNCHANGED <<remote, pull, used>>
          /\ push.phase # "idle" /\ RemoteId(e) # None
      BY <1>9 DEF PushLoses, Mismatch, Sending
    <2>2. it.rid = mapping[e].rid /\ it.rid \in Remotes /\ Mapped(e) /\ binding.bound
      BY <1>0, <2>1, RemoteIdMapped DEF UnboundInv, IdlePush
    <2> HIDE DEF it
    <2>3. /\ outbox'[e].op # "upsert"
          /\ \A x \in Events : x # e => local'[x] = local[x] /\ outbox'[x] = outbox[x]
      BY <1>0, <2>1, VersionsTyped DEF TakeRemote, NoRow
    <2>4. /\ mapping'[e].rid = it.rid
          /\ \A x \in Events : x # e => mapping'[x] = mapping[x]
      BY <1>0, <2>1, <2>2 DEF TakeRemote, SaveMapping, MapTo, MapInv, Mapped
    <2>5. Yields(e)'
      BY <2>1, <2>2, <2>3, <2>4, YieldNow DEF Mapped
    <2>6. \A x \in Events : x # e => Yields(x)'
      BY <2>1, <2>3, <2>4, YieldSame
    <2> QED
      BY <2>5, <2>6
  <1>10. CASE PushClaim(e) \/ PushInsists(e)
    BY <1>10, YieldStill DEF PushClaim, PushInsists
  <1>11. CASE PushError(e)
    BY <1>1, <1>2, <1>11, YieldStill DEF PushError
  <1>12. ASSUME NEW account \in {"ok", "revoked"}, PushAbort(e, account) PROVE \A x \in Events : Yields(x)'
    BY <1>1, <1>12, YieldStill DEF PushAbort
  <1> QED
    BY <1>5, <1>6, <1>7, <1>8, <1>9, <1>10, <1>11, <1>12 DEF PushWork, PushTrouble

\* Every step keeps YieldInv.
LEMMA YieldStep ==
    ASSUME SyncInv, TimeInv, KeptInv, YieldInv, [Next]_vars
    PROVE  YieldInv'
  <1>0. TypeOK /\ TypeOK'
    BY NextTyped DEF SyncInv
  <1>1. CASE UNCHANGED vars
    BY <1>1 DEF vars, YieldInv, BoundOnce, Yields, NotOlder, Live, Mapped
  <1>2. CASE Next
    <2>1. /\ used.restores <= used'.restores /\ used.binds <= used'.binds
          /\ used'.restores = 0 => \A e \in Events : ~RestoreLocal(e)
          /\ Bind => used'.binds = used.binds + 1
          /\ ~Bind => used'.binds = used.binds
          /\ used.restores \in Nat /\ used.binds \in Nat /\ used'.restores \in Nat /\ used'.binds \in Nat
      BY <1>0, <1>2, CountersGrow
    <2>2. ~Bind => (binding'.bound => binding.bound)
      <3>1. CASE UserStep
        <4>1. ASSUME NEW r \in Remotes, RemoteCreate(r) \/ RemoteEdit(r) \/ RemoteDelete(r) PROVE UNCHANGED binding
          BY <4>1 DEF RemoteCreate, RemoteEdit, RemoteDelete, RemoteStep
        <4>2. ASSUME NEW e \in Events, CreateLocal(e) \/ EditLocal(e) \/ DeleteLocal(e) \/ RestoreLocal(e)
              PROVE  UNCHANGED binding
          BY <4>2 DEF CreateLocal, EditLocal, DeleteLocal, RestoreLocal, LocalStep
        <4>3. CASE Unbind
          <5>1. binding' = [binding EXCEPT !.bound = FALSE, !.token = 0]
            BY <4>3 DEF Unbind
          <5>2. binding \in [bound : BOOLEAN, token : Nat, account : {"ok", "revoked"}]
            BY <1>0 DEF TypeOK
          <5> QED
            BY <5>1, <5>2
        <4> QED
          BY <3>1, <4>1, <4>2, <4>3 DEF UserStep
      <3>2. CASE ~UserStep
        <4>2. CASE Connect
          BY <1>0, <4>2 DEF Connect, TypeOK
        <4>3. ASSUME NEW p \in Pullers, PullFetches(p) \/ PullWork(p) \/ PullTrouble(p)
              PROVE  binding'.bound = binding.bound
          <5>1. CASE PullFetches(p)
            BY <5>1 DEF PullFetches, PullFetch, PullFetchFull, Fetched
          <5>2. CASE PullTrouble(p)
            BY <1>0, <5>2 DEF PullTrouble, PullFail, PullCrash, PullRevoked, TypeOK
          <5>3. CASE PullBegin(p) \/ PullCommit(p) \/ PullSave(p)
            BY <1>0, <5>3 DEF PullBegin, PullCommit, PullSave, TypeOK
          <5>4. ASSUME NEW it, Takes(p, it) PROVE binding'.bound = binding.bound
            BY <5>4 DEF Takes
          <5> QED
            BY <4>3, <5>1, <5>2, <5>3, <5>4
            DEF PullWork, PullCancelled, PullAdopt, PullCreate, PullKeep, PullUpdate
        <4>4. ASSUME NEW e \in Events, PushClaim(e) \/ PushWork(e) \/ PushTrouble(e)
              PROVE  binding'.bound = binding.bound
          <5>1. ASSUME NEW answered, NEW map, Answer(e, answered, map) PROVE UNCHANGED binding
            BY <5>1 DEF Answer
          <5>2. ASSUME NEW r, NEW answered, Write(e, r, answered) PROVE UNCHANGED binding
            BY <5>1, <5>2 DEF Write
          <5>3. ASSUME NEW account \in {"ok", "revoked"}, PushAbort(e, account)
                PROVE  binding'.bound = binding.bound
            BY <1>0, <5>3 DEF PushAbort, TypeOK
          <5>4. CASE PushWork(e)
            BY <5>1, <5>2, <5>4
            DEF PushWork, PushLoses, PushInsists, PushDelete, PushPatch, PushForce, PushInsert
          <5>5. CASE PushTrouble(e)
            BY <5>1, <5>2, <5>3, <5>5 DEF PushTrouble, PushDelete, PushPatch, PushForce, PushInsert, PushError
          <5> QED
            BY <4>4, <5>4, <5>5 DEF PushClaim
        <4> QED
          BY <1>2, <3>2, <4>2, <4>3, <4>4 DEF Next
      <3> QED
        BY <3>1, <3>2
    <2>3. used'.binds = 0 => ~binding'.bound
      BY <2>1, <2>2 DEF YieldInv
    <2>4. ASSUME BoundOnce', used'.binds = 0 \/ binding'.bound PROVE \A e \in Events : Yields(e)'
      <3>1. /\ BoundOnce /\ (Bind => used.binds = 0) /\ (used.binds = 0 \/ binding.bound)
            /\ \A e \in Events : ~RestoreLocal(e)
        BY <2>1, <2>2, <2>4 DEF BoundOnce
      <3>2. \A e \in Events : Yields(e) /\ Kept(e)
        BY <3>1 DEF YieldInv, KeptInv, BoundOnce
      <3>3. used.binds = 0 => ~binding.bound
        BY DEF YieldInv
      <3>4. ~Unbind
        <4> SUFFICES ASSUME Unbind PROVE FALSE
          OBVIOUS
        <4>1. binding' = [binding EXCEPT !.bound = FALSE, !.token = 0] /\ binding.bound /\ UNCHANGED used
          BY DEF Unbind
        <4>2. binding \in [bound : BOOLEAN, token : Nat, account : {"ok", "revoked"}]
          BY <1>0 DEF TypeOK
        <4> QED
          BY <2>4, <3>3, <4>1, <4>2
      <3>5. CASE Connect
        BY <3>2, <3>5, YieldStill DEF Connect
      <3> QED
        BY <1>0, <1>2, <3>1, <3>2, <3>3, <3>4, <3>5, YieldUser, YieldPull, YieldPush DEF Next
    <2> QED
      BY <2>3, <2>4 DEF YieldInv
  <1> QED
    BY <1>1, <1>2

\* A waiting edit and the next state of its event.
Yielded(e) == Live(e) /\ local'[e].status = "live" /\ outbox[e].op = "upsert"
                => local'[e].val >= local[e].val

\* The step from a state of the invariants to the next.
LEMMA YieldedStep ==
    ASSUME SyncInv, TimeInv, KeptInv, YieldInv, BoundOnce, BoundOnce', Next, NEW x \in Events
    PROVE  Yielded(x)
  <1> SUFFICES ASSUME outbox[x].op = "upsert", local'[x].status = "live" PROVE local'[x].val >= local[x].val
    BY DEF Yielded
  <1>0. TypeOK /\ UnboundInv /\ RowInv /\ MapInv /\ PushInv
    BY DEF SyncInv
  <1>1. Yields(x) /\ Live(x) /\ local[x].val \in Nat /\ local[x].at \in Nat
    <2>1. binding.bound
      BY <1>0 DEF UnboundInv, NoRow
    <2> QED
      BY <1>0, <2>1, VersionsTyped DEF YieldInv, RowInv
  <1>2. ASSUME local'[x].val = local[x].val PROVE local'[x].val >= local[x].val
    BY <1>1, <1>2
  <1>3. CASE UserStep
    <2>1. ASSUME NEW e \in Events, CreateLocal(e) PROVE local'[x].val >= local[x].val
      <3>1. e # x
        BY <1>1, <2>1 DEF CreateLocal, NoLocal, Live
      <3> QED
        BY <1>0, <1>2, <2>1, <3>1, VersionsTyped DEF CreateLocal
    <2>2. ASSUME NEW e \in Events, EditLocal(e) PROVE local'[x].val >= local[x].val
      <3>1. local' = [local EXCEPT ![e] = [local[e] EXCEPT !.val = Now, !.at = Now]]
        BY <2>2 DEF EditLocal
      <3>2. local'[x].val = local[x].val \/ local'[x].val = Now
        BY <1>0, <3>1, VersionsTyped DEF LocalEvent
      <3> QED
        BY <1>0, <1>1, <3>2, VersionsTyped DEF TimeInv
    <2>3. ASSUME NEW e \in Events, DeleteLocal(e) PROVE local'[x].val >= local[x].val
      <3>1. local' = [local EXCEPT ![e] = [local[e] EXCEPT !.status = "trashed", !.at = Now]]
        BY <2>3 DEF DeleteLocal
      <3>2. local'[x].val = local[x].val
        BY <1>0, <3>1, VersionsTyped DEF LocalEvent
      <3> QED
        BY <1>2, <3>2
    <2>4. ASSUME NEW e \in Events, RestoreLocal(e) PROVE local'[x].val >= local[x].val
      BY <1>0, <2>4, CountersGrow DEF BoundOnce
    <2>5. ASSUME NEW r \in Remotes, RemoteCreate(r) \/ RemoteEdit(r) \/ RemoteDelete(r)
          PROVE  local'[x].val >= local[x].val
      BY <1>2, <2>5 DEF RemoteCreate, RemoteEdit, RemoteDelete, RemoteStep
    <2>6. CASE Bind \/ Unbind
      BY <1>2, <2>6 DEF Bind, Unbind
    <2> QED
      BY <1>3, <2>1, <2>2, <2>3, <2>4, <2>5, <2>6 DEF UserStep
  <1>4. CASE Connect
    BY <1>2, <1>4 DEF Connect
  <1>5. ASSUME NEW e \in Events, NEW it,
               local' = [local EXCEPT ![e].val = it.event.val, ![e].at = stamp],
               e = x => it.event.val >= local[x].val
        PROVE  local'[x].val >= local[x].val
    <2>1. local' = [local EXCEPT ![e] = [local[e] EXCEPT !.val = it.event.val, !.at = stamp]]
      BY <1>5
    <2>2. /\ e # x => local'[x] = local[x]
          /\ local'[e].val = it.event.val
      BY <1>0, <2>1, VersionsTyped DEF LocalEvent
    <2> QED
      BY <1>2, <1>5, <2>2
  <1>6. ASSUME NEW S, RemoveLocal(S) PROVE local'[x].val = local[x].val
    BY <1>0, <1>6, VersionsTyped DEF RemoveLocal, LocalEvent
  <1>7. ASSUME NEW p \in Pullers, PullFetches(p) \/ PullWork(p) \/ PullTrouble(p)
        PROVE  local'[x].val >= local[x].val
    <2>1. CASE PullFetches(p)
      BY <1>2, <2>1 DEF PullFetches, PullFetch, PullFetchFull, Fetched
    <2>2. CASE PullTrouble(p) \/ PullBegin(p) \/ PullSave(p)
      BY <1>2, <2>2 DEF PullTrouble, PullFail, PullCrash, PullRevoked, PullBegin, PullSave
    <2>3. CASE PullCommit(p)
      BY <1>2, <1>6, <2>3 DEF PullCommit
    <2>4. ASSUME NEW it, PullCancelled(p, it) PROVE local'[x].val >= local[x].val
      BY <1>2, <1>6, <2>4 DEF PullCancelled
    <2>5. ASSUME NEW it, NEW e \in Events, PullAdopt(p, it, e) PROVE local'[x].val >= local[x].val
      <3>1. it.rid \in Remotes /\ Adoptable(e, it.rid) /\ binding.bound
        BY <1>0, <2>5, ItemTyped, ApplyingAlone DEF PullAdopt, Takes
      <3>2. Yields(e)
        BY <3>1 DEF YieldInv
      <3> QED
        BY <3>1, <3>2 DEF Adoptable, Yields
    <2>6. ASSUME NEW it, NEW e \in Events, PullCreate(p, it, e) PROVE local'[x].val >= local[x].val
      <3>1. e # x
        BY <1>1, <2>6 DEF PullCreate, NoLocal, Live
      <3> QED
        BY <1>0, <1>2, <2>6, <3>1, VersionsTyped DEF PullCreate
    <2>7. ASSUME NEW it, NEW e \in Events, PullKeep(p, it, e) PROVE local'[x].val >= local[x].val
      BY <1>2, <2>7 DEF PullKeep
    <2>8. ASSUME NEW it, NEW e \in Events, PullUpdate(p, it, e) PROVE local'[x].val >= local[x].val
      <3>1. /\ Takes(p, it) /\ e \in Owners(it.rid) /\ ~KeepsLocal(e, it) /\ Live(e)
            /\ local' = [local EXCEPT ![e].val = it.event.val, ![e].at = stamp]
        BY <2>8 DEF PullUpdate, TakeRemote
      <3>2. it \in pull[p].items /\ it.rid \in Remotes /\ it.event.at \in Nat /\ it.event.val \in Nat
        BY <1>0, <3>1, VersionsTyped DEF Takes
      <3>3. ASSUME e = x PROVE it.event.val >= local[x].val
        <4>1. Mapped(x) /\ it.rid = mapping[x].rid
          BY <3>1, <3>2, <3>3 DEF Owners, Mapped
        <4>2. it.event.at >= local[x].at
          BY <1>1, <3>1, <3>2, <3>3 DEF KeepsLocal, LocalWins, Pending
        <4> QED
          BY <1>1, <3>2, <4>1, <4>2 DEF Yields, NotOlder
      <3> QED
        BY <1>5, <3>1, <3>3
    <2> QED
      BY <1>7, <2>1, <2>2, <2>3, <2>4, <2>5, <2>6, <2>7, <2>8 DEF PullWork
  <1>8. ASSUME NEW e \in Events, PushClaim(e) \/ PushWork(e) \/ PushTrouble(e)
        PROVE  local'[x].val >= local[x].val
    <2>1. ASSUME NEW answered, NEW map, Answer(e, answered, map) PROVE UNCHANGED local
      BY <2>1 DEF Answer
    <2>2. ASSUME NEW r, NEW answered, Write(e, r, answered) PROVE UNCHANGED local
      BY <2>1, <2>2 DEF Write
    <2>3. CASE PushLoses(e)
      <3> DEFINE it == [rid |-> RemoteId(e), event |-> remote[RemoteId(e)]]
      <3>1. /\ ~LocalNewer(e) /\ RemoteId(e) # None
            /\ local' = [local EXCEPT ![e].val = it.event.val, ![e].at = stamp]
        BY <2>3 DEF PushLoses, Mismatch, TakeRemote
      <3>2. Mapped(e) /\ RemoteId(e) = mapping[e].rid /\ RemoteId(e) \in Remotes
        BY <3>1, RemoteIdMapped
      <3>3. ASSUME e = x PROVE it.event.val >= local[x].val
        <4>1. remote[RemoteId(e)].at >= local[x].at
          BY <1>0, <1>1, <3>1, <3>2, <3>3, VersionsTyped DEF LocalNewer
        <4> QED
          BY <1>1, <3>2, <3>3, <4>1 DEF Yields, NotOlder
      <3> QED
        BY <1>5, <3>1, <3>3
    <2>4. CASE PushWork(e) /\ ~PushLoses(e)
      <3>1. UNCHANGED local
        BY <2>1, <2>2, <2>4 DEF PushWork, PushInsists, PushDelete, PushPatch, PushForce, PushInsert
      <3> QED
        BY <1>2, <3>1
    <2>5. CASE PushTrouble(e)
      <3>1. UNCHANGED local
        BY <2>1, <2>2, <2>5
        DEF PushTrouble, PushDelete, PushPatch, PushForce, PushInsert, PushError, PushAbort
      <3> QED
        BY <1>2, <3>1
    <2>6. CASE PushClaim(e)
      BY <1>2, <2>6 DEF PushClaim
    <2> QED
      BY <1>8, <2>3, <2>4, <2>5, <2>6
  <1> QED
    BY <1>3, <1>4, <1>7, <1>8 DEF Next

\* In a calendar bound once, with nothing taken out of the trash, a local edit that waits
\* to be sent is replaced only by a newer edit or by a newer version of Google's: the
\* comparison of times in update() and resolveEvent() decides by content, whatever was
\* fetched before the edit and whatever answers were lost.  (A rebind seeds rows for
\* events that pulls may still adopt.)
THEOREM EditsYieldToNewer == Spec /\ []BoundOnce => PendingYieldsToNewer
  <1>1. Init => TimeInv /\ KeptInv /\ YieldInv
    <2>1. Init => TimeInv
      BY DEF Init, TimeInv, NoLocal, NoRemote, IdlePull
    <2>2. Init => KeptInv
      BY DEF Init, KeptInv, Kept, NoRow, NoLocal, Live
    <2>3. Init => YieldInv
      <3> SUFFICES ASSUME Init PROVE ~binding.bound /\ \A e \in Events : Yields(e)
        BY DEF YieldInv
      <3> QED
        BY DEF Init, Yields, Live, NoLocal, NoRow
    <2> QED
      BY <2>1, <2>2, <2>3
  <1>2. SyncInv /\ TimeInv /\ KeptInv /\ YieldInv /\ [Next]_vars => TimeInv' /\ KeptInv' /\ YieldInv'
    BY TimeStep, KeptNext, YieldStep
  <1>3. SyncInv /\ TimeInv /\ KeptInv /\ YieldInv /\ BoundOnce /\ BoundOnce' /\ [Next]_vars
          => [\A e \in Events :
                Live(e) /\ local'[e].status = "live" /\ outbox[e].op = "upsert"
                  => local'[e].val >= local[e].val]_vars
    <2> SUFFICES ASSUME SyncInv, TimeInv, KeptInv, YieldInv, BoundOnce, BoundOnce', Next, NEW e \in Events
                 PROVE  Yielded(e)
      BY DEF Yielded
    <2> QED
      BY YieldedStep
  <1> QED
    BY <1>1, <1>2, <1>3, InvHolds, PTL DEF Spec, PendingYieldsToNewer

-----------------------------------------------------------------------------
(* The agreement of the two calendars, for a binding with one pull job at  *)
(* a time: what the token has passed is settled here.                      *)

\* One pull of the binding runs at a time (two may overwrite each other's token).
OnePuller == \A p, q \in Pullers : p = q

\* The event has Google's content, or a change that waits or was given up.
Good(e, r) == Pending(e) \/ e \in gaveUp \/ mapping[e].val = remote[r].val

\* The version Google has now was taken over here.
Settled(r) ==
    /\ remote[r].status = "cancelled" => Owners(r) = {}
    /\ remote[r].status = "live" => \E e \in Owners(r) : Good(e, r)

Behind(r, token) == remote[r].at <= token

\* Versions are told apart by their time.
VersionInv ==
    /\ \A r \in Remotes : remote[r].status # "absent" => remote[r].at > 0
    /\ \A e \in Events : Mapped(e) =>
         /\ mapping[e].etag <= stamp
         /\ mapping[e].etag = remote[mapping[e].rid].at => remote[mapping[e].rid].val = mapping[e].val

\* What a pull has read: of every event that did not change since its fetch, the version
\* is settled, or still to be applied, or reconcile() will notice that it is gone.
PullReads(p) ==
    /\ binding.token = pull[p].old /\ pull[p].old <= pull[p].token /\ pull[p].token <= stamp
    /\ \A it \in pull[p].items :
         /\ it.event.at <= pull[p].token
         /\ Behind(it.rid, pull[p].token) => it.event = remote[it.rid]
    /\ \A r \in Remotes : Behind(r, pull[p].token) =>
         \/ Settled(r)
         \/ [rid |-> r, event |-> remote[r]] \in pull[p].items
         \/ pull[p].full /\ pull[p].phase # "applied" /\ remote[r].status = "cancelled" /\ r \notin pull[p].seen
    /\ pull[p].full /\ pull[p].phase # "applied" =>
         \A r \in LiveRemotes : Behind(r, pull[p].token) => r \in pull[p].seen
    /\ pull[p].phase = "applied" => pull[p].items = {}

\* Everything that the token has passed is settled.
ReadInv ==
    /\ binding.token <= stamp
    /\ binding.bound => \A r \in Remotes : Behind(r, binding.token) => Settled(r)
    /\ \A p \in Pullers : pull[p].phase # "idle" => PullReads(p)

USE SyncAssumption

-----------------------------------------------------------------------------
(* What keeps an event settled.                                              *)

LEMMA SettledSame ==
    ASSUME NEW r \in Remotes, Settled(r), remote'[r] = remote[r],
           remote[r].status = "cancelled" => \A e \in Events : mapping'[e].rid = r => mapping[e].rid = r,
           remote[r].status = "live" =>
             \A e \in Owners(r) : Good(e, r) => mapping'[e].rid = r /\ Good(e, r)'
    PROVE  Settled(r)'
  BY DEF Settled, Owners

\* Tables, tokens and jobs stay, Google may have a new version.
LEMMA ReadOn ==
    ASSUME TypeOK, ReadInv, stamp' \in {stamp, Now},
           \A r \in Remotes : remote'[r] = remote[r] \/ remote'[r].at = Now,
           \A r \in Remotes : Settled(r) /\ remote'[r] = remote[r] => Settled(r)',
           binding'.token = binding.token, binding'.bound = binding.bound, UNCHANGED pull
    PROVE  ReadInv'
  <1>0. stamp \in Nat /\ binding.token \in Nat /\ Now = stamp + 1
    BY VersionsTyped DEF TypeOK
  <1>1. \A r \in Remotes : \A n \in Nat :
          n <= stamp /\ remote'[r].at <= n => remote'[r] = remote[r] /\ remote[r].at <= n
    BY <1>0
  <1>2. ASSUME NEW p \in Pullers, pull[p].phase # "idle"
        PROVE  PullReads(p)'
    <2>0. PullReads(p) /\ pull[p].token \in Nat /\ pull[p].token <= stamp
      BY <1>2, VersionsTyped DEF ReadInv, PullReads, PullJob
    <2>1. (binding.token = pull[p].old /\ pull[p].old <= pull[p].token /\ pull[p].token <= stamp)'
      BY <1>0, <2>0 DEF PullReads
    <2>2. \A it \in pull[p].items :
            /\ it.event.at <= pull[p].token
            /\ remote'[it.rid].at <= pull[p].token => it.event = remote'[it.rid]
      <3>1. \A it \in pull[p].items : it.rid \in Remotes
        BY VersionsTyped
      <3> QED
        BY <1>1, <2>0, <3>1 DEF PullReads, Behind
    <2>3. ASSUME NEW r \in Remotes, remote'[r].at <= pull[p].token
          PROVE  \/ Settled(r)'
                 \/ [rid |-> r, event |-> remote'[r]] \in pull[p].items
                 \/ pull[p].full /\ pull[p].phase # "applied" /\ remote'[r].status = "cancelled" /\ r \notin pull[p].seen
      <3>1. remote'[r] = remote[r] /\ remote[r].at <= pull[p].token
        BY <1>1, <2>0, <2>3
      <3> QED
        BY <2>0, <3>1 DEF PullReads, Behind
    <2>4. pull[p].full /\ pull[p].phase # "applied" =>
            \A r \in LiveRemotes' : remote'[r].at <= pull[p].token => r \in pull[p].seen
      <3> SUFFICES ASSUME pull[p].full, pull[p].phase # "applied", NEW r \in Remotes,
                          remote'[r].status = "live", remote'[r].at <= pull[p].token
                   PROVE  r \in pull[p].seen
        BY DEF LiveRemotes
      <3>1. remote'[r] = remote[r] /\ remote[r].at <= pull[p].token
        BY <1>1, <2>0
      <3> QED
        BY <2>0, <3>1 DEF PullReads, LiveRemotes, Behind
    <2>5. pull[p].phase = "applied" => pull[p].items = {}
      BY <2>0 DEF PullReads
    <2> QED
      BY <2>1, <2>2, <2>3, <2>4, <2>5 DEF PullReads, Behind
  <1>3. binding'.bound => \A r \in Remotes : remote'[r].at <= binding.token => Settled(r)'
    BY <1>0, <1>1 DEF ReadInv, Behind
  <1> QED
    BY <1>0, <1>2, <1>3 DEF ReadInv, Behind

\* Mappings stay or are those of the present version.
LEMMA VersionOn ==
    ASSUME TypeOK, VersionInv, stamp' \in {stamp, Now},
           \A r \in Remotes : remote'[r] = remote[r] \/ remote'[r].at = Now,
           \A e \in Events : Mapped(e)' =>
              \/ Mapped(e) /\ mapping'[e] = mapping[e]
              \/ /\ mapping'[e].etag <= stamp'
                 /\ mapping'[e].etag = remote'[mapping'[e].rid].at => remote'[mapping'[e].rid].val = mapping'[e].val
    PROVE  VersionInv'
  <1>0. stamp \in Nat /\ Now = stamp + 1 /\ \A r \in Remotes : remote[r].at \in Nat
    BY VersionsTyped
  <1>1. \A e \in Events : mapping[e].etag \in Nat /\ (Mapped(e) => mapping[e].rid \in Remotes)
    BY VersionsTyped DEF Mapping, Mapped
  <1>2. \A r \in Remotes : remote'[r].status # "absent" => remote'[r].at > 0
    BY <1>0 DEF VersionInv
  <1>3. ASSUME NEW e \in Events, Mapped(e)', Mapped(e), mapping'[e] = mapping[e]
        PROVE  /\ mapping'[e].etag <= stamp'
               /\ mapping'[e].etag = remote'[mapping'[e].rid].at => remote'[mapping'[e].rid].val = mapping'[e].val
    BY <1>0, <1>1, <1>3 DEF VersionInv
  <1> QED
    BY <1>2, <1>3 DEF VersionInv

AgreeInv == VersionInv /\ ReadInv

\* Steps that write no table, no token and no job.
LEMMA AgreeStill ==
    ASSUME TypeOK, AgreeInv, stamp' \in {stamp, Now}, UNCHANGED <<mapping, outbox, gaveUp, pull>>,
           \A r \in Remotes : remote'[r] = remote[r] \/ remote'[r].at = Now,
           binding'.token = binding.token, binding'.bound = binding.bound
    PROVE  AgreeInv'
  <1>1. \A r \in Remotes : Settled(r) /\ remote'[r] = remote[r] => Settled(r)'
    BY SettledSame DEF Owners, Good, Pending
  <1>2. ReadInv'
    BY <1>1, ReadOn DEF AgreeInv
  <1>3. VersionInv'
    BY VersionOn DEF AgreeInv, Mapped
  <1> QED
    BY <1>2, <1>3 DEF AgreeInv

-----------------------------------------------------------------------------
(* Steps of users and of the binding.                                        *)

LEMMA AgreeUser ==
    ASSUME SyncInv, AgreeInv, UserStep, TypeOK'
    PROVE  AgreeInv'
  <1>0. TypeOK /\ UnboundInv /\ RemoteInv /\ AgreeInv /\ stamp \in Nat /\ Now = stamp + 1
    BY VersionsTyped DEF SyncInv
  <1>1. ASSUME NEW e \in Events, NEW op \in {"upsert", "delete"}, LocalEdit(e, op) PROVE AgreeInv'
    <2>1. UNCHANGED <<remote, mapping, binding, pull>> /\ gaveUp' = gaveUp \ {e} /\ stamp' = Now
      BY <1>1 DEF LocalEdit, LocalStep, QueueSync
    <2>2. /\ \A x \in Events : x # e => outbox'[x] = outbox[x]
          /\ binding.bound /\ Mapped(e) => outbox'[e].op = op
      BY <1>0, <1>1, VersionsTyped DEF LocalEdit, QueueSync
    <2>3. Mapped(e) => binding.bound
      BY <1>0 DEF UnboundInv, Mapped, NoMapping
    <2>4. ASSUME NEW r \in Remotes, Settled(r) PROVE Settled(r)'
      <3>1. \A x \in Owners(r) : Good(x, r) => Good(x, r)'
        BY <2>1, <2>2, <2>3 DEF Owners, Good, Pending, Mapped
      <3> QED
        BY <2>1, <2>4, <3>1, SettledSame DEF Owners
    <2>5. ReadInv'
      BY <1>0, <2>1, <2>4, ReadOn DEF AgreeInv
    <2>6. VersionInv'
      BY <1>0, <2>1, VersionOn DEF AgreeInv, Mapped
    <2> QED
      BY <2>5, <2>6 DEF AgreeInv
  <1>2. ASSUME NEW e \in Events, RestoreLocal(e) PROVE AgreeInv'
    BY <1>0, <1>2, AgreeStill DEF RestoreLocal, LocalStep
  <1>3. ASSUME NEW r \in Remotes, RemoteCreate(r) \/ RemoteEdit(r) \/ RemoteDelete(r) PROVE AgreeInv'
    <2>1. \A x \in Remotes : remote'[x] = remote[x] \/ remote'[x].at = Now
      <3>1. CASE RemoteCreate(r)
        BY <1>0, <3>1, VersionsTyped DEF RemoteCreate
      <3>2. CASE RemoteEdit(r)
        <4>1. remote' = [remote EXCEPT ![r] = [remote[r] EXCEPT !.val = Now, !.at = Now]]
          BY <3>2 DEF RemoteEdit
        <4> QED
          BY <1>0, <4>1, VersionsTyped DEF RemoteEvent
      <3>3. CASE RemoteDelete(r)
        <4>1. remote' = [remote EXCEPT ![r] = [remote[r] EXCEPT !.status = "cancelled", !.val = Now, !.at = Now]]
          BY <3>3 DEF RemoteDelete
        <4> QED
          BY <1>0, <4>1, VersionsTyped DEF RemoteEvent
      <3> QED
        BY <1>3, <3>1, <3>2, <3>3
    <2>2. UNCHANGED <<mapping, outbox, gaveUp, pull, binding>> /\ stamp' = Now
      BY <1>3 DEF RemoteCreate, RemoteEdit, RemoteDelete, RemoteStep
    <2> QED
      BY <1>0, <2>1, <2>2, AgreeStill
  <1>4. CASE Bind
    <2>1. /\ UNCHANGED <<remote, mapping, pull, stamp>> /\ ~binding.bound
          /\ binding' = [binding EXCEPT !.bound = TRUE, !.token = 0]
      BY <1>4 DEF Bind
    <2>2. binding'.token = 0
      BY <1>0, <2>1 DEF TypeOK
    <2>3. \A p \in Pullers : pull'[p].phase = "idle"
      BY <1>0, <2>1 DEF UnboundInv, IdlePull
    <2>4. \A r \in Remotes : remote'[r].at <= 0 => Settled(r)'
      <3> SUFFICES ASSUME NEW r \in Remotes, remote[r].at <= 0 PROVE Settled(r)'
        BY <2>1
      <3>1. remote[r].status = "absent"
        BY <1>0, VersionsTyped DEF AgreeInv, VersionInv
      <3> QED
        BY <2>1, <3>1 DEF Settled
    <2>5. ReadInv'
      BY <1>0, <2>1, <2>2, <2>3, <2>4 DEF ReadInv, Behind
    <2>6. VersionInv'
      BY <1>0, <2>1, VersionOn DEF AgreeInv, Mapped
    <2> QED
      BY <2>5, <2>6 DEF AgreeInv
  <1>5. CASE Unbind
    <2>1. /\ UNCHANGED <<remote, stamp>> /\ binding' = [binding EXCEPT !.bound = FALSE, !.token = 0]
          /\ \A p \in Pullers : pull'[p].phase = "idle"
          /\ \A e \in Events : ~Mapped(e)'
      BY <1>5 DEF Unbind, IdlePull, Mapped, NoMapping
    <2>2. binding'.token = 0 /\ ~binding'.bound
      BY <1>0, <2>1 DEF TypeOK
    <2>3. ReadInv'
      BY <1>0, <2>1, <2>2 DEF ReadInv
    <2>4. VersionInv'
      BY <1>0, <2>1, VersionOn DEF AgreeInv
    <2> QED
      BY <2>3, <2>4 DEF AgreeInv
  <1> QED
    BY <1>0, <1>1, <1>2, <1>3, <1>4, <1>5, UserEdits DEF UserStep

-----------------------------------------------------------------------------
(* Steps of the push job.                                                    *)

\* A row tried again still waits, or was given up.
LEMMA RetryGood ==
    ASSUME TypeOK, NEW e \in Events, Pending(e), Retry(e) \/ UNCHANGED <<outbox, gaveUp>>, UNCHANGED mapping,
           NEW r \in Remotes, remote'[r] = remote[r], NEW x \in Events, Good(x, r)
    PROVE  Good(x, r)'
  <1>0. outbox \in [Events -> OutboxRow] /\ outbox[e] \in OutboxRow
    BY VersionsTyped
  <1>1. CASE UNCHANGED <<outbox, gaveUp>>
    BY <1>1 DEF Good, Pending
  <1>2. CASE Retry(e) /\ outbox[e].tries + 1 >= MaxTries
    BY <1>0, <1>2 DEF Retry, Good, Pending
  <1>3. CASE Retry(e) /\ ~(outbox[e].tries + 1 >= MaxTries)
    <2>1. outbox' = [outbox EXCEPT ![e] = [outbox[e] EXCEPT !.tries = @ + 1]] /\ gaveUp' = gaveUp
      BY <1>3 DEF Retry
    <2>2. outbox'[x].op = outbox[x].op
      BY <1>0, <2>1 DEF OutboxRow
    <2> QED
      BY <2>1, <2>2 DEF Good, Pending
  <1> QED
    BY <1>1, <1>2, <1>3

LEMMA AgreePush ==
    ASSUME SyncInv, TimeInv, AgreeInv, NEW e \in Events, PushClaim(e) \/ PushWork(e) \/ PushTrouble(e)
    PROVE  AgreeInv'
  <1>0. /\ TypeOK /\ UnboundInv /\ PushInv /\ RowInv /\ MapInv /\ RemoteInv /\ AgreeInv
        /\ stamp \in Nat /\ Now = stamp + 1
    BY VersionsTyped DEF SyncInv
  <1>1. ASSUME Retry(e) \/ UNCHANGED <<outbox, gaveUp>>, Pending(e), UNCHANGED <<mapping, pull, binding>>,
               stamp' \in {stamp, Now}, \A r \in Remotes : remote'[r] = remote[r] \/ remote'[r].at = Now
        PROVE  AgreeInv'
    <2>1. ASSUME NEW r \in Remotes, Settled(r), remote'[r] = remote[r] PROVE Settled(r)'
      <3>1. \A x \in Owners(r) : Good(x, r) => Good(x, r)'
        BY <1>0, <1>1, <2>1, RetryGood DEF Owners
      <3> QED
        BY <1>1, <2>1, <3>1, SettledSame DEF Owners
    <2>2. ReadInv'
      BY <1>0, <1>1, <2>1, ReadOn DEF AgreeInv
    <2>3. VersionInv'
      BY <1>0, <1>1, VersionOn DEF AgreeInv, Mapped
    <2> QED
      BY <2>2, <2>3 DEF AgreeInv
  <1>2. ASSUME push.phase # "idle", push.event = e, NEW r \in Remotes,
               NEW answered \in BOOLEAN, Write(e, r, answered), Owners(r) \subseteq {e},
               Mapped(e) /\ mapping[e].rid # r => remote[mapping[e].rid].status = "cancelled"
        PROVE  AgreeInv'
    <2> DEFINE it == [rid |-> r, event |-> Sent(e)]
    <2>1. /\ remote' = [remote EXCEPT ![r] = Sent(e)] /\ stamp' = Now
          /\ Answer(e, answered, SaveMapping(e, it, local[e].val))
      BY <1>2 DEF Write
    <2>2. UNCHANGED <<pull, binding>> /\ it.rid = r /\ it.event = Sent(e) /\ Pending(e)
      BY <1>0, <1>2, <2>1 DEF Answer, PushInv
    <2>3. /\ remote'[r] = Sent(e) /\ remote'[r].at = Now /\ remote'[r].val = local[e].val
          /\ \A x \in Remotes : x # r => remote'[x] = remote[x]
      BY <1>0, <2>1, VersionsTyped DEF Sent
    <2>4. CASE ~answered
      BY <1>1, <2>1, <2>2, <2>3, <2>4 DEF Answer, Unanswered
    <2>5. CASE answered
      <3>1. /\ mapping' = SaveMapping(e, it, local[e].val) /\ UNCHANGED gaveUp
            /\ outbox' = [outbox EXCEPT ![e] = NoRow]
        BY <2>1, <2>5 DEF Answer, Finish
      <3>2. \A x \in Events : x # e => outbox'[x] = outbox[x]
        BY <1>0, <3>1, VersionsTyped
      <3> HIDE DEF it
      <3>3. /\ mapping'[e].rid = r /\ mapping'[e].etag = Now /\ mapping'[e].val = local[e].val
            /\ \A x \in Events : x # e => mapping'[x] = mapping[x]
        BY <1>2, <2>2, <3>1 DEF SaveMapping, MapTo, Owners, Sent
      <3>4. ASSUME NEW s \in Remotes, Settled(s), remote'[s] = remote[s] PROVE Settled(s)'
        <4>1. s # r
          BY <1>0, <2>3, <3>4, VersionsTyped DEF TimeInv
        <4>2. ASSUME remote[s].status = "live", NEW x \in Owners(s), Good(x, s)
              PROVE  mapping'[x].rid = s /\ Good(x, s)'
          <5>1. x \in Events /\ mapping[x].rid = s /\ x # e
            BY <1>2, <4>1, <4>2 DEF Owners, Mapped
          <5> QED
            BY <3>1, <3>2, <3>3, <3>4, <4>2, <5>1 DEF Good, Pending
        <4> QED
          BY <3>3, <3>4, <4>1, <4>2, SettledSame
      <3>5. ReadInv'
        BY <1>0, <2>1, <2>2, <2>3, <3>4, ReadOn DEF AgreeInv
      <3>6. VersionInv'
        BY <1>0, <2>1, <2>3, <3>3, VersionOn DEF AgreeInv, Mapped
      <3> QED
        BY <3>5, <3>6 DEF AgreeInv
    <2> QED
      BY <2>4, <2>5
  <1>3. ASSUME push.phase # "idle", push.event = e, RemoteId(e) # None,
               NEW answered \in BOOLEAN, Write(e, RemoteId(e), answered)
        PROVE  AgreeInv'
    <2>1. RemoteId(e) \in Remotes /\ RemoteId(e) = mapping[e].rid /\ Owners(RemoteId(e)) \subseteq {e}
      BY <1>0, <1>3, RemoteIdMapped DEF MapInv, Owners
    <2> QED
      BY <1>2, <1>3, <2>1
  <1>4. ASSUME NEW answered \in BOOLEAN, PushPatch(e, answered) PROVE AgreeInv'
    BY <1>3, <1>4 DEF PushPatch, Sending
  <1>5. ASSUME NEW answered \in BOOLEAN, PushForce(e, answered) PROVE AgreeInv'
    BY <1>0, <1>3, <1>5 DEF PushForce, Sending, PushInv
  <1>6. ASSUME NEW answered \in BOOLEAN, NEW r \in Remotes, PushInsert(e, r, answered) PROVE AgreeInv'
    <2>1. Owners(r) \subseteq {e}
      BY <1>0, <1>6 DEF PushInsert, RemoteInv, Owners, Mapped, NoRemote
    <2>2. Mapped(e) => remote[mapping[e].rid].status = "cancelled"
      BY <1>6 DEF PushInsert, RemoteId, Mapped
    <2> QED
      BY <1>2, <1>6, <2>1, <2>2 DEF PushInsert, Sending
  <1>7. ASSUME NEW answered \in BOOLEAN, PushDelete(e, answered) PROVE AgreeInv'
    <2>1. /\ push.phase # "idle" /\ push.event = e /\ UNCHANGED <<binding, pull>>
          /\ Answer(e, answered, [mapping EXCEPT ![e] = NoMapping])
      BY <1>7 DEF PushDelete, Sending, Answer
    <2>2. /\ stamp' \in {stamp, Now}
          /\ \A r \in Remotes : \/ remote'[r] = remote[r] /\ (r = RemoteId(e) => remote[r].status # "live")
                                \/ remote'[r].at = Now /\ stamp' = Now
      <3>1. CASE RemoteId(e) # None /\ remote[RemoteId(e)].status = "live"
        <4>1. /\ stamp' = Now
              /\ remote' = [remote EXCEPT ![RemoteId(e)] =
                              [remote[RemoteId(e)] EXCEPT !.status = "cancelled", !.val = local[e].at, !.at = Now]]
          BY <1>7, <3>1 DEF PushDelete
        <4>2. RemoteId(e) \in Remotes
          BY <3>1, RemoteIdMapped
        <4>3. remote'[RemoteId(e)].at = Now /\ \A r \in Remotes : r # RemoteId(e) => remote'[r] = remote[r]
          BY <1>0, <4>1, <4>2, VersionsTyped DEF RemoteEvent
        <4> QED
          BY <4>1, <4>3
      <3>2. CASE ~(RemoteId(e) # None /\ remote[RemoteId(e)].status = "live")
        BY <1>7, <3>2 DEF PushDelete
      <3> QED
        BY <3>1, <3>2
    <2>3. CASE ~answered
      BY <1>0, <1>1, <2>1, <2>2, <2>3 DEF Answer, Unanswered, PushInv
    <2>4. CASE answered
      <3>1. /\ mapping' = [mapping EXCEPT ![e] = NoMapping] /\ UNCHANGED gaveUp
            /\ outbox' = [outbox EXCEPT ![e] = NoRow]
        BY <2>1, <2>4 DEF Answer, Finish
      <3>2. /\ ~Mapped(e)' /\ mapping'[e].rid = None
            /\ \A x \in Events : x # e => mapping'[x] = mapping[x] /\ outbox'[x] = outbox[x]
        BY <1>0, <3>1, VersionsTyped DEF Mapped, NoMapping
      <3>3. ASSUME NEW r \in Remotes, Settled(r), remote'[r] = remote[r] PROVE Settled(r)'
        <4>0. remote[r].at # Now
          BY <1>0, VersionsTyped DEF TimeInv
        <4>1. ASSUME remote[r].status = "live", NEW x \in Owners(r), Good(x, r)
              PROVE  mapping'[x].rid = r /\ Good(x, r)'
          <5>1. x \in Events /\ mapping[x].rid = r
            BY <4>1 DEF Owners
          <5>2. x # e
            BY <2>2, <3>3, <4>0, <4>1, <5>1 DEF RemoteId, Mapped
          <5> QED
            BY <3>1, <3>2, <3>3, <4>1, <5>1, <5>2 DEF Good, Pending
        <4>2. \A x \in Events : mapping'[x].rid = r => mapping[x].rid = r
          BY <3>2
        <4> QED
          BY <3>3, <4>1, <4>2, SettledSame
      <3>4. ReadInv'
        BY <1>0, <2>1, <2>2, <3>3, ReadOn DEF AgreeInv
      <3>5. VersionInv'
        <4>1. \A x \in Events : Mapped(x)' => Mapped(x) /\ mapping'[x] = mapping[x]
          BY <3>2 DEF Mapped
        <4> QED
          BY <1>0, <2>2, <4>1, VersionOn DEF AgreeInv
      <3> QED
        BY <3>4, <3>5 DEF AgreeInv
    <2> QED
      BY <2>3, <2>4
  <1>8. CASE PushLoses(e)
    <2> DEFINE it == [rid |-> RemoteId(e), event |-> remote[RemoteId(e)]]
    <2>1. /\ TakeRemote(e, it) /\ UNCHANGED <<remote, pull, binding, gaveUp, stamp>> /\ RemoteId(e) # None
      BY <1>8 DEF PushLoses, Mismatch
    <2>2. /\ it.rid = mapping[e].rid /\ it.rid \in Remotes /\ Mapped(e) /\ it.event = remote[it.rid]
          /\ it.event.at <= stamp
      BY <1>0, <2>1, RemoteIdMapped DEF TimeInv
    <2> HIDE DEF it
    <2>3. \A x \in Events : x # e => outbox'[x] = outbox[x]
      BY <1>0, <2>1, VersionsTyped DEF TakeRemote
    <2>4. /\ mapping'[e].rid = it.rid /\ mapping'[e].val = it.event.val /\ mapping'[e].etag = it.event.at
          /\ \A x \in Events : x # e => mapping'[x] = mapping[x]
      BY <1>0, <2>1, <2>2 DEF TakeRemote, SaveMapping, MapTo, MapInv, Mapped
    <2>5. ASSUME NEW r \in Remotes, Settled(r) PROVE Settled(r)'
      <3>1. ASSUME NEW x \in Owners(r), Good(x, r) PROVE mapping'[x].rid = r /\ Good(x, r)'
        <4>1. x \in Events /\ mapping[x].rid = r
          BY <3>1 DEF Owners
        <4> QED
          BY <2>1, <2>2, <2>3, <2>4, <3>1, <4>1 DEF Good, Pending
      <3>2. \A x \in Events : mapping'[x].rid = r => mapping[x].rid = r
        BY <2>2, <2>4
      <3> QED
        BY <2>1, <2>5, <3>1, <3>2, SettledSame
    <2>6. ReadInv'
      BY <1>0, <2>1, <2>5, ReadOn DEF AgreeInv
    <2>7. VersionInv'
      BY <1>0, <2>1, <2>2, <2>4, VersionOn DEF AgreeInv, Mapped
    <2> QED
      BY <2>6, <2>7 DEF AgreeInv
  <1>9. CASE PushClaim(e) \/ PushInsists(e)
    BY <1>0, <1>9, AgreeStill DEF PushClaim, PushInsists
  <1>10. CASE PushError(e)
    <2>1. Pending(e)
      BY <1>0, <1>10 DEF PushError, PushInv, IdlePush
    <2> QED
      BY <1>1, <1>10, <2>1 DEF PushError
  <1>11. ASSUME NEW account \in {"ok", "revoked"}, PushAbort(e, account) PROVE AgreeInv'
    <2>1. binding'.token = binding.token /\ binding'.bound = binding.bound
      BY <1>0, <1>11 DEF PushAbort, TypeOK
    <2> QED
      BY <1>0, <1>11, <2>1, AgreeStill DEF PushAbort
  <1> QED
    BY <1>4, <1>5, <1>6, <1>7, <1>8, <1>9, <1>10, <1>11 DEF PushWork, PushTrouble

-----------------------------------------------------------------------------
(* Steps of the pull job.                                                    *)

\* A fetch reads every version since the token, or all of them.
LEMMA AgreeFetch ==
    ASSUME SyncInv, TimeInv, AgreeInv, OnePuller, NEW p \in Pullers, PullFetches(p)
    PROVE  AgreeInv'
  <1>0. TypeOK /\ RemoteInv /\ AgreeInv /\ stamp \in Nat /\ binding.token \in Nat
    BY VersionsTyped DEF SyncInv, TypeOK
  <1>1. ASSUME NEW R \in SUBSET Remotes, NEW full \in BOOLEAN, Fetched(p, R, full),
               \A r \in Remotes \ R : \/ Settled(r)
                                      \/ full /\ remote[r].status = "cancelled",
               full => LiveRemotes \subseteq R
        PROVE  AgreeInv'
    <2>1. UNCHANGED <<local, remote, mapping, outbox, binding, stamp, gaveUp>>
      BY <1>1 DEF Fetched
    <2>2. /\ pull'[p].items = Items(R) /\ pull'[p].phase = "fetched" /\ pull'[p].full = full
          /\ pull'[p].seen = (IF full THEN R ELSE {})
          /\ pull'[p].token = stamp /\ pull'[p].old = binding.token
      BY <1>0, <1>1, VersionsTyped DEF Fetched
    <2>3. \A r \in Remotes : Settled(r)' = Settled(r)
      BY <2>1 DEF Settled, Owners, Good, Pending
    <2>4. \A it \in Items(R) : /\ it.rid \in R /\ it.event = remote[it.rid]
                               /\ it.event.at <= stamp
      BY DEF Items, TimeInv
    <2>5. \A r \in R : [rid |-> r, event |-> remote[r]] \in Items(R)
      BY DEF Items
    <2>6. PullReads(p)'
      <3>1. (binding.token = pull[p].old /\ pull[p].old <= pull[p].token /\ pull[p].token <= stamp)'
        BY <1>0, <2>1, <2>2 DEF AgreeInv, ReadInv
      <3>2. \A r \in Remotes : \/ Settled(r)'
                               \/ [rid |-> r, event |-> remote'[r]] \in pull'[p].items
                               \/ pull'[p].full /\ pull'[p].phase # "applied" /\ remote'[r].status = "cancelled" /\ r \notin pull'[p].seen
        BY <1>1, <2>1, <2>2, <2>3, <2>5
      <3>3. pull'[p].full => \A r \in LiveRemotes' : r \in pull'[p].seen
        BY <1>1, <2>1, <2>2 DEF LiveRemotes
      <3> QED
        BY <2>1, <2>2, <2>4, <3>1, <3>2, <3>3 DEF PullReads
    <2>7. ReadInv'
      BY <1>0, <2>1, <2>3, <2>6 DEF AgreeInv, ReadInv, OnePuller, Behind
    <2>8. VersionInv'
      BY <1>0, <2>1 DEF AgreeInv, VersionInv, Mapped
    <2> QED
      BY <2>7, <2>8 DEF AgreeInv
  <1>2. CASE PullFetch(p)
    <2>1. Fetched(p, Changed(binding.token), FALSE) /\ Changed(binding.token) \in SUBSET Remotes
      BY <1>2 DEF PullFetch, Changed
    <2>2. \A r \in Remotes \ Changed(binding.token) : Settled(r)
      <3> SUFFICES ASSUME NEW r \in Remotes, ~(remote[r].at > binding.token) PROVE Settled(r)
        BY DEF Changed
      <3>1. binding.bound /\ Behind(r, binding.token)
        BY <1>0, <2>1, VersionsTyped DEF Fetched, Active, Behind
      <3> QED
        BY <1>0, <3>1 DEF AgreeInv, ReadInv
    <2> QED
      BY <1>1, <2>1, <2>2
  <1>3. CASE PullFetchFull(p)
    <2>1. PICK R \in SUBSET Cancelled : Fetched(p, LiveRemotes \cup R, TRUE)
      BY <1>3 DEF PullFetchFull
    <2>2. LiveRemotes \cup R \in SUBSET Remotes
      BY DEF LiveRemotes, Cancelled
    <2>3. \A r \in Remotes \ (LiveRemotes \cup R) : Settled(r) \/ remote[r].status = "cancelled"
      BY DEF LiveRemotes, Settled
    <2> QED
      BY <1>1, <2>1, <2>2, <2>3
  <1> QED
    BY <1>2, <1>3 DEF PullFetches

\* A pull that begins, ends or stops.
LEMMA AgreeTurns ==
    ASSUME SyncInv, AgreeInv, OnePuller, NEW p \in Pullers, PullBegin(p) \/ PullSave(p) \/ PullTrouble(p)
    PROVE  AgreeInv'
  <1>0. TypeOK /\ AgreeInv /\ stamp \in Nat /\ pull[p] \in PullJob
        /\ binding \in [bound : BOOLEAN, token : Nat, account : {"ok", "revoked"}]
    BY VersionsTyped DEF SyncInv, TypeOK
  <1>1. UNCHANGED <<local, remote, mapping, outbox, stamp, gaveUp>>
    BY DEF PullBegin, PullSave, PullTrouble, PullFail, PullCrash, PullRevoked
  <1>2. VersionInv'
    BY <1>0, <1>1 DEF AgreeInv, VersionInv, Mapped
  <1>3. \A r \in Remotes : Settled(r)' = Settled(r)
    BY <1>1 DEF Settled, Owners, Good, Pending
  <1>4. pull[p].phase # "idle" => PullReads(p)
    BY <1>0 DEF AgreeInv, ReadInv
  <1>5. CASE PullBegin(p)
    <2>1. pull[p].phase = "fetched" /\ UNCHANGED binding /\ pull' = [pull EXCEPT ![p].phase = "apply"]
      BY <1>5 DEF PullBegin
    <2>2. /\ pull'[p].items = pull[p].items /\ pull'[p].token = pull[p].token /\ pull'[p].old = pull[p].old
          /\ pull'[p].full = pull[p].full /\ pull'[p].seen = pull[p].seen /\ pull'[p].phase = "apply"
      BY <1>0, <2>1, VersionsTyped DEF PullJob
    <2>3. PullReads(p)'
      BY <1>1, <1>3, <1>4, <2>1, <2>2 DEF PullReads, Behind, LiveRemotes
    <2>4. ReadInv'
      BY <1>0, <1>1, <1>3, <2>1, <2>3 DEF AgreeInv, ReadInv, Behind, OnePuller
    <2> QED
      BY <1>2, <2>4 DEF AgreeInv
  <1>6. CASE PullRevoked(p)
    BY <1>0, <1>6, AgreeStill DEF PullRevoked
  <1>7. CASE PullSave(p)
    <2>1. /\ pull[p].phase = "applied" /\ pull' = [pull EXCEPT ![p] = IdlePull]
          /\ binding' = [binding EXCEPT !.token = pull[p].token]
      BY <1>7 DEF PullSave
    <2>2. /\ binding'.token = pull[p].token /\ binding'.bound = binding.bound
          /\ pull'[p].phase = "idle"
      BY <1>0, <2>1, VersionsTyped DEF IdlePull, PullJob
    <2>3. \A r \in Remotes : remote[r].at <= pull[p].token => Settled(r)
      BY <1>4, <2>1 DEF PullReads, Behind
    <2>4. pull[p].token <= stamp
      BY <1>4, <2>1 DEF PullReads
    <2>5. ReadInv'
      BY <1>1, <1>3, <2>2, <2>3, <2>4 DEF ReadInv, Behind, OnePuller
    <2> QED
      BY <1>2, <2>5 DEF AgreeInv
  <1>8. CASE PullFail(p) \/ PullCrash(p)
    <2>1. /\ pull[p].phase # "idle" /\ pull' = [pull EXCEPT ![p] = IdlePull]
          /\ UNCHANGED binding \/ binding' = [binding EXCEPT !.token = pull[p].old]
      BY <1>8 DEF PullFail, PullCrash
    <2>2. binding.token = pull[p].old
      BY <1>4, <2>1 DEF PullReads
    <2>3. /\ binding'.token = binding.token /\ binding'.bound = binding.bound
          /\ pull'[p].phase = "idle"
      BY <1>0, <2>1, <2>2, VersionsTyped DEF IdlePull
    <2>4. ReadInv'
      BY <1>0, <1>1, <1>3, <2>3 DEF AgreeInv, ReadInv, Behind, OnePuller
    <2> QED
      BY <1>2, <2>4 DEF AgreeInv
  <1> QED
    BY <1>5, <1>6, <1>7, <1>8 DEF PullTrouble

\* An item is applied: what matters of the step.  The event of the item is settled when
\* the item is the present version, the others stay as they are.
LEMMA AgreeItem ==
    ASSUME SyncInv, TimeInv, AgreeInv, OnePuller, NEW p \in Pullers, NEW it, Takes(p, it),
           it.event = remote[it.rid] => Settled(it.rid)',
           \A r \in Remotes : r # it.rid /\ Settled(r) => Settled(r)',
           \A e \in Events : Mapped(e)' =>
              \/ Mapped(e) /\ mapping'[e] = mapping[e]
              \/ mapping'[e] = MapTo(it, it.event.val)
    PROVE  AgreeInv'
  <1>0. TypeOK /\ AgreeInv /\ pull[p] \in PullJob /\ pull \in [Pullers -> PullJob]
        /\ stamp \in Nat /\ binding.token \in Nat
    BY VersionsTyped DEF SyncInv, TypeOK
  <1>1. /\ UNCHANGED <<remote, binding, stamp>> /\ pull[p].phase = "apply" /\ it \in pull[p].items
        /\ pull' = [pull EXCEPT ![p] = [pull[p] EXCEPT !.items = @ \ {it}]]
    BY DEF Takes, Applying
  <1>2. PullReads(p) /\ pull[p].token \in Nat /\ pull[p].old \in Nat /\ it.rid \in Remotes /\ it.event.at \in Nat
    BY <1>0, <1>1, VersionsTyped DEF AgreeInv, ReadInv, PullJob
  <1>3. /\ pull'[p].items = pull[p].items \ {it} /\ pull'[p].token = pull[p].token /\ pull'[p].old = pull[p].old
        /\ pull'[p].full = pull[p].full /\ pull'[p].seen = pull[p].seen /\ pull'[p].phase = "apply"
    BY <1>0, <1>1 DEF PullJob
  <1>4. ASSUME NEW r \in Remotes, remote[r].at <= pull[p].token
        PROVE  \/ Settled(r)'
               \/ [rid |-> r, event |-> remote[r]] \in pull'[p].items
               \/ pull[p].full /\ remote[r].status = "cancelled" /\ r \notin pull[p].seen
    <2>1. CASE r = it.rid
      BY <1>1, <1>2, <1>4, <2>1 DEF PullReads, Behind
    <2>2. CASE r # it.rid
      BY <1>2, <1>3, <1>4, <2>2 DEF PullReads, Behind
    <2> QED
      BY <2>1, <2>2
  <1>5. PullReads(p)'
    BY <1>1, <1>2, <1>3, <1>4 DEF PullReads, Behind, LiveRemotes
  <1>6. ASSUME binding.bound, NEW r \in Remotes, remote[r].at <= binding.token PROVE Settled(r)'
    <2>1. remote[r].at <= pull[p].token /\ Settled(r)
      BY <1>0, <1>2, <1>6, VersionsTyped DEF PullReads, AgreeInv, ReadInv, Behind
    <2>2. CASE r = it.rid
      BY <1>1, <1>2, <2>1, <2>2 DEF PullReads, Behind
    <2> QED
      BY <2>1, <2>2
  <1>7. ReadInv'
    BY <1>0, <1>1, <1>5, <1>6 DEF AgreeInv, ReadInv, Behind, OnePuller
  <1>8. VersionInv'
    <2>1. MapTo(it, it.event.val).rid = it.rid /\ MapTo(it, it.event.val).etag = it.event.at
          /\ MapTo(it, it.event.val).val = it.event.val
      BY DEF MapTo
    <2>2. it.event.at <= stamp /\ (it.event.at = remote[it.rid].at => remote[it.rid].val = it.event.val)
      BY <1>0, <1>1, <1>2 DEF PullReads, Behind, TimeInv
    <2> QED
      BY <1>0, <1>1, <2>1, <2>2, VersionOn DEF AgreeInv
  <1> QED
    BY <1>7, <1>8 DEF AgreeInv

LEMMA AgreePull ==
    ASSUME SyncInv, TimeInv, AgreeInv, OnePuller, NEW p \in Pullers,
           PullFetches(p) \/ PullWork(p) \/ PullTrouble(p)
    PROVE  AgreeInv'
  <1>0. TypeOK /\ UnboundInv /\ RowInv /\ MapInv /\ RemoteInv /\ AgreeInv /\ pull[p] \in PullJob
        /\ stamp \in Nat
    BY VersionsTyped DEF SyncInv
  <1>1. ASSUME NEW it, Takes(p, it)
        PROVE  it.rid \in Remotes /\ UNCHANGED <<remote, gaveUp>>
    BY <1>0, <1>1, ItemTyped DEF Takes
  <1>2. ASSUME NEW it, PullCancelled(p, it) PROVE AgreeInv'
    <2>1. Takes(p, it) /\ it.event.status = "cancelled" /\ RemoveLocal(Owners(it.rid))
      BY <1>2 DEF PullCancelled
    <2>2. /\ \A e \in Owners(it.rid) : mapping'[e] = NoMapping
          /\ \A e \in Events \ Owners(it.rid) : mapping'[e] = mapping[e] /\ outbox'[e] = outbox[e]
      BY <2>1 DEF RemoveLocal, Owners
    <2>3. it.event = remote[it.rid] => Settled(it.rid)'
      <3>1. \A e \in Events : mapping'[e].rid # it.rid
        BY <1>1, <2>1, <2>2 DEF Owners, NoMapping
      <3> QED
        BY <1>1, <2>1, <3>1 DEF Settled, Owners
    <2>4. ASSUME NEW r \in Remotes, r # it.rid, Settled(r) PROVE Settled(r)'
      <3>1. \A e \in Owners(r) : mapping'[e] = mapping[e] /\ outbox'[e] = outbox[e]
        BY <2>2, <2>4 DEF Owners
      <3>2. \A e \in Events : mapping'[e].rid = r => mapping[e].rid = r
        BY <2>2 DEF NoMapping
      <3> QED
        BY <1>1, <2>1, <2>4, <3>1, <3>2, SettledSame DEF Owners, Good, Pending
    <2>5. \A e \in Events : Mapped(e)' => Mapped(e) /\ mapping'[e] = mapping[e]
      BY <2>2 DEF Mapped, NoMapping
    <2> QED
      BY <2>1, <2>3, <2>4, <2>5, AgreeItem
  <1>3. ASSUME NEW it, NEW e \in Events, Takes(p, it), it.event.status = "live",
               mapping' = SaveMapping(e, it, it.event.val),
               mapping[e].rid \in {None, it.rid},
               \A x \in Events : x # e => outbox'[x] = outbox[x]
        PROVE  AgreeInv'
    <2>1. /\ mapping'[e] = MapTo(it, it.event.val) /\ mapping'[e].rid = it.rid /\ mapping'[e].val = it.event.val
          /\ \A x \in Events : x # e => mapping'[x] = IF mapping[x].rid = it.rid THEN NoMapping ELSE mapping[x]
      BY <1>3 DEF SaveMapping, MapTo
    <2>2. it.event = remote[it.rid] => Settled(it.rid)'
      BY <1>1, <1>3, <2>1 DEF Settled, Owners, Good
    <2>3. ASSUME NEW r \in Remotes, r # it.rid, Settled(r) PROVE Settled(r)'
      <3>1. \A x \in Owners(r) : x # e /\ mapping'[x] = mapping[x] /\ outbox'[x] = outbox[x]
        BY <1>3, <2>1, <2>3 DEF Owners
      <3>2. \A x \in Events : mapping'[x].rid = r => mapping[x].rid = r
        BY <2>1, <2>3 DEF NoMapping
      <3> QED
        BY <1>1, <1>3, <2>3, <3>1, <3>2, SettledSame DEF Owners, Good, Pending
    <2>4. \A x \in Events : Mapped(x)' => \/ Mapped(x) /\ mapping'[x] = mapping[x]
                                          \/ mapping'[x] = MapTo(it, it.event.val)
      BY <2>1 DEF Mapped, NoMapping
    <2> QED
      BY <1>3, <2>2, <2>3, <2>4, AgreeItem
  <1>4. ASSUME NEW it, NEW e \in Events, PullAdopt(p, it, e) PROVE AgreeInv'
    BY <1>3, <1>4 DEF PullAdopt, Adoptable, Mapped
  <1>5. ASSUME NEW it, NEW e \in Events, PullCreate(p, it, e) PROVE AgreeInv'
    <2>1. mapping[e].rid = None
      BY <1>0, <1>5 DEF PullCreate, RowInv, Mapped, NoLocal
    <2> QED
      BY <1>3, <1>5, <2>1 DEF PullCreate
  <1>6. ASSUME NEW it, NEW e \in Events, PullUpdate(p, it, e) PROVE AgreeInv'
    <2>1. /\ Takes(p, it) /\ it.event.status = "live" /\ e \in Owners(it.rid)
          /\ mapping' = SaveMapping(e, it, it.event.val) /\ outbox' = [outbox EXCEPT ![e] = NoRow]
      BY <1>6 DEF PullUpdate, TakeRemote
    <2>2. mapping[e].rid = it.rid /\ \A x \in Events : x # e => outbox'[x] = outbox[x]
      BY <1>0, <2>1, VersionsTyped DEF Owners
    <2> QED
      BY <1>3, <2>1, <2>2
  <1>7. ASSUME NEW it, NEW e \in Events, PullKeep(p, it, e) PROVE AgreeInv'
    <2>1. /\ Takes(p, it) /\ it.event.status = "live" /\ mapping[e].rid = it.rid /\ KeepsLocal(e, it)
          /\ UNCHANGED <<local, mapping, outbox>>
      BY <1>7 DEF PullKeep, Owners
    <2>2. Mapped(e) /\ it.rid \in Remotes /\ UNCHANGED <<remote, gaveUp>>
      BY <1>1, <2>1 DEF Mapped
    <2>3. ASSUME it.event = remote[it.rid] PROVE Settled(it.rid)'
      <3>1. Pending(e) \/ mapping[e].etag = it.event.at
        BY <2>1 DEF KeepsLocal, Deleting, LocalWins, Pending
      <3>2. Good(e, it.rid)
        BY <1>0, <2>1, <2>2, <2>3, <3>1 DEF Good, AgreeInv, VersionInv
      <3> QED
        BY <2>1, <2>2, <2>3, <3>2 DEF Settled, Owners, Good, Pending
    <2>4. \A r \in Remotes : Settled(r) => Settled(r)'
      BY <2>1, <2>2 DEF Settled, Owners, Good, Pending
    <2> QED
      BY <2>1, <2>3, <2>4, AgreeItem DEF Mapped
  <1>8. CASE PullCommit(p)
    <2>1. /\ pull[p].phase = "apply" /\ pull[p].items = {} /\ RemoveLocal(Unlisted(p))
          /\ pull' = [pull EXCEPT ![p] = [pull[p] EXCEPT !.phase = "applied", !.seen = {}]]
          /\ UNCHANGED <<remote, binding, stamp, gaveUp>>
      BY <1>8 DEF PullCommit, Applying
    <2>2. PullReads(p) /\ pull[p].token \in Nat /\ pull[p].old \in Nat /\ binding.token \in Nat
      BY <1>0, <2>1 DEF AgreeInv, ReadInv, PullJob, TypeOK
    <2>3. /\ pull'[p].items = {} /\ pull'[p].token = pull[p].token /\ pull'[p].old = pull[p].old
          /\ pull'[p].phase = "applied"
      BY <1>0, <2>1, VersionsTyped DEF PullJob
    <2>4. /\ \A e \in Unlisted(p) : mapping'[e] = NoMapping
          /\ \A e \in Events \ Unlisted(p) : mapping'[e] = mapping[e] /\ outbox'[e] = outbox[e]
      BY <2>1 DEF RemoveLocal, Unlisted
    <2>5. \A r \in Remotes : \A e \in Events : mapping'[e].rid = r => mapping[e].rid = r /\ e \notin Unlisted(p)
      BY <2>4 DEF NoMapping, Unlisted
    <2>6. ASSUME NEW r \in Remotes, remote[r].at <= pull[p].token PROVE Settled(r)'
      <3>1. CASE Settled(r)
        <4>1. ASSUME remote[r].status = "live", NEW e \in Owners(r) PROVE mapping'[e] = mapping[e] /\ outbox'[e] = outbox[e]
          <5>1. pull[p].full => r \in pull[p].seen
            BY <2>1, <2>2, <2>6, <4>1 DEF PullReads, LiveRemotes, Behind
          <5>2. e \in Events \ Unlisted(p)
            BY <4>1, <5>1 DEF Unlisted, Owners
          <5> QED
            BY <2>4, <5>2
        <4> QED
          BY <2>1, <2>5, <3>1, <4>1, SettledSame DEF Owners, Good, Pending
      <3>2. CASE pull[p].full /\ remote[r].status = "cancelled" /\ r \notin pull[p].seen
        <4>1. \A e \in Events : mapping'[e].rid # r
          BY <2>5, <3>2 DEF Unlisted, Mapped
        <4> QED
          BY <2>1, <3>2, <4>1 DEF Settled, Owners
      <3> QED
        BY <2>1, <2>2, <2>6, <3>1, <3>2 DEF PullReads, Behind
    <2>7. PullReads(p)'
      BY <2>1, <2>2, <2>3, <2>6 DEF PullReads, Behind
    <2>8. ASSUME NEW r \in Remotes, remote[r].at <= binding.token PROVE Settled(r)'
      <3>1. remote[r].at <= pull[p].token
        BY <1>0, <2>2, <2>8, VersionsTyped DEF PullReads
      <3> QED
        BY <2>6, <3>1
    <2>9. ReadInv'
      BY <1>0, <2>1, <2>7, <2>8 DEF AgreeInv, ReadInv, Behind, OnePuller
    <2>10. \A e \in Events : Mapped(e)' => Mapped(e) /\ mapping'[e] = mapping[e]
      BY <2>4 DEF Mapped, NoMapping
    <2>11. VersionInv'
      BY <1>0, <2>1, <2>10, VersionOn DEF AgreeInv
    <2> QED
      BY <2>9, <2>11 DEF AgreeInv
  <1> QED
    BY <1>2, <1>4, <1>5, <1>6, <1>7, <1>8, AgreeFetch, AgreeTurns DEF PullWork

-----------------------------------------------------------------------------
LEMMA AgreeStep == OnePuller /\ SyncInv /\ TimeInv /\ AgreeInv /\ [Next]_vars => AgreeInv'
  <1> SUFFICES ASSUME OnePuller, SyncInv, TimeInv, AgreeInv, [Next]_vars PROVE AgreeInv'
    OBVIOUS
  <1>0. TypeOK /\ TypeOK'
    BY NextTyped DEF SyncInv
  <1>1. CASE Connect
    <2>1. binding'.token = binding.token /\ binding'.bound = binding.bound
      BY <1>0, <1>1 DEF Connect, TypeOK
    <2> QED
      BY <1>0, <1>1, <2>1, AgreeStill DEF Connect
  <1>2. CASE UNCHANGED vars
    BY <1>0, <1>2, AgreeStill DEF vars
  <1> QED
    BY <1>0, <1>1, <1>2, AgreeUser, AgreePull, AgreePush DEF Next

LEMMA AgreeInit == Init => TimeInv /\ KeptInv /\ AgreeInv
  <1> SUFFICES ASSUME Init PROVE TimeInv /\ KeptInv /\ AgreeInv
    OBVIOUS
  <1>1. TimeInv
    BY DEF Init, TimeInv, NoLocal, NoRemote, IdlePull
  <1>2. KeptInv
    BY DEF Init, KeptInv, Kept, NoRow, NoLocal, Live
  <1>3. VersionInv
    BY DEF Init, VersionInv, NoRemote, NoMapping, Mapped
  <1>4. ReadInv
    BY DEF Init, ReadInv, IdlePull
  <1> QED
    BY <1>1, <1>2, <1>3, <1>4 DEF AgreeInv

\* With one pull at a time, and until an event is taken out of the trash: when no row
\* waits, no job runs and the token has passed every change at Google, both calendars hold
\* the same events with the same content, but for changes that push gave up.  Edits on
\* both sides, conflicts, failed calls, lost answers, crashes between the transaction and
\* the saved token, expired tokens and rebinds may come before, in any order.
THEOREM QuietCalendarsAgree ==
    ASSUME OnePuller
    PROVE  Spec => [](used.restores = 0 => QuietAgrees)
  <1>1. SyncInv /\ TimeInv /\ [Next]_vars => TimeInv'
    BY TimeStep
  <1>2. SyncInv /\ KeptInv /\ AgreeInv => (used.restores = 0 => QuietAgrees)
    <2> SUFFICES ASSUME SyncInv, KeptInv, AgreeInv, used.restores = 0, Quiet PROVE SameCalendar
      BY DEF QuietAgrees
    <2>0. TypeOK /\ MapInv /\ RemoteInv /\ CleanInv /\ \A e \in Events : Kept(e)
      BY DEF SyncInv, KeptInv
    <2>1. binding.bound /\ \A e \in Events : ~Pending(e)
      BY DEF Quiet, Active
    <2>2. \A r \in Remotes : Settled(r)
      <3> SUFFICES ASSUME NEW r \in Remotes PROVE Settled(r)
        OBVIOUS
      <3>1. ~(remote[r].at > binding.token)
        BY DEF Quiet, Changed
      <3>2. Behind(r, binding.token)
        BY <2>0, <3>1, VersionsTyped DEF Behind, TypeOK
      <3> QED
        BY <2>1, <3>2 DEF AgreeInv, ReadInv
    <2>3. ASSUME NEW e \in Events, e \notin gaveUp, Live(e) PROVE Agrees(e)
      <3>1. Mapped(e)
        BY <2>0, <2>1, <2>3 DEF Kept
      <3>2. mapping[e].rid \in Remotes /\ e \in Owners(mapping[e].rid)
        BY <2>0, <3>1, VersionsTyped DEF Mapped, Mapping, Owners
      <3>3. remote[mapping[e].rid].status = "live"
        BY <2>0, <2>2, <3>1, <3>2, VersionsTyped DEF Settled, RemoteInv, RemoteEvent
      <3>4. PICK x \in Owners(mapping[e].rid) : Good(x, mapping[e].rid)
        BY <2>2, <3>2, <3>3 DEF Settled
      <3>5. x = e
        BY <2>0, <3>1, <3>4 DEF MapInv, Owners, Mapped
      <3> QED
        BY <2>0, <2>1, <2>3, <3>1, <3>3, <3>4, <3>5 DEF Agrees, Good, CleanInv
    <2>4. ASSUME NEW r \in LiveRemotes PROVE \E e \in Owners(r) : Live(e) \/ e \in gaveUp
      <3>1. r \in Remotes /\ remote[r].status = "live"
        BY <2>4 DEF LiveRemotes
      <3>2. PICK e \in Owners(r) : Good(e, r)
        BY <2>2, <3>1 DEF Settled
      <3>3. e \in Events /\ Mapped(e)
        BY <3>1, <3>2 DEF Owners, Mapped
      <3> QED
        BY <2>0, <2>1, <3>2, <3>3 DEF Kept
    <2> QED
      BY <2>3, <2>4 DEF SameCalendar
  <1>3. SyncInv /\ TimeInv /\ AgreeInv /\ [Next]_vars => AgreeInv'
    BY AgreeStep
  <1> QED
    BY <1>1, <1>2, <1>3, AgreeInit, KeptNext, InvHolds, PTL DEF Spec

=============================================================================
