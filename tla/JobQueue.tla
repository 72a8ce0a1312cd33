------------------------------ MODULE JobQueue ------------------------------
(***************************************************************************)
(* The background job queue: the `jobs' table and the worker processes     *)
(* that claim rows from it (internal/jobs, migration 000017).              *)
(*                                                                         *)
(* A process runs a fixed number of loop goroutines (Lanes), one           *)
(* maintenance goroutine and one scheduler.  Every SQL statement is one    *)
(* step: the processes interleave between statements, and a process may    *)
(* stop between any two of them.                                           *)
(*                                                                         *)
(* Time is relative.  A queued row carries the time left until run_at, a   *)
(* running row the time since locked_at, a busy lane the time since its    *)
(* claim; Tick moves all of them.                                          *)
(***************************************************************************)
EXTENDS Integers, FiniteSets

CONSTANTS
    Procs,          \* worker processes
    Lanes,          \* loop goroutines of one process (Worker.n)
    Keys,           \* (kind, unique_key) pairs; every caller passes a unique key
    Periodic,       \* the keys the scheduler enqueues by itself
    Ids,            \* row identities (bound: rows in the table at one time)
    NoKey, NoId,    \* the key of an absent row, the row of an idle lane
    MaxAttempts,    \* jobs.max_attempts
    BaseBackoff,    \* backoff(): first and largest delay, in ticks
    MaxBackoff,
    JobTimeout,     \* longest a handler runs, in ticks
    ReportTimeout,  \* longest the write of its outcome takes
    LockTimeout,    \* a running row older than this is stale
    MaxDelay,       \* bound: the latest RunAt a caller passes, in ticks
    MaxLate,        \* bound: how far run_at is told apart once it has passed
    MaxFaults       \* bound: crashes, shutdowns and lost database replies

\* worker.go keeps jobTimeout (10 min) + 5 s below lockTimeout (15 min).
ASSUME TimeoutAssumption ==
    /\ JobTimeout \in Nat /\ ReportTimeout \in Nat /\ LockTimeout \in Nat
    /\ JobTimeout + ReportTimeout <= LockTimeout

ASSUME BoundAssumption ==
    /\ MaxAttempts \in Nat \ {0}
    /\ BaseBackoff \in Nat /\ MaxBackoff \in Nat
    /\ MaxDelay \in Nat /\ MaxLate \in Nat /\ MaxFaults \in Nat
    /\ Periodic \subseteq Keys

ASSUME NameAssumption == NoKey \notin Keys /\ NoId \notin Ids

VARIABLES
    rows,    \* the jobs table
    slot,    \* the lanes: what each goroutine is doing
    proc,    \* process life cycle
    maint,   \* the next statement of the process's maintenance goroutine
    faults,  \* faults so far (bounded by MaxFaults)
    asked    \* ghost: a request for this key is still to be served

vars == <<rows, slot, proc, maint, faults, asked>>

Smaller(a, b) == IF a < b THEN a ELSE b
Larger(a, b)  == IF a > b THEN a ELSE b

Slots == Procs \X Lanes
Busy  == {"run", "report", "drop"}

(***************************************************************************)
(* A row.  `fresh' is a ghost: the row is running and its handler started  *)
(* after every request made so far for its key.                            *)
(***************************************************************************)
Waits == (-MaxLate)..Larger(MaxDelay, MaxBackoff)

Row == [status   : {"absent", "queued", "running", "failed"},
        key      : Keys \cup {NoKey},
        attempts : 0..MaxAttempts,
        wait     : Waits,
        age      : 0..(LockTimeout + 1),
        fresh    : BOOLEAN]

NoRow == [status |-> "absent", key |-> NoKey, attempts |-> 0, wait |-> 0,
          age |-> 0, fresh |-> FALSE]

Lane == [phase    : {"claim", "wait", "stopped"} \cup Busy,
         id       : Ids \cup {NoId},
         attempts : 0..MaxAttempts,
         result   : {"none", "ok", "error", "permanent"},
         elapsed  : 0..(JobTimeout + ReportTimeout)]

Idle(phase) == [phase |-> phase, id |-> NoId, attempts |-> 0,
                result |-> "none", elapsed |-> 0]

\* Every field keeps its range: a delay stays within backoff()'s cap, a busy lane
\* within the time its contexts give it.
TypeOK ==
    /\ rows \in [Ids -> Row]
    /\ slot \in [Slots -> Lane]
    /\ proc \in [Procs -> {"up", "draining", "down"}]
    /\ maint \in [Procs -> {"drop", "reap"}]
    /\ faults \in 0..MaxFaults
    /\ asked \in [Keys -> BOOLEAN]

Init ==
    /\ rows = [id \in Ids |-> NoRow]
    /\ slot = [s \in Slots |-> Idle("claim")]
    /\ proc = [p \in Procs |-> "up"]
    /\ maint = [p \in Procs |-> "drop"]
    /\ faults = 0
    /\ asked = [k \in Keys |-> FALSE]

-----------------------------------------------------------------------------
Queued(id)   == rows[id].status = "queued"
Running(id)  == rows[id].status = "running"
Stale(id)    == Running(id) /\ rows[id].age > LockTimeout
Due(id)      == Queued(id) /\ rows[id].wait <= 0
QueuedFor(k) == \E id \in Ids : Queued(id) /\ rows[id].key = k
Unused(id)   == rows[id] = NoRow /\ \A s \in Slots : slot[s].id # id
Fault        == faults < MaxFaults /\ faults' = faults + 1

\* A claimed job can say how many times it was tried only up to MaxAttempts;
\* the code compares the counter with MaxAttempts and nothing else.
NextAttempt(n) == Smaller(n + 1, MaxAttempts)

\* 1 << n for the shifts that backoff() allows.
Shift == <<1, 2, 4, 8, 16, 32, 64, 128, 256, 512, 1024, 2048, 4096>>

\* backoff(attempt): half of the doubled base plus a random part of the rest.
Delay(n) == BaseBackoff * Shift[Smaller(Larger(n - 1, 0), 12) + 1]

\* Mistake: the delay is not capped.
BackoffUncapped(n) == (Delay(n) \div 2) .. Delay(n)

Backoff(n) ==
    LET d == Smaller(Delay(n), MaxBackoff)
    IN  (d \div 2) .. d

\* After a job the loop looks at its context before it claims again.
LoopHead(s) == Idle(IF proc[s[1]] = "up" THEN "claim" ELSE "stopped")

-----------------------------------------------------------------------------
(* Enqueue: INSERT ... ON CONFLICT DO NOTHING on the queued row of the key. *)

Request(k) ==
    [id \in Ids |-> IF rows[id].key = k THEN [rows[id] EXCEPT !.fresh = FALSE]
                                        ELSE rows[id]]

Insert(k, d) ==
    IF QueuedFor(k)
    THEN rows' = Request(k)
    ELSE \E id \in Ids :
           /\ Unused(id)
           /\ rows' = [Request(k) EXCEPT ![id] =
                         [NoRow EXCEPT !.status = "queued", !.key = k, !.wait = d]]

Enqueue(k, d) ==
    /\ Insert(k, d)
    /\ asked' = [asked EXCEPT ![k] = TRUE]
    /\ UNCHANGED <<slot, proc, maint, faults>>

\* schedule(): a process that is up enqueues its periodic kinds.
Schedule(p, k) ==
    /\ proc[p] = "up"
    /\ k \in Periodic
    /\ Enqueue(k, 0)

-----------------------------------------------------------------------------
(* The loop of a lane: claim, run, report, and wait when nothing is due.    *)

\* claimSQL picks the due row with the smallest run_at (priorities are equal).
Claimable(id) ==
    /\ Due(id)
    /\ \A j \in Ids : Queued(j) => rows[id].wait <= rows[j].wait

Claimed(id) ==
    [rows EXCEPT ![id].status = "running", ![id].age = 0, ![id].wait = 0,
                 ![id].attempts = NextAttempt(@), ![id].fresh = TRUE]

Claim(s, id) ==
    /\ proc[s[1]] = "up"
    /\ slot[s].phase = "claim"
    /\ Claimable(id)
    /\ rows' = Claimed(id)
    /\ slot' = [slot EXCEPT ![s] =
                  [phase |-> "run", id |-> id, result |-> "none", elapsed |-> 0,
                   attempts |-> NextAttempt(rows[id].attempts)]]
    /\ UNCHANGED <<proc, maint, faults, asked>>

\* The claim commits and its reply is lost (connection error, cancelled
\* context): the row is running and no lane knows of it.
ClaimLost(s, id) ==
    /\ proc[s[1]] = "up"
    /\ slot[s].phase = "claim"
    /\ Claimable(id)
    /\ Fault
    /\ rows' = Claimed(id)
    /\ slot' = [slot EXCEPT ![s] = Idle("wait")]
    /\ UNCHANGED <<proc, maint, asked>>

\* Mistake: the loop returns when nothing is due.
ClaimNoneReturns(s) ==
    /\ slot[s].phase = "claim"
    /\ \A id \in Ids : ~Due(id)
    /\ slot' = [slot EXCEPT ![s] = Idle("stopped")]
    /\ UNCHANGED <<rows, proc, maint, faults, asked>>

ClaimNone(s) ==
    /\ slot[s].phase = "claim"
    /\ \A id \in Ids : ~Due(id)
    /\ slot' = [slot EXCEPT ![s] = Idle("wait")]
    /\ UNCHANGED <<rows, proc, maint, faults, asked>>

\* A notification or the five second ticker ends the select.
Wake(s) ==
    /\ slot[s].phase = "wait"
    /\ slot' = [slot EXCEPT ![s] = Idle("claim")]
    /\ UNCHANGED <<rows, proc, maint, faults, asked>>

\* The handler returns: success, an error (a panic and a cancelled context
\* are errors), or a permanent error.
HandlerReturn(s, result) ==
    /\ slot[s].phase = "run"
    /\ slot' = [slot EXCEPT ![s].phase = "report", ![s].result = result]
    /\ LET id == slot[s].id
           k  == rows[id].key
       IN  IF result = "ok"
           THEN /\ asked' = [j \in Keys |-> asked[j] /\ ~(j = k /\ rows[id].fresh)]
                /\ rows' = [rows EXCEPT ![id].fresh = FALSE]
           ELSE UNCHANGED <<rows, asked>>
    /\ UNCHANGED <<proc, maint, faults>>

\* completeSQL deletes by id alone.
Complete(s) ==
    /\ slot[s].phase = "report" /\ slot[s].result = "ok"
    /\ rows' = [rows EXCEPT ![slot[s].id] = NoRow]
    /\ slot' = [slot EXCEPT ![s] = LoopHead(s)]
    /\ UNCHANGED <<proc, maint, faults, asked>>

Final(s) == slot[s].attempts >= MaxAttempts \/ slot[s].result = "permanent"

\* failSQL with status 'failed'.  An update of a row that is gone changes nothing.
FailFinal(s) ==
    LET id == slot[s].id
        k  == rows[id].key
    IN  /\ slot[s].phase = "report" /\ slot[s].result \in {"error", "permanent"}
        /\ Final(s)
        /\ rows' = IF rows[id] = NoRow THEN rows
                   ELSE [rows EXCEPT ![id].status = "failed", ![id].age = 0,
                                     ![id].wait = 0, ![id].fresh = FALSE]
        /\ asked' = [j \in Keys |-> asked[j] /\ ~(j = k /\ rows[id].fresh)]
        /\ slot' = [slot EXCEPT ![s] = LoopHead(s)]
        /\ UNCHANGED <<proc, maint, faults>>

\* Another row of the key is queued: putting this one back would violate
\* jobs_unique_key_idx.
Superseded(id) ==
    \E j \in Ids \ {id} : Queued(j) /\ rows[j].key = rows[id].key

\* failSQL with status 'queued'.
FailRetry(s) ==
    LET id == slot[s].id
    IN  /\ slot[s].phase = "report" /\ slot[s].result = "error"
        /\ ~Final(s)
        /\ ~Superseded(id)
        /\ \E d \in Backoff(slot[s].attempts) :
             rows' = IF rows[id] = NoRow THEN rows
                     ELSE [rows EXCEPT ![id].status = "queued", ![id].age = 0,
                                       ![id].wait = d, ![id].fresh = FALSE]
        /\ slot' = [slot EXCEPT ![s] = LoopHead(s)]
        /\ UNCHANGED <<proc, maint, faults, asked>>

\* failSQL meets the unique index; the lane goes on to delete its own row.
FailSuperseded(s) ==
    LET id == slot[s].id
    IN  /\ slot[s].phase = "report" /\ slot[s].result = "error"
        /\ ~Final(s)
        /\ Superseded(id)
        /\ slot' = [slot EXCEPT ![s].phase = "drop"]
        /\ rows' = [rows EXCEPT ![id].fresh = FALSE]
        /\ UNCHANGED <<proc, maint, faults, asked>>

DropOwn(s) ==
    /\ slot[s].phase = "drop"
    /\ rows' = [rows EXCEPT ![slot[s].id] = NoRow]
    /\ slot' = [slot EXCEPT ![s] = LoopHead(s)]
    /\ UNCHANGED <<proc, maint, faults, asked>>

\* The write of the outcome fails; it is logged and the row stays running.
ReportLost(s) ==
    /\ slot[s].phase \in {"report", "drop"}
    /\ Fault
    /\ slot' = [slot EXCEPT ![s] = LoopHead(s)]
    /\ UNCHANGED <<rows, proc, maint, asked>>

-----------------------------------------------------------------------------
(* reap(): dropStaleSQL, then reapSQL; two statements, any process.          *)

\* Mistake: dropStaleSQL without its EXISTS deletes every stale row.
DropEveryStale(p) ==
    /\ proc[p] = "up" /\ maint[p] = "drop"
    /\ rows' = [id \in Ids |-> IF Stale(id) THEN NoRow ELSE rows[id]]
    /\ maint' = [maint EXCEPT ![p] = "reap"]
    /\ UNCHANGED <<slot, proc, faults, asked>>

\* Mistake: reap() runs reapSQL alone.
DropNothing(p) ==
    /\ proc[p] = "up" /\ maint[p] = "drop"
    /\ maint' = [maint EXCEPT ![p] = "reap"]
    /\ UNCHANGED <<rows, slot, proc, faults, asked>>

DropStale(p) ==
    /\ proc[p] = "up" /\ maint[p] = "drop"
    /\ rows' = [id \in Ids |-> IF Stale(id) /\ QueuedFor(rows[id].key)
                               THEN NoRow ELSE rows[id]]
    /\ maint' = [maint EXCEPT ![p] = "reap"]
    /\ UNCHANGED <<slot, proc, faults, asked>>

\* One UPDATE over all stale rows: when two rows of one key would be queued
\* the unique index rejects the whole statement and nothing is reaped.
ReapConflict ==
    \E i, j \in Ids : /\ i # j /\ rows[i].key = rows[j].key
                      /\ Stale(i)
                      /\ Stale(j) \/ Queued(j)

\* Mistake: reapSQL without the cutoff puts every running row back.
ReapEveryRunning(p) ==
    /\ proc[p] = "up" /\ maint[p] = "reap"
    /\ rows' = [id \in Ids |->
                  IF Running(id) /\ ~ReapConflict
                  THEN [rows[id] EXCEPT !.status = "queued", !.age = 0,
                                        !.wait = 0, !.fresh = FALSE]
                  ELSE rows[id]]
    /\ maint' = [maint EXCEPT ![p] = "drop"]
    /\ UNCHANGED <<slot, proc, faults, asked>>

Reap(p) ==
    /\ proc[p] = "up" /\ maint[p] = "reap"
    /\ rows' = [id \in Ids |->
                  IF Stale(id) /\ ~ReapConflict
                  THEN [rows[id] EXCEPT !.status = "queued", !.age = 0,
                                        !.wait = 0, !.fresh = FALSE]
                  ELSE rows[id]]
    /\ maint' = [maint EXCEPT ![p] = "drop"]
    /\ UNCHANGED <<slot, proc, faults, asked>>

\* The cleanup job deletes rows that failed long ago.
Purge(id) ==
    /\ rows[id].status = "failed"
    /\ rows' = [rows EXCEPT ![id] = NoRow]
    /\ UNCHANGED <<slot, proc, maint, faults, asked>>

-----------------------------------------------------------------------------
(* Process life cycle.                                                       *)

\* The run context is cancelled: lanes that wait or are about to claim leave
\* the loop, busy ones finish their job first.
Drain(p) ==
    /\ proc[p] = "up"
    /\ Fault
    /\ proc' = [proc EXCEPT ![p] = "draining"]
    /\ slot' = [s \in Slots |->
                  IF s[1] = p /\ slot[s].phase \in {"claim", "wait"}
                  THEN Idle("stopped") ELSE slot[s]]
    /\ maint' = [maint EXCEPT ![p] = "drop"]
    /\ UNCHANGED <<rows, asked>>

Exit(p) ==
    /\ proc[p] = "draining"
    /\ \A s \in Slots : s[1] = p => slot[s].phase = "stopped"
    /\ proc' = [proc EXCEPT ![p] = "down"]
    /\ UNCHANGED <<rows, slot, maint, faults, asked>>

Crash(p) ==
    /\ proc[p] # "down"
    /\ Fault
    /\ proc' = [proc EXCEPT ![p] = "down"]
    /\ slot' = [s \in Slots |-> IF s[1] = p THEN Idle("stopped") ELSE slot[s]]
    /\ maint' = [maint EXCEPT ![p] = "drop"]
    /\ UNCHANGED <<rows, asked>>

Start(p) ==
    /\ proc[p] = "down"
    /\ proc' = [proc EXCEPT ![p] = "up"]
    /\ slot' = [s \in Slots |-> IF s[1] = p THEN Idle("claim") ELSE slot[s]]
    /\ UNCHANGED <<rows, maint, faults, asked>>

-----------------------------------------------------------------------------
(* Time.  A handler's context ends after JobTimeout and the context of its  *)
(* report after ReportTimeout more, so a busy lane does not outlast them;   *)
(* the two statements of reap() share one cutoff and fall in one tick.      *)

InTime(s) ==
    /\ slot[s].phase = "run" => slot[s].elapsed < JobTimeout
    /\ slot[s].phase \in {"report", "drop"} => slot[s].elapsed < JobTimeout + ReportTimeout

Tick ==
    /\ \A s \in Slots : InTime(s)
    /\ \A p \in Procs : maint[p] = "drop"
    /\ rows' = [id \in Ids |->
                  IF Queued(id) THEN [rows[id] EXCEPT !.wait = Larger(@ - 1, -MaxLate)]
                  ELSE IF Running(id) THEN [rows[id] EXCEPT !.age = Smaller(@ + 1, LockTimeout + 1)]
                  ELSE rows[id]]
    /\ slot' = [s \in Slots |-> IF slot[s].phase \in Busy
                                THEN [slot[s] EXCEPT !.elapsed = @ + 1] ELSE slot[s]]
    /\ UNCHANGED <<proc, maint, faults, asked>>

LaneStep(s) ==
    \/ ClaimNone(s) \/ Wake(s) \/ Complete(s)
    \/ FailFinal(s) \/ FailRetry(s) \/ FailSuperseded(s) \/ DropOwn(s)
    \/ \E result \in {"ok", "error", "permanent"} : HandlerReturn(s, result)

ProcStep(p) == DropStale(p) \/ Reap(p) \/ Exit(p) \/ Start(p)

Next ==
    \/ \E k \in Keys, d \in 0..MaxDelay : Enqueue(k, d)
    \/ \E p \in Procs, k \in Keys : Schedule(p, k)
    \/ \E s \in Slots, id \in Ids : Claim(s, id) \/ ClaimLost(s, id)
    \/ \E s \in Slots : LaneStep(s) \/ ReportLost(s)
    \/ \E p \in Procs : ProcStep(p) \/ Drain(p) \/ Crash(p)
    \/ \E id \in Ids : Purge(id)
    \/ Tick

Spec == Init /\ [][Next]_vars

(***************************************************************************)
(* Fairness: goroutines that can run do run, processes are restarted, the  *)
(* scheduler and the clock go on.  ORDER BY run_at means a due row is not  *)
(* overtaken for ever, hence strong fairness of the claim of a row.  The   *)
(* callers of Enqueue do not know when reap() runs, so they do not fall    *)
(* between its two statements every single minute: strong fairness of the  *)
(* pass that reaches a row.                                                *)
(***************************************************************************)
Recover(id) == \E p \in Procs : (DropStale(p) \/ Reap(p)) /\ Stale(id) /\ rows'[id] # rows[id]

Fairness ==
    /\ \A s \in Slots : WF_vars(LaneStep(s))
    /\ \A id \in Ids : SF_vars(\E s \in Slots : Claim(s, id))
    /\ \A p \in Procs : WF_vars(ProcStep(p))
    /\ \A id \in Ids : SF_vars(Recover(id))
    /\ \A k \in Keys : WF_vars(\E p \in Procs : Schedule(p, k))
    /\ SF_vars(Tick)

FairSpec == Spec /\ Fairness

-----------------------------------------------------------------------------
(* Properties.                                                               *)

\* A lane that works on a row owns it: the row is running, the claim it
\* shows is the lane's own and not stale, and no other lane works on it.  This
\* is what lets complete and fail address the row by id alone.
Owned(s) ==
    /\ Running(slot[s].id)
    /\ rows[slot[s].id].age = slot[s].elapsed
    /\ ~Stale(slot[s].id)

ExclusiveRun ==
    /\ \A s \in Slots : slot[s].phase \in Busy => Owned(s)
    /\ \A s, t \in Slots :
         s # t /\ slot[s].phase \in Busy /\ slot[t].phase \in Busy => slot[s].id # slot[t].id

\* A request that was accepted is never lost, whatever fails: until a handler
\* that started after it succeeds or is given up, some row of its key is queued,
\* or runs a handler that started after it.  Enqueue's DO NOTHING, fail's
\* delete on conflict and dropStaleSQL all rely on another row to carry on.
NoLostRequest ==
    \A k \in Keys : asked[k] =>
        \E id \in Ids : rows[id].key = k /\ (Queued(id) \/ (Running(id) /\ rows[id].fresh))

\* Every queued job is claimed, or absorbed, in the end.
QueuedIsClaimed == \A id \in Ids : Queued(id) ~> ~Queued(id)

\* A row whose worker is gone does not stay running for ever, unless two stale
\* rows of one key jam the reaper: reapSQL is one statement, and the unique index
\* then rejects it for every row.
Orphan(id) == Running(id) /\ \A s \in Slots : slot[s].id # id

Jammed == \E i, j \in Ids : i # j /\ Stale(i) /\ Stale(j) /\ rows[i].key = rows[j].key

OrphanIsRecovered == \A id \in Ids : Orphan(id) ~> (~Running(id) \/ Jammed)
=============================================================================
