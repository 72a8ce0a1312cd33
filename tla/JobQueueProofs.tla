--------------------------- MODULE JobQueueProofs ---------------------------
(***************************************************************************)
(* Proofs about the job queue, for every number of processes, lanes, keys  *)
(* and rows and every choice of timeouts with                              *)
(* JobTimeout + ReportTimeout <= LockTimeout.                              *)
(***************************************************************************)
EXTENDS JobQueue, TLAPS

\* A busy lane holds a running row that it claimed as long ago as the row says;
\* the other lanes hold none.
LaneInv ==
    \A s \in Slots :
        /\ slot[s].phase \in Busy =>
             /\ slot[s].id \in Ids
             /\ Running(slot[s].id)
             /\ rows[slot[s].id].age = slot[s].elapsed
        /\ slot[s].phase = "run" => slot[s].elapsed <= JobTimeout
        /\ slot[s].phase \notin Busy => slot[s].id = NoId

\* Two busy lanes hold two rows.
DistinctInv ==
    \A s, t \in Slots :
        s # t /\ slot[s].phase \in Busy /\ slot[t].phase \in Busy => slot[s].id # slot[t].id

\* A row about to be deleted by its lane is not the one a request waits for.
SpentInv ==
    \A s \in Slots :
        (slot[s].phase = "drop" \/ (slot[s].phase = "report" /\ slot[s].result = "ok"))
            => ~rows[slot[s].id].fresh

IInv == TypeOK /\ LaneInv /\ DistinctInv /\ SpentInv /\ NoLostRequest

-----------------------------------------------------------------------------
\* backoff() never exceeds its cap and is never negative.
LEMMA BackoffRange == \A n \in Nat : \A d \in Backoff(n) : d \in Nat /\ d <= MaxBackoff
  <1> TAKE n \in Nat
  <1> DEFINE i == Smaller(Larger(n - 1, 0), 12) + 1
             x == Shift[i]
  <1>1. i \in 1..13
    BY DEF Smaller, Larger
  <1>2. x \in Nat
    BY <1>1 DEF Shift
  <1>3. Delay(n) = BaseBackoff * x
    BY DEF Delay
  <1> HIDE DEF i, x
  <1>4. Delay(n) \in Nat
    BY <1>2, <1>3, BoundAssumption
  <1> QED
    BY <1>4, BoundAssumption DEF Backoff, Smaller

\* The initial state satisfies the inductive invariant.
LEMMA InitInv == Init => IInv
  <1> SUFFICES ASSUME Init PROVE IInv
    OBVIOUS
  <1> USE DEF Init, Idle, NoRow, Busy
  <1>1. TypeOK
    <2>1. NoRow \in Row
      BY BoundAssumption, TimeoutAssumption DEF Row, Waits, Larger
    <2>2. Idle("claim") \in Lane
      BY BoundAssumption, TimeoutAssumption DEF Lane
    <2> QED
      BY <2>1, <2>2, BoundAssumption DEF TypeOK
  <1>2. LaneInv /\ DistinctInv /\ SpentInv
    BY DEF LaneInv, DistinctInv, SpentInv
  <1>3. NoLostRequest
    BY DEF NoLostRequest
  <1> QED
    BY <1>1, <1>2, <1>3 DEF IInv
-----------------------------------------------------------------------------
(* Shapes of steps that several actions share.                              *)

\* What a busy lane holds.
LEMMA BusyFacts ==
    ASSUME IInv, NEW s \in Slots, slot[s].phase \in Busy
    PROVE  /\ slot[s] \in Lane /\ slot[s].id \in Ids
           /\ rows[slot[s].id] \in Row /\ Running(slot[s].id)
           /\ rows[slot[s].id] # NoRow
  BY DEF IInv, LaneInv, TypeOK, Running, NoRow

\* The values that the statements write are in range.
LEMMA Ranges ==
    /\ 0 \in Waits /\ 0 \in 0..(LockTimeout + 1) /\ 0 \in 0..MaxAttempts
    /\ \A d \in 0..MaxDelay : d \in Waits
    /\ \A d \in Nat : d <= MaxBackoff => d \in Waits
  BY BoundAssumption, TimeoutAssumption DEF Waits, Larger

\* The blank row and the idle lanes are well typed.
LEMMA Blanks ==
    /\ NoRow \in Row
    /\ \A ph \in {"claim", "wait", "stopped"} :
         Idle(ph) \in Lane /\ Idle(ph).phase = ph /\ Idle(ph).id = NoId
  BY BoundAssumption, TimeoutAssumption DEF NoRow, Row, Waits, Larger, Idle, Lane

\* A lane that leaves its job is idle.
LEMMA LoopHeadIdle ==
    \A s : LoopHead(s) \in Lane /\ LoopHead(s).phase \notin Busy /\ LoopHead(s).id = NoId
  BY Blanks DEF LoopHead, Busy

\* A statement that touches no row of a busy lane, except that it may make the
\* row no longer fresh, keeps what is known of the lanes.
LEMMA RowsStep ==
    ASSUME IInv,
           rows' \in [Ids -> Row], UNCHANGED <<slot, proc, faults>>,
           maint' \in [Procs -> {"drop", "reap"}], asked' \in [Keys -> BOOLEAN],
           \A id \in Ids : (\E s \in Slots : slot[s].phase \in Busy /\ slot[s].id = id) =>
               /\ rows'[id].status = rows[id].status
               /\ rows'[id].age = rows[id].age
               /\ rows'[id].fresh => rows[id].fresh
    PROVE  TypeOK' /\ LaneInv' /\ DistinctInv' /\ SpentInv'
  <1>1. TypeOK'
    BY DEF IInv, TypeOK
  <1>2. LaneInv'
    BY DEF IInv, LaneInv, Running
  <1>3. DistinctInv'
    BY DEF IInv, DistinctInv
  <1>4. SpentInv'
    BY DEF IInv, SpentInv, LaneInv, Busy
  <1> QED
    BY <1>1, <1>2, <1>3, <1>4

\* A lane writes the outcome of its job into its row and lets go of it.
LEMMA ReleaseStep ==
    ASSUME IInv, NEW s \in Slots, slot[s].phase \in Busy, NEW r \in Row,
           rows' = [rows EXCEPT ![slot[s].id] = r],
           slot' = [slot EXCEPT ![s] = LoopHead(s)],
           UNCHANGED <<proc, maint, faults>>, asked' \in [Keys -> BOOLEAN]
    PROVE  TypeOK' /\ LaneInv' /\ DistinctInv' /\ SpentInv'
  <1>0. \A t \in Slots : t # s => slot'[t] = slot[t]
    BY DEF IInv, TypeOK
  <1>1. TypeOK'
    BY BusyFacts, LoopHeadIdle DEF IInv, TypeOK
  <1>2. slot'[s].phase \notin Busy /\ slot'[s].id = NoId
    BY LoopHeadIdle DEF IInv, TypeOK
  <1>3. \A t \in Slots : t # s /\ slot[t].phase \in Busy => rows'[slot[t].id] = rows[slot[t].id]
    BY DEF IInv, DistinctInv, LaneInv, TypeOK
  <1>4. LaneInv'
    BY <1>0, <1>2, <1>3 DEF IInv, LaneInv, Running, Busy
  <1>5. DistinctInv'
    BY <1>0, <1>2 DEF IInv, DistinctInv
  <1>6. SpentInv'
    BY <1>0, <1>2, <1>3 DEF IInv, SpentInv, Busy
  <1> QED
    BY <1>1, <1>4, <1>5, <1>6

\* Lanes become idle or go on as they were, and the table stays as it is.
LEMMA IdleStep ==
    ASSUME IInv, UNCHANGED <<rows, asked>>,
           slot' \in [Slots -> Lane],
           \A s \in Slots : \/ slot'[s] = slot[s]
                            \/ slot'[s].phase \notin Busy /\ slot'[s].id = NoId,
           proc' \in [Procs -> {"up", "draining", "down"}],
           maint' \in [Procs -> {"drop", "reap"}], faults' \in 0..MaxFaults
    PROVE  IInv'
  <1>1. TypeOK'
    BY DEF IInv, TypeOK
  <1>2. LaneInv' /\ DistinctInv'
    BY DEF IInv, LaneInv, DistinctInv, Running, Busy
  <1>3. SpentInv'
    BY DEF IInv, SpentInv, Busy
  <1>4. NoLostRequest'
    BY DEF IInv, NoLostRequest, Queued, Running
  <1> QED
    BY <1>1, <1>2, <1>3, <1>4 DEF IInv

-----------------------------------------------------------------------------
(* One lemma per action.                                                    *)

\* Enqueue leaves a queued row of its key and makes running ones stale news.
LEMMA EnqueueInv ==
    ASSUME IInv, NEW k \in Keys, NEW d \in 0..MaxDelay, Enqueue(k, d)
    PROVE  IInv'
  <1> DEFINE New == [NoRow EXCEPT !.status = "queued", !.key = k, !.wait = d]
  <1>0. TypeOK /\ LaneInv /\ NoLostRequest
    BY DEF IInv
  <1>1. New \in Row
    BY Ranges DEF NoRow, Row
  <1>2. Request(k) \in [Ids -> Row]
    BY ZenonT(60), <1>0 DEF Request, TypeOK, Row
  <1>3. \A j \in Ids : /\ Request(k)[j].status = rows[j].status
                       /\ Request(k)[j].key = rows[j].key
                       /\ Request(k)[j].age = rows[j].age
                       /\ Request(k)[j].fresh => rows[j].fresh
                       /\ rows[j].key # k => Request(k)[j] = rows[j]
    BY <1>0 DEF Request, TypeOK, Row
  <1>4. /\ asked' \in [Keys -> BOOLEAN] /\ \A j \in Keys : j # k => asked'[j] = asked[j]
        /\ UNCHANGED <<slot, proc, maint, faults>>
    BY <1>0 DEF Enqueue, TypeOK
  <1>5. CASE QueuedFor(k)
    <2>1. rows' = Request(k)
      BY <1>5 DEF Enqueue, Insert
    <2>2. TypeOK' /\ LaneInv' /\ DistinctInv' /\ SpentInv'
      BY <2>1, <1>0, <1>2, <1>3, <1>4, RowsStep DEF Enqueue, TypeOK
    <2>3. NoLostRequest'
      BY <2>1, <1>0, <1>3, <1>4, <1>5 DEF NoLostRequest, QueuedFor, Queued, Running
    <2> QED
      BY <2>2, <2>3 DEF IInv
  <1>6. CASE ~QueuedFor(k)
    <2>1. PICK id \in Ids : Unused(id) /\ rows' = [Request(k) EXCEPT ![id] = New]
      BY <1>6 DEF Enqueue, Insert
    <2>2. rows' \in [Ids -> Row]
      BY <2>1, <1>1, <1>2
    <2>3. rows'[id] = New /\ \A j \in Ids \ {id} : rows'[j] = Request(k)[j]
      BY <2>1, <1>2
    <2>4. rows[id] = NoRow /\ \A s \in Slots : slot[s].id # id
      BY <2>1 DEF Unused
    <2>5. TypeOK' /\ LaneInv' /\ DistinctInv' /\ SpentInv'
      BY <2>2, <2>3, <2>4, <1>0, <1>3, <1>4, RowsStep DEF Enqueue, TypeOK
    <2>6. New.status = "queued" /\ New.key = k
      BY DEF NoRow
    <2>7. NoRow.key \notin Keys
      BY NameAssumption DEF NoRow
    <2>8. NoLostRequest'
      <3> SUFFICES ASSUME NEW j \in Keys, asked'[j]
                   PROVE  \E i \in Ids : /\ rows'[i].key = j
                                         /\ \/ rows'[i].status = "queued"
                                            \/ rows'[i].status = "running" /\ rows'[i].fresh
        BY DEF NoLostRequest, Queued, Running
      <3>1. CASE j = k
        BY <3>1, <2>3, <2>6
      <3>2. CASE j # k
        <4>1. PICK i \in Ids : rows[i].key = j /\ (Queued(i) \/ (Running(i) /\ rows[i].fresh))
          BY <3>2, <1>0, <1>4 DEF NoLostRequest
        <4>2. i # id
          BY <4>1, <2>4, <2>7
        <4>3. rows'[i] = rows[i]
          BY <4>1, <4>2, <3>2, <2>3, <1>3
        <4> QED
          BY <4>1, <4>3 DEF Queued, Running
      <3> QED
        BY <3>1, <3>2
    <2> QED
      BY <2>5, <2>8 DEF IInv
  <1> QED
    BY <1>5, <1>6

\* Claiming makes the row running and fresh, whether or not a lane learns of it.
LEMMA ClaimedRow ==
    ASSUME IInv, NEW id \in Ids, Claimable(id), rows' = Claimed(id)
    PROVE  /\ rows' \in [Ids -> Row]
           /\ rows'[id].status = "running" /\ rows'[id].age = 0 /\ rows'[id].fresh
           /\ rows'[id].key = rows[id].key
           /\ NextAttempt(rows[id].attempts) \in 0..MaxAttempts
           /\ \A j \in Ids \ {id} : rows'[j] = rows[j]
           /\ \A s \in Slots : slot[s].phase \in Busy => slot[s].id # id
           /\ asked' = asked => NoLostRequest'
  <1>0. TypeOK /\ LaneInv /\ NoLostRequest /\ rows[id] \in Row /\ Queued(id)
    BY DEF IInv, TypeOK, Claimable, Due
  <1>1. NextAttempt(rows[id].attempts) \in 0..MaxAttempts
    BY <1>0, BoundAssumption DEF NextAttempt, Smaller, Row
  <1> DEFINE r == [rows[id] EXCEPT !.status = "running", !.age = 0, !.wait = 0,
                      !.attempts = NextAttempt(rows[id].attempts), !.fresh = TRUE]
  <1>2. r \in Row /\ r.status = "running" /\ r.age = 0 /\ r.fresh /\ r.key = rows[id].key
    BY <1>0, <1>1, Ranges DEF Row
  <1>3. rows' = [rows EXCEPT ![id] = r]
    BY <1>0 DEF Claimed, TypeOK, Row
  <1> HIDE DEF r
  <1>4. rows' \in [Ids -> Row] /\ rows'[id] = r /\ \A j \in Ids \ {id} : rows'[j] = rows[j]
    BY <1>2, <1>3, <1>0 DEF TypeOK
  <1>5. \A s \in Slots : slot[s].phase \in Busy => slot[s].id # id
    BY <1>0 DEF LaneInv, Queued, Running
  <1>6. asked' = asked => NoLostRequest'
    BY <1>0, <1>2, <1>4 DEF NoLostRequest, Queued, Running
  <1> QED
    BY <1>1, <1>2, <1>4, <1>5, <1>6

\* A lane that claims a queued row is the only one to hold it.
LEMMA ClaimInv ==
    ASSUME IInv, NEW s \in Slots, NEW id \in Ids, Claim(s, id)
    PROVE  IInv'
  <1> DEFINE L == [phase |-> "run", id |-> id, result |-> "none", elapsed |-> 0,
                   attempts |-> NextAttempt(rows[id].attempts)]
  <1>0. TypeOK /\ LaneInv /\ DistinctInv /\ SpentInv
    BY DEF IInv
  <1>1. /\ rows' \in [Ids -> Row]
        /\ rows'[id].status = "running" /\ rows'[id].age = 0
        /\ NextAttempt(rows[id].attempts) \in 0..MaxAttempts
        /\ \A j \in Ids \ {id} : rows'[j] = rows[j]
        /\ \A t \in Slots : slot[t].phase \in Busy => slot[t].id # id
        /\ NoLostRequest'
    BY ClaimedRow DEF Claim
  <1>2. L \in Lane /\ L.phase = "run" /\ L.id = id /\ L.elapsed = 0
    BY <1>1, TimeoutAssumption DEF Lane, Busy
  <1>3. slot' = [slot EXCEPT ![s] = L]
    BY DEF Claim
  <1> HIDE DEF L
  <1>4. slot' \in [Slots -> Lane] /\ slot'[s] = L /\ \A t \in Slots \ {s} : slot'[t] = slot[t]
    BY <1>0, <1>2, <1>3 DEF TypeOK
  <1>5. TypeOK'
    BY <1>0, <1>1, <1>4 DEF TypeOK, Claim
  <1>6. LaneInv'
    BY <1>0, <1>1, <1>2, <1>4, TimeoutAssumption DEF LaneInv, Running, Busy
  <1>7. DistinctInv'
    BY <1>0, <1>1, <1>2, <1>4 DEF DistinctInv
  <1>8. SpentInv'
    BY <1>0, <1>1, <1>2, <1>4 DEF SpentInv, LaneInv, Busy
  <1> QED
    BY <1>1, <1>5, <1>6, <1>7, <1>8 DEF IInv

\* A claim whose reply is lost leaves a running row that no lane holds.
LEMMA ClaimLostInv ==
    ASSUME IInv, NEW s \in Slots, NEW id \in Ids, ClaimLost(s, id)
    PROVE  IInv'
  <1>0. TypeOK /\ LaneInv /\ DistinctInv /\ SpentInv
    BY DEF IInv
  <1>1. /\ rows' \in [Ids -> Row]
        /\ \A j \in Ids \ {id} : rows'[j] = rows[j]
        /\ \A t \in Slots : slot[t].phase \in Busy => slot[t].id # id
        /\ NoLostRequest'
    BY ClaimedRow DEF ClaimLost
  <1>2. /\ slot' \in [Slots -> Lane] /\ slot'[s].phase = "wait" /\ slot'[s].id = NoId
        /\ \A t \in Slots \ {s} : slot'[t] = slot[t]
    BY <1>0, Blanks DEF ClaimLost, TypeOK
  <1>3. TypeOK'
    BY <1>0, <1>1, <1>2, BoundAssumption DEF TypeOK, ClaimLost, Fault
  <1>4. LaneInv'
    BY <1>0, <1>1, <1>2 DEF LaneInv, Running, Busy
  <1>5. DistinctInv'
    BY <1>0, <1>2 DEF DistinctInv, Busy
  <1>6. SpentInv'
    BY <1>0, <1>1, <1>2 DEF SpentInv, LaneInv, Busy
  <1> QED
    BY <1>1, <1>3, <1>4, <1>5, <1>6 DEF IInv

\* A successful handler serves the request its row stood for; the row is then
\* no longer what a request waits for.
LEMMA HandlerReturnInv ==
    ASSUME IInv, NEW s \in Slots, NEW result \in {"ok", "error", "permanent"},
           HandlerReturn(s, result)
    PROVE  IInv'
  <1> DEFINE id == slot[s].id
             k  == rows[id].key
  <1>0. TypeOK /\ LaneInv /\ DistinctInv /\ SpentInv /\ NoLostRequest /\ slot[s].phase = "run"
    BY DEF IInv, HandlerReturn
  <1>1. slot[s] \in Lane /\ id \in Ids /\ rows[id] \in Row /\ Running(id)
    BY <1>0, BusyFacts DEF Busy
  <1>2. /\ slot' \in [Slots -> Lane] /\ slot'[s].phase = "report" /\ slot'[s].id = id
        /\ slot'[s].elapsed = slot[s].elapsed /\ slot'[s].result = result
        /\ \A t \in Slots \ {s} : slot'[t] = slot[t]
    BY <1>0, <1>1 DEF HandlerReturn, TypeOK, Lane, Busy
  <1>3. /\ rows' \in [Ids -> Row]
        /\ result = "ok" => ~rows'[id].fresh
        /\ rows'[id].fresh => rows[id].fresh
        /\ rows'[id].status = rows[id].status /\ rows'[id].age = rows[id].age
        /\ rows'[id].key = rows[id].key
        /\ result # "ok" => rows' = rows
        /\ \A j \in Ids \ {id} : rows'[j] = rows[j]
    <2>1. CASE result = "ok"
      <3> DEFINE r == [rows[id] EXCEPT !.fresh = FALSE]
      <3>1. /\ r \in Row /\ ~r.fresh /\ r.status = rows[id].status
            /\ r.age = rows[id].age /\ r.key = rows[id].key
        BY <1>1 DEF Row
      <3>2. rows' = [rows EXCEPT ![id] = r]
        BY <2>1, <1>0, <1>1 DEF HandlerReturn, TypeOK, Row
      <3> HIDE DEF r, id
      <3> QED
        BY <2>1, <3>1, <3>2, <1>0, <1>1 DEF TypeOK
    <2>2. CASE result # "ok"
      BY <2>2, <1>0, <1>1 DEF HandlerReturn, TypeOK
    <2> QED
      BY <2>1, <2>2
  <1>4. /\ asked' \in [Keys -> BOOLEAN]
        /\ \A j \in Keys : asked'[j] => asked[j]
        /\ \A j \in Keys : result = "ok" /\ asked'[j] => ~(j = k /\ rows[id].fresh)
    <2>1. CASE result = "ok"
      BY <2>1, <1>0 DEF HandlerReturn, TypeOK
    <2>2. CASE result # "ok"
      BY <2>2, <1>0 DEF HandlerReturn, TypeOK
    <2> QED
      BY <2>1, <2>2
  <1>5. UNCHANGED <<proc, maint, faults>>
    BY DEF HandlerReturn
  <1> HIDE DEF id, k
  <1>6. TypeOK'
    BY <1>0, <1>2, <1>3, <1>4, <1>5 DEF TypeOK
  <1>7. \A t \in Slots \ {s} : slot[t].phase \in Busy => slot[t].id # id
    BY <1>0, <1>1 DEF DistinctInv, Busy, id
  <1>8. LaneInv'
    BY <1>0, <1>1, <1>2, <1>3, <1>7 DEF LaneInv, Running, Busy, id
  <1>9. DistinctInv'
    BY <1>0, <1>2, <1>7 DEF DistinctInv, Busy
  <1>10. SpentInv'
    BY <1>0, <1>2, <1>3, <1>7 DEF SpentInv, LaneInv, Busy, id
  <1>11. NoLostRequest'
    <2> SUFFICES ASSUME NEW j \in Keys, asked'[j]
                 PROVE  \E i \in Ids : /\ rows'[i].key = j
                                       /\ \/ rows'[i].status = "queued"
                                          \/ rows'[i].status = "running" /\ rows'[i].fresh
      BY DEF NoLostRequest, Queued, Running
    <2>1. PICK i \in Ids : rows[i].key = j /\ (Queued(i) \/ (Running(i) /\ rows[i].fresh))
      BY <1>0, <1>4 DEF NoLostRequest
    <2>2. CASE i # id
      BY <2>1, <2>2, <1>3 DEF Queued, Running
    <2>3. CASE i = id /\ result = "ok"
      <3>1. Running(id) /\ ~Queued(id)
        BY <1>1 DEF Running, Queued
      <3> QED
        BY <2>1, <2>3, <3>1, <1>4 DEF k
    <2>4. CASE i = id /\ result # "ok"
      BY <2>1, <2>4, <1>3 DEF Queued, Running
    <2> QED
      BY <2>2, <2>3, <2>4
  <1> QED
    BY <1>6, <1>8, <1>9, <1>10, <1>11 DEF IInv

\* Deleting a row that no request waits for loses no request.
LEMMA DeleteSpent ==
    ASSUME IInv, NEW s \in Slots, slot[s].phase \in Busy, ~rows[slot[s].id].fresh,
           rows' = [rows EXCEPT ![slot[s].id] = NoRow], asked' = asked
    PROVE  NoLostRequest'
  <1> DEFINE id == slot[s].id
  <1>1. id \in Ids /\ Running(id) /\ ~rows[id].fresh
    BY BusyFacts
  <1>2. \A j \in Ids \ {id} : rows'[j] = rows[j]
    BY DEF IInv, TypeOK
  <1> HIDE DEF id
  <1> QED
    BY <1>1, <1>2 DEF IInv, NoLostRequest, Queued, Running

\* completeSQL deletes the lane's own row, whose request was served.
LEMMA CompleteInv ==
    ASSUME IInv, NEW s \in Slots, Complete(s)
    PROVE  IInv'
  <1>1. slot[s].phase \in Busy /\ ~rows[slot[s].id].fresh
    BY DEF IInv, SpentInv, Complete, Busy
  <1>2. TypeOK' /\ LaneInv' /\ DistinctInv' /\ SpentInv'
    BY <1>1, Blanks, ReleaseStep DEF Complete, IInv, TypeOK
  <1>3. NoLostRequest'
    BY <1>1, DeleteSpent DEF Complete
  <1> QED
    BY <1>2, <1>3 DEF IInv

\* fail's delete removes a row that a queued one has replaced.
LEMMA DropOwnInv ==
    ASSUME IInv, NEW s \in Slots, DropOwn(s)
    PROVE  IInv'
  <1>1. slot[s].phase \in Busy /\ ~rows[slot[s].id].fresh
    BY DEF IInv, SpentInv, DropOwn, Busy
  <1>2. TypeOK' /\ LaneInv' /\ DistinctInv' /\ SpentInv'
    BY <1>1, Blanks, ReleaseStep DEF DropOwn, IInv, TypeOK
  <1>3. NoLostRequest'
    BY <1>1, DeleteSpent DEF DropOwn
  <1> QED
    BY <1>2, <1>3 DEF IInv

\* A job that is given up takes the request it was fresh for with it.
LEMMA FailFinalInv ==
    ASSUME IInv, NEW s \in Slots, FailFinal(s)
    PROVE  IInv'
  <1> DEFINE id == slot[s].id
             r  == [rows[id] EXCEPT !.status = "failed", !.age = 0, !.wait = 0, !.fresh = FALSE]
  <1>1. slot[s].phase \in Busy /\ id \in Ids /\ rows[id] \in Row /\ Running(id) /\ rows[id] # NoRow
    BY BusyFacts DEF FailFinal, Busy
  <1>2. r \in Row
    BY <1>1, Ranges DEF Row
  <1>3. rows' = [rows EXCEPT ![id] = r]
    BY <1>1 DEF FailFinal, IInv, TypeOK, Row
  <1>4. /\ asked' \in [Keys -> BOOLEAN] /\ \A j \in Keys : asked'[j] => asked[j]
        /\ \A j \in Keys : asked'[j] => ~(j = rows[id].key /\ rows[id].fresh)
    BY DEF FailFinal, IInv, TypeOK
  <1>5. slot' = [slot EXCEPT ![s] = LoopHead(s)] /\ UNCHANGED <<proc, maint, faults>>
    BY DEF FailFinal
  <1> HIDE DEF r
  <1>6. TypeOK' /\ LaneInv' /\ DistinctInv' /\ SpentInv'
    BY <1>1, <1>2, <1>3, <1>4, <1>5, ReleaseStep
  <1>7. \A j \in Ids \ {id} : rows'[j] = rows[j]
    BY <1>3 DEF IInv, TypeOK
  <1>8. NoLostRequest'
    <2> HIDE DEF id
    <2> QED
      BY <1>1, <1>4, <1>7 DEF IInv, NoLostRequest, Queued, Running
  <1> QED
    BY <1>6, <1>8 DEF IInv

\* A retried row is queued again, so it stands for every request of its key.
LEMMA FailRetryInv ==
    ASSUME IInv, NEW s \in Slots, FailRetry(s)
    PROVE  IInv'
  <1> DEFINE id == slot[s].id
  <1>1. /\ slot[s].phase \in Busy /\ slot[s] \in Lane
        /\ id \in Ids /\ rows[id] \in Row /\ Running(id) /\ rows[id] # NoRow
    BY BusyFacts DEF FailRetry, Busy
  <1>2. slot[s].attempts \in Nat
    BY SMTT(30), <1>1, BoundAssumption DEF Lane
  <1>3. PICK d \in Backoff(slot[s].attempts) :
          rows' = [rows EXCEPT ![id].status = "queued", ![id].age = 0,
                               ![id].wait = d, ![id].fresh = FALSE]
    BY <1>1 DEF FailRetry
  <1>4. d \in Waits
    BY <1>2, BackoffRange, Ranges
  <1> DEFINE r == [rows[id] EXCEPT !.status = "queued", !.age = 0, !.wait = d, !.fresh = FALSE]
  <1>5. r \in Row /\ r.status = "queued" /\ r.key = rows[id].key
    BY <1>1, <1>4, Ranges DEF Row
  <1>6. rows' = [rows EXCEPT ![id] = r]
    BY <1>1, <1>3 DEF IInv, TypeOK, Row
  <1> HIDE DEF r
  <1>7. /\ slot' = [slot EXCEPT ![s] = LoopHead(s)] /\ UNCHANGED <<proc, maint, faults>>
        /\ asked' = asked /\ asked' \in [Keys -> BOOLEAN]
    BY DEF FailRetry, IInv, TypeOK
  <1>8. TypeOK' /\ LaneInv' /\ DistinctInv' /\ SpentInv'
    BY <1>1, <1>5, <1>6, <1>7, ReleaseStep
  <1>9. rows'[id] = r /\ \A j \in Ids \ {id} : rows'[j] = rows[j]
    BY <1>1, <1>6 DEF IInv, TypeOK
  <1>10. NoLostRequest'
    <2> HIDE DEF id
    <2> QED
      BY <1>1, <1>5, <1>7, <1>9 DEF IInv, NoLostRequest, Queued, Running
  <1> QED
    BY <1>8, <1>10 DEF IInv

\* The row gives way to the queued one of its key.
LEMMA FailSupersededInv ==
    ASSUME IInv, NEW s \in Slots, FailSuperseded(s)
    PROVE  IInv'
  <1> DEFINE id == slot[s].id
             r  == [rows[id] EXCEPT !.fresh = FALSE]
  <1>0. TypeOK /\ LaneInv /\ DistinctInv /\ SpentInv /\ NoLostRequest
    BY DEF IInv
  <1>1. /\ slot[s].phase \in Busy /\ slot[s].phase # "run" /\ slot[s] \in Lane
        /\ id \in Ids /\ rows[id] \in Row /\ Running(id)
    BY BusyFacts DEF FailSuperseded, Busy
  <1>2. /\ r \in Row /\ r.status = rows[id].status /\ r.age = rows[id].age /\ ~r.fresh
    BY <1>1 DEF Row
  <1>3. rows' = [rows EXCEPT ![id] = r]
    BY <1>0, <1>1 DEF FailSuperseded, TypeOK, Row
  <1> HIDE DEF r
  <1>4. rows' \in [Ids -> Row] /\ rows'[id] = r /\ \A j \in Ids \ {id} : rows'[j] = rows[j]
    BY <1>0, <1>1, <1>2, <1>3 DEF TypeOK
  <1>5. /\ slot' \in [Slots -> Lane] /\ slot'[s].phase = "drop" /\ slot'[s].id = id
        /\ slot'[s].elapsed = slot[s].elapsed
        /\ \A t \in Slots \ {s} : slot'[t] = slot[t]
    BY <1>0, <1>1 DEF FailSuperseded, TypeOK, Lane, Busy
  <1>6. \A t \in Slots \ {s} : slot[t].phase \in Busy => slot[t].id # id
    BY <1>0, <1>1 DEF DistinctInv, Busy
  <1>7. PICK q \in Ids \ {id} : Queued(q) /\ rows[q].key = rows[id].key
    BY DEF FailSuperseded, Superseded
  <1>8. UNCHANGED <<proc, maint, faults, asked>>
    BY DEF FailSuperseded
  <1>9. TypeOK'
    BY <1>0, <1>4, <1>5, <1>8 DEF TypeOK
  <1>10. LaneInv'
    <2>1. /\ slot'[s].id \in Ids /\ rows'[slot'[s].id].status = "running"
          /\ rows'[slot'[s].id].age = slot'[s].elapsed
      BY <1>0, <1>1, <1>2, <1>4, <1>5 DEF LaneInv, Running
    <2> HIDE DEF id
    <2> QED
      BY <2>1, <1>0, <1>4, <1>5, <1>6 DEF LaneInv, Running, Busy
  <1> HIDE DEF id
  <1>11. DistinctInv'
    BY <1>0, <1>5, <1>6 DEF DistinctInv, Busy
  <1>12. SpentInv'
    BY <1>0, <1>2, <1>4, <1>5, <1>6 DEF SpentInv, LaneInv, Busy
  <1>13. NoLostRequest'
    BY <1>0, <1>1, <1>4, <1>7, <1>8 DEF NoLostRequest, Queued, Running
  <1> QED
    BY <1>9, <1>10, <1>11, <1>12, <1>13 DEF IInv

\* A row that a busy lane holds is never stale: the lane's contexts end first.
\* This is where JobTimeout + ReportTimeout <= LockTimeout is needed.
LEMMA BusyNotStale ==
    ASSUME IInv, NEW s \in Slots, slot[s].phase \in Busy
    PROVE  ~Stale(slot[s].id)
  BY BusyFacts, TimeoutAssumption DEF IInv, LaneInv, Lane, Stale

\* dropStaleSQL deletes a row only next to a queued one of its key.
LEMMA DropStaleInv ==
    ASSUME IInv, NEW p \in Procs, DropStale(p)
    PROVE  IInv'
  <1>0. TypeOK /\ NoLostRequest
    BY DEF IInv
  <1>1. rows' \in [Ids -> Row]
    BY <1>0, Blanks DEF DropStale, TypeOK
  <1>2. \A id \in Ids : ~Stale(id) \/ ~QueuedFor(rows[id].key) => rows'[id] = rows[id]
    BY DEF DropStale
  <1>3. maint' \in [Procs -> {"drop", "reap"}] /\ UNCHANGED <<slot, proc, faults, asked>>
    BY <1>0 DEF DropStale, TypeOK
  <1>4. TypeOK' /\ LaneInv' /\ DistinctInv' /\ SpentInv'
    BY <1>0, <1>1, <1>2, <1>3, BusyNotStale, RowsStep DEF TypeOK
  <1>5. NoLostRequest'
    <2>1. \A id \in Ids : Queued(id) => ~Stale(id)
      BY DEF Queued, Stale, Running
    <2> QED
      BY <2>1, <1>0, <1>2, <1>3 DEF NoLostRequest, QueuedFor, Queued, Running
  <1> QED
    BY <1>4, <1>5 DEF IInv

\* reapSQL queues stale rows and changes no other.
LEMMA ReapInv ==
    ASSUME IInv, NEW p \in Procs, Reap(p)
    PROVE  IInv'
  <1> DEFINE r(id) == [rows[id] EXCEPT !.status = "queued", !.age = 0, !.wait = 0, !.fresh = FALSE]
  <1>0. TypeOK /\ NoLostRequest
    BY DEF IInv
  <1>1. \A id \in Ids : r(id) \in Row /\ r(id).status = "queued" /\ r(id).key = rows[id].key
    BY ZenonT(60), <1>0, Ranges DEF Row, TypeOK
  <1>2. rows' = [id \in Ids |-> IF Stale(id) /\ ~ReapConflict THEN r(id) ELSE rows[id]]
    BY DEF Reap
  <1> HIDE DEF r
  <1>3. rows' \in [Ids -> Row]
    BY <1>0, <1>1, <1>2 DEF TypeOK
  <1>4. \A id \in Ids : ~Stale(id) => rows'[id] = rows[id]
    BY <1>2
  <1>5. \A id \in Ids : rows'[id] = rows[id] \/ (rows'[id].status = "queued" /\ rows'[id].key = rows[id].key)
    BY <1>1, <1>2
  <1>6. maint' \in [Procs -> {"drop", "reap"}] /\ UNCHANGED <<slot, proc, faults, asked>>
    BY <1>0 DEF Reap, TypeOK
  <1>7. TypeOK' /\ LaneInv' /\ DistinctInv' /\ SpentInv'
    BY <1>0, <1>3, <1>4, <1>6, BusyNotStale, RowsStep DEF TypeOK
  <1>8. NoLostRequest'
    BY <1>0, <1>5, <1>6 DEF NoLostRequest, Queued, Running
  <1> QED
    BY <1>7, <1>8 DEF IInv

\* The cleanup job deletes failed rows only, which no lane and no request holds.
LEMMA PurgeInv ==
    ASSUME IInv, NEW id \in Ids, Purge(id)
    PROVE  IInv'
  <1>0. TypeOK /\ LaneInv /\ NoLostRequest
    BY DEF IInv
  <1>1. /\ rows' \in [Ids -> Row] /\ rows[id].status = "failed"
        /\ \A j \in Ids \ {id} : rows'[j] = rows[j]
        /\ UNCHANGED <<slot, proc, maint, faults, asked>>
    BY <1>0, Blanks DEF Purge, TypeOK
  <1>2. \A s \in Slots : slot[s].phase \in Busy => slot[s].id # id
    BY <1>0, <1>1 DEF LaneInv, Running
  <1>3. TypeOK' /\ LaneInv' /\ DistinctInv' /\ SpentInv'
    BY <1>0, <1>1, <1>2, RowsStep DEF TypeOK
  <1>4. NoLostRequest'
    BY <1>0, <1>1 DEF NoLostRequest, Queued, Running
  <1> QED
    BY <1>3, <1>4 DEF IInv

\* One tick adds one to the age of a running row and to its lane's clock alike.
LEMMA TickInv ==
    ASSUME IInv, Tick
    PROVE  IInv'
  <1>0. TypeOK /\ LaneInv /\ DistinctInv /\ SpentInv /\ NoLostRequest
    BY DEF IInv
  <1>1. ASSUME NEW id \in Ids
        PROVE  /\ rows'[id] \in Row
               /\ rows'[id].status = rows[id].status /\ rows'[id].key = rows[id].key
               /\ rows'[id].fresh = rows[id].fresh
               /\ Running(id) => rows'[id].age = Smaller(rows[id].age + 1, LockTimeout + 1)
    <2>0. rows[id] \in Row
      BY <1>0, <1>1 DEF TypeOK
    <2>1. rows[id].wait \in Waits => Larger(rows[id].wait - 1, -MaxLate) \in Waits
      BY BoundAssumption DEF Waits, Larger
    <2>2. rows[id].age \in 0..(LockTimeout + 1) =>
              Smaller(rows[id].age + 1, LockTimeout + 1) \in 0..(LockTimeout + 1)
      BY TimeoutAssumption DEF Smaller
    <2>3. CASE Queued(id)
      BY <2>0, <2>1, <2>3, <1>1 DEF Tick, Row, Queued, Running
    <2>4. CASE Running(id)
      BY <2>0, <2>2, <2>4, <1>1 DEF Tick, Row, Queued, Running
    <2>5. CASE ~Queued(id) /\ ~Running(id)
      BY <2>0, <2>5, <1>1 DEF Tick
    <2> QED
      BY <2>3, <2>4, <2>5
  <1>2. ASSUME NEW s \in Slots
        PROVE  /\ slot'[s] \in Lane
               /\ slot'[s].phase = slot[s].phase /\ slot'[s].id = slot[s].id
               /\ slot'[s].result = slot[s].result
               /\ slot[s].phase \in Busy => slot'[s].elapsed = slot[s].elapsed + 1
               /\ slot[s].phase = "run" => slot'[s].elapsed <= JobTimeout
    <2>0. slot[s] \in Lane /\ InTime(s)
      BY <1>0, <1>2 DEF TypeOK, Tick
    <2>1. CASE slot[s].phase \in Busy
      <3>1. /\ slot[s].elapsed + 1 \in 0..(JobTimeout + ReportTimeout)
            /\ slot[s].phase = "run" => slot[s].elapsed + 1 <= JobTimeout
        BY <2>0, <2>1, TimeoutAssumption DEF InTime, Busy, Lane
      <3>2. slot'[s] = [slot[s] EXCEPT !.elapsed = slot[s].elapsed + 1]
        BY <2>1, <1>2 DEF Tick
      <3> QED
        BY <2>0, <2>1, <3>1, <3>2 DEF Lane
    <2>2. CASE slot[s].phase \notin Busy
      BY <2>0, <2>2, <1>2 DEF Tick, Busy
    <2> QED
      BY <2>1, <2>2
  <1>3. TypeOK'
    BY <1>0, <1>1, <1>2 DEF TypeOK, Tick
  <1>4. LaneInv'
    <2> SUFFICES ASSUME NEW s \in Slots
                 PROVE  /\ slot'[s].phase \in Busy =>
                             /\ slot'[s].id \in Ids
                             /\ rows'[slot'[s].id].status = "running"
                             /\ rows'[slot'[s].id].age = slot'[s].elapsed
                        /\ slot'[s].phase = "run" => slot'[s].elapsed <= JobTimeout
                        /\ slot'[s].phase \notin Busy => slot'[s].id = NoId
      BY DEF LaneInv, Running
    <2>1. CASE slot[s].phase \in Busy
      <3>1. /\ slot[s].id \in Ids /\ Running(slot[s].id)
            /\ rows[slot[s].id].age = slot[s].elapsed
            /\ rows'[slot[s].id].age = Smaller(rows[slot[s].id].age + 1, LockTimeout + 1)
        BY <2>1, <1>0, <1>1 DEF LaneInv
      <3>2. slot'[s].elapsed = slot[s].elapsed + 1 /\ slot[s].elapsed \in Nat
            /\ slot[s].elapsed + 1 <= LockTimeout
        BY <2>1, <1>0, <1>2, TimeoutAssumption DEF Lane, TypeOK
      <3>3. rows'[slot[s].id].age = slot'[s].elapsed
        BY <3>1, <3>2, TimeoutAssumption DEF Smaller
      <3> QED
        BY <2>1, <3>1, <3>3, <1>1, <1>2 DEF Running
    <2>2. CASE slot[s].phase \notin Busy
      BY <2>2, <1>0, <1>2 DEF LaneInv, Busy
    <2> QED
      BY <2>1, <2>2
  <1>5. DistinctInv'
    BY <1>0, <1>2 DEF DistinctInv
  <1>6. SpentInv'
    BY <1>0, <1>1, <1>2 DEF SpentInv, LaneInv, Busy
  <1>7. NoLostRequest'
    BY <1>0, <1>1 DEF NoLostRequest, Queued, Running, Tick
  <1> QED
    BY <1>3, <1>4, <1>5, <1>6, <1>7 DEF IInv

\* The steps that only move lanes and processes.
LEMMA LifeCycleInv ==
    /\ \A s \in Slots : IInv /\ (ClaimNone(s) \/ Wake(s) \/ ReportLost(s)) => IInv'
    /\ \A p \in Procs : IInv /\ (Drain(p) \/ Exit(p) \/ Crash(p) \/ Start(p)) => IInv'
  <1>1. ASSUME NEW s \in Slots, IInv, ClaimNone(s) \/ Wake(s) \/ ReportLost(s)
        PROVE  IInv'
    <2>1. slot' \in [Slots -> Lane] /\ \A t \in Slots \ {s} : slot'[t] = slot[t]
      BY <1>1, Blanks, LoopHeadIdle DEF ClaimNone, Wake, ReportLost, IInv, TypeOK
    <2>2. slot'[s].phase \notin Busy /\ slot'[s].id = NoId
      BY <1>1, Blanks, LoopHeadIdle DEF ClaimNone, Wake, ReportLost, IInv, TypeOK, Busy
    <2>3. /\ UNCHANGED <<rows, asked>> /\ faults' \in 0..MaxFaults
          /\ proc' \in [Procs -> {"up", "draining", "down"}]
          /\ maint' \in [Procs -> {"drop", "reap"}]
      BY <1>1, BoundAssumption DEF ClaimNone, Wake, ReportLost, Fault, IInv, TypeOK
    <2> QED
      BY <1>1, <2>1, <2>2, <2>3, IdleStep
  <1>2. ASSUME NEW p \in Procs, IInv, Drain(p) \/ Exit(p) \/ Crash(p) \/ Start(p)
        PROVE  IInv'
    <2>1. /\ slot' \in [Slots -> Lane]
          /\ \A s \in Slots : slot'[s] = slot[s] \/ slot'[s] \in {Idle("stopped"), Idle("claim")}
      BY <1>2, Blanks DEF Drain, Exit, Crash, Start, IInv, TypeOK
    <2>2. \A s \in Slots : slot'[s] = slot[s] \/ (slot'[s].phase \notin Busy /\ slot'[s].id = NoId)
      BY <2>1, Blanks DEF Busy
    <2>3. /\ UNCHANGED <<rows, asked>> /\ faults' \in 0..MaxFaults
          /\ proc' \in [Procs -> {"up", "draining", "down"}]
          /\ maint' \in [Procs -> {"drop", "reap"}]
      BY <1>2, BoundAssumption DEF Drain, Exit, Crash, Start, Fault, IInv, TypeOK
    <2> QED
      BY <1>2, <2>1, <2>2, <2>3, IdleStep
  <1> QED
    BY <1>1, <1>2

-----------------------------------------------------------------------------
\* Every step keeps the inductive invariant.
LEMMA StepInv == IInv /\ [Next]_vars => IInv'
  <1> SUFFICES ASSUME IInv, [Next]_vars PROVE IInv'
    OBVIOUS
  <1>1. ASSUME NEW k \in Keys, NEW d \in 0..MaxDelay, Enqueue(k, d) PROVE IInv'
    BY <1>1, EnqueueInv
  <1>2. ASSUME NEW p \in Procs, NEW k \in Keys, Schedule(p, k) PROVE IInv'
    BY <1>2, EnqueueInv, BoundAssumption DEF Schedule
  <1>3. ASSUME NEW s \in Slots, NEW id \in Ids, Claim(s, id) \/ ClaimLost(s, id) PROVE IInv'
    BY <1>3, ClaimInv, ClaimLostInv
  <1>4. ASSUME NEW s \in Slots, LaneStep(s) \/ ReportLost(s) PROVE IInv'
    BY <1>4, LifeCycleInv, CompleteInv, FailFinalInv, FailRetryInv, FailSupersededInv,
       DropOwnInv, HandlerReturnInv DEF LaneStep
  <1>5. ASSUME NEW p \in Procs, ProcStep(p) \/ Drain(p) \/ Crash(p) PROVE IInv'
    BY <1>5, LifeCycleInv, DropStaleInv, ReapInv DEF ProcStep
  <1>6. ASSUME NEW id \in Ids, Purge(id) PROVE IInv'
    BY <1>6, PurgeInv
  <1>7. CASE Tick
    BY <1>7, TickInv
  <1>8. CASE UNCHANGED vars
    BY <1>8 DEF vars, IInv, TypeOK, LaneInv, DistinctInv, SpentInv, NoLostRequest, Queued, Running
  <1> QED
    BY <1>1, <1>2, <1>3, <1>4, <1>5, <1>6, <1>7, <1>8 DEF Next

\* The inductive invariant implies that a busy lane owns its row.
LEMMA OwnedInv == IInv => ExclusiveRun
  <1> SUFFICES ASSUME IInv PROVE ExclusiveRun
    OBVIOUS
  <1>1. ASSUME NEW s \in Slots, slot[s].phase \in Busy PROVE Owned(s)
    BY <1>1, BusyFacts, BusyNotStale DEF Owned, IInv, LaneInv
  <1> QED
    BY <1>1 DEF ExclusiveRun, IInv, DistinctInv

\* The inductive invariant holds in every reachable state.
THEOREM Invariance == Spec => []IInv
  BY InitInv, StepInv, PTL DEF Spec

\* Every field of the queue keeps its range, whatever the interleaving of
\* worker.go's statements, crashes and lost replies.
THEOREM TypeCorrect == Spec => []TypeOK
  <1>1. IInv => TypeOK
    BY DEF IInv
  <1> QED
    BY <1>1, Invariance, PTL

\* complete and fail, which address a row by id alone, only ever touch the
\* lane's own claim: no two lanes run one row, and the reaper takes no row from
\* a lane that still works on it.
THEOREM RunsAreExclusive == Spec => []ExclusiveRun
  BY OwnedInv, Invariance, PTL

\* No accepted request is lost by DO NOTHING, by fail's delete on conflict, by
\* dropStaleSQL, or by a crash.
THEOREM RequestsSurvive == Spec => []NoLostRequest
  <1>1. IInv => NoLostRequest
    BY DEF IInv
  <1> QED
    BY <1>1, Invariance, PTL
=============================================================================
