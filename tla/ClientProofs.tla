---------------------------- MODULE ClientProofs ----------------------------
(***************************************************************************)
(* What clients are told, for every value of the constants: whoever polls  *)
(* the change log or keeps a page open misses no change, whoever saves     *)
(* settings saw what is replaced, and the picture of a shared link shows   *)
(* what the link shows.                                                    *)
(***************************************************************************)
EXTENDS MCAccess, Sequences, FiniteSetTheorems, WellFoundedInduction, TLAPS

\* Of some numbers one is the least.
LEMMA Least ==
    ASSUME NEW T \in SUBSET Nat, T # {}
    PROVE  \E x \in T : \A y \in T : x <= y
  <1>1. \E x \in T : \A y \in T : <<y, x>> \notin OpToRel(<, Nat)
    BY NatLessThanWellFounded, WFMin
  <1>2. ASSUME NEW x \in Nat, NEW y \in Nat, <<y, x>> \notin OpToRel(<, Nat) PROVE x <= y
    BY <1>2 DEF OpToRel
  <1> QED BY <1>1, <1>2

\* And of some numbers up to n one is the greatest.
LEMMA Greatest ==
    ASSUME NEW R \in SUBSET Nat, R # {}, NEW n \in Nat, \A r \in R : r <= n
    PROVE  \E x \in R : \A y \in R : y <= x
  <1> DEFINE T == {n - r : r \in R}
  <1>1. T \in SUBSET Nat /\ T # {}
    <2>1. \A r \in R : n - r \in Nat
      OBVIOUS
    <2> QED BY <2>1
  <1>2. PICK x \in T : \A y \in T : x <= y
    BY <1>1, Least
  <1>3. PICK r \in R : x = n - r
    OBVIOUS
  <1>4. \A y \in R : n - r <= n - y
    BY <1>2, <1>3
  <1> QED BY <1>4

-----------------------------------------------------------------------------
(* The change log.  v1 is log, v2 client, v3 reply.                        *)

LogStates == {"open", "done", "undone", "purged"}
Poller == [granted : Grants, st : {"idle", "rows"}, since : 0..MaxSeq,
           rows : SUBSET (1..MaxSeq), seen : SUBSET (1..MaxSeq)]
PollReply == [kind : Changes!Replies, tools : SUBSET {t.name : t \in Changes!Tools}]

LEMMA ChangesTyped ==
    Changes!ChangesTypeOK <=> v1 \in Seq(LogStates) /\ Len(v1) <= MaxSeq /\ v2 \in Poller /\ v3 \in PollReply
  BY DEF Changes!ChangesTypeOK, LogStates, Poller, PollReply

\* The rows of a table.
LEMMA StoredIn ==
    ASSUME v1 \in Seq(LogStates), Len(v1) <= MaxSeq, Changes!ChangesAssumption
    PROVE  /\ Changes!Stored \subseteq 1..Len(v1) /\ 1..Len(v1) \subseteq 1..MaxSeq
           /\ IsFiniteSet(Changes!Stored)
  <1>1. Changes!Stored \subseteq 1..Len(v1) /\ 1..Len(v1) \subseteq 1..MaxSeq
    BY DEF Changes!Stored, Changes!ChangesAssumption
  <1>2. IsFiniteSet(1..Len(v1))
    BY FS_Interval
  <1>3. Changes!Stored \in SUBSET (1..Len(v1))
    BY <1>1
  <1>4. IsFiniteSet(Changes!Stored)
    BY <1>2, <1>3, FS_Subset
  <1> QED BY <1>1, <1>4

\* Answers are of their type.
LEMMA SaidTyped ==
    ASSUME NEW k \in Changes!Replies
    PROVE  Changes!Said(k) \in PollReply
  BY DEF Changes!Said, PollReply

\* A step that only answers.
LEMMA AnswerKeeps ==
    ASSUME Changes!PollInv, v1' = v1, v2' = v2, v3' \in PollReply
    PROVE  Changes!PollInv'
  <1>1. Changes!ChangesTypeOK'
    BY ChangesTyped DEF Changes!PollInv, Changes!ChangesTypeOK, PollReply
  <1> QED BY <1>1 DEF Changes!PollInv, Changes!OpenInv, Changes!ReachInv, Changes!RowsInv, Changes!PollSkipsNothing, Changes!Stored

\* A row gets the next number.
LEMMA RecordStays ==
    ASSUME Changes!ChangesAssumption, Changes!PollInv, NEW st \in {"open", "done"}, Changes!Record(st), v2' = v2, v3' \in PollReply
    PROVE  Changes!PollInv'
  <1>0. v1 \in Seq(LogStates) /\ Len(v1) \in Nat /\ v2 \in Poller
    BY ChangesTyped DEF Changes!PollInv
  <1>1. /\ v1' \in Seq(LogStates) /\ Len(v1') = Len(v1) + 1 /\ Len(v1') <= MaxSeq
        /\ \A i \in DOMAIN v1 : v1'[i] = v1[i]
        /\ v1'[Len(v1) + 1] = st /\ DOMAIN v1' = 1..Len(v1) + 1 /\ DOMAIN v1 = 1..Len(v1)
        /\ \A i \in DOMAIN v1 : v1[i] # "open"
    BY <1>0 DEF Changes!Record, LogStates, Changes!ChangesAssumption
  <1>2. \A i \in Changes!Stored' : i \in Changes!Stored \/ i = Len(v1) + 1
    BY <1>0, <1>1 DEF Changes!Stored
  <1>3. v2.since \in Nat /\ v2.rows \in SUBSET Nat /\ v2.since <= Len(v1) /\ \A r \in v2.rows : r <= Len(v1)
    BY <1>0 DEF Poller, Changes!PollInv, Changes!ReachInv
  <1>4. Changes!ChangesTypeOK'
    <2>1. v1' \in Seq(LogStates) /\ Len(v1') <= MaxSeq /\ v2' \in Poller /\ v3' \in PollReply
      BY <1>0, <1>1
    <2> QED BY <2>1 DEF Changes!ChangesTypeOK, LogStates, Poller, PollReply
  <1>5. Changes!OpenInv'
    BY <1>0, <1>1, <1>3 DEF Changes!OpenInv
  <1>6. Changes!ReachInv'
    BY <1>0, <1>1, <1>3 DEF Changes!ReachInv
  <1>7. Changes!RowsInv'
    <2>1. Changes!RowsInv
      BY DEF Changes!PollInv
    <2> SUFFICES ASSUME NEW r \in v2.rows, NEW i \in Changes!Stored', v2.since < i, i <= r PROVE i \in v2.rows
      BY DEF Changes!RowsInv
    <2>2. i # Len(v1) + 1
      BY <1>0, <1>3
    <2> QED BY <1>2, <2>1, <2>2 DEF Changes!RowsInv
  <1>8. Changes!PollSkipsNothing'
    <2>1. Changes!PollSkipsNothing
      BY DEF Changes!PollInv
    <2> SUFFICES ASSUME NEW i \in Changes!Stored', i <= v2.since PROVE i \in v2.seen
      BY DEF Changes!PollSkipsNothing
    <2>2. i # Len(v1) + 1
      BY <1>0, <1>3
    <2> QED BY <1>2, <2>1, <2>2 DEF Changes!PollSkipsNothing
  <1> QED BY <1>4, <1>5, <1>6, <1>7, <1>8 DEF Changes!PollInv

\* A row that is there gets another state: of the open one, by its end; of an old one, by the purge.
LEMMA RowMoves ==
    ASSUME Changes!ChangesAssumption, Changes!PollInv, NEW i \in DOMAIN v1, NEW st \in LogStates \ {"open"},
           v1[i] = "open" \/ st = "purged", v1' = [v1 EXCEPT ![i] = st], v2' = v2, v3' = v3
    PROVE  Changes!PollInv'
  <1>0. v1 \in Seq(LogStates) /\ Len(v1) \in Nat /\ Len(v1) <= MaxSeq /\ v2 \in Poller /\ v3 \in PollReply
    BY ChangesTyped DEF Changes!PollInv
  <1>1. /\ v1' \in Seq(LogStates) /\ Len(v1') = Len(v1) /\ DOMAIN v1' = DOMAIN v1
        /\ v1'[i] = st /\ \A j \in DOMAIN v1 \ {i} : v1'[j] = v1[j]
    BY <1>0
  <1>2. v2.since \in Nat /\ v2.rows \in SUBSET Nat
    BY <1>0 DEF Poller
  <1>3. \A j \in Changes!Stored' : j \in Changes!Stored \/ (j = i /\ v1[i] = "open")
    BY <1>1 DEF Changes!Stored
  <1>4. v1[i] = "open" => v2.since < i /\ \A r \in v2.rows : r < i
    BY DEF Changes!PollInv, Changes!OpenInv
  <1>5. i \in Nat
    BY <1>0
  <1>6. Changes!ChangesTypeOK'
    <2>1. v1' \in Seq(LogStates) /\ Len(v1') <= MaxSeq /\ v2' \in Poller /\ v3' \in PollReply
      BY <1>0, <1>1
    <2> QED BY <2>1 DEF Changes!ChangesTypeOK, LogStates, Poller, PollReply
  <1>7. Changes!OpenInv' /\ Changes!ReachInv'
    BY <1>1 DEF Changes!PollInv, Changes!OpenInv, Changes!ReachInv
  <1>8. Changes!RowsInv'
    BY <1>2, <1>3, <1>4, <1>5 DEF Changes!PollInv, Changes!RowsInv
  <1>9. Changes!PollSkipsNothing'
    BY <1>2, <1>3, <1>4, <1>5 DEF Changes!PollInv, Changes!PollSkipsNothing
  <1> QED BY <1>6, <1>7, <1>8, <1>9 DEF Changes!PollInv

\* The first rows after a number leave none out.
LEMMA FirstRows ==
    ASSUME Changes!ChangesAssumption, v1 \in Seq(LogStates), Len(v1) <= MaxSeq,
           NEW since \in Nat, NEW limit \in Int, NEW r \in Changes!ChangesSince(since, limit),
           NEW i \in Changes!Stored, since < i, i <= r
    PROVE  i \in Changes!ChangesSince(since, limit)
  <1> DEFINE Before(n) == {j \in Changes!Stored : since < j /\ j < n}
  <1>1. Changes!Stored \subseteq Nat /\ IsFiniteSet(Changes!Stored)
    BY StoredIn
  <1>2. r \in Nat /\ i \in Nat /\ Changes!Cardinality(Before(r)) < limit
    BY <1>1 DEF Changes!ChangesSince
  <1>3. IsFiniteSet(Before(r)) /\ Before(i) \in SUBSET Before(r)
    <2>1. Before(r) \in SUBSET Changes!Stored
      OBVIOUS
    <2>2. IsFiniteSet(Before(r))
      BY <1>1, <2>1, FS_Subset
    <2>3. \A j \in Changes!Stored : j < i => j < r
      BY <1>1, <1>2
    <2> QED BY <2>2, <2>3
  <1>4. Cardinality(Before(i)) <= Cardinality(Before(r)) /\ Cardinality(Before(i)) \in Nat /\ Cardinality(Before(r)) \in Nat
    BY <1>3, FS_Subset, FS_CardinalityType
  <1>5. \A S : Changes!Cardinality(S) = Cardinality(S)
    BY DEF Changes!Cardinality, Cardinality
  <1>6. Changes!Cardinality(Before(i)) < limit
    BY <1>2, <1>4, <1>5
  <1> QED BY <1>6 DEF Changes!ChangesSince

\* The rows of a poll are read.
LEMMA RowsRead ==
    ASSUME Changes!ChangesAssumption, Changes!PollInv, NEW limit \in Int, Changes!ReadRows(v2.since, limit)
    PROVE  Changes!PollInv'
  <1> DEFINE from == IF v2.since < 0 THEN 0 ELSE v2.since
             rows == Changes!ChangesSince(from, Changes!Clamp(limit))
  <1>0. v1 \in Seq(LogStates) /\ Len(v1) \in Nat /\ Len(v1) <= MaxSeq /\ v2 \in Poller /\ v3 \in PollReply
    BY ChangesTyped DEF Changes!PollInv
  <1>1. v2.since \in Nat /\ v2.since <= Len(v1) /\ Changes!Clamp(limit) \in Int
    BY <1>0 DEF Poller, Changes!PollInv, Changes!ReachInv, Changes!Clamp, Changes!ChangesAssumption
  <1>2. rows \subseteq Changes!Stored /\ Changes!Stored \subseteq 1..Len(v1) /\ rows \subseteq 1..MaxSeq
    BY <1>0, StoredIn DEF Changes!ChangesSince
  <1>3. v1' = v1 /\ v3' = v3 /\ v2' = [v2 EXCEPT !.st = "rows", !.rows = rows]
    BY DEF Changes!ReadRows
  <1>4. from = v2.since
    BY <1>1
  <1> HIDE DEF from
  <1>5. \A r \in rows, i \in Changes!Stored : v2.since < i /\ i <= r => i \in rows
    BY <1>0, <1>1, <1>4, FirstRows
  <1> HIDE DEF rows
  <1>6. v2' \in Poller /\ v2'.since = v2.since /\ v2'.rows = rows /\ v2'.seen = v2.seen
    BY <1>0, <1>2, <1>3 DEF Poller
  <1>7. Changes!ChangesTypeOK'
    BY <1>0, <1>3, <1>6 DEF Changes!ChangesTypeOK, LogStates, Poller, PollReply
  <1>8. \A i \in DOMAIN v1 : v1[i] = "open" => \A r \in rows : r < i
    <2> SUFFICES ASSUME NEW i \in DOMAIN v1, v1[i] = "open", NEW r \in rows PROVE r < i
      OBVIOUS
    <2>1. i = Len(v1) /\ r \in 1..Len(v1) /\ v1[r] = "done"
      BY <1>2 DEF Changes!PollInv, Changes!OpenInv, Changes!Stored
    <2> QED BY <1>0, <2>1
  <1>9. Changes!OpenInv'
    BY <1>3, <1>6, <1>8 DEF Changes!PollInv, Changes!OpenInv
  <1>10. Changes!ReachInv' /\ Changes!RowsInv' /\ Changes!PollSkipsNothing'
    BY <1>0, <1>1, <1>2, <1>5, <1>3, <1>6
    DEF Changes!PollInv, Changes!ReachInv, Changes!RowsInv, Changes!PollSkipsNothing, Changes!Stored
  <1> QED BY <1>7, <1>9, <1>10 DEF Changes!PollInv

\* The answer arrives: the client asks next from the last row it was given.
LEMMA ReplyStays ==
    ASSUME Changes!ChangesAssumption, Changes!PollInv, Changes!Reply
    PROVE  Changes!PollInv'
  <1> DEFINE next == IF v2.rows = {} THEN v2.since ELSE Changes!LastOf(v2.rows)
             seen == v2.seen \cup v2.rows
  <1>0. v1 \in Seq(LogStates) /\ Len(v1) \in Nat /\ Len(v1) <= MaxSeq /\ v2 \in Poller /\ MaxSeq \in Nat
    BY ChangesTyped DEF Changes!PollInv, Changes!ChangesAssumption
  <1>1. /\ v2.since \in 0..MaxSeq /\ v2.since <= Len(v1) /\ v2.rows \in SUBSET Nat /\ v2.rows \in SUBSET (1..MaxSeq)
        /\ \A r \in v2.rows : r <= Len(v1)
    BY <1>0 DEF Poller, Changes!PollInv, Changes!ReachInv
  <1>2. ASSUME v2.rows # {} PROVE next \in v2.rows /\ \A r \in v2.rows : r <= next
    BY <1>0, <1>1, <1>2, Greatest DEF Changes!LastOf
  <1>3. v1' = v1 /\ v3' = Changes!Said("result")
        /\ v2' = [v2 EXCEPT !.st = "idle", !.rows = {}, !.seen = seen, !.since = next]
    BY DEF Changes!Reply
  <1>4. next \in 0..MaxSeq /\ next <= Len(v1) /\ seen \in SUBSET (1..MaxSeq)
    BY <1>0, <1>1, <1>2 DEF Poller
  <1>5. next <= v2.since \/ next \in v2.rows
    BY <1>1, <1>2
  <1>6. \A i \in Changes!Stored : i <= next => i <= v2.since \/ \E r \in v2.rows : v2.since < i /\ i <= r
    <2>1. \A i \in Changes!Stored : i \in Nat
      BY <1>0, StoredIn
    <2> QED BY <1>1, <1>2, <1>4, <2>1
  <1>7. seen = v2.seen \cup v2.rows
    OBVIOUS
  <1> HIDE DEF next, seen
  <1>8. v2' \in Poller /\ v2'.since = next /\ v2'.rows = {} /\ v2'.seen = seen
    BY <1>0, <1>3, <1>4 DEF Poller
  <1>9. v3' \in PollReply
    BY <1>3, SaidTyped DEF Changes!Replies
  <1>10. Changes!ChangesTypeOK'
    BY <1>0, <1>3, <1>8, <1>9 DEF Changes!ChangesTypeOK, LogStates, Poller, PollReply
  <1>11. Changes!OpenInv'
    BY <1>0, <1>1, <1>3, <1>4, <1>5, <1>8 DEF Changes!PollInv, Changes!OpenInv
  <1>12. Changes!ReachInv' /\ Changes!RowsInv'
    BY <1>3, <1>4, <1>8 DEF Changes!ReachInv, Changes!RowsInv
  <1>13. Changes!PollSkipsNothing'
    <2>1. \A i \in Changes!Stored : i <= next => i \in seen
      BY <1>6, <1>7 DEF Changes!PollInv, Changes!PollSkipsNothing, Changes!RowsInv
    <2> QED BY <1>3, <1>8, <2>1 DEF Changes!PollSkipsNothing, Changes!Stored
  <1> QED BY <1>10, <1>11, <1>12, <1>13 DEF Changes!PollInv

\* The answer is lost: the client asks again.
LEMMA LostStays ==
    ASSUME Changes!PollInv, Changes!Lost
    PROVE  Changes!PollInv'
  <1>0. v2 \in Poller
    BY ChangesTyped DEF Changes!PollInv
  <1>1. v1' = v1 /\ v3' = v3 /\ v2' = [v2 EXCEPT !.st = "idle", !.rows = {}]
    BY DEF Changes!Lost
  <1>2. v2' \in Poller /\ v2'.since = v2.since /\ v2'.rows = {} /\ v2'.seen = v2.seen
    BY <1>0, <1>1 DEF Poller
  <1>3. Changes!ChangesTypeOK'
    BY <1>1, <1>2 DEF Changes!PollInv, Changes!ChangesTypeOK, Poller
  <1> QED BY <1>1, <1>2, <1>3 DEF Changes!PollInv, Changes!OpenInv, Changes!ReachInv, Changes!RowsInv, Changes!PollSkipsNothing, Changes!Stored

\* A step that only says something.
LEMMA AnswersStay ==
    ASSUME Changes!PollInv, NEW k \in Changes!Replies, Changes!Answer(k)
    PROVE  Changes!PollInv'
  <1>1. v1' = v1 /\ v2' = v2 /\ v3' = Changes!Said(k)
    BY DEF Changes!Answer
  <1>2. v3' \in PollReply
    BY <1>1, SaidTyped
  <1> QED BY <1>1, <1>2, AnswerKeeps

LEMMA ChangesKeep ==
    ASSUME Changes!ChangesAssumption, Changes!PollInv, Changes!ChangesNext
    PROVE  Changes!PollInv'
  <1>0. v1 \in Seq(LogStates) /\ v3 \in PollReply
    BY ChangesTyped DEF Changes!PollInv
  <1>1. CASE Changes!Write
    BY <1>0, <1>1, RecordStays DEF Changes!Write
  <1>2. CASE Changes!EndTransaction
    <2>1. PICK i \in DOMAIN v1, st \in {"done", "undone"} :
              v1[i] = "open" /\ v1' = [v1 EXCEPT ![i] = st] /\ v2' = v2 /\ v3' = v3
      BY <1>2 DEF Changes!EndTransaction
    <2>2. st \in LogStates \ {"open"}
      BY DEF LogStates
    <2> QED BY <2>1, <2>2, RowMoves
  <1>3. CASE Changes!PurgeChanges
    <2>1. PICK i : i = CHOOSE k \in Changes!Stored : \A j \in Changes!Stored : k <= j
      OBVIOUS
    <2>2. Changes!Stored \in SUBSET Nat /\ Changes!Stored # {} /\ Changes!Stored \subseteq DOMAIN v1
      BY <1>0, <1>3 DEF Changes!PurgeChanges, Changes!Stored
    <2>3. i \in DOMAIN v1
      BY <2>1, <2>2, Least
    <2>4. v1' = [v1 EXCEPT ![i] = "purged"] /\ v2' = v2 /\ v3' = v3
      BY <1>3, <2>1 DEF Changes!PurgeChanges
    <2>5. "purged" \in LogStates \ {"open"}
      BY DEF LogStates
    <2> QED BY <2>3, <2>4, <2>5, RowMoves
  <1>4. CASE Changes!GetChanges
    <2>1. PICK limit \in AskedLimits : Changes!ReadRows(v2.since, limit) \/ Changes!Answer("forbidden")
      BY <1>4 DEF Changes!GetChanges
    <2>2. limit \in Int /\ "forbidden" \in Changes!Replies
      BY DEF Changes!ChangesAssumption, Changes!Replies
    <2> QED BY <2>1, <2>2, RowsRead, AnswersStay
  <1>5. CASE Changes!Reply
    BY <1>5, ReplyStays
  <1>6. CASE Changes!Lost
    BY <1>6, LostStays
  <1>7. CASE Changes!McpInvalid \/ Changes!McpNotification \/ Changes!McpUnknownMethod \/ Changes!McpHello
    <2>1. \E k \in Changes!Replies : Changes!Answer(k)
      BY <1>7 DEF Changes!McpInvalid, Changes!McpNotification, Changes!McpUnknownMethod, Changes!McpHello, Changes!Replies
    <2> QED BY <2>1, AnswersStay
  <1>8. CASE Changes!McpList
    <2>1. v1' = v1 /\ v2' = v2 /\ v3' = [kind |-> "tools", tools |-> Changes!visible]
      BY <1>8 DEF Changes!McpList
    <2>2. Changes!visible \subseteq {t.name : t \in Changes!Tools} /\ "tools" \in Changes!Replies
      BY DEF Changes!visible, Changes!Replies
    <2>3. v3' \in PollReply
      BY <2>1, <2>2 DEF PollReply
    <2> QED BY <2>1, <2>3, AnswerKeeps
  <1>9. CASE Changes!McpCall
    <2>1. {"unknown tool", "lacks scope", "failed", "result"} \subseteq Changes!Replies
      BY DEF Changes!Replies
    <2>2. \/ \E k \in Changes!Replies : Changes!Answer(k)
          \/ \E limit \in AskedLimits : Changes!ReadRows(v2.since, limit)
          \/ Changes!Record("done") /\ v3' = Changes!Said("result") /\ v2' = v2
      BY <1>9, <2>1 DEF Changes!McpCall
    <2>3. Changes!Said("result") \in PollReply
      BY <2>1, SaidTyped
    <2> QED BY <2>2, <2>3, AnswersStay, RowsRead, RecordStays DEF Changes!ChangesAssumption
  <1> QED BY <1>1, <1>2, <1>3, <1>4, <1>5, <1>6, <1>7, <1>8, <1>9 DEF Changes!ChangesNext

LEMMA ChangesStart ==
    ASSUME Changes!ChangesAssumption, Changes!ChangesInit
    PROVE  Changes!PollInv
  <1>1. v1 = <<>> /\ v3 = Changes!Said("none") /\ v2.since = 0 /\ v2.rows = {} /\ v2.seen = {} /\ v2 \in Poller
    BY DEF Changes!ChangesInit, Poller, Changes!ChangesAssumption
  <1>2. v3 \in PollReply
    BY <1>1, SaidTyped DEF Changes!Replies
  <1>3. v1 \in Seq(LogStates) /\ Len(v1) = 0 /\ Len(v1) <= MaxSeq /\ DOMAIN v1 = {}
    BY <1>1 DEF Changes!ChangesAssumption
  <1>4. Changes!ChangesTypeOK
    BY <1>1, <1>2, <1>3, ChangesTyped
  <1> QED BY <1>1, <1>3, <1>4 DEF Changes!PollInv, Changes!OpenInv, Changes!ReachInv, Changes!RowsInv, Changes!PollSkipsNothing, Changes!Stored

-----------------------------------------------------------------------------
(* Live pages.  v1 is changes, v2 wire, v3 listener, v4 hub, v5 spill,     *)
(* v6 streams, v7 drops.                                                   *)

Rows == Seq([c : Kinds, st : {"open", "done", "undone"}])

LEMMA RealtimeTyped ==
    Realtime!RealtimeTypeOK <=>
        /\ v1 \in Rows /\ v2 \in Seq(DOMAIN v1)
        /\ v3 \in {"new", "up", "down"} /\ v4 \in {"open", "closed"}
        /\ v5 \subseteq Streams /\ v7 \in 0..MaxDrops /\ v6 \in [Streams -> Realtime!Stream]
        /\ \A s \in Streams : v6[s].has \subseteq DOMAIN v1 /\ Len(v6[s].buf) <= SubBuffer
        /\ Realtime!Cardinality(Realtime!Subscribed) <= MaxSubsPerOwner
  BY DEF Realtime!RealtimeTypeOK, Rows, Realtime!Subscribed

LEMMA RealtimeCounts ==
    ASSUME NEW S PROVE (Realtime!IsFiniteSet(S) <=> IsFiniteSet(S)) /\ Realtime!Cardinality(S) = Cardinality(S)
  BY DEF Realtime!IsFiniteSet, IsFiniteSet, Realtime!Cardinality, Cardinality

LEMMA ItemOf ==
    ASSUME NEW S, NEW q \in Seq(S), NEW i \in DOMAIN q PROVE q[i] \in S
  <1>1. i \in 1..Len(q)
    OBVIOUS
  <1> QED BY <1>1

LEMMA TailOf ==
    ASSUME NEW S, NEW q \in Seq(S), q # <<>>
    PROVE  /\ Tail(q) \in Seq(S) /\ Len(Tail(q)) <= Len(q) /\ Len(Tail(q)) \in Nat /\ Len(q) \in Nat /\ q[1] = Head(q)
           /\ \A j \in DOMAIN q : j # 1 => j - 1 \in DOMAIN Tail(q) /\ Tail(q)[j - 1] = q[j]
  OBVIOUS

\* The changes that are committed are rows of the table.
LEMMA CommittedIn ==
    ASSUME v1 \in Rows
    PROVE  /\ Len(v1) \in Nat /\ DOMAIN v1 = 1..Len(v1)
           /\ Realtime!Committed \subseteq 1..Len(v1) /\ Realtime!Committed \in SUBSET Nat /\ IsFiniteSet(Realtime!Committed)
  <1>1. Len(v1) \in Nat /\ DOMAIN v1 = 1..Len(v1)
    BY DEF Rows
  <1>2. Realtime!Committed \in SUBSET (1..Len(v1))
    BY <1>1 DEF Realtime!Committed
  <1>3. IsFiniteSet(1..Len(v1))
    BY <1>1, FS_Interval
  <1>4. IsFiniteSet(Realtime!Committed)
    BY <1>2, <1>3, FS_Subset
  <1> QED BY <1>1, <1>2, <1>4

\* The newest committed change is older than one that is open.
LEMMA NewestIs ==
    ASSUME v1 \in Rows, Realtime!OpenInv
    PROVE  /\ Realtime!LatestSeq \in Nat /\ Realtime!LatestSeq <= Len(v1)
           /\ \A i \in DOMAIN v1 : v1[i].st = "open" => Realtime!LatestSeq < i
  <1>1. CASE Realtime!Committed = {}
    BY <1>1, CommittedIn DEF Realtime!LatestSeq
  <1>2. CASE Realtime!Committed # {}
    <2>1. Realtime!LatestSeq \in Realtime!Committed
      <3>1. \A i \in Realtime!Committed : i <= Len(v1)
        BY CommittedIn
      <3>2. \E i \in Realtime!Committed : \A j \in Realtime!Committed : j <= i
        BY <1>2, <3>1, CommittedIn, Greatest
      <3> QED BY <1>2, <3>2 DEF Realtime!LatestSeq
    <2>2. Realtime!LatestSeq \in 1..Len(v1) /\ v1[Realtime!LatestSeq].st = "done"
      BY <2>1, CommittedIn DEF Realtime!Committed
    <2>3. \A i \in DOMAIN v1 : v1[i].st = "open" => i = Len(v1)
      BY DEF Realtime!OpenInv
    <2> QED BY <2>2, <2>3, CommittedIn
  <1> QED BY <1>1, <1>2

\* A replay that does not reach its limit has everything after its number.
LEMMA ReplaysAll ==
    ASSUME v1 \in Rows, NEW n \in Nat, ReplayLimit \in Nat, Realtime!Cardinality(Realtime!ChangesSince(n)) < ReplayLimit,
           NEW i \in Realtime!Committed, n < i
    PROVE  i \in Realtime!ChangesSince(n)
  <1> DEFINE Before(m) == {j \in Realtime!Committed : n < j /\ j < m}
             Left == {m \in Realtime!Committed : n < m /\ m \notin Realtime!ChangesSince(n)}
  <1>1. SUFFICES ASSUME Left # {} PROVE FALSE
    OBVIOUS
  <1>2. Realtime!Committed \in SUBSET Nat /\ IsFiniteSet(Realtime!Committed)
    BY CommittedIn
  <1>3. PICK m \in Left : \A y \in Left : m <= y
    BY <1>1, <1>2, Least
  <1>4. m \in Realtime!Committed /\ n < m /\ m \in Nat
    BY <1>2, <1>3
  <1>5. \A j \in Before(m) : j \in Realtime!ChangesSince(n)
    BY <1>2, <1>3, <1>4
  <1>6. Realtime!ChangesSince(n) \in SUBSET Realtime!Committed
    BY DEF Realtime!ChangesSince
  <1>7. IsFiniteSet(Realtime!ChangesSince(n)) /\ Cardinality(Realtime!ChangesSince(n)) \in Nat
    BY <1>2, <1>6, FS_Subset, FS_CardinalityType
  <1>8. Before(m) \in SUBSET Realtime!ChangesSince(n)
    BY <1>5
  <1>9. Cardinality(Before(m)) <= Cardinality(Realtime!ChangesSince(n)) /\ Cardinality(Before(m)) \in Nat
    BY <1>7, <1>8, FS_Subset, FS_CardinalityType
  <1>10. Realtime!Cardinality(Before(m)) < ReplayLimit
    BY <1>7, <1>9, RealtimeCounts
  <1>11. m \in Realtime!ChangesSince(n)
    BY <1>4, <1>10 DEF Realtime!ChangesSince
  <1> QED BY <1>3, <1>11

\* What a change means is one of the actions, and all but one of them tell the page.
LEMMA FilterIs ==
    ASSUME NEW s, NEW c PROVE Realtime!Filter(s, c) \in Realtime!Actions
  BY DEF Realtime!Filter, Realtime!RangeFilter, Realtime!ShareFilter, Realtime!Actions

LEMMA Tells ==
    ASSUME NEW s, NEW acts, NEW a \in acts, a \in Realtime!Actions, a # "Skip"
    PROVE  Realtime!Told(s, acts)
  BY DEF Realtime!Told, Realtime!Rank, Realtime!Actions

LEMMA ToldStays ==
    ASSUME NEW s, NEW acts
    PROVE  Realtime!Told(s, acts) \in BOOLEAN /\ (v6[s].told = TRUE => Realtime!Told(s, acts))
  BY DEF Realtime!Told

-----------------------------------------------------------------------------
(* How the streams move. *)

\* Word of change i is still to come to a stream in state r.
ComingTo(s, r, i) ==
    \/ r.st # "live" \/ ~r.heard \/ v3 # "up" \/ r.lost \/ s \in v5
    \/ \E j \in DOMAIN v2 : v2[j] = i
    \/ \E j \in DOMAIN r.buf : r.buf[j] = i

\* MissInv, of a stream in state r.
MissesNone(s, r) ==
    r.page = "shown" =>
        \A i \in Realtime!Committed \ r.has :
            /\ r.since < i
            /\ r.since = 0 \/ r.told \/ Realtime!Filter(s, v1[i].c) = "Skip" \/ ComingTo(s, r, i)

LEMMA MissesNoneIs ==
    Realtime!MissInv <=> \A s \in Streams : MissesNone(s, v6[s])
  BY DEF Realtime!MissInv, MissesNone, ComingTo, Realtime!Coming

\* One stream moves.
LEMMA StreamMoves ==
    ASSUME Realtime!RealtimeAssumption, Realtime!RealtimeInv,
           NEW s \in Streams, NEW r \in Realtime!Stream, v6' = [v6 EXCEPT ![s] = r],
           v1' = v1, v2' = v2, v3' = v3, v4' = v4, v5' = v5, v7' \in 0..MaxDrops,
           r.kind = v6[s].kind, r.has \subseteq DOMAIN v1, Len(r.buf) <= SubBuffer,
           r.since <= Len(v1), \A i \in DOMAIN v1 : v1[i].st = "open" => r.since < i,
           v3 = "new" => ~r.heard,
           r.st = "off" \/ v6[s].st # "off" \/ Realtime!Cardinality(Realtime!Subscribed) < MaxSubsPerOwner,
           MissesNone(s, r)
    PROVE  Realtime!RealtimeInv'
  <1>0. /\ v1 \in Rows /\ v2 \in Seq(DOMAIN v1)
        /\ v3 \in {"new", "up", "down"} /\ v4 \in {"open", "closed"}
        /\ v5 \subseteq Streams /\ v7 \in 0..MaxDrops /\ v6 \in [Streams -> Realtime!Stream]
        /\ \A t \in Streams : v6[t].has \subseteq DOMAIN v1 /\ Len(v6[t].buf) <= SubBuffer
        /\ Realtime!Cardinality(Realtime!Subscribed) <= MaxSubsPerOwner
    BY RealtimeTyped DEF Realtime!RealtimeInv
  <1>1. v6' \in [Streams -> Realtime!Stream] /\ v6'[s] = r /\ \A t \in Streams \ {s} : v6'[t] = v6[t]
    BY <1>0
  <1>2. Realtime!Cardinality(Realtime!Subscribed') <= MaxSubsPerOwner
    <2>1. IsFiniteSet(Streams) /\ MaxSubsPerOwner \in Nat
      BY RealtimeCounts DEF Realtime!RealtimeAssumption
    <2>2. Realtime!Subscribed \in SUBSET Streams /\ Realtime!Subscribed \cup {s} \in SUBSET Streams
      BY DEF Realtime!Subscribed
    <2>3. IsFiniteSet(Realtime!Subscribed) /\ IsFiniteSet(Realtime!Subscribed \cup {s}) /\ Cardinality(Realtime!Subscribed) \in Nat
      BY <2>1, <2>2, FS_Subset, FS_CardinalityType
    <2>4. CASE r.st = "off" \/ v6[s].st # "off"
      <3>1. Realtime!Subscribed' \in SUBSET Realtime!Subscribed
        BY <1>1, <2>4 DEF Realtime!Subscribed
      <3>2. Cardinality(Realtime!Subscribed') <= Cardinality(Realtime!Subscribed) /\ Cardinality(Realtime!Subscribed') \in Nat
        BY <2>3, <3>1, FS_Subset, FS_CardinalityType
      <3> QED BY <1>0, <2>1, <2>3, <3>2, RealtimeCounts
    <2>5. CASE Realtime!Cardinality(Realtime!Subscribed) < MaxSubsPerOwner
      <3>1. Realtime!Subscribed' \in SUBSET (Realtime!Subscribed \cup {s})
        BY <1>1 DEF Realtime!Subscribed
      <3>2. Cardinality(Realtime!Subscribed') <= Cardinality(Realtime!Subscribed \cup {s}) /\ Cardinality(Realtime!Subscribed') \in Nat
        BY <2>3, <3>1, FS_Subset, FS_CardinalityType
      <3>3. Cardinality(Realtime!Subscribed \cup {s}) <= Cardinality(Realtime!Subscribed) + 1
            /\ Cardinality(Realtime!Subscribed \cup {s}) \in Nat
        BY <2>3, FS_AddElement, FS_CardinalityType
      <3> QED BY <2>1, <2>3, <2>5, <3>2, <3>3, RealtimeCounts
    <2> QED BY <2>4, <2>5
  <1>3. Realtime!RealtimeTypeOK'
    BY <1>0, <1>1, <1>2 DEF Realtime!RealtimeTypeOK, Realtime!Subscribed, Rows
  <1>4. Realtime!OpenInv' /\ Realtime!HeardInv'
    BY <1>1 DEF Realtime!RealtimeInv, Realtime!OpenInv, Realtime!HeardInv
  <1>5. Realtime!MissInv'
    <2>1. \A t \in Streams : MissesNone(t, v6'[t])
      BY <1>1, MissesNoneIs DEF Realtime!RealtimeInv
    <2>2. \A t \in Streams : v6'[t].kind = v6[t].kind
      BY <1>1
    <2>3. \A t \in Streams : \A i : Realtime!Filter(t, v1[i].c)' = Realtime!Filter(t, v1[i].c)
      BY <2>2 DEF Realtime!Filter, Realtime!Live
    <2>4. Realtime!Committed' = Realtime!Committed
      BY DEF Realtime!Committed
    <2> QED BY <2>1, <2>3, <2>4 DEF MissesNone, ComingTo, Realtime!MissInv, Realtime!Coming
  <1> QED BY <1>3, <1>4, <1>5 DEF Realtime!RealtimeInv

\* What is on its way moves, and the streams with it: a page keeps what it has and was told.
LEMMA WordMoves ==
    ASSUME Realtime!RealtimeAssumption, Realtime!RealtimeInv,
           v1' = v1, v2' \in Seq(DOMAIN v1), v3' \in {"new", "up", "down"}, v4' \in {"open", "closed"},
           v5' \subseteq Streams, v7' \in 0..MaxDrops, v6' \in [Streams -> Realtime!Stream],
           \A s \in Streams :
              /\ v6'[s].kind = v6[s].kind /\ v6'[s].page = v6[s].page /\ v6'[s].since = v6[s].since
              /\ v6'[s].has = v6[s].has /\ v6'[s].told = v6[s].told
              /\ v6'[s].st = v6[s].st \/ v6'[s].st = "off"
              /\ Len(v6'[s].buf) <= SubBuffer,
           v3' = "new" => \A s \in Streams : ~v6'[s].heard,
           \A s \in Streams, i \in Realtime!Committed : Realtime!Coming(s, i) => Realtime!Coming(s, i)'
    PROVE  Realtime!RealtimeInv'
  <1>0. /\ v1 \in Rows /\ v6 \in [Streams -> Realtime!Stream]
        /\ \A t \in Streams : v6[t].has \subseteq DOMAIN v1
        /\ Realtime!Cardinality(Realtime!Subscribed) <= MaxSubsPerOwner
    BY RealtimeTyped DEF Realtime!RealtimeInv
  <1>1. Realtime!Cardinality(Realtime!Subscribed') <= MaxSubsPerOwner
    <2>1. IsFiniteSet(Streams) /\ MaxSubsPerOwner \in Nat
      BY RealtimeCounts DEF Realtime!RealtimeAssumption
    <2>2. Realtime!Subscribed \in SUBSET Streams /\ Realtime!Subscribed' \in SUBSET Realtime!Subscribed
      BY DEF Realtime!Subscribed
    <2>3. IsFiniteSet(Realtime!Subscribed) /\ Cardinality(Realtime!Subscribed) \in Nat
      BY <2>1, <2>2, FS_Subset, FS_CardinalityType
    <2>4. Cardinality(Realtime!Subscribed') <= Cardinality(Realtime!Subscribed) /\ Cardinality(Realtime!Subscribed') \in Nat
      BY <2>2, <2>3, FS_Subset, FS_CardinalityType
    <2> QED BY <1>0, <2>1, <2>3, <2>4, RealtimeCounts
  <1>2. Realtime!RealtimeTypeOK'
    BY <1>0, <1>1 DEF Realtime!RealtimeTypeOK, Realtime!Subscribed, Rows
  <1>3. Realtime!OpenInv' /\ Realtime!HeardInv'
    BY DEF Realtime!RealtimeInv, Realtime!OpenInv, Realtime!HeardInv
  <1>4. Realtime!MissInv'
    <2>1. \A t \in Streams : \A i : Realtime!Filter(t, v1[i].c)' = Realtime!Filter(t, v1[i].c)
      BY DEF Realtime!Filter, Realtime!Live
    <2>2. Realtime!Committed' = Realtime!Committed
      BY DEF Realtime!Committed
    <2> QED BY <2>1, <2>2 DEF Realtime!RealtimeInv, Realtime!MissInv
  <1> QED BY <1>2, <1>3, <1>4 DEF Realtime!RealtimeInv

-----------------------------------------------------------------------------
(* The actions. *)

RealtimeFacts ==
    /\ v1 \in Rows /\ v2 \in Seq(DOMAIN v1) /\ Len(v1) \in Nat /\ DOMAIN v1 = 1..Len(v1) /\ Len(v2) \in Nat
    /\ v3 \in {"new", "up", "down"} /\ v4 \in {"open", "closed"}
    /\ v5 \subseteq Streams /\ v7 \in 0..MaxDrops /\ v6 \in [Streams -> Realtime!Stream]
    /\ \A s \in Streams : v6[s].has \subseteq DOMAIN v1 /\ Len(v6[s].buf) <= SubBuffer
    /\ \A s \in Streams : v6[s] \in Realtime!Stream /\ MissesNone(s, v6[s]) /\ v6[s].since <= Len(v1)
    /\ \A s \in Streams, i \in DOMAIN v1 : v1[i].st = "open" => v6[s].since < i
    /\ Realtime!OpenInv /\ Realtime!HeardInv
    /\ MaxDrops \in Nat /\ SubBuffer \in Nat \ {0} /\ ReplayLimit \in Nat

LEMMA RealtimeFactsHold ==
    ASSUME Realtime!RealtimeAssumption, Realtime!RealtimeInv
    PROVE  RealtimeFacts
  <1>1. v1 \in Rows => Len(v1) \in Nat /\ DOMAIN v1 = 1..Len(v1)
    BY DEF Rows
  <1>2. v2 \in Seq(DOMAIN v1) => Len(v2) \in Nat
    OBVIOUS
  <1>3. Realtime!MissInv /\ Realtime!OpenInv /\ Realtime!HeardInv
    BY DEF Realtime!RealtimeInv
  <1>4. MaxDrops \in Nat /\ SubBuffer \in Nat \ {0} /\ ReplayLimit \in Nat
    BY DEF Realtime!RealtimeAssumption
  <1>5. /\ v1 \in Rows /\ v2 \in Seq(DOMAIN v1)
        /\ v3 \in {"new", "up", "down"} /\ v4 \in {"open", "closed"}
        /\ v5 \subseteq Streams /\ v7 \in 0..MaxDrops /\ v6 \in [Streams -> Realtime!Stream]
        /\ \A t \in Streams : v6[t].has \subseteq DOMAIN v1 /\ Len(v6[t].buf) <= SubBuffer
    BY RealtimeTyped DEF Realtime!RealtimeInv
  <1> QED BY <1>1, <1>2, <1>3, <1>4, <1>5, MissesNoneIs DEF RealtimeFacts, Realtime!OpenInv

\* The table gets a row.
LEMMA RecordChangeKeeps ==
    ASSUME Realtime!RealtimeAssumption, Realtime!RealtimeInv, NEW c \in Kinds, Realtime!RecordChange(c)
    PROVE  Realtime!RealtimeInv'
  <1> DEFINE n == Len(v1) + 1
             row == [c |-> c, st |-> "open"]
  <1>0. RealtimeFacts
    BY RealtimeFactsHold
  <1>1. v2' = v2 /\ v3' = v3 /\ v4' = v4 /\ v5' = v5 /\ v6' = v6 /\ v7' = v7 /\ v1' = Append(v1, row)
        /\ \A i \in DOMAIN v1 : v1[i].st # "open"
    BY DEF Realtime!RecordChange
  <1>2. row \in [c : Kinds, st : {"open", "done", "undone"}] /\ row.st = "open"
    OBVIOUS
  <1> HIDE DEF row
  <1>3. /\ v1' \in Rows /\ Len(v1') = n /\ DOMAIN v1' = 1..n /\ v1'[n] = row
        /\ \A i \in DOMAIN v1 : v1'[i] = v1[i]
    BY <1>0, <1>1, <1>2 DEF RealtimeFacts, Rows
  <1>4. Realtime!Committed' = Realtime!Committed
    BY <1>0, <1>2, <1>3 DEF RealtimeFacts, Realtime!Committed
  <1>5. DOMAIN v1 \subseteq DOMAIN v1'
    BY <1>0, <1>3 DEF RealtimeFacts
  <1>6. Realtime!RealtimeTypeOK'
    <2>1. v2 \in Seq(DOMAIN v1')
      BY <1>0, <1>5 DEF RealtimeFacts
    <2>2. \A s \in Streams : v6[s].has \subseteq DOMAIN v1'
      BY <1>0, <1>5 DEF RealtimeFacts
    <2>3. Realtime!Cardinality(Realtime!Subscribed) <= MaxSubsPerOwner
      BY RealtimeTyped DEF Realtime!RealtimeInv
    <2> QED BY <1>0, <1>1, <1>3, <2>1, <2>2, <2>3 DEF RealtimeFacts, Realtime!RealtimeTypeOK, Realtime!Subscribed, Rows
  <1>7. Realtime!OpenInv'
    <2>1. \A s \in Streams : v6[s].since \in Nat /\ v6[s].since <= Len(v1)
      BY <1>0 DEF RealtimeFacts, Realtime!Stream
    <2> QED BY <1>0, <1>1, <1>3, <2>1 DEF RealtimeFacts, Realtime!OpenInv
  <1>8. Realtime!HeardInv'
    BY <1>0, <1>1 DEF RealtimeFacts, Realtime!HeardInv
  <1>9. Realtime!MissInv'
    <2>1. \A i \in Realtime!Committed : v1'[i] = v1[i]
      BY <1>3 DEF Realtime!Committed
    <2>2. \A s \in Streams, i \in Realtime!Committed : Realtime!Filter(s, v1[i].c)' = Realtime!Filter(s, v1[i].c)
      BY <1>1, <2>1 DEF Realtime!Filter, Realtime!Live
    <2>3. \A s \in Streams : \A i : Realtime!Coming(s, i) => Realtime!Coming(s, i)'
      BY <1>1 DEF Realtime!Coming
    <2>4. Realtime!MissInv
      BY DEF Realtime!RealtimeInv
    <2> QED BY <1>1, <1>4, <2>2, <2>3, <2>4 DEF Realtime!MissInv
  <1> QED BY <1>6, <1>7, <1>8, <1>9 DEF Realtime!RealtimeInv

\* A transaction ends.
LEMMA EndWriteKeeps ==
    ASSUME Realtime!RealtimeAssumption, Realtime!RealtimeInv, Realtime!EndWrite
    PROVE  Realtime!RealtimeInv'
  <1>0. RealtimeFacts
    BY RealtimeFactsHold
  <1>1. v3' = v3 /\ v4' = v4 /\ v5' = v5 /\ v6' = v6 /\ v7' = v7
    BY DEF Realtime!EndWrite
  <1>2. PICK k \in DOMAIN v1, st \in {"done", "undone"} :
            /\ v1[k].st = "open" /\ v1' = [v1 EXCEPT ![k] = [@ EXCEPT !.st = st]]
            /\ \/ st = "done" /\ v2' = IF v3 = "up" THEN Append(v2, k) ELSE v2
               \/ st = "undone" /\ v2' = v2
    BY DEF Realtime!EndWrite
  <1> DEFINE row == [v1[k] EXCEPT !.st = st]
  <1>3. v1[k] \in [c : Kinds, st : {"open", "done", "undone"}]
    <2>1. v1 \in Rows
      BY <1>0 DEF RealtimeFacts
    <2> QED BY <2>1, ItemOf DEF Rows
  <1>4. row \in [c : Kinds, st : {"open", "done", "undone"}] /\ row.st = st /\ row.c = v1[k].c
    BY <1>3
  <1>5. v1' = [v1 EXCEPT ![k] = row]
    BY <1>2
  <1> HIDE DEF row
  <1>6. /\ v1' \in Rows /\ Len(v1') = Len(v1) /\ DOMAIN v1' = DOMAIN v1 /\ v1'[k] = row
        /\ \A i \in DOMAIN v1 \ {k} : v1'[i] = v1[i]
    BY <1>0, <1>4, <1>5 DEF RealtimeFacts, Rows
  <1>7. \A i \in Realtime!Committed' : i \in Realtime!Committed \/ (i = k /\ st = "done")
    BY <1>4, <1>6 DEF Realtime!Committed
  <1>8. \A i \in DOMAIN v1 : v1'[i].c = v1[i].c
    BY <1>4, <1>6
  <1>9. v2' \in Seq(DOMAIN v1) /\ (\A j \in DOMAIN v2 : j \in DOMAIN v2' /\ v2'[j] = v2[j])
        /\ (st = "done" /\ v3 = "up" => \E j \in DOMAIN v2' : v2'[j] = k)
    <2>1. CASE v2' = v2
      BY <1>0, <1>2, <2>1 DEF RealtimeFacts
    <2>2. CASE v2' = Append(v2, k)
      <3>1. v2' \in Seq(DOMAIN v1) /\ DOMAIN v2 = 1..Len(v2) /\ DOMAIN v2' = 1..Len(v2) + 1
            /\ v2'[Len(v2) + 1] = k /\ \A j \in 1..Len(v2) : v2'[j] = v2[j]
        BY <1>0, <2>2 DEF RealtimeFacts
      <3>2. Len(v2) + 1 \in DOMAIN v2' /\ 1..Len(v2) \subseteq DOMAIN v2'
        BY <1>0, <3>1 DEF RealtimeFacts
      <3> QED BY <3>1, <3>2
    <2> QED BY <1>2, <2>1, <2>2
  <1>10. Realtime!RealtimeTypeOK'
    <2>1. Realtime!Cardinality(Realtime!Subscribed) <= MaxSubsPerOwner
      BY RealtimeTyped DEF Realtime!RealtimeInv
    <2> QED BY <1>0, <1>1, <1>6, <1>9, <2>1 DEF RealtimeFacts, Realtime!RealtimeTypeOK, Realtime!Subscribed, Rows
  <1>11. Realtime!OpenInv' /\ Realtime!HeardInv'
    <2>1. \A i \in DOMAIN v1 : v1'[i].st = "open" => v1[i].st = "open"
      BY <1>2, <1>4, <1>6
    <2> QED BY <1>0, <1>1, <1>6, <2>1 DEF RealtimeFacts, Realtime!OpenInv, Realtime!HeardInv
  <1>12. Realtime!MissInv'
    <2> SUFFICES ASSUME NEW s \in Streams, v6[s].page = "shown", NEW i \in Realtime!Committed' \ v6[s].has
                 PROVE  /\ v6[s].since < i
                        /\ v6[s].since = 0 \/ v6[s].told \/ Realtime!Filter(s, v1[i].c)' = "Skip" \/ Realtime!Coming(s, i)'
      BY <1>1 DEF Realtime!MissInv
    <2>1. Realtime!Filter(s, v1[i].c)' = Realtime!Filter(s, v1[i].c)
      <3>1. i \in DOMAIN v1
        BY <1>6 DEF Realtime!Committed
      <3> QED BY <1>1, <1>8, <3>1 DEF Realtime!Filter, Realtime!Live
    <2>2. ASSUME i \in Realtime!Committed, Realtime!Coming(s, i) PROVE Realtime!Coming(s, i)'
      BY <1>1, <1>9, <2>2 DEF Realtime!Coming
    <2>3. CASE i \in Realtime!Committed
      BY <2>1, <2>2, <2>3 DEF Realtime!RealtimeInv, Realtime!MissInv
    <2>4. CASE i = k /\ st = "done"
      <3>1. v6[s].since < i
        BY <1>0, <1>2, <2>4 DEF RealtimeFacts
      <3>2. Realtime!Coming(s, i)'
        BY <1>1, <1>9, <2>4 DEF Realtime!Coming
      <3> QED BY <3>1, <3>2
    <2> QED BY <1>7, <2>3, <2>4
  <1> QED BY <1>10, <1>11, <1>12 DEF Realtime!RealtimeInv

\* A stream whose buffer changes keeps the rest.
LEMMA Buffers ==
    ASSUME NEW r \in Realtime!Stream, NEW b \in Seq(Nat)
    PROVE  LET q == [r EXCEPT !.buf = b]
           IN  /\ q \in Realtime!Stream /\ q.buf = b
               /\ q.kind = r.kind /\ q.st = r.st /\ q.page = r.page /\ q.since = r.since /\ q.has = r.has
               /\ q.notes = r.notes /\ q.lost = r.lost /\ q.told = r.told /\ q.heard = r.heard
  BY DEF Realtime!Stream

\* The next notification reaches every stream: its buffer holds the change, or it is to be marked.
LEMMA PublishKeeps ==
    ASSUME Realtime!RealtimeAssumption, Realtime!RealtimeInv, Realtime!Publish
    PROVE  Realtime!RealtimeInv'
  <1> DEFINE x == Head(v2)
             Full(s) == Len(v6[s].buf) = SubBuffer
  <1>0. RealtimeFacts
    BY RealtimeFactsHold
  <1>1. /\ v1' = v1 /\ v3' = v3 /\ v4' = v4 /\ v7' = v7 /\ v2' = Tail(v2) /\ v2 # <<>>
        /\ v5 = {} /\ v5' = {s \in Realtime!Subscribed : Full(s)}
        /\ v6' = [s \in Streams |-> IF s \notin Realtime!Subscribed \/ Full(s) THEN v6[s]
                                    ELSE [v6[s] EXCEPT !.buf = Append(@, x)]]
    BY DEF Realtime!Publish, Realtime!Deliver
  <1>2. /\ v2' \in Seq(DOMAIN v1) /\ x \in DOMAIN v1 /\ x \in Nat /\ v2[1] = x
        /\ \A j \in DOMAIN v2 : j # 1 => j - 1 \in DOMAIN v2' /\ v2'[j - 1] = v2[j]
    <2>1. v2 \in Seq(DOMAIN v1) /\ v2 # <<>> /\ DOMAIN v1 = 1..Len(v1) /\ Len(v1) \in Nat
      BY <1>0, <1>1 DEF RealtimeFacts
    <2> QED BY <1>1, <2>1
  <1>3. ASSUME NEW s \in Streams
        PROVE  /\ v6'[s] \in Realtime!Stream
               /\ v6'[s].kind = v6[s].kind /\ v6'[s].st = v6[s].st /\ v6'[s].page = v6[s].page
               /\ v6'[s].since = v6[s].since /\ v6'[s].has = v6[s].has /\ v6'[s].lost = v6[s].lost
               /\ v6'[s].told = v6[s].told /\ v6'[s].heard = v6[s].heard
               /\ Len(v6'[s].buf) <= SubBuffer
               /\ \A j \in DOMAIN v6[s].buf : j \in DOMAIN v6'[s].buf /\ v6'[s].buf[j] = v6[s].buf[j]
               /\ v6[s].st # "off" => s \in v5' \/ \E j \in DOMAIN v6'[s].buf : v6'[s].buf[j] = x
    <2>1. v6[s] \in Realtime!Stream /\ Len(v6[s].buf) <= SubBuffer /\ SubBuffer \in Nat
      BY <1>0 DEF RealtimeFacts
    <2>2. CASE s \notin Realtime!Subscribed \/ Full(s)
      <3>1. v6'[s] = v6[s]
        BY <1>1, <2>2
      <3>2. v6[s].st # "off" => s \in v5'
        BY <1>1, <2>2 DEF Realtime!Subscribed
      <3> QED BY <2>1, <3>1, <3>2
    <2>3. CASE s \in Realtime!Subscribed /\ ~Full(s)
      <3> DEFINE b == Append(v6[s].buf, x)
      <3>1. v6[s].buf \in Seq(Nat)
        BY <2>1 DEF Realtime!Stream
      <3>2. /\ b \in Seq(Nat) /\ Len(b) = Len(v6[s].buf) + 1 /\ DOMAIN b = 1..Len(v6[s].buf) + 1
            /\ b[Len(v6[s].buf) + 1] = x /\ \A j \in 1..Len(v6[s].buf) : b[j] = v6[s].buf[j]
            /\ Len(v6[s].buf) \in Nat /\ DOMAIN v6[s].buf = 1..Len(v6[s].buf)
        BY <1>2, <3>1
      <3>3. v6'[s] = [v6[s] EXCEPT !.buf = b]
        BY <1>1, <2>3
      <3> HIDE DEF b
      <3>4. /\ v6'[s] \in Realtime!Stream /\ v6'[s].buf = b
            /\ v6'[s].kind = v6[s].kind /\ v6'[s].st = v6[s].st /\ v6'[s].page = v6[s].page
            /\ v6'[s].since = v6[s].since /\ v6'[s].has = v6[s].has /\ v6'[s].lost = v6[s].lost
            /\ v6'[s].told = v6[s].told /\ v6'[s].heard = v6[s].heard
        BY <2>1, <3>2, <3>3, Buffers
      <3>5. Len(b) <= SubBuffer
        BY <2>1, <2>3, <3>2
      <3>6. Len(v6[s].buf) + 1 \in DOMAIN b /\ 1..Len(v6[s].buf) \subseteq DOMAIN b
        BY <3>2
      <3> QED BY <3>2, <3>4, <3>5, <3>6
    <2> QED BY <2>2, <2>3
  <1> HIDE DEF x
  <1>4. ASSUME NEW s \in Streams, NEW i \in Realtime!Committed, Realtime!Coming(s, i)
        PROVE  Realtime!Coming(s, i)'
    <2>1. CASE \E j \in DOMAIN v2 : v2[j] = i
      <3>1. PICK j \in DOMAIN v2 : v2[j] = i
        BY <2>1
      <3>2. CASE j = 1
        BY <1>2, <1>3, <3>1, <3>2 DEF Realtime!Coming
      <3>3. CASE j # 1
        BY <1>2, <3>1, <3>3 DEF Realtime!Coming
      <3> QED BY <3>2, <3>3
    <2>2. CASE \E j \in DOMAIN v6[s].buf : v6[s].buf[j] = i
      BY <1>3, <2>2 DEF Realtime!Coming
    <2>3. CASE v6[s].st # "live" \/ ~v6[s].heard \/ v3 # "up" \/ v6[s].lost
      BY <1>1, <1>3, <2>3 DEF Realtime!Coming
    <2> QED BY <1>1, <1>4, <2>1, <2>2, <2>3 DEF Realtime!Coming
  <1>5. v6' \in [Streams -> Realtime!Stream]
    <2>1. \A s \in Streams : v6'[s] \in Realtime!Stream
      BY <1>3
    <2> QED BY <1>1, <2>1
  <1>6. v3' = "new" => \A s \in Streams : ~v6'[s].heard
    BY <1>0, <1>1, <1>3 DEF RealtimeFacts, Realtime!HeardInv
  <1>7. v3' \in {"new", "up", "down"} /\ v4' \in {"open", "closed"} /\ v5' \subseteq Streams /\ v7' \in 0..MaxDrops
    BY <1>0, <1>1 DEF RealtimeFacts, Realtime!Subscribed
  <1> QED BY <1>1, <1>2, <1>3, <1>4, <1>5, <1>6, <1>7, WordMoves

\* The full ones are marked.
LEMMA MarkLostKeeps ==
    ASSUME Realtime!RealtimeAssumption, Realtime!RealtimeInv, Realtime!MarkLost
    PROVE  Realtime!RealtimeInv'
  <1>0. RealtimeFacts
    BY RealtimeFactsHold
  <1>1. /\ v1' = v1 /\ v2' = v2 /\ v3' = v3 /\ v4' = v4 /\ v7' = v7 /\ v5' = {}
        /\ v6' = [s \in Streams |-> IF s \in v5 THEN [v6[s] EXCEPT !.lost = TRUE] ELSE v6[s]]
    BY DEF Realtime!MarkLost
  <1>2. ASSUME NEW s \in Streams
        PROVE  /\ v6'[s] \in Realtime!Stream
               /\ v6'[s].kind = v6[s].kind /\ v6'[s].st = v6[s].st /\ v6'[s].page = v6[s].page
               /\ v6'[s].since = v6[s].since /\ v6'[s].has = v6[s].has /\ v6'[s].buf = v6[s].buf
               /\ v6'[s].told = v6[s].told /\ v6'[s].heard = v6[s].heard
               /\ v6[s].lost \/ s \in v5 => v6'[s].lost
    <2>1. v6[s] \in Realtime!Stream
      BY <1>0 DEF RealtimeFacts
    <2> QED BY <1>1, <2>1 DEF Realtime!Stream
  <1>3. \A s \in Streams, i \in Realtime!Committed : Realtime!Coming(s, i) => Realtime!Coming(s, i)'
    BY <1>1, <1>2 DEF Realtime!Coming
  <1>4. v6' \in [Streams -> Realtime!Stream]
    BY <1>1, <1>2
  <1>5. v3' = "new" => \A s \in Streams : ~v6'[s].heard
    BY <1>0, <1>1, <1>2 DEF RealtimeFacts, Realtime!HeardInv
  <1>6. \A s \in Streams : Len(v6'[s].buf) <= SubBuffer
    BY <1>0, <1>2 DEF RealtimeFacts
  <1>7. v2' \in Seq(DOMAIN v1) /\ v3' \in {"new", "up", "down"} /\ v4' \in {"open", "closed"} /\ v5' \subseteq Streams /\ v7' \in 0..MaxDrops
    BY <1>0, <1>1 DEF RealtimeFacts
  <1> QED BY <1>1, <1>2, <1>3, <1>4, <1>5, <1>6, <1>7, WordMoves

\* The listener loses its connection: nothing is quiet until it has another.
LEMMA DisconnectKeeps ==
    ASSUME Realtime!RealtimeAssumption, Realtime!RealtimeInv, Realtime!Disconnect
    PROVE  Realtime!RealtimeInv'
  <1>0. RealtimeFacts
    BY RealtimeFactsHold
  <1>1. v1' = v1 /\ v2' = <<>> /\ v3' = "down" /\ v4' = v4 /\ v5' = v5 /\ v6' = v6 /\ v7 < MaxDrops /\ v7' = v7 + 1
    BY DEF Realtime!Disconnect
  <1>2. \A s \in Streams, i \in Realtime!Committed : Realtime!Coming(s, i)'
    BY <1>1 DEF Realtime!Coming
  <1>3. v2' \in Seq(DOMAIN v1) /\ v3' \in {"new", "up", "down"} /\ v4' \in {"open", "closed"} /\ v5' \subseteq Streams /\ v7' \in 0..MaxDrops
    BY <1>0, <1>1 DEF RealtimeFacts
  <1>4. v6' \in [Streams -> Realtime!Stream] /\ \A s \in Streams : Len(v6'[s].buf) <= SubBuffer
    BY <1>0, <1>1 DEF RealtimeFacts
  <1> QED BY <1>1, <1>2, <1>3, <1>4, WordMoves

\* The listener's first connection: no stream had one before.
LEMMA ConnectKeeps ==
    ASSUME Realtime!RealtimeAssumption, Realtime!RealtimeInv, Realtime!Connect
    PROVE  Realtime!RealtimeInv'
  <1>0. RealtimeFacts
    BY RealtimeFactsHold
  <1>1. v1' = v1 /\ v2' = v2 /\ v3 = "new" /\ v3' = "up" /\ v4' = v4 /\ v5' = v5 /\ v6' = v6 /\ v7' = v7
    BY DEF Realtime!Connect
  <1>2. \A s \in Streams, i \in Realtime!Committed : Realtime!Coming(s, i)'
    BY <1>0, <1>1 DEF Realtime!Coming, RealtimeFacts, Realtime!HeardInv
  <1>3. v2' \in Seq(DOMAIN v1) /\ v3' \in {"new", "up", "down"} /\ v4' \in {"open", "closed"} /\ v5' \subseteq Streams /\ v7' \in 0..MaxDrops
    BY <1>0, <1>1 DEF RealtimeFacts
  <1>4. v6' \in [Streams -> Realtime!Stream] /\ \A s \in Streams : Len(v6'[s].buf) <= SubBuffer
    BY <1>0, <1>1 DEF RealtimeFacts
  <1> QED BY <1>1, <1>2, <1>3, <1>4, WordMoves

\* The listener is back: every stream is marked, so that it tells its page once it wakes.
LEMMA ResyncKeeps ==
    ASSUME Realtime!RealtimeAssumption, Realtime!RealtimeInv, Realtime!Resync
    PROVE  Realtime!RealtimeInv'
  <1>0. RealtimeFacts
    BY RealtimeFactsHold
  <1>1. /\ v1' = v1 /\ v2' = v2 /\ v3' = "up" /\ v4' = v4 /\ v5' = v5 /\ v7' = v7
        /\ v6' = [s \in Streams |-> IF s \notin Realtime!Subscribed THEN v6[s]
                     ELSE [v6[s] EXCEPT !.lost = TRUE, !.heard = TRUE,
                              !.buf = IF Len(@) < SubBuffer THEN Append(@, Realtime!Wake) ELSE @]]
    BY DEF Realtime!Resync
  <1>2. ASSUME NEW s \in Streams
        PROVE  /\ v6'[s] \in Realtime!Stream
               /\ v6'[s].kind = v6[s].kind /\ v6'[s].st = v6[s].st /\ v6'[s].page = v6[s].page
               /\ v6'[s].since = v6[s].since /\ v6'[s].has = v6[s].has /\ v6'[s].told = v6[s].told
               /\ Len(v6'[s].buf) <= SubBuffer
               /\ v6'[s].st # "off" => v6'[s].lost
    <2>1. v6[s] \in Realtime!Stream /\ Len(v6[s].buf) <= SubBuffer /\ SubBuffer \in Nat
      BY <1>0 DEF RealtimeFacts
    <2>2. CASE s \notin Realtime!Subscribed
      <3>1. v6'[s] = v6[s] /\ v6[s].st = "off"
        BY <1>1, <2>2 DEF Realtime!Subscribed
      <3> QED BY <2>1, <3>1
    <2>3. CASE s \in Realtime!Subscribed
      <3> DEFINE b == IF Len(v6[s].buf) < SubBuffer THEN Append(v6[s].buf, Realtime!Wake) ELSE v6[s].buf
      <3>1. v6[s].buf \in Seq(Nat)
        BY <2>1 DEF Realtime!Stream
      <3>2. b \in Seq(Nat) /\ Len(b) <= SubBuffer
        BY <2>1, <3>1 DEF Realtime!Wake
      <3>3. v6'[s] = [v6[s] EXCEPT !.lost = TRUE, !.heard = TRUE, !.buf = b]
        BY <1>1, <2>3
      <3> HIDE DEF b
      <3> QED BY <2>1, <3>2, <3>3 DEF Realtime!Stream
    <2> QED BY <2>2, <2>3
  <1>3. \A s \in Streams, i \in Realtime!Committed : Realtime!Coming(s, i)'
    BY <1>2 DEF Realtime!Coming
  <1>4. v6' \in [Streams -> Realtime!Stream]
    BY <1>1, <1>2
  <1>5. v2' \in Seq(DOMAIN v1) /\ v3' \in {"new", "up", "down"} /\ v4' \in {"open", "closed"} /\ v5' \subseteq Streams /\ v7' \in 0..MaxDrops
    BY <1>0, <1>1 DEF RealtimeFacts
  <1>6. v3' # "new"
    BY <1>1
  <1> QED BY <1>1, <1>2, <1>3, <1>4, <1>5, <1>6, WordMoves

\* A reminder says nothing of a change.
LEMMA NotifyKeeps ==
    ASSUME Realtime!RealtimeAssumption, Realtime!RealtimeInv, Realtime!Notify
    PROVE  Realtime!RealtimeInv'
  <1>0. RealtimeFacts
    BY RealtimeFactsHold
  <1>1. /\ v1' = v1 /\ v2' = v2 /\ v3' = v3 /\ v4' = v4 /\ v5' = v5 /\ v7' = v7
        /\ v6' = [s \in Streams |-> IF s \in Realtime!Subscribed /\ v6[s].notes < SubBuffer
                                    THEN [v6[s] EXCEPT !.notes = @ + 1] ELSE v6[s]]
    BY DEF Realtime!Notify
  <1>2. ASSUME NEW s \in Streams
        PROVE  /\ v6'[s] \in Realtime!Stream
               /\ v6'[s].kind = v6[s].kind /\ v6'[s].st = v6[s].st /\ v6'[s].page = v6[s].page
               /\ v6'[s].since = v6[s].since /\ v6'[s].has = v6[s].has /\ v6'[s].buf = v6[s].buf
               /\ v6'[s].lost = v6[s].lost /\ v6'[s].told = v6[s].told /\ v6'[s].heard = v6[s].heard
    <2>1. v6[s] \in Realtime!Stream /\ SubBuffer \in Nat /\ v6[s].notes \in 0..SubBuffer
      BY <1>0 DEF RealtimeFacts, Realtime!Stream
    <2>2. v6[s].notes < SubBuffer => v6[s].notes + 1 \in 0..SubBuffer
      BY <2>1
    <2>3. v6'[s] = v6[s] \/ (v6[s].notes < SubBuffer /\ v6'[s] = [v6[s] EXCEPT !.notes = @ + 1])
      BY <1>1
    <2> QED BY <2>1, <2>2, <2>3 DEF Realtime!Stream
  <1>3. \A s \in Streams, i \in Realtime!Committed : Realtime!Coming(s, i) => Realtime!Coming(s, i)'
    BY <1>1, <1>2 DEF Realtime!Coming
  <1>4. v6' \in [Streams -> Realtime!Stream]
    BY <1>1, <1>2
  <1>5. v2' \in Seq(DOMAIN v1) /\ v3' \in {"new", "up", "down"} /\ v4' \in {"open", "closed"} /\ v5' \subseteq Streams /\ v7' \in 0..MaxDrops
    BY <1>0, <1>1 DEF RealtimeFacts
  <1>6. v3' = "new" => \A s \in Streams : ~v6'[s].heard
    BY <1>0, <1>1, <1>2 DEF RealtimeFacts, Realtime!HeardInv
  <1>7. \A s \in Streams : Len(v6'[s].buf) <= SubBuffer
    BY <1>0, <1>2 DEF RealtimeFacts
  <1> QED BY <1>1, <1>2, <1>3, <1>4, <1>5, <1>6, <1>7, WordMoves

\* The hub closes: every stream ends.
LEMMA CloseHubKeeps ==
    ASSUME Realtime!RealtimeAssumption, Realtime!RealtimeInv, Realtime!CloseHub
    PROVE  Realtime!RealtimeInv'
  <1>0. RealtimeFacts
    BY RealtimeFactsHold
  <1>1. /\ v1' = v1 /\ v2' = v2 /\ v3' = v3 /\ v4' = "closed" /\ v5' = v5 /\ v7' = v7
        /\ v6' = [s \in Streams |-> [v6[s] EXCEPT !.st = "off"]]
    BY DEF Realtime!CloseHub
  <1>2. ASSUME NEW s \in Streams
        PROVE  /\ v6'[s] \in Realtime!Stream
               /\ v6'[s].kind = v6[s].kind /\ v6'[s].st = "off" /\ v6'[s].page = v6[s].page
               /\ v6'[s].since = v6[s].since /\ v6'[s].has = v6[s].has /\ v6'[s].buf = v6[s].buf
               /\ v6'[s].told = v6[s].told /\ v6'[s].heard = v6[s].heard
    <2>1. v6[s] \in Realtime!Stream
      BY <1>0 DEF RealtimeFacts
    <2> QED BY <1>1, <2>1 DEF Realtime!Stream
  <1>3. \A s \in Streams, i \in Realtime!Committed : Realtime!Coming(s, i)'
    BY <1>2 DEF Realtime!Coming
  <1>4. v6' \in [Streams -> Realtime!Stream]
    BY <1>1, <1>2
  <1>5. v2' \in Seq(DOMAIN v1) /\ v3' \in {"new", "up", "down"} /\ v4' \in {"open", "closed"} /\ v5' \subseteq Streams /\ v7' \in 0..MaxDrops
    BY <1>0, <1>1 DEF RealtimeFacts
  <1>6. v3' = "new" => \A s \in Streams : ~v6'[s].heard
    BY <1>0, <1>1, <1>2 DEF RealtimeFacts, Realtime!HeardInv
  <1>7. \A s \in Streams : Len(v6'[s].buf) <= SubBuffer
    BY <1>0, <1>2 DEF RealtimeFacts
  <1> QED BY <1>1, <1>2, <1>3, <1>4, <1>5, <1>6, <1>7, WordMoves

-----------------------------------------------------------------------------
(* The steps of one stream. *)

\* The page begins to load: the number it starts from is older than every open change.
LEMMA LoadSeqKeeps ==
    ASSUME Realtime!RealtimeAssumption, Realtime!RealtimeInv, NEW s \in Streams, Realtime!LoadSeq(s)
    PROVE  Realtime!RealtimeInv'
  <1> DEFINE r == [v6[s] EXCEPT !.page = "data", !.told = FALSE, !.since = Realtime!LatestSeq]
  <1>0. RealtimeFacts
    BY RealtimeFactsHold
  <1>1. v6' = [v6 EXCEPT ![s] = r]
    BY DEF Realtime!LoadSeq
  <1>2. v1' = v1 /\ v2' = v2 /\ v3' = v3 /\ v4' = v4 /\ v5' = v5 /\ v7' = v7
    BY DEF Realtime!LoadSeq, Realtime!Stays
  <1>3. /\ Realtime!LatestSeq \in Nat /\ Realtime!LatestSeq <= Len(v1)
        /\ \A i \in DOMAIN v1 : v1[i].st = "open" => Realtime!LatestSeq < i
    BY <1>0, NewestIs DEF RealtimeFacts
  <1>4. v6[s] \in Realtime!Stream
    BY <1>0 DEF RealtimeFacts
  <1>5. /\ r \in Realtime!Stream /\ r.kind = v6[s].kind /\ r.st = v6[s].st /\ r.has = v6[s].has /\ r.buf = v6[s].buf
        /\ r.heard = v6[s].heard /\ r.since = Realtime!LatestSeq /\ r.page = "data"
    BY <1>3, <1>4 DEF Realtime!Stream
  <1> HIDE DEF r
  <1>6. MissesNone(s, r)
    BY <1>5 DEF MissesNone
  <1>7. r.has \subseteq DOMAIN v1 /\ Len(r.buf) <= SubBuffer /\ (v3 = "new" => ~r.heard) /\ v7' \in 0..MaxDrops
    BY <1>0, <1>2, <1>5 DEF RealtimeFacts, Realtime!HeardInv
  <1>8. r.st = "off" \/ v6[s].st # "off"
    BY <1>5
  <1> QED BY <1>1, <1>2, <1>3, <1>5, <1>6, <1>7, <1>8, StreamMoves

\* The page is loaded: it lacks nothing that is committed.
LEMMA LoadDataKeeps ==
    ASSUME Realtime!RealtimeAssumption, Realtime!RealtimeInv, NEW s \in Streams, Realtime!LoadData(s)
    PROVE  Realtime!RealtimeInv'
  <1> DEFINE r == [v6[s] EXCEPT !.page = "shown", !.has = Realtime!Committed]
  <1>0. RealtimeFacts
    BY RealtimeFactsHold
  <1>1. v6' = [v6 EXCEPT ![s] = r]
    BY DEF Realtime!LoadData
  <1>2. v1' = v1 /\ v2' = v2 /\ v3' = v3 /\ v4' = v4 /\ v5' = v5 /\ v7' = v7
    BY DEF Realtime!LoadData, Realtime!Stays
  <1>3. Realtime!Committed \in SUBSET Nat /\ Realtime!Committed \subseteq DOMAIN v1
    BY <1>0, CommittedIn DEF RealtimeFacts
  <1>4. v6[s] \in Realtime!Stream
    BY <1>0 DEF RealtimeFacts
  <1>5. /\ r \in Realtime!Stream /\ r.kind = v6[s].kind /\ r.st = v6[s].st /\ r.has = Realtime!Committed /\ r.buf = v6[s].buf
        /\ r.heard = v6[s].heard /\ r.since = v6[s].since
    BY <1>3, <1>4 DEF Realtime!Stream
  <1> HIDE DEF r
  <1>6. MissesNone(s, r)
    BY <1>5 DEF MissesNone
  <1>7. r.has \subseteq DOMAIN v1 /\ Len(r.buf) <= SubBuffer /\ (v3 = "new" => ~r.heard) /\ v7' \in 0..MaxDrops
    BY <1>0, <1>2, <1>3, <1>5 DEF RealtimeFacts, Realtime!HeardInv
  <1>8. r.st = "off" \/ v6[s].st # "off"
    BY <1>5
  <1>9. r.since <= Len(v1) /\ \A i \in DOMAIN v1 : v1[i].st = "open" => r.since < i
    BY <1>0, <1>5 DEF RealtimeFacts
  <1> QED BY <1>1, <1>2, <1>5, <1>6, <1>7, <1>8, <1>9, StreamMoves

\* A stream moves while its page stays as it is: its word may only come, or be told.
LEMMA StreamServes ==
    ASSUME Realtime!RealtimeAssumption, Realtime!RealtimeInv,
           NEW s \in Streams, NEW r \in Realtime!Stream, v6' = [v6 EXCEPT ![s] = r],
           v1' = v1, v2' = v2, v3' = v3, v4' = v4, v5' = v5, v7' \in 0..MaxDrops,
           r.kind = v6[s].kind, r.page = v6[s].page, r.since = v6[s].since, r.has = v6[s].has,
           v6[s].told => r.told, Len(r.buf) <= SubBuffer, v3 = "new" => ~r.heard,
           r.st = "off" \/ v6[s].st # "off" \/ Realtime!Cardinality(Realtime!Subscribed) < MaxSubsPerOwner,
           \A i \in Realtime!Committed : v6[s].since < i /\ v6[s].since # 0 /\ Realtime!Filter(s, v1[i].c) # "Skip" =>
               r.told \/ ComingTo(s, r, i) \/ ~ComingTo(s, v6[s], i)
    PROVE  Realtime!RealtimeInv'
  <1>0. RealtimeFacts
    BY RealtimeFactsHold
  <1>1. r.has \subseteq DOMAIN v1 /\ r.since <= Len(v1) /\ \A i \in DOMAIN v1 : v1[i].st = "open" => r.since < i
    BY <1>0 DEF RealtimeFacts
  <1>2. MissesNone(s, v6[s])
    BY <1>0 DEF RealtimeFacts
  <1>3. MissesNone(s, r)
    BY <1>2 DEF MissesNone
  <1> QED BY <1>1, <1>3, StreamMoves

\* A new stream has yet to replay.
LEMMA SubscribeKeeps ==
    ASSUME Realtime!RealtimeAssumption, Realtime!RealtimeInv, NEW s \in Streams, Realtime!Subscribe(s)
    PROVE  Realtime!RealtimeInv'
  <1> DEFINE up == v3 = "up"
             r == [v6[s] EXCEPT !.st = "replay", !.buf = <<>>, !.notes = 0, !.lost = FALSE, !.heard = up]
  <1>0. RealtimeFacts
    BY RealtimeFactsHold
  <1>1. v6' = [v6 EXCEPT ![s] = r] /\ Realtime!Cardinality(Realtime!Subscribed) < MaxSubsPerOwner
    BY DEF Realtime!Subscribe
  <1>2. v1' = v1 /\ v2' = v2 /\ v3' = v3 /\ v4' = v4 /\ v5' = v5 /\ v7' = v7
    BY DEF Realtime!Subscribe, Realtime!Stays
  <1>3. v6[s] \in Realtime!Stream /\ SubBuffer \in Nat /\ 0 \in 0..SubBuffer /\ <<>> \in Seq(Nat) /\ Len(<<>>) = 0
    BY <1>0 DEF RealtimeFacts
  <1>4. up \in BOOLEAN /\ (v3 = "new" => ~up)
    OBVIOUS
  <1> HIDE DEF up
  <1>5. /\ r \in Realtime!Stream /\ r.kind = v6[s].kind /\ r.page = v6[s].page /\ r.since = v6[s].since
        /\ r.has = v6[s].has /\ r.told = v6[s].told /\ r.buf = <<>> /\ r.heard = up /\ r.st = "replay"
    BY <1>3, <1>4 DEF Realtime!Stream
  <1> HIDE DEF r
  <1>6. \A i : ComingTo(s, r, i)
    BY <1>5 DEF ComingTo
  <1>7. v7' \in 0..MaxDrops /\ Len(r.buf) <= SubBuffer
    BY <1>0, <1>2, <1>3, <1>5 DEF RealtimeFacts
  <1> QED BY <1>1, <1>2, <1>4, <1>5, <1>6, <1>7, StreamServes

\* The replay tells of everything since the page's number, or that there was too much.
LEMMA ReplayKeeps ==
    ASSUME Realtime!RealtimeAssumption, Realtime!RealtimeInv, NEW s \in Streams, Realtime!Replay(s)
    PROVE  Realtime!RealtimeInv'
  <1> DEFINE pending == IF v6[s].since > 0 THEN Realtime!ChangesSince(v6[s].since) ELSE {}
             acts    == {Realtime!Filter(s, v1[i].c) : i \in pending}
                          \cup (IF Realtime!Cardinality(pending) >= ReplayLimit THEN {"Refresh"} ELSE {})
             told    == Realtime!Told(s, acts)
             r       == [v6[s] EXCEPT !.st = "live", !.told = told]
  <1>0. RealtimeFacts
    BY RealtimeFactsHold
  <1>1. v6' = [v6 EXCEPT ![s] = r] /\ v6[s].st = "replay"
    BY DEF Realtime!Replay
  <1>2. v1' = v1 /\ v2' = v2 /\ v3' = v3 /\ v4' = v4 /\ v5' = v5 /\ v7' = v7
    BY DEF Realtime!Replay, Realtime!Stays
  <1>3. told \in BOOLEAN /\ (v6[s].told = TRUE => told)
    BY ToldStays
  <1>4. ASSUME NEW i \in Realtime!Committed, v6[s].since < i, v6[s].since # 0, Realtime!Filter(s, v1[i].c) # "Skip"
        PROVE  told
    <2>1. v6[s].since \in Nat /\ v6[s].since > 0 /\ v1 \in Rows /\ ReplayLimit \in Nat
      BY <1>0, <1>4 DEF RealtimeFacts, Realtime!Stream
    <2>2. pending = Realtime!ChangesSince(v6[s].since)
      BY <2>1
    <2>3. CASE Realtime!Cardinality(pending) >= ReplayLimit
      <3>1. "Refresh" \in acts /\ "Refresh" \in Realtime!Actions
        BY <2>3 DEF Realtime!Actions
      <3> HIDE DEF acts
      <3> QED BY <3>1, Tells
    <2>4. CASE ~(Realtime!Cardinality(pending) >= ReplayLimit)
      <3>1. Realtime!Cardinality(Realtime!ChangesSince(v6[s].since)) \in Nat
        <4>1. Realtime!ChangesSince(v6[s].since) \in SUBSET Realtime!Committed
          BY DEF Realtime!ChangesSince
        <4>2. IsFiniteSet(Realtime!Committed)
          BY <2>1, CommittedIn
        <4> QED BY <4>1, <4>2, FS_Subset, FS_CardinalityType, RealtimeCounts
      <3>2. i \in Realtime!ChangesSince(v6[s].since)
        BY <1>4, <2>1, <2>2, <2>4, <3>1, ReplaysAll
      <3>3. Realtime!Filter(s, v1[i].c) \in acts
        BY <2>2, <3>2
      <3> HIDE DEF acts
      <3> QED BY <1>4, <3>3, FilterIs, Tells
    <2> QED BY <2>3, <2>4
  <1>5. v6[s] \in Realtime!Stream
    BY <1>0 DEF RealtimeFacts
  <1> HIDE DEF told
  <1>6. /\ r \in Realtime!Stream /\ r.kind = v6[s].kind /\ r.page = v6[s].page /\ r.since = v6[s].since
        /\ r.has = v6[s].has /\ r.told = told /\ r.buf = v6[s].buf /\ r.heard = v6[s].heard
    BY <1>3, <1>5 DEF Realtime!Stream
  <1> HIDE DEF r
  <1>7. v7' \in 0..MaxDrops /\ Len(r.buf) <= SubBuffer /\ (v3 = "new" => ~r.heard)
    BY <1>0, <1>2, <1>6 DEF RealtimeFacts, Realtime!HeardInv
  <1>8. v6[s].told => r.told
    BY <1>3, <1>5, <1>6 DEF Realtime!Stream
  <1>9. v6[s].st # "off"
    BY <1>1
  <1> QED BY <1>1, <1>2, <1>4, <1>6, <1>7, <1>8, <1>9, StreamServes

\* The next change of the stream is told if it matters, and so is that some were lost.
LEMMA ServeChangeKeeps ==
    ASSUME Realtime!RealtimeAssumption, Realtime!RealtimeInv, NEW s \in Streams, Realtime!ServeChange(s)
    PROVE  Realtime!RealtimeInv'
  <1> DEFINE x    == Head(v6[s].buf)
             acts == (IF v6[s].lost THEN {"Refresh"} ELSE {})
                       \cup (IF x # Realtime!Wake THEN {Realtime!Filter(s, v1[x].c)} ELSE {})
             told == Realtime!Told(s, acts)
             b    == Tail(v6[s].buf)
             r    == [v6[s] EXCEPT !.buf = b, !.lost = FALSE, !.told = told]
  <1>0. RealtimeFacts
    BY RealtimeFactsHold
  <1>1. v6' = [v6 EXCEPT ![s] = r] /\ v6[s].st = "live" /\ v6[s].buf # <<>>
    BY DEF Realtime!ServeChange
  <1>2. v1' = v1 /\ v2' = v2 /\ v3' = v3 /\ v4' = v4 /\ v5' = v5 /\ v7' = v7
    BY DEF Realtime!ServeChange, Realtime!Stays
  <1>3. told \in BOOLEAN /\ (v6[s].told = TRUE => told)
    BY ToldStays
  <1>4. v6[s] \in Realtime!Stream
    BY <1>0 DEF RealtimeFacts
  <1>5. /\ b \in Seq(Nat) /\ Len(b) <= Len(v6[s].buf) /\ Len(b) \in Nat /\ Len(v6[s].buf) \in Nat /\ v6[s].buf[1] = x
        /\ \A j \in DOMAIN v6[s].buf : j # 1 => j - 1 \in DOMAIN b /\ b[j - 1] = v6[s].buf[j]
    <2>1. v6[s].buf \in Seq(Nat) /\ v6[s].buf # <<>>
      BY <1>1, <1>4 DEF Realtime!Stream
    <2> QED BY <2>1, TailOf
  <1>6. ASSUME v6[s].lost PROVE told
    <2>1. "Refresh" \in acts /\ "Refresh" \in Realtime!Actions
      BY <1>6 DEF Realtime!Actions
    <2> HIDE DEF acts
    <2> QED BY <2>1, Tells
  <1>7. ASSUME NEW i \in Realtime!Committed, i = x, Realtime!Filter(s, v1[i].c) # "Skip" PROVE told
    <2>1. i # Realtime!Wake
      BY <1>0, CommittedIn DEF RealtimeFacts, Realtime!Wake
    <2>2. Realtime!Filter(s, v1[i].c) \in acts
      BY <1>7, <2>1
    <2> HIDE DEF acts
    <2> QED BY <1>7, <2>2, FilterIs, Tells
  <1> HIDE DEF told, b, x
  <1>8. /\ r \in Realtime!Stream /\ r.kind = v6[s].kind /\ r.page = v6[s].page /\ r.since = v6[s].since /\ r.st = v6[s].st
        /\ r.has = v6[s].has /\ r.told = told /\ r.buf = b /\ r.heard = v6[s].heard
    BY <1>3, <1>4, <1>5 DEF Realtime!Stream
  <1> HIDE DEF r
  <1>9. v7' \in 0..MaxDrops /\ Len(r.buf) <= SubBuffer /\ (v3 = "new" => ~r.heard)
    BY <1>0, <1>2, <1>5, <1>8 DEF RealtimeFacts, Realtime!HeardInv
  <1>10. v6[s].told => r.told
    BY <1>3, <1>4, <1>8 DEF Realtime!Stream
  <1>11. v6[s].st # "off"
    BY <1>1
  <1>12. ASSUME NEW i \in Realtime!Committed, Realtime!Filter(s, v1[i].c) # "Skip", ComingTo(s, v6[s], i)
         PROVE  r.told \/ ComingTo(s, r, i)
    <2>1. CASE \E j \in DOMAIN v6[s].buf : v6[s].buf[j] = i
      <3>1. PICK j \in DOMAIN v6[s].buf : v6[s].buf[j] = i
        BY <2>1
      <3>2. CASE j = 1
        BY <1>5, <1>7, <1>8, <1>12, <3>1, <3>2
      <3>3. CASE j # 1
        BY <1>5, <1>8, <3>1, <3>3 DEF ComingTo
      <3> QED BY <3>2, <3>3
    <2>2. CASE v6[s].lost
      BY <1>6, <1>8, <2>2
    <2>3. CASE v6[s].st # "live" \/ ~v6[s].heard \/ v3 # "up" \/ s \in v5 \/ \E j \in DOMAIN v2 : v2[j] = i
      BY <1>8, <2>3 DEF ComingTo
    <2> QED BY <1>12, <2>1, <2>2, <2>3 DEF ComingTo
  <1> QED BY <1>1, <1>2, <1>8, <1>9, <1>10, <1>11, <1>12, StreamServes

\* A notice is shown, or the connection of the page ends.
LEMMA OthersServe ==
    ASSUME Realtime!RealtimeAssumption, Realtime!RealtimeInv, NEW s \in Streams,
           Realtime!ServeNotice(s) \/ Realtime!Unsubscribe(s)
    PROVE  Realtime!RealtimeInv'
  <1>0. RealtimeFacts
    BY RealtimeFactsHold
  <1>1. v6[s] \in Realtime!Stream /\ SubBuffer \in Nat /\ v6[s].notes \in 0..SubBuffer /\ Len(v6[s].buf) <= SubBuffer
    BY <1>0 DEF RealtimeFacts, Realtime!Stream
  <1>2. v3 = "new" => ~v6[s].heard
    BY <1>0 DEF RealtimeFacts, Realtime!HeardInv
  <1>3. CASE Realtime!ServeNotice(s)
    <2> DEFINE r == [v6[s] EXCEPT !.notes = @ - 1]
    <2>1. v6' = [v6 EXCEPT ![s] = r] /\ v6[s].notes > 0 /\ v6[s].st = "live"
      BY <1>3 DEF Realtime!ServeNotice
    <2>2. v1' = v1 /\ v2' = v2 /\ v3' = v3 /\ v4' = v4 /\ v5' = v5 /\ v7' = v7
      BY <1>3 DEF Realtime!ServeNotice, Realtime!Stays
    <2>3. v6[s].notes - 1 \in 0..SubBuffer
      BY <1>1, <2>1
    <2>4. /\ r \in Realtime!Stream /\ r.kind = v6[s].kind /\ r.page = v6[s].page /\ r.since = v6[s].since /\ r.st = v6[s].st
          /\ r.has = v6[s].has /\ r.told = v6[s].told /\ r.buf = v6[s].buf /\ r.heard = v6[s].heard /\ r.lost = v6[s].lost
      BY <1>1, <2>3 DEF Realtime!Stream
    <2> HIDE DEF r
    <2>5. \A i : ComingTo(s, v6[s], i) => ComingTo(s, r, i)
      BY <2>4 DEF ComingTo
    <2>6. v7' \in 0..MaxDrops /\ v6[s].st # "off"
      BY <1>0, <2>1, <2>2 DEF RealtimeFacts
    <2> QED BY <1>1, <1>2, <2>1, <2>2, <2>4, <2>5, <2>6, StreamServes
  <1>4. CASE Realtime!Unsubscribe(s)
    <2> DEFINE r == [v6[s] EXCEPT !.st = "off"]
    <2>1. v6' = [v6 EXCEPT ![s] = r] /\ v1' = v1 /\ v2' = v2 /\ v3' = v3 /\ v4' = v4 /\ v5' = v5 /\ v7 < MaxDrops /\ v7' = v7 + 1
      BY <1>4 DEF Realtime!Unsubscribe
    <2>2. /\ r \in Realtime!Stream /\ r.kind = v6[s].kind /\ r.page = v6[s].page /\ r.since = v6[s].since /\ r.st = "off"
          /\ r.has = v6[s].has /\ r.told = v6[s].told /\ r.buf = v6[s].buf /\ r.heard = v6[s].heard
      BY <1>1 DEF Realtime!Stream
    <2> HIDE DEF r
    <2>3. \A i : ComingTo(s, r, i)
      BY <2>2 DEF ComingTo
    <2>4. v7' \in 0..MaxDrops
      BY <1>0, <2>1 DEF RealtimeFacts
    <2> QED BY <1>1, <1>2, <2>1, <2>2, <2>3, <2>4, StreamServes
  <1> QED BY <1>3, <1>4

LEMMA RealtimeKeeps ==
    ASSUME Realtime!RealtimeAssumption, Realtime!RealtimeInv, Realtime!RealtimeNext
    PROVE  Realtime!RealtimeInv'
  <1>1. CASE Realtime!EndWrite
    BY <1>1, EndWriteKeeps
  <1>2. CASE \E c \in Kinds : Realtime!RecordChange(c)
    BY <1>2, RecordChangeKeeps
  <1>3. CASE Realtime!Publish
    BY <1>3, PublishKeeps
  <1>4. CASE Realtime!MarkLost
    BY <1>4, MarkLostKeeps
  <1>5. CASE Realtime!Disconnect
    BY <1>5, DisconnectKeeps
  <1>6. CASE Realtime!Connect
    BY <1>6, ConnectKeeps
  <1>7. CASE Realtime!Resync
    BY <1>7, ResyncKeeps
  <1>8. CASE Realtime!Notify
    BY <1>8, NotifyKeeps
  <1>9. CASE Realtime!CloseHub
    BY <1>9, CloseHubKeeps
  <1>10. ASSUME NEW s \in Streams, Realtime!LoadSeq(s) \/ Realtime!LoadData(s) \/ Realtime!Subscribe(s) \/ Realtime!Serve(s)
         PROVE  Realtime!RealtimeInv'
    BY <1>10, LoadSeqKeeps, LoadDataKeeps, SubscribeKeeps, ReplayKeeps, ServeChangeKeeps, OthersServe DEF Realtime!Serve
  <1> QED BY <1>1, <1>2, <1>3, <1>4, <1>5, <1>6, <1>7, <1>8, <1>9, <1>10 DEF Realtime!RealtimeNext

LEMMA RealtimeStarts ==
    ASSUME Realtime!RealtimeAssumption, Realtime!RealtimeInit
    PROVE  Realtime!RealtimeInv
  <1>1. v2 = <<>> /\ v3 = "new" /\ v4 = "open" /\ v5 = {} /\ v7 = 0 /\ MaxDrops \in Nat /\ SubBuffer \in Nat
        /\ MaxSubsPerOwner \in Nat
    BY DEF Realtime!RealtimeInit, Realtime!RealtimeAssumption
  <1>2. v1 \in Rows /\ Len(v1) \in Nat /\ \A i \in DOMAIN v1 : v1[i].st # "open"
    <2>1. CASE v1 = <<>>
      BY <2>1 DEF Rows
    <2>2. ASSUME NEW c \in Kinds, v1 = <<[c |-> c, st |-> "done"]>> PROVE v1 \in Rows /\ Len(v1) \in Nat /\ \A i \in DOMAIN v1 : v1[i].st # "open"
      <3> DEFINE row == [c |-> c, st |-> "done"]
      <3>1. row \in [c : Kinds, st : {"open", "done", "undone"}] /\ row.st = "done"
        OBVIOUS
      <3> HIDE DEF row
      <3>2. v1 = <<row>>
        BY <2>2 DEF row
      <3> QED BY <3>1, <3>2 DEF Rows
    <2> QED BY <2>1, <2>2 DEF Realtime!RealtimeInit
  <1>3. PICK kind \in [Streams -> {"user", "share"}] :
            v6 = [s \in Streams |-> [kind |-> kind[s], st |-> "off", page |-> "none", since |-> 0, has |-> {}, buf |-> <<>>,
                        notes |-> 0, lost |-> FALSE, told |-> FALSE, heard |-> FALSE]]
    BY DEF Realtime!RealtimeInit
  <1>4. ASSUME NEW s \in Streams
        PROVE  /\ v6[s] \in Realtime!Stream /\ v6[s].st = "off" /\ v6[s].page = "none" /\ v6[s].since = 0
               /\ v6[s].has = {} /\ v6[s].buf = <<>> /\ v6[s].heard = FALSE
    <2>1. kind[s] \in {"user", "share"} /\ 0 \in 0..SubBuffer /\ <<>> \in Seq(Nat) /\ {} \in SUBSET Nat
      BY <1>1
    <2> QED BY <1>3, <2>1 DEF Realtime!Stream
  <1>5. v6 \in [Streams -> Realtime!Stream]
    BY <1>3, <1>4
  <1>6. Realtime!Cardinality(Realtime!Subscribed) <= MaxSubsPerOwner
    <2>1. Realtime!Subscribed = {}
      BY <1>4 DEF Realtime!Subscribed
    <2> QED BY <1>1, <2>1, FS_EmptySet, RealtimeCounts
  <1>7. Realtime!RealtimeTypeOK
    <2>1. \A s \in Streams : v6[s].has \subseteq DOMAIN v1 /\ Len(v6[s].buf) <= SubBuffer
      <3> TAKE s \in Streams
      <3>1. v6[s].has = {} /\ v6[s].buf = <<>>
        BY <1>4
      <3>2. Len(v6[s].buf) = 0
        BY <3>1
      <3> QED BY <1>1, <3>1, <3>2
    <2>2. v2 \in Seq(DOMAIN v1) /\ v7 \in 0..MaxDrops
      BY <1>1
    <2> QED BY <1>1, <1>2, <1>5, <1>6, <2>1, <2>2, RealtimeTyped
  <1>8. Realtime!OpenInv /\ Realtime!HeardInv /\ Realtime!MissInv
    <2>1. \A s \in Streams : v6[s].since <= Len(v1) /\ ~v6[s].heard /\ v6[s].page # "shown"
      <3> TAKE s \in Streams
      <3>1. v6[s].since = 0 /\ v6[s].heard = FALSE /\ v6[s].page = "none"
        BY <1>4
      <3> QED BY <1>2, <3>1
    <2> QED BY <1>2, <2>1 DEF Realtime!OpenInv, Realtime!HeardInv, Realtime!MissInv
  <1> QED BY <1>7, <1>8 DEF Realtime!RealtimeInv

\* For any streams, changes, views, shares, buffers and limits, any tokens and any table:
\* nobody who follows the change log misses a change, neither an open page when nothing is
\* on its way nor a client that polls from the last row it was given (NothingMissed).
THEOREM NobodyMisses == Spec => []NothingMissed
  <1> DEFINE Inv == /\ part = "realtime" => Realtime!RealtimeInv
                    /\ part = "changes" => Changes!PollInv
  <1>0. Realtime!RealtimeAssumption /\ Changes!ChangesAssumption
    BY AccessAssumption
  <1>1. Init => Inv
    BY <1>0, RealtimeStarts, ChangesStart DEF Init
  <1>2. Inv /\ [Next]_vars => Inv'
    <2>1. ASSUME [Next]_vars
          PROVE  /\ part' = part
                 /\ part = "realtime" => Realtime!RealtimeNext \/ UNCHANGED Realtime!realtimeVars
                 /\ part = "changes" => Changes!ChangesNext \/ UNCHANGED Changes!changesVars
      BY <2>1 DEF Next, vars, Realtime!realtimeVars, Changes!changesVars
    <2>2. ASSUME Realtime!RealtimeInv, UNCHANGED Realtime!realtimeVars PROVE Realtime!RealtimeInv'
      BY <2>2 DEF Realtime!realtimeVars, Realtime!RealtimeInv, Realtime!RealtimeTypeOK, Realtime!OpenInv, Realtime!HeardInv,
                  Realtime!MissInv, Realtime!Coming, Realtime!Committed, Realtime!Filter, Realtime!Live
    <2>3. ASSUME Changes!PollInv, UNCHANGED Changes!changesVars PROVE Changes!PollInv'
      BY <2>3 DEF Changes!changesVars, Changes!PollInv, Changes!ChangesTypeOK, Changes!OpenInv, Changes!ReachInv, Changes!RowsInv,
                  Changes!PollSkipsNothing, Changes!Stored
    <2> QED BY <1>0, <2>1, <2>2, <2>3, RealtimeKeeps, ChangesKeep
  <1>3. Inv => NothingMissed
    <2>1. ASSUME Realtime!RealtimeInv, NEW s \in Streams, Realtime!Quiet(s), ~v6[s].told, NEW i \in Realtime!Committed \ v6[s].has
          PROVE  Realtime!Filter(s, v1[i].c) = "Skip"
      <3>1. v6[s].buf = <<>> /\ v2 = <<>> /\ v6[s].page = "shown" /\ v6[s].since > 0
        BY <2>1 DEF Realtime!Quiet
      <3>2. ~Realtime!Coming(s, i)
        BY <2>1, <3>1 DEF Realtime!Quiet, Realtime!Coming
      <3>3. v6[s].since # 0
        BY <3>1
      <3> QED BY <2>1, <3>1, <3>2, <3>3 DEF Realtime!RealtimeInv, Realtime!MissInv
    <2> QED BY <2>1 DEF NothingMissed, Realtime!NothingMissed, Changes!PollInv
  <1> QED BY <1>1, <1>2, <1>3, PTL DEF Spec

-----------------------------------------------------------------------------
(* Settings.  v1 is boxes, v2 user, v3 sleep, v4 clients, v5 stamp.        *)

SetFacts ==
    /\ v1 \in [Boxes -> [live : BOOLEAN, tag : 0..MaxStamp, val : Settings!Vals]]
    /\ v2 \in [tag : 0..MaxStamp, val : Settings!Vals, on : BOOLEAN]
    /\ v3 \in Settings!Schedules /\ v5 \in 0..MaxStamp /\ v4 \in [Pair -> Settings!Client]
    /\ v2.on => v3 # Settings!NoSleep

LEMMA SetFactsHold ==
    Settings!SettingsTypeOK <=> SetFacts
  BY DEF SetFacts, Settings!SettingsTypeOK

\* A client that holds nothing.
LEMMA NothingHeld ==
    ASSUME Settings!SettingsAssumption
    PROVE  LET r == Settings!Free
           IN  /\ r \in Settings!Client /\ r.shown \in Settings!Shown /\ r.put \in Settings!Shown
               /\ r.pc = "idle" /\ r.on = 0 /\ r.tag = 0 /\ r.at = 0 /\ r.last = "none"
               /\ r.match = FALSE /\ r.form = FALSE
  <1> DEFINE n == Settings!Nothing
  <1>1. n \in Settings!Shown
    BY DEF Settings!Nothing, Settings!Shown, Settings!Vals, Settings!NoSleep, Settings!Schedules
  <1>2. Settings!Free = [pc |-> "idle", on |-> 0, tag |-> 0, match |-> FALSE, form |-> FALSE,
                         shown |-> n, put |-> n, at |-> 0, last |-> "none"]
    BY DEF Settings!Free
  <1> HIDE DEF n
  <1> QED BY <1>1, <1>2 DEF Settings!Client, Settings!SettingsAssumption

\* What a client holds agrees with the tables as they are next.
AgreesNext(r) ==
    /\ r.tag <= v5' /\ r.at <= v5'
    /\ r.pc \in {"shown", "begun"} /\ r.on # 0 /\ r.tag = v1'[r.on].tag => r.shown.val = v1'[r.on].val
    /\ r.pc \in {"reading", "shown", "begun"} /\ r.on = 0 /\ r.tag = v2'.tag =>
         /\ r.shown.val = v2'.val /\ r.shown.on = v2'.on
         /\ r.pc # "reading" => r.shown.sleep = v3'
    /\ r.pc = "reading" => r.on = 0
    /\ r.pc # "begun" => ~r.form
    /\ r.form /\ r.on = 0 => r.put = Settings!ProfilePatch(Settings!ProfileValues(r.shown), r.put.val)

\* The time r will write is nobody's, if all others hold what they held.
Alone(c, r) ==
    /\ r.at # 0 /\ r.at # v2'.tag /\ r.at # r.tag /\ \A b \in Boxes : r.at # v1'[b].tag
    /\ \A e \in Pair \ {c} : v4[e].tag # r.at /\ (v4[e].pc = "begun" => v4[e].at # r.at)

\* A step of one client: the tables keep their types, everybody agrees with them, and times
\* to come are nobody's.
LEMMA ClientMoves ==
    ASSUME SetFacts, NEW c \in Pair, NEW r \in Settings!Client, v4' = [v4 EXCEPT ![c] = r],
           v1' \in [Boxes -> [live : BOOLEAN, tag : 0..MaxStamp, val : Settings!Vals]],
           v2' \in [tag : 0..MaxStamp, val : Settings!Vals, on : BOOLEAN],
           v3' \in Settings!Schedules, v5' \in 0..MaxStamp, v2'.on => v3' # Settings!NoSleep,
           AgreesNext(r), \A e \in Pair \ {c} : AgreesNext(v4[e]),
           v2'.tag <= v5', \A b \in Boxes : v1'[b].tag <= v5',
           r.pc = "begun" => Alone(c, r),
           \A e \in Pair \ {c} : v4[e].pc = "begun" =>
              /\ v4[e].at # 0 /\ v4[e].at # v2'.tag /\ v4[e].at # r.tag /\ \A b \in Boxes : v4[e].at # v1'[b].tag
              /\ \A f \in Pair \ {c} : v4[f].tag # v4[e].at /\ (v4[f].pc = "begun" /\ f # e => v4[f].at # v4[e].at)
    PROVE  Settings!SettingsInv'
  <1>1. v4' \in [Pair -> Settings!Client] /\ v4'[c] = r /\ \A e \in Pair \ {c} : v4'[e] = v4[e]
    BY DEF SetFacts
  <1>2. Settings!SettingsTypeOK'
    BY <1>1 DEF Settings!SettingsTypeOK, SetFacts
  <1>3. Settings!AgreeInv'
    <2>1. \A e \in Pair : AgreesNext(v4'[e])
      BY <1>1
    <2> QED BY <2>1 DEF AgreesNext, Settings!AgreeInv, Settings!Agrees
  <1>4. Settings!StampInv'
    <2>1. ASSUME NEW e \in Pair, v4'[e].pc = "begun"
          PROVE  /\ v4'[e].at # 0 /\ v4'[e].at # v2'.tag /\ \A b \in Boxes : v4'[e].at # v1'[b].tag
                 /\ \A f \in Pair : v4'[f].tag # v4'[e].at
                 /\ \A f \in Pair \ {e} : v4'[f].pc = "begun" => v4'[f].at # v4'[e].at
      <3>1. CASE e = c
        BY <1>1, <2>1, <3>1 DEF Alone
      <3>2. CASE e # c
        <4>1. ASSUME r.pc = "begun" PROVE r.at # v4[e].at
          BY <1>1, <2>1, <3>2, <4>1 DEF Alone
        <4> QED BY <1>1, <2>1, <3>2, <4>1
      <3> QED BY <3>1, <3>2
    <2> QED BY <2>1 DEF Settings!StampInv
  <1> QED BY <1>2, <1>3, <1>4 DEF Settings!SettingsInv

\* The tables stay: whoever agreed with them does.
LEMMA OthersAgree ==
    ASSUME SetFacts, v1' = v1, v2' = v2, v3' = v3, v5' \in Nat, v5 <= v5', NEW r \in Settings!Client, Settings!Agrees(r)
    PROVE  AgreesNext(r)
  <1>1. r.tag \in Nat /\ r.at \in Nat /\ v5 \in Nat
    BY DEF SetFacts, Settings!Client
  <1> QED BY <1>1 DEF Settings!Agrees, AgreesNext

\* A step that reads, or gives up.
LEMMA ReadKeeps ==
    ASSUME Settings!SettingsInv, NEW c \in Pair, NEW r \in Settings!Client, v4' = [v4 EXCEPT ![c] = r],
           v1' = v1, v2' = v2, v3' = v3, v5' = v5, r.pc # "begun", r.pc # "idle" \/ r.last # "saved", Settings!Agrees(r),
           \A e \in Pair \ {c} : v4[e].pc = "begun" => v4[e].at # r.tag
    PROVE  Settings!SettingsInv' /\ Settings!WroteWhatWasSeen
  <1>0. SetFacts
    BY SetFactsHold DEF Settings!SettingsInv
  <1>1. AgreesNext(r)
    BY <1>0, OthersAgree DEF SetFacts
  <1>2. \A e \in Pair \ {c} : AgreesNext(v4[e])
    <2>1. \A e \in Pair : v4[e] \in Settings!Client /\ Settings!Agrees(v4[e])
      BY <1>0 DEF SetFacts, Settings!SettingsInv, Settings!AgreeInv
    <2> QED BY <1>0, <2>1, OthersAgree DEF SetFacts
  <1>5. /\ v1' \in [Boxes -> [live : BOOLEAN, tag : 0..MaxStamp, val : Settings!Vals]]
        /\ v2' \in [tag : 0..MaxStamp, val : Settings!Vals, on : BOOLEAN]
        /\ v3' \in Settings!Schedules /\ v5' \in 0..MaxStamp /\ (v2'.on => v3' # Settings!NoSleep)
    BY <1>0 DEF SetFacts
  <1>6. v2'.tag <= v5' /\ \A b \in Boxes : v1'[b].tag <= v5'
    BY DEF Settings!SettingsInv, Settings!StampInv
  <1>7. \A e \in Pair \ {c} : v4[e].pc = "begun" =>
              /\ v4[e].at # 0 /\ v4[e].at # v2'.tag /\ v4[e].at # r.tag /\ \A b \in Boxes : v4[e].at # v1'[b].tag
              /\ \A f \in Pair \ {c} : v4[f].tag # v4[e].at /\ (v4[f].pc = "begun" /\ f # e => v4[f].at # v4[e].at)
    BY DEF Settings!SettingsInv, Settings!StampInv
  <1>3. Settings!SettingsInv'
    BY <1>0, <1>1, <1>2, <1>5, <1>6, <1>7, ClientMoves
  <1>4. v4'[c] = r /\ \A e \in Pair \ {c} : v4'[e] = v4[e]
    BY <1>0 DEF SetFacts
  <1> QED BY <1>3, <1>4 DEF Settings!WroteWhatWasSeen

\* A transaction begins, at a new time.
LEMMA BeginKeeps ==
    ASSUME Settings!SettingsInv, NEW c \in Pair, NEW r \in Settings!Client, v4' = [v4 EXCEPT ![c] = r],
           v1' = v1, v2' = v2, v3' = v3, v5' = v5 + 1, v5 < MaxStamp, MaxStamp \in Nat,
           v4[c].pc = "shown", r.pc = "begun", r.at = v5 + 1, r.on = v4[c].on, r.tag = v4[c].tag, r.shown = v4[c].shown,
           r.form /\ r.on = 0 => r.put = Settings!ProfilePatch(Settings!ProfileValues(r.shown), r.put.val)
    PROVE  Settings!SettingsInv' /\ Settings!WroteWhatWasSeen
  <1>0. SetFacts
    BY SetFactsHold DEF Settings!SettingsInv
  <1>1. \A e \in Pair : v4[e] \in Settings!Client /\ Settings!Agrees(v4[e]) /\ v4[e].tag \in Nat /\ v4[e].at \in Nat
    BY <1>0 DEF SetFacts, Settings!SettingsInv, Settings!AgreeInv, Settings!Client
  <1>2. \A e \in Pair : AgreesNext(v4[e]) /\ v4[e].tag <= v5 /\ v4[e].at <= v5
    <2>1. v5 \in Nat /\ v5 + 1 \in Nat
      BY <1>0 DEF SetFacts
    <2> QED BY <1>0, <1>1, <2>1, OthersAgree DEF Settings!Agrees
  <1>3. v5 \in Nat /\ v5 + 1 \in 0..MaxStamp
    BY <1>0 DEF SetFacts
  <1>4. AgreesNext(r)
    BY <1>1, <1>2, <1>3 DEF AgreesNext
  <1>5. v2.tag \in Nat /\ v2.tag <= v5 /\ \A b \in Boxes : v1[b].tag \in Nat /\ v1[b].tag <= v5
    BY <1>0 DEF SetFacts, Settings!SettingsInv, Settings!StampInv
  <1>6. Alone(c, r)
    <2>1. \A n \in Nat : n <= v5 => n # v5 + 1
      BY <1>3
    <2>2. v5 + 1 # 0
      BY <1>3
    <2> QED BY <1>1, <1>2, <1>5, <2>1, <2>2 DEF Alone
  <1>7. \A e \in Pair \ {c} : v4[e].pc = "begun" =>
              /\ v4[e].at # 0 /\ v4[e].at # v2'.tag /\ v4[e].at # r.tag /\ \A b \in Boxes : v4[e].at # v1'[b].tag
              /\ \A f \in Pair \ {c} : v4[f].tag # v4[e].at /\ (v4[f].pc = "begun" /\ f # e => v4[f].at # v4[e].at)
    BY DEF Settings!SettingsInv, Settings!StampInv
  <1>8. v2'.tag <= v5' /\ \A b \in Boxes : v1'[b].tag <= v5'
    BY <1>3, <1>5
  <1>9. Settings!SettingsInv'
    BY <1>0, <1>2, <1>3, <1>4, <1>6, <1>7, <1>8, ClientMoves DEF SetFacts
  <1>10. v4'[c] = r /\ \A e \in Pair \ {c} : v4'[e] = v4[e]
    BY <1>0 DEF SetFacts
  <1> QED BY <1>9, <1>10 DEF Settings!WroteWhatWasSeen

\* A client that is done holds nothing that could be wrong.
LEMMA IdleAgrees ==
    ASSUME Settings!SettingsAssumption, v5' \in Nat, NEW r \in Settings!Client, r.pc = "idle", r.tag = 0, r.at = 0, r.form = FALSE
    PROVE  AgreesNext(r)
  BY DEF AgreesNext

\* A write of a calendar or list that comes through.
LEMMA BoxKeeps ==
    ASSUME Settings!SettingsAssumption, Settings!SettingsInv, NEW c \in Pair, NEW r \in Settings!Client, v4' = [v4 EXCEPT ![c] = r],
           NEW b \in Boxes, v4[c].pc = "begun", v4[c].on = b, Settings!CheckIfMatch(c, v1[b].tag),
           v1' = [v1 EXCEPT ![b] = [@ EXCEPT !.tag = v4[c].at, !.val = v4[c].put.val]], v2' = v2, v3' = v3, v5' = v5,
           r.pc = "idle", r.tag = 0, r.at = 0, r.form = FALSE
    PROVE  Settings!SettingsInv' /\ Settings!WroteWhatWasSeen
  <1>0. SetFacts
    BY SetFactsHold DEF Settings!SettingsInv
  <1>1. \A e \in Pair : v4[e] \in Settings!Client /\ Settings!Agrees(v4[e]) /\ v4[e].tag \in Nat /\ v4[e].at \in 0..MaxStamp
    BY <1>0 DEF SetFacts, Settings!SettingsInv, Settings!AgreeInv, Settings!Client
  <1>2. /\ \A b2 \in Boxes \ {b} : v1'[b2] = v1[b2]
        /\ v1'[b].tag = v4[c].at /\ v1'[b].val = v4[c].put.val /\ v1'[b].live = v1[b].live
        /\ v1' \in [Boxes -> [live : BOOLEAN, tag : 0..MaxStamp, val : Settings!Vals]]
    <2>1. v4[c].put.val \in Settings!Vals
      BY <1>1 DEF Settings!Client, Settings!Shown
    <2> DEFINE w == [v1[b] EXCEPT !.tag = v4[c].at, !.val = v4[c].put.val]
    <2>2. v1[b] \in [live : BOOLEAN, tag : 0..MaxStamp, val : Settings!Vals] /\ v4[c].at \in 0..MaxStamp
      BY <1>0, <1>1 DEF SetFacts
    <2>3. w \in [live : BOOLEAN, tag : 0..MaxStamp, val : Settings!Vals]
          /\ w.tag = v4[c].at /\ w.val = v4[c].put.val /\ w.live = v1[b].live
      BY <2>1, <2>2
    <2>4. v1' = [v1 EXCEPT ![b] = w]
      OBVIOUS
    <2> HIDE DEF w
    <2> QED BY <1>0, <2>3, <2>4 DEF SetFacts
  <1>3. v4[c].at <= v5 /\ v5 \in Nat
    BY <1>0, <1>1 DEF SetFacts, Settings!Agrees
  <1>4. \A e \in Pair \ {c} : v4[e].tag # v4[c].at /\ (v4[e].pc = "begun" => v4[e].at # v4[c].at)
    BY DEF Settings!SettingsInv, Settings!StampInv
  <1>5. \A e \in Pair \ {c} : AgreesNext(v4[e])
    <2>1. ASSUME NEW e \in Pair \ {c} PROVE AgreesNext(v4[e])
      <3>1. Settings!Agrees(v4[e]) /\ v4[e].on \in Boxes \cup {0} /\ v4[e].tag # v4[c].at
        BY <1>1, <1>4 DEF Settings!Client
      <3> QED BY <1>2, <3>1 DEF Settings!Agrees, AgreesNext
    <2> QED BY <2>1
  <1>6. /\ v2' \in [tag : 0..MaxStamp, val : Settings!Vals, on : BOOLEAN]
        /\ v3' \in Settings!Schedules /\ v5' \in 0..MaxStamp /\ (v2'.on => v3' # Settings!NoSleep)
    BY <1>0 DEF SetFacts
  <1>7. v2'.tag <= v5' /\ \A b2 \in Boxes : v1'[b2].tag <= v5'
    BY <1>2, <1>3 DEF Settings!SettingsInv, Settings!StampInv
  <1>8. \A e \in Pair \ {c} : v4[e].pc = "begun" =>
              /\ v4[e].at # 0 /\ v4[e].at # v2'.tag /\ v4[e].at # r.tag /\ \A b2 \in Boxes : v4[e].at # v1'[b2].tag
              /\ \A f \in Pair \ {c} : v4[f].tag # v4[e].at /\ (v4[f].pc = "begun" /\ f # e => v4[f].at # v4[e].at)
    BY <1>2, <1>4 DEF Settings!SettingsInv, Settings!StampInv
  <1>9. AgreesNext(r)
    BY <1>3, IdleAgrees
  <1>10. Settings!SettingsInv'
    BY <1>0, <1>2, <1>5, <1>6, <1>7, <1>8, <1>9, ClientMoves
  <1>11. \A e \in Pair \ {c} : v4'[e] = v4[e]
    BY <1>0 DEF SetFacts
  <1>12. b # 0 /\ (v4[c].match => v1[b].val = v4[c].shown.val)
    BY <1>1 DEF Settings!SettingsAssumption, Settings!CheckIfMatch, Settings!Agrees
  <1> QED BY <1>10, <1>11, <1>12 DEF Settings!WroteWhatWasSeen

\* The window of a day, if every day has the same.
LEMMA SameEveryDay ==
    ASSUME Settings!SettingsAssumption, NEW ws \in Settings!Schedules, Settings!uniformSleep(ws)
    PROVE  \A d \in SleepDays : ws[d] = Settings!First(ws) /\ ws[d] \in Windows
  <1>1. ws \in [SleepDays -> {0} \cup Windows]
    BY DEF Settings!Schedules
  <1>2. PICK d \in SleepDays : \A e \in SleepDays : d <= e
    BY DEF Settings!SettingsAssumption
  <1>3. ws # Settings!NoSleep
    BY <1>2 DEF Settings!uniformSleep, Settings!NoSleep
  <1>4. d \in SleepDays /\ ws[d] # 0 /\ \A e \in SleepDays : e < d => ws[e] = 0
    BY <1>2 DEF Settings!uniformSleep, Settings!SettingsAssumption
  <1>5. PICK f \in SleepDays : Settings!First(ws) = ws[f]
    BY <1>3, <1>4 DEF Settings!First
  <1> QED BY <1>1, <1>5 DEF Settings!uniformSleep

\* A page that is filled in and sent back as it was keeps the hours of sleep.
LEMMA FormKeepsHours ==
    ASSUME Settings!SettingsAssumption, NEW x \in Settings!Shown, NEW v \in Settings!Vals,
           NEW p, p = Settings!ProfilePatch(Settings!ProfileValues(x), v)
    PROVE  /\ p \in Settings!Shown /\ p.val = v /\ p.on = x.on
           /\ x.sleep # Settings!NoSleep => p.sleep = x.sleep
  <1>1. x.on \in BOOLEAN /\ x.sleep \in Settings!Schedules
    BY DEF Settings!Shown
  <1>2. p = [val |-> v, on |-> x.on,
             sleep |-> IF x.sleep # Settings!NoSleep /\ ~Settings!uniformSleep(x.sleep)
                       THEN x.sleep ELSE [d \in SleepDays |-> Settings!First(x.sleep)]]
    BY DEF Settings!ProfilePatch, Settings!ProfileValues
  <1>3. CASE x.sleep # Settings!NoSleep /\ ~Settings!uniformSleep(x.sleep)
    BY <1>1, <1>2, <1>3 DEF Settings!Shown
  <1>4. CASE x.sleep = Settings!NoSleep
    <2>1. Settings!First(x.sleep) = DefaultWindow
      BY <1>4 DEF Settings!First
    <2>2. p.sleep = [d \in SleepDays |-> DefaultWindow]
      BY <1>2, <1>4, <2>1
    <2>3. p.sleep \in Settings!Schedules
      BY <2>2 DEF Settings!Schedules, Settings!SettingsAssumption
    <2> QED BY <1>1, <1>2, <1>4, <2>3 DEF Settings!Shown
  <1>5. CASE Settings!uniformSleep(x.sleep)
    <2>1. \A d \in SleepDays : x.sleep[d] = Settings!First(x.sleep)
      BY <1>1, <1>5, SameEveryDay
    <2>2. x.sleep = [d \in SleepDays |-> Settings!First(x.sleep)]
      BY <1>1, <2>1 DEF Settings!Schedules
    <2>3. p = [val |-> v, on |-> x.on, sleep |-> x.sleep]
      BY <1>2, <1>5, <2>2
    <2> QED BY <1>1, <2>3 DEF Settings!Shown
  <1> QED BY <1>3, <1>4, <1>5

\* A write of the settings that comes through.
LEMMA UserKeeps ==
    ASSUME Settings!SettingsAssumption, Settings!SettingsInv, NEW c \in Pair, NEW r \in Settings!Client, v4' = [v4 EXCEPT ![c] = r],
           v4[c].pc = "begun", v4[c].on = 0, Settings!CheckIfMatch(c, v2.tag), Settings!ValidSettings(v4[c].put),
           v2' = [tag |-> v4[c].at, val |-> v4[c].put.val, on |-> v4[c].put.on], v3' = v4[c].put.sleep,
           v1' = v1, v5' = v5, r.pc = "idle", r.tag = 0, r.at = 0, r.form = FALSE
    PROVE  Settings!SettingsInv' /\ Settings!WroteWhatWasSeen
  <1>0. SetFacts
    BY SetFactsHold DEF Settings!SettingsInv
  <1>1. \A e \in Pair : v4[e] \in Settings!Client /\ Settings!Agrees(v4[e]) /\ v4[e].at \in 0..MaxStamp
    BY <1>0 DEF SetFacts, Settings!SettingsInv, Settings!AgreeInv, Settings!Client
  <1>2. v4[c].put \in Settings!Shown /\ v4[c].shown \in Settings!Shown
    BY <1>1 DEF Settings!Client
  <1>3. v4[c].at <= v5 /\ v5 \in Nat
    BY <1>0, <1>1 DEF SetFacts, Settings!Agrees
  <1>4. \A e \in Pair \ {c} : v4[e].tag # v4[c].at /\ (v4[e].pc = "begun" => v4[e].at # v4[c].at)
    BY DEF Settings!SettingsInv, Settings!StampInv
  <1>5. \A e \in Pair \ {c} : AgreesNext(v4[e])
    <2>1. ASSUME NEW e \in Pair \ {c} PROVE AgreesNext(v4[e])
      <3>1. Settings!Agrees(v4[e]) /\ v4[e].tag # v2'.tag
        BY <1>1, <1>4
      <3> QED BY <3>1 DEF Settings!Agrees, AgreesNext
    <2> QED BY <2>1
  <1>6. /\ v1' \in [Boxes -> [live : BOOLEAN, tag : 0..MaxStamp, val : Settings!Vals]]
        /\ v2' \in [tag : 0..MaxStamp, val : Settings!Vals, on : BOOLEAN]
        /\ v3' \in Settings!Schedules /\ v5' \in 0..MaxStamp /\ (v2'.on => v3' # Settings!NoSleep)
    BY <1>0, <1>1, <1>2 DEF SetFacts, Settings!Shown, Settings!ValidSettings
  <1>7. v2'.tag <= v5' /\ \A b2 \in Boxes : v1'[b2].tag <= v5'
    BY <1>3 DEF Settings!SettingsInv, Settings!StampInv
  <1>8. \A e \in Pair \ {c} : v4[e].pc = "begun" =>
              /\ v4[e].at # 0 /\ v4[e].at # v2'.tag /\ v4[e].at # r.tag /\ \A b2 \in Boxes : v4[e].at # v1'[b2].tag
              /\ \A f \in Pair \ {c} : v4[f].tag # v4[e].at /\ (v4[f].pc = "begun" /\ f # e => v4[f].at # v4[e].at)
    BY <1>4 DEF Settings!SettingsInv, Settings!StampInv
  <1>9. AgreesNext(r)
    BY <1>3, IdleAgrees
  <1>10. Settings!SettingsInv'
    BY <1>0, <1>5, <1>6, <1>7, <1>8, <1>9, ClientMoves
  <1>11. \A e \in Pair \ {c} : v4'[e] = v4[e]
    BY <1>0 DEF SetFacts
  <1>12. ASSUME v4[c].match PROVE v4[c].shown = [val |-> v2.val, on |-> v2.on, sleep |-> v3]
    <2>1. v4[c].shown.val = v2.val /\ v4[c].shown.on = v2.on /\ v4[c].shown.sleep = v3
      BY <1>1, <1>12 DEF Settings!CheckIfMatch, Settings!Agrees
    <2> QED BY <1>2, <2>1 DEF Settings!Shown
  <1>13. ASSUME v4[c].form, v4[c].shown.on = v2.on, v4[c].shown.sleep = v3
         PROVE  Settings!Effective(v2', v3') = Settings!Effective(v2, v3)
    <2>1. v4[c].put = Settings!ProfilePatch(Settings!ProfileValues(v4[c].shown), v4[c].put.val)
      BY <1>1, <1>13 DEF Settings!Agrees
    <2>2. v4[c].put.on = v2.on /\ (v3 # Settings!NoSleep => v4[c].put.sleep = v3)
      <3>1. v4[c].put.val \in Settings!Vals
        BY <1>2 DEF Settings!Shown
      <3> QED BY <1>2, <1>13, <2>1, <3>1, FormKeepsHours
    <2> QED BY <1>0, <2>2 DEF Settings!Effective, SetFacts
  <1> QED BY <1>10, <1>11, <1>12, <1>13 DEF Settings!WroteWhatWasSeen

\* A step that writes nothing a tag is about, and lets its client go: the other clients are
\* shown no box whose tag changes.
LEMMA BoxesMove ==
    ASSUME Settings!SettingsAssumption, Settings!SettingsInv, NEW c \in Pair, NEW r \in Settings!Client, v4' = [v4 EXCEPT ![c] = r],
           v1' \in [Boxes -> [live : BOOLEAN, tag : 0..MaxStamp, val : Settings!Vals]],
           v2' = v2, v3' = v3, v5' \in 0..MaxStamp, v5 <= v5',
           \A b \in Boxes : \/ v1'[b].tag = v1[b].tag /\ v1'[b].val = v1[b].val
                            \/ v1'[b].tag = v5' /\ v5' = v5 + 1,
           r.pc = "idle", r.tag = 0, r.at = 0, r.form = FALSE, r.last # "saved"
    PROVE  Settings!SettingsInv' /\ Settings!WroteWhatWasSeen
  <1>0. SetFacts
    BY SetFactsHold DEF Settings!SettingsInv
  <1>1. \A e \in Pair : /\ v4[e] \in Settings!Client /\ Settings!Agrees(v4[e]) /\ v4[e].on \in Boxes \cup {0}
                        /\ v4[e].tag \in Nat /\ v4[e].at \in Nat /\ v4[e].tag <= v5 /\ v4[e].at <= v5
    BY <1>0 DEF SetFacts, Settings!SettingsInv, Settings!AgreeInv, Settings!Client, Settings!Agrees
  <1>2. v5 \in Nat /\ v5' \in Nat /\ \A b \in Boxes : v1[b].tag \in Nat /\ v1[b].tag <= v5
    BY <1>0 DEF SetFacts, Settings!SettingsInv, Settings!StampInv
  <1>3. \A n \in Nat : n <= v5 => n <= v5' /\ n # v5 + 1
    BY <1>2
  <1>4. \A e \in Pair \ {c} : AgreesNext(v4[e])
    <2>1. ASSUME NEW e \in Pair \ {c} PROVE AgreesNext(v4[e])
      <3>1. v4[e].tag <= v5' /\ v4[e].at <= v5' /\ v4[e].tag # v5 + 1
        BY <1>1, <1>3
      <3>2. ASSUME v4[e].on # 0 PROVE v1'[v4[e].on] = v1'[v4[e].on] /\ (v1'[v4[e].on].tag = v4[e].tag =>
                /\ v1'[v4[e].on].tag = v1[v4[e].on].tag /\ v1'[v4[e].on].val = v1[v4[e].on].val)
        BY <1>1, <3>1, <3>2
      <3> QED BY <1>1, <3>1, <3>2 DEF Settings!Agrees, AgreesNext
    <2> QED BY <2>1
  <1>6. /\ v2' \in [tag : 0..MaxStamp, val : Settings!Vals, on : BOOLEAN]
        /\ v3' \in Settings!Schedules /\ (v2'.on => v3' # Settings!NoSleep)
    BY <1>0 DEF SetFacts
  <1>7. v2'.tag <= v5' /\ \A b \in Boxes : v1'[b].tag <= v5'
    <2>1. v2.tag \in Nat /\ v2.tag <= v5
      BY <1>0 DEF SetFacts, Settings!SettingsInv, Settings!StampInv
    <2>2. v5' <= v5'
      BY <1>2
    <2> QED BY <1>2, <1>3, <2>1, <2>2
  <1>8. \A e \in Pair \ {c} : v4[e].pc = "begun" =>
              /\ v4[e].at # 0 /\ v4[e].at # v2'.tag /\ v4[e].at # r.tag /\ \A b \in Boxes : v4[e].at # v1'[b].tag
              /\ \A f \in Pair \ {c} : v4[f].tag # v4[e].at /\ (v4[f].pc = "begun" /\ f # e => v4[f].at # v4[e].at)
    <2>1. \A e \in Pair : v4[e].at # v5 + 1
      BY <1>1, <1>3
    <2> QED BY <2>1 DEF Settings!SettingsInv, Settings!StampInv
  <1>9. AgreesNext(r)
    BY <1>2, IdleAgrees
  <1>10. Settings!SettingsInv'
    BY <1>0, <1>4, <1>6, <1>7, <1>8, <1>9, ClientMoves
  <1>11. v4'[c] = r /\ \A e \in Pair \ {c} : v4'[e] = v4[e]
    BY <1>0 DEF SetFacts
  <1> QED BY <1>10, <1>11 DEF Settings!WroteWhatWasSeen

-----------------------------------------------------------------------------
(* The actions. *)

LEMMA LoadKeeps ==
    ASSUME Settings!SettingsAssumption, Settings!SettingsInv, NEW c \in Pair, NEW b \in Boxes, Settings!Load(c, b)
    PROVE  Settings!SettingsInv' /\ Settings!WroteWhatWasSeen
  <1> DEFINE f == Settings!Free
             r == [f EXCEPT !.pc = "shown", !.on = b, !.tag = v1[b].tag, !.shown.val = v1[b].val]
  <1>0. SetFacts
    BY SetFactsHold DEF Settings!SettingsInv
  <1>1. f \in Settings!Client /\ f.shown \in Settings!Shown /\ f.at = 0 /\ f.form = FALSE /\ f.last = "none"
    BY NothingHeld
  <1>2. v4' = [v4 EXCEPT ![c] = r] /\ v1' = v1 /\ v2' = v2 /\ v3' = v3 /\ v5' = v5
    BY DEF Settings!Load, Settings!With
  <1> HIDE DEF f
  <1>3. v1[b].tag \in 0..MaxStamp /\ v1[b].val \in Settings!Vals
    BY <1>0 DEF SetFacts
  <1>4. r \in Settings!Client /\ r.pc = "shown" /\ r.on = b /\ r.tag = v1[b].tag /\ r.shown.val = v1[b].val
        /\ r.at = 0 /\ r.form = FALSE /\ r.last = "none"
    <2> DEFINE s == [f.shown EXCEPT !.val = v1[b].val]
    <2>1. s \in Settings!Shown /\ s.val = v1[b].val
      BY <1>1, <1>3 DEF Settings!Shown
    <2>2. r = [f EXCEPT !.pc = "shown", !.on = b, !.tag = v1[b].tag, !.shown = s]
      BY <1>1 DEF Settings!Client
    <2> HIDE DEF s, r
    <2> QED BY <1>1, <1>3, <2>1, <2>2 DEF Settings!Client
  <1> HIDE DEF r
  <1>5. v1[b].tag <= v5 /\ 0 <= v5
    BY <1>0 DEF SetFacts, Settings!SettingsInv, Settings!StampInv
  <1>6. Settings!Agrees(r)
    BY <1>4, <1>5 DEF Settings!Agrees, Settings!SettingsAssumption
  <1>7. \A e \in Pair \ {c} : v4[e].pc = "begun" => v4[e].at # r.tag
    BY <1>4 DEF Settings!SettingsInv, Settings!StampInv
  <1> QED BY <1>2, <1>4, <1>6, <1>7, ReadKeeps

LEMMA GetUserKeeps ==
    ASSUME Settings!SettingsAssumption, Settings!SettingsInv, NEW c \in Pair, Settings!GetUser(c)
    PROVE  Settings!SettingsInv' /\ Settings!WroteWhatWasSeen
  <1> DEFINE f == Settings!Free
             r == [f EXCEPT !.pc = "reading", !.tag = v2.tag, !.shown.val = v2.val, !.shown.on = v2.on]
  <1>0. SetFacts
    BY SetFactsHold DEF Settings!SettingsInv
  <1>1. f \in Settings!Client /\ f.shown \in Settings!Shown /\ f.at = 0 /\ f.form = FALSE /\ f.last = "none" /\ f.on = 0
    BY NothingHeld
  <1>2. v4' = [v4 EXCEPT ![c] = r] /\ v1' = v1 /\ v2' = v2 /\ v3' = v3 /\ v5' = v5
    BY DEF Settings!GetUser, Settings!With
  <1> HIDE DEF f
  <1>3. v2.tag \in 0..MaxStamp /\ v2.val \in Settings!Vals /\ v2.on \in BOOLEAN
    BY <1>0 DEF SetFacts
  <1>4. r \in Settings!Client /\ r.pc = "reading" /\ r.on = 0 /\ r.tag = v2.tag /\ r.shown.val = v2.val /\ r.shown.on = v2.on
        /\ r.at = 0 /\ r.form = FALSE /\ r.last = "none"
    <2> DEFINE s == [f.shown EXCEPT !.val = v2.val, !.on = v2.on]
    <2>1. s \in Settings!Shown /\ s.val = v2.val /\ s.on = v2.on
      BY <1>1, <1>3 DEF Settings!Shown
    <2>2. r = [f EXCEPT !.pc = "reading", !.tag = v2.tag, !.shown = s]
      BY <1>1 DEF Settings!Client
    <2> HIDE DEF s, r
    <2> QED BY <1>1, <1>3, <2>1, <2>2 DEF Settings!Client
  <1> HIDE DEF r
  <1>5. v2.tag <= v5 /\ 0 <= v5
    BY <1>0 DEF SetFacts, Settings!SettingsInv, Settings!StampInv
  <1>6. Settings!Agrees(r)
    BY <1>4, <1>5 DEF Settings!Agrees
  <1>7. \A e \in Pair \ {c} : v4[e].pc = "begun" => v4[e].at # r.tag
    BY <1>4 DEF Settings!SettingsInv, Settings!StampInv
  <1> QED BY <1>2, <1>4, <1>6, <1>7, ReadKeeps

LEMMA GetSleepKeeps ==
    ASSUME Settings!SettingsAssumption, Settings!SettingsInv, NEW c \in Pair, Settings!GetSleep(c)
    PROVE  Settings!SettingsInv' /\ Settings!WroteWhatWasSeen
  <1> DEFINE f == v4[c]
             r == [f EXCEPT !.pc = "shown", !.shown.sleep = v3]
  <1>0. SetFacts
    BY SetFactsHold DEF Settings!SettingsInv
  <1>1. f \in Settings!Client /\ f.shown \in Settings!Shown /\ Settings!Agrees(f) /\ f.pc = "reading"
    BY <1>0 DEF SetFacts, Settings!Client, Settings!SettingsInv, Settings!AgreeInv, Settings!GetSleep
  <1>2. v4' = [v4 EXCEPT ![c] = r] /\ v1' = v1 /\ v2' = v2 /\ v3' = v3 /\ v5' = v5
    BY DEF Settings!GetSleep, Settings!SleepSchedule, Settings!With
  <1>7. \A e \in Pair \ {c} : v4[e].pc = "begun" => v4[e].at # f.tag
    BY DEF Settings!SettingsInv, Settings!StampInv
  <1> HIDE DEF f
  <1>3. v3 \in Settings!Schedules
    BY <1>0 DEF SetFacts
  <1>4. /\ r \in Settings!Client /\ r.pc = "shown" /\ r.on = f.on /\ r.tag = f.tag /\ r.at = f.at /\ r.form = f.form /\ r.last = f.last
        /\ r.shown.val = f.shown.val /\ r.shown.on = f.shown.on /\ r.shown.sleep = v3
    <2> DEFINE s == [f.shown EXCEPT !.sleep = v3]
    <2>1. s \in Settings!Shown /\ s.val = f.shown.val /\ s.on = f.shown.on /\ s.sleep = v3
      BY <1>1, <1>3 DEF Settings!Shown
    <2>2. r = [f EXCEPT !.pc = "shown", !.shown = s]
      BY <1>1 DEF Settings!Client
    <2> HIDE DEF s, r
    <2> QED BY <1>1, <2>1, <2>2 DEF Settings!Client
  <1> HIDE DEF r
  <1>6. Settings!Agrees(r)
    BY <1>1, <1>4 DEF Settings!Agrees
  <1> QED BY <1>1, <1>2, <1>4, <1>6, <1>7, ReadKeeps

\* A client that is done holds nothing.
LEMMA DoneIs ==
    ASSUME Settings!SettingsAssumption, NEW c \in Pair, NEW how \in {"none", "saved", "refused"}, Settings!Done(c, how)
    PROVE  \E r \in Settings!Client : /\ v4' = [v4 EXCEPT ![c] = r]
                                      /\ r.pc = "idle" /\ r.on = 0 /\ r.tag = 0 /\ r.at = 0 /\ r.form = FALSE /\ r.last = how
  <1> DEFINE f == Settings!Free
             r == [f EXCEPT !.last = how]
  <1>1. f \in Settings!Client /\ f.pc = "idle" /\ f.on = 0 /\ f.tag = 0 /\ f.at = 0 /\ f.form = FALSE
    BY NothingHeld
  <1>2. v4' = [v4 EXCEPT ![c] = r]
    BY DEF Settings!Done, Settings!With
  <1> HIDE DEF f
  <1>3. r \in Settings!Client /\ r.pc = "idle" /\ r.on = 0 /\ r.tag = 0 /\ r.at = 0 /\ r.form = FALSE /\ r.last = how
    BY <1>1 DEF Settings!Client
  <1> QED BY <1>2, <1>3

\* A transaction of a client begins with what it will write.
LEMMA BeginsKeep ==
    ASSUME Settings!SettingsAssumption, Settings!SettingsInv, NEW c \in Pair, NEW q \in Settings!Client,
           Settings!Begin(c, q), q.on = v4[c].on, q.tag = v4[c].tag, q.shown = v4[c].shown,
           q.form /\ q.on = 0 => q.put = Settings!ProfilePatch(Settings!ProfileValues(q.shown), q.put.val)
    PROVE  Settings!SettingsInv' /\ Settings!WroteWhatWasSeen
  <1> DEFINE r == [q EXCEPT !.pc = "begun", !.at = v5 + 1]
  <1>0. SetFacts
    BY SetFactsHold DEF Settings!SettingsInv
  <1>1. v4[c].pc = "shown" /\ v5 < MaxStamp /\ v5' = v5 + 1 /\ v1' = v1 /\ v2' = v2 /\ v3' = v3 /\ v4' = [v4 EXCEPT ![c] = r]
    BY DEF Settings!Begin, Settings!With
  <1>2. v5 + 1 \in 0..MaxStamp /\ MaxStamp \in Nat
    BY <1>0, <1>1 DEF SetFacts, Settings!SettingsAssumption
  <1>3. /\ r \in Settings!Client /\ r.pc = "begun" /\ r.at = v5 + 1 /\ r.on = q.on /\ r.tag = q.tag
        /\ r.shown = q.shown /\ r.form = q.form /\ r.put = q.put
    BY <1>2 DEF Settings!Client
  <1> HIDE DEF r
  <1> QED BY <1>1, <1>2, <1>3, BeginKeeps

\* A client that was shown something has filled in no form.
LEMMA ShownClient ==
    ASSUME Settings!SettingsInv, NEW c \in Pair, v4[c].pc = "shown"
    PROVE  v4[c] \in Settings!Client /\ v4[c].form = FALSE /\ v4[c].shown \in Settings!Shown /\ v4[c].put \in Settings!Shown
  <1>1. v4[c] \in Settings!Client /\ Settings!Agrees(v4[c])
    BY SetFactsHold DEF SetFacts, Settings!SettingsInv, Settings!AgreeInv
  <1> QED BY <1>1 DEF Settings!Client, Settings!Agrees

LEMMA UpdateCalendarKeeps ==
    ASSUME Settings!SettingsAssumption, Settings!SettingsInv, NEW c \in Pair, NEW v \in Settings!Vals,
           Settings!updateCalendar(c, v) \/ Settings!postCalendar(c, v)
    PROVE  Settings!SettingsInv' /\ Settings!WroteWhatWasSeen
  <1> DEFINE f == v4[c]
             s == [f.put EXCEPT !.val = v]
  <1>1. v4[c].pc = "shown" /\ v4[c].on # 0
    BY DEF Settings!updateCalendar, Settings!postCalendar, Settings!Begin
  <1>2. f \in Settings!Client /\ f.put \in Settings!Shown /\ f.form = FALSE /\ f.on # 0
    BY <1>1, ShownClient
  <1>3. PICK match \in BOOLEAN, form \in BOOLEAN :
           Settings!Begin(c, [f EXCEPT !.put.val = v, !.match = match, !.form = form])
    <2>1. CASE Settings!postCalendar(c, v)
      BY <2>1 DEF Settings!postCalendar
    <2>2. ASSUME NEW match \in BOOLEAN, Settings!Begin(c, [f EXCEPT !.put.val = v, !.match = match])
          PROVE  Settings!Begin(c, [f EXCEPT !.put.val = v, !.match = match, !.form = FALSE])
      <3> HIDE DEF f
      <3>1. [f EXCEPT !.put.val = v, !.match = match] = [f EXCEPT !.put.val = v, !.match = match, !.form = FALSE]
        BY <1>2 DEF Settings!Client
      <3> QED BY <2>2, <3>1
    <2>3. CASE Settings!updateCalendar(c, v)
      BY <2>2, <2>3 DEF Settings!updateCalendar
    <2> QED BY <2>1, <2>3
  <1> DEFINE q == [f EXCEPT !.put.val = v, !.match = match, !.form = form]
  <1>5. Settings!Begin(c, q)
    BY <1>3
  <1>6. q \in Settings!Client /\ q.on = v4[c].on /\ q.tag = v4[c].tag /\ q.shown = v4[c].shown
    <2>0. f = v4[c]
      OBVIOUS
    <2> HIDE DEF f
    <2>1. s \in Settings!Shown
      BY <1>2 DEF Settings!Shown
    <2>2. q = [f EXCEPT !.put = s, !.match = match, !.form = form]
      BY <1>2 DEF Settings!Client
    <2> HIDE DEF s, q
    <2>3. q \in Settings!Client /\ q.on = f.on /\ q.tag = f.tag /\ q.shown = f.shown
      BY <1>2, <2>1, <2>2 DEF Settings!Client
    <2> QED BY <2>0, <2>3
  <1> HIDE DEF q, f
  <1> QED BY <1>1, <1>5, <1>6, BeginsKeep

LEMMA UpdateMeKeeps ==
    ASSUME Settings!SettingsAssumption, Settings!SettingsInv, NEW c \in Pair, Settings!updateMe(c)
    PROVE  Settings!SettingsInv' /\ Settings!WroteWhatWasSeen
  <1> DEFINE f == v4[c]
  <1>1. v4[c].pc = "shown"
    BY DEF Settings!updateMe
  <1>2. f \in Settings!Client /\ f.form = FALSE
    BY <1>1, ShownClient
  <1>3. PICK match \in BOOLEAN, v \in Settings!Vals, on \in BOOLEAN, ws \in Settings!Schedules :
           Settings!Begin(c, [f EXCEPT !.put = [val |-> v, on |-> on, sleep |-> ws], !.match = match])
    BY DEF Settings!updateMe
  <1> DEFINE s == [val |-> v, on |-> on, sleep |-> ws]
             q == [f EXCEPT !.put = s, !.match = match]
  <1>4. s \in Settings!Shown
    BY DEF Settings!Shown
  <1>5. Settings!Begin(c, q)
    BY <1>3
  <1>6. q \in Settings!Client /\ q.on = v4[c].on /\ q.tag = v4[c].tag /\ q.shown = v4[c].shown /\ q.form = FALSE
    <2> HIDE DEF s
    <2> QED BY <1>2, <1>4 DEF Settings!Client
  <1> HIDE DEF q
  <1> QED BY <1>5, <1>6, BeginsKeep

LEMMA SaveProfileKeeps ==
    ASSUME Settings!SettingsAssumption, Settings!SettingsInv, NEW c \in Pair, NEW v \in Settings!Vals, Settings!saveProfile(c, v)
    PROVE  Settings!SettingsInv' /\ Settings!WroteWhatWasSeen
  <1> DEFINE f == v4[c]
             s == Settings!ProfilePatch(Settings!ProfileValues(f.shown), v)
             q == [f EXCEPT !.put = s, !.form = TRUE]
  <1>1. v4[c].pc = "shown" /\ Settings!Begin(c, q)
    BY DEF Settings!saveProfile, Settings!Begin
  <1>2. f \in Settings!Client /\ f.shown \in Settings!Shown
    BY <1>1, ShownClient
  <1>3. s \in Settings!Shown /\ s.val = v
    BY <1>2, FormKeepsHours
  <1>4. q \in Settings!Client /\ q.on = v4[c].on /\ q.tag = v4[c].tag /\ q.shown = f.shown /\ q.put = s
    <2> HIDE DEF s
    <2> QED BY <1>2, <1>3 DEF Settings!Client
  <1>5. q.put = Settings!ProfilePatch(Settings!ProfileValues(q.shown), q.put.val)
    <2>1. s = Settings!ProfilePatch(Settings!ProfileValues(f.shown), s.val)
      BY <1>3
    <2> HIDE DEF s, q
    <2> QED BY <1>4, <2>1
  <1>6. f.shown = v4[c].shown
    OBVIOUS
  <1> HIDE DEF q, s
  <1> QED BY <1>1, <1>4, <1>5, <1>6, BeginsKeep

\* A client that lets go of everything, and writes nothing.
LEMMA LetGoKeeps ==
    ASSUME Settings!SettingsAssumption, Settings!SettingsInv, NEW c \in Pair, NEW r \in Settings!Client, v4' = [v4 EXCEPT ![c] = r],
           v1' = v1, v2' = v2, v3' = v3, v5' = v5,
           r.pc \in {"idle", "counted"}, r.on = 0, r.tag = 0, r.at = 0, r.form = FALSE, r.last # "saved"
    PROVE  Settings!SettingsInv' /\ Settings!WroteWhatWasSeen
  <1>1. Settings!Agrees(r)
    BY SetFactsHold DEF Settings!Agrees, SetFacts, Settings!SettingsInv
  <1>2. \A e \in Pair \ {c} : v4[e].pc = "begun" => v4[e].at # r.tag
    BY DEF Settings!SettingsInv, Settings!StampInv
  <1> QED BY <1>1, <1>2, ReadKeeps

LEMMA UpdateBoxKeeps ==
    ASSUME Settings!SettingsAssumption, Settings!SettingsInv, NEW c \in Pair, Settings!UpdateBox(c)
    PROVE  Settings!SettingsInv' /\ Settings!WroteWhatWasSeen
  <1>0. v4[c].pc = "begun" /\ v4[c].on # 0 /\ v4[c].on \in Boxes /\ v2' = v2 /\ v3' = v3 /\ v5' = v5
    BY SetFactsHold DEF Settings!UpdateBox, SetFacts, Settings!SettingsInv, Settings!Client
  <1>1. ASSUME v1' = [v1 EXCEPT ![v4[c].on] = [@ EXCEPT !.tag = v4[c].at, !.val = v4[c].put.val]],
               Settings!CheckIfMatch(c, v1[v4[c].on].tag), Settings!Done(c, "saved")
        PROVE  Settings!SettingsInv' /\ Settings!WroteWhatWasSeen
    <2>1. PICK r \in Settings!Client : /\ v4' = [v4 EXCEPT ![c] = r]
                                       /\ r.pc = "idle" /\ r.tag = 0 /\ r.at = 0 /\ r.form = FALSE
      BY <1>1, DoneIs
    <2> QED BY <1>0, <1>1, <2>1, BoxKeeps
  <1>2. ASSUME v1' = v1, Settings!Done(c, "refused") PROVE Settings!SettingsInv' /\ Settings!WroteWhatWasSeen
    <2>1. PICK r \in Settings!Client : /\ v4' = [v4 EXCEPT ![c] = r]
                                       /\ r.pc = "idle" /\ r.on = 0 /\ r.tag = 0 /\ r.at = 0 /\ r.form = FALSE /\ r.last = "refused"
      BY <1>2, DoneIs
    <2> QED BY <1>0, <1>2, <2>1, LetGoKeeps
  <1> QED BY <1>1, <1>2 DEF Settings!UpdateBox

LEMMA UpdateSettingsKeeps ==
    ASSUME Settings!SettingsAssumption, Settings!SettingsInv, NEW c \in Pair, Settings!UpdateSettings(c)
    PROVE  Settings!SettingsInv' /\ Settings!WroteWhatWasSeen
  <1>0. v4[c].pc = "begun" /\ v4[c].on = 0 /\ v1' = v1 /\ v5' = v5
    BY DEF Settings!UpdateSettings
  <1>1. ASSUME v2' = [tag |-> v4[c].at, val |-> v4[c].put.val, on |-> v4[c].put.on], v3' = v4[c].put.sleep,
               Settings!CheckIfMatch(c, v2.tag), Settings!ValidSettings(v4[c].put), Settings!Done(c, "saved")
        PROVE  Settings!SettingsInv' /\ Settings!WroteWhatWasSeen
    <2>1. PICK r \in Settings!Client : /\ v4' = [v4 EXCEPT ![c] = r]
                                       /\ r.pc = "idle" /\ r.tag = 0 /\ r.at = 0 /\ r.form = FALSE
      BY <1>1, DoneIs
    <2> QED BY <1>0, <1>1, <2>1, UserKeeps
  <1>2. ASSUME v2' = v2, v3' = v3, Settings!Done(c, "refused") PROVE Settings!SettingsInv' /\ Settings!WroteWhatWasSeen
    <2>1. PICK r \in Settings!Client : /\ v4' = [v4 EXCEPT ![c] = r]
                                       /\ r.pc = "idle" /\ r.on = 0 /\ r.tag = 0 /\ r.at = 0 /\ r.form = FALSE /\ r.last = "refused"
      BY <1>2, DoneIs
    <2> QED BY <1>0, <1>2, <2>1, LetGoKeeps
  <1> QED BY <1>1, <1>2 DEF Settings!UpdateSettings

LEMMA CountKeeps ==
    ASSUME Settings!SettingsAssumption, Settings!SettingsInv, NEW c \in Pair, Settings!CountBoxes(c)
    PROVE  Settings!SettingsInv' /\ Settings!WroteWhatWasSeen
  <1> DEFINE f == Settings!Free
             r == [f EXCEPT !.pc = "counted"]
  <1>1. f \in Settings!Client /\ f.on = 0 /\ f.tag = 0 /\ f.at = 0 /\ f.form = FALSE /\ f.last = "none"
    BY NothingHeld
  <1>2. v4' = [v4 EXCEPT ![c] = r] /\ v1' = v1 /\ v2' = v2 /\ v3' = v3 /\ v5' = v5
    BY DEF Settings!CountBoxes, Settings!With
  <1> HIDE DEF f
  <1>3. r \in Settings!Client /\ r.pc = "counted" /\ r.on = 0 /\ r.tag = 0 /\ r.at = 0 /\ r.form = FALSE /\ r.last = "none"
    BY <1>1 DEF Settings!Client
  <1> HIDE DEF r
  <1> QED BY <1>2, <1>3, LetGoKeeps

LEMMA InsertKeeps ==
    ASSUME Settings!SettingsAssumption, Settings!SettingsInv, NEW c \in Pair, Settings!InsertBox(c)
    PROVE  Settings!SettingsInv' /\ Settings!WroteWhatWasSeen
  <1>0. SetFacts /\ v5 \in Nat /\ v5 < MaxStamp /\ v5' = v5 + 1 /\ v2' = v2 /\ v3' = v3 /\ Settings!Done(c, "none")
    BY SetFactsHold DEF Settings!InsertBox, SetFacts, Settings!SettingsInv
  <1>1. PICK b \in Boxes : v1' = [v1 EXCEPT ![b] = [live |-> TRUE, tag |-> v5 + 1, val |-> 1]]
    BY DEF Settings!InsertBox
  <1>2. v5' \in 0..MaxStamp /\ v5 <= v5'
    BY <1>0 DEF Settings!SettingsAssumption
  <1> DEFINE w == [live |-> TRUE, tag |-> v5 + 1, val |-> 1]
  <1>3. w \in [live : BOOLEAN, tag : 0..MaxStamp, val : Settings!Vals] /\ w.tag = v5'
    BY <1>0, <1>2 DEF Settings!Vals
  <1>4. v1' = [v1 EXCEPT ![b] = w]
    BY <1>1
  <1> HIDE DEF w
  <1>5. v1' \in [Boxes -> [live : BOOLEAN, tag : 0..MaxStamp, val : Settings!Vals]] /\ v1'[b] = w
        /\ \A d \in Boxes \ {b} : v1'[d] = v1[d]
    BY <1>0, <1>3, <1>4 DEF SetFacts
  <1>6. PICK r \in Settings!Client : /\ v4' = [v4 EXCEPT ![c] = r]
                                     /\ r.pc = "idle" /\ r.tag = 0 /\ r.at = 0 /\ r.form = FALSE /\ r.last = "none"
    BY <1>0, DoneIs
  <1>7. \A d \in Boxes : \/ v1'[d].tag = v1[d].tag /\ v1'[d].val = v1[d].val
                         \/ v1'[d].tag = v5' /\ v5' = v5 + 1
    BY <1>0, <1>3, <1>5
  <1> QED BY <1>0, <1>2, <1>5, <1>6, <1>7, BoxesMove

LEMMA DeleteKeeps ==
    ASSUME Settings!SettingsAssumption, Settings!SettingsInv, NEW c \in Pair, NEW match, Settings!DeleteBox(c, match)
    PROVE  Settings!SettingsInv' /\ Settings!WroteWhatWasSeen
  <1>0. SetFacts /\ v5 \in Nat /\ v5' = v5 /\ v5 \in 0..MaxStamp /\ v2' = v2 /\ v3' = v3 /\ Settings!Done(c, "none")
        /\ v4[c].on \in Boxes
    BY SetFactsHold DEF Settings!DeleteBox, SetFacts, Settings!SettingsInv, Settings!Client
  <1>1. v1' = v1 \/ v1' = [v1 EXCEPT ![v4[c].on].live = FALSE]
    BY DEF Settings!DeleteBox
  <1>2. v1' \in [Boxes -> [live : BOOLEAN, tag : 0..MaxStamp, val : Settings!Vals]]
        /\ \A d \in Boxes : v1'[d].tag = v1[d].tag /\ v1'[d].val = v1[d].val
    <2> DEFINE w == [v1[v4[c].on] EXCEPT !.live = FALSE]
    <2>1. v1' = v1 \/ v1' = [v1 EXCEPT ![v4[c].on] = w]
      BY <1>1
    <2>2. v1[v4[c].on] \in [live : BOOLEAN, tag : 0..MaxStamp, val : Settings!Vals]
      BY <1>0 DEF SetFacts
    <2>3. w \in [live : BOOLEAN, tag : 0..MaxStamp, val : Settings!Vals]
          /\ w.tag = v1[v4[c].on].tag /\ w.val = v1[v4[c].on].val
      BY <2>2
    <2> HIDE DEF w
    <2> QED BY <1>0, <2>1, <2>3 DEF SetFacts
  <1>3. PICK r \in Settings!Client : /\ v4' = [v4 EXCEPT ![c] = r]
                                     /\ r.pc = "idle" /\ r.tag = 0 /\ r.at = 0 /\ r.form = FALSE /\ r.last = "none"
    BY <1>0, DoneIs
  <1>4. v5' \in 0..MaxStamp /\ v5 <= v5'
    BY <1>0
  <1> QED BY <1>0, <1>2, <1>3, <1>4, BoxesMove

\* Every step of calendars, lists and settings.
LEMMA SettingsKeep ==
    ASSUME Settings!SettingsAssumption, Settings!SettingsInv, [Settings!SettingsNext]_(Settings!settingsVars)
    PROVE  Settings!SettingsInv' /\ Settings!WroteWhatWasSeen
  <1>1. CASE Settings!SettingsNext
    <2>1. PICK c \in Pair :
             \/ \E b \in Boxes : Settings!Load(c, b)
             \/ Settings!GetUser(c) \/ Settings!GetSleep(c) \/ Settings!updateMe(c)
             \/ \E v \in Settings!Vals : Settings!updateCalendar(c, v) \/ Settings!postCalendar(c, v) \/ Settings!saveProfile(c, v)
             \/ Settings!UpdateBox(c) \/ Settings!UpdateSettings(c) \/ Settings!CountBoxes(c) \/ Settings!InsertBox(c)
             \/ \E match \in BOOLEAN : Settings!DeleteBox(c, match)
      BY <1>1 DEF Settings!SettingsNext, Settings!getCalendar, Settings!getTodoList, Settings!editCalendar, Settings!updateTodoList,
                  Settings!createCalendar, Settings!createTodoList, Settings!postNewCalendar, Settings!deleteCalendar,
                  Settings!deleteTodoList, Settings!postDelete
    <2> QED BY <2>1, LoadKeeps, GetUserKeeps, GetSleepKeeps, UpdateMeKeeps, UpdateCalendarKeeps, SaveProfileKeeps,
               UpdateBoxKeeps, UpdateSettingsKeeps, CountKeeps, InsertKeeps, DeleteKeeps
  <1>2. CASE UNCHANGED Settings!settingsVars
    <2>1. v1' = v1 /\ v2' = v2 /\ v3' = v3 /\ v4' = v4 /\ v5' = v5
      BY <1>2 DEF Settings!settingsVars
    <2>2. Settings!SettingsInv'
      BY <2>1 DEF Settings!SettingsInv, Settings!SettingsTypeOK, Settings!AgreeInv, Settings!Agrees, Settings!StampInv
    <2> QED BY <2>1, <2>2 DEF Settings!WroteWhatWasSeen
  <1> QED BY <1>1, <1>2

LEMMA SettingsStart ==
    ASSUME Settings!SettingsAssumption, Settings!SettingsInit PROVE Settings!SettingsInv
  <1> DEFINE f == Settings!Free
  <1>1. f \in Settings!Client /\ f.pc = "idle" /\ f.on = 0 /\ f.tag = 0 /\ f.at = 0 /\ f.form = FALSE
    BY NothingHeld
  <1>2. v4 = [c \in Pair |-> f] /\ v5 = 0 /\ v3 \in Settings!Schedules
    BY DEF Settings!SettingsInit
  <1>3. v2 \in [tag : {0}, val : {1}, on : BOOLEAN] /\ (v2.on => v3 # Settings!NoSleep)
    BY DEF Settings!SettingsInit
  <1>4. v1 \in [Boxes -> [live : BOOLEAN, tag : 0..MaxStamp, val : Settings!Vals]] /\ \A b \in Boxes : v1[b].tag = 0
    BY DEF Settings!SettingsInit, Settings!SettingsAssumption, Settings!Vals
  <1> HIDE DEF f
  <1>5. Settings!SettingsTypeOK
    BY <1>1, <1>2, <1>3, <1>4 DEF Settings!SettingsTypeOK, Settings!Vals, Settings!SettingsAssumption
  <1>6. Settings!AgreeInv
    BY <1>1, <1>2 DEF Settings!AgreeInv, Settings!Agrees
  <1>7. Settings!StampInv
    BY <1>1, <1>2, <1>3, <1>4 DEF Settings!StampInv
  <1> QED BY <1>5, <1>6, <1>7 DEF Settings!SettingsInv

\* For any boxes, clients, days and windows: a write that names the version it was shown, and
\* comes through, replaces what its client saw, in both tables of the settings, although the
\* transactions that wrote them may have got the lock in another order than they began; and a
\* profile page that is sent back as it was shown keeps the hours of sleep (CheckIfMatch,
\* UpdateSettings, profileValues, profilePatch).
THEOREM SeesWhatItReplaces == Spec => WritesWhatWasSeen
  <1> DEFINE Inv == part = "settings" => Settings!SettingsInv
             Act == part = "settings" => Settings!WroteWhatWasSeen
  <1>0. Settings!SettingsAssumption
    BY AccessAssumption
  <1>1. Init => Inv
    BY <1>0, SettingsStart DEF Init
  <1>2. Inv /\ [Next]_vars => Inv' /\ [Act]_vars
    <2>1. ASSUME Inv, [Next]_vars, part = "settings" PROVE Settings!SettingsInv' /\ Settings!WroteWhatWasSeen
      <3>1. [Settings!SettingsNext]_(Settings!settingsVars)
        BY <2>1 DEF Next, vars, Settings!settingsVars
      <3> QED BY <1>0, <2>1, <3>1, SettingsKeep
    <2>2. ASSUME [Next]_vars PROVE part' = part
      BY <2>2 DEF Next, vars
    <2> QED BY <2>1, <2>2
  <1> QED BY <1>1, <1>2, PTL DEF Spec, WritesWhatWasSeen

-----------------------------------------------------------------------------
(* Shared links.  v1 is shares, v2 cals, v3 other, v4 seq, v5 cache, v6    *)
(* views, v8 moved.                                                        *)

\* The numbers a stamp is taken of, of data that need not be those of now.
StampsOf(sh, held, todos) ==
    {todos.stamp} \cup {held[c].stamp : c \in sh.cals} \cup (IF sh.todos THEN {todos.todoStamp} ELSE {})
StampOf(sh, held, todos) ==
    CHOOSE n \in StampsOf(sh, held, todos) : \A m \in StampsOf(sh, held, todos) : m <= n

Held(n) == [live : BOOLEAN, holds : Nat, stamp : 0..n]
Rest(n) == [holds : Nat, todoStamp : 0..n, stamp : 0..n]

LEMMA StampIs ==
    ASSUME NEW sh PROVE Shares!ShareStamp(sh) = StampOf(sh, v2, v3)
  BY DEF Shares!ShareStamp, StampOf, StampsOf

LEMMA NextStampIs ==
    ASSUME NEW sh PROVE Shares!ShareStamp(sh)' = StampOf(sh, v2', v3')
  BY DEF Shares!ShareStamp, StampOf, StampsOf

\* A stamp is the greatest of its numbers.
LEMMA StampTops ==
    ASSUME NEW n \in Nat, NEW sh \in Shares!Link, NEW held \in [Cals -> Held(n)], NEW todos \in Rest(n)
    PROVE  /\ StampOf(sh, held, todos) \in 0..n
           /\ n \in StampsOf(sh, held, todos) => StampOf(sh, held, todos) = n
  <1> DEFINE R == StampsOf(sh, held, todos)
  <1>1. R \subseteq 0..n /\ R # {}
    <2>1. sh.cals \subseteq Cals /\ todos.stamp \in 0..n /\ todos.todoStamp \in 0..n
      BY DEF Shares!Link, Rest
    <2>2. \A c \in sh.cals : held[c].stamp \in 0..n
      BY <2>1 DEF Held
    <2> QED BY <2>1, <2>2 DEF StampsOf
  <1> HIDE DEF R
  <1>2. R \in SUBSET Nat /\ \A r \in R : r <= n
    BY <1>1
  <1>3. \E x \in R : \A m \in R : m <= x
    BY <1>1, <1>2, Greatest
  <1>4. PICK x \in R : x = (CHOOSE y \in R : \A m \in R : m <= y) /\ \A m \in R : m <= x
    BY <1>3
  <1>5. StampOf(sh, held, todos) = x
    BY <1>4 DEF StampOf, R
  <1> QED BY <1>1, <1>2, <1>4, <1>5 DEF R

\* The types of the tables.
ShareTables ==
    /\ v1 \in [ShareIDs -> Shares!Link] /\ v4 \in Nat /\ v2 \in [Cals -> Held(v4)] /\ v3 \in Rest(v4)
    /\ v6 \in [Viewers -> Shares!View] /\ DOMAIN v5 \subseteq Shares!Names

LEMMA ShareTablesHold ==
    ASSUME Shares!SharesAssumption, Shares!SharesTypeOK PROVE ShareTables
  BY DEF Shares!SharesTypeOK, ShareTables, Held, Rest, Shares!SharesAssumption

LEMMA NextShareTablesHold ==
    ASSUME Shares!SharesAssumption, Shares!SharesTypeOK' PROVE ShareTables'
  BY DEF Shares!SharesTypeOK, ShareTables, Held, Rest, Shares!SharesAssumption

\* What an edit may do: a version stays what it was but for the calendars that are deleted,
\* and a share that looks different has a newer version, or the newest change.
DataMoves ==
    /\ \A s \in ShareIDs :
          /\ v1[s].version <= v1'[s].version
          /\ v1'[s].version = v1[s].version =>
                /\ v1'[s].detail = v1[s].detail /\ v1'[s].todos = v1[s].todos
                /\ v1'[s].cals = {c \in v1[s].cals : v2'[c].live}
          /\ ~v8' => \/ v1'[s].version > v1[s].version
                     \/ v4' > v4 /\ StampOf(v1'[s], v2', v3') = v4'
                     \/ Shares!NameNow(s)' = Shares!NameNow(s) /\ Shares!ShownNow(s)' = Shares!ShownNow(s)
    /\ \A c \in Cals : v2'[c].live => v2[c].live
    /\ v4 <= v4' /\ (v8 => v8')

\* Requests meanwhile: some are over, some counted their visit.
ViewsRest ==
    \A v \in Viewers :
        \/ v6'[v] = v6[v]
        \/ v6'[v].pc \in {"idle", "create"}
        \/ v6'[v].pc = "show" /\ v6[v].pc = "touch" /\ v6'[v].share = v6[v].share /\ v6'[v].row = v6[v].row

LEMMA EditKeeps ==
    ASSUME Shares!SharesAssumption, Shares!SharesInv, Shares!SharesTypeOK', DataMoves, ViewsRest, v5' = v5
    PROVE  Shares!SharesInv'
  <1>0. ShareTables /\ ShareTables'
    BY ShareTablesHold, NextShareTablesHold DEF Shares!SharesInv
  <1>1. ASSUME NEW w \in Shares!View, Shares!SawShare(w) PROVE Shares!SawShare(w)'
    <2> DEFINE sh == v1[w.share]
               to == v1'[w.share]
    <2>1. /\ w.share \in ShareIDs /\ w.row \in Shares!Link /\ w.row.version <= sh.version
          /\ w.row.version = sh.version =>
                w.row.detail = sh.detail /\ w.row.todos = sh.todos /\ {c \in w.row.cals : v2[c].live} = sh.cals
      BY <1>1 DEF Shares!SawShare, Shares!View
    <2>2. sh \in Shares!Link /\ to \in Shares!Link
      BY <1>0, <2>1 DEF ShareTables
    <2>3. /\ sh.version <= to.version
          /\ to.version = sh.version => /\ to.detail = sh.detail /\ to.todos = sh.todos
                                        /\ to.cals = {c \in sh.cals : v2'[c].live}
      BY <2>1 DEF DataMoves
    <2>4. w.row.version \in Nat /\ sh.version \in Nat /\ to.version \in Nat /\ w.row.cals \subseteq Cals
      BY <2>1, <2>2 DEF Shares!Link
    <2> HIDE DEF sh, to
    <2>5. w.row.version <= to.version
      BY <2>1, <2>3, <2>4
    <2>6. ASSUME w.row.version = to.version
          PROVE  w.row.detail = to.detail /\ w.row.todos = to.todos /\ {c \in w.row.cals : v2'[c].live} = to.cals
      <3>1. to.version = sh.version /\ w.row.version = sh.version
        BY <2>1, <2>3, <2>4, <2>6
      <3>2. {c \in w.row.cals : v2'[c].live} = to.cals
        BY <2>1, <2>3, <2>4, <3>1 DEF DataMoves
      <3> QED BY <2>1, <2>3, <3>1, <3>2
    <2> QED BY <2>1, <2>5, <2>6 DEF Shares!SawShare, to
  <1>2. ASSUME NEW n \in Shares!Names, Shares!Given(n) PROVE Shares!Given(n)'
    <2>1. n.share \in ShareIDs /\ n.version <= v1[n.share].version /\ n.stamp <= v4
      BY <1>2 DEF Shares!Given
    <2>2. n.version \in Nat /\ n.stamp \in Int
      BY DEF Shares!Names, Shares!NoStamp
    <2>3. v1[n.share].version \in Nat /\ v1'[n.share].version \in Nat /\ v4 \in Nat /\ v4' \in Nat
      BY <1>0, <2>1 DEF ShareTables, Shares!Link
    <2>4. v1[n.share].version <= v1'[n.share].version /\ v4 <= v4'
      BY <2>1 DEF DataMoves
    <2>5. n.version <= v1'[n.share].version /\ n.stamp <= v4'
      BY <2>1, <2>2, <2>3, <2>4
    <2> QED BY <2>1, <2>5 DEF Shares!Given
  <1>3. ASSUME NEW n \in Shares!Names, NEW pic, ~v8', Shares!Given(n), Shares!Fits(n, pic) PROVE Shares!Fits(n, pic)'
    <2> SUFFICES ASSUME n = Shares!NameNow(n.share)' PROVE pic = Shares!ShownNow(n.share)'
      BY DEF Shares!Fits
    <2>1. n.share \in ShareIDs /\ n.version <= v1[n.share].version /\ n.stamp <= v4
      BY <1>3 DEF Shares!Given
    <2>2. n.version = v1'[n.share].version /\ n.stamp = StampOf(v1'[n.share], v2', v3')
      BY DEF Shares!NameNow, Shares!Name, Shares!ShareStamp, StampOf, StampsOf
    <2>3. v1[n.share].version \in Nat /\ v1'[n.share].version \in Nat /\ v4 \in Nat /\ v4' \in Nat
      BY <1>0, <2>1 DEF ShareTables, Shares!Link
    <2>4. Shares!NameNow(n.share)' = Shares!NameNow(n.share) /\ Shares!ShownNow(n.share)' = Shares!ShownNow(n.share)
      BY <1>3, <2>1, <2>2, <2>3 DEF DataMoves
    <2> QED BY <1>3, <2>4 DEF Shares!Fits
  <1>4. \A v \in Viewers : v6[v] \in Shares!View /\ v6[v].name \in Shares!Names
    BY <1>0 DEF ShareTables, Shares!View
  <1>5. ASSUME NEW v \in Viewers PROVE Shares!Served(v6[v])'
    <2>1. Shares!Served(v6[v])
      BY DEF Shares!SharesInv, Shares!ViewInv
    <2>2. CASE v6'[v] = v6[v]
      <3>1. Shares!Served(v6[v]) => Shares!Served(v6[v])'
        BY <1>1, <1>2, <1>4, <2>2 DEF Shares!Served, Shares!SawShare, Shares!Given
      <3> QED BY <2>1, <3>1
    <2>3. CASE v6'[v].pc \in {"idle", "create"}
      BY <2>3 DEF Shares!Served
    <2>4. CASE v6'[v].pc = "show" /\ v6[v].pc = "touch" /\ v6'[v].share = v6[v].share /\ v6'[v].row = v6[v].row
      <3>1. Shares!SawShare(v6[v])
        BY <2>1, <2>4 DEF Shares!Served
      <3>2. Shares!SawShare(v6[v])'
        BY <1>1, <1>4, <2>4, <3>1 DEF Shares!SawShare
      <3> QED BY <2>4, <3>2 DEF Shares!Served
    <2> QED BY <2>2, <2>3, <2>4 DEF ViewsRest
  <1>6. Shares!ViewInv'
    <2>1. \A n \in DOMAIN v5 : Shares!Given(n)'
      BY <1>0, <1>2 DEF Shares!SharesInv, Shares!ViewInv, ShareTables
    <2> QED BY <1>5, <2>1 DEF Shares!ViewInv
  <1>7. ASSUME ~v8' PROVE Shares!NowInv'
    <2>1. Shares!NowInv
      BY <1>7 DEF Shares!SharesInv, DataMoves
    <2>2. \A n \in DOMAIN v5 : Shares!Fits(n, v5[n])'
      <3>1. TAKE n \in DOMAIN v5
      <3>2. n \in Shares!Names /\ Shares!Given(n) /\ Shares!Fits(n, v5[n])
        BY <1>0, <2>1 DEF Shares!SharesInv, Shares!ViewInv, ShareTables, Shares!NowInv
      <3> DEFINE pic == v5[n]
      <3> HIDE DEF pic
      <3> QED BY <1>3, <1>7, <3>2 DEF Shares!Fits
    <2>3. ASSUME NEW v \in Viewers, v6'[v].pc = "put" PROVE Shares!Fits(v6[v].name, v6[v].body)'
      <3>1. v6'[v] = v6[v]
        BY <2>3 DEF ViewsRest
      <3>2. Shares!Given(v6[v].name) /\ Shares!Fits(v6[v].name, v6[v].body)
        BY <2>1, <2>3, <3>1 DEF Shares!SharesInv, Shares!ViewInv, Shares!Served, Shares!NowInv
      <3> QED BY <1>3, <1>4, <1>7, <3>1, <3>2 DEF Shares!Fits
    <2> QED BY <2>2, <2>3 DEF Shares!NowInv
  <1> QED BY <1>6, <1>7 DEF Shares!SharesInv

\* What a link shows, and its name, are pictures and names.
LEMMA PicturesTyped ==
    ASSUME ShareTables, Shares!SharesAssumption, NEW sh \in Shares!Link
    PROVE  Shares!Picture(sh, v2, v3) \in Shares!Pictures
  <1>1. sh.detail \in Details /\ sh.todos \in BOOLEAN /\ v3.holds \in Nat
    BY DEF Shares!Link, ShareTables, Rest
  <1>2. \A c \in Cals : v2[c].holds \in Nat
    BY DEF ShareTables, Held
  <1>3. [c \in Cals |-> IF c \in sh.cals THEN v2[c].holds ELSE Shares!NotShown] \in [Cals -> Nat \cup {Shares!NotShown}]
    BY <1>2
  <1> QED BY <1>1, <1>3 DEF Shares!Picture, Shares!Pictures

LEMMA WaitingTyped ==
    ASSUME Shares!SharesAssumption
    PROVE  Shares!NoLinkYet \in Shares!Link /\ Shares!Waiting \in Shares!View /\ Shares!Waiting.pc = "idle"
  <1>1. (CHOOSE d \in Details : TRUE) \in Details
    BY DEF Shares!SharesAssumption
  <1>2. Shares!NoLinkYet \in Shares!Link
    BY <1>1 DEF Shares!NoLinkYet, Shares!Link
  <1>3. Shares!NothingShown \in Shares!Pictures
    BY <1>1 DEF Shares!NothingShown, Shares!Pictures
  <1> DEFINE n == [share |-> Shares!NoShare, version |-> 0, stamp |-> Shares!NoStamp]
  <1>4. n \in Shares!Names
    BY DEF Shares!Names
  <1> HIDE DEF n
  <1> QED BY <1>2, <1>3, <1>4 DEF Shares!Waiting, Shares!View, n

\* A step of the requests alone.
LEMMA ViewKeeps ==
    ASSUME Shares!SharesAssumption, Shares!SharesInv, Shares!SharesTypeOK', UNCHANGED <<v1, v2, v3, v4, v8>>,
           \A v \in Viewers : \/ v6'[v] = v6[v]
                              \/ /\ Shares!Served(v6'[v])
                                 /\ v6'[v].pc = "put" /\ ~v8 => Shares!Fits(v6'[v].name, v6'[v].body),
           \A n \in DOMAIN v5' : \/ n \in DOMAIN v5 /\ v5'[n] = v5[n]
                                 \/ Shares!Given(n) /\ (~v8 => Shares!Fits(n, v5'[n]))
    PROVE  Shares!SharesInv'
  <1>1. \A s \in ShareIDs : Shares!NameNow(s)' = Shares!NameNow(s) /\ Shares!ShownNow(s)' = Shares!ShownNow(s)
    BY DEF Shares!NameNow, Shares!ShownNow, Shares!Name, Shares!ShareStamp, Shares!Picture
  <1>2. \A n : Shares!Given(n)' <=> Shares!Given(n)
    BY DEF Shares!Given
  <1>3. ASSUME NEW v \in Viewers PROVE Shares!Served(v6[v])'
    <2>1. Shares!Served(v6'[v])
      BY DEF Shares!SharesInv, Shares!ViewInv
    <2> QED BY <2>1 DEF Shares!Served, Shares!Given, Shares!SawShare
  <1>4. Shares!ViewInv'
    BY <1>2, <1>3 DEF Shares!SharesInv, Shares!ViewInv
  <1>5. ASSUME ~v8' PROVE Shares!NowInv'
    <2>0. Shares!NowInv /\ Shares!ViewInv
      BY <1>5 DEF Shares!SharesInv
    <2>1. ASSUME NEW n \in DOMAIN v5' PROVE Shares!Fits(n, v5[n])'
      <3>1. Shares!Fits(n, v5'[n]) /\ n.share \in ShareIDs
        BY <1>5, <2>0 DEF Shares!NowInv, Shares!ViewInv, Shares!Given
      <3> QED BY <1>1, <3>1 DEF Shares!Fits
    <2>2. ASSUME NEW v \in Viewers, v6'[v].pc = "put" PROVE Shares!Fits(v6[v].name, v6[v].body)'
      <3>1. Shares!Fits(v6'[v].name, v6'[v].body) /\ v6'[v].name.share \in ShareIDs
        BY <1>5, <2>0, <2>2 DEF Shares!NowInv, Shares!ViewInv, Shares!Given, Shares!Served
      <3> QED BY <1>1, <3>1 DEF Shares!Fits
    <2> QED BY <2>1, <2>2 DEF Shares!NowInv
  <1> QED BY <1>4, <1>5 DEF Shares!SharesInv

-----------------------------------------------------------------------------
(* Its edits. *)

ShareFacts ==
    /\ v1 \in [ShareIDs -> Shares!Link]
    /\ \A s \in ShareIDs : /\ v1[s].cals \subseteq {c \in Cals : v2[c].live}
                           /\ v1[s].st = "none" => v1[s].version = 0
    /\ v4 \in 0..MaxEdits /\ v2 \in [Cals -> Held(v4)] /\ v3 \in Rest(v4)
    /\ DOMAIN v5 \subseteq Shares!Names /\ (\A n \in DOMAIN v5 : v5[n] \in Shares!Pictures)
    /\ v6 \in [Viewers -> Shares!View] /\ v7 \in 0..MaxViews /\ v8 \in BOOLEAN
    /\ MaxEdits \in Nat /\ MaxViews \in Nat

LEMMA ShareFactsHold ==
    ASSUME Shares!SharesAssumption, Shares!SharesTypeOK PROVE ShareFacts
  BY DEF Shares!SharesTypeOK, ShareFacts, Held, Rest, Shares!SharesAssumption

LEMMA NextFactsHold ==
    ASSUME Shares!SharesAssumption, ShareFacts' PROVE Shares!SharesTypeOK'
  BY DEF Shares!SharesTypeOK, ShareFacts, Held, Rest, Shares!SharesAssumption

\* Numbers are still numbers when there are more of them.
LEMMA MoreNumbers ==
    ASSUME NEW n \in Nat, NEW held \in [Cals -> Held(n)], NEW todos \in Rest(n)
    PROVE  held \in [Cals -> Held(n + 1)] /\ todos \in Rest(n + 1)
  BY DEF Held, Rest

\* An edit that is another kind of change leaves no name of now.
LEMMA OthersMove ==
    ASSUME Shares!SharesAssumption, ShareFacts', v3'.stamp = v4', v4 < v4', NEW s \in ShareIDs
    PROVE  v4' > v4 /\ StampOf(v1'[s], v2', v3') = v4'
  <1>1. v4' \in Nat /\ v4' > v4 /\ v2' \in [Cals -> Held(v4')] /\ v3' \in Rest(v4') /\ v1'[s] \in Shares!Link
    BY DEF ShareFacts
  <1>2. v4' \in StampsOf(v1'[s], v2', v3')
    BY DEF StampsOf
  <1> QED BY <1>1, <1>2, StampTops

\* A statement that writes the row of one share and logs it, the row of a version of its own.
LEMMA WriteShareKeeps ==
    ASSUME Shares!SharesAssumption, Shares!SharesInv, Shares!MayEdit, NEW s \in ShareIDs, NEW row \in Shares!Link,
           row.version = v1[s].version + 1, row.st # "none", row.cals \subseteq {c \in Cals : v2[c].live},
           v1' = [v1 EXCEPT ![s] = row], v4' = v4 + 1, v3' = [v3 EXCEPT !.stamp = v4 + 1],
           v6' \in [Viewers -> Shares!View], ViewsRest, UNCHANGED <<v2, v5, v7, v8>>
    PROVE  Shares!SharesInv'
  <1>1. ShareFacts
    BY ShareFactsHold DEF Shares!SharesInv
  <1>2. v4 \in Nat /\ v4' \in 0..MaxEdits /\ v4 < v4'
    BY <1>1 DEF ShareFacts, Shares!MayEdit
  <1>3. v2' \in [Cals -> Held(v4')] /\ v3 \in Rest(v4')
    BY <1>1, <1>2, MoreNumbers DEF ShareFacts
  <1>4. v3' \in Rest(v4') /\ v3'.stamp = v4'
    BY <1>2, <1>3 DEF Rest
  <1>5. v1' \in [ShareIDs -> Shares!Link] /\ \A t \in ShareIDs : v1'[t] = IF t = s THEN row ELSE v1[t]
    BY <1>1 DEF ShareFacts
  <1>6. ShareFacts'
    BY <1>1, <1>2, <1>3, <1>4, <1>5 DEF ShareFacts
  <1>7. DataMoves
    <2>1. ASSUME NEW t \in ShareIDs
          PROVE  /\ v1[t].version <= v1'[t].version
                 /\ v1'[t].version = v1[t].version =>
                       /\ v1'[t].detail = v1[t].detail /\ v1'[t].todos = v1[t].todos
                       /\ v1'[t].cals = {c \in v1[t].cals : v2'[c].live}
      <3>1. v1[t].version \in Nat /\ v1[s].version \in Nat
        BY <1>1 DEF ShareFacts, Shares!Link
      <3>2. v1[t].cals = {c \in v1[t].cals : v2[c].live}
        BY <1>1 DEF ShareFacts
      <3> QED BY <1>5, <3>1, <3>2
    <2>2. \A t \in ShareIDs : v4' > v4 /\ StampOf(v1'[t], v2', v3') = v4'
      BY <1>2, <1>4, <1>6, OthersMove
    <2> QED BY <1>2, <2>1, <2>2 DEF DataMoves
  <1>8. Shares!SharesTypeOK'
    BY <1>6, NextFactsHold
  <1> QED BY <1>7, <1>8, EditKeeps

LEMMA SaveShareKeeps ==
    ASSUME Shares!SharesAssumption, Shares!SharesInv, Shares!MayEdit, NEW s \in ShareIDs, NEW row \in Shares!Link,
           row.version = v1[s].version, row.st # "none", row.cals \subseteq {c \in Cals : v2[c].live},
           Shares!SaveShare(s, row)
    PROVE  Shares!SharesInv'
  <1> DEFINE r == [row EXCEPT !.version = @ + 1]
  <1>1. /\ r \in Shares!Link /\ r.version = v1[s].version + 1 /\ r.st # "none"
        /\ r.cals \subseteq {c \in Cals : v2[c].live}
    BY DEF Shares!Link
  <1>2. /\ v1' = [v1 EXCEPT ![s] = r] /\ v4' = v4 + 1 /\ v3' = [v3 EXCEPT !.stamp = v4 + 1]
        /\ UNCHANGED <<v2, v5, v6, v7, v8>>
    BY DEF Shares!SaveShare
  <1> HIDE DEF r
  <1>3. v6' \in [Viewers -> Shares!View] /\ ViewsRest
    BY <1>2 DEF ViewsRest, Shares!SharesInv, Shares!SharesTypeOK
  <1> QED BY <1>1, <1>2, <1>3, WriteShareKeeps

LEMMA SharesCount ==
    ASSUME NEW S PROVE (Shares!IsFiniteSet(S) <=> IsFiniteSet(S)) /\ Shares!Cardinality(S) = Cardinality(S)
  BY DEF Shares!IsFiniteSet, IsFiniteSet, Shares!Cardinality, Cardinality

LEMMA NewTokenTyped ==
    ASSUME Shares!SharesAssumption, Shares!SharesTypeOK PROVE Shares!NewToken \in Nat
  <1> DEFINE S == {s \in ShareIDs : v1[s].st # "none"}
  <1>1. S \in SUBSET ShareIDs /\ IsFiniteSet(ShareIDs)
    BY SharesCount DEF Shares!SharesAssumption
  <1>2. Shares!NewToken = 1 + Cardinality(S) + v4
    BY SharesCount DEF Shares!NewToken
  <1>3. v4 \in Nat
    BY DEF Shares!SharesTypeOK, Shares!SharesAssumption
  <1> HIDE DEF S
  <1>4. Cardinality(S) \in Nat
    BY <1>1, FS_Subset, FS_CardinalityType
  <1> QED BY <1>2, <1>3, <1>4

LEMMA UpdateShareKeeps ==
    ASSUME Shares!SharesAssumption, Shares!SharesInv, NEW s \in ShareIDs, Shares!WebUpdate(s) \/ Shares!APIUpdate(s)
    PROVE  Shares!SharesInv'
  <1>1. v1[s] \in Shares!Link /\ v1[s].cals \subseteq {c \in Cals : v2[c].live}
    BY DEF Shares!SharesInv, Shares!SharesTypeOK
  <1>2. PICK p \in [cals : SUBSET {c \in Cals : v2[c].live}, todos : BOOLEAN, detail : Details] :
            /\ Shares!MayEdit /\ Shares!Active(s)
            /\ Shares!SaveShare(s, [v1[s] EXCEPT !.cals = p.cals, !.todos = p.todos, !.detail = p.detail])
    <2>1. v1[s].cals \in SUBSET {c \in Cals : v2[c].live} /\ v1[s].detail \in Details
      BY <1>1 DEF Shares!Link
    <2>2. CASE Shares!WebUpdate(s)
      BY <2>2 DEF Shares!WebUpdate, Shares!UpdateShare, Shares!SharePatch, Shares!CalendarIDs
    <2>3. CASE Shares!APIUpdate(s)
      BY <2>1, <2>3 DEF Shares!APIUpdate, Shares!UpdateShare, Shares!Merged, Shares!CalendarIDs
    <2> QED BY <2>2, <2>3
  <1> DEFINE row == [v1[s] EXCEPT !.cals = p.cals, !.todos = p.todos, !.detail = p.detail]
  <1>3. row \in Shares!Link /\ row.version = v1[s].version /\ row.st = v1[s].st /\ row.cals \subseteq {c \in Cals : v2[c].live}
    BY <1>1 DEF Shares!Link
  <1>4. Shares!SaveShare(s, row) /\ Shares!MayEdit /\ v1[s].st = "active"
    BY <1>2 DEF Shares!Active
  <1> HIDE DEF row
  <1> QED BY <1>3, <1>4, SaveShareKeeps

LEMMA EndShareKeeps ==
    ASSUME Shares!SharesAssumption, Shares!SharesInv, NEW s \in ShareIDs,
           \/ Shares!WebRegenerate(s) \/ Shares!APIRegenerate(s) \/ Shares!WebRevoke(s) \/ Shares!APIRevoke(s)
    PROVE  Shares!SharesInv'
  <1>1. v1[s] \in Shares!Link /\ v1[s].cals \subseteq {c \in Cals : v2[c].live} /\ Shares!NewToken \in Nat
    BY NewTokenTyped DEF Shares!SharesInv, Shares!SharesTypeOK
  <1>2. CASE Shares!Regenerate(s)
    <2> DEFINE row == [v1[s] EXCEPT !.token = Shares!NewToken]
    <2>1. /\ row \in Shares!Link /\ row.version = v1[s].version /\ row.st = v1[s].st
          /\ row.cals \subseteq {c \in Cals : v2[c].live}
      BY <1>1 DEF Shares!Link
    <2>2. Shares!MayEdit /\ v1[s].st = "active" /\ Shares!SaveShare(s, row)
      BY <1>2 DEF Shares!Regenerate, Shares!Active
    <2> HIDE DEF row
    <2> QED BY <2>1, <2>2, SaveShareKeeps
  <1>3. CASE Shares!Revoke(s)
    <2> DEFINE row == [v1[s] EXCEPT !.st = "revoked"]
    <2>1. /\ row \in Shares!Link /\ row.version = v1[s].version /\ row.st # "none"
          /\ row.cals \subseteq {c \in Cals : v2[c].live}
      BY <1>1 DEF Shares!Link
    <2>2. Shares!MayEdit /\ Shares!SaveShare(s, row)
      BY <1>3 DEF Shares!Revoke
    <2> HIDE DEF row
    <2> QED BY <2>1, <2>2, SaveShareKeeps
  <1> QED BY <1>2, <1>3 DEF Shares!WebRegenerate, Shares!APIRegenerate, Shares!WebRevoke, Shares!APIRevoke

LEMMA CreateShareKeeps ==
    ASSUME Shares!SharesAssumption, Shares!SharesInv, NEW v \in Viewers,
           Shares!WebCreate(v) \/ Shares!Quick(v) \/ Shares!APICreate(v)
    PROVE  Shares!SharesInv'
  <1>1. PICK s \in ShareIDs, p \in [cals : SUBSET {c \in Cals : v2[c].live}, todos : BOOLEAN, detail : Details] :
            /\ Shares!MayEdit /\ v1[s].st = "none"
            /\ v1' = [v1 EXCEPT ![s] = [st |-> "active", detail |-> p.detail, cals |-> p.cals,
                         todos |-> p.todos, token |-> Shares!NewToken, version |-> 1, hits |-> 0]]
            /\ v6' = [v6 EXCEPT ![v] = Shares!Waiting]
            /\ v4' = v4 + 1 /\ v3' = [v3 EXCEPT !.stamp = v4 + 1] /\ UNCHANGED <<v2, v5, v7, v8>>
    BY DEF Shares!WebCreate, Shares!Quick, Shares!APICreate, Shares!CreateShare, Shares!SharePatch, Shares!CalendarIDs
  <1> DEFINE row == [st |-> "active", detail |-> p.detail, cals |-> p.cals, todos |-> p.todos,
                     token |-> Shares!NewToken, version |-> 1, hits |-> 0]
  <1>2. Shares!NewToken \in Nat /\ v1[s].version = 0 /\ v6 \in [Viewers -> Shares!View]
    BY <1>1, NewTokenTyped DEF Shares!SharesInv, Shares!SharesTypeOK
  <1>3. row \in Shares!Link /\ row.version = v1[s].version + 1 /\ row.st # "none" /\ row.cals \subseteq {c \in Cals : v2[c].live}
    BY <1>2 DEF Shares!Link
  <1>4. v1' = [v1 EXCEPT ![s] = row]
    BY <1>1
  <1> HIDE DEF row
  <1>5. v6' \in [Viewers -> Shares!View] /\ ViewsRest
    BY <1>1, <1>2, WaitingTyped DEF ViewsRest
  <1> QED BY <1>1, <1>3, <1>4, <1>5, WriteShareKeeps

\* A share whose stamp is of the same numbers, and that shows the same, keeps its name.
LEMMA SameShown ==
    ASSUME NEW s \in ShareIDs, v1'[s].version = v1[s].version, v1'[s].detail = v1[s].detail,
           v1'[s].todos = v1[s].todos, v1'[s].cals = v1[s].cals,
           StampsOf(v1'[s], v2', v3') = StampsOf(v1[s], v2, v3),
           \A c \in v1[s].cals : v2'[c].holds = v2[c].holds, v1[s].todos => v3'.holds = v3.holds
    PROVE  Shares!NameNow(s)' = Shares!NameNow(s) /\ Shares!ShownNow(s)' = Shares!ShownNow(s)
  <1>1. Shares!ShareStamp(v1[s])' = Shares!ShareStamp(v1[s])
    <2>1. Shares!ShareStamp(v1[s])' = StampOf(v1'[s], v2', v3')
      BY DEF Shares!ShareStamp, StampOf, StampsOf
    <2> QED BY <2>1, StampIs DEF StampOf
  <1>2. Shares!NameNow(s)' = Shares!NameNow(s)
    BY <1>1 DEF Shares!NameNow, Shares!Name
  <1>3. \A c \in Cals : (IF c \in v1'[s].cals THEN v2'[c].holds ELSE Shares!NotShown)
                         = (IF c \in v1[s].cals THEN v2[c].holds ELSE Shares!NotShown)
    OBVIOUS
  <1>4. (IF v1'[s].todos THEN v3'.holds ELSE 0) = (IF v1[s].todos THEN v3.holds ELSE 0)
    OBVIOUS
  <1>5. [c \in Cals |-> IF c \in v1'[s].cals THEN v2'[c].holds ELSE Shares!NotShown]
        = [c \in Cals |-> IF c \in v1[s].cals THEN v2[c].holds ELSE Shares!NotShown]
    BY <1>3
  <1>6. Shares!ShownNow(s)' = Shares!ShownNow(s)
    BY <1>4, <1>5, Zenon DEF Shares!ShownNow, Shares!Picture
  <1> QED BY <1>2, <1>6

\* An edit of what links show.
LEMMA ContentKeeps ==
    ASSUME Shares!SharesAssumption, Shares!SharesInv, ShareFacts', v4' = v4 + 1, v1' = v1, v5' = v5, v6' = v6, v8 => v8',
           \A c \in Cals : v2'[c].live = v2[c].live,
           ~v8' => \A s \in ShareIDs :
               \/ v4' \in StampsOf(v1[s], v2', v3')
               \/ /\ StampsOf(v1[s], v2', v3') = StampsOf(v1[s], v2, v3)
                  /\ \A c \in v1[s].cals : v2'[c].holds = v2[c].holds
                  /\ v1[s].todos => v3'.holds = v3.holds
    PROVE  Shares!SharesInv'
  <1>1. ShareFacts /\ Shares!SharesTypeOK'
    BY ShareFactsHold, NextFactsHold DEF Shares!SharesInv
  <1>2. v4 \in Nat /\ v4' > v4 /\ v4' \in Nat
    BY <1>1 DEF ShareFacts
  <1>3. ASSUME NEW s \in ShareIDs, ~v8'
        PROVE  \/ v4' > v4 /\ StampOf(v1'[s], v2', v3') = v4'
               \/ Shares!NameNow(s)' = Shares!NameNow(s) /\ Shares!ShownNow(s)' = Shares!ShownNow(s)
    <2>1. CASE v4' \in StampsOf(v1[s], v2', v3')
      <3>1. v2' \in [Cals -> Held(v4')] /\ v3' \in Rest(v4') /\ v1[s] \in Shares!Link
        BY <1>1 DEF ShareFacts
      <3> QED BY <1>2, <2>1, <3>1, StampTops
    <2>2. CASE /\ StampsOf(v1[s], v2', v3') = StampsOf(v1[s], v2, v3)
               /\ \A c \in v1[s].cals : v2'[c].holds = v2[c].holds
               /\ v1[s].todos => v3'.holds = v3.holds
      BY <2>2, SameShown
    <2> QED BY <1>3, <2>1, <2>2
  <1>4. \A s \in ShareIDs : v1[s].cals = {c \in v1[s].cals : v2'[c].live} /\ v1[s].version \in Nat
    <2>1. ASSUME NEW s \in ShareIDs PROVE v1[s].cals = {c \in v1[s].cals : v2'[c].live} /\ v1[s].version \in Nat
      <3>1. v1[s].cals \subseteq {c \in Cals : v2[c].live} /\ v1[s] \in Shares!Link
        BY <1>1 DEF ShareFacts
      <3> QED BY <3>1 DEF Shares!Link
    <2> QED BY <2>1
  <1>5. DataMoves
    BY <1>2, <1>3, <1>4 DEF DataMoves
  <1>6. ViewsRest
    BY DEF ViewsRest
  <1> QED BY <1>1, <1>5, <1>6, EditKeeps

LEMMA EditEventKeeps ==
    ASSUME Shares!SharesAssumption, Shares!SharesInv, NEW c \in Cals, Shares!EditEvent(c)
    PROVE  Shares!SharesInv'
  <1>1. ShareFacts /\ v4 \in Nat /\ v4 < MaxEdits
    BY ShareFactsHold DEF Shares!SharesInv, Shares!EditEvent, Shares!MayEdit, ShareFacts
  <1>2. /\ v4' = v4 + 1 /\ v2' = [v2 EXCEPT ![c] = [v2[c] EXCEPT !.holds = @ + 1, !.stamp = v4 + 1]]
        /\ UNCHANGED <<v1, v3, v5, v6, v7, v8>>
    BY DEF Shares!EditEvent
  <1>3. v2 \in [Cals -> Held(v4 + 1)] /\ v3 \in Rest(v4 + 1)
    BY <1>1, MoreNumbers DEF ShareFacts
  <1> DEFINE r == [v2[c] EXCEPT !.holds = @ + 1, !.stamp = v4 + 1]
  <1>4. r \in Held(v4 + 1) /\ r.live = v2[c].live /\ r.stamp = v4 + 1
    <2>1. v2[c] \in Held(v4 + 1) /\ v2[c].holds + 1 \in Nat /\ v4 + 1 \in 0..v4 + 1 /\ v2[c].live \in BOOLEAN
      BY <1>1, <1>3 DEF Held
    <2>2. PICK k, h, m : k = v2[c] /\ h = v2[c].holds + 1 /\ m = v4 + 1
      OBVIOUS
    <2>3. r = [k EXCEPT !.holds = h, !.stamp = m]
      BY <2>2
    <2> HIDE DEF r
    <2>4. r = [live |-> k.live, holds |-> h, stamp |-> m]
      BY <2>1, <2>2, <2>3 DEF Held
    <2> QED BY <2>1, <2>2, <2>4 DEF Held
  <1>5. v2' = [v2 EXCEPT ![c] = r]
    BY <1>2
  <1> HIDE DEF r
  <1>6. /\ v2' \in [Cals -> Held(v4')] /\ v2'[c].stamp = v4'
        /\ \A d \in Cals : v2'[d].live = v2[d].live /\ (d # c => v2'[d] = v2[d])
    BY <1>2, <1>3, <1>4, <1>5
  <1>7. ShareFacts'
    BY <1>1, <1>2, <1>3, <1>6 DEF ShareFacts
  <1>8. ASSUME NEW s \in ShareIDs
        PROVE  \/ v4' \in StampsOf(v1[s], v2', v3')
               \/ /\ StampsOf(v1[s], v2', v3') = StampsOf(v1[s], v2, v3)
                  /\ \A d \in v1[s].cals : v2'[d].holds = v2[d].holds
                  /\ v1[s].todos => v3'.holds = v3.holds
    <2>1. v1[s].cals \subseteq Cals
      BY <1>1 DEF ShareFacts, Shares!Link
    <2>2. CASE c \in v1[s].cals
      BY <1>6, <2>2 DEF StampsOf
    <2>3. CASE c \notin v1[s].cals
      <3>1. \A d \in v1[s].cals : v2'[d] = v2[d]
        BY <1>6, <2>1, <2>3
      <3>2. {v2'[d].stamp : d \in v1[s].cals} = {v2[d].stamp : d \in v1[s].cals}
        BY <3>1
      <3> QED BY <1>2, <3>1, <3>2 DEF StampsOf
    <2> QED BY <2>2, <2>3
  <1> QED BY <1>2, <1>6, <1>7, <1>8, ContentKeeps

LEMMA EditTodoKeeps ==
    ASSUME Shares!SharesAssumption, Shares!SharesInv, Shares!EditTodo
    PROVE  Shares!SharesInv'
  <1>1. ShareFacts /\ v4 \in Nat /\ v4 < MaxEdits
    BY ShareFactsHold DEF Shares!SharesInv, Shares!EditTodo, Shares!MayEdit, ShareFacts
  <1>2. /\ v4' = v4 + 1 /\ v3' = [v3 EXCEPT !.holds = @ + 1, !.todoStamp = v4 + 1]
        /\ UNCHANGED <<v1, v2, v5, v6, v7, v8>>
    BY DEF Shares!EditTodo
  <1>3. v2 \in [Cals -> Held(v4 + 1)] /\ v3 \in Rest(v4 + 1)
    BY <1>1, MoreNumbers DEF ShareFacts
  <1>4. v3' \in Rest(v4 + 1) /\ v3'.todoStamp = v4' /\ v3'.stamp = v3.stamp
    <2>1. v3.holds + 1 \in Nat /\ v4 + 1 \in 0..v4 + 1 /\ v3.stamp \in 0..v4 + 1
      BY <1>1, <1>3 DEF Rest
    <2>2. v3' = [holds |-> v3.holds + 1, todoStamp |-> v4 + 1, stamp |-> v3.stamp]
      BY <1>2, <1>3 DEF Rest
    <2> QED BY <1>2, <2>1, <2>2 DEF Rest
  <1>5. ShareFacts'
    BY <1>1, <1>2, <1>3, <1>4 DEF ShareFacts
  <1>6. ASSUME NEW s \in ShareIDs
        PROVE  \/ v4' \in StampsOf(v1[s], v2', v3')
               \/ /\ StampsOf(v1[s], v2', v3') = StampsOf(v1[s], v2, v3)
                  /\ \A d \in v1[s].cals : v2'[d].holds = v2[d].holds
                  /\ v1[s].todos => v3'.holds = v3.holds
    BY <1>2, <1>4 DEF StampsOf
  <1> QED BY <1>2, <1>5, <1>6, ContentKeeps

LEMMA MoveEventKeeps ==
    ASSUME Shares!SharesAssumption, Shares!SharesInv, NEW a \in Cals, NEW b \in Cals, Shares!MoveEvent(a, b)
    PROVE  Shares!SharesInv'
  <1>1. ShareFacts /\ v4 \in Nat /\ v4 < MaxEdits /\ a # b
    BY ShareFactsHold DEF Shares!SharesInv, Shares!MoveEvent, Shares!MayEdit, ShareFacts
  <1> DEFINE f == [v2[a] EXCEPT !.holds = @ + 1]
             r == [v2[b] EXCEPT !.holds = @ + 1, !.stamp = v4 + 1]
  <1>2. v4' = v4 + 1 /\ v8' = TRUE /\ v2' = [v2 EXCEPT ![a] = f, ![b] = r] /\ UNCHANGED <<v1, v3, v5, v6, v7>>
    BY <1>1 DEF Shares!MoveEvent, ShareFacts
  <1>3. v2 \in [Cals -> Held(v4 + 1)] /\ v3 \in Rest(v4 + 1)
    BY <1>1, MoreNumbers DEF ShareFacts
  <1>4. f \in Held(v4 + 1) /\ f.live = v2[a].live /\ r \in Held(v4 + 1) /\ r.live = v2[b].live
    <2>1. /\ v2[b] \in Held(v4 + 1) /\ v2[b].holds + 1 \in Nat /\ v4 + 1 \in 0..v4 + 1 /\ v2[b].live \in BOOLEAN
          /\ v2[a] \in Held(v4 + 1) /\ v2[a].holds + 1 \in Nat
      BY <1>1, <1>3 DEF Held
    <2>2. f \in Held(v4 + 1) /\ f.live = v2[a].live
      BY <2>1 DEF Held
    <2>3. PICK k, h, m : k = v2[b] /\ h = v2[b].holds + 1 /\ m = v4 + 1
      OBVIOUS
    <2>4. r = [k EXCEPT !.holds = h, !.stamp = m]
      BY <2>3
    <2> HIDE DEF f, r
    <2>5. r = [live |-> k.live, holds |-> h, stamp |-> m]
      BY <2>1, <2>3, <2>4 DEF Held
    <2> QED BY <2>1, <2>2, <2>3, <2>5 DEF Held
  <1> HIDE DEF f, r
  <1>5. v2' \in [Cals -> Held(v4')] /\ \A d \in Cals : v2'[d].live = v2[d].live
    BY <1>2, <1>3, <1>4
  <1>6. ShareFacts'
    BY <1>1, <1>2, <1>3, <1>5 DEF ShareFacts
  <1> QED BY <1>2, <1>5, <1>6, ContentKeeps

LEMMA DeleteCalendarKeeps ==
    ASSUME Shares!SharesAssumption, Shares!SharesInv, NEW c \in Cals, Shares!DeleteCalendar(c)
    PROVE  Shares!SharesInv'
  <1>1. ShareFacts /\ v4 \in Nat /\ v4 < MaxEdits
    BY ShareFactsHold DEF Shares!SharesInv, Shares!DeleteCalendar, Shares!MayEdit, ShareFacts
  <1>2. /\ v4' = v4 + 1 /\ v3' = [v3 EXCEPT !.stamp = v4 + 1] /\ v2' = [v2 EXCEPT ![c].live = FALSE]
        /\ v1' = [s \in ShareIDs |-> [v1[s] EXCEPT !.cals = @ \ {c}]] /\ UNCHANGED <<v5, v6, v7, v8>>
    BY DEF Shares!DeleteCalendar
  <1>3. v2 \in [Cals -> Held(v4')] /\ v3 \in Rest(v4')
    BY <1>1, <1>2, MoreNumbers DEF ShareFacts
  <1>4. v3' \in Rest(v4') /\ v3'.stamp = v4'
    BY <1>1, <1>2, <1>3 DEF Rest
  <1>5. v2' \in [Cals -> Held(v4')] /\ \A d \in Cals : v2'[d].live <=> v2[d].live /\ d # c
    BY <1>2, <1>3 DEF Held
  <1>6. ASSUME NEW s \in ShareIDs
        PROVE  /\ v1'[s] \in Shares!Link /\ v1'[s].cals = v1[s].cals \ {c} /\ v1'[s].version = v1[s].version
               /\ v1'[s].detail = v1[s].detail /\ v1'[s].todos = v1[s].todos /\ v1'[s].st = v1[s].st
               /\ v1'[s].cals = {d \in v1[s].cals : v2'[d].live} /\ v1'[s].cals \subseteq {d \in Cals : v2'[d].live}
               /\ v1[s].version \in Nat
    <2>1. v1[s] \in Shares!Link /\ v1[s].cals \subseteq {d \in Cals : v2[d].live}
      BY <1>1 DEF ShareFacts
    <2>2. /\ v1'[s] \in Shares!Link /\ v1'[s].cals = v1[s].cals \ {c} /\ v1'[s].version = v1[s].version
          /\ v1'[s].detail = v1[s].detail /\ v1'[s].todos = v1[s].todos /\ v1'[s].st = v1[s].st /\ v1[s].version \in Nat
      BY <1>2, <2>1 DEF Shares!Link
    <2> QED BY <1>5, <2>1, <2>2
  <1>7. v1' \in [ShareIDs -> Shares!Link]
    BY <1>2, <1>6
  <1>8. ShareFacts'
    <2>1. v4' \in 0..MaxEdits /\ UNCHANGED <<v5, v6, v7, v8>>
      BY <1>1, <1>2 DEF ShareFacts
    <2>2. \A s \in ShareIDs : v1'[s].st = "none" => v1'[s].version = 0
      BY <1>1, <1>6 DEF ShareFacts
    <2> QED BY <1>1, <1>4, <1>5, <1>6, <1>7, <2>1, <2>2 DEF ShareFacts
  <1>0. v4 < v4' /\ v4' > v4 /\ v4 <= v4' /\ v8' = v8
    BY <1>1, <1>2
  <1>9. \A s \in ShareIDs : StampOf(v1'[s], v2', v3') = v4'
    <2>1. ASSUME NEW s \in ShareIDs PROVE StampOf(v1'[s], v2', v3') = v4'
      BY <1>0, <1>4, <1>8, OthersMove
    <2> QED BY <2>1
  <1>10. DataMoves
    <2>1. ASSUME NEW s \in ShareIDs
          PROVE  /\ v1[s].version <= v1'[s].version
                 /\ v1'[s].detail = v1[s].detail /\ v1'[s].todos = v1[s].todos
                 /\ v1'[s].cals = {d \in v1[s].cals : v2'[d].live}
      BY <1>6
    <2>2. \A d \in Cals : v2'[d].live => v2[d].live
      BY <1>5
    <2> QED BY <1>0, <1>9, <2>1, <2>2 DEF DataMoves
  <1>11. ViewsRest /\ Shares!SharesTypeOK'
    BY <1>2, <1>8, NextFactsHold DEF ViewsRest
  <1> QED BY <1>2, <1>10, <1>11, EditKeeps

-----------------------------------------------------------------------------
(* Its requests. *)

\* The request moves on, and nothing else.
LEMMA RequestMoves ==
    ASSUME Shares!SharesAssumption, Shares!SharesInv, NEW v \in Viewers, NEW w \in Shares!View,
           v6' = [v6 EXCEPT ![v] = w], UNCHANGED <<v1, v2, v3, v4, v5, v8>>, v7' \in 0..MaxViews,
           Shares!Served(w), w.pc = "put" /\ ~v8 => Shares!Fits(w.name, w.body)
    PROVE  Shares!SharesInv'
  <1>1. v6 \in [Viewers -> Shares!View] /\ v6' \in [Viewers -> Shares!View]
    BY DEF Shares!SharesInv, Shares!SharesTypeOK
  <1>2. Shares!SharesTypeOK'
    BY <1>1 DEF Shares!SharesInv, Shares!SharesTypeOK
  <1>3. \A u \in Viewers : v6'[u] = v6[u] \/ v6'[u] = w
    BY <1>1
  <1> QED BY <1>2, <1>3, ViewKeeps

\* The request is over.
LEMMA LeaveKeeps ==
    ASSUME Shares!SharesAssumption, Shares!SharesInv, NEW v \in Viewers, Shares!Leave(v),
           UNCHANGED <<v1, v2, v3, v4, v5, v7, v8>>
    PROVE  Shares!SharesInv'
  <1>1. v7' \in 0..MaxViews
    BY DEF Shares!SharesInv, Shares!SharesTypeOK
  <1>2. Shares!Served(Shares!Waiting)
    BY WaitingTyped DEF Shares!Served
  <1> QED BY <1>1, <1>2, WaitingTyped, RequestMoves DEF Shares!Leave

LEMMA CountSharesKeeps ==
    ASSUME Shares!SharesAssumption, Shares!SharesInv, NEW v \in Viewers, Shares!CountShares(v)
    PROVE  Shares!SharesInv'
  <1> DEFINE w == [v6[v] EXCEPT !.pc = "create"]
  <1>1. v6[v] \in Shares!View
    BY DEF Shares!SharesInv, Shares!SharesTypeOK
  <1>2. w \in Shares!View /\ w.pc = "create"
    BY <1>1 DEF Shares!View
  <1>3. v6' = [v6 EXCEPT ![v] = w] /\ UNCHANGED <<v1, v2, v3, v4, v5, v8>>
    BY DEF Shares!CountShares
  <1>4. v7' \in 0..MaxViews
    BY DEF Shares!CountShares, Shares!SharesInv, Shares!SharesTypeOK, Shares!SharesAssumption
  <1> HIDE DEF w
  <1>5. Shares!Served(w)
    BY <1>2 DEF Shares!Served
  <1> QED BY <1>2, <1>3, <1>4, <1>5, RequestMoves

LEMMA OpenKeeps ==
    ASSUME Shares!SharesAssumption, Shares!SharesInv, NEW v \in Viewers, Shares!Open(v)
    PROVE  Shares!SharesInv'
  <1>1. PICK s \in ShareIDs, then \in {"touch", "show", "version"} :
            /\ v7 < MaxViews /\ v7' = v7 + 1 /\ UNCHANGED <<v1, v2, v3, v4, v5, v8>>
            /\ v6' = [v6 EXCEPT ![v] = [Shares!Waiting EXCEPT !.pc = then, !.share = s, !.row = v1[s]]]
    BY DEF Shares!Open, Shares!DataStay
  <1> DEFINE w == [Shares!Waiting EXCEPT !.pc = then, !.share = s, !.row = v1[s]]
  <1>2. v1[s] \in Shares!Link /\ v1[s].cals \subseteq {c \in Cals : v2[c].live} /\ v1[s].version \in Nat
    BY DEF Shares!SharesInv, Shares!SharesTypeOK, Shares!Link
  <1>3. w \in Shares!View /\ w.pc \in {"touch", "show", "version"} /\ w.share = s /\ w.row = v1[s]
    BY <1>2, WaitingTyped DEF Shares!View
  <1>4. v7' \in 0..MaxViews /\ v6' = [v6 EXCEPT ![v] = w]
    BY <1>1 DEF Shares!SharesInv, Shares!SharesTypeOK, Shares!SharesAssumption
  <1> HIDE DEF w
  <1>5. Shares!SawShare(w)
    BY <1>2, <1>3 DEF Shares!SawShare
  <1>6. Shares!Served(w) /\ w.pc # "put"
    BY <1>3, <1>5 DEF Shares!Served
  <1> QED BY <1>1, <1>3, <1>4, <1>6, RequestMoves

LEMMA TouchShareKeeps ==
    ASSUME Shares!SharesAssumption, Shares!SharesInv, NEW v \in Viewers, Shares!TouchShare(v)
    PROVE  Shares!SharesInv'
  <1> DEFINE w == [v6[v] EXCEPT !.pc = "show"]
             s == v6[v].share
             row == [v1[s] EXCEPT !.hits = @ + 1]
  <1>0. ShareFacts
    BY ShareFactsHold DEF Shares!SharesInv
  <1>1. v6[v] \in Shares!View /\ v6[v].pc = "touch" /\ s \in ShareIDs /\ Shares!SawShare(v6[v])
    BY DEF Shares!TouchShare, Shares!Views, Shares!SharesInv, Shares!SharesTypeOK, Shares!ViewInv, Shares!Served, Shares!SawShare
  <1>2. w \in Shares!View /\ w.pc = "show" /\ w.share = s /\ w.row = v6[v].row
    BY <1>1 DEF Shares!View
  <1>3. /\ row \in Shares!Link /\ row.st = v1[s].st /\ row.version = v1[s].version /\ row.detail = v1[s].detail
        /\ row.todos = v1[s].todos /\ row.cals = v1[s].cals
    BY <1>0, <1>1 DEF ShareFacts, Shares!Link
  <1>4. v6' = [v6 EXCEPT ![v] = w] /\ v1' = [v1 EXCEPT ![s] = row] /\ UNCHANGED <<v2, v3, v4, v5, v7, v8>>
    BY DEF Shares!TouchShare, Shares!DataStay
  <1>5. ASSUME NEW t \in ShareIDs
        PROVE  /\ v1'[t] \in Shares!Link /\ v1'[t].st = v1[t].st /\ v1'[t].version = v1[t].version
               /\ v1'[t].detail = v1[t].detail /\ v1'[t].todos = v1[t].todos /\ v1'[t].cals = v1[t].cals
    <2> HIDE DEF row, s
    <2> QED BY <1>0, <1>1, <1>3, <1>4 DEF ShareFacts
  <1>6. v1' \in [ShareIDs -> Shares!Link]
    BY <1>0, <1>4, <1>5 DEF ShareFacts
  <1>7. v6' \in [Viewers -> Shares!View]
    BY <1>0, <1>2, <1>4 DEF ShareFacts
  <1> HIDE DEF w, row, s
  <1>8. ShareFacts'
    BY <1>0, <1>4, <1>5, <1>6, <1>7 DEF ShareFacts
  <1>9. DataMoves
    <2>1. ASSUME NEW t \in ShareIDs
          PROVE  /\ v1[t].version <= v1'[t].version
                 /\ v1'[t].detail = v1[t].detail /\ v1'[t].todos = v1[t].todos
                 /\ v1'[t].cals = {c \in v1[t].cals : v2'[c].live}
      <3>1. v1[t].version \in Nat /\ v1[t].cals = {c \in v1[t].cals : v2[c].live}
        BY <1>0 DEF ShareFacts, Shares!Link
      <3> QED BY <1>4, <1>5, <3>1
    <2>2. ASSUME NEW t \in ShareIDs
          PROVE  Shares!NameNow(t)' = Shares!NameNow(t) /\ Shares!ShownNow(t)' = Shares!ShownNow(t)
      <3>1. StampsOf(v1'[t], v2', v3') = StampsOf(v1[t], v2, v3)
        BY <1>4, <1>5 DEF StampsOf
      <3> QED BY <1>4, <1>5, <3>1, SameShown
    <2>3. v4 <= v4'
      BY <1>0, <1>4 DEF ShareFacts
    <2> QED BY <1>4, <2>1, <2>2, <2>3 DEF DataMoves
  <1>10. ViewsRest
    BY <1>0, <1>1, <1>2, <1>4 DEF ViewsRest, s, ShareFacts
  <1> QED BY <1>4, <1>8, <1>9, <1>10, NextFactsHold, EditKeeps

LEMMA VersionKeeps ==
    ASSUME Shares!SharesAssumption, Shares!SharesInv, NEW v \in Viewers, Shares!Version(v)
    PROVE  Shares!SharesInv'
  <1>0. ShareFacts
    BY ShareFactsHold DEF Shares!SharesInv
  <1>1. UNCHANGED <<v1, v2, v3, v4, v5, v7, v8>> /\ v6[v].pc = "version"
    BY DEF Shares!Version, Shares!DataStay, Shares!Views
  <1>2. CASE Shares!Leave(v)
    BY <1>1, <1>2, LeaveKeeps
  <1>3. ASSUME NEW stamp \in {Shares!NoStamp, Shares!ShareStamp(v6[v].row)},
               v6' = [v6 EXCEPT ![v].pc = "render", ![v].name = Shares!Name(v6[v].share, v6[v].row, stamp)]
        PROVE  Shares!SharesInv'
    <2> DEFINE n == Shares!Name(v6[v].share, v6[v].row, stamp)
               w == [v6[v] EXCEPT !.pc = "render", !.name = n]
    <2>1. v6[v] \in Shares!View /\ v6[v].row \in Shares!Link /\ v6[v].share \in ShareIDs \cup {Shares!NoShare}
      BY <1>0 DEF ShareFacts, Shares!View
    <2>2. Shares!SawShare(v6[v])
      BY <1>1 DEF Shares!SharesInv, Shares!ViewInv, Shares!Served
    <2>3. Shares!ShareStamp(v6[v].row) \in 0..v4
      BY <1>0, <2>1, StampIs, StampTops DEF ShareFacts
    <2>4. stamp \in Nat \cup {Shares!NoStamp} /\ stamp <= v4
      BY <1>0, <2>3 DEF Shares!NoStamp, ShareFacts
    <2>5. n.share = v6[v].share /\ n.version = v6[v].row.version /\ n.stamp = stamp
      BY DEF Shares!Name
    <2>6. n \in Shares!Names
      BY <2>1, <2>4 DEF Shares!Name, Shares!Names, Shares!Link
    <2> HIDE DEF n
    <2>7. w \in Shares!View /\ w.pc = "render" /\ w.name = n /\ w.share = v6[v].share /\ w.row = v6[v].row
      BY <2>1, <2>6 DEF Shares!View
    <2>8. v6' = [v6 EXCEPT ![v] = w]
      BY <1>3 DEF n
    <2> HIDE DEF w
    <2>9. Shares!Served(w) /\ w.pc # "put"
      <3>1. Shares!SawShare(w)
        BY <2>2, <2>7 DEF Shares!SawShare
      <3>2. Shares!Given(n)
        BY <2>2, <2>4, <2>5 DEF Shares!Given, Shares!SawShare
      <3> QED BY <2>5, <2>7, <3>1, <3>2 DEF Shares!Served
    <2>10. v7' \in 0..MaxViews
      BY <1>0, <1>1 DEF ShareFacts
    <2> QED BY <1>1, <2>7, <2>8, <2>9, <2>10, RequestMoves
  <1> QED BY <1>2, <1>3 DEF Shares!Version

LEMMA RenderOGKeeps ==
    ASSUME Shares!SharesAssumption, Shares!SharesInv, NEW v \in Viewers, Shares!RenderOG(v)
    PROVE  Shares!SharesInv'
  <1> DEFINE sh == [v6[v].row EXCEPT !.cals = {c \in v6[v].row.cals : v2[c].live}]
             b == Shares!Picture(sh, v2, v3)
             w == [v6[v] EXCEPT !.pc = "put", !.body = b]
  <1>0. ShareFacts
    BY ShareFactsHold DEF Shares!SharesInv
  <1>1. UNCHANGED <<v1, v2, v3, v4, v5, v7, v8>> /\ v6[v].pc = "render"
    BY DEF Shares!RenderOG, Shares!DataStay, Shares!Views
  <1>2. v6' = [v6 EXCEPT ![v] = w] \/ Shares!Leave(v)
    BY DEF Shares!RenderOG
  <1>3. v6[v] \in Shares!View /\ v6[v].row \in Shares!Link
    BY <1>0 DEF ShareFacts, Shares!View
  <1>4. /\ sh \in Shares!Link /\ sh.detail = v6[v].row.detail /\ sh.todos = v6[v].row.todos
        /\ sh.cals = {c \in v6[v].row.cals : v2[c].live}
    BY <1>3 DEF Shares!Link
  <1> HIDE DEF sh
  <1>5. b \in Shares!Pictures
    BY <1>4, PicturesTyped, ShareTablesHold DEF Shares!SharesInv
  <1>6. Shares!SawShare(v6[v]) /\ Shares!Given(v6[v].name) /\ v6[v].name.share = v6[v].share
        /\ v6[v].name.version = v6[v].row.version
    BY <1>1 DEF Shares!SharesInv, Shares!ViewInv, Shares!Served
  <1>7. Shares!Fits(v6[v].name, b)
    <2> SUFFICES ASSUME v6[v].name = Shares!NameNow(v6[v].share) PROVE b = Shares!ShownNow(v6[v].share)
      BY <1>6 DEF Shares!Fits
    <2>1. v6[v].row.version = v1[v6[v].share].version
      BY <1>6 DEF Shares!NameNow, Shares!Name
    <2>2. LET to == v1[v6[v].share] IN sh.detail = to.detail /\ sh.todos = to.todos /\ sh.cals = to.cals
      BY <1>4, <1>6, <2>1 DEF Shares!SawShare
    <2> QED BY <2>2 DEF Shares!ShownNow, Shares!Picture
  <1> HIDE DEF b
  <1>8. /\ w \in Shares!View /\ w.pc = "put" /\ w.name = v6[v].name /\ w.share = v6[v].share /\ w.row = v6[v].row
        /\ w.body = b
    BY <1>3, <1>5 DEF Shares!View
  <1> HIDE DEF w
  <1>9. Shares!Served(w) /\ Shares!Fits(w.name, w.body)
    BY <1>6, <1>7, <1>8 DEF Shares!Served, Shares!SawShare
  <1>10. v7' \in 0..MaxViews
    BY <1>0, <1>1 DEF ShareFacts
  <1> QED BY <1>1, <1>2, <1>8, <1>9, <1>10, RequestMoves, LeaveKeeps

LEMMA PutKeeps ==
    ASSUME Shares!SharesAssumption, Shares!SharesInv, NEW v \in Viewers, Shares!Put(v)
    PROVE  Shares!SharesInv'
  <1>0. ShareFacts
    BY ShareFactsHold DEF Shares!SharesInv
  <1>1. /\ UNCHANGED <<v1, v2, v3, v4, v7, v8>> /\ v6[v].pc = "put" /\ v6' = [v6 EXCEPT ![v] = Shares!Waiting]
        /\ v5' = [n \in DOMAIN v5 \cup {v6[v].name} |-> IF n = v6[v].name THEN v6[v].body ELSE v5[n]]
    BY DEF Shares!Put, Shares!DataStay, Shares!Views, Shares!Leave
  <1>2. v6[v].name \in Shares!Names /\ v6[v].body \in Shares!Pictures
    BY <1>0 DEF ShareFacts, Shares!View
  <1>3. ASSUME NEW n \in DOMAIN v5'
        PROVE  \/ n \in DOMAIN v5 /\ v5'[n] = v5[n]
               \/ n = v6[v].name /\ v5'[n] = v6[v].body
    BY <1>1
  <1>4. v6' \in [Viewers -> Shares!View] /\ \A u \in Viewers : v6'[u] = v6[u] \/ v6'[u] = Shares!Waiting
    BY <1>0, <1>1, WaitingTyped DEF ShareFacts
  <1>5. ShareFacts'
    <2>1. DOMAIN v5' = DOMAIN v5 \cup {v6[v].name}
      BY <1>1
    <2>2. DOMAIN v5' \subseteq Shares!Names /\ \A n \in DOMAIN v5' : v5'[n] \in Shares!Pictures
      BY <1>0, <1>2, <1>3, <2>1 DEF ShareFacts
    <2> QED BY <1>0, <1>1, <1>4, <2>2 DEF ShareFacts
  <1>6. Shares!Served(Shares!Waiting) /\ Shares!Waiting.pc # "put"
    BY WaitingTyped DEF Shares!Served
  <1>7. Shares!Given(v6[v].name) /\ (~v8 => Shares!Fits(v6[v].name, v6[v].body))
    BY <1>1 DEF Shares!SharesInv, Shares!ViewInv, Shares!Served, Shares!NowInv
  <1>8. \A n \in DOMAIN v5' : \/ n \in DOMAIN v5 /\ v5'[n] = v5[n]
                              \/ Shares!Given(n) /\ (~v8 => Shares!Fits(n, v5'[n]))
    BY <1>3, <1>7
  <1> QED BY <1>1, <1>4, <1>5, <1>6, <1>8, NextFactsHold, ViewKeeps

LEMMA EvictPictureKeeps ==
    ASSUME Shares!SharesAssumption, Shares!SharesInv, NEW n, Shares!EvictPicture(n)
    PROVE  Shares!SharesInv'
  <1>1. UNCHANGED <<v1, v2, v3, v4, v6, v7, v8>> /\ v5' = [m \in DOMAIN v5 \ {n} |-> v5[m]]
    BY DEF Shares!EvictPicture, Shares!DataStay
  <1>2. \A m \in DOMAIN v5' : m \in DOMAIN v5 /\ v5'[m] = v5[m]
    BY <1>1
  <1>3. Shares!SharesTypeOK'
    BY <1>1, <1>2 DEF Shares!SharesInv, Shares!SharesTypeOK
  <1> QED BY <1>1, <1>2, <1>3, ViewKeeps

LEMMA SharesKeep ==
    ASSUME Shares!SharesAssumption, Shares!SharesInv, [Shares!SharesNext]_(Shares!sharesVars)
    PROVE  Shares!SharesInv'
  <1>1. CASE Shares!SharesNext
    <2>1. ASSUME NEW v \in Viewers, Shares!Show(v) PROVE Shares!SharesInv'
      BY <2>1, LeaveKeeps DEF Shares!Show, Shares!DataStay
    <2> QED BY <1>1, <2>1, UpdateShareKeeps, EndShareKeeps, EditEventKeeps, DeleteCalendarKeeps, MoveEventKeeps, EditTodoKeeps,
               CountSharesKeeps, CreateShareKeeps, OpenKeeps, TouchShareKeeps, VersionKeeps, RenderOGKeeps, PutKeeps,
               EvictPictureKeeps DEF Shares!SharesNext
  <1>2. CASE UNCHANGED Shares!sharesVars
    <2>1. UNCHANGED <<v1, v2, v3, v4, v5, v6, v7, v8>>
      BY <1>2 DEF Shares!sharesVars
    <2>2. Shares!SharesTypeOK'
      BY <2>1 DEF Shares!SharesInv, Shares!SharesTypeOK
    <2> QED BY <2>1, <2>2, ViewKeeps
  <1> QED BY <1>1, <1>2

LEMMA SharesStart ==
    ASSUME Shares!SharesAssumption, Shares!SharesInit PROVE Shares!SharesInv
  <1>1. /\ v4 = 0 /\ v5 = [n \in {} |-> 0] /\ v7 = 0 /\ v8 = FALSE /\ v6 = [v \in Viewers |-> Shares!Waiting]
        /\ v2 = [c \in Cals |-> [live |-> TRUE, holds |-> 0, stamp |-> 0]]
        /\ v3 = [holds |-> 0, todoStamp |-> 0, stamp |-> 0]
    BY DEF Shares!SharesInit
  <1>2. /\ v1 \in [ShareIDs -> Shares!Link]
        /\ \A s \in ShareIDs : /\ v1[s].cals \subseteq {c \in Cals : v2[c].live}
                               /\ v1[s].st = "none" => v1[s].version = 0
    <2>1. \A s \in ShareIDs : \/ v1[s] = Shares!NoLinkYet
                              \/ \E c \in Cals : v1[s] = [Shares!NoLinkYet EXCEPT !.st = "active", !.cals = {c}, !.token = 1,
                                                                                !.version = 1]
      BY DEF Shares!SharesInit
    <2>2. /\ Shares!NoLinkYet.cals = {} /\ Shares!NoLinkYet.version = 0 /\ Shares!NoLinkYet \in Shares!Link
      BY WaitingTyped DEF Shares!NoLinkYet
    <2>4. \A s \in ShareIDs : /\ v1[s] \in Shares!Link
                              /\ \/ v1[s].cals = {} /\ v1[s].version = 0
                                 \/ v1[s].st = "active" /\ \E c \in Cals : v1[s].cals = {c}
      <3>1. TAKE s \in ShareIDs
      <3>2. CASE v1[s] = Shares!NoLinkYet
        BY <2>2, <3>2
      <3>3. ASSUME NEW c \in Cals,
                   v1[s] = [Shares!NoLinkYet EXCEPT !.st = "active", !.cals = {c}, !.token = 1, !.version = 1]
            PROVE  v1[s] \in Shares!Link /\ v1[s].cals = {c} /\ v1[s].st = "active"
        <4>1. v1[s] = [st |-> "active", detail |-> Shares!NoLinkYet.detail, cals |-> {c}, todos |-> FALSE,
                       token |-> 1, version |-> 1, hits |-> 0]
          BY <3>3 DEF Shares!NoLinkYet
        <4>2. Shares!NoLinkYet.detail \in Details
          BY <2>2 DEF Shares!Link
        <4> QED BY <4>1, <4>2 DEF Shares!Link
      <3> QED BY <2>1, <3>2, <3>3
    <2>5. \A c \in Cals : v2[c].live
      BY <1>1
    <2>6. v1 \in [ShareIDs -> Shares!Link]
      BY <2>4 DEF Shares!SharesInit
    <2> QED BY <2>4, <2>5, <2>6
  <1>3. Shares!SharesTypeOK
    <2>1. v2 \in [Cals -> [live : BOOLEAN, holds : Nat, stamp : 0..v4]]
      BY <1>1
    <2>2. v3 \in [holds : Nat, todoStamp : 0..v4, stamp : 0..v4]
      BY <1>1
    <2>3. DOMAIN v5 = {} /\ v6 \in [Viewers -> Shares!View] /\ v8 \in BOOLEAN
      BY <1>1, WaitingTyped
    <2>4. v4 \in 0..MaxEdits /\ v7 \in 0..MaxViews
      BY <1>1 DEF Shares!SharesAssumption
    <2> QED BY <1>2, <2>1, <2>2, <2>3, <2>4 DEF Shares!SharesTypeOK
  <1>4. Shares!ViewInv /\ Shares!NowInv
    BY <1>1, WaitingTyped DEF Shares!ViewInv, Shares!NowInv, Shares!Served
  <1> QED BY <1>3, <1>4 DEF Shares!SharesInv

\* For any shares, calendars, details, requests, edits and sizes of the cache: while no event
\* changes its calendar, a picture that is kept under the name of now shows what the share
\* shows now, whichever edits and deletions came between the opening of the share, the choice
\* of the name, the drawing and the storing (og, ShareStamp, UpdateShare).
THEOREM PicturesFollow == Spec => []PictureFollows
  <1> DEFINE Inv == part = "shares" => Shares!SharesInv
  <1>0. Shares!SharesAssumption
    BY AccessAssumption
  <1>1. Init => Inv
    BY <1>0, SharesStart DEF Init
  <1>2. Inv /\ [Next]_vars => Inv'
    <2>1. ASSUME Inv, [Next]_vars, part = "shares" PROVE Shares!SharesInv'
      <3>1. [Shares!SharesNext]_(Shares!sharesVars)
        BY <2>1 DEF Next, vars, Shares!sharesVars
      <3> QED BY <1>0, <2>1, <3>1, SharesKeep
    <2>2. ASSUME [Next]_vars PROVE part' = part
      BY <2>2 DEF Next, vars
    <2> QED BY <2>1, <2>2
  <1>3. Inv => PictureFollows
    <2>1. ASSUME Shares!SharesInv, ~v8, NEW s \in ShareIDs, Shares!NameNow(s) \in DOMAIN v5
          PROVE  v5[Shares!NameNow(s)] = Shares!ShownNow(s)
      <3>1. Shares!NameNow(s).share = s
        BY DEF Shares!NameNow, Shares!Name
      <3> QED BY <2>1, <3>1 DEF Shares!SharesInv, Shares!NowInv, Shares!Fits
    <2> QED BY <2>1 DEF PictureFollows, Shares!PictureFollows, Shares!PictureNeverStale
  <1> QED BY <1>1, <1>2, <1>3, PTL DEF Spec

=============================================================================
