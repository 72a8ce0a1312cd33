------------------------- MODULE IdempotencyProofs -------------------------
(***************************************************************************)
(* For any number of attempts, keys, bodies and faults: retried requests   *)
(* are carried out once at most, and Idempotency implements OnceOnly.      *)
(***************************************************************************)
EXTENDS Idempotency, TLAPS

-----------------------------------------------------------------------------
(* What a step does to one attempt. *)

\* The step of one attempt leaves the others as they were.
LEMMA OneAttempt ==
    ASSUME attempts \in [Attempts -> Attempt], NEW a \in Attempts, NEW r \in Attempt, With(a, r)
    PROVE  /\ attempts' \in [Attempts -> Attempt] /\ attempts'[a] = r
           /\ \A c \in Attempts : c # a => attempts'[c] = attempts[c]
  BY DEF With

\* The replacements that the steps make are attempts, and change what they name.
LEMMA Moved ==
    ASSUME NEW r \in Attempt, NEW pc \in Pcs
    PROVE  LET s == [r EXCEPT !.pc = pc]
           IN  s \in Attempt /\ s.pc = pc /\ s.key = r.key /\ s.body = r.body /\ s.status = r.status /\ s.reply = r.reply
  BY DEF Attempt

\* An answered attempt ends with its reply.
LEMMA Answered ==
    ASSUME NEW r \in Attempt, NEW reply \in Replies
    PROVE  LET s == [r EXCEPT !.pc = "end", !.reply = reply]
           IN  s \in Attempt /\ s.pc = "end" /\ s.reply = reply /\ s.key = r.key /\ s.body = r.body
  BY ZenonT(60) DEF Attempt, Pcs

-----------------------------------------------------------------------------
(* The invariant holds at the start, and every step keeps it. *)

\* Nothing is claimed, done or told at the start.
LEMMA InitInv ==
    ASSUME IdempotencyAssumption, IdempotencyInit PROVE IdempotencyInv
  <1>1. (CHOOSE k \in ReqKeys : TRUE) \in ReqKeys /\ (CHOOSE b \in Bodies : TRUE) \in Bodies
    BY DEF IdempotencyAssumption
  <1>2. IdempotencyTypeOK
    BY <1>1 DEF IdempotencyAssumption, IdempotencyInit, IdempotencyTypeOK, KeyRow, Attempt, Free, Pcs, Replies
  <1>3. RowsInv /\ OwnerInv /\ ToldInv
    BY <1>1 DEF IdempotencyAssumption, IdempotencyInit, RowsInv, OwnerInv, ToldInv, Owns, Free
  <1> QED BY <1>2, <1>3 DEF IdempotencyInv

\* A client sends a request: it owns nothing yet.
LEMMA SendInv ==
    ASSUME IdempotencyAssumption, IdempotencyInv,
           NEW a \in Attempts, NEW k \in ReqKeys, NEW b \in Bodies, Send(a, k, b)
    PROVE  IdempotencyInv'
  <1> DEFINE r == [attempts[a] EXCEPT !.pc = "claim", !.key = k, !.body = b]
  <1>0. attempts[a] \in Attempt /\ "claim" \in Pcs
    BY DEF IdempotencyInv, IdempotencyTypeOK, Pcs
  <1>1. r \in Attempt /\ r.pc = "claim"
    BY <1>0 DEF Attempt
  <1>2. With(a, r) /\ UNCHANGED <<keyRows, effects, faults>>
    BY DEF Send
  <1> HIDE DEF r
  <1>3. attempts' \in [Attempts -> Attempt] /\ attempts'[a] = r /\ \A c \in Attempts : c # a => attempts'[c] = attempts[c]
    BY <1>1, <1>2, OneAttempt DEF IdempotencyInv, IdempotencyTypeOK
  <1>4. IdempotencyTypeOK' /\ RowsInv'
    BY <1>2, <1>3 DEF IdempotencyInv, IdempotencyTypeOK, RowsInv
  <1>5. OwnerInv' /\ ToldInv'
    BY <1>1, <1>2, <1>3 DEF IdempotencyInv, OwnerInv, ToldInv, Owns
  <1> QED BY <1>4, <1>5 DEF IdempotencyInv

\* The claim: the claimer becomes the key's owner, or goes on to read the row.
LEMMA ClaimInv ==
    ASSUME IdempotencyAssumption, IdempotencyInv, NEW a \in Attempts, ClaimIdempotency(a) PROVE IdempotencyInv'
  <1> DEFINE k == attempts[a].key
             b == attempts[a].body
  <1>0. k \in ReqKeys /\ b \in Bodies /\ attempts[a] \in Attempt /\ keyRows \in [ReqKeys -> KeyRow]
        /\ attempts[a].pc = "claim" /\ UNCHANGED <<effects, faults>>
    BY DEF IdempotencyInv, IdempotencyTypeOK, Attempt, ClaimIdempotency
  <1>1. CASE keyRows[k] = Free
    <2> DEFINE r == [attempts[a] EXCEPT !.pc = "handle"]
               row == [hash |-> b, status |-> 0]
    <2>1. r \in Attempt /\ r.pc = "handle" /\ r.key = k /\ r.body = b
      BY <1>0, Moved DEF Pcs
    <2>2. With(a, r) /\ keyRows' = [keyRows EXCEPT ![k] = row]
      BY <1>1 DEF ClaimIdempotency, Step
    <2>3. row \in KeyRow /\ row.hash = b /\ row.status = 0 /\ b # NoBody
      BY <1>0 DEF KeyRow, IdempotencyAssumption
    <2>4. keyRows[k].hash = NoBody
      BY <1>1 DEF Free
    <2> HIDE DEF r, row
    <2>5. attempts' \in [Attempts -> Attempt] /\ attempts'[a] = r
          /\ \A c \in Attempts : c # a => attempts'[c] = attempts[c]
      BY <2>1, <2>2, OneAttempt DEF IdempotencyInv, IdempotencyTypeOK
    <2>6. keyRows' \in [ReqKeys -> KeyRow] /\ keyRows'[k] = row
          /\ \A l \in ReqKeys : l # k => keyRows'[l] = keyRows[l]
      BY <1>0, <2>2, <2>3
    <2>7. IdempotencyTypeOK'
      BY <1>0, <2>5, <2>6 DEF IdempotencyInv, IdempotencyTypeOK
    <2>8. \A d \in Bodies : effects[k][d] = 0
      BY <1>0, <2>4 DEF IdempotencyInv, RowsInv
    <2>9. RowsInv'
      BY <1>0, <2>3, <2>6, <2>8 DEF IdempotencyInv, RowsInv
    <2>10. \A c \in Attempts : Owns(c) => attempts[c].key # k
      BY <1>0, <2>4 DEF IdempotencyInv, IdempotencyTypeOK, OwnerInv, Attempt, IdempotencyAssumption
    <2>11. ToldInv'
      BY <1>0, <2>1, <2>5 DEF IdempotencyInv, ToldInv
    <2>12. \A c \in Attempts : c # a /\ Owns(c)' => Owns(c) /\ attempts'[c] = attempts[c] /\ attempts[c].key \in ReqKeys
      BY <2>5 DEF Owns, IdempotencyInv, IdempotencyTypeOK, Attempt
    <2>13. OwnerInv'
      BY <1>0, <2>1, <2>3, <2>5, <2>6, <2>8, <2>10, <2>12 DEF IdempotencyInv, OwnerInv
    <2> QED BY <2>7, <2>9, <2>11, <2>13 DEF IdempotencyInv
  <1>2. CASE keyRows[k] # Free
    <2> DEFINE r == [attempts[a] EXCEPT !.pc = "lookup"]
    <2>1. r \in Attempt /\ r.pc = "lookup"
      BY <1>0, Moved DEF Pcs
    <2>2. With(a, r) /\ UNCHANGED keyRows
      BY <1>2 DEF ClaimIdempotency, Step
    <2> HIDE DEF r
    <2>3. attempts' \in [Attempts -> Attempt] /\ attempts'[a] = r
          /\ \A c \in Attempts : c # a => attempts'[c] = attempts[c]
      BY <2>1, <2>2, OneAttempt DEF IdempotencyInv, IdempotencyTypeOK
    <2>4. IdempotencyTypeOK' /\ RowsInv'
      BY <1>0, <2>2, <2>3 DEF IdempotencyInv, IdempotencyTypeOK, RowsInv
    <2>5. OwnerInv' /\ ToldInv'
      BY <1>0, <2>1, <2>2, <2>3 DEF IdempotencyInv, OwnerInv, ToldInv, Owns
    <2> QED BY <2>4, <2>5 DEF IdempotencyInv
  <1> QED BY <1>1, <1>2

\* An answered attempt owns nothing; if it is answered with success, its body was carried out.
LEMMA AnswerInv ==
    ASSUME IdempotencyInv, NEW a \in Attempts, NEW reply \in Replies, Answer(a, reply),
           reply = "ok" => effects[attempts[a].key][attempts[a].body] = 1,
           IdempotencyTypeOK', RowsInv', UNCHANGED effects,
           \A k \in ReqKeys : keyRows'[k].hash = keyRows[k].hash \/ (Owns(a) /\ attempts[a].key = k)
    PROVE  IdempotencyInv'
  <1> DEFINE r == [attempts[a] EXCEPT !.pc = "end", !.reply = reply]
  <1>1. attempts[a] \in Attempt
    BY DEF IdempotencyInv, IdempotencyTypeOK
  <1>2. r \in Attempt /\ r.pc = "end" /\ r.reply = reply /\ r.key = attempts[a].key /\ r.body = attempts[a].body
    BY <1>1, Answered
  <1>3. With(a, r)
    BY DEF Answer
  <1> HIDE DEF r
  <1>4. attempts' \in [Attempts -> Attempt] /\ attempts'[a] = r
        /\ \A c \in Attempts : c # a => attempts'[c] = attempts[c]
    BY <1>2, <1>3, OneAttempt DEF IdempotencyInv, IdempotencyTypeOK
  <1>5. ToldInv'
    BY <1>2, <1>4 DEF IdempotencyInv, ToldInv
  <1>6. OwnerInv'
    <2> SUFFICES ASSUME NEW c \in Attempts, Owns(c)'
                 PROVE  /\ keyRows'[attempts'[c].key].hash = attempts'[c].body
                        /\ \A d \in Attempts : Owns(d)' /\ attempts'[d].key = attempts'[c].key => d = c
                        /\ attempts'[c].pc = "handle" => effects'[attempts'[c].key][attempts'[c].body] = 0
                        /\ attempts'[c].pc = "store" =>
                              \/ attempts'[c].status = 201 /\ effects'[attempts'[c].key][attempts'[c].body] = 1
                              \/ attempts'[c].status = 422 /\ effects'[attempts'[c].key][attempts'[c].body] = 0
      BY DEF OwnerInv
    <2>1. c # a /\ attempts'[c] = attempts[c] /\ Owns(c)
      BY <1>2, <1>4 DEF Owns
    <2>2. attempts[c].key \in ReqKeys
      BY DEF IdempotencyInv, IdempotencyTypeOK, Attempt
    <2>3. keyRows'[attempts[c].key].hash = keyRows[attempts[c].key].hash
      BY <2>1, <2>2 DEF IdempotencyInv, OwnerInv
    <2>4. \A d \in Attempts : Owns(d)' => Owns(d) /\ attempts'[d] = attempts[d]
      BY <1>2, <1>4 DEF Owns
    <2> QED BY <2>1, <2>3, <2>4 DEF IdempotencyInv, OwnerInv
  <1> QED BY <1>5, <1>6 DEF IdempotencyInv

\* The answer to a key that was taken.
LEMMA LookupInv ==
    ASSUME IdempotencyAssumption, IdempotencyInv, NEW a \in Attempts, Lookup(a) PROVE IdempotencyInv'
  <1> DEFINE k == attempts[a].key
             b == attempts[a].body
  <1>0. UNCHANGED <<keyRows, effects, faults>>
    BY DEF Lookup
  <1>1. k \in ReqKeys /\ b \in Bodies /\ keyRows[k] \in KeyRow /\ UNCHANGED <<keyRows, effects, faults>>
    BY <1>0 DEF IdempotencyInv, IdempotencyTypeOK, Attempt
  <1>2. PICK reply \in Replies : Answer(a, reply) /\
          (reply = "ok" => keyRows[k] # Free /\ keyRows[k].hash = b /\ keyRows[k].status # 0)
    BY <1>1 DEF Lookup, ReadRow, Replies
  <1>3. reply = "ok" => effects[k][b] = 1
    BY <1>1, <1>2 DEF IdempotencyInv, RowsInv, KeyRow
  <1>4. RowsInv'
    BY <1>1 DEF IdempotencyInv, RowsInv
  <1>5. IdempotencyTypeOK'
    BY <1>1, <1>2, OneAttempt, Answered DEF IdempotencyInv, IdempotencyTypeOK, Answer
  <1> QED BY <1>1, <1>2, <1>3, <1>4, <1>5, AnswerInv

\* The handler: its key has done nothing yet, and it is alone with it.
LEMMA HandleInv ==
    ASSUME IdempotencyAssumption, IdempotencyInv, NEW a \in Attempts, Handle(a) PROVE IdempotencyInv'
  <1> DEFINE k == attempts[a].key
             b == attempts[a].body
  <1>0. k \in ReqKeys /\ b \in Bodies /\ attempts[a] \in Attempt /\ attempts[a].pc = "handle" /\ Owns(a)
        /\ effects \in [ReqKeys -> [Bodies -> Nat]] /\ UNCHANGED <<keyRows, faults>>
    BY DEF IdempotencyInv, IdempotencyTypeOK, Attempt, Handle, Owns
  <1>1. keyRows[k].hash = b /\ effects[k][b] = 0
        /\ \A c \in Attempts : Owns(c) /\ attempts[c].key = k => c = a
    BY <1>0 DEF IdempotencyInv, OwnerInv
  <1>2. \A d \in Bodies : effects[k][d] = 0
    BY <1>0, <1>1 DEF IdempotencyInv, RowsInv
  <1>3. PICK st \in {201, 422} :
          /\ With(a, [attempts[a] EXCEPT !.pc = "store", !.status = st])
          /\ st = 201 => effects' = [effects EXCEPT ![k][b] = @ + 1]
          /\ st = 422 => UNCHANGED effects
    BY DEF Handle
  <1> DEFINE r == [attempts[a] EXCEPT !.pc = "store", !.status = st]
  <1>4. r \in Attempt /\ r.pc = "store" /\ r.status = st /\ r.key = k /\ r.body = b
    BY ZenonT(60), <1>0 DEF Attempt, Pcs
  <1>5. With(a, r)
    BY <1>3
  <1> HIDE DEF r
  <1>6. attempts' \in [Attempts -> Attempt] /\ attempts'[a] = r
        /\ \A c \in Attempts : c # a => attempts'[c] = attempts[c]
    BY <1>4, <1>5, OneAttempt DEF IdempotencyInv, IdempotencyTypeOK
  <1>7. /\ effects' \in [ReqKeys -> [Bodies -> Nat]]
        /\ effects'[k][b] = IF st = 201 THEN 1 ELSE 0
        /\ \A d \in Bodies : d # b => effects'[k][d] = 0
        /\ \A l \in ReqKeys : l # k => effects'[l] = effects[l]
    BY SMTT(60), <1>0, <1>2, <1>3
  <1>8. IdempotencyTypeOK'
    BY <1>0, <1>6, <1>7 DEF IdempotencyInv, IdempotencyTypeOK
  <1>9. RowsInv'
    <2> SUFFICES ASSUME NEW l \in ReqKeys
                 PROVE  /\ keyRows[l].hash = NoBody => keyRows[l].status = 0 /\ \A d \in Bodies : effects'[l][d] = 0
                        /\ \A d \in Bodies : effects'[l][d] <= 1 /\ (d # keyRows[l].hash => effects'[l][d] = 0)
                        /\ keyRows[l].status = 201 => effects'[l][keyRows[l].hash] = 1
      BY <1>0 DEF RowsInv
    <2>1. CASE l # k
      BY <1>7, <2>1 DEF IdempotencyInv, RowsInv
    <2>2. CASE l = k
      BY <1>0, <1>1, <1>2, <1>7, <2>2 DEF IdempotencyInv, RowsInv, IdempotencyAssumption
    <2> QED BY <2>1, <2>2
  <1>10. ToldInv'
    BY <1>0, <1>2, <1>4, <1>6, <1>7 DEF IdempotencyInv, IdempotencyTypeOK, ToldInv, Attempt
  <1>11. \A c \in Attempts : c # a /\ Owns(c)' => Owns(c) /\ attempts'[c] = attempts[c]
                              /\ attempts[c].key \in ReqKeys \ {k}
    BY <1>1, <1>6 DEF Owns, IdempotencyInv, IdempotencyTypeOK, Attempt
  <1>12. OwnerInv'
    <2> SUFFICES ASSUME NEW c \in Attempts, Owns(c)'
                 PROVE  /\ keyRows[attempts'[c].key].hash = attempts'[c].body
                        /\ \A d \in Attempts : Owns(d)' /\ attempts'[d].key = attempts'[c].key => d = c
                        /\ attempts'[c].pc = "handle" => effects'[attempts'[c].key][attempts'[c].body] = 0
                        /\ attempts'[c].pc = "store" =>
                              \/ attempts'[c].status = 201 /\ effects'[attempts'[c].key][attempts'[c].body] = 1
                              \/ attempts'[c].status = 422 /\ effects'[attempts'[c].key][attempts'[c].body] = 0
      BY <1>0 DEF OwnerInv
    <2>1. CASE c = a
      BY <1>1, <1>4, <1>6, <1>7, <1>11, <2>1
    <2>2. CASE c # a
      BY <1>4, <1>6, <1>7, <1>11, <2>2 DEF IdempotencyInv, OwnerInv
    <2> QED BY <2>1, <2>2
  <1> QED BY <1>8, <1>9, <1>10, <1>12 DEF IdempotencyInv

\* The reply is stored, or the key given back; either may fail without a word.
LEMMA StoreInv ==
    ASSUME IdempotencyAssumption, IdempotencyInv, NEW a \in Attempts, Store(a) PROVE IdempotencyInv'
  <1> DEFINE k == attempts[a].key
             b == attempts[a].body
             reply == IF attempts[a].status = 201 THEN "ok" ELSE "refused"
  <1>a. k \in ReqKeys /\ b \in Bodies /\ attempts[a] \in Attempt
        /\ keyRows \in [ReqKeys -> KeyRow] /\ keyRows[k] \in KeyRow
    BY DEF IdempotencyInv, IdempotencyTypeOK, Attempt
  <1>b. attempts[a].pc = "store" /\ UNCHANGED <<effects, faults>> /\ Answer(a, reply) /\ reply \in Replies
    BY DEF Store, Replies
  <1>0. k \in ReqKeys /\ b \in Bodies /\ attempts[a] \in Attempt /\ attempts[a].pc = "store" /\ Owns(a)
        /\ keyRows \in [ReqKeys -> KeyRow] /\ keyRows[k] \in KeyRow
        /\ UNCHANGED <<effects, faults>> /\ Answer(a, reply) /\ reply \in Replies
    BY <1>a, <1>b DEF Owns
  <1>1. /\ keyRows[k].hash = b
        /\ \/ attempts[a].status = 201 /\ effects[k][b] = 1
           \/ attempts[a].status = 422 /\ effects[k][b] = 0
    BY <1>0 DEF IdempotencyInv, OwnerInv
  <1>2. PICK row \in KeyRow :
          /\ keyRows' = [keyRows EXCEPT ![k] = row]
          /\ \/ row = keyRows[k]
             \/ row.hash = b /\ row.status = 201 /\ effects[k][b] = 1
             \/ row = Free /\ effects[k][b] = 0
    <2>1. CASE attempts[a].status = 201 /\ SaveIdempotency(k)
      <3> DEFINE new == [keyRows[k] EXCEPT !.status = 201]
      <3>1. new \in KeyRow /\ new.hash = b /\ new.status = 201
        BY <1>0, <1>1 DEF KeyRow
      <3>2. keyRows' = [keyRows EXCEPT ![k] = new]
        BY <2>1, <1>0 DEF SaveIdempotency
      <3>3. effects[k][b] = 1
        BY <1>1, <2>1
      <3> HIDE DEF new
      <3> QED BY <3>1, <3>2, <3>3
    <2>2. CASE attempts[a].status = 422 /\ DropIdempotency(k)
      <3>1. Free \in KeyRow
        BY DEF Free, KeyRow
      <3>2. keyRows' = [keyRows EXCEPT ![k] = Free] /\ effects[k][b] = 0
        BY <1>1, <2>2 DEF DropIdempotency
      <3> QED BY <3>1, <3>2
    <2>3. CASE UNCHANGED keyRows
      <3>1. keyRows' = [keyRows EXCEPT ![k] = keyRows[k]]
        BY <1>0, <2>3
      <3> QED BY <1>0, <3>1
    <2> QED BY <2>1, <2>2, <2>3 DEF Store
  <1>3. keyRows' \in [ReqKeys -> KeyRow] /\ keyRows'[k] = row
        /\ \A l \in ReqKeys : l # k => keyRows'[l] = keyRows[l]
    BY <1>0, <1>2
  <1>4. IdempotencyTypeOK'
    BY ZenonT(60), <1>0, <1>3, OneAttempt, Answered DEF IdempotencyInv, IdempotencyTypeOK, Answer
  <1>5. RowsInv'
    <2> SUFFICES ASSUME NEW l \in ReqKeys
                 PROVE  /\ keyRows'[l].hash = NoBody => keyRows'[l].status = 0 /\ \A d \in Bodies : effects[l][d] = 0
                        /\ \A d \in Bodies : effects[l][d] <= 1 /\ (d # keyRows'[l].hash => effects[l][d] = 0)
                        /\ keyRows'[l].status = 201 => effects[l][keyRows'[l].hash] = 1
      BY <1>0 DEF RowsInv
    <2>1. CASE l # k
      BY <1>3, <2>1 DEF IdempotencyInv, RowsInv
    <2>2. CASE l = k
      BY <1>0, <1>1, <1>2, <1>3, <2>2 DEF IdempotencyInv, RowsInv, IdempotencyAssumption, Free
    <2> QED BY <2>1, <2>2
  <1>6. \A l \in ReqKeys : keyRows'[l].hash = keyRows[l].hash \/ (Owns(a) /\ attempts[a].key = l)
    BY <1>0, <1>3
  <1>7. reply = "ok" => effects[k][b] = 1
    BY <1>1
  <1> QED BY <1>0, <1>4, <1>5, <1>6, <1>7, AnswerInv

\* A crash takes the requests that were running, and with them their claim's owner.
LEMMA CrashInv ==
    ASSUME IdempotencyAssumption, IdempotencyInv, ServerCrash PROVE IdempotencyInv'
  <1>0. UNCHANGED <<keyRows, effects>> /\ attempts \in [Attempts -> Attempt]
    BY DEF ServerCrash, IdempotencyInv, IdempotencyTypeOK
  <1>1. \A c \in Attempts : attempts'[c] = attempts[c] \/ attempts'[c] = [attempts[c] EXCEPT !.pc = "dead"]
    BY DEF ServerCrash
  <1>2. \A c \in Attempts : attempts'[c] \in Attempt /\ (attempts'[c] = attempts[c] \/ attempts'[c].pc = "dead")
    <2> SUFFICES ASSUME NEW c \in Attempts
                 PROVE  attempts'[c] \in Attempt /\ (attempts'[c] = attempts[c] \/ attempts'[c].pc = "dead")
      OBVIOUS
    <2> DEFINE r == [attempts[c] EXCEPT !.pc = "dead"]
    <2>1. attempts[c] \in Attempt
      BY <1>0
    <2>2. r \in Attempt /\ r.pc = "dead"
      BY <2>1 DEF Attempt, Pcs
    <2> QED BY <1>1, <2>1, <2>2
  <1>3. attempts' \in [Attempts -> Attempt]
    <2>1. attempts' = [c \in Attempts |-> attempts'[c]]
      BY DEF ServerCrash
    <2> QED BY <2>1, <1>2
  <1>4. faults' \in [crashes : 0..MaxCrashes, purges : 0..MaxPurges]
    BY DEF ServerCrash, IdempotencyInv, IdempotencyTypeOK, IdempotencyAssumption
  <1>5. IdempotencyTypeOK' /\ RowsInv'
    BY <1>0, <1>3, <1>4 DEF IdempotencyInv, IdempotencyTypeOK, RowsInv
  <1>6. OwnerInv' /\ ToldInv'
    BY <1>0, <1>2 DEF IdempotencyInv, OwnerInv, ToldInv, Owns
  <1> QED BY <1>5, <1>6 DEF IdempotencyInv

\* A purged key starts anew; nobody owns it, and nobody is held to what it was told.
LEMMA PurgeInv ==
    ASSUME IdempotencyAssumption, IdempotencyInv, NEW k \in ReqKeys, PurgeKey(k) PROVE IdempotencyInv'
  <1>0. attempts \in [Attempts -> Attempt] /\ keyRows \in [ReqKeys -> KeyRow] /\ effects \in [ReqKeys -> [Bodies -> Nat]]
    BY DEF IdempotencyInv, IdempotencyTypeOK
  <1>1. \A c \in Attempts : attempts'[c] = IF attempts[c].key = k /\ attempts[c].pc = "end"
                                           THEN [attempts[c] EXCEPT !.pc = "dead"] ELSE attempts[c]
    BY DEF PurgeKey
  <1>2. \A c \in Attempts : /\ attempts'[c] \in Attempt
                            /\ attempts'[c].pc = "dead" \/ (attempts'[c] = attempts[c] /\ (attempts[c].key = k => attempts[c].pc # "end"))
    <2> SUFFICES ASSUME NEW c \in Attempts
                 PROVE  /\ attempts'[c] \in Attempt
                        /\ attempts'[c].pc = "dead" \/ (attempts'[c] = attempts[c] /\ (attempts[c].key = k => attempts[c].pc # "end"))
      OBVIOUS
    <2> DEFINE r == [attempts[c] EXCEPT !.pc = "dead"]
    <2>1. attempts[c] \in Attempt
      BY <1>0
    <2>2. r \in Attempt /\ r.pc = "dead"
      BY <2>1 DEF Attempt, Pcs
    <2>3. attempts'[c] = IF attempts[c].key = k /\ attempts[c].pc = "end" THEN r ELSE attempts[c]
      BY <1>1
    <2> HIDE DEF r
    <2> QED BY <2>1, <2>2, <2>3
  <1>3. attempts' \in [Attempts -> Attempt]
    <2>1. attempts' = [c \in Attempts |-> attempts'[c]]
      BY DEF PurgeKey
    <2> QED BY <2>1, <1>2
  <1>4. faults' \in [crashes : 0..MaxCrashes, purges : 0..MaxPurges]
    BY DEF PurgeKey, IdempotencyInv, IdempotencyTypeOK, IdempotencyAssumption
  <1>5. Free \in KeyRow /\ Free.hash = NoBody /\ Free.status = 0
    BY DEF Free, KeyRow
  <1>6. keyRows' \in [ReqKeys -> KeyRow] /\ keyRows'[k] = Free
        /\ \A l \in ReqKeys : l # k => keyRows'[l] = keyRows[l]
    BY <1>0, <1>5 DEF PurgeKey
  <1>7. effects' \in [ReqKeys -> [Bodies -> Nat]] /\ (\A b \in Bodies : effects'[k][b] = 0)
        /\ \A l \in ReqKeys : l # k => effects'[l] = effects[l]
    BY <1>0 DEF PurgeKey
  <1>8. IdempotencyTypeOK'
    BY <1>3, <1>4, <1>6, <1>7 DEF IdempotencyTypeOK
  <1>9. RowsInv'
    BY <1>5, <1>6, <1>7 DEF IdempotencyInv, RowsInv
  <1>10. \A c \in Attempts : attempts'[c].pc \in {"handle", "store", "end"} =>
            attempts'[c] = attempts[c] /\ attempts[c].key \in ReqKeys \ {k}
    BY SMTT(60), <1>0, <1>2 DEF PurgeKey, Attempt
  <1>11. OwnerInv'
    BY <1>6, <1>7, <1>10 DEF IdempotencyInv, OwnerInv, Owns
  <1>12. ToldInv'
    BY <1>7, <1>10 DEF IdempotencyInv, ToldInv
  <1> QED BY <1>8, <1>9, <1>11, <1>12 DEF IdempotencyInv

\* Every step keeps the invariant.
LEMMA NextInv ==
    ASSUME IdempotencyAssumption, IdempotencyInv, [IdempotencyNext]_idempotencyVars PROVE IdempotencyInv'
  <1>1. CASE IdempotencyNext
    BY <1>1, SendInv, ClaimInv, LookupInv, HandleInv, StoreInv, CrashInv, PurgeInv DEF IdempotencyNext
  <1>2. CASE UNCHANGED idempotencyVars
    BY <1>2 DEF idempotencyVars, IdempotencyInv, IdempotencyTypeOK, RowsInv, OwnerInv, ToldInv, Owns
  <1> QED BY <1>1, <1>2

\* The invariant says what a client may rely on.
LEMMA InvSafe == ASSUME IdempotencyAssumption, IdempotencyInv PROVE RetriesAreSafe
  BY DEF IdempotencyAssumption, IdempotencyInv, IdempotencyTypeOK, RowsInv, ToldInv, RetriesAreSafe

\* For any number of attempts, keys, bodies, crashes and purges, a request is carried out once
\* at most until its key is purged, for one body, and success is told only of work that was
\* done (api/idempotency.go).
THEOREM RetriesSafe ==
    ASSUME IdempotencyAssumption PROVE IdempotencySpec => []RetriesAreSafe
  <1>1. IdempotencyInit => IdempotencyInv
    BY InitInv
  <1>2. IdempotencyInv /\ [IdempotencyNext]_idempotencyVars => IdempotencyInv'
    BY NextInv
  <1>3. IdempotencyInv => RetriesAreSafe
    BY InvSafe
  <1> QED BY <1>1, <1>2, <1>3, PTL DEF IdempotencySpec

-----------------------------------------------------------------------------
(* Idempotency implements OnceOnly. *)

\* Steps that tell nobody anything, and take nothing back.
LEMMA SameTold ==
    ASSUME \A c \in Attempts :
             \/ attempts'[c] = attempts[c]
             \/ attempts'[c].pc # "end" /\ attempts[c].pc # "end"
             \/ attempts[c].pc # "end" /\ attempts'[c].reply # "ok"
    PROVE  Told' = Told
  <1>1. \A c \in Attempts : (attempts[c].pc = "end" /\ attempts[c].reply = "ok") <=>
                             (attempts'[c].pc = "end" /\ attempts'[c].reply = "ok")
    OBVIOUS
  <1>2. \A c \in Attempts : attempts[c].pc = "end" /\ attempts[c].reply = "ok" => attempts'[c] = attempts[c]
    OBVIOUS
  <1> QED BY <1>1, <1>2 DEF Told

\* An answer is a step of the promise, or says nothing about it.
LEMMA AnswerRefines ==
    ASSUME IdempotencyInv, NEW a \in Attempts, NEW reply \in Replies, Answer(a, reply), attempts[a].pc # "end",
           UNCHANGED effects, reply = "ok" => effects[attempts[a].key][attempts[a].body] = 1
    PROVE  [Once!OnceNext]_(Once!onceVars)
  <1> DEFINE k == attempts[a].key
             b == attempts[a].body
             r == [attempts[a] EXCEPT !.pc = "end", !.reply = reply]
  <1>1. attempts[a] \in Attempt /\ k \in ReqKeys /\ b \in Bodies
    BY DEF IdempotencyInv, IdempotencyTypeOK, Attempt
  <1>2. r \in Attempt /\ r.pc = "end" /\ r.reply = reply /\ r.key = k /\ r.body = b
    BY <1>1, Answered
  <1>3. With(a, r)
    BY DEF Answer
  <1> HIDE DEF r
  <1>4. attempts'[a] = r /\ \A c \in Attempts : c # a => attempts'[c] = attempts[c]
    BY <1>2, <1>3, OneAttempt DEF IdempotencyInv, IdempotencyTypeOK
  <1>5. CASE reply = "ok"
    <2>1. \A t : t \in Told' <=> t \in Told \/ t = <<a, k, b>>
      BY <1>2, <1>4, <1>5 DEF Told
    <2>2. Told' = Told \cup {<<a, k, b>>}
      BY <2>1
    <2>3. Once!Tell(a, k, b)
      BY <1>5, <2>2 DEF Once!Tell
    <2> QED BY <1>1, <2>3 DEF Once!OnceNext
  <1>6. CASE reply # "ok"
    <2>1. Told' = Told
      BY <1>2, <1>4, <1>6, SameTold
    <2> QED BY <2>1 DEF Once!onceVars
  <1> QED BY <1>5, <1>6

\* Every step of Idempotency is a step of OnceOnly or a stutter.
LEMMA NextRefines ==
    ASSUME IdempotencyAssumption, IdempotencyInv, [IdempotencyNext]_idempotencyVars
    PROVE  [Once!OnceNext]_(Once!onceVars)
  <1>0. attempts \in [Attempts -> Attempt] /\ effects \in [ReqKeys -> [Bodies -> Nat]]
    BY DEF IdempotencyInv, IdempotencyTypeOK
  <1>1. ASSUME NEW a \in Attempts, NEW k \in ReqKeys, NEW b \in Bodies, Send(a, k, b)
        PROVE  [Once!OnceNext]_(Once!onceVars)
    <2> DEFINE r == [attempts[a] EXCEPT !.pc = "claim", !.key = k, !.body = b]
    <2>0. attempts[a] \in Attempt /\ "claim" \in Pcs
      BY <1>0 DEF Pcs
    <2>1. r \in Attempt /\ r.pc = "claim"
      BY ZenonT(60), <2>0 DEF Attempt
    <2>2. With(a, r) /\ UNCHANGED effects /\ attempts[a].pc = "new"
      BY <1>1 DEF Send
    <2> HIDE DEF r
    <2>3. attempts'[a] = r /\ \A c \in Attempts : c # a => attempts'[c] = attempts[c]
      BY <1>0, <2>1, <2>2, OneAttempt
    <2>4. Told' = Told
      BY <2>1, <2>2, <2>3, SameTold
    <2> QED BY <2>2, <2>4 DEF Once!onceVars
  <1>2. ASSUME NEW a \in Attempts, ClaimIdempotency(a)
        PROVE  [Once!OnceNext]_(Once!onceVars)
    <2>1. PICK pc \in {"handle", "lookup"} : Step(a, pc)
      BY <1>2 DEF ClaimIdempotency
    <2> DEFINE r == [attempts[a] EXCEPT !.pc = pc]
    <2>2. attempts[a] \in Attempt /\ pc \in Pcs
      BY <1>0 DEF Pcs
    <2>3. r \in Attempt /\ r.pc = pc
      BY <2>2, Moved
    <2>4. With(a, r) /\ UNCHANGED effects /\ attempts[a].pc = "claim"
      BY <1>2, <2>1 DEF ClaimIdempotency, Step
    <2> HIDE DEF r
    <2>5. attempts'[a] = r /\ \A c \in Attempts : c # a => attempts'[c] = attempts[c]
      BY <1>0, <2>3, <2>4, OneAttempt
    <2>6. Told' = Told
      BY <2>3, <2>4, <2>5, SameTold
    <2> QED BY <2>4, <2>6 DEF Once!onceVars
  <1>3. ASSUME NEW a \in Attempts, Lookup(a)
        PROVE  [Once!OnceNext]_(Once!onceVars)
    <2> DEFINE k == attempts[a].key
               b == attempts[a].body
    <2>1. k \in ReqKeys /\ b \in Bodies /\ keyRows[k] \in KeyRow
      BY DEF IdempotencyInv, IdempotencyTypeOK, Attempt
    <2>2. UNCHANGED effects /\ attempts[a].pc # "end"
      BY <1>3 DEF Lookup
    <2>3. PICK reply \in Replies : Answer(a, reply) /\
            (reply = "ok" => keyRows[k] # Free /\ keyRows[k].hash = b /\ keyRows[k].status # 0)
      BY <1>3 DEF Lookup, ReadRow, Replies
    <2>4. reply = "ok" => effects[k][b] = 1
      BY <2>1, <2>3 DEF IdempotencyInv, RowsInv, KeyRow
    <2> QED BY <2>2, <2>3, <2>4, AnswerRefines
  <1>4. ASSUME NEW a \in Attempts, Handle(a)
        PROVE  [Once!OnceNext]_(Once!onceVars)
    <2> DEFINE k == attempts[a].key
               b == attempts[a].body
    <2>1. k \in ReqKeys /\ b \in Bodies /\ attempts[a] \in Attempt /\ attempts[a].pc = "handle" /\ Owns(a)
      BY <1>4 DEF IdempotencyInv, IdempotencyTypeOK, Attempt, Handle, Owns
    <2>2. \A d \in Bodies : effects[k][d] = 0
      BY <2>1 DEF IdempotencyInv, OwnerInv, RowsInv
    <2>3. PICK st \in {201, 422} :
            /\ With(a, [attempts[a] EXCEPT !.pc = "store", !.status = st])
            /\ st = 201 => effects' = [effects EXCEPT ![k][b] = @ + 1]
            /\ st = 422 => UNCHANGED effects
      BY <1>4 DEF Handle
    <2> DEFINE r == [attempts[a] EXCEPT !.pc = "store", !.status = st]
    <2>4. r \in Attempt /\ r.pc = "store" /\ With(a, r)
      BY ZenonT(60), <2>1, <2>3 DEF Attempt, Pcs
    <2> HIDE DEF r
    <2>5. attempts'[a] = r /\ \A c \in Attempts : c # a => attempts'[c] = attempts[c]
      BY <1>0, <2>4, OneAttempt
    <2>6. Told' = Told
      BY <2>1, <2>4, <2>5, SameTold
    <2>7. CASE st = 201
      <3>1. effects' = [effects EXCEPT ![k][b] = 1]
        BY <1>0, <2>1, <2>2, <2>3, <2>7
      <3>2. Once!CarryOut(k, b)
        BY <2>2, <2>6, <3>1 DEF Once!CarryOut
      <3> QED BY <2>1, <3>2 DEF Once!OnceNext
    <2>8. CASE st = 422
      BY <2>3, <2>6, <2>8 DEF Once!onceVars
    <2> QED BY <2>7, <2>8
  <1>5. ASSUME NEW a \in Attempts, Store(a)
        PROVE  [Once!OnceNext]_(Once!onceVars)
    <2> DEFINE reply == IF attempts[a].status = 201 THEN "ok" ELSE "refused"
    <2>1. UNCHANGED effects /\ attempts[a].pc = "store" /\ Owns(a) /\ Answer(a, reply)
      BY <1>5 DEF Store, Owns
    <2>2. reply \in Replies
      BY DEF Replies
    <2>3. reply = "ok" => effects[attempts[a].key][attempts[a].body] = 1
      BY <2>1 DEF IdempotencyInv, OwnerInv
    <2> QED BY <2>1, <2>2, <2>3, AnswerRefines
  <1>6. ASSUME ServerCrash
        PROVE  [Once!OnceNext]_(Once!onceVars)
    <2>1. \A c \in Attempts : attempts'[c] = attempts[c]
            \/ (attempts[c].pc # "end" /\ attempts'[c] = [attempts[c] EXCEPT !.pc = "dead"])
      BY <1>6 DEF ServerCrash
    <2>2. \A c \in Attempts : [attempts[c] EXCEPT !.pc = "dead"].pc = "dead"
      BY <1>0 DEF Attempt
    <2>3. Told' = Told
      BY <2>1, <2>2, SameTold
    <2> QED BY <1>6, <2>3 DEF ServerCrash, Once!onceVars
  <1>7. ASSUME NEW k \in ReqKeys, PurgeKey(k)
        PROVE  [Once!OnceNext]_(Once!onceVars)
    <2>1. \A c \in Attempts : attempts'[c] = IF attempts[c].key = k /\ attempts[c].pc = "end"
                                             THEN [attempts[c] EXCEPT !.pc = "dead"] ELSE attempts[c]
      BY <1>7 DEF PurgeKey
    <2>2. \A c \in Attempts : [attempts[c] EXCEPT !.pc = "dead"].pc = "dead"
      BY <1>0 DEF Attempt
    <2>3. \A c \in Attempts :
            (attempts'[c].pc = "end" /\ attempts'[c].reply = "ok") <=>
            (attempts[c].pc = "end" /\ attempts[c].reply = "ok" /\ attempts[c].key # k)
      BY <2>1, <2>2
    <2>4. \A c \in Attempts : attempts'[c].pc = "end" => attempts'[c] = attempts[c]
      BY <2>1, <2>2
    <2>5. Told' = {t \in Told : t[2] # k}
      BY <2>3, <2>4 DEF Told
    <2>6. Once!Forget(k)
      BY <1>7, <2>5 DEF PurgeKey, Once!Forget
    <2> QED BY <2>6 DEF Once!OnceNext
  <1>8. CASE UNCHANGED idempotencyVars
    BY <1>8 DEF idempotencyVars, Once!onceVars, Told
  <1> QED BY <1>1, <1>2, <1>3, <1>4, <1>5, <1>6, <1>7, <1>8 DEF IdempotencyNext

\* Idempotency keys keep their promise for every instance: claims, replies, crashes, retries
\* and purges of api/idempotency.go implement OnceOnly.
THEOREM ImplementsOnceOnly ==
    ASSUME IdempotencyAssumption PROVE IdempotencySpec => CarriedOutOnce
  <1>1. IdempotencyInit => IdempotencyInv
    BY InitInv
  <1>2. IdempotencyInv /\ [IdempotencyNext]_idempotencyVars => IdempotencyInv'
    BY NextInv
  <1>3. IdempotencyInit => Once!OnceInit
    BY DEF IdempotencyInit, Once!OnceInit, Told
  <1>4. IdempotencyInv /\ [IdempotencyNext]_idempotencyVars => [Once!OnceNext]_(Once!onceVars)
    BY NextRefines
  <1> QED BY <1>1, <1>2, <1>3, <1>4, PTL DEF IdempotencySpec, CarriedOutOnce, Once!OnceSpec
=============================================================================
