---------------------------- MODULE Idempotency ----------------------------
(***************************************************************************)
(* Retried creations of the API (api/idempotency.go over                   *)
(* store/pg/idempotency.go): a POST with an Idempotency-Key claims the     *)
(* key, runs the handler, and stores the reply for those that come later   *)
(* with the same key.  The claim, the handler's transaction, and the       *)
(* storing of the reply are separate statements; the server may die        *)
(* between them, and several attempts of one client may run at once.       *)
(***************************************************************************)
EXTENDS Integers, FiniteSets

CONSTANTS
    Attempts,     \* requests that are sent (bound)
    ReqKeys,      \* idempotency keys of one user
    Bodies,       \* request bodies, by their hash
    NoBody,
    MaxCrashes,   \* bound
    MaxPurges     \* bound

\* What the constants must satisfy.
IdempotencyAssumption ==
    /\ NoBody \notin Bodies /\ ReqKeys # {} /\ Bodies # {}
    /\ MaxCrashes \in Nat /\ MaxPurges \in Nat

VARIABLES
    keyRows,    \* idempotency_keys: key -> the hash of the request and its stored status
    attempts,   \* attempt -> where it is, and what its client was answered
    effects,    \* ghost: key -> how often each body was carried out, since the last purge
    faults      \* crashes and purges that happened

idempotencyVars == <<keyRows, attempts, effects, faults>>

Free    == [hash |-> NoBody, status |-> 0]
Pcs     == {"new", "claim", "lookup", "handle", "store", "end", "dead"}
Replies == {"none", "ok", "refused", "in flight", "key reused"}

KeyRow  == [hash : Bodies \cup {NoBody}, status : {0, 201}]
Attempt == [pc : Pcs, key : ReqKeys, body : Bodies, status : {0, 201, 422}, reply : Replies]

IdempotencyTypeOK ==
    /\ keyRows \in [ReqKeys -> KeyRow]
    /\ attempts \in [Attempts -> Attempt]
    /\ effects \in [ReqKeys -> [Bodies -> Nat]]
    /\ faults \in [crashes : 0..MaxCrashes, purges : 0..MaxPurges]

With(a, r)       == attempts' = [attempts EXCEPT ![a] = r]
Step(a, pc)      == With(a, [attempts[a] EXCEPT !.pc = pc])
Answer(a, reply) == With(a, [attempts[a] EXCEPT !.pc = "end", !.reply = reply])

\* A client sends a request, the first time or again.
Send(a, k, b) ==
    /\ attempts[a].pc = "new"
    /\ With(a, [attempts[a] EXCEPT !.pc = "claim", !.key = k, !.body = b])
    /\ UNCHANGED <<keyRows, effects, faults>>

\* ClaimIdempotency: INSERT ... ON CONFLICT DO NOTHING.
ClaimIdempotency(a) ==
    LET k == attempts[a].key
    IN  /\ attempts[a].pc = "claim"
        /\ IF keyRows[k] = Free
           THEN /\ keyRows' = [keyRows EXCEPT ![k] = [hash |-> attempts[a].body, status |-> 0]]
                /\ Step(a, "handle")
           ELSE Step(a, "lookup") /\ UNCHANGED keyRows
        /\ UNCHANGED <<effects, faults>>

\* The row of a key, as the second attempt reads it.
ReadRow(k) == keyRows[k]

\* Mutant: a key whose request has no stored reply is taken over.
LookupTakesOver(a) ==
    LET row == ReadRow(attempts[a].key)
    IN  /\ attempts[a].pc = "lookup"
        /\ CASE row = Free -> Answer(a, "refused")
             [] row # Free /\ row.hash # attempts[a].body -> Answer(a, "key reused")
             [] row # Free /\ row.hash = attempts[a].body /\ row.status = 0 -> Step(a, "handle")
             [] OTHER -> Answer(a, "ok")
        /\ UNCHANGED <<keyRows, effects, faults>>

\* The key was taken: another request, one that still runs, or a reply to repeat.  The
\* row may have been dropped since.
Lookup(a) ==
    LET row == ReadRow(attempts[a].key)
    IN  /\ attempts[a].pc = "lookup"
        /\ Answer(a, CASE row = Free -> "refused"
                       [] row # Free /\ row.hash # attempts[a].body -> "key reused"
                       [] row # Free /\ row.hash = attempts[a].body /\ row.status = 0 -> "in flight"
                       [] OTHER -> "ok")
        /\ UNCHANGED <<keyRows, effects, faults>>

\* The handler: its transaction commits, or it refuses and changes nothing.
Handle(a) ==
    /\ attempts[a].pc = "handle"
    /\ \/ /\ effects' = [effects EXCEPT ![attempts[a].key][attempts[a].body] = @ + 1]
          /\ With(a, [attempts[a] EXCEPT !.pc = "store", !.status = 201])
       \/ /\ With(a, [attempts[a] EXCEPT !.pc = "store", !.status = 422])
          /\ UNCHANGED effects
    /\ UNCHANGED <<keyRows, faults>>

SaveIdempotency(k) == keyRows[k] # Free /\ keyRows' = [keyRows EXCEPT ![k].status = 201]
DropIdempotency(k) == keyRows' = [keyRows EXCEPT ![k] = Free]

\* SaveIdempotency after a success, DropIdempotency after a refusal; an error of either
\* is ignored.
Store(a) ==
    LET k == attempts[a].key
    IN  /\ attempts[a].pc = "store"
        /\ \/ attempts[a].status = 201 /\ SaveIdempotency(k)
           \/ attempts[a].status = 422 /\ DropIdempotency(k)
           \/ UNCHANGED keyRows
        /\ Answer(a, IF attempts[a].status = 201 THEN "ok" ELSE "refused")
        /\ UNCHANGED <<effects, faults>>

\* The server dies; the requests it was working on go unanswered.
ServerCrash ==
    /\ faults.crashes < MaxCrashes
    /\ faults' = [faults EXCEPT !.crashes = @ + 1]
    /\ attempts' = [a \in Attempts |-> IF attempts[a].pc \in {"claim", "lookup", "handle", "store"}
                                       THEN [attempts[a] EXCEPT !.pc = "dead"] ELSE attempts[a]]
    /\ UNCHANGED <<keyRows, effects>>

\* Cleanup removes a key a day after its claim, when no request runs any more.
PurgeKey(k) ==
    /\ faults.purges < MaxPurges /\ keyRows[k] # Free
    /\ \A a \in Attempts : attempts[a].key = k => attempts[a].pc \in {"new", "end", "dead"}
    /\ keyRows' = [keyRows EXCEPT ![k] = Free]
    /\ effects' = [effects EXCEPT ![k] = [b \in Bodies |-> 0]]
    /\ attempts' = [a \in Attempts |-> IF attempts[a].key = k /\ attempts[a].pc = "end"
                                       THEN [attempts[a] EXCEPT !.pc = "dead"] ELSE attempts[a]]
    /\ faults' = [faults EXCEPT !.purges = @ + 1]

IdempotencyInit ==
    /\ keyRows = [k \in ReqKeys |-> Free]
    /\ attempts = [a \in Attempts |-> [pc |-> "new", key |-> CHOOSE k \in ReqKeys : TRUE,
                     body |-> CHOOSE b \in Bodies : TRUE, status |-> 0, reply |-> "none"]]
    /\ effects = [k \in ReqKeys |-> [b \in Bodies |-> 0]]
    /\ faults = [crashes |-> 0, purges |-> 0]

IdempotencyNext ==
    \/ \E a \in Attempts :
          \/ \E k \in ReqKeys, b \in Bodies : Send(a, k, b)
          \/ ClaimIdempotency(a) \/ Lookup(a) \/ Handle(a) \/ Store(a)
    \/ ServerCrash
    \/ \E k \in ReqKeys : PurgeKey(k)

IdempotencySpec == IdempotencyInit /\ [][IdempotencyNext]_idempotencyVars

-----------------------------------------------------------------------------
\* Until its key is purged a request is carried out once at most, and for one body only,
\* however often the client retries, also beside the first attempt and across a crash of
\* the server; and an attempt is answered with success, by its own handler or from the
\* stored reply, only if exactly its body was carried out ("a client that retries after a
\* dropped connection does not create a second event", api/idempotency.go).
RetriesAreSafe ==
    /\ \A k \in ReqKeys : \A b, d \in Bodies : effects[k][b] > 0 /\ effects[k][d] > 0 => b = d
    /\ \A k \in ReqKeys, b \in Bodies : effects[k][b] <= 1
    /\ \A a \in Attempts : attempts[a].pc = "end" /\ attempts[a].reply = "ok" =>
          effects[attempts[a].key][attempts[a].body] = 1

-----------------------------------------------------------------------------
(* Why it holds: the inductive invariant, and the promise it keeps. *)

Owns(a) == attempts[a].pc \in {"handle", "store"}

\* A free key has done nothing; a claimed one at most the body it was claimed for; a stored
\* reply stands for work that was done.
RowsInv ==
    \A k \in ReqKeys :
        /\ keyRows[k].hash = NoBody => keyRows[k].status = 0 /\ \A b \in Bodies : effects[k][b] = 0
        /\ \A b \in Bodies : effects[k][b] <= 1 /\ (b # keyRows[k].hash => effects[k][b] = 0)
        /\ keyRows[k].status = 201 => effects[k][keyRows[k].hash] = 1

\* The attempt that claimed a key is alone with it, and knows whether its work was done.
OwnerInv ==
    \A a \in Attempts : Owns(a) =>
        /\ keyRows[attempts[a].key].hash = attempts[a].body
        /\ \A c \in Attempts : Owns(c) /\ attempts[c].key = attempts[a].key => c = a
        /\ attempts[a].pc = "handle" => effects[attempts[a].key][attempts[a].body] = 0
        /\ attempts[a].pc = "store" =>
              \/ attempts[a].status = 201 /\ effects[attempts[a].key][attempts[a].body] = 1
              \/ attempts[a].status = 422 /\ effects[attempts[a].key][attempts[a].body] = 0

\* Whoever was told that the work is done was told the truth.
ToldInv ==
    \A a \in Attempts : attempts[a].pc = "end" /\ attempts[a].reply = "ok" =>
        effects[attempts[a].key][attempts[a].body] = 1

IdempotencyInv == IdempotencyTypeOK /\ RowsInv /\ OwnerInv /\ ToldInv

Told == {<<a, attempts[a].key, attempts[a].body>> :
            a \in {c \in Attempts : attempts[c].pc = "end" /\ attempts[c].reply = "ok"}}

Once == INSTANCE OnceOnly WITH told <- Told

\* Claims, replies, crashes and retries together keep the promise of OnceOnly: every step of
\* api/idempotency.go is one of its steps or changes nothing it speaks of.
CarriedOutOnce == Once!OnceSpec
=============================================================================
