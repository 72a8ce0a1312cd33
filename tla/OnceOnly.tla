------------------------------ MODULE OnceOnly ------------------------------
(***************************************************************************)
(* What an Idempotency-Key promises, without claims, rows, replies or      *)
(* crashes: for each key one body is carried out at most once until the    *)
(* key is forgotten, and an attempt is told that its body was carried out  *)
(* only when it was.  Idempotency implements it (IdempotencyProofs).       *)
(***************************************************************************)
EXTENDS Integers

CONSTANTS Attempts, ReqKeys, Bodies

VARIABLES
    effects,   \* key -> how often each body was carried out
    told       \* who was told so: attempt, key, body

onceVars == <<effects, told>>

OnceInit ==
    /\ effects = [k \in ReqKeys |-> [b \in Bodies |-> 0]]
    /\ told = {}

CarryOut(k, b) ==
    /\ \A d \in Bodies : effects[k][d] = 0
    /\ effects' = [effects EXCEPT ![k][b] = 1]
    /\ UNCHANGED told

Tell(a, k, b) ==
    /\ effects[k][b] = 1
    /\ told' = told \cup {<<a, k, b>>}
    /\ UNCHANGED effects

Forget(k) ==
    /\ effects' = [effects EXCEPT ![k] = [b \in Bodies |-> 0]]
    /\ told' = {t \in told : t[2] # k}

OnceNext ==
    \/ \E k \in ReqKeys, b \in Bodies : CarryOut(k, b) \/ \E a \in Attempts : Tell(a, k, b)
    \/ \E k \in ReqKeys : Forget(k)

OnceSpec == OnceInit /\ [][OnceNext]_onceVars
=============================================================================
