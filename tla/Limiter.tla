------------------------------ MODULE Limiter ------------------------------
(***************************************************************************)
(* The rate limiter (internal/ratelimit): for every key the theoretical    *)
(* arrival time of the next request, `tat'.  A request moves it on by      *)
(* Interval and is let through unless it would then lie more than Period   *)
(* ahead of the clock.  The table is swept now and then and holds MaxKeys  *)
(* keys; the limiters of sign-in, of the API, of failed tokens and of      *)
(* shares are instances of it.  A mutex makes every call one step.         *)
(***************************************************************************)
EXTENDS Integers, Sequences, FiniteSets

CONSTANTS
    Keys, Period, Interval,
    SweepEvery,       \* calls between two sweeps
    MaxKeys,          \* keys in the table
    EvictFraction,    \* the part of a full table that is thrown out
    MaxHits,          \* bound: requests let through, per key
    MaxClock          \* bound

Never == -1

\* What the constants must satisfy.
LimiterAssumption ==
    /\ IsFiniteSet(Keys)
    /\ {Period, Interval, SweepEvery, MaxKeys, EvictFraction} \subseteq Nat \ {0}
    /\ Interval <= Period /\ EvictFraction <= MaxKeys /\ MaxHits \in Nat /\ MaxClock \in Nat

VARIABLES
    tat,      \* key -> time, or Never if the key is not in the table
    turn,     \* calls since the last sweep
    clock,
    hits,     \* ghost: the times at which requests of a key were let through since it was
              \* last forgiven
    told      \* ghost: key -> when the last refused request was told to come again

limiterVars == <<tat, turn, clock, hits, told>>

LimiterTypeOK ==
    /\ tat \in [Keys -> Nat \cup {Never}]
    /\ turn \in 0..(SweepEvery - 1)
    /\ clock \in 0..MaxClock
    /\ hits \in [Keys -> Seq(Nat)]
    /\ told \in [Keys -> Nat \cup {Never}]
    /\ Cardinality({k \in Keys : tat[k] # Never}) <= MaxKeys

Held(table) == {k \in Keys : table[k] # Never}

\* Mutant: a sweep forgets every key that may send one request now.
ExpireEarly(table) ==
    [k \in Keys |-> IF table[k] + Interval - Period <= clock THEN Never ELSE table[k]]

\* expire: a key whose time has come is as good as one never seen.
Expire(table) == [k \in Keys |-> IF table[k] <= clock THEN Never ELSE table[k]]

\* sweep, on every SweepEvery-th call.
Sweep(table) == IF (turn + 1) % SweepEvery = 0 THEN Expire(table) ELSE table

\* Mutant: only what has run out goes.
EvictExpired(table) == {Expire(table)}

\* evict: the keys that owe least go first.
Evict(table) ==
    LET left == Expire(table)
        n    == Cardinality(Held(left)) \div EvictFraction
    IN  IF Cardinality(Held(left)) < MaxKeys THEN {left}
        ELSE {[k \in Keys |-> IF k \in out THEN Never ELSE left[k]] :
                out \in {o \in SUBSET Held(left) :
                            /\ Cardinality(o) = n
                            /\ \A i \in o, j \in Held(left) \ o : left[i] <= left[j]}}

\* Keys that are thrown out while they still owe, and keys that are reset, are forgiven.
Forgive(ks) == /\ hits' = [k \in Keys |-> IF k \in ks THEN <<>> ELSE hits[k]]
               /\ told' = [k \in Keys |-> IF k \in ks THEN Never ELSE told[k]]

\* Allow: AllowN with one request.
Allow(k) ==
    /\ turn' = (turn + 1) % SweepEvery
    /\ UNCHANGED clock
    /\ LET swept == Sweep(tat)
       IN  \E table \in IF swept[k] = Never /\ Cardinality(Held(swept)) >= MaxKeys
                        THEN Evict(swept) ELSE {swept} :
             LET from == IF table[k] < clock THEN clock ELSE table[k]
                 next == from + Interval
                 gone == {j \in Keys : swept[j] > clock /\ table[j] = Never}
                 past == [j \in Keys |-> IF j \in gone THEN <<>> ELSE hits[j]]
             IN  \/ /\ clock >= next - Period             \* let through
                    /\ Len(hits[k]) < MaxHits
                    /\ tat' = [table EXCEPT ![k] = next]
                    /\ hits' = [past EXCEPT ![k] = Append(@, clock)]
                    /\ told' = [j \in Keys |-> IF j \in gone \cup {k} THEN Never ELSE told[j]]
                 \/ /\ clock < next - Period              \* refused: Retry-After
                    /\ tat' = table
                    /\ hits' = past
                    /\ told' = [[j \in Keys |-> IF j \in gone THEN Never ELSE told[j]]
                                  EXCEPT ![k] = next - Period]

\* Reset, after a sign-in with the right password.
Reset(k) ==
    /\ tat[k] # Never /\ tat' = [tat EXCEPT ![k] = Never]
    /\ Forgive({k}) /\ UNCHANGED <<turn, clock>>

\* Blocked: may the key send one request now?
Blocked(k) == tat[k] # Never /\ tat[k] + Interval - Period - clock > 0

\* Middleware, in front of a route; bearer, which counts the requests with a wrong token.
Middleware(k) == Allow(k)
Bearer(k) == ~Blocked(k) /\ Allow(k)

LimiterTick ==
    /\ clock < MaxClock /\ clock' = clock + 1
    /\ UNCHANGED <<tat, turn, hits, told>>

LimiterInit ==
    /\ tat = [k \in Keys |-> Never] /\ turn = 0 /\ clock = 0
    /\ hits = [k \in Keys |-> <<>>] /\ told = [k \in Keys |-> Never]

LimiterNext == (\E k \in Keys : Middleware(k) \/ Bearer(k) \/ Reset(k)) \/ LimiterTick

LimiterSpec == LimiterInit /\ [][LimiterNext]_limiterVars

-----------------------------------------------------------------------------
\* Between any two requests of a key that were let through there were no more than a
\* burst and what the rate allows for the time between them, and the sweeps of the
\* table, which forget keys, do not give anybody more (AllowN, expire).
WithinRate ==
    \A k \in Keys : \A i, j \in 1..Len(hits[k]) :
        i <= j => j - i + 1 <= (Period + hits[k][j] - hits[k][i]) \div Interval

\* A key that was refused and stays away until the time it was told is not refused
\* again, by Allow or by Blocked (Retry-After).
RetryIsHonoured ==
    \A k \in Keys : told[k] # Never /\ clock >= told[k] => ~Blocked(k)

-----------------------------------------------------------------------------
(* Why it holds: the inductive invariant. *)

Cost(n) == n * Interval

\* Where the next request of a key counts from.
Ahead(k) == IF tat[k] < clock THEN clock ELSE tat[k]

\* A request that was let through is paid for: each later one moved the key's time on by
\* Interval, and the table forgets a key only when its time has come, or forgives it.
PaidInv ==
    \A k \in Keys : \A i \in 1..Len(hits[k]) :
        hits[k][i] + Cost(Len(hits[k]) - i + 1) <= Ahead(k)

\* WithinRate without the division.
BurstInv ==
    \A k \in Keys : \A i, j \in 1..Len(hits[k]) :
        i <= j => Cost(j - i + 1) <= Period + hits[k][j] - hits[k][i]

\* A key that is still in the table keeps the time it was told.
ToldInv ==
    \A k \in Keys : told[k] # Never /\ tat[k] # Never => told[k] = tat[k] + Interval - Period

LimiterInv == LimiterTypeOK /\ PaidInv /\ BurstInv /\ ToldInv
=============================================================================
