----------------------------- MODULE Positions ------------------------------
(***************************************************************************)
(* The order of todos in a list and of the items of a checklist:           *)
(* internal/domain/position.go (keys between keys), relocate,              *)
(* positionAfter, nextTodo and the checklist calls of                      *)
(* internal/service/todos.go.                                              *)
(*                                                                         *)
(* A position is a string over 62 digits compared byte by byte, here a     *)
(* sequence over 0..Base-1.  A move locks the todo and its anchor and      *)
(* reads the neighbour's position without a lock, so what it reads may be  *)
(* old when it writes; a checklist is changed under the lock of its todo.  *)
(***************************************************************************)
EXTENDS Naturals, Sequences, FiniteSets

CONSTANTS Movers,    \* concurrent requests
          Items,     \* todos of the list
          Checks,    \* items of the checklist
          Base,      \* digits of a key, 62 in the code
          MaxLen,    \* length of a key the table accepts, 128 in the code
          MaxMoves   \* bound on the keys asked for

VARIABLES pos,     \* position of every todo of the list, <<>> when it is not there
          ask,     \* the move a request is in: the item and the keys it read
          checks,  \* positions of the checklist
          moves

positionsVars == <<pos, ask, checks, moves>>

NoKey == <<>>
Digits == 0..(Base - 1)
Mid == Base \div 2          \* the digit V

\* The order of strings: at the first digit that differs, or where a has ended.
Less(a, b) ==
    \E n \in 1..Len(b) :
      /\ \A i \in 1..(n - 1) : i <= Len(a) /\ a[i] = b[i]
      /\ (n > Len(a) \/ a[n] < b[n])

-----------------------------------------------------------------------------
(* KeyBetween.                                                             *)

\* keyAfter: the first digit that can grow grows, and the rest is dropped.
keyAfter(a) ==
    LET grows == {i \in 1..Len(a) : a[i] < Base - 1}
    IN  IF grows = {} THEN Append(a, Mid)
        ELSE LET i == CHOOSE i \in grows : \A j \in grows : i <= j
             IN  Append(SubSeq(a, 1, i - 1), a[i] + 1)

\* A digit of a key, 0 past its end.
at(a, i) == IF i <= Len(a) THEN a[i] ELSE 0

\* How many digits of b are those of a.
common(a, b) ==
    LET same == {n \in 0..Len(b) : \A i \in 1..n : at(a, i) = b[i]}
    IN  CHOOSE n \in same : \A m \in same : m <= n

\* midpoint with no upper key, of what a has from a place on: the digits that cannot grow, and
\* half of what is left above the first that can.
above(a, from) ==
    LET grows == {i \in from..(from + Len(a)) : at(a, i) < Base - 1}
        i == CHOOSE i \in grows : \A j \in grows : i <= j
    IN  Append(SubSeq(a, from, i - 1), (at(a, i) + Base + 1) \div 2)

\* midpoint as it would be if it extended the digit of b.
midpointOff(a, b) ==
    LET n == common(a, b)
        da == at(a, n + 1)
        db == IF n < Len(b) THEN b[n + 1] ELSE Base
    IN  SubSeq(b, 1, n) \o (IF db - da > 1 THEN <<(da + db + 1) \div 2>>
                            ELSE IF n + 1 < Len(b) THEN <<b[n + 1], Mid>>
                            ELSE <<da>> \o above(a, n + 2))

\* midpoint: after what they share, the digit between theirs, or the one of b if b goes on, or
\* the one of a and what lies above the rest of a.
midpoint(a, b) ==
    LET n == common(a, b)
        da == at(a, n + 1)
        db == IF n < Len(b) THEN b[n + 1] ELSE Base
    IN  SubSeq(b, 1, n) \o (IF db - da > 1 THEN <<(da + db + 1) \div 2>>
                            ELSE IF n + 1 < Len(b) THEN <<b[n + 1]>>
                            ELSE <<da>> \o above(a, n + 2))

\* keyBefore: the first digit that can shrink shrinks.
keyBefore(b) ==
    LET shrinks == {i \in 1..Len(b) : b[i] >= 1}
    IN  IF shrinks = {} THEN midpoint(<<>>, b)
        ELSE LET i == CHOOSE i \in shrinks : \A j \in shrinks : i <= j
             IN  SubSeq(b, 1, i - 1) \o (IF b[i] > 1 THEN <<b[i] - 1>> ELSE <<0, Mid>>)

KeyBetween(a, b) ==
    IF b = <<>> \/ ~Less(a, b) THEN keyAfter(a)
    ELSE IF a = <<>> THEN keyBefore(b)
    ELSE midpoint(a, b)

-----------------------------------------------------------------------------
(* Moves.                                                                  *)

Listed(p) == {i \in DOMAIN p : p[i] # NoKey}

\* lastPosSQL and nextPosSQL: the largest position of the others, the smallest above a.
LastPosition(p, self) ==
    LET ks == {p[i] : i \in Listed(p) \ {self}}
    IN  IF ks = {} THEN NoKey ELSE CHOOSE k \in ks : \A l \in ks : l = k \/ Less(l, k)

NextPosition(p, a, self) ==
    LET ks == {k \in {p[i] : i \in Listed(p) \ {self}} : Less(a, k)}
    IN  IF ks = {} THEN NoKey ELSE CHOOSE k \in ks : \A l \in ks : l = k \/ Less(k, l)

Rest == [item |-> 0, anchor |-> 0, a |-> NoKey, b |-> NoKey]
Unlocked(m, i) == \A o \in Movers \ {m} : i \notin {ask[o].item, ask[o].anchor}
Ask(m, i, x, a, b) ==
    /\ ask[m] = Rest /\ moves < MaxMoves /\ moves' = moves + 1 /\ Unlocked(m, i)
    /\ ask' = [ask EXCEPT ![m] = [item |-> i, anchor |-> x, a |-> a, b |-> b]]
    /\ UNCHANGED <<pos, checks>>

\* relocate to another list or parent, and Create: after the last one there.
ToEnd(m, i) == pos[i] = NoKey /\ Ask(m, i, 0, LastPosition(pos, i), NoKey)

\* positionAfter with an empty after_id.
ToFront(m, i) == pos[i] # NoKey /\ Ask(m, i, 0, NoKey, NextPosition(pos, NoKey, i))

\* positionAfter: the anchor is locked and its neighbour read.
AfterAnchor(m, i, x) ==
    /\ pos[i] # NoKey /\ pos[x] # NoKey /\ x # i /\ Unlocked(m, x)
    /\ Ask(m, i, x, pos[x], NextPosition(pos, pos[x], i))

\* nextTodo: the next repetition, just after the completed one.
Repeat(m, i, x) == /\ pos[i] = NoKey /\ pos[x] # NoKey /\ Unlocked(m, x)
                   /\ Ask(m, i, x, pos[x], NextPosition(pos, pos[x], x))

\* todoTx.Insert or Update, and the commit; a key the table refuses fails the call.
Place(m) ==
    LET k == KeyBetween(ask[m].a, ask[m].b) IN
    /\ ask[m] # Rest
    /\ pos' = IF Len(k) <= MaxLen THEN [pos EXCEPT ![ask[m].item] = k] ELSE pos
    /\ ask' = [ask EXCEPT ![m] = Rest]
    /\ UNCHANGED <<checks, moves>>

Leave(i) == /\ pos[i] # NoKey /\ \A m \in Movers : i \notin {ask[m].item, ask[m].anchor}
            /\ pos' = [pos EXCEPT ![i] = NoKey] /\ UNCHANGED <<ask, checks, moves>>

-----------------------------------------------------------------------------
(* The checklist.                                                          *)

\* A call on the checklist takes one of the bounded moves and leaves the list alone.
OnChecklist == moves < MaxMoves /\ moves' = moves + 1 /\ UNCHANGED <<pos, ask>>

AddCheck(c) ==
    LET k == KeyBetween(LastPosition(checks, c), NoKey) IN
    /\ checks[c] = NoKey /\ Len(k) <= MaxLen
    /\ checks' = [checks EXCEPT ![c] = k] /\ OnChecklist

DeleteCheck(c) == checks[c] # NoKey /\ checks' = [checks EXCEPT ![c] = NoKey] /\ OnChecklist

\* The keys newChecks and ReorderChecks hand out, each after the one before.
Chain[n \in Nat] == IF n = 0 THEN NoKey ELSE KeyBetween(Chain[n - 1], NoKey)

\* ReorderChecks: an order of all the items.
ReorderChecks ==
    \E order \in [1..Cardinality(Listed(checks)) -> Listed(checks)] :
      LET n == Cardinality(Listed(checks))
      IN  /\ n > 1 /\ \A i, j \in 1..n : order[i] = order[j] => i = j
          /\ \A i \in 1..n : Len(Chain[i]) <= MaxLen
          /\ checks' = [c \in Checks |->
                IF c \in Listed(checks) THEN Chain[CHOOSE i \in 1..n : order[i] = c] ELSE checks[c]]
          /\ OnChecklist

\* The calls of the API and of the todo's page.
createCheck(c)    == AddCheck(c)
WebAddCheck(c)    == AddCheck(c)
deleteCheck(c)    == DeleteCheck(c)
WebDeleteCheck(c) == DeleteCheck(c)
reorderChecks     == ReorderChecks

-----------------------------------------------------------------------------
PositionsInit == /\ pos = [i \in Items |-> NoKey] /\ ask = [m \in Movers |-> Rest]
                 /\ checks = [c \in Checks |-> NoKey] /\ moves = 0

PositionsNext ==
    \/ \E m \in Movers : \/ \E i \in Items : \/ ToEnd(m, i) \/ ToFront(m, i)
                                            \/ \E x \in Items : AfterAnchor(m, i, x) \/ Repeat(m, i, x)
                         \/ Place(m)
    \/ \E i \in Items : Leave(i)
    \/ \E c \in Checks : createCheck(c) \/ WebAddCheck(c) \/ deleteCheck(c) \/ WebDeleteCheck(c)
    \/ reorderChecks

PositionsSpec == PositionsInit /\ [][PositionsNext]_positionsVars

PositionsTypeOK ==
    /\ pos \in [Items -> Seq(Digits)] /\ checks \in [Checks -> Seq(Digits)] /\ moves \in 0..MaxMoves
    /\ \A i \in Items : Len(pos[i]) <= MaxLen

-----------------------------------------------------------------------------
(* A todo goes where the user dropped it: its new position is strictly     *)
(* above the anchor's and strictly below every position that was above the *)
(* anchor's when the move read it, so no number of moves at one place runs *)
(* out of room or passes a neighbour (KeyBetween and its parts); and the   *)
(* items of a reordered checklist never share a position.                  *)
DropsBetween ==
    /\ \A m \in Movers : ask[m] # Rest =>
         LET k == KeyBetween(ask[m].a, ask[m].b)
         IN  Less(ask[m].a, k) /\ (ask[m].b # NoKey => Less(k, ask[m].b))
    /\ \A c, d \in Listed(checks) : c # d => checks[c] # checks[d]
=============================================================================
