--------------------------- MODULE ContentProofs ---------------------------
(***************************************************************************)
(* What the parts of MCContent keep, for every value of the constants.     *)
(***************************************************************************)
EXTENDS MCContent, FiniteSetTheorems, WellFoundedInduction, TLAPS

-----------------------------------------------------------------------------
(* Reminders. *)

\* The fields of a run.
LEMMA RunFields ==
    ASSUME NEW x \in Reminders!Run
    PROVE  /\ x.pc \in {"rest", "events", "todos"} /\ x.at \in 0..MaxNow /\ x.todo \subseteq Reminders!Keys
           /\ x.key \in Reminders!Keys \cup {Reminders!NoKey} /\ x.left \subseteq Devices /\ x.sent \in Nat
           /\ x.subs = Reminders!NoSubs \/ x.subs \subseteq Devices
  BY DEF Reminders!Run

\* A run that goes on to another list.
LEMMA RunSet ==
    ASSUME NEW r \in Pair, v5[r] \in Reminders!Run, NEW pc \in {"rest", "events", "todos"},
           NEW f \in SUBSET Reminders!Keys, v5' = Reminders!Set(r, pc, f)
    PROVE  \E x \in Reminders!Run : /\ v5' = [v5 EXCEPT ![r] = x]
                                    /\ x.key = v5[r].key /\ x.left = v5[r].left /\ x.sent = v5[r].sent
  <1> DEFINE x == [v5[r] EXCEPT !.pc = pc]
             y == [x EXCEPT !.todo = f]
  <1>1. x \in Reminders!Run /\ x.key = v5[r].key /\ x.left = v5[r].left /\ x.sent = v5[r].sent
    BY DEF Reminders!Run
  <1>2. v5' = [v5 EXCEPT ![r] = y]
    BY DEF Reminders!Set
  <1> HIDE DEF x
  <1>3. y \in Reminders!Run /\ y.key = x.key /\ y.left = x.left /\ y.sent = x.sent
    BY <1>1 DEF Reminders!Run
  <1> HIDE DEF y
  <1> QED BY <1>1, <1>2, <1>3

\* A run that begins, or rests.
LEMMA RunBegins ==
    ASSUME NEW pc \in {"rest", "events", "todos"}, NEW at \in 0..MaxNow, NEW f \in SUBSET Reminders!Keys
    PROVE  Reminders!Begun(pc, at, f) \in Reminders!Run /\ Reminders!Begun(pc, at, f).key = Reminders!NoKey
  BY DEF Reminders!Run, Reminders!Begun

\* No reminder is the empty key.
LEMMA KeyIsNone ==
    ASSUME Reminders!RemindersAssumption
    PROVE  Reminders!NoKey \notin Reminders!Keys
  BY DEF Reminders!NoKey, Reminders!Keys, Reminders!RemindersAssumption

\* What fires is a reminder of an entry that is there.
LEMMA FiringTyped ==
    ASSUME Reminders!RemindersTypeOK, NEW kind \in SUBSET Timed, NEW at
    PROVE  Reminders!Firing(kind, at) \in SUBSET Reminders!Keys
  <1>1. Reminders!Due(kind) \subseteq Reminders!Keys
    <2>1. \A e \in Reminders!Listed(kind) : e \in Timed /\ v2[e] \in Starts
      BY DEF Reminders!Listed, Reminders!RemindersTypeOK
    <2> QED BY <2>1 DEF Reminders!Due, Reminders!Keys
  <1> QED BY <1>1 DEF Reminders!Firing

\* A step that leaves what was claimed, shown and got, and the reminder every run is at.
LEMMA RemindersAside ==
    ASSUME Reminders!RemindersInv, Reminders!RemindersTypeOK', v4' = v4, v6' = v6, v7' = v7,
           Reminders!RemindersAssumption,
           \A r \in Pair : \/ v5'[r].key = Reminders!NoKey
                           \/ v5'[r].key = v5[r].key /\ v5'[r].left = v5[r].left /\ v5'[r].sent = v5[r].sent
    PROVE  Reminders!RemindersInv'
  <1>1. Reminders!SendInv'
    <2>1. ASSUME NEW r \in Pair, v5'[r].key # Reminders!NoKey
          PROVE  v5'[r].key = v5[r].key /\ v5'[r].left = v5[r].left /\ v5'[r].sent = v5[r].sent
      BY <2>1
    <2>2. \A r \in Pair : v5'[r].key # Reminders!NoKey =>
            /\ v4'[v5'[r].key] = "claimed"
            /\ \A q \in Pair : v5'[q].key = v5'[r].key => q = r
            /\ \A d \in v5'[r].left : v6'[<<v5'[r].key, d>>] = 0
            /\ v5'[r].sent > 0 => \E d \in Devices : v6'[<<v5'[r].key, d>>] = 1
      BY <2>1 DEF Reminders!RemindersInv, Reminders!SendInv, Reminders!Sending
    <2> QED BY <2>2 DEF Reminders!SendInv, Reminders!Sending
  <1> QED BY <1>1 DEF Reminders!RemindersInv, Reminders!ClaimInv, Reminders!RemindedOnce

\* One run goes on without sending.
LEMMA RunMoves ==
    ASSUME Reminders!RemindersAssumption, Reminders!RemindersInv, NEW r \in Pair,
           Reminders!Handle(r) \/ Reminders!HandleTodos(r) \/ Reminders!HandleEnds(r) \/ Reminders!Die(r)
    PROVE  Reminders!RemindersInv'
  <1>0. Reminders!RemindersTypeOK
    BY DEF Reminders!RemindersInv
  <1>1. ASSUME NEW x \in Reminders!Run, v5' = [v5 EXCEPT ![r] = x],
               UNCHANGED <<v1, v2, v3, v4, v6, v7, v8>>, v9' \in 0..MaxDeaths,
               \/ x.key = Reminders!NoKey
               \/ x.key = v5[r].key /\ x.left = v5[r].left /\ x.sent = v5[r].sent
        PROVE  Reminders!RemindersInv'
    <2>1. Reminders!RemindersTypeOK'
      BY <1>0, <1>1 DEF Reminders!RemindersTypeOK
    <2>2. \A q \in Pair : v5'[q] = IF q = r THEN x ELSE v5[q]
      BY <1>0, <1>1 DEF Reminders!RemindersTypeOK
    <2> QED BY <1>1, <2>1, <2>2, RemindersAside
  <1>2. v9 \in 0..MaxDeaths /\ v1 \in 0..MaxNow /\ v5[r] \in Reminders!Run /\ v5[r].at \in 0..MaxNow /\ 0 \in 0..MaxNow
    BY <1>0, RunFields DEF Reminders!RemindersTypeOK, Reminders!RemindersAssumption
  <1>3. CASE Reminders!Handle(r)
    <2> DEFINE f == Reminders!Firing(Timed \ TodoIds, v1)
    <2>1. f \in SUBSET Reminders!Keys
      BY <1>0, FiringTyped
    <2>2. v5' = [v5 EXCEPT ![r] = Reminders!Begun("events", v1, f)] /\ UNCHANGED <<v1, v2, v3, v4, v6, v7, v8, v9>>
      BY <1>3 DEF Reminders!Handle
    <2> QED BY <1>1, <1>2, <2>1, <2>2, RunBegins
  <1>4. CASE Reminders!HandleTodos(r)
    <2> DEFINE f == Reminders!Firing(TodoIds, v5[r].at)
    <2>1. f \in SUBSET Reminders!Keys
      BY <1>0, FiringTyped DEF Reminders!RemindersAssumption
    <2>2. v5' = Reminders!Set(r, "todos", f) /\ UNCHANGED <<v1, v2, v3, v4, v6, v7, v8, v9>>
      BY <1>4 DEF Reminders!HandleTodos
    <2> HIDE DEF f
    <2>3. PICK x \in Reminders!Run : /\ v5' = [v5 EXCEPT ![r] = x]
                                    /\ x.key = v5[r].key /\ x.left = v5[r].left /\ x.sent = v5[r].sent
      BY <1>2, <2>1, <2>2, RunSet
    <2> QED BY <1>1, <1>2, <2>2, <2>3
  <1>5. CASE Reminders!HandleEnds(r) \/ Reminders!Die(r)
    <2>1. v5' = [v5 EXCEPT ![r] = Reminders!Rest] /\ UNCHANGED <<v1, v2, v3, v4, v6, v7, v8>>
      BY <1>5 DEF Reminders!HandleEnds, Reminders!Die
    <2>2. v9' = v9 \/ (v9 < MaxDeaths /\ v9' = v9 + 1)
      BY <1>5 DEF Reminders!HandleEnds, Reminders!Die
    <2>3. v9' \in 0..MaxDeaths
      BY <1>2, <2>2 DEF Reminders!RemindersAssumption
    <2>4. Reminders!Rest \in Reminders!Run /\ Reminders!Rest.key = Reminders!NoKey
      BY <1>2, RunBegins DEF Reminders!Rest
    <2> QED BY <1>1, <2>1, <2>3, <2>4
  <1> QED BY <1>3, <1>4, <1>5

\* Users and the clock leave the runs alone.
LEMMA UsersMove ==
    ASSUME Reminders!RemindersAssumption, Reminders!RemindersInv,
           \/ Reminders!Tick
           \/ \E e \in Timed, t \in Starts \cup {0} : Reminders!MoveEntry(e, t)
           \/ \E d \in Devices : Reminders!Subscribe(d) \/ Reminders!RemoveDevice(d)
                                   \/ Reminders!Unsubscribe(d) \/ Reminders!TestDevice(d)
    PROVE  Reminders!RemindersInv'
  <1>0. Reminders!RemindersTypeOK
    BY DEF Reminders!RemindersInv
  <1>1. UNCHANGED <<v4, v5, v6, v7, v9>>
    BY DEF Reminders!Tick, Reminders!MoveEntry, Reminders!Subscribe, Reminders!RemoveDevice, Reminders!Unsubscribe,
           Reminders!TestDevice, Reminders!UserEdit
  <1>2. \/ v1' = v1 /\ v8 < MaxRemEdits /\ v8' = v8 + 1
        \/ v1 < MaxNow /\ v1' = v1 + 1 /\ v8' = v8
    BY DEF Reminders!Tick, Reminders!MoveEntry, Reminders!Subscribe, Reminders!RemoveDevice, Reminders!Unsubscribe,
           Reminders!TestDevice, Reminders!UserEdit
  <1>3. v2' \in [Timed -> Starts \cup {0}]
    <2>1. v2' = v2 \/ \E e \in Timed, t \in Starts \cup {0} : v2' = [v2 EXCEPT ![e] = t]
      BY DEF Reminders!Tick, Reminders!MoveEntry, Reminders!Subscribe, Reminders!RemoveDevice, Reminders!Unsubscribe,
             Reminders!TestDevice
    <2> QED BY <1>0, <2>1 DEF Reminders!RemindersTypeOK
  <1>4. v3' \in [known : SUBSET Devices, there : SUBSET Devices]
    <2>1. \/ v3' = v3
          \/ \E d \in Devices : \/ v3' = [known |-> v3.known \cup {d}, there |-> v3.there \cup {d}]
                                \/ v3' = [v3 EXCEPT !.known = @ \ {d}]
                                \/ v3' = [v3 EXCEPT !.there = @ \ {d}]
      BY DEF Reminders!Tick, Reminders!MoveEntry, Reminders!Subscribe, Reminders!RemoveDevice, Reminders!Unsubscribe,
             Reminders!TestDevice
    <2> QED BY <1>0, <2>1 DEF Reminders!RemindersTypeOK
  <1>5. v1' \in 1..MaxNow /\ v8' \in 0..MaxRemEdits
    BY <1>0, <1>2 DEF Reminders!RemindersTypeOK, Reminders!RemindersAssumption
  <1>6. Reminders!RemindersTypeOK'
    BY <1>0, <1>1, <1>3, <1>4, <1>5 DEF Reminders!RemindersTypeOK
  <1> QED BY <1>1, <1>6, RemindersAside

\* A reminder that somebody else claimed is passed over; another is claimed.
LEMMA ReminderClaimed ==
    ASSUME Reminders!RemindersAssumption, Reminders!RemindersInv, NEW r \in Pair, NEW k \in Reminders!Keys,
           Reminders!Deliver(r, k)
    PROVE  Reminders!RemindersInv'
  <1>0. Reminders!RemindersTypeOK /\ v5[r] \in Reminders!Run
    BY DEF Reminders!RemindersInv, Reminders!RemindersTypeOK
  <1>1. CASE v4[k] # "none"
    <2>1. v5' = Reminders!Set(r, v5[r].pc, v5[r].todo \ {k}) /\ UNCHANGED <<v1, v2, v3, v4, v6, v7, v8, v9>>
      BY <1>1 DEF Reminders!Deliver, Reminders!ClaimReminder
    <2>2. v5[r].todo \ {k} \in SUBSET Reminders!Keys /\ v5[r].pc \in {"rest", "events", "todos"}
      BY <1>0, RunFields
    <2>3. PICK x \in Reminders!Run : /\ v5' = [v5 EXCEPT ![r] = x]
                                    /\ x.key = v5[r].key /\ x.left = v5[r].left /\ x.sent = v5[r].sent
      BY <1>0, <2>1, <2>2, RunSet
    <2>4. \A q \in Pair : v5'[q] = IF q = r THEN x ELSE v5[q]
      BY <1>0, <2>3 DEF Reminders!RemindersTypeOK
    <2>5. Reminders!RemindersTypeOK'
      BY <1>0, <2>1, <2>3 DEF Reminders!RemindersTypeOK
    <2> QED BY <2>1, <2>3, <2>4, <2>5, RemindersAside
  <1>2. CASE v4[k] = "none"
    <2> DEFINE subs == Reminders!Subscriptions(r)
               x1 == [v5[r] EXCEPT !.key = k]
               x2 == [x1 EXCEPT !.subs = subs]
               x3 == [x2 EXCEPT !.left = subs]
               x4 == [x3 EXCEPT !.sent = 0]
               x == [x4 EXCEPT !.todo = v5[r].todo \ {k}]
    <2>1. subs \subseteq Devices
      BY <1>0, RunFields DEF Reminders!Subscriptions, Reminders!RemindersTypeOK
    <2>2. v4' = [v4 EXCEPT ![k] = "claimed"] /\ v5' = [v5 EXCEPT ![r] = x] /\ UNCHANGED <<v1, v2, v3, v6, v7, v8, v9>>
      BY <1>2 DEF Reminders!Deliver, Reminders!ClaimReminder
    <2> HIDE DEF subs
    <2>3. x \in Reminders!Run /\ x.key = k /\ x.left = subs /\ x.sent = 0
      <3>1. x1 \in Reminders!Run /\ x1.key = k
        BY <1>0 DEF Reminders!Run
      <3> HIDE DEF x1
      <3>2. x2 \in Reminders!Run /\ x2.key = k
        BY <2>1, <3>1 DEF Reminders!Run
      <3> HIDE DEF x2
      <3>3. x3 \in Reminders!Run /\ x3.key = k /\ x3.left = subs
        BY <2>1, <3>2 DEF Reminders!Run
      <3> HIDE DEF x3
      <3>4. x4 \in Reminders!Run /\ x4.key = k /\ x4.left = subs /\ x4.sent = 0
        BY <3>3 DEF Reminders!Run
      <3> HIDE DEF x4
      <3>5. v5[r].todo \ {k} \subseteq Reminders!Keys
        BY <1>0, RunFields
      <3> QED BY <3>4, <3>5 DEF Reminders!Run
    <2> HIDE DEF x
    <2>4. \A q \in Pair : v5'[q] = IF q = r THEN x ELSE v5[q]
      BY <1>0, <2>2 DEF Reminders!RemindersTypeOK
    <2>5. \A l \in Reminders!Keys : v4'[l] = IF l = k THEN "claimed" ELSE v4[l]
      BY <1>0, <2>2 DEF Reminders!RemindersTypeOK
    <2>6. Reminders!RemindersTypeOK'
      BY <1>0, <2>2, <2>3 DEF Reminders!RemindersTypeOK
    <2>7. \A q \in Pair : v5[q].key # Reminders!NoKey => v5[q].key \in Reminders!Keys /\ v5[q].key # k
      BY <1>0, <1>2, RunFields DEF Reminders!RemindersTypeOK, Reminders!RemindersInv, Reminders!SendInv, Reminders!Sending
    <2>8. \A d \in Devices : v6[<<k, d>>] = 0
      BY <1>2 DEF Reminders!RemindersInv, Reminders!ClaimInv
    <2>9. Reminders!SendInv'
      <3>1. ASSUME NEW q \in Pair, q # r, v5[q].key # Reminders!NoKey
            PROVE  /\ v4'[v5[q].key] = "claimed"
                   /\ \A p \in Pair : v5'[p].key = v5[q].key => p = q
                   /\ \A d \in v5[q].left : v6[<<v5[q].key, d>>] = 0
                   /\ v5[q].sent > 0 => \E d \in Devices : v6[<<v5[q].key, d>>] = 1
        BY <2>3, <2>4, <2>5, <2>7, <3>1 DEF Reminders!RemindersInv, Reminders!SendInv, Reminders!Sending
      <3>2. /\ v4'[k] = "claimed"
            /\ \A p \in Pair : v5'[p].key = k => p = r
            /\ \A d \in subs : v6[<<k, d>>] = 0
        BY <2>1, <2>4, <2>5, <2>7, <2>8, KeyIsNone
      <3> QED BY <2>2, <2>3, <2>4, <3>1, <3>2 DEF Reminders!SendInv, Reminders!Sending
    <2>10. Reminders!ClaimInv'
      BY <2>2, <2>5, <1>2 DEF Reminders!RemindersInv, Reminders!ClaimInv
    <2>11. Reminders!RemindedOnce'
      BY <2>2, <2>5 DEF Reminders!RemindersInv, Reminders!RemindedOnce
    <2> QED BY <2>6, <2>9, <2>10, <2>11 DEF Reminders!RemindersInv
  <1> QED BY <1>1, <1>2

\* A device takes a message, is gone, or fails.
LEMMA ReminderSent ==
    ASSUME Reminders!RemindersAssumption, Reminders!RemindersInv, NEW r \in Pair, NEW d \in Devices,
           Reminders!Send(r, d)
    PROVE  Reminders!RemindersInv'
  <1> DEFINE k == v5[r].key
             x == [v5[r] EXCEPT !.left = v5[r].left \ {d}]
             y == [x EXCEPT !.sent = v5[r].sent + 1]
  <1>0. Reminders!RemindersTypeOK /\ v5[r] \in Reminders!Run
    BY DEF Reminders!RemindersInv, Reminders!RemindersTypeOK
  <1>1. k # Reminders!NoKey /\ k \in Reminders!Keys /\ d \in v5[r].left /\ UNCHANGED <<v1, v2, v4, v7, v8, v9>>
    BY <1>0, RunFields DEF Reminders!Send, Reminders!Sending
  <1>2. \/ v6' = [v6 EXCEPT ![<<k, d>>] = @ + 1] /\ v5' = [v5 EXCEPT ![r] = y] /\ v3' = v3
        \/ v6' = v6 /\ v5' = [v5 EXCEPT ![r] = x] /\ (v3' = v3 \/ v3' = [v3 EXCEPT !.known = @ \ {d}])
    BY DEF Reminders!Send, Reminders!SendOK, Reminders!SendGone, Reminders!SendFails
  <1>3. x \in Reminders!Run /\ x.key = k /\ x.left = v5[r].left \ {d} /\ x.sent = v5[r].sent
    BY <1>0 DEF Reminders!Run
  <1>4. y \in Reminders!Run /\ y.key = k /\ y.left = v5[r].left \ {d} /\ y.sent = v5[r].sent + 1
    <2> HIDE DEF x
    <2>1. v5[r].sent + 1 \in Nat
      BY <1>0, RunFields
    <2> QED BY <1>3, <2>1 DEF Reminders!Run
  <1> HIDE DEF x, y
  <1>5. v6[<<k, d>>] = 0 /\ v4[k] = "claimed" /\ v7[k] = 0 /\ \A q \in Pair : v5[q].key = k => q = r
    BY <1>1 DEF Reminders!RemindersInv, Reminders!SendInv, Reminders!ClaimInv, Reminders!Sending
  <1>6. v3' \in [known : SUBSET Devices, there : SUBSET Devices]
    BY <1>0, <1>2 DEF Reminders!RemindersTypeOK
  <1>8. \A l \in Reminders!Keys, e \in Devices :
          v6'[<<l, e>>] = v6[<<l, e>>] \/ (l = k /\ e = d /\ v6'[<<l, e>>] = 1)
    <2>1. v6[<<k, d>>] + 1 = 1
      BY <1>5
    <2> QED BY <1>0, <1>1, <1>2, <2>1 DEF Reminders!RemindersTypeOK
  <1>9. \E z \in Reminders!Run :
          /\ v5' = [v5 EXCEPT ![r] = z] /\ z.key = k /\ z.left = v5[r].left \ {d}
          /\ z.sent > 0 => v5[r].sent > 0 \/ v6'[<<k, d>>] = 1
    <2>1. CASE v6' = [v6 EXCEPT ![<<k, d>>] = @ + 1] /\ v5' = [v5 EXCEPT ![r] = y]
      <3>1. v6'[<<k, d>>] = 1
        BY <1>0, <1>1, <1>5, <2>1 DEF Reminders!RemindersTypeOK
      <3> QED BY <1>4, <2>1, <3>1
    <2>2. CASE v5' = [v5 EXCEPT ![r] = x]
      BY <1>3, <2>2
    <2> QED BY <1>2, <2>1, <2>2
  <1>10. PICK z \in Reminders!Run : /\ v5' = [v5 EXCEPT ![r] = z] /\ z.key = k /\ z.left = v5[r].left \ {d}
                                    /\ z.sent > 0 => v5[r].sent > 0 \/ v6'[<<k, d>>] = 1
    BY <1>9
  <1>11. \A q \in Pair : v5'[q] = IF q = r THEN z ELSE v5[q]
    BY <1>0, <1>10 DEF Reminders!RemindersTypeOK
  <1>7. Reminders!RemindersTypeOK'
    <2>1. v6' \in [Reminders!Keys \X Devices -> Nat]
      BY <1>0, <1>1, <1>2, <1>5 DEF Reminders!RemindersTypeOK
    <2> QED BY <1>0, <1>1, <1>6, <1>10, <2>1 DEF Reminders!RemindersTypeOK
  <1>12. Reminders!SendInv'
    <2>1. \A q \in Pair : v5'[q].key = v5[q].key
      BY <1>10, <1>11
    <2>2. ASSUME NEW q \in Pair, v5[q].key # Reminders!NoKey
          PROVE  /\ v4'[v5[q].key] = "claimed"
                 /\ \A p \in Pair : v5'[p].key = v5[q].key => p = q
                 /\ v5[q].key \in Reminders!Keys /\ v5[q].left \subseteq Devices
                 /\ \A e \in v5[q].left : v6[<<v5[q].key, e>>] = 0
                 /\ v5[q].sent > 0 => \E e \in Devices : v6[<<v5[q].key, e>>] = 1
      BY <1>0, <1>1, <2>1, <2>2, RunFields
         DEF Reminders!RemindersInv, Reminders!SendInv, Reminders!Sending, Reminders!RemindersTypeOK
    <2>3. ASSUME NEW q \in Pair, v5[q].key # Reminders!NoKey, NEW e \in v5'[q].left
          PROVE  v6'[<<v5[q].key, e>>] = 0
      <3>1. e \in v5[q].left /\ (q = r => e # d) /\ e \in Devices
        BY <1>10, <1>11, <2>2, <2>3
      <3>2. v5[q].key = k => q = r
        BY <1>5
      <3> QED BY <1>8, <2>2, <2>3, <3>1, <3>2
    <2>4. ASSUME NEW q \in Pair, v5[q].key # Reminders!NoKey, v5'[q].sent > 0
          PROVE  \E e \in Devices : v6'[<<v5[q].key, e>>] = 1
      <3>1. v5[q].sent > 0 \/ (q = r /\ v6'[<<k, d>>] = 1)
        BY <1>10, <1>11, <2>4
      <3>2. CASE v5[q].sent > 0
        <4>1. PICK e \in Devices : v6[<<v5[q].key, e>>] = 1
          BY <2>2, <2>4, <3>2
        <4>2. v6'[<<v5[q].key, e>>] = 1
          BY <1>8, <2>2, <2>4, <4>1
        <4> QED BY <4>2
      <3> QED BY <3>1, <3>2
    <2>5. \A q \in Pair : v5'[q].key # Reminders!NoKey =>
            /\ v4'[v5'[q].key] = "claimed"
            /\ \A p \in Pair : v5'[p].key = v5'[q].key => p = q
            /\ \A e \in v5'[q].left : v6'[<<v5'[q].key, e>>] = 0
            /\ v5'[q].sent > 0 => \E e \in Devices : v6'[<<v5'[q].key, e>>] = 1
      <3>1. TAKE q \in Pair
      <3>2. HAVE v5'[q].key # Reminders!NoKey
      <3>3. v5'[q].key = v5[q].key /\ v5[q].key # Reminders!NoKey
        BY <2>1, <3>2
      <3>4. \A e \in v5'[q].left : v6'[<<v5[q].key, e>>] = 0
        BY <2>3, <3>3
      <3>5. v4'[v5[q].key] = "claimed" /\ \A p \in Pair : v5'[p].key = v5[q].key => p = q
        BY <2>2, <3>3
      <3> QED BY <2>4, <3>3, <3>4, <3>5
    <2> QED BY <2>5 DEF Reminders!SendInv, Reminders!Sending
  <1>13. Reminders!ClaimInv'
    <2>1. ASSUME NEW l \in Reminders!Keys, v4[l] = "none", NEW e \in Devices PROVE v6'[<<l, e>>] = 0
      <3>1. l # k
        BY <1>5, <2>1
      <3> QED BY <1>8, <2>1, <3>1 DEF Reminders!RemindersInv, Reminders!ClaimInv
    <2> QED BY <1>1, <2>1 DEF Reminders!RemindersInv, Reminders!ClaimInv
  <1>14. Reminders!RemindedOnce'
    <2>1. ASSUME NEW l \in Reminders!Keys PROVE \A e \in Devices : v6'[<<l, e>>] <= 1
      BY <1>8, <2>1 DEF Reminders!RemindersInv, Reminders!RemindedOnce
    <2>2. ASSUME NEW l \in Reminders!Keys, v4[l] = "sent" PROVE v7[l] = 1 \/ \E e \in Devices : v6'[<<l, e>>] = 1
      <3>1. \A e \in Devices : v6'[<<l, e>>] = v6[<<l, e>>]
        BY <1>5, <1>8, <2>2
      <3> QED BY <2>2, <3>1 DEF Reminders!RemindersInv, Reminders!RemindedOnce
    <2> QED BY <1>1, <2>1, <2>2 DEF Reminders!RemindersInv, Reminders!RemindedOnce
  <1> QED BY <1>7, <1>12, <1>13, <1>14 DEF Reminders!RemindersInv

\* A reminder that was sent, or shown in the tabs, is marked.
LEMMA ReminderMarked ==
    ASSUME Reminders!RemindersAssumption, Reminders!RemindersInv, NEW r \in Pair, Reminders!MarkReminderSent(r)
    PROVE  Reminders!RemindersInv'
  <1> DEFINE k == v5[r].key
             x == [v5[r] EXCEPT !.key = Reminders!NoKey]
  <1>0. Reminders!RemindersTypeOK /\ v5[r] \in Reminders!Run
    BY DEF Reminders!RemindersInv, Reminders!RemindersTypeOK
  <1>1. /\ k # Reminders!NoKey /\ k \in Reminders!Keys
        /\ v4' = [v4 EXCEPT ![k] = "sent"] /\ v5' = [v5 EXCEPT ![r] = x] /\ UNCHANGED <<v1, v2, v3, v6, v8, v9>>
    BY <1>0, RunFields DEF Reminders!MarkReminderSent, Reminders!Sending
  <1>2. v7' = IF v5[r].sent = 0 THEN [v7 EXCEPT ![k] = @ + 1] ELSE v7
    BY DEF Reminders!MarkReminderSent, Reminders!InPage
  <1>3. x \in Reminders!Run /\ x.key = Reminders!NoKey
    BY <1>0 DEF Reminders!Run
  <1> HIDE DEF x
  <1>4. v4[k] = "claimed" /\ v7[k] = 0 /\ \A q \in Pair : v5[q].key = k => q = r
    BY <1>1 DEF Reminders!RemindersInv, Reminders!SendInv, Reminders!ClaimInv, Reminders!Sending
  <1>5. Reminders!RemindersTypeOK'
    BY <1>0, <1>1, <1>2, <1>3 DEF Reminders!RemindersTypeOK
  <1>6. \A q \in Pair : v5'[q] = IF q = r THEN x ELSE v5[q]
    BY <1>0, <1>1 DEF Reminders!RemindersTypeOK
  <1>7. \A l \in Reminders!Keys : v4'[l] = IF l = k THEN "sent" ELSE v4[l]
    BY <1>0, <1>1 DEF Reminders!RemindersTypeOK
  <1>8. \A l \in Reminders!Keys : v7'[l] = IF l = k /\ v5[r].sent = 0 THEN 1 ELSE v7[l]
    <2>1. v7[k] + 1 = 1
      BY <1>4
    <2> QED BY <1>0, <1>1, <1>2, <2>1 DEF Reminders!RemindersTypeOK
  <1>9. Reminders!SendInv'
    <2>1. ASSUME NEW q \in Pair, v5'[q].key # Reminders!NoKey
          PROVE  /\ q # r /\ v5'[q] = v5[q] /\ v5[q].key \in Reminders!Keys /\ v5[q].key # k
                 /\ v4[v5[q].key] = "claimed"
                 /\ \A p \in Pair : v5[p].key = v5[q].key => p = q
                 /\ \A e \in v5[q].left : v6[<<v5[q].key, e>>] = 0
                 /\ v5[q].sent > 0 => \E e \in Devices : v6[<<v5[q].key, e>>] = 1
      <3>1. q # r /\ v5'[q] = v5[q]
        BY <1>3, <1>6, <2>1
      <3>2. v5[q].key \in Reminders!Keys
        BY <1>0, <2>1, <3>1, RunFields DEF Reminders!RemindersTypeOK
      <3> QED BY <1>4, <2>1, <3>1, <3>2 DEF Reminders!RemindersInv, Reminders!SendInv, Reminders!Sending
    <2>2. \A p \in Pair : v5'[p].key = v5[p].key \/ v5'[p].key = Reminders!NoKey
      BY <1>3, <1>6
    <2> QED BY <1>1, <1>7, <2>1, <2>2 DEF Reminders!SendInv, Reminders!Sending
  <1>10. Reminders!ClaimInv'
    BY <1>1, <1>4, <1>7, <1>8 DEF Reminders!RemindersInv, Reminders!ClaimInv
  <1>11. v5[r].sent # 0 => \E e \in Devices : v6[<<k, e>>] = 1
    <2>1. v5[r].sent \in Nat
      BY <1>0, RunFields
    <2>2. v5[r].sent > 0 => \E e \in Devices : v6[<<k, e>>] = 1
      BY <1>1 DEF Reminders!RemindersInv, Reminders!SendInv, Reminders!Sending
    <2> QED BY <2>1, <2>2
  <1>12. Reminders!RemindedOnce'
    BY <1>1, <1>7, <1>8, <1>11 DEF Reminders!RemindersInv, Reminders!RemindedOnce
  <1> QED BY <1>5, <1>9, <1>10, <1>12 DEF Reminders!RemindersInv

LEMMA RemindersStart ==
    ASSUME Reminders!RemindersAssumption, Reminders!RemindersInit
    PROVE  Reminders!RemindersInv
  <1>1. Reminders!Rest \in Reminders!Run /\ Reminders!Rest.key = Reminders!NoKey
    BY RunBegins DEF Reminders!Rest, Reminders!RemindersAssumption
  <1>2. v1 \in 1..MaxNow /\ v8 \in 0..MaxRemEdits /\ v9 \in 0..MaxDeaths
    BY DEF Reminders!RemindersInit, Reminders!RemindersAssumption
  <1>3. v3 \in [known : SUBSET Devices, there : SUBSET Devices]
    BY DEF Reminders!RemindersInit
  <1>4. Reminders!RemindersTypeOK
    BY <1>1, <1>2, <1>3 DEF Reminders!RemindersInit, Reminders!RemindersTypeOK
  <1>5. Reminders!SendInv
    BY <1>1 DEF Reminders!RemindersInit, Reminders!SendInv, Reminders!Sending
  <1>6. Reminders!ClaimInv /\ Reminders!RemindedOnce
    BY DEF Reminders!RemindersInit, Reminders!ClaimInv, Reminders!RemindedOnce
  <1> QED BY <1>4, <1>5, <1>6 DEF Reminders!RemindersInv

LEMMA RemindersKeep ==
    ASSUME Reminders!RemindersAssumption, Reminders!RemindersInv,
           [Reminders!RemindersNext]_(Reminders!reminderVars)
    PROVE  Reminders!RemindersInv'
  <1>1. CASE Reminders!RemindersNext
    BY <1>1, RunMoves, UsersMove, ReminderClaimed, ReminderSent, ReminderMarked DEF Reminders!RemindersNext
  <1>2. CASE UNCHANGED Reminders!reminderVars
    BY <1>2 DEF Reminders!reminderVars, Reminders!RemindersInv, Reminders!RemindersTypeOK, Reminders!SendInv,
                Reminders!Sending, Reminders!ClaimInv, Reminders!RemindedOnce
  <1> QED BY <1>1, <1>2

\* For any entries, reminders, devices, overlapping runs, deaths and edits, a reminder reaches
\* a device once, and one that was marked as sent reached a device or was shown in the tabs.
THEOREM RemindsOnce == Spec => []RemindedOnce
  <1> DEFINE Inv == part = "reminders" => Reminders!RemindersInv
  <1>0. Reminders!RemindersAssumption
    BY ContentAssumption
  <1>1. Init => Inv
    BY <1>0, RemindersStart DEF Init
  <1>2. Inv /\ [Next]_vars => Inv'
    <2>1. ASSUME Inv, [Next]_vars, part = "reminders" PROVE Reminders!RemindersInv'
      <3>1. [Reminders!RemindersNext]_(Reminders!reminderVars)
        BY <2>1 DEF Next, vars, Reminders!reminderVars
      <3> QED BY <1>0, <2>1, <3>1, RemindersKeep
    <2>2. ASSUME [Next]_vars PROVE part' = part
      BY <2>2 DEF Next, vars
    <2> QED BY <2>1, <2>2
  <1>3. Inv => RemindedOnce
    BY DEF RemindedOnce, Reminders!RemindersInv
  <1> QED BY <1>1, <1>2, <1>3, PTL DEF Spec

-----------------------------------------------------------------------------
(* Imports. *)

\* The fields of a request that commits, and of an import.
LEMMA RequestFields ==
    ASSUME NEW x \in Imports!Request
    PROVE  /\ x.pc \in {"new", "claim", "read", "write", "save", "end", "dead"}
           /\ x.id \in ImportIDs \cup {0} /\ x.targets \in Imports!Targets /\ x.ok \in BOOLEAN
           /\ x.seen \subseteq {"cal", "list", "newcal", "newlist"} \X Imports!Entries
  BY DEF Imports!Request

LEMMA ImportFields ==
    ASSUME NEW x \in Imports!Import
    PROVE  x.status \in Imports!Statuses /\ x.payload \in BOOLEAN /\ x.targets \in Imports!Targets
  BY DEF Imports!Import

\* A request that has claimed nothing, or goes on with what it has claimed and not yet written.
LEMMA RequestGoesOn ==
    ASSUME Imports!ImportsAssumption, Imports!ImportsInv, NEW c \in Pair, NEW y \in Imports!Request,
           v4' = [v4 EXCEPT ![c] = y], UNCHANGED <<v1, v2, v3, v5, v6>>, v7' \in 0..MaxImportFaults,
           \/ y.pc \in {"new", "end", "dead"}
           \/ y.pc = "claim" /\ y.id \in ImportIDs
           \/ /\ v4[c].pc \in {"read", "write"} /\ y.id = v4[c].id
              /\ y.pc \in {"read", "write"} \/ (y.pc = "save" /\ ~y.ok)
    PROVE  Imports!ImportsInv'
  <1>1. Imports!ImportsTypeOK'
    BY DEF Imports!ImportsInv, Imports!ImportsTypeOK
  <1>2. \A b \in Pair : v4'[b] = IF b = c THEN y ELSE v4[b]
    BY DEF Imports!ImportsInv, Imports!ImportsTypeOK
  <1>3. \A b \in Pair : Imports!Claimed(b)' => Imports!Claimed(b) /\ v4'[b].id = v4[b].id
    BY <1>2 DEF Imports!Claimed
  <1>4. Imports!CommitInv'
    <2>1. ASSUME NEW b \in Pair PROVE v4'[b].pc = "claim" \/ Imports!Claimed(b)' => v4'[b].id \in ImportIDs
      BY <1>2, <1>3 DEF Imports!ImportsInv, Imports!CommitInv, Imports!Claimed
    <2>2. ASSUME NEW b \in Pair, Imports!Claimed(b)'
          PROVE  /\ v3'[v4'[b].id].status \in {"committing", "purged"}
                 /\ \A a \in Pair : Imports!Claimed(a)' /\ v4'[a].id = v4'[b].id => a = b
      BY <1>3, <2>2 DEF Imports!ImportsInv, Imports!CommitInv
    <2>3. ASSUME NEW b \in Pair, Imports!Claimed(b)'
          PROVE  v6'[v4'[b].id] = IF v4'[b].pc = "save" /\ v4'[b].ok THEN 1 ELSE 0
      <3>1. CASE b = c
        BY <1>2, <1>3, <2>3, <3>1 DEF Imports!ImportsInv, Imports!CommitInv, Imports!Claimed
      <3>2. CASE b # c
        BY <1>2, <1>3, <2>3, <3>2 DEF Imports!ImportsInv, Imports!CommitInv
      <3> QED BY <3>1, <3>2
    <2> QED BY <2>1, <2>2, <2>3 DEF Imports!CommitInv
  <1> QED BY <1>1, <1>4 DEF Imports!ImportsInv, Imports!ImportInv, Imports!ImportIsExact

\* The choices name targets.
LEMMA ChosenTyped ==
    ASSUME NEW t \in Imports!Targets, NEW choice \in Imports!Choice
    PROVE  Imports!Chosen(t, choice) \in Imports!Targets
  BY DEF Imports!Chosen, Imports!Targets, Imports!Choice

LEMMA ImportLoaded ==
    ASSUME Imports!ImportsAssumption, Imports!ImportsInv, NEW c \in Pair, NEW i \in ImportIDs,
           NEW choice \in Imports!Choice, Imports!Load(c, i, choice)
    PROVE  Imports!ImportsInv'
  <1>0. v4[c] \in Imports!Request /\ v3[i].targets \in Imports!Targets /\ v7 \in 0..MaxImportFaults
    BY ImportFields DEF Imports!ImportsInv, Imports!ImportsTypeOK
  <1>1. UNCHANGED <<v1, v2, v3, v5, v6, v7>>
    BY DEF Imports!Load
  <1>2. CASE v4' = [v4 EXCEPT ![c].pc = "end"]
    <2> DEFINE y == [v4[c] EXCEPT !.pc = "end"]
    <2>1. y \in Imports!Request /\ y.pc = "end"
      BY <1>0 DEF Imports!Request
    <2>2. v4' = [v4 EXCEPT ![c] = y]
      BY <1>2
    <2> HIDE DEF y
    <2> QED BY <1>0, <1>1, <2>1, <2>2, RequestGoesOn
  <1>3. CASE v4' = [v4 EXCEPT ![c] = [v4[c] EXCEPT !.pc = "claim", !.id = i, !.choice = choice,
                                        !.targets = Imports!Chosen(v3[i].targets, choice)]]
    <2> DEFINE t == Imports!Chosen(v3[i].targets, choice)
               y1 == [v4[c] EXCEPT !.pc = "claim"]
               y2 == [y1 EXCEPT !.id = i]
               y3 == [y2 EXCEPT !.choice = choice]
               y == [y3 EXCEPT !.targets = t]
    <2>1. v4' = [v4 EXCEPT ![c] = y]
      BY <1>3
    <2>2. t \in Imports!Targets
      BY <1>0, ChosenTyped
    <2>3. y1 \in Imports!Request /\ y1.pc = "claim"
      BY <1>0 DEF Imports!Request
    <2> HIDE DEF y1, t
    <2>4. y2 \in Imports!Request /\ y2.pc = "claim" /\ y2.id = i
      BY <2>3 DEF Imports!Request
    <2> HIDE DEF y2
    <2>5. y3 \in Imports!Request /\ y3.pc = "claim" /\ y3.id = i
      BY <2>4 DEF Imports!Request
    <2> HIDE DEF y3
    <2>6. y \in Imports!Request /\ y.pc = "claim" /\ y.id = i
      BY <2>2, <2>5 DEF Imports!Request
    <2> HIDE DEF y
    <2> QED BY <1>0, <1>1, <2>1, <2>6, RequestGoesOn
  <1> QED BY <1>2, <1>3 DEF Imports!Load, Imports!To

LEMMA ImportRead ==
    ASSUME Imports!ImportsAssumption, Imports!ImportsInv, NEW c \in Pair,
           Imports!ReadUIDs(c) \/ Imports!Die(c)
    PROVE  Imports!ImportsInv'
  <1>0. v4[c] \in Imports!Request /\ v7 \in 0..MaxImportFaults
    BY DEF Imports!ImportsInv, Imports!ImportsTypeOK
  <1>1. CASE Imports!ReadUIDs(c)
    <2> DEFINE y1 == [v4[c] EXCEPT !.pc = "write"]
               y == [y1 EXCEPT !.seen = Imports!ByUID(c)]
    <2>1. v4' = [v4 EXCEPT ![c] = y] /\ v4[c].pc = "read" /\ UNCHANGED <<v1, v2, v3, v5, v6, v7>>
      BY <1>1 DEF Imports!ReadUIDs
    <2>2. Imports!ByUID(c) \subseteq {"cal", "list", "newcal", "newlist"} \X Imports!Entries
      <3>1. \A k \in Imports!Kinds : v4[c].targets[k] # "none" => Imports!Place(c, k) \in {"cal", "list", "newcal", "newlist"}
        BY <1>0, RequestFields DEF Imports!Place, Imports!Targets
      <3>2. v2 \subseteq Imports!Entries
        BY DEF Imports!ImportsInv, Imports!ImportsTypeOK
      <3>3. Imports!Writes(c) \subseteq {"cal", "list", "newcal", "newlist"} \X Imports!Entries
        BY <3>1, <3>2 DEF Imports!Writes
      <3> QED BY <3>3 DEF Imports!ByUID, Imports!Wanted
    <2>3. y1 \in Imports!Request /\ y1.pc = "write" /\ y1.id = v4[c].id
      BY <1>0 DEF Imports!Request
    <2> HIDE DEF y1
    <2>4. y \in Imports!Request /\ y.pc = "write" /\ y.id = v4[c].id
      BY <2>2, <2>3 DEF Imports!Request
    <2> HIDE DEF y
    <2> QED BY <1>0, <2>1, <2>4, RequestGoesOn
  <1>2. CASE Imports!Die(c)
    <2> DEFINE y == [v4[c] EXCEPT !.pc = "dead"]
    <2>1. v4' = [v4 EXCEPT ![c] = y] /\ UNCHANGED <<v1, v2, v3, v5, v6>>
      BY <1>2 DEF Imports!Die, Imports!To
    <2>2. v7' \in 0..MaxImportFaults
      BY <1>0, <1>2 DEF Imports!Die, Imports!Fault, Imports!ImportsAssumption
    <2>3. y \in Imports!Request /\ y.pc = "dead"
      BY <1>0 DEF Imports!Request
    <2> HIDE DEF y
    <2> QED BY <1>0, <2>1, <2>2, <2>3, RequestGoesOn
  <1> QED BY <1>1, <1>2

\* The claim: of an import that is previewed, so nobody else has claimed it.
LEMMA ImportClaimed ==
    ASSUME Imports!ImportsAssumption, Imports!ImportsInv, NEW c \in Pair, Imports!Claim(c)
    PROVE  Imports!ImportsInv'
  <1> DEFINE i == v4[c].id
  <1>0. /\ v4[c] \in Imports!Request /\ v7 \in 0..MaxImportFaults /\ v4[c].pc = "claim" /\ i \in ImportIDs
        /\ v3 \in [ImportIDs -> Imports!Import] /\ v4 \in [Pair -> Imports!Request]
    BY DEF Imports!ImportsInv, Imports!ImportsTypeOK, Imports!Claim, Imports!CommitInv
  <1>1. UNCHANGED <<v1, v2, v5, v6, v7>>
    BY DEF Imports!Claim
  <1>2. CASE v3[i].status # "previewed"
    <2> DEFINE y == [v4[c] EXCEPT !.pc = "end"]
    <2>1. v4' = [v4 EXCEPT ![c] = y] /\ v3' = v3
      BY <1>2 DEF Imports!Claim, Imports!To, Imports!ClaimImport
    <2>2. y \in Imports!Request /\ y.pc = "end"
      BY <1>0 DEF Imports!Request
    <2> HIDE DEF y
    <2> QED BY <1>0, <1>1, <2>1, <2>2, RequestGoesOn
  <1>3. CASE v3[i].status = "previewed"
    <2> DEFINE y == [v4[c] EXCEPT !.pc = "read"]
               m == [v3[i] EXCEPT !.status = "committing"]
    <2>1. v4' = [v4 EXCEPT ![c] = y] /\ v3' = [v3 EXCEPT ![i] = m]
      BY <1>3 DEF Imports!Claim, Imports!To, Imports!ClaimImport
    <2>2. y \in Imports!Request /\ y.pc = "read" /\ y.id = i
      BY <1>0 DEF Imports!Request
    <2>3. m \in Imports!Import /\ m.status = "committing"
      BY <1>0 DEF Imports!Import, Imports!Statuses
    <2> HIDE DEF y, m
    <2>4. \A b \in Pair : v4'[b] = IF b = c THEN y ELSE v4[b]
      BY <1>0, <2>1
    <2>5. \A j \in ImportIDs : v3'[j] = IF j = i THEN m ELSE v3[j]
      BY <1>0, <2>1
    <2>6. Imports!ImportsTypeOK'
      <3>1. v3' \in [ImportIDs -> Imports!Import] /\ v4' \in [Pair -> Imports!Request]
        BY <1>0, <2>1, <2>2, <2>3
      <3> QED BY <1>1, <3>1 DEF Imports!ImportsInv, Imports!ImportsTypeOK
    <2>7. \A b \in Pair : Imports!Claimed(b) => v4[b].id \in ImportIDs /\ v4[b].id # i
      BY <1>3 DEF Imports!ImportsInv, Imports!CommitInv
    <2>8. v6[i] = 0
      BY <1>0, <1>3 DEF Imports!ImportsInv, Imports!ImportInv
    <2>9. Imports!CommitInv'
      <3>1. ASSUME NEW b \in Pair, b # c PROVE v4'[b] = v4[b] /\ (Imports!Claimed(b)' <=> Imports!Claimed(b))
        BY <2>4, <3>1 DEF Imports!Claimed
      <3>2. ASSUME NEW b \in Pair PROVE v4'[b].pc = "claim" \/ Imports!Claimed(b)' => v4'[b].id \in ImportIDs
        BY <1>0, <2>2, <2>4, <3>1 DEF Imports!ImportsInv, Imports!CommitInv
      <3>3. ASSUME NEW b \in Pair, Imports!Claimed(b)', b # c
            PROVE  /\ v3'[v4'[b].id].status \in {"committing", "purged"}
                   /\ \A a \in Pair : Imports!Claimed(a)' /\ v4'[a].id = v4'[b].id => a = b
                   /\ v6'[v4'[b].id] = IF v4'[b].pc = "save" /\ v4'[b].ok THEN 1 ELSE 0
        BY <1>1, <2>2, <2>4, <2>5, <2>7, <3>1, <3>3 DEF Imports!ImportsInv, Imports!CommitInv
      <3>4. /\ v3'[v4'[c].id].status \in {"committing", "purged"}
            /\ \A a \in Pair : Imports!Claimed(a)' /\ v4'[a].id = v4'[c].id => a = c
            /\ v6'[v4'[c].id] = IF v4'[c].pc = "save" /\ v4'[c].ok THEN 1 ELSE 0
        BY <1>0, <1>1, <2>2, <2>3, <2>4, <2>5, <2>7, <2>8, <3>1
      <3> QED BY <3>2, <3>3, <3>4 DEF Imports!CommitInv
    <2>10. Imports!ImportInv'
      BY <1>1, <2>3, <2>5 DEF Imports!ImportsInv, Imports!ImportInv
    <2>11. Imports!ImportIsExact'
      BY <1>1, <2>3, <2>5 DEF Imports!ImportsInv, Imports!ImportIsExact
    <2> QED BY <2>6, <2>9, <2>10, <2>11 DEF Imports!ImportsInv
  <1> QED BY <1>2, <1>3

\* What the transaction of a commit leaves of the tables: no second entry of a UID.
LEMMA WriteKeepsUIDs ==
    ASSUME Imports!ImportsInv, NEW c \in Pair, Imports!Write(c), ~Imports!Broken(c)
    PROVE  /\ v1' \in [{"cal", "list", "newcal", "newlist"} \X Imports!Entries -> Nat]
           /\ v5' \subseteq {"cal", "list", "newcal", "newlist"}
           /\ \A p \in {"cal", "list", "newcal", "newlist"}, e \in Imports!Unique : v1'[<<p, e>>] <= 1
  <1> DEFINE P == {"cal", "list", "newcal", "newlist"}
             new == {x \in Imports!Wanted(c) : x[1] \in {"newcal", "newlist"}}
             ins == {x \in Imports!Wanted(c) : x \notin v4[c].seen}
  <1>0. v1 \in [P \X Imports!Entries -> Nat] /\ v5 \subseteq P
    BY DEF Imports!ImportsInv, Imports!ImportsTypeOK
  <1>1. v1' = [x \in P \X Imports!Entries |-> IF x \in new THEN 1 ELSE IF x \in ins THEN v1[x] + 1 ELSE v1[x]]
    BY DEF Imports!Write
  <1>2. v5' = v5 \cup {x[1] : x \in new}
    BY DEF Imports!Write
  <1>3. \A p \in P, e \in Imports!Unique :
          /\ <<p, e>> \in P \X Imports!Entries /\ v1[<<p, e>>] <= 1
          /\ <<p, e>> \in ins /\ <<p, e>> \notin new => v1[<<p, e>>] = 0
    <2>1. TAKE p \in P, e \in Imports!Unique
    <2>2. <<p, e>> \in P \X Imports!Entries /\ v1[<<p, e>>] <= 1
      BY DEF Imports!Unique, Imports!Entries, Imports!ImportsInv, Imports!ImportIsExact
    <2>3. ASSUME <<p, e>> \in ins, <<p, e>> \notin new PROVE v1[<<p, e>>] = 0
      <3>1. <<p, e>> \in Imports!Wanted(c) \ v4[c].seen /\ <<p, e>>[1] = p /\ <<p, e>>[2] = e /\ p \in {"cal", "list"}
        BY <2>3
      <3>2. ~(v1[<<p, e>>] > 0)
        BY <3>1 DEF Imports!Broken
      <3> QED BY <1>0, <2>2, <3>2
    <2> QED BY <2>2, <2>3
  <1>4. \A x \in new : x[1] \in P
    OBVIOUS
  <1> HIDE DEF new, ins, P
  <1>5. v1' \in [P \X Imports!Entries -> Nat] /\ v5' \subseteq P
    BY <1>0, <1>1, <1>2, <1>4
  <1>6. \A p \in P, e \in Imports!Unique : v1'[<<p, e>>] <= 1
    <2>1. TAKE p \in P, e \in Imports!Unique
    <2>2. v1'[<<p, e>>] = IF <<p, e>> \in new THEN 1 ELSE IF <<p, e>> \in ins THEN v1[<<p, e>>] + 1 ELSE v1[<<p, e>>]
      BY <1>1, <1>3
    <2> QED BY <1>0, <1>3, <2>2
  <1> QED BY <1>5, <1>6 DEF P

\* One request at the end of its transaction, or of its work: of the others nobody has claimed
\* the import.
LEMMA ImportAlone ==
    ASSUME Imports!ImportsInv, NEW c \in Pair, Imports!Claimed(c), NEW y \in Imports!Request,
           v4' = [v4 EXCEPT ![c] = y], y.id = v4[c].id, y.pc # "claim",
           \A j \in ImportIDs : j # v4[c].id => v3'[j] = v3[j] /\ v6'[j] = v6[j],
           y.pc = "save" => /\ v3'[v4[c].id].status \in {"committing", "purged"}
                            /\ v6'[v4[c].id] = IF y.ok THEN 1 ELSE 0,
           y.pc \notin {"read", "write"}
    PROVE  Imports!CommitInv'
  <1>0. v4 \in [Pair -> Imports!Request] /\ v4[c].id \in ImportIDs
    BY DEF Imports!ImportsInv, Imports!ImportsTypeOK, Imports!CommitInv
  <1>1. \A b \in Pair : v4'[b] = IF b = c THEN y ELSE v4[b]
    BY <1>0
  <1>2. \A b \in Pair : b # c => v4'[b] = v4[b] /\ (Imports!Claimed(b)' <=> Imports!Claimed(b))
    BY <1>1 DEF Imports!Claimed
  <1>3. \A b \in Pair : Imports!Claimed(b) /\ b # c => v4[b].id \in ImportIDs /\ v4[b].id # v4[c].id
    BY DEF Imports!ImportsInv, Imports!CommitInv
  <1>4. ASSUME NEW b \in Pair PROVE v4'[b].pc = "claim" \/ Imports!Claimed(b)' => v4'[b].id \in ImportIDs
    BY <1>0, <1>1, <1>2 DEF Imports!ImportsInv, Imports!CommitInv
  <1>5. ASSUME NEW b \in Pair, Imports!Claimed(b)', b # c
        PROVE  /\ v3'[v4'[b].id].status \in {"committing", "purged"}
               /\ \A a \in Pair : Imports!Claimed(a)' /\ v4'[a].id = v4'[b].id => a = b
               /\ v6'[v4'[b].id] = IF v4'[b].pc = "save" /\ v4'[b].ok THEN 1 ELSE 0
    BY <1>1, <1>2, <1>3, <1>5 DEF Imports!ImportsInv, Imports!CommitInv
  <1>6. ASSUME Imports!Claimed(c)'
        PROVE  /\ v3'[v4'[c].id].status \in {"committing", "purged"}
               /\ \A a \in Pair : Imports!Claimed(a)' /\ v4'[a].id = v4'[c].id => a = c
               /\ v6'[v4'[c].id] = IF v4'[c].pc = "save" /\ v4'[c].ok THEN 1 ELSE 0
    <2>1. y.pc = "save"
      BY <1>1, <1>6 DEF Imports!Claimed
    <2> QED BY <1>1, <1>2, <1>3, <2>1
  <1> QED BY <1>4, <1>5, <1>6 DEF Imports!CommitInv

LEMMA ImportApplied ==
    ASSUME Imports!ImportsAssumption, Imports!ImportsInv, NEW c \in Pair, Imports!ApplyImport(c)
    PROVE  Imports!ImportsInv'
  <1> DEFINE i == v4[c].id
             y1 == [v4[c] EXCEPT !.pc = "save"]
             y(ok) == [y1 EXCEPT !.ok = ok]
  <1>0. /\ v4[c] \in Imports!Request /\ v7 \in 0..MaxImportFaults /\ v4[c].pc = "write" /\ i \in ImportIDs
        /\ v3 \in [ImportIDs -> Imports!Import] /\ v4 \in [Pair -> Imports!Request] /\ v6 \in [ImportIDs -> Nat]
        /\ UNCHANGED <<v2, v3>> /\ v6[i] = 0 /\ v3[i].status \in {"committing", "purged"} /\ Imports!Claimed(c)
    BY DEF Imports!ImportsInv, Imports!ImportsTypeOK, Imports!ApplyImport, Imports!CommitInv, Imports!Claimed
  <1>1. ASSUME NEW ok \in BOOLEAN PROVE y(ok) \in Imports!Request /\ y(ok).pc = "save" /\ y(ok).id = i /\ y(ok).ok = ok
    <2>1. y1 \in Imports!Request /\ y1.pc = "save" /\ y1.id = i
      BY <1>0 DEF Imports!Request
    <2> HIDE DEF y1
    <2> QED BY <2>1 DEF Imports!Request
  <1>2. CASE /\ ~Imports!Broken(c) /\ ~Imports!Vanished(c) /\ Imports!Write(c) /\ Imports!Ends(c, TRUE)
             /\ v6' = [v6 EXCEPT ![i] = @ + 1] /\ v7' = v7
    <2> DEFINE z == y(TRUE)
    <2>1. z \in Imports!Request /\ z.pc = "save" /\ z.id = i /\ z.ok = TRUE
      BY <1>1
    <2>2. v4' = [v4 EXCEPT ![c] = z]
      BY <1>2 DEF Imports!Ends
    <2> HIDE DEF z
    <2>3. v6' \in [ImportIDs -> Nat] /\ \A j \in ImportIDs : v6'[j] = IF j = i THEN 1 ELSE v6[j]
      BY <1>0, <1>2
    <2>4. Imports!CommitInv'
      BY <1>0, <2>1, <2>2, <2>3, ImportAlone
    <2>5. /\ v1' \in [{"cal", "list", "newcal", "newlist"} \X Imports!Entries -> Nat]
          /\ v5' \subseteq {"cal", "list", "newcal", "newlist"}
          /\ \A p \in {"cal", "list", "newcal", "newlist"}, e \in Imports!Unique : v1'[<<p, e>>] <= 1
      BY <1>2, WriteKeepsUIDs
    <2>6. Imports!ImportsTypeOK'
      <3>1. v4' \in [Pair -> Imports!Request]
        BY <1>0, <2>1, <2>2
      <3> QED BY <1>0, <1>2, <2>3, <2>5, <3>1 DEF Imports!ImportsInv, Imports!ImportsTypeOK
    <2>7. Imports!ImportInv'
      BY <1>0, <2>3 DEF Imports!ImportsInv, Imports!ImportInv
    <2>8. Imports!ImportIsExact'
      <3>1. \A j \in ImportIDs : /\ v6'[j] <= 1
                                 /\ v3'[j].status = "done" => v6'[j] = 1
                                 /\ v3'[j].status = "failed" => v6'[j] = 0
        BY <1>0, <2>3 DEF Imports!ImportsInv, Imports!ImportIsExact
      <3> QED BY <2>5, <3>1 DEF Imports!ImportIsExact
    <2> QED BY <2>4, <2>6, <2>7, <2>8 DEF Imports!ImportsInv
  <1>3. CASE Imports!Ends(c, FALSE) /\ UNCHANGED <<v1, v5, v6>> /\ (v7' = v7 \/ Imports!Fault)
    <2> DEFINE z == y(FALSE)
    <2>1. z \in Imports!Request /\ z.pc = "save" /\ z.id = i /\ ~z.ok
      BY <1>1
    <2>2. v4' = [v4 EXCEPT ![c] = z]
      BY <1>3 DEF Imports!Ends
    <2>3. v7' \in 0..MaxImportFaults
      BY <1>0, <1>3 DEF Imports!Fault, Imports!ImportsAssumption
    <2> HIDE DEF z
    <2> QED BY <1>0, <1>3, <2>1, <2>2, <2>3, RequestGoesOn
  <1> QED BY <1>2, <1>3 DEF Imports!ApplyImport

\* The outcome is saved: by the request that claimed the import, after it has written or failed.
LEMMA ImportSaved ==
    ASSUME Imports!ImportsAssumption, Imports!ImportsInv, NEW c \in Pair, Imports!SaveImport(c)
    PROVE  Imports!ImportsInv'
  <1> DEFINE i == v4[c].id
             y == [v4[c] EXCEPT !.pc = "end"]
             m1 == [v3[i] EXCEPT !.payload = FALSE]
             m == [m1 EXCEPT !.status = IF v4[c].ok THEN "done" ELSE "failed"]
  <1>0. /\ v4[c] \in Imports!Request /\ v4[c].pc = "save" /\ i \in ImportIDs
        /\ v3 \in [ImportIDs -> Imports!Import] /\ v4 \in [Pair -> Imports!Request]
        /\ UNCHANGED <<v1, v2, v5, v6, v7>> /\ v6[i] = (IF v4[c].ok THEN 1 ELSE 0) /\ Imports!Claimed(c)
        /\ v4' = [v4 EXCEPT ![c] = y]
    BY DEF Imports!ImportsInv, Imports!ImportsTypeOK, Imports!SaveImport, Imports!CommitInv, Imports!Claimed, Imports!To
  <1>1. v3' = v3 \/ v3' = [v3 EXCEPT ![i] = m]
    BY DEF Imports!SaveImport
  <1>2. y \in Imports!Request /\ y.pc = "end" /\ y.id = i
    BY <1>0 DEF Imports!Request
  <1>3. m1 \in Imports!Import
    BY <1>0 DEF Imports!Import
  <1> HIDE DEF m1, y
  <1>4. m \in Imports!Import /\ m.status = IF v4[c].ok THEN "done" ELSE "failed"
    BY <1>3 DEF Imports!Import, Imports!Statuses
  <1> HIDE DEF m
  <1>5. /\ v3' \in [ImportIDs -> Imports!Import] /\ v4' \in [Pair -> Imports!Request]
        /\ \A j \in ImportIDs : v3'[j] = v3[j] \/ (j = i /\ v3'[j] = m)
    BY <1>0, <1>1, <1>2, <1>4
  <1>6. Imports!CommitInv'
    <2>1. \A j \in ImportIDs : j # i => v3'[j] = v3[j] /\ v6'[j] = v6[j]
      BY <1>0, <1>5
    <2> QED BY <1>0, <1>2, <2>1, ImportAlone
  <1>7. Imports!ImportsTypeOK'
    BY <1>0, <1>5 DEF Imports!ImportsInv, Imports!ImportsTypeOK
  <1>8. Imports!ImportInv'
    BY <1>0, <1>4, <1>5 DEF Imports!ImportsInv, Imports!ImportInv
  <1>9. Imports!ImportIsExact'
    <2>1. \A j \in ImportIDs : /\ v6'[j] <= 1
                               /\ v3'[j].status = "done" => v6'[j] = 1
                               /\ v3'[j].status = "failed" => v6'[j] = 0
      BY <1>0, <1>4, <1>5 DEF Imports!ImportsInv, Imports!ImportIsExact
    <2>2. \A p \in {"cal", "list", "newcal", "newlist"}, e \in Imports!Unique : v1'[<<p, e>>] <= 1
      BY <1>0 DEF Imports!ImportsInv, Imports!ImportIsExact
    <2> QED BY <2>1, <2>2 DEF Imports!ImportIsExact
  <1> QED BY <1>6, <1>7, <1>8, <1>9 DEF Imports!ImportsInv

\* An upload comes or goes.
LEMMA ImportChanges ==
    ASSUME Imports!ImportsAssumption, Imports!ImportsInv, NEW i \in ImportIDs,
           Imports!Upload(i) \/ Imports!PurgeImport(i)
    PROVE  Imports!ImportsInv'
  <1>0. /\ v3 \in [ImportIDs -> Imports!Import] /\ UNCHANGED <<v1, v2, v4, v5, v6>> /\ v7 \in 0..MaxImportFaults
    BY DEF Imports!ImportsInv, Imports!ImportsTypeOK, Imports!Upload, Imports!PurgeImport
  <1>1. v7' \in 0..MaxImportFaults
    BY <1>0 DEF Imports!Upload, Imports!PurgeImport, Imports!Fault, Imports!ImportsAssumption
  <1>2. \E m \in Imports!Import :
          /\ v3' = [v3 EXCEPT ![i] = m]
          /\ \/ m.status = "purged"
             \/ v3[i].status = "none" /\ m.status = "previewed"
    <2>1. CASE Imports!Upload(i)
      <3>1. Imports!Preview \in Imports!Targets
        BY DEF Imports!Preview, Imports!Targets, Imports!Match
      <3> DEFINE m == [status |-> "previewed", payload |-> TRUE, targets |-> Imports!Preview]
      <3>2. m \in Imports!Import
        BY <3>1 DEF Imports!Import, Imports!Statuses
      <3> QED BY <2>1, <3>2 DEF Imports!Upload
    <2>2. CASE Imports!PurgeImport(i)
      <3> DEFINE m == [Imports!NoImport EXCEPT !.status = "purged"]
      <3>1. Imports!NoImport \in Imports!Import
        <4>1. [k \in Imports!Kinds |-> "new"] \in Imports!Targets
          BY DEF Imports!Targets
        <4> QED BY <4>1 DEF Imports!NoImport, Imports!Import, Imports!Statuses
      <3>2. m \in Imports!Import /\ m.status = "purged"
        BY <3>1 DEF Imports!Import, Imports!Statuses
      <3>3. v3' = [v3 EXCEPT ![i] = m]
        BY <2>2 DEF Imports!PurgeImport
      <3> HIDE DEF m
      <3> QED BY <3>2, <3>3
    <2> QED BY <2>1, <2>2
  <1>3. PICK m \in Imports!Import :
          /\ v3' = [v3 EXCEPT ![i] = m]
          /\ m.status = "purged" \/ (v3[i].status = "none" /\ m.status = "previewed")
    BY <1>2
  <1>4. v3' \in [ImportIDs -> Imports!Import] /\ \A j \in ImportIDs : v3'[j] = IF j = i THEN m ELSE v3[j]
    BY <1>0, <1>3
  <1>5. Imports!ImportsTypeOK'
    BY <1>0, <1>1, <1>4 DEF Imports!ImportsInv, Imports!ImportsTypeOK
  <1>6. Imports!CommitInv'
    <2>1. \A b \in Pair : Imports!Claimed(b)' <=> Imports!Claimed(b)
      BY <1>0 DEF Imports!Claimed
    <2>2. ASSUME NEW b \in Pair, Imports!Claimed(b) PROVE v3'[v4[b].id].status \in {"committing", "purged"}
      BY <1>3, <1>4, <2>2 DEF Imports!ImportsInv, Imports!CommitInv
    <2> QED BY <1>0, <2>1, <2>2 DEF Imports!ImportsInv, Imports!CommitInv
  <1>7. Imports!ImportInv' /\ Imports!ImportIsExact'
    BY <1>0, <1>3, <1>4 DEF Imports!ImportsInv, Imports!ImportInv, Imports!ImportIsExact
  <1> QED BY <1>5, <1>6, <1>7 DEF Imports!ImportsInv

\* An export, or a place that is deleted.
LEMMA PlacesChange ==
    ASSUME Imports!ImportsAssumption, Imports!ImportsInv,
           \/ Imports!YAML \/ Imports!ICS
           \/ \E p \in {"cal", "list"} : Imports!DeletePlace(p)
    PROVE  Imports!ImportsInv'
  <1> DEFINE P == {"cal", "list", "newcal", "newlist"}
  <1>0. /\ v1 \in [P \X Imports!Entries -> Nat] /\ v2 \subseteq Imports!Entries /\ v5 \subseteq P
        /\ v7 \in 0..MaxImportFaults
    BY DEF Imports!ImportsInv, Imports!ImportsTypeOK
  <1>1. UNCHANGED <<v3, v4, v6>>
    BY DEF Imports!YAML, Imports!ICS, Imports!DeletePlace
  <1>2. v2' \subseteq Imports!Entries
    BY <1>0 DEF Imports!YAML, Imports!ICS, Imports!DeletePlace, Imports!Entries
  <1>3. v5' \subseteq P
    BY <1>0 DEF Imports!YAML, Imports!ICS, Imports!DeletePlace
  <1>4. v7' \in 0..MaxImportFaults
    BY <1>0 DEF Imports!YAML, Imports!ICS, Imports!DeletePlace, Imports!Fault, Imports!ImportsAssumption
  <1>5. v1' \in [P \X Imports!Entries -> Nat] /\ \A x \in P \X Imports!Entries : v1'[x] = v1[x] \/ v1'[x] = 0
    <2>1. v1' = v1 \/ \E p : v1' = [x \in P \X Imports!Entries |-> IF x[1] = p THEN 0 ELSE v1[x]]
      BY DEF Imports!YAML, Imports!ICS, Imports!DeletePlace
    <2> HIDE DEF P
    <2> QED BY <1>0, <2>1
  <1>6. Imports!ImportsTypeOK'
    BY <1>0, <1>1, <1>2, <1>3, <1>4, <1>5 DEF Imports!ImportsInv, Imports!ImportsTypeOK
  <1>7. \A p \in P, e \in Imports!Unique : v1'[<<p, e>>] <= 1
    <2>1. TAKE p \in P, e \in Imports!Unique
    <2>2. <<p, e>> \in P \X Imports!Entries /\ v1[<<p, e>>] <= 1
      BY DEF Imports!Unique, Imports!Entries, Imports!ImportsInv, Imports!ImportIsExact
    <2>3. v1'[<<p, e>>] = v1[<<p, e>>] \/ v1'[<<p, e>>] = 0
      BY <1>5, <2>2
    <2> QED BY <2>2, <2>3
  <1>8. Imports!ImportIsExact'
    BY <1>1, <1>7 DEF Imports!ImportsInv, Imports!ImportIsExact
  <1> QED BY <1>1, <1>6, <1>8 DEF Imports!ImportsInv, Imports!CommitInv, Imports!ImportInv, Imports!Claimed

LEMMA ImportsStart ==
    ASSUME Imports!ImportsAssumption, Imports!ImportsInit
    PROVE  Imports!ImportsInv
  <1>1. [k \in Imports!Kinds |-> "new"] \in Imports!Targets
    BY DEF Imports!Targets
  <1>2. Imports!NoImport \in Imports!Import /\ Imports!NoImport.status = "none"
    BY <1>1 DEF Imports!NoImport, Imports!Import, Imports!Statuses
  <1>3. Imports!NoCommit \in Imports!Request /\ Imports!NoCommit.pc = "new"
    <2>1. [target |-> "", skip |-> FALSE] \in Imports!Choice
      BY DEF Imports!Choice
    <2> QED BY <1>1, <2>1 DEF Imports!NoCommit, Imports!Request
  <1>4. Imports!ImportsTypeOK
    <2>1. v2 \subseteq Imports!Entries
      BY DEF Imports!ImportsInit, Imports!Entries
    <2> QED BY <1>2, <1>3, <2>1 DEF Imports!ImportsInit, Imports!ImportsTypeOK, Imports!ImportsAssumption
  <1>5. Imports!CommitInv /\ Imports!ImportInv
    BY <1>2, <1>3 DEF Imports!ImportsInit, Imports!CommitInv, Imports!ImportInv, Imports!Claimed
  <1>6. Imports!ImportIsExact
    <2>1. \A p \in {"cal", "list", "newcal", "newlist"}, e \in Imports!Unique : v1[<<p, e>>] = 0
      BY DEF Imports!ImportsInit, Imports!Unique, Imports!Entries
    <2> QED BY <1>2, <2>1 DEF Imports!ImportsInit, Imports!ImportIsExact
  <1> QED BY <1>4, <1>5, <1>6 DEF Imports!ImportsInv

LEMMA ImportsKeep ==
    ASSUME Imports!ImportsAssumption, Imports!ImportsInv, [Imports!ImportsNext]_(Imports!importVars)
    PROVE  Imports!ImportsInv'
  <1>1. CASE \E i \in ImportIDs : Imports!Upload(i) \/ Imports!PurgeImport(i)
    BY <1>1, ImportChanges
  <1>2. CASE \E c \in Pair, i \in ImportIDs, choice \in Imports!Choice : Imports!Load(c, i, choice)
    BY <1>2, ImportLoaded
  <1>3. CASE \E c \in Pair : \/ Imports!Claim(c) \/ Imports!ReadUIDs(c) \/ Imports!ApplyImport(c)
                             \/ Imports!SaveImport(c) \/ Imports!Die(c)
    BY <1>3, ImportClaimed, ImportRead, ImportApplied, ImportSaved
  <1>4. CASE Imports!YAML \/ Imports!ICS \/ \E p \in {"cal", "list"} : Imports!DeletePlace(p)
    BY <1>4, PlacesChange
  <1>5. CASE UNCHANGED Imports!importVars
    BY <1>5 DEF Imports!importVars, Imports!ImportsInv, Imports!ImportsTypeOK, Imports!CommitInv, Imports!Claimed,
                Imports!ImportInv, Imports!ImportIsExact
  <1>6. ASSUME NEW c \in Pair, NEW i \in ImportIDs, Imports!WebCommit(c, i) \/ Imports!commitImport(c, i)
        PROVE  \E choice \in Imports!Choice : Imports!Load(c, i, choice)
    <2>1. v3[i].targets["calendar"] \in {"none", "new", "cal", "list"}
      BY ImportFields DEF Imports!ImportsInv, Imports!ImportsTypeOK, Imports!Targets, Imports!Kinds
    <2>2. \A t \in {"", "new", "cal", "list"}, skip \in BOOLEAN : [target |-> t, skip |-> skip] \in Imports!Choice
      BY DEF Imports!Choice
    <2>4. CASE Imports!WebCommit(c, i)
      <3>1. PICK t \in {v3[i].targets["calendar"], "new"}, skip \in BOOLEAN :
              Imports!Load(c, i, [target |-> IF t = "none" THEN "" ELSE t, skip |-> skip])
        BY <2>4 DEF Imports!WebCommit
      <3> DEFINE u == IF t = "none" THEN "" ELSE t
      <3>2. u \in {"", "new", "cal", "list"}
        <4>1. t \in {"none", "new", "cal", "list"}
          BY <2>1
        <4>2. CASE t = "none"
          BY <4>2
        <4>3. CASE t # "none"
          BY <4>1, <4>3
        <4> QED BY <4>2, <4>3
      <3> HIDE DEF u
      <3>3. [target |-> u, skip |-> skip] \in Imports!Choice
        BY <2>2, <3>2
      <3> QED BY <3>1, <3>3 DEF u
    <2>5. CASE Imports!commitImport(c, i)
      BY <2>2, <2>5 DEF Imports!commitImport
    <2> QED BY <1>6, <2>4, <2>5
  <1> QED BY <1>1, <1>2, <1>3, <1>4, <1>5, <1>6 DEF Imports!ImportsNext, Imports!createImport, Imports!WebUpload

\* For any uploads, requests, entries, choices, deaths and deletions, an upload is written once
\* at most, its status says whether it was, and no calendar or list holds two entries of a UID.
THEOREM ImportsExactly == Spec => []ImportIsExact
  <1> DEFINE Inv == part = "imports" => Imports!ImportsInv
  <1>0. Imports!ImportsAssumption
    BY ContentAssumption
  <1>1. Init => Inv
    BY <1>0, ImportsStart DEF Init
  <1>2. Inv /\ [Next]_vars => Inv'
    <2>1. ASSUME Inv, [Next]_vars, part = "imports" PROVE Imports!ImportsInv'
      <3>1. [Imports!ImportsNext]_(Imports!importVars)
        BY <2>1 DEF Next, vars, Imports!importVars
      <3> QED BY <1>0, <2>1, <3>1, ImportsKeep
    <2>2. ASSUME [Next]_vars PROVE part' = part
      BY <2>2 DEF Next, vars
    <2> QED BY <2>1, <2>2
  <1>3. Inv => ImportIsExact
    BY DEF ImportIsExact, Imports!ImportsInv
  <1> QED BY <1>1, <1>2, <1>3, PTL DEF Spec

-----------------------------------------------------------------------------
(* Feeds. *)

\* The fields of a row, of an answer and of a refresh.
LEMMA RowFields ==
    ASSUME NEW x \in Subscriptions!Rows
    PROVE  /\ x.is \in {"none", "live", "gone"} /\ x.status \in {"ok", "error"} /\ x.tag \in Nat
           /\ x.hash \in Subscriptions!Bodies /\ x.failures \in 0..MaxFailures + 1 /\ x.wait \in 0..Day
  BY DEF Subscriptions!Rows

LEMMA FeedFields ==
    ASSUME NEW x \in Subscriptions!Feeds
    PROVE  x.tag \in Nat /\ x.body \in Subscriptions!Bodies
  BY DEF Subscriptions!Feeds

LEMMA WorkFields ==
    ASSUME NEW x \in Subscriptions!Working
    PROVE  /\ x.pc \in {"rest", "fetch", "merge", "save"} /\ x.row \in Subscriptions!Rows
           /\ x.got \in Subscriptions!Feeds /\ x.stale \in BOOLEAN
  BY DEF Subscriptions!Working

\* A feed with nothing in it, and the row before the first refresh.
LEMMA EmptyFeed ==
    ASSUME Subscriptions!SubsAssumption
    PROVE  Subscriptions!NoBody \in Subscriptions!Bodies /\ Subscriptions!NoRow \in Subscriptions!Rows
  <1>1. \A o \in Overrides : Subscriptions!NoBody[o] = 0
    BY DEF Subscriptions!NoBody, Subscriptions!Items
  <1>2. Subscriptions!NoBody \in [Subscriptions!Items -> {0} \cup Contents]
    BY DEF Subscriptions!NoBody
  <1>3. Subscriptions!NoBody \in Subscriptions!Bodies
    BY <1>1, <1>2 DEF Subscriptions!Bodies
  <1> QED BY <1>3 DEF Subscriptions!SubsAssumption, Subscriptions!NoRow, Subscriptions!Rows

\* A row that has been read.
LEMMA ReadRow ==
    ASSUME Subscriptions!SubsAssumption, NEW pc \in {"rest", "fetch", "merge", "save"}, NEW x \in Subscriptions!Rows
    PROVE  LET w == Subscriptions!Reads(pc, x)
           IN  /\ w \in Subscriptions!Working /\ w.pc = pc /\ w.row = x /\ w.got.tag = 0 /\ w.stale = FALSE
               /\ w.got \in Subscriptions!Feeds
  <1>1. [tag |-> 0, body |-> Subscriptions!NoBody] \in Subscriptions!Feeds
    BY EmptyFeed DEF Subscriptions!Feeds
  <1> QED BY <1>1 DEF Subscriptions!Reads, Subscriptions!Working

LEMMA IdleWork ==
    ASSUME Subscriptions!SubsAssumption
    PROVE  /\ Subscriptions!Idle \in Subscriptions!Working /\ Subscriptions!Idle.pc = "rest"
           /\ Subscriptions!Idle.row.tag = 0 /\ Subscriptions!Idle.got.tag = 0
  <1>1. Subscriptions!NoRow.tag = 0
    BY DEF Subscriptions!NoRow
  <1> DEFINE x == Subscriptions!NoRow
             w == Subscriptions!Reads("rest", x)
  <1>2. x \in Subscriptions!Rows
    BY EmptyFeed
  <1>3. w \in Subscriptions!Working /\ w.pc = "rest" /\ w.row = x /\ w.got.tag = 0
    BY <1>2, ReadRow, Zenon
  <1>4. Subscriptions!Idle = w
    BY DEF Subscriptions!Idle
  <1> HIDE DEF w
  <1> QED BY <1>1, <1>3, <1>4

\* The back-off stays within a day.
LEMMA BackoffTyped ==
    ASSUME Subscriptions!SubsAssumption, NEW n \in Nat
    PROVE  Subscriptions!Backoff(n) \in 0..Day
  <1> DEFINE shift == IF n <= 1 THEN 0 ELSE IF n > 6 THEN 5 ELSE n - 1
  <1>1. Every \in Nat /\ Day \in Nat
    BY DEF Subscriptions!SubsAssumption
  <1>2. Subscriptions!Backoff(n) = IF Every * 2 ^ shift < Day THEN Every * 2 ^ shift ELSE Day
    BY DEF Subscriptions!Backoff
  <1>3. shift \in 0..5
    OBVIOUS
  <1> HIDE DEF shift
  <1>4. shift = 0 \/ shift = 1 \/ shift = 2 \/ shift = 3 \/ shift = 4 \/ shift = 5
    BY <1>3
  <1>5. 2 ^ 0 = 1 /\ 2 ^ 1 = 2 /\ 2 ^ 2 = 4 /\ 2 ^ 3 = 8 /\ 2 ^ 4 = 16 /\ 2 ^ 5 = 32
    OBVIOUS
  <1>6. 2 ^ shift \in Nat
    <2>1. {1, 2, 4, 8, 16, 32} \subseteq Nat
      OBVIOUS
    <2>2. 2 ^ shift \in {1, 2, 4, 8, 16, 32}
      BY <1>4, <1>5, Zenon
    <2> QED BY <2>1, <2>2, Zenon
  <1> DEFINE times == 2 ^ shift
  <1> HIDE DEF times
  <1>7. times \in Nat
    BY <1>6 DEF times
  <1>8. Every * times \in Nat
    BY <1>1, <1>7
  <1>9. Subscriptions!Backoff(n) = IF Every * times < Day THEN Every * times ELSE Day
    BY <1>2 DEF times
  <1> QED BY <1>1, <1>8, <1>9

\* What a refresh makes of the row it read.
LEMMA RowSucceeds ==
    ASSUME Subscriptions!SubsAssumption, NEW x \in Subscriptions!Rows
    PROVE  LET y == Subscriptions!Succeeded(x)
           IN  y \in Subscriptions!Rows /\ y.is = x.is /\ y.tag = x.tag /\ y.hash = x.hash
  <1> DEFINE a == [x EXCEPT !.status = "ok"]
             b == [a EXCEPT !.failures = 0]
             c == [b EXCEPT !.wait = Every]
  <1>1. a \in Subscriptions!Rows /\ a.is = x.is /\ a.tag = x.tag /\ a.hash = x.hash
    BY DEF Subscriptions!Rows
  <1>4. Subscriptions!Succeeded(x) = c
    BY DEF Subscriptions!Succeeded
  <1> HIDE DEF a
  <1>2. b \in Subscriptions!Rows /\ b.is = x.is /\ b.tag = x.tag /\ b.hash = x.hash
    BY <1>1 DEF Subscriptions!Rows, Subscriptions!SubsAssumption
  <1> HIDE DEF b
  <1>3. c \in Subscriptions!Rows /\ c.is = x.is /\ c.tag = x.tag /\ c.hash = x.hash
    BY <1>2 DEF Subscriptions!Rows, Subscriptions!SubsAssumption
  <1> HIDE DEF c
  <1> QED BY <1>3, <1>4

LEMMA RowFails ==
    ASSUME Subscriptions!SubsAssumption, NEW x \in Subscriptions!Rows, x.failures < MaxFailures
    PROVE  LET y == Subscriptions!Failed(x)
           IN  y \in Subscriptions!Rows /\ y.is = x.is /\ y.tag = x.tag /\ y.hash = x.hash
  <1> DEFINE n == x.failures + 1
             a == [x EXCEPT !.failures = n]
             w == Subscriptions!Backoff(n)
             b == [a EXCEPT !.wait = w]
             s == IF n >= MaxFailures THEN "error" ELSE b.status
             c == [b EXCEPT !.status = s]
  <1>0. n \in 0..MaxFailures + 1 /\ n \in Nat
    BY RowFields DEF Subscriptions!SubsAssumption
  <1>1. a \in Subscriptions!Rows /\ a.is = x.is /\ a.tag = x.tag /\ a.hash = x.hash
    BY <1>0 DEF Subscriptions!Rows
  <1>2. Subscriptions!Failed(x) = c
    BY DEF Subscriptions!Failed
  <1>3. w \in 0..Day
    BY <1>0, BackoffTyped
  <1> HIDE DEF a, w
  <1>4. b \in Subscriptions!Rows /\ b.is = x.is /\ b.tag = x.tag /\ b.hash = x.hash
    BY <1>1, <1>3 DEF Subscriptions!Rows
  <1> HIDE DEF b
  <1>5. s \in {"ok", "error"}
    BY <1>4, RowFields
  <1> HIDE DEF s
  <1>6. c \in Subscriptions!Rows /\ c.is = x.is /\ c.tag = x.tag /\ c.hash = x.hash
    BY <1>4, <1>5 DEF Subscriptions!Rows
  <1> HIDE DEF c
  <1> QED BY <1>2, <1>6

LEMMA RowTagged ==
    ASSUME NEW x \in Subscriptions!Rows, NEW t \in Nat
    PROVE  LET y == [x EXCEPT !.tag = t]
           IN  y \in Subscriptions!Rows /\ y.is = x.is /\ y.tag = t /\ y.hash = x.hash
  BY DEF Subscriptions!Rows

LEMMA RowMerged ==
    ASSUME Subscriptions!SubsAssumption, NEW x \in Subscriptions!Rows, NEW g \in Subscriptions!Feeds
    PROVE  LET y == Subscriptions!Validators(x, g)
           IN  y \in Subscriptions!Rows /\ y.is = x.is /\ y.tag = g.tag /\ y.hash = g.body
  <1> DEFINE a == Subscriptions!Succeeded(x)
             b == [a EXCEPT !.tag = g.tag]
             c == [b EXCEPT !.hash = g.body]
  <1>1. a \in Subscriptions!Rows /\ a.is = x.is
    BY RowSucceeds
  <1>2. Subscriptions!Validators(x, g) = c
    BY DEF Subscriptions!Validators
  <1> HIDE DEF a
  <1>3. b \in Subscriptions!Rows /\ b.is = x.is /\ b.tag = g.tag
    BY <1>1, FeedFields, RowTagged
  <1> HIDE DEF b
  <1>4. c \in Subscriptions!Rows /\ c.is = x.is /\ c.tag = g.tag /\ c.hash = g.body
    BY <1>3, FeedFields DEF Subscriptions!Rows
  <1> HIDE DEF c
  <1> QED BY <1>2, <1>4

\* The answer goes on to the row, or to the merge.
LEMMA WorkSaves ==
    ASSUME NEW x \in Subscriptions!Working, NEW y \in Subscriptions!Rows
    PROVE  LET w == [x EXCEPT !.pc = "save", !.row = y]
           IN  w \in Subscriptions!Working /\ w.pc = "save" /\ w.row = y /\ w.got = x.got
  <1> DEFINE a == [x EXCEPT !.pc = "save"]
             b == [a EXCEPT !.row = y]
  <1>1. a \in Subscriptions!Working /\ a.pc = "save" /\ a.got = x.got
    BY DEF Subscriptions!Working
  <1>2. [x EXCEPT !.pc = "save", !.row = y] = b
    OBVIOUS
  <1> HIDE DEF a
  <1>3. b \in Subscriptions!Working /\ b.pc = "save" /\ b.row = y /\ b.got = x.got
    BY <1>1 DEF Subscriptions!Working
  <1> HIDE DEF b
  <1> QED BY <1>2, <1>3

LEMMA WorkMerges ==
    ASSUME NEW x \in Subscriptions!Working, NEW g \in Subscriptions!Feeds
    PROVE  LET w == [x EXCEPT !.pc = "merge", !.got = g]
           IN  w \in Subscriptions!Working /\ w.pc = "merge" /\ w.row = x.row /\ w.got = g
  <1> DEFINE a == [x EXCEPT !.pc = "merge"]
             b == [a EXCEPT !.got = g]
  <1>1. a \in Subscriptions!Working /\ a.pc = "merge" /\ a.row = x.row
    BY DEF Subscriptions!Working
  <1>2. [x EXCEPT !.pc = "merge", !.got = g] = b
    OBVIOUS
  <1> HIDE DEF a
  <1>3. b \in Subscriptions!Working /\ b.pc = "merge" /\ b.row = x.row /\ b.got = g
    BY <1>1 DEF Subscriptions!Working
  <1> HIDE DEF b
  <1> QED BY <1>2, <1>3

\* What a refresh may hold: a tag that names its body, and a row that was there.
Sound(x) == /\ Subscriptions!NamesBody(x.row.tag, x.row.hash)
            /\ Subscriptions!NamesBody(x.got.tag, x.got.body)
            /\ x.pc # "rest" => v2.is # "none" /\ x.row.is = "live"

\* One refresh goes on, and the feed, the row and the user's request stay.
LEMMA WorkerTyped ==
    ASSUME Subscriptions!SubsInv, NEW r \in Pair, NEW x \in Subscriptions!Working, Sound(x),
           v5' = [v5 EXCEPT ![r] = x], UNCHANGED <<v1, v2, v6>>,
           v3' \in [Subscriptions!Items -> {0} \cup Contents], v4' \in BOOLEAN, v7' \in BOOLEAN,
           v8' \in 0..MaxSubCalls
    PROVE  Subscriptions!SubsTypeOK' /\ Subscriptions!TagInv' /\ Subscriptions!HolderInv'
  <1>0. Subscriptions!SubsTypeOK /\ Subscriptions!TagInv /\ Subscriptions!HolderInv
    BY DEF Subscriptions!SubsInv
  <1>1. Subscriptions!SubsTypeOK'
    BY <1>0 DEF Subscriptions!SubsTypeOK
  <1>2. \A q \in Pair : v5'[q] = IF q = r THEN x ELSE v5[q]
    BY <1>0 DEF Subscriptions!SubsTypeOK
  <1>3. Subscriptions!TagInv'
    BY <1>0, <1>2 DEF Subscriptions!TagInv, Subscriptions!NamesBody, Sound
  <1>4. Subscriptions!HolderInv'
    BY <1>0, <1>2 DEF Subscriptions!HolderInv, Subscriptions!Busy, Sound
  <1> QED BY <1>1, <1>3, <1>4

\* ... and the calendar stays too.
LEMMA WorkerGoesOn ==
    ASSUME Subscriptions!SubsInv, NEW r \in Pair, NEW x \in Subscriptions!Working, Sound(x),
           v5' = [v5 EXCEPT ![r] = x], UNCHANGED <<v1, v2, v3, v6>>, v4' \in BOOLEAN, v7' \in BOOLEAN,
           v8' \in 0..MaxSubCalls,
           ~v7' => ~v7 /\ v5[r].pc # "save" /\ \A q \in Pair : q # r => v5[q].pc = "rest" \/ v5[r].pc # "rest",
           v2.is = "live" /\ ~v7 /\ Subscriptions!RefreshInv /\ v5[r].pc # "save" =>
               /\ x.pc \in {"fetch", "merge"} => Subscriptions!Same(x.row, v2)
               /\ x.pc = "save" /\ x.row.tag # 0 => v2.tag # 0 /\ x.row.hash = v2.hash
    PROVE  Subscriptions!SubsInv'
  <1>0. Subscriptions!SubsTypeOK /\ (~v7 /\ v2.is = "live" => Subscriptions!RefreshInv)
    BY DEF Subscriptions!SubsInv
  <1>1. Subscriptions!SubsTypeOK' /\ Subscriptions!TagInv' /\ Subscriptions!HolderInv'
    BY <1>0, WorkerTyped DEF Subscriptions!SubsTypeOK
  <1>2. \A q \in Pair : v5'[q] = IF q = r THEN x ELSE v5[q]
    BY <1>0 DEF Subscriptions!SubsTypeOK
  <1>3. ASSUME ~v7', v2.is = "live" PROVE Subscriptions!RefreshInv'
    <2>1. /\ \A p, q \in Pair : v5[p].pc # "rest" /\ v5[q].pc # "rest" => p = q
          /\ \A q \in Pair : v5[q].pc \in {"fetch", "merge"} => Subscriptions!Same(v5[q].row, v2)
          /\ v6.pc = "save" /\ ~v6.stale => Subscriptions!Same(v6.row, v2)
          /\ (\A q \in Pair : v5[q].pc # "save") /\ v2.tag # 0 => Subscriptions!Holds(v2.hash)
          /\ Subscriptions!RefreshInv /\ ~v7
      BY <1>0, <1>3 DEF Subscriptions!RefreshInv, Subscriptions!Busy
    <2>2. /\ v5[r].pc # "save" /\ \A q \in Pair : q # r => v5[q].pc = "rest" \/ v5[r].pc # "rest"
          /\ x.pc \in {"fetch", "merge"} => Subscriptions!Same(x.row, v2)
          /\ x.pc = "save" /\ x.row.tag # 0 => v2.tag # 0 /\ x.row.hash = v2.hash
      BY <1>3, <2>1
    <2>3. \A q \in Pair : q # r => v5'[q] = v5[q] /\ v5[q].pc = "rest"
      BY <1>2, <2>1, <2>2
    <2>4. v5'[r] = x
      BY <1>2
    <2>5. v2.tag # 0 => Subscriptions!Holds(v2.hash)
      BY <2>1, <2>2, <2>3
    <2>6. \A p, q \in Pair : v5'[p].pc # "rest" /\ v5'[q].pc # "rest" => p = q
      BY <2>3
    <2>7. \A q \in Pair : v5'[q].pc \in {"fetch", "merge"} => Subscriptions!Same(v5'[q].row, v2)
      BY <2>2, <2>3, <2>4
    <2>8. \A q \in Pair : v5'[q].pc = "save" /\ v5'[q].row.tag # 0 => Subscriptions!Holds(v5'[q].row.hash)
      BY <2>2, <2>3, <2>4, <2>5
    <2> QED BY <2>1, <2>5, <2>6, <2>7, <2>8 DEF Subscriptions!RefreshInv, Subscriptions!Busy, Subscriptions!Same,
                                                Subscriptions!Holds
  <1> QED BY <1>1, <1>3 DEF Subscriptions!SubsInv

\* What is under way is sound.
LEMMA WorkIsSound ==
    ASSUME Subscriptions!SubsInv, NEW r \in Pair
    PROVE  Sound(v5[r]) /\ v5[r] \in Subscriptions!Working /\ v1 \in Subscriptions!Feeds /\ v2 \in Subscriptions!Rows
  <1>1. Subscriptions!SubsTypeOK /\ Subscriptions!TagInv /\ Subscriptions!HolderInv
    BY DEF Subscriptions!SubsInv
  <1> QED BY <1>1 DEF Subscriptions!SubsTypeOK, Subscriptions!TagInv, Subscriptions!HolderInv, Subscriptions!Busy,
                      Sound

\* A call of somebody else.
LEMMA CallTyped ==
    ASSUME Subscriptions!SubsAssumption, Subscriptions!SubsInv
    PROVE  v8 \in 0..MaxSubCalls /\ (Subscriptions!Call => v8' \in 0..MaxSubCalls)
  BY DEF Subscriptions!SubsAssumption, Subscriptions!SubsInv, Subscriptions!SubsTypeOK, Subscriptions!Call

\* A refresh that does not merge goes on to write the row with the hash it read.
LEMMA WorkerToSave ==
    ASSUME Subscriptions!SubsInv, NEW r \in Pair, v5[r].pc \in {"fetch", "merge"}, NEW y \in Subscriptions!Rows,
           y.is = v5[r].row.is, Subscriptions!NamesBody(y.tag, y.hash), y.hash = v5[r].row.hash,
           y.tag # 0 => v5[r].row.tag # 0, Subscriptions!GoesToSave(r, y),
           UNCHANGED <<v1, v2, v3, v4, v6, v7>>, v8' \in 0..MaxSubCalls
    PROVE  Subscriptions!SubsInv'
  <1> DEFINE x == [v5[r] EXCEPT !.pc = "save", !.row = y]
  <1>1. v5[r] \in Subscriptions!Working /\ Sound(v5[r])
    BY WorkIsSound
  <1>2. x \in Subscriptions!Working /\ x.pc = "save" /\ x.row = y /\ x.got = v5[r].got
    BY <1>1, WorkSaves
  <1>3. v5' = [v5 EXCEPT ![r] = x]
    BY DEF Subscriptions!GoesToSave
  <1> HIDE DEF x
  <1>4. Sound(x)
    BY <1>1, <1>2 DEF Sound
  <1>5. v4' \in BOOLEAN /\ v7' \in BOOLEAN
    BY DEF Subscriptions!SubsInv, Subscriptions!SubsTypeOK
  <1>6. Subscriptions!RefreshInv => Subscriptions!Same(v5[r].row, v2)
    BY DEF Subscriptions!RefreshInv
  <1>7. Subscriptions!RefreshInv /\ x.row.tag # 0 => v2.tag # 0 /\ x.row.hash = v2.hash
    BY <1>2, <1>6 DEF Subscriptions!Same
  <1>8. v5[r].pc # "rest" /\ v5[r].pc # "save"
    OBVIOUS
  <1> QED BY <1>2, <1>3, <1>4, <1>5, <1>7, <1>8, WorkerGoesOn

LEMMA FetchKeeps ==
    ASSUME Subscriptions!SubsAssumption, Subscriptions!SubsInv, NEW r \in Pair,
           Subscriptions!Fetch(r) \/ Subscriptions!FetchFails(r) \/ Subscriptions!MergeFails(r)
    PROVE  Subscriptions!SubsInv'
  <1> DEFINE old == v5[r].row
  <1>1. Sound(v5[r]) /\ v5[r] \in Subscriptions!Working /\ v1 \in Subscriptions!Feeds
    BY WorkIsSound
  <1>2. old \in Subscriptions!Rows /\ old.tag \in Nat /\ v1.tag \in Nat
    BY <1>1, WorkFields, FeedFields, RowFields
  <1>3. v8 \in 0..MaxSubCalls /\ (Subscriptions!Call => v8' \in 0..MaxSubCalls)
    BY CallTyped
  <1>4. CASE Subscriptions!FetchFails(r) \/ Subscriptions!MergeFails(r)
    <2> DEFINE y == Subscriptions!Failed(old)
    <2>1. /\ v5[r].pc \in {"fetch", "merge"} /\ old.failures < MaxFailures /\ Subscriptions!GoesToSave(r, y)
          /\ UNCHANGED <<v1, v2, v3, v4, v6, v7>> /\ (v8' = v8 \/ Subscriptions!Call)
      BY <1>4 DEF Subscriptions!FetchFails, Subscriptions!MergeFails, Subscriptions!AfterFailure
    <2>2. y \in Subscriptions!Rows /\ y.is = old.is /\ y.tag = old.tag /\ y.hash = old.hash
      BY <1>2, <2>1, RowFails
    <2> HIDE DEF y
    <2>3. Subscriptions!NamesBody(y.tag, y.hash)
      BY <1>1, <2>2 DEF Sound
    <2> QED BY <1>3, <2>1, <2>2, <2>3, WorkerToSave
  <1>5. CASE Subscriptions!Fetch(r)
    <2>0. v5[r].pc = "fetch" /\ UNCHANGED <<v1, v2, v3, v4, v6, v7, v8>>
      BY <1>5 DEF Subscriptions!Fetch
    <2> DEFINE s == Subscriptions!Succeeded(old)
    <2>1. s \in Subscriptions!Rows /\ s.is = old.is /\ s.tag = old.tag /\ s.hash = old.hash
      BY <1>2, RowSucceeds
    <2>2. CASE v1.tag = old.tag /\ Subscriptions!GoesToSave(r, s)
      <3> HIDE DEF s
      <3>1. Subscriptions!NamesBody(s.tag, s.hash)
        BY <1>1, <2>1 DEF Sound
      <3> QED BY <1>3, <2>0, <2>1, <2>2, <3>1, WorkerToSave
    <2>3. CASE /\ v1.tag # old.tag /\ old.tag # 0 /\ v1.body = old.hash
               /\ Subscriptions!GoesToSave(r, [s EXCEPT !.tag = v1.tag])
      <3> DEFINE y == [s EXCEPT !.tag = v1.tag]
      <3> HIDE DEF s
      <3>1. y \in Subscriptions!Rows /\ y.is = old.is /\ y.tag = v1.tag /\ y.hash = old.hash
        BY <1>2, <2>1, RowTagged
      <3>2. Subscriptions!GoesToSave(r, y)
        BY <2>3
      <3> HIDE DEF y
      <3>3. Subscriptions!NamesBody(y.tag, y.hash)
        BY <1>2, <2>3, <3>1 DEF Subscriptions!NamesBody
      <3> QED BY <1>3, <2>0, <2>3, <3>1, <3>2, <3>3, WorkerToSave
    <2>4. CASE v5' = [v5 EXCEPT ![r] = [v5[r] EXCEPT !.pc = "merge", !.got = v1]]
      <3> DEFINE x == [v5[r] EXCEPT !.pc = "merge", !.got = v1]
      <3>1. x \in Subscriptions!Working /\ x.pc = "merge" /\ x.row = old /\ x.got = v1
        BY <1>1, WorkMerges
      <3>2. v5' = [v5 EXCEPT ![r] = x]
        BY <2>4
      <3> HIDE DEF x
      <3>3. Sound(x)
        BY <1>1, <1>2, <2>0, <3>1 DEF Sound, Subscriptions!NamesBody
      <3>4. v4' \in BOOLEAN /\ v7' \in BOOLEAN
        BY <2>0 DEF Subscriptions!SubsInv, Subscriptions!SubsTypeOK
      <3>5. Subscriptions!RefreshInv => Subscriptions!Same(x.row, v2)
        BY <2>0, <3>1 DEF Subscriptions!RefreshInv
      <3> QED BY <1>3, <2>0, <3>1, <3>2, <3>3, <3>4, <3>5, WorkerGoesOn
    <2> QED BY <1>5, <2>2, <2>3, <2>4 DEF Subscriptions!Fetch
  <1> QED BY <1>4, <1>5

\* A refresh begins, or its worker dies.
LEMMA HandleKeeps ==
    ASSUME Subscriptions!SubsAssumption, Subscriptions!SubsInv, NEW r \in Pair,
           Subscriptions!HandleRefresh(r) \/ Subscriptions!Dies(r)
    PROVE  Subscriptions!SubsInv'
  <1>0. Subscriptions!SubsTypeOK /\ Subscriptions!TagInv /\ Subscriptions!HolderInv
        /\ (~v7 /\ v2.is = "live" => Subscriptions!RefreshInv)
    BY DEF Subscriptions!SubsInv
  <1>1. Sound(v5[r]) /\ v5[r] \in Subscriptions!Working /\ v1 \in Subscriptions!Feeds /\ v2 \in Subscriptions!Rows
    BY WorkIsSound
  <1>2. v1.tag \in Nat /\ v1.tag > 0 /\ v7 \in BOOLEAN
    BY <1>0, <1>1, FeedFields DEF Subscriptions!SubsTypeOK
  <1>3. v8 \in 0..MaxSubCalls /\ (Subscriptions!Call => v8' \in 0..MaxSubCalls)
    BY CallTyped
  <1>4. CASE Subscriptions!Dies(r)
    <2>1. /\ v5[r].pc # "rest" /\ v5' = [v5 EXCEPT ![r] = Subscriptions!Idle] /\ v4' = TRUE
          /\ v7' = (v7 \/ v5[r].pc = "save") /\ UNCHANGED <<v1, v2, v3, v6>> /\ Subscriptions!Call
      BY <1>4 DEF Subscriptions!Dies
    <2>2. /\ Subscriptions!Idle \in Subscriptions!Working /\ Subscriptions!Idle.pc = "rest"
          /\ Subscriptions!Idle.row.tag = 0 /\ Subscriptions!Idle.got.tag = 0
      BY IdleWork
    <2>3. Sound(Subscriptions!Idle)
      BY <1>2, <2>2 DEF Sound, Subscriptions!NamesBody
    <2>4. v7' \in BOOLEAN /\ (~v7' => ~v7 /\ v5[r].pc # "save")
      BY <1>2, <2>1
    <2> QED BY <1>3, <2>1, <2>2, <2>3, <2>4, WorkerGoesOn
  <1>5. CASE Subscriptions!HandleRefresh(r)
    <2>1. /\ v5[r].pc = "rest" /\ v4' = FALSE /\ v7' = (v7 \/ \E q \in Pair : v5[q].pc # "rest")
          /\ UNCHANGED <<v1, v2, v3, v6, v8>>
          /\ v5' = IF v2.is # "live" THEN v5 ELSE [v5 EXCEPT ![r] = Subscriptions!Reads("fetch", v2)]
      BY <1>5 DEF Subscriptions!HandleRefresh
    <2>2. v7' \in BOOLEAN /\ (~v7' => ~v7 /\ \A q \in Pair : v5[q].pc = "rest")
      BY <1>2, <2>1
    <2>3. CASE v2.is # "live"
      <3>1. v5' = v5
        BY <2>1, <2>3
      <3>2. Subscriptions!SubsTypeOK'
        BY <1>0, <2>1, <2>2, <3>1 DEF Subscriptions!SubsTypeOK
      <3>3. Subscriptions!TagInv' /\ Subscriptions!HolderInv'
        BY <1>0, <2>1, <3>1 DEF Subscriptions!TagInv, Subscriptions!NamesBody, Subscriptions!HolderInv,
                                Subscriptions!Busy
      <3> QED BY <2>1, <2>3, <3>2, <3>3 DEF Subscriptions!SubsInv
    <2>4. CASE v2.is = "live"
      <3> DEFINE x == Subscriptions!Reads("fetch", v2)
      <3>1. x \in Subscriptions!Working /\ x.pc = "fetch" /\ x.row = v2 /\ x.got.tag = 0
        BY <1>1, ReadRow
      <3>2. v5' = [v5 EXCEPT ![r] = x]
        BY <2>1, <2>4
      <3> HIDE DEF x
      <3>3. Subscriptions!NamesBody(v2.tag, v2.hash)
        BY <1>0 DEF Subscriptions!TagInv
      <3>4. Sound(x)
        BY <1>2, <2>4, <3>1, <3>3 DEF Sound, Subscriptions!NamesBody
      <3>5. Subscriptions!Same(x.row, v2)
        BY <3>1 DEF Subscriptions!Same
      <3>6. v4' \in BOOLEAN /\ v8' \in 0..MaxSubCalls
        BY <1>3, <2>1
      <3> QED BY <2>1, <2>2, <3>1, <3>2, <3>4, <3>5, <3>6, WorkerGoesOn
    <2> QED BY <2>3, <2>4
  <1> QED BY <1>4, <1>5

\* What is merged stands in the calendar.
LEMMA MergeKeeps ==
    ASSUME Subscriptions!SubsAssumption, Subscriptions!SubsInv, NEW r \in Pair, Subscriptions!Merge(r)
    PROVE  Subscriptions!SubsInv'
  <1> DEFINE new == v5[r]
             body == new.got.body
             y == Subscriptions!Validators(new.row, new.got)
             x == [new EXCEPT !.pc = "save", !.row = y]
  <1>0. Subscriptions!SubsTypeOK /\ (~v7 /\ v2.is = "live" => Subscriptions!RefreshInv)
    BY DEF Subscriptions!SubsInv
  <1>1. Sound(new) /\ new \in Subscriptions!Working
    BY WorkIsSound
  <1>2. new.row \in Subscriptions!Rows /\ new.got \in Subscriptions!Feeds /\ body \in Subscriptions!Bodies
    BY <1>1, WorkFields, FeedFields
  <1>3. /\ new.pc = "merge" /\ v2.is = "live" /\ v3' = Subscriptions!Merged(v3, body)
        /\ UNCHANGED <<v1, v2, v4, v6, v7, v8>> /\ Subscriptions!GoesToSave(r, y)
    BY DEF Subscriptions!Merge
  <1>4. y \in Subscriptions!Rows /\ y.is = new.row.is /\ y.tag = new.got.tag /\ y.hash = body
    BY <1>2, RowMerged
  <1>5. v5' = [v5 EXCEPT ![r] = x]
    BY <1>3 DEF Subscriptions!GoesToSave
  <1> HIDE DEF y
  <1>6. x \in Subscriptions!Working /\ x.pc = "save" /\ x.row = y /\ x.got = new.got
    BY <1>1, <1>4, WorkSaves
  <1> HIDE DEF x
  <1>7. Sound(x)
    BY <1>1, <1>3, <1>4, <1>6 DEF Sound
  <1>8. body \in [Subscriptions!Items -> {0} \cup Contents] /\ v3 \in [Subscriptions!Items -> {0} \cup Contents]
    BY <1>0, <1>2 DEF Subscriptions!Bodies, Subscriptions!SubsTypeOK
  <1>9. v3' \in [Subscriptions!Items -> {0} \cup Contents]
    BY <1>3, <1>8 DEF Subscriptions!Merged
  <1>10. \A i \in Subscriptions!Items : IF body[i] # 0 THEN v3'[i] = body[i] ELSE i \in Masters => v3'[i] = 0
    <2>1. \A i \in Masters : i \notin Overrides
      BY DEF Subscriptions!SubsAssumption
    <2> QED BY <1>3, <2>1 DEF Subscriptions!Merged
  <1>11. v4' \in BOOLEAN /\ v7' \in BOOLEAN /\ v8' \in 0..MaxSubCalls
    BY <1>0, <1>3 DEF Subscriptions!SubsTypeOK
  <1>12. Subscriptions!SubsTypeOK' /\ Subscriptions!TagInv' /\ Subscriptions!HolderInv'
    BY <1>3, <1>5, <1>6, <1>7, <1>9, <1>11, WorkerTyped
  <1>13. \A q \in Pair : v5'[q] = IF q = r THEN x ELSE v5[q]
    BY <1>0, <1>5 DEF Subscriptions!SubsTypeOK
  <1>14. ASSUME ~v7' PROVE Subscriptions!RefreshInv'
    <2>1. /\ \A p, q \in Pair : v5[p].pc # "rest" /\ v5[q].pc # "rest" => p = q
          /\ v6.pc = "save" /\ ~v6.stale => Subscriptions!Same(v6.row, v2)
      BY <1>0, <1>3, <1>14 DEF Subscriptions!RefreshInv, Subscriptions!Busy
    <2>2. \A q \in Pair : q # r => v5'[q] = v5[q] /\ v5[q].pc = "rest"
      BY <1>3, <1>13, <2>1
    <2>3. v5'[r] = x /\ x.row.hash = body
      BY <1>4, <1>6, <1>13
    <2>4. \A p, q \in Pair : v5'[p].pc # "rest" /\ v5'[q].pc # "rest" => p = q
      BY <2>2
    <2>5. \A q \in Pair : v5'[q].pc \notin {"fetch", "merge"}
      BY <1>6, <2>2, <2>3
    <2>6. \A q \in Pair : v5'[q].pc = "save" => v5'[q].row.hash = body
      BY <2>2, <2>3
    <2>7. v5'[r].pc = "save"
      BY <1>6, <2>3
    <2> HIDE DEF body
    <2> QED BY <1>3, <1>10, <2>1, <2>4, <2>5, <2>6, <2>7
            DEF Subscriptions!RefreshInv, Subscriptions!Busy, Subscriptions!Same, Subscriptions!Holds
  <1> QED BY <1>3, <1>12, <1>14 DEF Subscriptions!SubsInv

\* Everybody who has read the row is told it is old.
LEMMA Outdated ==
    ASSUME v5 \in [Pair -> Subscriptions!Working]
    PROVE  /\ Subscriptions!Outdate(v5) \in [Pair -> Subscriptions!Working]
           /\ \A q \in Pair : LET w == Subscriptions!Outdate(v5)[q]
                              IN  w.pc = v5[q].pc /\ w.row = v5[q].row /\ w.got = v5[q].got
  <1>1. ASSUME NEW w \in Subscriptions!Working, NEW b \in BOOLEAN
        PROVE  LET x == [w EXCEPT !.stale = b]
               IN  x \in Subscriptions!Working /\ x.pc = w.pc /\ x.row = w.row /\ x.got = w.got
    BY DEF Subscriptions!Working
  <1>2. \A q \in Pair : Subscriptions!Outdate(v5)[q] = [v5[q] EXCEPT !.stale = v5[q].pc # "rest"]
    BY DEF Subscriptions!Outdate
  <1>3. \A q \in Pair : v5[q] \in Subscriptions!Working /\ (v5[q].pc # "rest") \in BOOLEAN
    OBVIOUS
  <1>4. \A q \in Pair : LET w == Subscriptions!Outdate(v5)[q]
                        IN  w \in Subscriptions!Working /\ w.pc = v5[q].pc /\ w.row = v5[q].row /\ w.got = v5[q].got
    <2>1. ASSUME NEW q \in Pair
          PROVE  LET w == Subscriptions!Outdate(v5)[q]
                 IN  w \in Subscriptions!Working /\ w.pc = v5[q].pc /\ w.row = v5[q].row /\ w.got = v5[q].got
      <3> DEFINE b == v5[q].pc # "rest"
                 o == v5[q]
      <3>1. b \in BOOLEAN /\ o \in Subscriptions!Working /\ Subscriptions!Outdate(v5)[q] = [o EXCEPT !.stale = b]
        BY <1>2, <1>3
      <3> HIDE DEF b
      <3>2. LET x == [o EXCEPT !.stale = b]
            IN  x \in Subscriptions!Working /\ x.pc = o.pc /\ x.row = o.row /\ x.got = o.got
        <4> HIDE DEF o
        <4> QED BY <1>1, <3>1
      <3> QED BY <3>1, <3>2
    <2> QED BY <2>1
  <1>5. Subscriptions!Outdate(v5) = [q \in Pair |-> [v5[q] EXCEPT !.stale = v5[q].pc # "rest"]]
    BY DEF Subscriptions!Outdate
  <1>6. Subscriptions!Outdate(v5) \in [Pair -> Subscriptions!Working]
    <2>1. \A q \in Pair : [v5[q] EXCEPT !.stale = v5[q].pc # "rest"] \in Subscriptions!Working
      BY <1>2, <1>4
    <2> QED BY <1>5, <2>1
  <1> QED BY <1>4, <1>6

\* The worker writes the row.
LEMMA HandleSaved ==
    ASSUME Subscriptions!SubsAssumption, Subscriptions!SubsInv, NEW r \in Pair, Subscriptions!HandleSaves(r)
    PROVE  Subscriptions!SubsInv'
  <1>0. Subscriptions!SubsTypeOK /\ Subscriptions!TagInv /\ Subscriptions!HolderInv
        /\ (~v7 /\ v2.is = "live" => Subscriptions!RefreshInv)
    BY DEF Subscriptions!SubsInv
  <1>1. Sound(v5[r]) /\ v5[r] \in Subscriptions!Working /\ v1.tag \in Nat /\ v1.tag > 0 /\ v2 \in Subscriptions!Rows
        /\ v7 \in BOOLEAN /\ v6 \in Subscriptions!Working /\ v5[r].row \in Subscriptions!Rows
        /\ v5 \in [Pair -> Subscriptions!Working]
    BY <1>0, WorkIsSound, WorkFields, FeedFields DEF Subscriptions!SubsTypeOK
  <1>2. /\ v5[r].pc = "save" /\ v2' = (IF v2.is = "live" THEN v5[r].row ELSE v2)
        /\ v7' = (v7 \/ (v5[r].stale /\ v2.is = "live"))
        /\ v5' = [Subscriptions!Outdate(v5) EXCEPT ![r] = Subscriptions!Idle]
        /\ v6' = [v6 EXCEPT !.stale = v6.pc # "rest"] /\ UNCHANGED <<v1, v3, v4, v8>>
    BY DEF Subscriptions!HandleSaves, Subscriptions!SaveSubscriptionState
  <1>3. /\ Subscriptions!Idle \in Subscriptions!Working /\ Subscriptions!Idle.pc = "rest"
        /\ Subscriptions!Idle.row.tag = 0 /\ Subscriptions!Idle.got.tag = 0
    BY IdleWork
  <1>4. v6' \in Subscriptions!Working /\ v6'.pc = v6.pc /\ v6'.row = v6.row /\ v6'.stale = (v6.pc # "rest")
    <2>1. (v6.pc # "rest") \in BOOLEAN
      OBVIOUS
    <2> QED BY <1>1, <1>2, <2>1 DEF Subscriptions!Working
  <1>5. /\ v5' \in [Pair -> Subscriptions!Working] /\ v5'[r] = Subscriptions!Idle
        /\ \A q \in Pair \ {r} : v5'[q].pc = v5[q].pc /\ v5'[q].row = v5[q].row /\ v5'[q].got = v5[q].got
    BY <1>1, <1>2, <1>3, Outdated
  <1>6. v7' \in BOOLEAN /\ (~v7' /\ v2.is = "live" => ~v7)
    BY <1>1, <1>2
  <1>7. v2' \in Subscriptions!Rows /\ v2'.is = v2.is
    BY <1>1, <1>2 DEF Sound
  <1>8. Subscriptions!SubsTypeOK'
    BY <1>0, <1>2, <1>4, <1>5, <1>6, <1>7 DEF Subscriptions!SubsTypeOK
  <1>9. Subscriptions!NamesBody(v2.tag, v2.hash)' /\ Subscriptions!NamesBody(v2'.tag, v2'.hash)
    BY <1>0, <1>1, <1>2 DEF Sound, Subscriptions!TagInv, Subscriptions!NamesBody
  <1>10. Subscriptions!TagInv'
    <2>1. Subscriptions!NamesBody(v6'.row.tag, v6'.row.hash)
      BY <1>0, <1>4 DEF Subscriptions!TagInv
    <2>2. ASSUME NEW q \in Pair
          PROVE  /\ Subscriptions!NamesBody(v5'[q].row.tag, v5'[q].row.hash)
                 /\ Subscriptions!NamesBody(v5'[q].got.tag, v5'[q].got.body)
      <3>1. CASE q = r
        BY <1>1, <1>3, <1>5, <3>1 DEF Subscriptions!NamesBody
      <3>2. CASE q # r
        BY <1>0, <1>5, <3>2 DEF Subscriptions!TagInv
      <3> QED BY <3>1, <3>2
    <2> QED BY <1>2, <1>9, <2>1, <2>2 DEF Subscriptions!TagInv, Subscriptions!NamesBody
  <1>11. Subscriptions!HolderInv'
    BY <1>0, <1>3, <1>4, <1>5, <1>7 DEF Subscriptions!HolderInv, Subscriptions!Busy
  <1>12. ASSUME ~v7', v2'.is = "live" PROVE Subscriptions!RefreshInv'
    <2>1. /\ \A p, q \in Pair : v5[p].pc # "rest" /\ v5[q].pc # "rest" => p = q
          /\ v5[r].row.tag # 0 => Subscriptions!Holds(v5[r].row.hash)
          /\ v2' = v5[r].row
      BY <1>0, <1>2, <1>6, <1>7, <1>12 DEF Subscriptions!RefreshInv, Subscriptions!Busy
    <2>2. \A q \in Pair : v5'[q].pc = "rest"
      BY <1>2, <1>3, <1>5, <2>1
    <2>3. ~(v6'.pc = "save" /\ ~v6'.stale)
      BY <1>4
    <2>4. v2'.tag # 0 => Subscriptions!Holds(v2'.hash)
      BY <2>1
    <2> QED BY <1>2, <2>2, <2>3, <2>4 DEF Subscriptions!RefreshInv, Subscriptions!Busy, Subscriptions!Holds
  <1> QED BY <1>8, <1>10, <1>11, <1>12 DEF Subscriptions!SubsInv

\* The user's request writes the row it has read.
LEMMA UserSaved ==
    ASSUME Subscriptions!SubsAssumption, Subscriptions!SubsInv, Subscriptions!RefreshSaves
    PROVE  Subscriptions!SubsInv'
  <1>0. Subscriptions!SubsTypeOK /\ Subscriptions!TagInv /\ Subscriptions!HolderInv
        /\ (~v7 /\ v2.is = "live" => Subscriptions!RefreshInv)
    BY DEF Subscriptions!SubsInv
  <1>1. v1.tag \in Nat /\ v1.tag > 0 /\ v2 \in Subscriptions!Rows /\ v7 \in BOOLEAN /\ v4 \in BOOLEAN
        /\ v6.row \in Subscriptions!Rows /\ v5 \in [Pair -> Subscriptions!Working]
    BY <1>0, WorkFields, FeedFields DEF Subscriptions!SubsTypeOK
  <1>2. /\ v6.pc = "save" /\ v2' = (IF v2.is = "live" THEN v6.row ELSE v2)
        /\ v7' = (v7 \/ (v6.stale /\ v2.is = "live")) /\ v4' = (v4 \/ v2.is = "live")
        /\ v6' = Subscriptions!Idle /\ v5' = Subscriptions!Outdate(v5) /\ UNCHANGED <<v1, v3, v8>>
    BY DEF Subscriptions!RefreshSaves, Subscriptions!SaveSubscriptionState
  <1>3. /\ Subscriptions!Idle \in Subscriptions!Working /\ Subscriptions!Idle.pc = "rest"
        /\ Subscriptions!Idle.row.tag = 0
    BY IdleWork
  <1>4. /\ v5' \in [Pair -> Subscriptions!Working]
        /\ \A q \in Pair : v5'[q].pc = v5[q].pc /\ v5'[q].row = v5[q].row /\ v5'[q].got = v5[q].got
    BY <1>1, <1>2, Outdated
  <1>5. v7' \in BOOLEAN /\ v4' \in BOOLEAN /\ (~v7' /\ v2.is = "live" => ~v7 /\ ~v6.stale)
    BY <1>1, <1>2
  <1>6. v2' \in Subscriptions!Rows /\ v2'.is = v2.is
    BY <1>0, <1>1, <1>2 DEF Subscriptions!HolderInv
  <1>7. Subscriptions!SubsTypeOK'
    BY <1>0, <1>2, <1>3, <1>4, <1>5, <1>6 DEF Subscriptions!SubsTypeOK
  <1>8. Subscriptions!TagInv'
    <2>1. Subscriptions!NamesBody(v2'.tag, v2'.hash)
      BY <1>0, <1>2 DEF Subscriptions!TagInv
    <2>2. Subscriptions!NamesBody(v6'.row.tag, v6'.row.hash)
      BY <1>1, <1>2, <1>3 DEF Subscriptions!NamesBody
    <2>3. \A q \in Pair : /\ Subscriptions!NamesBody(v5'[q].row.tag, v5'[q].row.hash)
                          /\ Subscriptions!NamesBody(v5'[q].got.tag, v5'[q].got.body)
      BY <1>0, <1>4 DEF Subscriptions!TagInv
    <2> QED BY <1>2, <2>1, <2>2, <2>3 DEF Subscriptions!TagInv, Subscriptions!NamesBody
  <1>9. Subscriptions!HolderInv'
    BY <1>0, <1>2, <1>3, <1>4, <1>6 DEF Subscriptions!HolderInv, Subscriptions!Busy
  <1>10. ASSUME ~v7', v2'.is = "live" PROVE Subscriptions!RefreshInv'
    <2>1. Subscriptions!RefreshInv /\ Subscriptions!Same(v6.row, v2) /\ v2' = v6.row
      BY <1>0, <1>2, <1>5, <1>6, <1>10 DEF Subscriptions!RefreshInv
    <2>2. v2'.tag = v2.tag /\ v2'.hash = v2.hash
      BY <2>1 DEF Subscriptions!Same
    <2> QED BY <1>2, <1>3, <1>4, <2>1, <2>2 DEF Subscriptions!RefreshInv, Subscriptions!Busy, Subscriptions!Same,
                                                Subscriptions!Holds
  <1> QED BY <1>7, <1>8, <1>9, <1>10 DEF Subscriptions!SubsInv

\* A step that leaves the refreshes and the calendar, and of the row what was merged.
LEMMA UserAside ==
    ASSUME Subscriptions!SubsInv, Subscriptions!SubsTypeOK', UNCHANGED <<v3, v5, v7>>,
           v2'.is = v2.is, v2'.tag = v2.tag, v2'.hash = v2.hash,
           \/ v1' = v1
           \/ v1'.tag > v1.tag /\ v1.tag \in Nat /\ v1'.tag \in Nat,
           \/ v6' = v6
           \/ /\ v2.is = "live" /\ v6.pc = "rest" /\ v6'.row.is = "live" /\ v6'.row.tag = v2.tag /\ v6'.row.hash = v2.hash
    PROVE  Subscriptions!SubsInv'
  <1>0. Subscriptions!SubsTypeOK /\ Subscriptions!TagInv /\ Subscriptions!HolderInv
        /\ (~v7 /\ v2.is = "live" => Subscriptions!RefreshInv)
    BY DEF Subscriptions!SubsInv
  <1>1. ASSUME NEW t \in Nat, NEW b, Subscriptions!NamesBody(t, b)
        PROVE  t <= v1'.tag /\ (t = v1'.tag => b = v1'.body)
    BY <1>1 DEF Subscriptions!NamesBody
  <1>2. /\ v2.tag \in Nat /\ v6.row.tag \in Nat
        /\ \A q \in Pair : v5[q].row.tag \in Nat /\ v5[q].got.tag \in Nat
    BY <1>0, RowFields, WorkFields, FeedFields DEF Subscriptions!SubsTypeOK
  <1>3. Subscriptions!TagInv'
    <2>1. v2.tag <= v1'.tag /\ (v2.tag = v1'.tag => v2.hash = v1'.body)
      BY <1>0, <1>1, <1>2 DEF Subscriptions!TagInv
    <2>2. v6'.row.tag <= v1'.tag /\ (v6'.row.tag = v1'.tag => v6'.row.hash = v1'.body)
      BY <1>0, <1>1, <1>2, <2>1 DEF Subscriptions!TagInv
    <2>3. \A q \in Pair : /\ v5[q].row.tag <= v1'.tag /\ (v5[q].row.tag = v1'.tag => v5[q].row.hash = v1'.body)
                          /\ v5[q].got.tag <= v1'.tag /\ (v5[q].got.tag = v1'.tag => v5[q].got.body = v1'.body)
      BY <1>0, <1>1, <1>2 DEF Subscriptions!TagInv
    <2> QED BY <2>1, <2>2, <2>3 DEF Subscriptions!TagInv, Subscriptions!NamesBody
  <1>4. Subscriptions!HolderInv'
    BY <1>0 DEF Subscriptions!HolderInv, Subscriptions!Busy
  <1>5. ASSUME ~v7', v2'.is = "live" PROVE Subscriptions!RefreshInv'
    BY <1>0, <1>5 DEF Subscriptions!RefreshInv, Subscriptions!Busy, Subscriptions!Same, Subscriptions!Holds
  <1> QED BY <1>3, <1>4, <1>5 DEF Subscriptions!SubsInv

\* Users, the clock and the feed's server.
LEMMA UserKeeps ==
    ASSUME Subscriptions!SubsAssumption, Subscriptions!SubsInv,
           \/ Subscriptions!Create \/ Subscriptions!Refresh \/ Subscriptions!Delete \/ Subscriptions!HandleDue
           \/ Subscriptions!Wait \/ \E b \in Subscriptions!Bodies : Subscriptions!Publish(b)
    PROVE  Subscriptions!SubsInv'
  <1>0. Subscriptions!SubsTypeOK /\ Subscriptions!TagInv /\ Subscriptions!HolderInv
        /\ (~v7 /\ v2.is = "live" => Subscriptions!RefreshInv)
    BY DEF Subscriptions!SubsInv
  <1>1. v1 \in Subscriptions!Feeds /\ v1.tag \in Nat /\ v1.tag > 0 /\ v2 \in Subscriptions!Rows
    BY <1>0, FeedFields DEF Subscriptions!SubsTypeOK
  <1>2. v8 \in 0..MaxSubCalls /\ (Subscriptions!Call => v8' \in 0..MaxSubCalls)
    BY CallTyped
  <1>3. /\ Subscriptions!NoRow \in Subscriptions!Rows /\ Subscriptions!NoBody \in Subscriptions!Bodies
        /\ Subscriptions!NoRow.tag = 0
    BY EmptyFeed DEF Subscriptions!NoRow
  <1>4. ASSUME NEW is \in {"live", "gone"}
        PROVE  LET x == [Subscriptions!NoRow EXCEPT !.is = is]
               IN  x \in Subscriptions!Rows /\ x.is = is /\ x.tag = 0
    BY <1>3 DEF Subscriptions!Rows
  <1>5. CASE Subscriptions!Create
    <2>1. /\ v2.is = "none" /\ Subscriptions!Call /\ v2' = [Subscriptions!NoRow EXCEPT !.is = "live"] /\ v4' = TRUE
          /\ UNCHANGED <<v1, v3, v5, v6, v7>>
      BY <1>5 DEF Subscriptions!Create
    <2>2. v2' \in Subscriptions!Rows /\ v2'.is = "live" /\ v2'.tag = 0
      BY <1>4, <2>1
    <2>3. Subscriptions!SubsTypeOK'
      BY <1>0, <1>2, <2>1, <2>2 DEF Subscriptions!SubsTypeOK
    <2>4. Subscriptions!TagInv' /\ Subscriptions!HolderInv'
      BY <1>0, <1>1, <2>1, <2>2 DEF Subscriptions!TagInv, Subscriptions!NamesBody, Subscriptions!HolderInv,
                                    Subscriptions!Busy
    <2>5. v6.pc = "rest" /\ \A q \in Pair : v5[q].pc = "rest"
      BY <1>0, <2>1 DEF Subscriptions!HolderInv, Subscriptions!Busy
    <2>6. Subscriptions!RefreshInv'
      BY <2>1, <2>2, <2>5 DEF Subscriptions!RefreshInv, Subscriptions!Busy
    <2> QED BY <2>3, <2>4, <2>6 DEF Subscriptions!SubsInv
  <1>6. CASE Subscriptions!Delete
    <2>1. /\ v2.is = "live" /\ Subscriptions!Call /\ v2' = [Subscriptions!NoRow EXCEPT !.is = "gone"]
          /\ v3' = Subscriptions!NoBody /\ UNCHANGED <<v1, v4, v5, v6, v7>>
      BY <1>6 DEF Subscriptions!Delete
    <2>2. v2' \in Subscriptions!Rows /\ v2'.is = "gone" /\ v2'.tag = 0
      BY <1>4, <2>1
    <2>3. Subscriptions!SubsTypeOK'
      BY <1>0, <1>2, <1>3, <2>1, <2>2 DEF Subscriptions!SubsTypeOK, Subscriptions!Bodies
    <2>4. Subscriptions!TagInv' /\ Subscriptions!HolderInv'
      BY <1>0, <1>1, <2>1, <2>2 DEF Subscriptions!TagInv, Subscriptions!NamesBody, Subscriptions!HolderInv,
                                    Subscriptions!Busy
    <2> QED BY <2>2, <2>3, <2>4 DEF Subscriptions!SubsInv
  <1>7. CASE Subscriptions!Refresh
    <2> DEFINE a == [v2 EXCEPT !.status = "ok"]
               b == [a EXCEPT !.failures = 0]
               c == [b EXCEPT !.wait = 0]
    <2>1. /\ v2.is = "live" /\ v6.pc = "rest" /\ Subscriptions!Call /\ v6' = Subscriptions!Reads("save", c)
          /\ UNCHANGED <<v1, v2, v3, v4, v5, v7>>
      BY <1>7 DEF Subscriptions!Refresh
    <2>2. a \in Subscriptions!Rows /\ a.is = v2.is /\ a.tag = v2.tag /\ a.hash = v2.hash
      BY <1>1 DEF Subscriptions!Rows
    <2> HIDE DEF a
    <2>3. b \in Subscriptions!Rows /\ b.is = v2.is /\ b.tag = v2.tag /\ b.hash = v2.hash
      BY <2>2 DEF Subscriptions!Rows, Subscriptions!SubsAssumption
    <2> HIDE DEF b
    <2>4. c \in Subscriptions!Rows /\ c.is = v2.is /\ c.tag = v2.tag /\ c.hash = v2.hash
      BY <2>3 DEF Subscriptions!Rows, Subscriptions!SubsAssumption
    <2> HIDE DEF c
    <2>5. v6' \in Subscriptions!Working /\ v6'.row = c
      BY <2>1, <2>4, ReadRow
    <2>6. Subscriptions!SubsTypeOK'
      BY <1>0, <1>2, <2>1, <2>5 DEF Subscriptions!SubsTypeOK
    <2> QED BY <2>1, <2>4, <2>5, <2>6, UserAside
  <1>8. CASE Subscriptions!HandleDue
    <2>1. v2.is = "live" /\ v4' = TRUE /\ UNCHANGED <<v1, v2, v3, v5, v6, v7, v8>>
      BY <1>8 DEF Subscriptions!HandleDue
    <2>2. Subscriptions!SubsTypeOK'
      BY <1>0, <2>1 DEF Subscriptions!SubsTypeOK
    <2> QED BY <2>1, <2>2, UserAside
  <1>9. CASE Subscriptions!Wait
    <2>1. v2.wait > 0 /\ v2' = [v2 EXCEPT !.wait = v2.wait - 1] /\ UNCHANGED <<v1, v3, v4, v5, v6, v7, v8>>
      BY <1>9 DEF Subscriptions!Wait
    <2>2. v2.wait - 1 \in 0..Day
      BY <1>1, <2>1, RowFields DEF Subscriptions!SubsAssumption
    <2>3. v2' \in Subscriptions!Rows /\ v2'.is = v2.is /\ v2'.tag = v2.tag /\ v2'.hash = v2.hash
      BY <1>1, <2>1, <2>2 DEF Subscriptions!Rows
    <2>4. Subscriptions!SubsTypeOK'
      BY <1>0, <2>1, <2>3 DEF Subscriptions!SubsTypeOK
    <2> QED BY <2>1, <2>3, <2>4, UserAside
  <1>10. CASE \E b \in Subscriptions!Bodies : Subscriptions!Publish(b)
    <2>1. PICK b \in Subscriptions!Bodies : Subscriptions!Publish(b)
      BY <1>10
    <2>2. Subscriptions!Call /\ v1' = [tag |-> v1.tag + 1, body |-> b] /\ UNCHANGED <<v2, v3, v4, v5, v6, v7>>
      BY <2>1 DEF Subscriptions!Publish
    <2>3. v1' \in Subscriptions!Feeds /\ v1'.tag > v1.tag /\ v1'.tag \in Nat /\ v1'.tag > 0
      BY <1>1, <2>2 DEF Subscriptions!Feeds
    <2>4. Subscriptions!SubsTypeOK'
      BY <1>0, <1>2, <2>2, <2>3 DEF Subscriptions!SubsTypeOK
    <2> QED BY <1>1, <2>2, <2>3, <2>4, UserAside
  <1> QED BY <1>5, <1>6, <1>7, <1>8, <1>9, <1>10

LEMMA FeedsStart ==
    ASSUME Subscriptions!SubsAssumption, Subscriptions!SubsInit
    PROVE  Subscriptions!SubsInv
  <1>1. /\ Subscriptions!Idle \in Subscriptions!Working /\ Subscriptions!Idle.pc = "rest"
        /\ Subscriptions!Idle.row.tag = 0 /\ Subscriptions!Idle.got.tag = 0
    BY IdleWork
  <1>2. /\ Subscriptions!NoRow \in Subscriptions!Rows /\ Subscriptions!NoBody \in Subscriptions!Bodies
        /\ Subscriptions!NoRow.tag = 0 /\ Subscriptions!NoRow.is = "none"
    BY EmptyFeed DEF Subscriptions!NoRow
  <1>3. v1 \in Subscriptions!Feeds /\ v1.tag = 1
    BY DEF Subscriptions!SubsInit, Subscriptions!Feeds
  <1>4. /\ v2 = Subscriptions!NoRow /\ v3 = Subscriptions!NoBody /\ v4 = FALSE /\ v6 = Subscriptions!Idle
        /\ v5 = [r \in Pair |-> Subscriptions!Idle] /\ v7 = FALSE /\ v8 = 0
    BY DEF Subscriptions!SubsInit
  <1>5. 0 \in 0..MaxSubCalls
    BY DEF Subscriptions!SubsAssumption
  <1>6. Subscriptions!SubsTypeOK
    <2>1. v1 \in Subscriptions!Feeds /\ v1.tag > 0 /\ v2 \in Subscriptions!Rows
      BY <1>2, <1>3, <1>4
    <2>2. v3 \in [Subscriptions!Items -> {0} \cup Contents]
      BY <1>2, <1>4 DEF Subscriptions!Bodies
    <2>3. v5 \in [Pair -> Subscriptions!Working] /\ v6 \in Subscriptions!Working
      BY <1>1, <1>4
    <2>4. v4 \in BOOLEAN /\ v7 \in BOOLEAN /\ v8 \in 0..MaxSubCalls
      BY <1>4, <1>5
    <2> QED BY <2>1, <2>2, <2>3, <2>4 DEF Subscriptions!SubsTypeOK
  <1>7. Subscriptions!TagInv
    BY <1>1, <1>2, <1>3, <1>4 DEF Subscriptions!TagInv, Subscriptions!NamesBody
  <1>8. Subscriptions!HolderInv /\ v2.is # "live"
    BY <1>1, <1>2, <1>4 DEF Subscriptions!HolderInv, Subscriptions!Busy
  <1> QED BY <1>6, <1>7, <1>8 DEF Subscriptions!SubsInv

LEMMA FeedsKeep ==
    ASSUME Subscriptions!SubsAssumption, Subscriptions!SubsInv,
           [Subscriptions!SubsNext]_(Subscriptions!subVars)
    PROVE  Subscriptions!SubsInv'
  <1>1. CASE Subscriptions!SubsNext
    <2>1. \/ Subscriptions!Create \/ Subscriptions!Refresh \/ Subscriptions!Delete \/ Subscriptions!HandleDue
          \/ Subscriptions!Wait \/ Subscriptions!RefreshSaves
          \/ \E b \in Subscriptions!Bodies : Subscriptions!Publish(b)
          \/ \E r \in Pair : \/ Subscriptions!HandleRefresh(r) \/ Subscriptions!Fetch(r)
                             \/ Subscriptions!FetchFails(r) \/ Subscriptions!Merge(r)
                             \/ Subscriptions!MergeFails(r) \/ Subscriptions!HandleSaves(r) \/ Subscriptions!Dies(r)
      BY <1>1 DEF Subscriptions!SubsNext, Subscriptions!createSubscription, Subscriptions!WebSubscribe,
                  Subscriptions!refreshSubscription, Subscriptions!WebRefresh, Subscriptions!deleteSubscription,
                  Subscriptions!WebDelete
    <2> QED BY <2>1, UserKeeps, UserSaved, HandleKeeps, FetchKeeps, MergeKeeps, HandleSaved
  <1>2. CASE UNCHANGED Subscriptions!subVars
    BY <1>2 DEF Subscriptions!subVars, Subscriptions!SubsInv, Subscriptions!SubsTypeOK, Subscriptions!TagInv,
                Subscriptions!NamesBody, Subscriptions!HolderInv, Subscriptions!Busy, Subscriptions!RefreshInv,
                Subscriptions!Same, Subscriptions!Holds
  <1> QED BY <1>1, <1>2

\* For any feeds, tags, refreshes, failures and deaths, and unless refreshes overlapped or a
\* worker died between the merge and the row: what the row takes for merged stands in the
\* calendar as it stands in the feed.
THEOREM FeedsAgree == Spec => []FeedAgrees
  <1> DEFINE Inv == part = "subscriptions" => Subscriptions!SubsInv
  <1>0. Subscriptions!SubsAssumption
    BY ContentAssumption
  <1>1. Init => Inv
    BY <1>0, FeedsStart DEF Init
  <1>2. Inv /\ [Next]_vars => Inv'
    <2>1. ASSUME Inv, [Next]_vars, part = "subscriptions" PROVE Subscriptions!SubsInv'
      <3>1. [Subscriptions!SubsNext]_(Subscriptions!subVars)
        BY <2>1 DEF Next, vars, Subscriptions!subVars
      <3> QED BY <1>0, <2>1, <3>1, FeedsKeep
    <2>2. ASSUME [Next]_vars PROVE part' = part
      BY <2>2 DEF Next, vars
    <2> QED BY <2>1, <2>2
  <1>3. Inv => FeedAgrees
    <2>1. ASSUME Subscriptions!SubsInv PROVE Subscriptions!FeedAgrees
      <3>1. ASSUME ~v7, v2.is = "live", \A r \in Pair : v5[r].pc = "rest", v2.tag # 0,
                   v2.tag = v1.tag \/ v2.hash = v1.body
            PROVE  Subscriptions!Holds(v1.body)
        <4>1. Subscriptions!Holds(v2.hash)
          BY <2>1, <3>1 DEF Subscriptions!SubsInv, Subscriptions!RefreshInv
        <4>2. v2.hash = v1.body
          BY <2>1, <3>1 DEF Subscriptions!SubsInv, Subscriptions!TagInv, Subscriptions!NamesBody
        <4> QED BY <4>1, <4>2
      <3> QED BY <3>1 DEF Subscriptions!FeedAgrees, Subscriptions!Busy
    <2> QED BY <2>1 DEF FeedAgrees
  <1> QED BY <1>1, <1>2, <1>3, PTL DEF Spec


-----------------------------------------------------------------------------
(* Duplicates. *)

\* The sets of FiniteSets and those of Dedup are the same.
LEMMA DedupSize ==
    ASSUME NEW S
    PROVE  Dedup!Cardinality(S) = Cardinality(S) /\ Dedup!IsFiniteSet(S) = IsFiniteSet(S)
  BY DEF Dedup!Cardinality, Cardinality, Dedup!IsFiniteSet, IsFiniteSet

\* A pair is of two copies, the older first.
LEMMA PairFields ==
    ASSUME NEW p \in Dedup!Pairs
    PROVE  p[1] \in Copies /\ p[2] \in Copies /\ p[1] < p[2]
  BY DEF Dedup!Pairs

LEMMA PairDiffers ==
    ASSUME Dedup!DedupAssumption, NEW p \in Dedup!Pairs
    PROVE  p[1] # p[2]
  <1>1. p[1] \in Nat /\ p[1] < p[2]
    BY PairFields DEF Dedup!DedupAssumption
  <1> QED BY <1>1

\* Of some copies one is the oldest.
LEMMA LeastCopy ==
    ASSUME NEW T \in SUBSET Nat, T # {}
    PROVE  \E x \in T : \A y \in T : x <= y
  <1>1. \E x \in T : \A y \in T : <<y, x>> \notin OpToRel(<, Nat)
    BY NatLessThanWellFounded, WFMin
  <1>2. ASSUME NEW x \in Nat, NEW y \in Nat, <<y, x>> \notin OpToRel(<, Nat) PROVE x <= y
    BY <1>2 DEF OpToRel
  <1> QED BY <1>1, <1>2

\* What is found is a pair and a reason.
LEMMA FoundFields ==
    ASSUME NEW f \in SUBSET (Dedup!Pairs \X Dedup!Reasons), NEW x \in f
    PROVE  x[1] \in Dedup!Pairs /\ x[2] \in Dedup!Reasons
  OBVIOUS

\* What a scan finds is there.
LEMMA FindsLive ==
    ASSUME NEW full \in BOOLEAN, NEW f \in Dedup!Finds(full)
    PROVE  f \in SUBSET (Dedup!Pairs \X Dedup!Reasons) /\ \A x \in f : Dedup!Live(x[1][1])
  <1> DEFINE cs == Dedup!Seen(full)
  <1>1. \A c \in cs : Dedup!Live(c)
    BY DEF Dedup!Seen, Dedup!EventsInSpan, Dedup!OpenTodos
  <1>2. f \subseteq Dedup!Candidates(cs)
    BY DEF Dedup!Finds
  <1> HIDE DEF cs
  <1>3. /\ Dedup!ByUID(cs) \subseteq Dedup!Pairs /\ \A p \in Dedup!ByUID(cs) : p[1] \in cs
        /\ Dedup!ByPrint(cs) \subseteq Dedup!Pairs /\ \A p \in Dedup!ByPrint(cs) : p[1] \in cs
    BY DEF Dedup!ByUID, Dedup!ByPrint, Dedup!Grouped
  <1>4. Dedup!Similarity(cs) \subseteq Dedup!Pairs /\ \A p \in Dedup!Similarity(cs) : p[1] \in cs
    BY DEF Dedup!Similarity
  <1>5. ASSUME NEW x \in Dedup!Candidates(cs)
        PROVE  x \in Dedup!Pairs \X Dedup!Reasons /\ x[1][1] \in cs
    <2>1. \E p \in Dedup!ByUID(cs) \cup Dedup!ByPrint(cs) \cup Dedup!Similarity(cs), r \in Dedup!Reasons : x = <<p, r>>
      BY <1>5 DEF Dedup!Candidates, Dedup!Reasons
    <2> QED BY <1>3, <1>4, <2>1
  <1> QED BY <1>1, <1>2, <1>5

\* Scans that are told of a change know it.
LEMMA Touched ==
    ASSUME v6 \in [Scanners -> Dedup!Scanning]
    PROVE  /\ Dedup!Touch(v6) \in [Scanners -> Dedup!Scanning]
           /\ \A s \in Scanners : LET x == Dedup!Touch(v6)[s]
                                  IN  x.touched = TRUE /\ x.found = v6[s].found /\ x.busy = v6[s].busy
  <1>1. ASSUME NEW x \in Dedup!Scanning
        PROVE  LET y == [x EXCEPT !.touched = TRUE]
               IN  y \in Dedup!Scanning /\ y.touched = TRUE /\ y.found = x.found /\ y.busy = x.busy
    BY DEF Dedup!Scanning
  <1>2. Dedup!Touch(v6) = [s \in Scanners |-> [v6[s] EXCEPT !.touched = TRUE]]
    BY DEF Dedup!Touch
  <1>3. \A s \in Scanners : LET y == [v6[s] EXCEPT !.touched = TRUE]
                            IN  y \in Dedup!Scanning /\ y.touched = TRUE /\ y.found = v6[s].found /\ y.busy = v6[s].busy
    BY <1>1
  <1>4. Dedup!Touch(v6) \in [Scanners -> Dedup!Scanning]
    BY <1>2, <1>3
  <1>5. \A s \in Scanners : Dedup!Touch(v6)[s] = [v6[s] EXCEPT !.touched = TRUE]
    BY <1>2
  <1>6. ASSUME NEW s \in Scanners
        PROVE  LET x == Dedup!Touch(v6)[s] IN x.touched = TRUE /\ x.found = v6[s].found /\ x.busy = v6[s].busy
    BY <1>3, <1>5
  <1> QED BY <1>4, <1>6

\* Copies that are removed.
LEMMA Removed ==
    ASSUME v2 \in [Copies -> Dedup!Copy], NEW cs
    PROVE  /\ Dedup!Remove(cs) \in [Copies -> Dedup!Copy]
           /\ \A c \in Copies : /\ c \in cs => Dedup!Remove(cs)[c].st = "trash"
                                /\ c \notin cs => Dedup!Remove(cs)[c] = v2[c]
  <1>1. ASSUME NEW x \in Dedup!Copy
        PROVE  [x EXCEPT !.st = "trash"] \in Dedup!Copy /\ [x EXCEPT !.st = "trash"].st = "trash"
               /\ x.st \in {"live", "trash"}
    BY DEF Dedup!Copy
  <1>2. Dedup!Remove(cs) = [c \in Copies |-> IF c \in cs /\ v2[c].st = "live" THEN [v2[c] EXCEPT !.st = "trash"]
                                             ELSE v2[c]]
    BY DEF Dedup!Remove, Dedup!Live
  <1>3. \A c \in Copies : v2[c] \in Dedup!Copy
    OBVIOUS
  <1>4. \A c \in Copies : (IF c \in cs /\ v2[c].st = "live" THEN [v2[c] EXCEPT !.st = "trash"] ELSE v2[c]) \in Dedup!Copy
    BY <1>1, <1>3
  <1>5. Dedup!Remove(cs) \in [Copies -> Dedup!Copy]
    BY <1>2, <1>4
  <1>6. \A c \in Copies : Dedup!Remove(cs)[c] = IF c \in cs /\ v2[c].st = "live" THEN [v2[c] EXCEPT !.st = "trash"]
                                                ELSE v2[c]
    BY <1>2
  <1>7. ASSUME NEW c \in Copies, c \in cs PROVE Dedup!Remove(cs)[c].st = "trash"
    <2>1. CASE v2[c].st = "live"
      BY <1>1, <1>3, <1>6, <1>7, <2>1
    <2>2. CASE v2[c].st # "live"
      BY <1>1, <1>3, <1>6, <2>2
    <2> QED BY <2>1, <2>2
  <1> QED BY <1>5, <1>6, <1>7

\* The rows of pairs keep their type.
LEMMA RowsTyped ==
    ASSUME NEW rows \in [Dedup!Pairs -> Dedup!PairRow]
    PROVE  /\ \A cs : Dedup!DropDuplicates(rows, cs) \in [Dedup!Pairs -> Dedup!PairRow]
           /\ \A found : Dedup!SaveDuplicate(rows, found) \in [Dedup!Pairs -> Dedup!PairRow]
           /\ \A p \in Dedup!Pairs, t \in {"merged", "deleted", "dismissed"} :
                Dedup!ResolveDuplicate(rows, p, t) \in [Dedup!Pairs -> Dedup!PairRow]
  <1>1. Dedup!NoRow \in Dedup!PairRow
    BY DEF Dedup!NoRow, Dedup!PairRow, Dedup!Reasons
  <1>2. ASSUME NEW cs PROVE Dedup!DropDuplicates(rows, cs) \in [Dedup!Pairs -> Dedup!PairRow]
    BY <1>1 DEF Dedup!DropDuplicates
  <1>3. ASSUME NEW found PROVE Dedup!SaveDuplicate(rows, found) \in [Dedup!Pairs -> Dedup!PairRow]
    <2>1. ASSUME NEW p \in Dedup!Pairs, \E r \in Dedup!Reasons : <<p, r>> \in found
          PROVE  [status |-> "pending", reason |-> CHOOSE r \in Dedup!Reasons : <<p, r>> \in found] \in Dedup!PairRow
      <3> DEFINE r == CHOOSE r \in Dedup!Reasons : <<p, r>> \in found
      <3>1. r \in Dedup!Reasons
        BY <2>1
      <3> HIDE DEF r
      <3>2. [status |-> "pending", reason |-> r] \in Dedup!PairRow
        BY <3>1 DEF Dedup!PairRow
      <3> QED BY <3>2 DEF r
    <2> QED BY <2>1 DEF Dedup!SaveDuplicate
  <1>4. ASSUME NEW p \in Dedup!Pairs, NEW t \in {"merged", "deleted", "dismissed"}
        PROVE  Dedup!ResolveDuplicate(rows, p, t) \in [Dedup!Pairs -> Dedup!PairRow]
    <2>1. [rows[p] EXCEPT !.status = t] \in Dedup!PairRow
      BY DEF Dedup!PairRow
    <2>2. [rows EXCEPT ![p].status = t] \in [Dedup!Pairs -> Dedup!PairRow]
      BY <2>1
    <2> QED BY <2>2 DEF Dedup!ResolveDuplicate
  <1> QED BY <1>2, <1>3, <1>4

\* What the rows of settled pairs become.
LEMMA RowsStand ==
    ASSUME NEW rows, NEW p \in Dedup!Pairs, rows[p].status = "dismissed",
           rows \in [Dedup!Pairs -> Dedup!PairRow]
    PROVE  /\ \A cs : p[1] \notin cs /\ p[2] \notin cs => Dedup!DropDuplicates(rows, cs)[p] = rows[p]
           /\ \A found : Dedup!SaveDuplicate(rows, found)[p] = rows[p]
           /\ \A q \in Dedup!Pairs : \A t : Dedup!ResolveDuplicate(rows, q, t)[p] = rows[p]
  <1>1. ASSUME NEW cs, p[1] \notin cs, p[2] \notin cs PROVE Dedup!DropDuplicates(rows, cs)[p] = rows[p]
    <2>1. {p[1], p[2]} \cap cs = {}
      BY <1>1
    <2> QED BY <2>1 DEF Dedup!DropDuplicates
  <1>2. ASSUME NEW found PROVE Dedup!SaveDuplicate(rows, found)[p] = rows[p]
    BY DEF Dedup!SaveDuplicate
  <1>3. ASSUME NEW q \in Dedup!Pairs, NEW t PROVE Dedup!ResolveDuplicate(rows, q, t)[p] = rows[p]
    <2>1. CASE rows[q].status = "pending"
      <3>1. q # p
        BY <2>1
      <3> QED BY <2>1, <3>1 DEF Dedup!ResolveDuplicate, Dedup!CanResolve
    <2>2. CASE rows[q].status # "pending"
      BY <2>2 DEF Dedup!ResolveDuplicate, Dedup!CanResolve
    <2> QED BY <2>1, <2>2
  <1> QED BY <1>1, <1>2, <1>3

\* The record of a scan that holds nothing, and how few pairs one may hold.
LEMMA NothingFound ==
    ASSUME Dedup!DedupAssumption
    PROVE  /\ Dedup!NoScan \in Dedup!Scanning /\ Dedup!NoScan.found = {} /\ Dedup!NoScan.busy = FALSE
           /\ Dedup!Cardinality({}) <= MaxPairs
  <1>1. Dedup!NoScan \in Dedup!Scanning /\ Dedup!NoScan.found = {} /\ Dedup!NoScan.busy = FALSE
    BY DEF Dedup!NoScan, Dedup!Scanning, Dedup!Policies
  <1>2. Dedup!Cardinality({}) = 0
    BY DedupSize, FS_EmptySet
  <1> QED BY <1>1, <1>2 DEF Dedup!DedupAssumption

\* Scans that hold pairs, no more than they may.
FewScans(ss) == ss \in [Scanners -> Dedup!Scanning] /\ \A s \in Scanners : Dedup!Cardinality(ss[s].found) <= MaxPairs

\* One scan becomes another.
LEMMA ScanBecomes ==
    ASSUME NEW ss, FewScans(ss), NEW s \in Scanners, NEW x \in Dedup!Scanning, Dedup!Cardinality(x.found) <= MaxPairs
    PROVE  FewScans([ss EXCEPT ![s] = x]) /\ \A q \in Scanners : [ss EXCEPT ![s] = x][q] = IF q = s THEN x ELSE ss[q]
  <1>1. \A q \in Scanners : [ss EXCEPT ![s] = x][q] = IF q = s THEN x ELSE ss[q]
    BY DEF FewScans
  <1>2. [ss EXCEPT ![s] = x] \in [Scanners -> Dedup!Scanning]
    BY DEF FewScans
  <1> QED BY <1>1, <1>2 DEF FewScans

LEMMA TouchedFew ==
    ASSUME FewScans(v6)
    PROVE  FewScans(Dedup!Touch(v6))
  BY Touched DEF FewScans

\* What the invariant says of each variable.
LEMMA DedupFields ==
    ASSUME Dedup!DedupInv
    PROVE  /\ v1 \in {"event", "todo"} /\ v2 \in [Copies -> Dedup!Copy] /\ v3 \in [Dedup!Pairs -> Dedup!PairRow]
           /\ v4 \in Dedup!Policies /\ v5 \in BOOLEAN /\ FewScans(v6) /\ v7 \subseteq Dedup!Pairs
           /\ v9 \in 0..MaxDedupCalls /\ Dedup!ScanInv
  BY DEF Dedup!DedupInv, Dedup!DedupTypeOK, FewScans

\* A step of the invariant's variables that the scans know of, or that leaves the copies.
LEMMA DedupGoesOn ==
    ASSUME v1' \in {"event", "todo"}, v2' \in [Copies -> Dedup!Copy], v3' \in [Dedup!Pairs -> Dedup!PairRow],
           v4' \in Dedup!Policies, v5' \in BOOLEAN, FewScans(v6'), v7' \in SUBSET Dedup!Pairs,
           v9' \in 0..MaxDedupCalls,
           \A s \in Scanners : v6'[s].busy /\ ~v6'[s].touched => \A x \in v6'[s].found : v2'[x[1][1]].st = "live"
    PROVE  Dedup!DedupInv'
  <1>1. Dedup!DedupTypeOK'
    BY DEF Dedup!DedupTypeOK, FewScans
  <1>2. Dedup!ScanInv'
    BY DEF Dedup!ScanInv, Dedup!Live
  <1> QED BY <1>1, <1>2 DEF Dedup!DedupInv

LEMMA DedupQuiet ==
    ASSUME Dedup!DedupInv, UNCHANGED <<v1, v2, v6>>, v3' \in [Dedup!Pairs -> Dedup!PairRow], v4' \in Dedup!Policies,
           v5' \in BOOLEAN, v7' \in SUBSET Dedup!Pairs, v9' \in 0..MaxDedupCalls
    PROVE  Dedup!DedupInv'
  <1>1. FewScans(v6') /\ v1' \in {"event", "todo"} /\ v2' \in [Copies -> Dedup!Copy]
    BY DedupFields
  <1>2. \A s \in Scanners : v6'[s].busy /\ ~v6'[s].touched => \A x \in v6'[s].found : v2'[x[1][1]].st = "live"
    BY DEF Dedup!DedupInv, Dedup!ScanInv, Dedup!Live
  <1> QED BY <1>1, <1>2, DedupGoesOn

LEMMA DedupTold ==
    ASSUME Dedup!DedupInv, v1' = v1, v6' = Dedup!Touch(v6), v2' \in [Copies -> Dedup!Copy],
           v3' \in [Dedup!Pairs -> Dedup!PairRow], v4' \in Dedup!Policies,
           v5' \in BOOLEAN, v7' \in SUBSET Dedup!Pairs, v9' \in 0..MaxDedupCalls
    PROVE  Dedup!DedupInv'
  <1>1. FewScans(v6') /\ v1' \in {"event", "todo"}
    BY DedupFields, TouchedFew
  <1>2. \A s \in Scanners : v6'[s].touched
    BY DedupFields, Touched DEF FewScans
  <1> QED BY <1>1, <1>2, DedupGoesOn

\* A call of a user.
LEMMA DedupCall ==
    ASSUME Dedup!DedupAssumption, Dedup!DedupInv, v9 < MaxDedupCalls, v9' = v9 + 1
    PROVE  v9' \in 0..MaxDedupCalls
  BY DedupFields DEF Dedup!DedupAssumption

\* A user resolves a pair.
LEMMA ResolveKeeps ==
    ASSUME Dedup!DedupAssumption, Dedup!DedupInv, NEW p \in Dedup!Pairs, NEW choice, Dedup!Resolve(p, choice),
           v7' \in SUBSET Dedup!Pairs, v9' \in 0..MaxDedupCalls
    PROVE  Dedup!DedupInv'
  <1>0. UNCHANGED <<v1, v4, v5>>
    BY DEF Dedup!Resolve
  <1>1. /\ v2 \in [Copies -> Dedup!Copy] /\ v3 \in [Dedup!Pairs -> Dedup!PairRow]
        /\ v4' \in Dedup!Policies /\ v5' \in BOOLEAN
    BY <1>0, DedupFields
  <1>2. CASE Dedup!Dismiss(p)
    <2>1. v3' \in [Dedup!Pairs -> Dedup!PairRow] /\ UNCHANGED <<v2, v6>>
      BY <1>1, <1>2, RowsTyped DEF Dedup!Dismiss
    <2> QED BY <1>0, <1>1, <2>1, DedupQuiet
  <1>3. CASE Dedup!Keep(p, choice)
    <2>1. PICK gone : /\ v2' = Dedup!Remove(gone) /\ v6' = Dedup!Touch(v6)
                      /\ v3' = Dedup!ResolveDuplicate(Dedup!DropDuplicates(v3, gone), p, "deleted")
      BY <1>3 DEF Dedup!Keep
    <2>2. v2' \in [Copies -> Dedup!Copy]
      BY <1>1, <2>1, Removed
    <2>3. Dedup!DropDuplicates(v3, gone) \in [Dedup!Pairs -> Dedup!PairRow]
      BY <1>1, RowsTyped
    <2>4. v3' \in [Dedup!Pairs -> Dedup!PairRow]
      BY <2>1, <2>3, RowsTyped
    <2> QED BY <1>0, <1>1, <2>1, <2>2, <2>4, DedupTold
  <1>4. CASE Dedup!Merge(p)
    <2> DEFINE rows == Dedup!DropDuplicates(v3, {p[2]})
               left == Dedup!Remove({p[2]})
               one == Dedup!Merged(p[1], p[2])
    <2>1. \/ v2' = v2 /\ v3' = v3 /\ v6' = v6
          \/ v2' = [left EXCEPT ![p[1]] = one] /\ v3' = Dedup!ResolveDuplicate(rows, p, "merged") /\ v6' = Dedup!Touch(v6)
      BY <1>4 DEF Dedup!Merge
    <2>2. left \in [Copies -> Dedup!Copy] /\ rows \in [Dedup!Pairs -> Dedup!PairRow]
      BY <1>1, Removed, RowsTyped
    <2>3. one \in Dedup!Copy
      <3> DEFINE l == IF v2[p[1]].look = NoLook THEN v2[p[2]].look ELSE v2[p[1]].look
      <3>1. v2[p[1]] \in Dedup!Copy /\ v2[p[2]] \in Dedup!Copy
        BY <1>1, PairFields
      <3>2. l \in Looks \cup {NoLook}
        BY <3>1 DEF Dedup!Copy
      <3>3. one = [v2[p[1]] EXCEPT !.look = l]
        BY DEF Dedup!Merged
      <3> HIDE DEF l, one
      <3> QED BY <3>1, <3>2, <3>3 DEF Dedup!Copy
    <2> HIDE DEF rows, left, one
    <2>4. [left EXCEPT ![p[1]] = one] \in [Copies -> Dedup!Copy]
      BY <2>2, <2>3
    <2>5. Dedup!ResolveDuplicate(rows, p, "merged") \in [Dedup!Pairs -> Dedup!PairRow]
      BY <2>2, RowsTyped
    <2>6. CASE v2' = v2 /\ v3' = v3 /\ v6' = v6
      BY <1>0, <1>1, <2>6, DedupQuiet
    <2>7. CASE v2' = [left EXCEPT ![p[1]] = one] /\ v3' = Dedup!ResolveDuplicate(rows, p, "merged")
               /\ v6' = Dedup!Touch(v6)
      BY <1>0, <1>1, <2>4, <2>5, <2>7, DedupTold
    <2> QED BY <2>1, <2>6, <2>7
  <1>5. CASE Dedup!TooLate(p, choice)
    <2>1. UNCHANGED <<v2, v3, v6>>
      BY <1>5 DEF Dedup!TooLate
    <2> QED BY <1>0, <1>1, <2>1, DedupQuiet
  <1> QED BY <1>2, <1>3, <1>4, <1>5 DEF Dedup!Resolve

\* A scan looks.
LEMMA FindKeeps ==
    ASSUME Dedup!DedupAssumption, Dedup!DedupInv, NEW s \in Scanners, NEW full \in BOOLEAN, Dedup!Find(s, full),
           v5' \in BOOLEAN, v9' \in 0..MaxDedupCalls
    PROVE  Dedup!DedupInv' /\ UNCHANGED <<v2, v3>> /\ ~v6[s].busy /\ \A q \in Scanners \ {s} : v6'[q] = v6[q]
  <1>1. ~v6[s].busy /\ UNCHANGED <<v1, v2, v3, v4, v7, v8>>
    BY DEF Dedup!Find
  <1>2. /\ v1 \in {"event", "todo"} /\ v2 \in [Copies -> Dedup!Copy] /\ v3 \in [Dedup!Pairs -> Dedup!PairRow]
        /\ v4 \in Dedup!Policies /\ FewScans(v6) /\ v7 \in SUBSET Dedup!Pairs
    BY DedupFields
  <1>3. CASE v6' = v6
    BY <1>1, <1>2, <1>3, DedupQuiet
  <1>4. CASE v6' # v6
    <2>1. PICK f \in Dedup!Finds(full) :
            v6' = [v6 EXCEPT ![s] = IF f = {} THEN Dedup!NoScan
                                    ELSE [found |-> f, under |-> v4, busy |-> TRUE, touched |-> FALSE]]
      BY <1>4 DEF Dedup!Find
    <2> DEFINE x == IF f = {} THEN Dedup!NoScan ELSE [found |-> f, under |-> v4, busy |-> TRUE, touched |-> FALSE]
    <2>2. Dedup!Cardinality(f) <= MaxPairs
      BY DEF Dedup!Finds
    <2>3. f \in SUBSET (Dedup!Pairs \X Dedup!Reasons) /\ \A y \in f : Dedup!Live(y[1][1])
      BY FindsLive
    <2>4. x \in Dedup!Scanning
      <3>1. [found |-> f, under |-> v4, busy |-> TRUE, touched |-> FALSE] \in Dedup!Scanning
        BY <1>2, <2>3 DEF Dedup!Scanning
      <3> QED BY <3>1, NothingFound
    <2>5. x.found = f \/ (x.found = {} /\ ~x.busy)
      BY NothingFound
    <2>6. Dedup!Cardinality(x.found) <= MaxPairs
      BY <2>2, <2>5, NothingFound
    <2> DEFINE ss == [v6 EXCEPT ![s] = x]
    <2>7. v6' = ss
      BY <2>1
    <2> HIDE DEF x
    <2>8. FewScans(ss) /\ \A q \in Scanners : ss[q] = IF q = s THEN x ELSE v6[q]
      BY <1>2, <2>4, <2>6, ScanBecomes
    <2> HIDE DEF ss
    <2>9. FewScans(v6') /\ \A q \in Scanners : v6'[q] = IF q = s THEN x ELSE v6[q]
      BY <2>7, <2>8 DEF FewScans
    <2>10. \A q \in Scanners : v6'[q].busy /\ ~v6'[q].touched => \A y \in v6'[q].found : v2'[y[1][1]].st = "live"
      <3>1. \A q \in Scanners : v6[q].busy /\ ~v6[q].touched => \A y \in v6[q].found : v2[y[1][1]].st = "live"
        BY DEF Dedup!DedupInv, Dedup!ScanInv, Dedup!Live
      <3>2. x.busy => \A y \in x.found : v2[y[1][1]].st = "live"
        BY <2>3, <2>5 DEF Dedup!Live
      <3> QED BY <1>1, <2>9, <3>1, <3>2
    <2>11. Dedup!DedupInv'
      BY <1>1, <1>2, <2>9, <2>10, DedupGoesOn
    <2> QED BY <1>1, <2>9, <2>11
  <1> QED BY <1>1, <1>3, <1>4

\* A scan removes and flags what it has found.
LEMMA ApplyKeeps ==
    ASSUME Dedup!DedupAssumption, Dedup!DedupInv, NEW s \in Scanners, Dedup!Apply(s)
    PROVE  Dedup!DedupInv'
  <1> DEFINE auto == {x \in v6[s].found : Dedup!Auto(x[2], v6[s].under)}
             gone == {c \in {Dedup!Drop(x) : x \in auto} : Dedup!Live(c)}
             base == IF gone = {} THEN v6 ELSE Dedup!Touch(v6)
  <1>1. /\ v2' = Dedup!Remove(gone)
        /\ v3' = Dedup!SaveDuplicate(Dedup!DropDuplicates(v3, gone), v6[s].found \ auto)
        /\ v6' = [base EXCEPT ![s] = Dedup!NoScan]
        /\ UNCHANGED <<v1, v4, v5, v7, v8, v9>>
    BY DEF Dedup!Apply
  <1>2. /\ v1 \in {"event", "todo"} /\ v2 \in [Copies -> Dedup!Copy] /\ v3 \in [Dedup!Pairs -> Dedup!PairRow]
        /\ v4 \in Dedup!Policies /\ v5 \in BOOLEAN /\ FewScans(v6) /\ v7 \in SUBSET Dedup!Pairs /\ v9 \in 0..MaxDedupCalls
    BY DedupFields
  <1> HIDE DEF gone, auto
  <1>3. v2' \in [Copies -> Dedup!Copy] /\ (gone = {} => \A c \in Copies : v2'[c] = v2[c])
    BY <1>1, <1>2, Removed
  <1>4. v3' \in [Dedup!Pairs -> Dedup!PairRow]
    <2>1. Dedup!DropDuplicates(v3, gone) \in [Dedup!Pairs -> Dedup!PairRow]
      BY <1>2, RowsTyped
    <2> QED BY <1>1, <2>1, RowsTyped
  <1>5. FewScans(base)
    BY <1>2, TouchedFew
  <1>6. gone = {} \/ \A q \in Scanners : base[q].touched
    BY <1>2, Touched DEF FewScans
  <1>7. gone = {} => base = v6
    OBVIOUS
  <1> DEFINE next == [base EXCEPT ![s] = Dedup!NoScan]
  <1>8. v6' = next
    BY <1>1
  <1> HIDE DEF base
  <1>9. Dedup!NoScan \in Dedup!Scanning /\ Dedup!Cardinality(Dedup!NoScan.found) <= MaxPairs
    BY NothingFound
  <1>10. FewScans(next) /\ \A q \in Scanners : next[q] = IF q = s THEN Dedup!NoScan ELSE base[q]
    BY <1>5, <1>9, ScanBecomes
  <1> HIDE DEF next
  <1>11. FewScans(v6') /\ \A q \in Scanners : v6'[q] = IF q = s THEN Dedup!NoScan ELSE base[q]
    BY <1>8, <1>10 DEF FewScans
  <1>12. ASSUME NEW q \in Scanners, v6'[q].busy, ~v6'[q].touched, NEW x \in v6'[q].found
        PROVE  v2'[x[1][1]].st = "live"
    <2>1. q # s /\ v6'[q] = base[q]
      BY <1>11, <1>12, NothingFound
    <2>2. gone = {} /\ v6'[q] = v6[q]
      BY <1>6, <1>7, <1>12, <2>1
    <2>3. v2[x[1][1]].st = "live"
      BY <1>12, <2>2 DEF Dedup!DedupInv, Dedup!ScanInv, Dedup!Live
    <2>4. x[1][1] \in Copies
      <3>1. v6[q].found \in SUBSET (Dedup!Pairs \X Dedup!Reasons)
        BY <1>2 DEF FewScans, Dedup!Scanning
      <3> QED BY <1>12, <2>2, <3>1, FoundFields, PairFields
    <2> QED BY <1>3, <2>2, <2>3, <2>4
  <1> QED BY <1>1, <1>2, <1>3, <1>4, <1>11, <1>12, DedupGoesOn

\* A copy is edited, deleted or restored.
LEMMA CopyKeeps ==
    ASSUME Dedup!DedupAssumption, Dedup!DedupInv, NEW c \in Copies,
           \/ Dedup!DeleteCopy(c) \/ Dedup!RestoreCopy(c) \/ \E l \in Looks : Dedup!EditCopy(c, l)
    PROVE  Dedup!DedupInv' /\ v3' = v3
  <1>1. /\ v9 < MaxDedupCalls /\ v9' = v9 + 1 /\ UNCHANGED <<v1, v3, v4, v5, v7, v8>> /\ v6' = Dedup!Touch(v6)
        /\ \/ \E t \in {"live", "trash"} : v2' = [v2 EXCEPT ![c].st = t]
           \/ \E l \in Looks : v2' = [v2 EXCEPT ![c].look = l]
    BY DEF Dedup!DeleteCopy, Dedup!RestoreCopy, Dedup!EditCopy, Dedup!UserCall
  <1>2. /\ v2 \in [Copies -> Dedup!Copy] /\ v3 \in [Dedup!Pairs -> Dedup!PairRow]
        /\ v4 \in Dedup!Policies /\ v5 \in BOOLEAN /\ v7 \in SUBSET Dedup!Pairs
    BY DedupFields
  <1>3. ASSUME NEW t \in {"live", "trash"} PROVE [v2 EXCEPT ![c].st = t] \in [Copies -> Dedup!Copy]
    <2>1. [v2[c] EXCEPT !.st = t] \in Dedup!Copy
      BY <1>2 DEF Dedup!Copy
    <2> QED BY <1>2, <2>1
  <1>4. ASSUME NEW l \in Looks PROVE [v2 EXCEPT ![c].look = l] \in [Copies -> Dedup!Copy]
    <2>1. [v2[c] EXCEPT !.look = l] \in Dedup!Copy
      BY <1>2 DEF Dedup!Copy
    <2> QED BY <1>2, <2>1
  <1>5. v2' \in [Copies -> Dedup!Copy]
    BY <1>1, <1>3, <1>4
  <1> QED BY <1>1, <1>2, <1>5, DedupCall, DedupTold

\* The kinds of a step.
LEMMA DedupSteps ==
    ASSUME Dedup!DedupNext
    PROVE  \/ Dedup!Scan
           \/ \E s \in Scanners : Dedup!HandleScan(s) \/ Dedup!Apply(s)
           \/ \E s \in Scanners, full \in BOOLEAN : Dedup!dedupScan(s, full)
           \/ \E p \in Dedup!Pairs, choice \in Dedup!Choices : Dedup!resolveDuplicate(p, choice)
           \/ Dedup!ListPending
           \/ \E p \in Dedup!Pairs : Dedup!dedupResolve(p)
           \/ \E c \in Copies : \/ Dedup!DeleteCopy(c) \/ Dedup!RestoreCopy(c)
                                \/ \E l \in Looks : Dedup!EditCopy(c, l)
           \/ \E p \in Dedup!Policies : Dedup!SetPolicy(p)
  BY DEF Dedup!DedupNext, Dedup!scanDuplicates, Dedup!WebScan, Dedup!HandleSweep, Dedup!WebResolve, Dedup!restoreTrash,
         Dedup!WebRestore

LEMMA DedupKeeps ==
    ASSUME Dedup!DedupAssumption, Dedup!DedupInv, [Dedup!DedupNext]_(Dedup!dedupVars)
    PROVE  Dedup!DedupInv'
  <1>0. /\ v1 \in {"event", "todo"} /\ v2 \in [Copies -> Dedup!Copy] /\ v3 \in [Dedup!Pairs -> Dedup!PairRow]
        /\ v4 \in Dedup!Policies /\ v5 \in BOOLEAN /\ v7 \in SUBSET Dedup!Pairs /\ v9 \in 0..MaxDedupCalls
    BY DedupFields
  <1>1. CASE Dedup!Scan
    <2>1. v5' = TRUE /\ UNCHANGED <<v1, v2, v3, v4, v6, v7, v8, v9>>
      BY <1>1 DEF Dedup!Scan
    <2> QED BY <1>0, <2>1, DedupQuiet
  <1>2. ASSUME NEW s \in Scanners, Dedup!HandleScan(s) PROVE Dedup!DedupInv'
    <2>1. v5' = FALSE /\ v9' = v9 /\ Dedup!Find(s, FALSE)
      BY <1>2 DEF Dedup!HandleScan
    <2> QED BY <1>0, <2>1, FindKeeps
  <1>3. ASSUME NEW s \in Scanners, NEW full \in BOOLEAN, Dedup!dedupScan(s, full) PROVE Dedup!DedupInv'
    <2>1. v5' = v5 /\ v9 < MaxDedupCalls /\ v9' = v9 + 1 /\ Dedup!Find(s, full)
      BY <1>3 DEF Dedup!dedupScan
    <2> QED BY <1>0, <2>1, DedupCall, FindKeeps
  <1>4. ASSUME NEW p \in Dedup!Pairs, NEW choice, Dedup!resolveDuplicate(p, choice) PROVE Dedup!DedupInv'
    <2>1. v9 < MaxDedupCalls /\ v9' = v9 + 1 /\ v7' = v7 /\ Dedup!Resolve(p, choice)
      BY <1>4 DEF Dedup!resolveDuplicate
    <2> QED BY <1>0, <2>1, DedupCall, ResolveKeeps
  <1>5. CASE Dedup!ListPending
    <2>1. v9 < MaxDedupCalls /\ v9' = v9 + 1 /\ v7' \in SUBSET Dedup!Pairs /\ UNCHANGED <<v1, v2, v3, v4, v5, v6, v8>>
      BY <1>5 DEF Dedup!ListPending
    <2> QED BY <1>0, <2>1, DedupCall, DedupQuiet
  <1>6. ASSUME NEW p \in Dedup!Pairs, Dedup!dedupResolve(p) PROVE Dedup!DedupInv'
    <2>1. v9' = v9 /\ v7' \in SUBSET Dedup!Pairs /\ Dedup!Resolve(p, Dedup!Choose(p))
      BY <1>0, <1>6 DEF Dedup!dedupResolve
    <2> QED BY <1>0, <2>1, ResolveKeeps
  <1>7. ASSUME NEW p \in Dedup!Policies, Dedup!SetPolicy(p) PROVE Dedup!DedupInv'
    <2>1. v9 < MaxDedupCalls /\ v9' = v9 + 1 /\ v4' = p /\ UNCHANGED <<v1, v2, v3, v5, v6, v7, v8>>
      BY <1>7 DEF Dedup!SetPolicy, Dedup!UserCall
    <2> QED BY <1>0, <2>1, DedupCall, DedupQuiet
  <1>8. CASE UNCHANGED Dedup!dedupVars
    <2>1. UNCHANGED <<v1, v2, v3, v4, v5, v6, v7, v8, v9>>
      BY <1>8 DEF Dedup!dedupVars
    <2> QED BY <1>0, <2>1, DedupQuiet
  <1> QED BY <1>1, <1>2, <1>3, <1>4, <1>5, <1>6, <1>7, <1>8, ApplyKeeps, CopyKeeps, DedupSteps

LEMMA DedupStarts ==
    ASSUME Dedup!DedupAssumption, Dedup!DedupInit
    PROVE  Dedup!DedupInv
  <1>1. /\ v1 \in {"event", "todo"} /\ v4 \in Dedup!Policies /\ v5 = FALSE /\ v7 = {} /\ v9 = 0
        /\ v3 = [p \in Dedup!Pairs |-> Dedup!NoRow] /\ v6 = [s \in Scanners |-> Dedup!NoScan]
        /\ v2 \in [Copies -> [st : {"live"}, look : Looks \cup {NoLook}]]
    BY DEF Dedup!DedupInit
  <1>2. v2 \in [Copies -> Dedup!Copy]
    <2>1. [st : {"live"}, look : Looks \cup {NoLook}] \subseteq Dedup!Copy
      BY DEF Dedup!Copy
    <2> QED BY <1>1, <2>1
  <1>3. v3 \in [Dedup!Pairs -> Dedup!PairRow]
    <2>1. Dedup!NoRow \in Dedup!PairRow
      BY DEF Dedup!NoRow, Dedup!PairRow, Dedup!Reasons
    <2> QED BY <1>1, <2>1
  <1>4. v6 \in [Scanners -> Dedup!Scanning] /\ \A s \in Scanners : v6[s].found = {} /\ ~v6[s].busy
    BY <1>1, NothingFound
  <1>5. \A s \in Scanners : Dedup!Cardinality(v6[s].found) <= MaxPairs
    BY <1>4, NothingFound
  <1>6. 0 \in 0..MaxDedupCalls
    BY DEF Dedup!DedupAssumption
  <1>7. Dedup!DedupTypeOK
    BY <1>1, <1>2, <1>3, <1>4, <1>5, <1>6 DEF Dedup!DedupTypeOK
  <1>8. Dedup!ScanInv
    BY <1>4 DEF Dedup!ScanInv
  <1> QED BY <1>7, <1>8 DEF Dedup!DedupInv

\* A dismissed pair whose copies stay.
LEMMA ResolveStands ==
    ASSUME Dedup!DedupAssumption, Dedup!DedupInv, NEW q \in Dedup!Pairs, NEW choice, Dedup!Resolve(q, choice),
           NEW p \in Dedup!Pairs, v3[p].status = "dismissed", v2'[p[1]].st = "live", v2'[p[2]].st = "live"
    PROVE  v3'[p].status = "dismissed"
  <1>1. v2 \in [Copies -> Dedup!Copy] /\ v3 \in [Dedup!Pairs -> Dedup!PairRow] /\ p[1] \in Copies /\ p[2] \in Copies
    BY DedupFields, PairFields
  <1>2. CASE Dedup!Dismiss(q)
    BY <1>1, <1>2, RowsStand DEF Dedup!Dismiss
  <1>3. CASE Dedup!Keep(q, choice)
    <2>1. PICK gone : /\ v2' = Dedup!Remove(gone)
                      /\ v3' = Dedup!ResolveDuplicate(Dedup!DropDuplicates(v3, gone), q, "deleted")
      BY <1>3 DEF Dedup!Keep
    <2>2. p[1] \notin gone /\ p[2] \notin gone
      BY <1>1, <2>1, Removed
    <2> DEFINE rows == Dedup!DropDuplicates(v3, gone)
    <2>3. rows \in [Dedup!Pairs -> Dedup!PairRow] /\ rows[p] = v3[p]
      BY <1>1, <2>2, RowsTyped, RowsStand
    <2> HIDE DEF rows
    <2>4. Dedup!ResolveDuplicate(rows, q, "deleted")[p] = rows[p]
      BY <2>3, RowsStand
    <2> QED BY <2>1, <2>3, <2>4 DEF rows
  <1>4. CASE Dedup!Merge(q)
    <2> DEFINE gone == {q[2]}
               rows == Dedup!DropDuplicates(v3, gone)
               left == Dedup!Remove({q[2]})
    <2>1. \/ v3' = v3
          \/ /\ v2' = [left EXCEPT ![q[1]] = Dedup!Merged(q[1], q[2])]
             /\ v3' = Dedup!ResolveDuplicate(rows, q, "merged")
      BY <1>4 DEF Dedup!Merge
    <2>2. CASE v3' = v3
      BY <2>2
    <2>3. CASE /\ v2' = [left EXCEPT ![q[1]] = Dedup!Merged(q[1], q[2])]
               /\ v3' = Dedup!ResolveDuplicate(rows, q, "merged")
      <3>1. left \in [Copies -> Dedup!Copy] /\ left[q[2]].st = "trash" /\ q[2] \in Copies /\ q[1] # q[2]
        BY <1>1, PairFields, Removed, PairDiffers
      <3> HIDE DEF left
      <3>2. v2'[q[2]].st = "trash"
        BY <2>3, <3>1
      <3>3. p[1] \notin gone /\ p[2] \notin gone
        BY <3>2
      <3> HIDE DEF gone
      <3>4. rows \in [Dedup!Pairs -> Dedup!PairRow] /\ rows[p] = v3[p]
        BY <1>1, <3>3, RowsTyped, RowsStand
      <3> HIDE DEF rows
      <3>5. Dedup!ResolveDuplicate(rows, q, "merged")[p] = rows[p]
        BY <3>4, RowsStand
      <3> QED BY <2>3, <3>4, <3>5
    <2> QED BY <2>1, <2>2, <2>3
  <1>5. CASE Dedup!TooLate(q, choice)
    BY <1>5 DEF Dedup!TooLate
  <1> QED BY <1>2, <1>3, <1>4, <1>5 DEF Dedup!Resolve

LEMMA ApplyStands ==
    ASSUME Dedup!DedupInv, NEW s \in Scanners, Dedup!Apply(s),
           NEW p \in Dedup!Pairs, v3[p].status = "dismissed", v2'[p[1]].st = "live", v2'[p[2]].st = "live"
    PROVE  v3'[p].status = "dismissed"
  <1>1. v2 \in [Copies -> Dedup!Copy] /\ v3 \in [Dedup!Pairs -> Dedup!PairRow] /\ p[1] \in Copies /\ p[2] \in Copies
    BY DedupFields, PairFields
  <1>2. PICK gone, found : /\ v2' = Dedup!Remove(gone)
                           /\ v3' = Dedup!SaveDuplicate(Dedup!DropDuplicates(v3, gone), found)
    BY DEF Dedup!Apply
  <1>3. p[1] \notin gone /\ p[2] \notin gone
    BY <1>1, <1>2, Removed
  <1> DEFINE rows == Dedup!DropDuplicates(v3, gone)
  <1>4. rows \in [Dedup!Pairs -> Dedup!PairRow] /\ rows[p] = v3[p]
    BY <1>1, <1>3, RowsTyped, RowsStand
  <1>5. v3' = Dedup!SaveDuplicate(rows, found)
    BY <1>2
  <1> HIDE DEF rows
  <1>6. Dedup!SaveDuplicate(rows, found)[p] = rows[p]
    BY <1>4, RowsStand
  <1> QED BY <1>4, <1>5, <1>6

LEMMA DedupStands ==
    ASSUME Dedup!DedupAssumption, Dedup!DedupInv, Dedup!DedupNext
    PROVE  Dedup!DismissedStood
  <1> SUFFICES ASSUME NEW p \in Dedup!Pairs, v3[p].status = "dismissed", v2'[p[1]].st = "live", v2'[p[2]].st = "live"
               PROVE  v3'[p].status = "dismissed"
    BY DEF Dedup!DismissedStood
  <1>1. CASE v3' = v3
    BY <1>1
  <1>2. ASSUME NEW q \in Dedup!Pairs, NEW choice, Dedup!resolveDuplicate(q, choice) PROVE v3'[p].status = "dismissed"
    BY <1>2, ResolveStands DEF Dedup!resolveDuplicate
  <1>3. ASSUME NEW q \in Dedup!Pairs, Dedup!dedupResolve(q) PROVE v3'[p].status = "dismissed"
    BY <1>3, ResolveStands DEF Dedup!dedupResolve
  <1>4. ASSUME NEW s \in Scanners, Dedup!Apply(s) PROVE v3'[p].status = "dismissed"
    BY <1>4, ApplyStands
  <1>5. \/ v3' = v3
        \/ \E q \in Dedup!Pairs, choice \in Dedup!Choices : Dedup!resolveDuplicate(q, choice)
        \/ \E q \in Dedup!Pairs : Dedup!dedupResolve(q)
        \/ \E s \in Scanners : Dedup!Apply(s)
    BY DedupSteps DEF Dedup!Scan, Dedup!HandleScan, Dedup!dedupScan, Dedup!Find, Dedup!ListPending, Dedup!DeleteCopy,
                      Dedup!RestoreCopy, Dedup!EditCopy, Dedup!UserCall, Dedup!SetPolicy
  <1> QED BY <1>1, <1>2, <1>3, <1>4, <1>5

\* A scan that ends is one that applies what it has found.
LEMMA ScanEnds ==
    ASSUME Dedup!DedupInv, Dedup!DedupNext, NEW s \in Scanners, v6[s].busy, ~v6'[s].busy
    PROVE  Dedup!Apply(s)
  <1>1. v6 \in [Scanners -> Dedup!Scanning]
    BY DedupFields DEF FewScans
  <1>2. v6' # v6 /\ v6' # Dedup!Touch(v6)
    BY <1>1, Touched
  <1>3. ASSUME NEW q \in Scanners, NEW full \in BOOLEAN, Dedup!Find(q, full) PROVE FALSE
    <2>1. ~v6[q].busy /\ (v6' = v6 \/ \E x : v6' = [v6 EXCEPT ![q] = x])
      BY <1>3 DEF Dedup!Find
    <2> QED BY <1>1, <2>1
  <1>4. ASSUME NEW q \in Scanners, Dedup!Apply(q), q # s PROVE FALSE
    <2>1. PICK base : (base = v6 \/ base = Dedup!Touch(v6)) /\ v6' = [base EXCEPT ![q] = Dedup!NoScan]
      BY <1>4 DEF Dedup!Apply
    <2>2. base \in [Scanners -> Dedup!Scanning] /\ base[s].busy
      BY <1>1, <2>1, Touched
    <2>3. v6'[s] = base[s]
      BY <1>4, <2>1, <2>2
    <2> QED BY <2>2, <2>3
  <1>5. \A p \in Dedup!Pairs : \A choice : Dedup!Resolve(p, choice) => v6' = v6 \/ v6' = Dedup!Touch(v6)
    BY DEF Dedup!Resolve, Dedup!Dismiss, Dedup!Keep, Dedup!Merge, Dedup!TooLate
  <1>6. \/ v6' = v6 \/ v6' = Dedup!Touch(v6)
        \/ \E q \in Scanners, full \in BOOLEAN : Dedup!Find(q, full)
        \/ \E q \in Scanners : Dedup!Apply(q)
    <2>1. ASSUME \E p \in Dedup!Pairs, choice \in Dedup!Choices : Dedup!resolveDuplicate(p, choice)
          PROVE  v6' = v6 \/ v6' = Dedup!Touch(v6)
      BY <1>5, <2>1 DEF Dedup!resolveDuplicate
    <2>2. ASSUME \E p \in Dedup!Pairs : Dedup!dedupResolve(p)
          PROVE  v6' = v6 \/ v6' = Dedup!Touch(v6)
      BY <1>5, <2>2 DEF Dedup!dedupResolve
    <2>3. ASSUME \/ Dedup!Scan \/ Dedup!ListPending \/ \E p \in Dedup!Policies : Dedup!SetPolicy(p)
                 \/ \E c \in Copies : \/ Dedup!DeleteCopy(c) \/ Dedup!RestoreCopy(c)
                                      \/ \E l \in Looks : Dedup!EditCopy(c, l)
          PROVE  v6' = v6 \/ v6' = Dedup!Touch(v6)
      BY <2>3 DEF Dedup!Scan, Dedup!ListPending, Dedup!SetPolicy, Dedup!DeleteCopy, Dedup!RestoreCopy, Dedup!EditCopy
    <2>4. ASSUME \/ \E q \in Scanners : Dedup!HandleScan(q)
                 \/ \E q \in Scanners, full \in BOOLEAN : Dedup!dedupScan(q, full)
          PROVE  \E q \in Scanners, full \in BOOLEAN : Dedup!Find(q, full)
      BY <2>4 DEF Dedup!HandleScan, Dedup!dedupScan
    <2> QED BY <2>1, <2>2, <2>3, <2>4, DedupSteps
  <1> QED BY <1>2, <1>3, <1>4, <1>6

\* Of the copies no removing pair leads out of, the oldest live one stays: whatever goes has a
\* live copy before it.
LEMMA OldestStays ==
    ASSUME Dedup!DedupAssumption, Dedup!DedupInv, NEW s \in Scanners, Dedup!Apply(s), ~v6[s].touched,
           NEW near \in SUBSET Copies, NEW c \in near, Dedup!Live(c),
           \A x \in v6[s].found : Dedup!Auto(x[2], v6[s].under) => (x[1][1] \in near <=> x[1][2] \in near)
    PROVE  \E d \in near : v2'[d].st = "live"
  <1> DEFINE auto == {x \in v6[s].found : Dedup!Auto(x[2], v6[s].under)}
             gone == {e \in {Dedup!Drop(x) : x \in auto} : Dedup!Live(e)}
             there == {e \in near : Dedup!Live(e)}
  <1>1. v2' = Dedup!Remove(gone) /\ v6[s].busy
    BY DEF Dedup!Apply
  <1>2. Copies \subseteq Nat /\ v2 \in [Copies -> Dedup!Copy] /\ v6[s].found \in SUBSET (Dedup!Pairs \X Dedup!Reasons)
    BY DedupFields DEF Dedup!DedupAssumption, FewScans, Dedup!Scanning
  <1>3. there \in SUBSET Nat /\ there # {}
    BY <1>2
  <1>4. PICK d \in there : \A e \in there : d <= e
    BY <1>3, LeastCopy
  <1>5. d \notin gone
    <2> SUFFICES ASSUME d \in gone PROVE FALSE
      OBVIOUS
    <2>1. PICK x \in v6[s].found : Dedup!Auto(x[2], v6[s].under) /\ d = x[1][2]
      BY DEF Dedup!Drop
    <2>2. x[1] \in Dedup!Pairs
      BY <1>2, <2>1, FoundFields
    <2>3. x[1][1] \in Copies /\ x[1][2] \in Copies /\ x[1][1] < x[1][2]
      BY <2>2, PairFields
    <2>4. x[1][1] \in near /\ Dedup!Live(x[1][1])
      BY <1>1, <1>4, <2>1 DEF Dedup!DedupInv, Dedup!ScanInv
    <2>5. d <= x[1][1]
      BY <1>4, <2>4
    <2> DEFINE a == x[1][1]
               b == x[1][2]
    <2>6. a \in Nat /\ b \in Nat /\ a < b /\ b <= a
      BY <1>2, <2>1, <2>3, <2>5
    <2> HIDE DEF a, b
    <2> QED BY <2>6
  <1> HIDE DEF gone
  <1>6. v2'[d] = v2[d]
    BY <1>1, <1>2, <1>4, <1>5, Removed
  <1> QED BY <1>4, <1>6 DEF Dedup!Live

LEMMA DedupLeaves ==
    ASSUME Dedup!DedupAssumption, Dedup!DedupInv, Dedup!DedupNext
    PROVE  Dedup!OneCopyWasLeft
  <1>1. ASSUME NEW s \in Scanners, v6[s].busy, ~v6'[s].busy, ~v6[s].touched,
               NEW near \in SUBSET Copies, NEW c \in near, Dedup!Live(c),
               \A x \in {x \in v6[s].found : Dedup!Auto(x[2], v6[s].under)} : x[1][1] \in near <=> x[1][2] \in near
        PROVE  \E d \in near : v2'[d].st = "live"
    <2>1. Dedup!Apply(s)
      BY <1>1, ScanEnds
    <2>2. \A x \in v6[s].found : Dedup!Auto(x[2], v6[s].under) => (x[1][1] \in near <=> x[1][2] \in near)
      BY <1>1
    <2> QED BY <1>1, <2>1, <2>2, OldestStays
  <1> QED BY <1>1 DEF Dedup!OneCopyWasLeft

\* For any copies, policies, scans and users: a dismissed pair stays dismissed while both copies
\* stay, and an undisturbed scan leaves one live copy of whatever it removes.
THEOREM DuplicatesSettle == Spec => DuplicatesSettled
  <1> DEFINE Inv == part = "dedup" => Dedup!DedupInv
             Act == part = "dedup" => Dedup!DismissedStood /\ Dedup!OneCopyWasLeft
  <1>0. Dedup!DedupAssumption
    BY ContentAssumption
  <1>1. Init => Inv
    BY <1>0, DedupStarts DEF Init
  <1>2. Inv /\ [Next]_vars => Inv' /\ [Act]_vars
    <2>1. ASSUME Inv, [Next]_vars, part = "dedup" PROVE Dedup!DedupInv' /\ [Act]_vars
      <3>1. Dedup!DedupNext \/ UNCHANGED vars
        BY <2>1 DEF Next
      <3>2. [Dedup!DedupNext]_(Dedup!dedupVars)
        BY <3>1 DEF vars, Dedup!dedupVars
      <3>3. Dedup!DedupInv'
        BY <1>0, <2>1, <3>2, DedupKeeps
      <3>4. ASSUME Dedup!DedupNext PROVE Act
        <4>1. Dedup!DismissedStood
          BY <1>0, <2>1, <3>4, DedupStands
        <4>2. Dedup!OneCopyWasLeft
          BY <1>0, <2>1, <3>4, DedupLeaves
        <4> QED BY <4>1, <4>2
      <3> QED BY <3>1, <3>3, <3>4
    <2>2. ASSUME [Next]_vars PROVE part' = part
      BY <2>2 DEF Next, vars
    <2> QED BY <2>1, <2>2
  <1> QED BY <1>1, <1>2, PTL DEF Spec, DuplicatesSettled

-----------------------------------------------------------------------------
(* Todos. *)

\* The sets of FiniteSets and those of Todos are the same.
LEMMA TodosSize ==
    ASSUME NEW S
    PROVE  TodoRows!Cardinality(S) = Cardinality(S) /\ TodoRows!IsFiniteSet(S) = IsFiniteSet(S)
  BY DEF TodoRows!Cardinality, Cardinality, TodoRows!IsFiniteSet, IsFiniteSet

\* No id is the mark of a field left out, or of nothing.
LEMMA IdsApart ==
    ASSUME TodoRows!TodosAssumption
    PROVE  TodoRows!Keep \notin Ids \cup {TodoRows!None} /\ TodoRows!None \notin Ids
  <1> DEFINE n == TodoRows!Cardinality(Ids)
  <1>1. IsFiniteSet(Ids) /\ Ids = 1..n /\ n = Cardinality(Ids)
    BY TodosSize DEF TodoRows!TodosAssumption
  <1>2. TodoRows!Keep = n + 1 /\ TodoRows!None = 0
    BY DEF TodoRows!Keep, TodoRows!None
  <1> HIDE DEF n
  <1>3. n \in Nat
    BY <1>1, FS_CardinalityType
  <1>4. \A i \in Ids : i # n + 1 /\ i # 0
    BY <1>1, <1>3
  <1> QED BY <1>2, <1>3, <1>4

\* Rows with some written over.
LEMMA OverAt ==
    ASSUME NEW w, NEW r, DOMAIN w \subseteq Ids, DOMAIN r = Ids
    PROVE  /\ DOMAIN TodoRows!Over(w, r) = Ids
           /\ \A i \in Ids : TodoRows!Over(w, r)[i] = IF i \in DOMAIN w THEN w[i] ELSE r[i]
  BY DEF TodoRows!Over

\* The table with a write over it is a table.
LEMMA OverTyped ==
    ASSUME NEW w, TodoRows!IsWrite(w), NEW r \in [Ids -> TodoRows!Todo]
    PROVE  TodoRows!Over(w, r) \in [Ids -> TodoRows!Todo]
  <1>1. DOMAIN w \cup DOMAIN r = Ids
    BY DEF TodoRows!IsWrite
  <1>2. \A i \in DOMAIN w : w[i] \in TodoRows!Todo
    BY DEF TodoRows!IsWrite
  <1> QED BY <1>1, <1>2 DEF TodoRows!Over

\* Nothing written, nothing changed.
LEMMA OverNothing ==
    ASSUME NEW w, DOMAIN w = {}, NEW r \in [Ids -> TodoRows!Todo]
    PROVE  TodoRows!Over(w, r) = r
  BY DEF TodoRows!Over

\* A write over a write is a write.
LEMMA OverWrite ==
    ASSUME NEW w, TodoRows!IsWrite(w), NEW x, TodoRows!IsWrite(x)
    PROVE  TodoRows!IsWrite(TodoRows!Over(w, x))
  <1>1. \A i \in DOMAIN w : w[i] \in TodoRows!Todo
    BY DEF TodoRows!IsWrite
  <1>2. \A i \in DOMAIN x : x[i] \in TodoRows!Todo
    BY DEF TodoRows!IsWrite
  <1>3. DOMAIN w \cup DOMAIN x \subseteq Ids
    BY DEF TodoRows!IsWrite
  <1>4. TodoRows!Over(w, x) \in [DOMAIN w \cup DOMAIN x -> TodoRows!Todo]
    BY <1>1, <1>2 DEF TodoRows!Over
  <1> QED BY <1>3, <1>4 DEF TodoRows!IsWrite

LEMMA RowWrite ==
    ASSUME NEW i \in Ids, NEW t \in TodoRows!Todo
    PROVE  /\ TodoRows!IsWrite(TodoRows!Row(i, t)) /\ DOMAIN TodoRows!Row(i, t) = {i}
           /\ TodoRows!Row(i, t)[i] = t
  BY DEF TodoRows!Row, TodoRows!IsWrite

\* The fields of a todo.
LEMMA TodoFields ==
    ASSUME NEW t \in TodoRows!Todo
    PROVE  /\ t.st \in {"none", "live", "trash", "gone"} /\ t.parent \in Ids \cup {TodoRows!None}
           /\ t.list \in TodoLists \cup {TodoRows!NoList} /\ t.left \in 0..Count
           /\ t.root \in Ids \cup {TodoRows!None} /\ t.at \in 0..MaxTodoCalls
  BY DEF TodoRows!Todo

\* The fields of a transaction.
LEMMA TxFields ==
    ASSUME NEW c, TodoRows!IsTx(c)
    PROVE  /\ c.pc \in {"idle", "get", "place", "write", "commit"} /\ c.op \in TodoRows!Ops \cup {"none"}
           /\ c.id \in Ids \cup {TodoRows!None} /\ c.list \in TodoLists \cup {TodoRows!NoList}
           /\ c.parent \in Ids \cup {TodoRows!None, TodoRows!Keep} /\ c.locks \subseteq Ids
           /\ c.advisory \subseteq TodoLists \cup {TodoRows!NoList} /\ c.at \in 0..MaxTodoCalls
           /\ TodoRows!IsWrite(c.put)
  BY DEF TodoRows!IsTx

\* What the invariant says of one transaction.
LEMMA TodosParts ==
    ASSUME TodoRows!TodosInv, NEW s \in Pair
    PROVE  /\ v1 \in [Ids -> TodoRows!Todo] /\ v2 \subseteq TodoLists /\ v4 \in 0..MaxTodoCalls
           /\ TodoRows!IsTx(v3[s]) /\ TodoRows!Fitting(v1)
           /\ TodoRows!Fitting(TodoRows!Over(v3[s].put, v1))
           /\ TodoRows!WrittenInv(v3[s]) /\ TodoRows!StageInv(v3[s])
           /\ \A o \in Pair \ {s} : TodoRows!Apart(v3[s], v3[o]) /\ TodoRows!Apart(v3[o], v3[s])
  BY DEF TodoRows!TodosInv, TodoRows!TodosTypeOK, TodoRows!Sees, TodoRows!Others

\* A transaction goes on: it keeps what is said of it, and apart from the others.
LEMMA TxGoesOn ==
    ASSUME TodoRows!TodosInv, NEW s \in Pair, NEW c, TodoRows!IsTx(c), v3' = [v3 EXCEPT ![s] = c],
           v1' = v1, v2' = v2, v4' \in 0..MaxTodoCalls,
           TodoRows!Fitting(TodoRows!Over(c.put, v1)), TodoRows!WrittenInv(c), TodoRows!StageInv(c),
           \A o \in Pair \ {s} : TodoRows!Apart(c, v3[o]) /\ TodoRows!Apart(v3[o], c)
    PROVE  TodoRows!TodosInv'
  <1>1. v3 = [o \in Pair |-> v3[o]] /\ \A o \in Pair : TodoRows!IsTx(v3[o])
    BY DEF TodoRows!TodosInv, TodoRows!TodosTypeOK
  <1>2. \A o \in Pair : v3'[o] = IF o = s THEN c ELSE v3[o]
    BY <1>1
  <1>3. v3' = [o \in Pair |-> v3'[o]]
    BY <1>1
  <1>4. TodoRows!TodosTypeOK'
    BY <1>1, <1>2, <1>3 DEF TodoRows!TodosInv, TodoRows!TodosTypeOK, TodoRows!IsTx, TodoRows!IsWrite,
       TodoRows!Todo, TodoRows!Keep
  <1>5. TodoRows!Fitting(v1')
    BY DEF TodoRows!TodosInv
  <1>6. ASSUME NEW o \in Pair
        PROVE  /\ TodoRows!Fitting(TodoRows!Over(v3'[o].put, v1'))
               /\ TodoRows!WrittenInv(v3[o])' /\ TodoRows!StageInv(v3[o])'
    <2>1. CASE o = s
      <3>1. v3'[o] = c
        BY <1>2, <2>1
      <3>2. TodoRows!WrittenInv(c)' /\ TodoRows!StageInv(c)'
        BY DEF TodoRows!WrittenInv, TodoRows!StageInv, TodoRows!Held, TodoRows!Placed, TodoRows!Keep, TodoRows!Live
      <3> QED BY <3>1, <3>2 DEF TodoRows!WrittenInv, TodoRows!StageInv, TodoRows!Held, TodoRows!Placed
    <2>2. CASE o # s
      <3>1. v3'[o] = v3[o]
        BY <1>2, <2>2
      <3>2. TodoRows!Fitting(TodoRows!Over(v3[o].put, v1)) /\ TodoRows!WrittenInv(v3[o]) /\ TodoRows!StageInv(v3[o])
        BY TodosParts
      <3> QED BY <3>1, <3>2 DEF TodoRows!WrittenInv, TodoRows!StageInv, TodoRows!Held, TodoRows!Placed
    <2> QED BY <2>1, <2>2
  <1>7. ASSUME NEW o \in Pair, NEW q \in Pair \ {o}
        PROVE  TodoRows!Apart(v3'[o], v3'[q])
    <2>1. TodoRows!Apart(v3[o], v3[q])
      BY <1>7, TodosParts
    <2> QED BY <1>2, <1>7, <2>1
  <1> QED BY <1>4, <1>5, <1>6, <1>7 DEF TodoRows!TodosInv, TodoRows!Sees, TodoRows!Others

\* What a cascade reaches is closed under children, and everything in it that was not given has
\* its parent there.
LEMMA UnderClosed ==
    ASSUME NEW is \in SUBSET Ids
    PROVE  /\ is \subseteq TodoRows!Under(is) /\ TodoRows!Under(is) \subseteq Ids
           /\ \A j \in Ids : v1[j].st \in {"live", "trash"} /\ v1[j].parent \in TodoRows!Under(is)
                              => j \in TodoRows!Under(is)
           /\ \A j \in TodoRows!Under(is) \ is :
                 v1[j].st \in {"live", "trash"} /\ v1[j].parent \in TodoRows!Under(is)
  <1> DEFINE U == TodoRows!Under(is)
             Closed(all) == /\ is \subseteq all
                            /\ \A j \in Ids : v1[j].st \in {"live", "trash"} /\ v1[j].parent \in all => j \in all
  <1>1. U = {i \in Ids : \A all \in SUBSET Ids : Closed(all) => i \in all}
    BY DEF TodoRows!Under
  <1> HIDE DEF U
  <1>2. is \subseteq U /\ U \subseteq Ids
    BY <1>1
  <1>3. ASSUME NEW j \in Ids, v1[j].st \in {"live", "trash"}, v1[j].parent \in U
        PROVE  j \in U
    BY <1>1, <1>3
  <1>4. ASSUME NEW j \in U \ is
        PROVE  v1[j].st \in {"live", "trash"} /\ v1[j].parent \in U
    <2> SUFFICES ASSUME ~(v1[j].st \in {"live", "trash"} /\ v1[j].parent \in U) PROVE FALSE
      OBVIOUS
    <2> DEFINE rest == U \ {j}
    <2>1. Closed(rest)
      BY <1>2, <1>3
    <2> HIDE DEF Closed
    <2> QED BY <1>1, <1>2, <2>1
  <1> QED BY <1>2, <1>3, <1>4 DEF U

\* Nothing written is a write.
LEMMA EmptyWrite == DOMAIN <<>> = {} /\ TodoRows!IsWrite(<<>>)
  BY DEF TodoRows!IsWrite

\* No transaction.
LEMMA RestingTx ==
    ASSUME TodoRows!TodosAssumption
    PROVE  /\ TodoRows!IsTx(TodoRows!NoTx) /\ TodoRows!NoTx.pc = "idle" /\ TodoRows!NoTx.op = "none"
           /\ TodoRows!NoTx.id = TodoRows!None /\ TodoRows!NoTx.locks = {} /\ TodoRows!NoTx.advisory = {}
           /\ DOMAIN TodoRows!NoTx.put = {}
  <1>1. 0 \in 0..MaxTodoCalls
    BY DEF TodoRows!TodosAssumption
  <1>2. TodoRows!NoTx.put = <<>>
    BY DEF TodoRows!NoTx, TodoRows!Begun
  <1>3. DOMAIN TodoRows!NoTx.put = {} /\ TodoRows!IsWrite(TodoRows!NoTx.put)
    BY <1>2, EmptyWrite
  <1>4. TodoRows!IsTx(TodoRows!NoTx)
    BY <1>1, <1>3 DEF TodoRows!IsTx, TodoRows!NoTx, TodoRows!Begun
  <1> QED BY <1>3, <1>4 DEF TodoRows!NoTx, TodoRows!Begun

\* A step that writes nothing.
LEMMA Unwritten ==
    ASSUME TodoRows!TodosInv, NEW s \in Pair, NEW c, TodoRows!IsTx(c), v3' = [v3 EXCEPT ![s] = c],
           v1' = v1, v2' = v2, v4' \in 0..MaxTodoCalls,
           DOMAIN c.put = {}, c.advisory = {}, TodoRows!StageInv(c),
           \A o \in Pair \ {s} : TodoRows!Apart(c, v3[o]) /\ TodoRows!Apart(v3[o], c)
    PROVE  TodoRows!TodosInv'
  <1>1. v1 \in [Ids -> TodoRows!Todo] /\ TodoRows!Fitting(v1)
    BY TodosParts
  <1>2. TodoRows!Fitting(TodoRows!Over(c.put, v1))
    BY <1>1, OverNothing
  <1>3. TodoRows!WrittenInv(c)
    BY DEF TodoRows!WrittenInv
  <1> QED BY <1>2, <1>3, TxGoesOn

\* A call begins.
LEMMA CallBegins ==
    ASSUME TodoRows!TodosAssumption, TodoRows!TodosInv, NEW s \in Pair, NEW op \in TodoRows!Ops, NEW i \in Ids,
           NEW l \in TodoLists \cup {TodoRows!NoList}, NEW p \in Ids \cup {TodoRows!None, TodoRows!Keep},
           NEW pc \in {"get", "place"}, TodoRows!Begin(s, op, i, l, p, pc),
           \/ pc = "get" /\ op \in {"move", "complete", "reopen", "delete"} /\ v1[i].st = "live"
           \/ pc = "place" /\ op = "create" /\ TodoRows!NewID(s, i) /\ p # TodoRows!Keep
    PROVE  TodoRows!TodosInv'
  <1> DEFINE c == TodoRows!Begun(pc, op, i, l, p, v4 + 1)
  <1>1. v4 < MaxTodoCalls /\ v4' = v4 + 1 /\ v3' = [v3 EXCEPT ![s] = c] /\ v1' = v1 /\ v2' = v2
    BY DEF TodoRows!Begin
  <1>2. v4 + 1 \in 0..MaxTodoCalls
    BY <1>1, TodosParts DEF TodoRows!TodosAssumption
  <1>3. /\ TodoRows!IsTx(c) /\ c.pc = pc /\ c.op = op /\ c.id = i /\ c.parent = p
        /\ c.locks = {} /\ c.advisory = {} /\ DOMAIN c.put = {}
    <2>1. c.put = <<>>
      BY DEF TodoRows!Begun
    <2>2. DOMAIN c.put = {} /\ TodoRows!IsWrite(c.put)
      BY <2>1, EmptyWrite
    <2>3. TodoRows!IsTx(c)
      BY <1>2, <2>2 DEF TodoRows!IsTx, TodoRows!Begun
    <2> QED BY <2>2, <2>3 DEF TodoRows!Begun
  <1> HIDE DEF c
  <1>4. TodoRows!StageInv(c)
    BY <1>3 DEF TodoRows!StageInv, TodoRows!NewID
  <1>5. ASSUME NEW o \in Pair \ {s}
        PROVE  TodoRows!Apart(c, v3[o]) /\ TodoRows!Apart(v3[o], c)
    <2>1. op = "create" => v3[o].id # i /\ i \notin DOMAIN v3[o].put /\ v1[i].st = "none"
      BY DEF TodoRows!NewID, TodoRows!Others
    <2>2. v3[o].op = "create" => v1[v3[o].id].st = "none"
      BY TodosParts DEF TodoRows!StageInv
    <2> QED BY <1>3, <2>1, <2>2 DEF TodoRows!Apart
  <1> QED BY <1>1, <1>2, <1>3, <1>4, <1>5, Unwritten

LEMMA RestoreBegins ==
    ASSUME TodoRows!TodosAssumption, TodoRows!TodosInv, NEW s \in Pair, TodoRows!Restore(s)
    PROVE  TodoRows!TodosInv'
  <1>1. PICK i \in Ids :
          /\ v4 < MaxTodoCalls /\ v1[i].st = "trash" /\ v4' = v4 + 1
          /\ v3' = [v3 EXCEPT ![s] = TodoRows!Begun("write", "restore", i, TodoRows!NoList, TodoRows!None, v1[i].at)]
          /\ v1' = v1 /\ v2' = v2
    BY DEF TodoRows!Restore
  <1> DEFINE c == TodoRows!Begun("write", "restore", i, TodoRows!NoList, TodoRows!None, v1[i].at)
  <1>2. v4 + 1 \in 0..MaxTodoCalls /\ v1[i].at \in 0..MaxTodoCalls
    BY <1>1, TodosParts, TodoFields DEF TodoRows!TodosAssumption
  <1>3. /\ TodoRows!IsTx(c) /\ c.pc = "write" /\ c.op = "restore" /\ c.id = i
        /\ c.locks = {} /\ c.advisory = {} /\ DOMAIN c.put = {}
    <2>1. c.put = <<>>
      BY DEF TodoRows!Begun
    <2>2. DOMAIN c.put = {} /\ TodoRows!IsWrite(c.put)
      BY <2>1, EmptyWrite
    <2>3. TodoRows!IsTx(c)
      BY <1>2, <2>2 DEF TodoRows!IsTx, TodoRows!Begun, TodoRows!Ops
    <2> QED BY <2>2, <2>3 DEF TodoRows!Begun
  <1>4. v3' = [v3 EXCEPT ![s] = c]
    BY <1>1
  <1> HIDE DEF c
  <1>5. TodoRows!StageInv(c)
    BY <1>3 DEF TodoRows!StageInv
  <1>6. ASSUME NEW o \in Pair \ {s}
        PROVE  TodoRows!Apart(c, v3[o]) /\ TodoRows!Apart(v3[o], c)
    <2>1. v3[o].op = "create" => v1[v3[o].id].st = "none"
      BY TodosParts DEF TodoRows!StageInv
    <2> QED BY <1>1, <1>3, <2>1 DEF TodoRows!Apart
  <1> QED BY <1>1, <1>2, <1>3, <1>4, <1>5, <1>6, Unwritten

\* An error rolls everything back.
LEMMA RollbackKeeps ==
    ASSUME TodoRows!TodosAssumption, TodoRows!TodosInv, NEW s \in Pair, TodoRows!Rollback(s)
    PROVE  TodoRows!TodosInv'
  <1>1. v3' = [v3 EXCEPT ![s] = TodoRows!NoTx] /\ v1' = v1 /\ v2' = v2 /\ v4' = v4
    BY DEF TodoRows!Rollback
  <1>2. v4' \in 0..MaxTodoCalls
    BY <1>1, TodosParts
  <1>3. TodoRows!StageInv(TodoRows!NoTx)
    BY RestingTx DEF TodoRows!StageInv
  <1>4. ASSUME NEW o \in Pair \ {s}
        PROVE  TodoRows!Apart(TodoRows!NoTx, v3[o]) /\ TodoRows!Apart(v3[o], TodoRows!NoTx)
    <2>1. v3[o].op = "create" => v3[o].id # TodoRows!None
      BY TodosParts, IdsApart DEF TodoRows!StageInv
    <2> QED BY <2>1, RestingTx DEF TodoRows!Apart
  <1> QED BY <1>1, <1>2, <1>3, <1>4, RestingTx, Unwritten

\* The todo is locked.
LEMMA GetKeeps ==
    ASSUME TodoRows!TodosInv, NEW s \in Pair, TodoRows!Get(s)
    PROVE  TodoRows!TodosInv'
  <1> DEFINE x == v3[s]
             pc == IF x.op = "move" THEN "place" ELSE "write"
             c == [x EXCEPT !.locks = @ \cup {x.id}, !.pc = pc]
  <1>1. /\ x.pc = "get" /\ \A o \in Pair \ {s} : v3[o].locks \cap {x.id} = {}
        /\ v1[x.id].st = "live" /\ v3' = [v3 EXCEPT ![s] = c] /\ v1' = v1 /\ v2' = v2 /\ v4' = v4
    BY DEF TodoRows!Get, TodoRows!CanLock, TodoRows!Others
  <1>2. TodoRows!IsTx(x) /\ TodoRows!StageInv(x) /\ v1 \in [Ids -> TodoRows!Todo] /\ v4' \in 0..MaxTodoCalls
    BY <1>1, TodosParts
  <1>3. x.id \in Ids /\ x.op \in {"move", "complete", "reopen", "delete"} /\ DOMAIN x.put = {} /\ x.advisory = {}
    BY <1>1, <1>2 DEF TodoRows!StageInv
  <1>4. /\ c.pc = pc /\ c.locks = x.locks \cup {x.id} /\ c.op = x.op /\ c.id = x.id /\ c.put = x.put
        /\ c.advisory = x.advisory /\ TodoRows!IsTx(c)
    BY <1>2, <1>3 DEF TodoRows!IsTx
  <1> HIDE DEF c
  <1>5. TodoRows!Held(c)
    BY <1>1, <1>2, <1>3, <1>4 DEF TodoRows!Held, TodoRows!Live
  <1>6. TodoRows!StageInv(c)
    BY <1>3, <1>4, <1>5 DEF TodoRows!StageInv
  <1>7. ASSUME NEW o \in Pair \ {s}
        PROVE  TodoRows!Apart(c, v3[o]) /\ TodoRows!Apart(v3[o], c)
    <2>1. TodoRows!Apart(x, v3[o]) /\ TodoRows!Apart(v3[o], x)
      BY TodosParts
    <2> QED BY <1>1, <1>4, <2>1 DEF TodoRows!Apart
  <1> HIDE DEF x
  <1> QED BY <1>1, <1>2, <1>3, <1>4, <1>6, <1>7, Unwritten

\* The place is decided.
LEMMA PlaceKeeps ==
    ASSUME TodoRows!TodosAssumption, TodoRows!TodosInv, NEW s \in Pair,
           TodoRows!PlaceKept(s) \/ TodoRows!PlaceTop(s) \/ TodoRows!PlaceUnder(s)
    PROVE  TodoRows!TodosInv'
  <1> DEFINE x == v3[s]
  <1>0. x.pc = "place" /\ v1' = v1 /\ v2' = v2 /\ v4' = v4
    BY DEF TodoRows!PlaceKept, TodoRows!PlaceTop, TodoRows!PlaceUnder
  <1>1. TodoRows!IsTx(x) /\ TodoRows!StageInv(x) /\ v1 \in [Ids -> TodoRows!Todo] /\ v4' \in 0..MaxTodoCalls
    BY <1>0, TodosParts
  <1>2. DOMAIN x.put = {} /\ x.advisory = {} /\ x.op \in {"create", "move"} /\ x.id \in Ids
    BY <1>0, <1>1, TxFields DEF TodoRows!StageInv, TodoRows!Held
  <1>3. ASSUME NEW c, TodoRows!IsTx(c), v3' = [v3 EXCEPT ![s] = c], c.pc = "write", c.op = x.op, c.id = x.id,
               c.put = x.put, c.advisory = x.advisory, x.locks \subseteq c.locks, c.parent # TodoRows!Keep,
               TodoRows!Placed(c) \/ (c.op = "move" /\ c.parent = v1[c.id].parent /\ c.list = v1[c.id].list),
               \A o \in Pair \ {s} : v3[o].locks \cap c.locks = {}
        PROVE  TodoRows!TodosInv'
    <2>1. TodoRows!StageInv(c)
      BY <1>0, <1>1, <1>2, <1>3 DEF TodoRows!StageInv, TodoRows!Held
    <2>2. ASSUME NEW o \in Pair \ {s}
          PROVE  TodoRows!Apart(c, v3[o]) /\ TodoRows!Apart(v3[o], c)
      <3>1. TodoRows!Apart(x, v3[o]) /\ TodoRows!Apart(v3[o], x)
        BY TodosParts
      <3> QED BY <1>3, <3>1 DEF TodoRows!Apart
    <2> HIDE DEF x
    <2> QED BY <1>0, <1>1, <1>2, <1>3, <2>1, <2>2, Unwritten
  <1>4. \A o \in Pair \ {s} : v3[o].locks \cap x.locks = {}
    BY TodosParts DEF TodoRows!Apart
  <1>5. v1[x.id] \in TodoRows!Todo /\ TodoRows!Keep \notin Ids \cup {TodoRows!None}
        /\ v1[x.id].parent \in Ids \cup {TodoRows!None} /\ v1[x.id].list \in TodoLists \cup {TodoRows!NoList}
        /\ x.list \in TodoLists \cup {TodoRows!NoList}
    BY <1>1, <1>2, IdsApart, TodoFields, TxFields
  <1>6. CASE TodoRows!PlaceKept(s)
    <2> DEFINE t == v1[x.id]
               l == IF x.list = TodoRows!NoList THEN t.list ELSE x.list
               c == [x EXCEPT !.pc = "write", !.list = l, !.parent = t.parent]
    <2>1. /\ x.parent = TodoRows!Keep /\ (t.parent # TodoRows!None => l = t.list)
          /\ v3' = [v3 EXCEPT ![s] = c]
      BY <1>6 DEF TodoRows!PlaceKept
    <2>2. l \in TodoLists \cup {TodoRows!NoList}
      BY <1>5
    <2> HIDE DEF l
    <2>3. /\ TodoRows!IsTx(c) /\ c.pc = "write" /\ c.op = x.op /\ c.id = x.id /\ c.put = x.put
          /\ c.advisory = x.advisory /\ c.locks = x.locks /\ c.parent = t.parent /\ c.list = l
      BY <1>1, <1>5, <2>2 DEF TodoRows!IsTx
    <2> HIDE DEF c
    <2>4. x.op = "move"
      BY <1>1, <1>2, <2>1 DEF TodoRows!StageInv
    <2>5. TodoRows!Placed(c) \/ (c.op = "move" /\ c.parent = v1[c.id].parent /\ c.list = v1[c.id].list)
      BY <2>1, <2>3, <2>4 DEF TodoRows!Placed
    <2>6. c.parent # TodoRows!Keep
      BY <1>5, <2>3
    <2> QED BY <1>3, <1>4, <2>1, <2>3, <2>5, <2>6
  <1>7. CASE TodoRows!PlaceTop(s)
    <2> DEFINE l == IF x.list = TodoRows!NoList THEN v1[x.id].list ELSE x.list
               c == [x EXCEPT !.pc = "write", !.list = l]
    <2>1. x.parent = TodoRows!None /\ v3' = [v3 EXCEPT ![s] = c]
      BY <1>7 DEF TodoRows!PlaceTop
    <2>2. l \in TodoLists \cup {TodoRows!NoList}
      BY <1>5
    <2> HIDE DEF l
    <2>3. /\ TodoRows!IsTx(c) /\ c.pc = "write" /\ c.op = x.op /\ c.id = x.id /\ c.put = x.put
          /\ c.advisory = x.advisory /\ c.locks = x.locks /\ c.parent = x.parent
      BY <1>1, <2>2 DEF TodoRows!IsTx
    <2> HIDE DEF c
    <2>4. TodoRows!Placed(c)
      BY <2>1, <2>3 DEF TodoRows!Placed
    <2>5. c.parent # TodoRows!Keep
      BY <1>5, <2>1, <2>3
    <2> QED BY <1>3, <1>4, <2>1, <2>3, <2>4, <2>5
  <1>8. CASE TodoRows!PlaceUnder(s)
    <2> DEFINE l == v1[x.parent].list
               c == [x EXCEPT !.pc = "write", !.locks = @ \cup {x.parent}, !.list = l]
    <2>1. /\ x.parent \in Ids /\ \A o \in Pair \ {s} : v3[o].locks \cap {x.parent} = {}
          /\ TodoRows!Live(v1, x.parent) /\ v1[x.parent].parent = TodoRows!None
          /\ v3' = [v3 EXCEPT ![s] = c]
      BY <1>8 DEF TodoRows!PlaceUnder, TodoRows!CanLock, TodoRows!Others
    <2>2. l \in TodoLists \cup {TodoRows!NoList}
      BY <1>1, <2>1, TodoFields
    <2>3. /\ TodoRows!IsTx(c) /\ c.pc = "write" /\ c.op = x.op /\ c.id = x.id /\ c.put = x.put
          /\ c.advisory = x.advisory /\ c.locks = x.locks \cup {x.parent} /\ c.parent = x.parent /\ c.list = l
      BY <1>1, <2>1, <2>2 DEF TodoRows!IsTx
    <2> HIDE DEF c
    <2>4. TodoRows!Placed(c)
      BY <2>1, <2>3 DEF TodoRows!Placed
    <2>5. c.parent # TodoRows!Keep
      BY <1>5, <2>1, <2>3
    <2>6. \A o \in Pair \ {s} : v3[o].locks \cap c.locks = {}
      BY <1>4, <2>1, <2>3
    <2> QED BY <1>3, <2>1, <2>3, <2>4, <2>5, <2>6
  <1> QED BY <1>6, <1>7, <1>8

\* A write over nothing.
LEMMA OverEmpty ==
    ASSUME NEW w, TodoRows!IsWrite(w), NEW x, DOMAIN x = {}
    PROVE  TodoRows!Over(w, x) = w
  BY DEF TodoRows!Over, TodoRows!IsWrite

\* The lists whose lock a write takes.
LEMMA AdvisedLists ==
    ASSUME NEW w, TodoRows!IsWrite(w)
    PROVE  /\ TodoRows!Advised(w) \subseteq TodoLists \cup {TodoRows!NoList}
           /\ \A i \in DOMAIN w : w[i].parent # TodoRows!None /\ w[i].st = "live" => w[i].list \in TodoRows!Advised(w)
  <1>1. \A i \in DOMAIN w : w[i] \in TodoRows!Todo
    BY DEF TodoRows!IsWrite
  <1> QED BY <1>1, TodoFields DEF TodoRows!Advised

\* Before its statement a transaction sees what is committed; the trigger looks at that.
LEMMA StatementSees ==
    ASSUME TodoRows!TodosInv, NEW s \in Pair, v3[s].pc = "write", NEW w, TodoRows!IsWrite(w), NEW shared,
           TodoRows!Statement(s, w, shared)
    PROVE  \A i \in DOMAIN w : TodoRows!Depth(TodoRows!Over(w, v1), i)
  <1>1. DOMAIN v3[s].put = {} /\ v1 \in [Ids -> TodoRows!Todo]
    BY TodosParts DEF TodoRows!StageInv
  <1>2. TodoRows!Sees(s) = v1
    BY <1>1, OverNothing DEF TodoRows!Sees
  <1> QED BY <1>2 DEF TodoRows!Statement

\* A statement whose rows fit keeps the invariant.
LEMMA StatementKeeps ==
    ASSUME TodoRows!TodosInv, NEW s \in Pair, v3[s].pc = "write", NEW w, TodoRows!IsWrite(w),
           NEW shared \in SUBSET Ids, TodoRows!Statement(s, w, shared), TodoRows!Fitting(TodoRows!Over(w, v1)),
           \A i \in DOMAIN w :
              /\ w[i].st \in {"live", "trash"} /\ v1[i].st # "gone"
              /\ v1[i].st # "none" \/ i = v3[s].id \/ TodoRows!NewID(s, i)
              /\ w[i].parent # TodoRows!None =>
                   /\ \/ w[i].parent \in v3[s].locks \cup shared
                      \/ v1[i].st # "none" /\ v1[i].parent = w[i].parent
                   /\ w[i].st = "trash" => v1[i].st # "none" /\ v1[i].parent = w[i].parent
    PROVE  TodoRows!TodosInv'
  <1> DEFINE x == v3[s]
             adv == TodoRows!Advised(w)
             all == DOMAIN w \cup shared
             put == TodoRows!Over(w, x.put)
             c == [x EXCEPT !.put = put, !.locks = @ \cup DOMAIN w \cup shared, !.advisory = @ \cup adv, !.pc = "commit"]
  <1>1. /\ \A o \in Pair \ {s} : v3[o].locks \cap all = {} /\ v3[o].advisory \cap adv = {}
        /\ v3' = [v3 EXCEPT ![s] = c] /\ v1' = v1 /\ v2' = v2 /\ v4' = v4
    BY DEF TodoRows!Statement, TodoRows!CanLock, TodoRows!CanAdvise, TodoRows!Others
  <1>2. /\ TodoRows!IsTx(x) /\ TodoRows!StageInv(x) /\ v4' \in 0..MaxTodoCalls /\ DOMAIN x.put = {} /\ x.advisory = {}
    BY <1>1, TodosParts DEF TodoRows!StageInv
  <1>3. put = w /\ DOMAIN w \subseteq Ids /\ adv \subseteq TodoLists \cup {TodoRows!NoList}
    BY <1>2, OverEmpty, AdvisedLists DEF TodoRows!IsWrite
  <1> HIDE DEF put, adv, all
  <1>4. /\ c.pc = "commit" /\ c.op = x.op /\ c.id = x.id /\ c.parent = x.parent /\ c.put = w
        /\ c.locks = x.locks \cup DOMAIN w \cup shared /\ c.advisory = adv /\ TodoRows!IsTx(c)
    BY <1>2, <1>3 DEF TodoRows!IsTx
  <1> HIDE DEF c
  <1>5. TodoRows!WrittenInv(c)
    BY <1>4, AdvisedLists DEF TodoRows!WrittenInv, adv
  <1>6. TodoRows!StageInv(c)
    BY <1>2, <1>4 DEF TodoRows!StageInv
  <1>7. ASSUME NEW o \in Pair \ {s}
        PROVE  TodoRows!Apart(c, v3[o]) /\ TodoRows!Apart(v3[o], c)
    <2>1. TodoRows!Apart(x, v3[o]) /\ TodoRows!Apart(v3[o], x)
      BY TodosParts
    <2>2. c.locks = x.locks \cup all
      BY <1>4 DEF all
    <2>3. v3[o].op = "create" => v3[o].id \notin DOMAIN w
      <3>1. v3[o].op = "create" => v1[v3[o].id].st = "none"
        BY TodosParts DEF TodoRows!StageInv
      <3>2. v3[o].op = "create" => ~TodoRows!NewID(s, v3[o].id)
        BY DEF TodoRows!NewID, TodoRows!Others
      <3>3. v3[o].op = "create" => v3[o].id # x.id
        BY TodosParts DEF TodoRows!Apart
      <3> QED BY <3>1, <3>2, <3>3
    <2>4. c.locks \cap v3[o].locks = {} /\ c.advisory \cap v3[o].advisory = {}
      BY <1>1, <1>4, <2>1, <2>2 DEF TodoRows!Apart
    <2>5. c.op = x.op /\ c.id = x.id
      BY <1>4
    <2>6. DOMAIN c.put = DOMAIN w
      BY <1>4
    <2>7. TodoRows!Apart(c, v3[o])
      BY <2>1, <2>4, <2>5 DEF TodoRows!Apart
    <2>8. v3[o].op = "create" => c.id # v3[o].id /\ v3[o].id \notin DOMAIN c.put
      BY <2>1, <2>3, <2>5, <2>6 DEF TodoRows!Apart
    <2>9. v3[o].locks \cap c.locks = {} /\ v3[o].advisory \cap c.advisory = {}
      BY <2>4
    <2> HIDE DEF x
    <2>10. TodoRows!Apart(v3[o], c)
      BY <2>8, <2>9 DEF TodoRows!Apart
    <2> QED BY <2>7, <2>10
  <1> HIDE DEF x
  <1> QED BY <1>1, <1>2, <1>4, <1>5, <1>6, <1>7, TxGoesOn

\* A subtask that one transaction has written, under a parent that another has written.
LEMMA ChildFits ==
    ASSUME TodoRows!TodosInv, NEW s \in Pair, NEW o \in Pair, s # o,
           NEW i \in DOMAIN v3[o].put, TodoRows!Kept(v3[o].put[i]), v3[o].put[i].parent \in DOMAIN v3[s].put
    PROVE  /\ v3[o].put[i].parent \in Ids
           /\ TodoRows!Fits(v3[o].put[i], v3[s].put[v3[o].put[i].parent])
  <1> DEFINE x == v3[s].put
             y == v3[o].put
             p == y[i].parent
             r == TodoRows!Over(x, v1)
             q == TodoRows!Over(y, v1)
  <1>0. /\ TodoRows!IsWrite(x) /\ TodoRows!IsWrite(y) /\ v1 \in [Ids -> TodoRows!Todo]
        /\ TodoRows!Fitting(v1) /\ TodoRows!Fitting(r) /\ TodoRows!Fitting(q)
        /\ TodoRows!WrittenInv(v3[s]) /\ TodoRows!WrittenInv(v3[o])
    BY TodosParts, TxFields
  <1>1. v3[s].locks \cap v3[o].locks = {} /\ v3[s].advisory \cap v3[o].advisory = {}
    BY TodosParts DEF TodoRows!Apart
  <1>2. /\ DOMAIN x \subseteq Ids /\ DOMAIN y \subseteq Ids /\ DOMAIN v1 = Ids
        /\ p \notin v3[o].locks /\ i \notin DOMAIN x /\ p \notin DOMAIN y
    BY <1>0, <1>1 DEF TodoRows!WrittenInv, TodoRows!IsWrite
  <1>3. i \in Ids /\ p \in Ids /\ p # TodoRows!None
    BY <1>2 DEF TodoRows!Kept
  <1>4. r[i] = v1[i] /\ r[p] = x[p]
    BY <1>2, <1>3, OverAt
  <1>5. q[i] = y[i] /\ q[p] = v1[p]
    BY <1>2, <1>3, OverAt
  <1> HIDE DEF r, q
  <1>6. TodoRows!Fits(y[i], v1[p])
    BY <1>0, <1>3, <1>5 DEF TodoRows!Fitting
  <1>7. v1[i].st # "none" /\ v1[i].st # "gone" /\ v1[i].parent = p
    BY <1>0, <1>2, <1>3 DEF TodoRows!WrittenInv
  <1>8. y[i].st = "live" => y[i].list \in v3[o].advisory
    BY <1>0, <1>3 DEF TodoRows!WrittenInv
  <1>9. \A j \in DOMAIN x : x[j].parent # TodoRows!None =>
            /\ x[j].st = "live" => x[j].list \in v3[s].advisory
            /\ x[j].st = "trash" => v1[j].parent = x[j].parent
    BY <1>0 DEF TodoRows!WrittenInv
  <1>10. p \in DOMAIN x
    OBVIOUS
  <1> HIDE DEF x, y, p
  <1>11. TodoRows!Kept(v1[i])
    BY <1>0, <1>3, <1>7, TodoFields DEF TodoRows!Kept
  <1>12. TodoRows!Fits(v1[i], v1[p])
    BY <1>0, <1>3, <1>7, <1>11 DEF TodoRows!Fitting
  <1>13. TodoRows!Fits(v1[i], x[p])
    <2>1. TodoRows!Kept(r[i]) => TodoRows!Fits(r[i], r[r[i].parent])
      BY <1>0, <1>3 DEF TodoRows!Fitting
    <2> QED BY <1>4, <1>7, <1>11, <2>1
  <1>14. x[p].st \in {"live", "trash"} /\ x[p].list = y[i].list
    <2>1. v1[p].list = y[i].list
      BY <1>6 DEF TodoRows!Fits
    <2>2. v1[p].list = v1[i].list
      BY <1>12 DEF TodoRows!Fits
    <2>3. x[p].st \in {"live", "trash"} /\ x[p].list = v1[i].list
      BY <1>13 DEF TodoRows!Fits
    <2> QED BY <2>1, <2>2, <2>3
  <1>15. ASSUME y[i].st = "live" PROVE x[p].parent = TodoRows!None
    <2>1. y[i].list \in v3[o].advisory
      BY <1>15, <1>8
    <2>2. v1[p].parent = TodoRows!None
      BY <1>6, <1>15 DEF TodoRows!Fits
    <2>3. x[p].parent # TodoRows!None => x[p].list \in v3[s].advisory
      BY <1>14, <1>9, <1>10, <2>2
    <2> QED BY <1>1, <1>14, <2>1, <2>3
  <1> QED BY <1>3, <1>14, <1>15 DEF TodoRows!Fits, x, y, p

\* Two transactions that have both written still fit together, in either order of their commits.
LEMMA WritesFit ==
    ASSUME TodoRows!TodosInv, NEW s \in Pair, NEW o \in Pair, s # o
    PROVE  TodoRows!Fitting(TodoRows!Over(v3[o].put, TodoRows!Over(v3[s].put, v1)))
  <1> DEFINE x == v3[s].put
             y == v3[o].put
             r == TodoRows!Over(x, v1)
             q == TodoRows!Over(y, v1)
             z == TodoRows!Over(y, r)
  <1>1. /\ TodoRows!IsWrite(x) /\ TodoRows!IsWrite(y) /\ v1 \in [Ids -> TodoRows!Todo]
        /\ TodoRows!Fitting(r) /\ TodoRows!Fitting(q)
        /\ TodoRows!WrittenInv(v3[s]) /\ TodoRows!WrittenInv(v3[o]) /\ v3[s].locks \cap v3[o].locks = {}
    BY TodosParts, TxFields DEF TodoRows!Apart
  <1>2. DOMAIN x \cap DOMAIN y = {} /\ DOMAIN x \subseteq Ids /\ DOMAIN y \subseteq Ids /\ DOMAIN v1 = Ids
    BY <1>1 DEF TodoRows!WrittenInv, TodoRows!IsWrite
  <1> HIDE DEF x, y
  <1>3. DOMAIN r = Ids
    BY <1>2, OverAt
  <1>4. \A i \in Ids : r[i] = IF i \in DOMAIN x THEN x[i] ELSE v1[i]
    BY <1>2, OverAt
  <1>5. \A i \in Ids : q[i] = IF i \in DOMAIN y THEN y[i] ELSE v1[i]
    BY <1>2, OverAt
  <1> HIDE DEF r
  <1>6. \A i \in Ids : z[i] = IF i \in DOMAIN y THEN y[i] ELSE r[i]
    BY <1>2, <1>3, OverAt
  <1> HIDE DEF q, z
  <1>7. ASSUME NEW i \in Ids, TodoRows!Kept(z[i])
        PROVE  z[i].parent \in Ids /\ TodoRows!Fits(z[i], z[z[i].parent])
    <2> DEFINE p == z[i].parent
    <2>1. CASE i \in DOMAIN y
      <3>1. z[i] = y[i] /\ q[i] = y[i]
        BY <1>5, <1>6, <2>1
      <3>2. p \in Ids /\ TodoRows!Fits(z[i], q[p])
        BY <1>1, <1>7, <3>1 DEF TodoRows!Fitting
      <3>3. CASE p \notin DOMAIN x
        <4>1. z[p] = q[p]
          BY <1>4, <1>5, <1>6, <3>2, <3>3
        <4> QED BY <3>2, <4>1
      <3>4. CASE p \in DOMAIN x
        <4>1. z[p] = x[p]
          BY <1>2, <1>4, <1>6, <3>2, <3>4
        <4>2. TodoRows!Fits(z[i], x[p])
          BY <1>7, <2>1, <3>1, <3>4, ChildFits DEF x, y
        <4> QED BY <3>2, <4>1, <4>2
      <3> QED BY <3>3, <3>4
    <2>2. CASE i \notin DOMAIN y
      <3>1. z[i] = r[i]
        BY <1>6, <2>2
      <3>2. p \in Ids /\ TodoRows!Fits(z[i], r[p])
        BY <1>1, <1>7, <3>1 DEF TodoRows!Fitting
      <3>3. CASE p \notin DOMAIN y
        <4>1. z[p] = r[p]
          BY <1>6, <3>2, <3>3
        <4> QED BY <3>2, <4>1
      <3>4. CASE p \in DOMAIN y
        <4>1. z[p] = y[p] /\ q[p] = y[p]
          BY <1>5, <1>6, <3>2, <3>4
        <4>2. CASE i \in DOMAIN x
          <5>1. z[i] = x[i]
            BY <1>4, <3>1, <4>2
          <5>2. TodoRows!Fits(z[i], y[p])
            BY <1>7, <3>4, <4>2, <5>1, ChildFits DEF x, y
          <5> QED BY <3>2, <4>1, <5>2
        <4>3. CASE i \notin DOMAIN x
          <5>1. z[i] = q[i]
            BY <1>4, <1>5, <2>2, <3>1, <4>3
          <5>2. TodoRows!Fits(z[i], q[p])
            BY <1>1, <1>7, <5>1 DEF TodoRows!Fitting
          <5> QED BY <3>2, <4>1, <5>2
        <4> QED BY <4>2, <4>3
      <3> QED BY <3>3, <3>4
    <2> QED BY <2>1, <2>2
  <1>8. TodoRows!Fitting(z)
    BY <1>7 DEF TodoRows!Fitting
  <1> QED BY <1>8 DEF z, r, x, y

\* The table changes, but not where a transaction holds a lock.
LEMMA RowsChange ==
    ASSUME TodoRows!TodosAssumption, TodoRows!TodosInv, v1' \in [Ids -> TodoRows!Todo], TodoRows!Fitting(v1'),
           v2' \subseteq TodoLists, v4' \in 0..MaxTodoCalls, v3' = [o \in Pair |-> v3'[o]],
           \A o \in Pair :
              \/ v3'[o] = TodoRows!NoTx
              \/ /\ v3'[o] = v3[o]
                 /\ \A i \in v3[o].locks : v1'[i] = v1[i]
                 /\ v3[o].op = "create" => v1'[v3[o].id].st = "none"
                 /\ TodoRows!Fitting(TodoRows!Over(v3[o].put, v1'))
    PROVE  TodoRows!TodosInv'
  <1>1. ASSUME NEW o \in Pair
        PROVE  TodoRows!IsTx(v3[o]) /\ TodoRows!WrittenInv(v3[o]) /\ TodoRows!StageInv(v3[o])
               /\ v1 \in [Ids -> TodoRows!Todo] /\ v3[o].locks \subseteq Ids
    BY TodosParts, TxFields
  <1>2. \A o \in Pair : TodoRows!IsTx(v3'[o])
    BY <1>1, RestingTx
  <1>3. TodoRows!TodosTypeOK'
    BY <1>2 DEF TodoRows!TodosTypeOK, TodoRows!IsTx, TodoRows!IsWrite, TodoRows!Todo, TodoRows!Keep
  <1>4. ASSUME NEW o \in Pair
        PROVE  /\ TodoRows!Fitting(TodoRows!Over(v3'[o].put, v1'))
               /\ TodoRows!WrittenInv(v3[o])' /\ TodoRows!StageInv(v3[o])'
    <2>1. CASE v3'[o] = TodoRows!NoTx
      <3>1. TodoRows!Over(v3'[o].put, v1') = v1'
        BY <2>1, RestingTx, OverNothing
      <3>2. TodoRows!WrittenInv(v3[o])' /\ TodoRows!StageInv(v3[o])'
        BY <2>1, RestingTx DEF TodoRows!WrittenInv, TodoRows!StageInv
      <3> QED BY <3>1, <3>2
    <2>2. CASE v3'[o] # TodoRows!NoTx
      <3>1. /\ v3'[o] = v3[o] /\ \A i \in v3[o].locks : v1'[i] = v1[i]
            /\ v3[o].op = "create" => v1'[v3[o].id].st = "none"
            /\ TodoRows!Fitting(TodoRows!Over(v3[o].put, v1'))
        BY <2>2
      <3>2. TodoRows!WrittenInv(v3[o])'
        BY <1>1, <3>1 DEF TodoRows!WrittenInv
      <3>3. \A i \in v3[o].locks : TodoRows!Live(v1, i) => TodoRows!Live(v1', i)
        BY <1>1, <3>1 DEF TodoRows!Live
      <3>4. TodoRows!Held(v3[o]) => TodoRows!Held(v3[o])'
        BY <3>1, <3>3 DEF TodoRows!Held
      <3>5. TodoRows!Placed(v3[o]) => TodoRows!Placed(v3[o])'
        BY <3>1, <3>3 DEF TodoRows!Placed
      <3>6. TodoRows!Held(v3[o]) => v1'[v3[o].id] = v1[v3[o].id]
        BY <3>1 DEF TodoRows!Held
      <3>7. TodoRows!StageInv(v3[o])'
        BY <1>1, <3>1, <3>4, <3>5, <3>6 DEF TodoRows!StageInv, TodoRows!Keep
      <3> QED BY <3>1, <3>2, <3>7
    <2> QED BY <2>1, <2>2
  <1>5. ASSUME NEW o \in Pair, NEW q \in Pair \ {o}
        PROVE  TodoRows!Apart(v3'[o], v3'[q])
    <2>1. TodoRows!Apart(v3[o], v3[q])
      BY <1>5, TodosParts
    <2>2. v3[o].op = "create" => v3[o].id # TodoRows!None
      BY <1>1, IdsApart DEF TodoRows!StageInv
    <2>3. CASE v3'[o] = TodoRows!NoTx
      BY <2>3, RestingTx DEF TodoRows!Apart
    <2>4. CASE v3'[o] = v3[o] /\ v3'[q] = TodoRows!NoTx
      BY <2>2, <2>4, RestingTx DEF TodoRows!Apart
    <2> QED BY <2>1, <2>3, <2>4
  <1> QED BY <1>3, <1>4, <1>5 DEF TodoRows!TodosInv, TodoRows!Sees, TodoRows!Others

LEMMA CommitKeeps ==
    ASSUME TodoRows!TodosAssumption, TodoRows!TodosInv, NEW s \in Pair, TodoRows!Commit(s)
    PROVE  TodoRows!TodosInv'
  <1> DEFINE r == TodoRows!Over(v3[s].put, v1)
  <1>1. v1' = r /\ v3' = [v3 EXCEPT ![s] = TodoRows!NoTx] /\ v2' = v2 /\ v4' = v4
    BY DEF TodoRows!Commit, TodoRows!Sees
  <1>2. /\ TodoRows!IsWrite(v3[s].put) /\ v1 \in [Ids -> TodoRows!Todo] /\ TodoRows!Fitting(r)
        /\ TodoRows!WrittenInv(v3[s]) /\ v2' \subseteq TodoLists /\ v4' \in 0..MaxTodoCalls
    BY <1>1, TodosParts, TxFields
  <1>3. r \in [Ids -> TodoRows!Todo] /\ \A i \in Ids : i \notin DOMAIN v3[s].put => r[i] = v1[i]
    BY <1>2, OverTyped, OverAt DEF TodoRows!IsWrite
  <1>4. v3 = [o \in Pair |-> v3[o]]
    BY DEF TodoRows!TodosInv, TodoRows!TodosTypeOK
  <1>5. v3' = [o \in Pair |-> v3'[o]] /\ \A o \in Pair : v3'[o] = IF o = s THEN TodoRows!NoTx ELSE v3[o]
    BY <1>1, <1>4
  <1>6. ASSUME NEW o \in Pair, o # s
        PROVE  /\ \A i \in v3[o].locks : r[i] = v1[i]
               /\ v3[o].op = "create" => r[v3[o].id].st = "none"
               /\ TodoRows!Fitting(TodoRows!Over(v3[o].put, r))
    <2>1. TodoRows!Apart(v3[o], v3[s]) /\ TodoRows!StageInv(v3[o]) /\ v3[o].locks \subseteq Ids
      BY <1>6, TodosParts, TxFields
    <2>2. \A i \in v3[o].locks : i \notin DOMAIN v3[s].put
      BY <1>2, <2>1 DEF TodoRows!Apart, TodoRows!WrittenInv
    <2>3. v3[o].op = "create" => /\ v3[o].id \in Ids /\ v3[o].id \notin DOMAIN v3[s].put
                                 /\ v1[v3[o].id].st = "none"
      BY <2>1 DEF TodoRows!Apart, TodoRows!StageInv
    <2>4. TodoRows!Fitting(TodoRows!Over(v3[o].put, r))
      BY <1>6, WritesFit
    <2> QED BY <1>3, <2>1, <2>2, <2>3, <2>4
  <1> HIDE DEF r
  <1> QED BY <1>1, <1>2, <1>3, <1>5, <1>6, RowsChange

\* Rows that go: nothing is left under them, and no transaction holds one of them.
LEMMA RemoveKeeps ==
    ASSUME TodoRows!TodosAssumption, TodoRows!TodosInv, NEW is \in SUBSET Ids, TodoRows!Remove(is),
           \A i \in is : v1[i].st \in {"live", "trash"},
           v2' \subseteq TodoLists, v3' = v3, v4' \in 0..MaxTodoCalls
    PROVE  TodoRows!TodosInv'
  <1> DEFINE U == TodoRows!Under(is)
  <1>1. /\ \A s \in Pair : v3[s].locks \cap U = {}
        /\ v1' = [i \in Ids |-> IF i \in U THEN [v1[i] EXCEPT !.st = "gone"] ELSE v1[i]]
    BY DEF TodoRows!Remove
  <1>2. /\ U \subseteq Ids /\ \A j \in U : v1[j].st \in {"live", "trash"}
        /\ \A j \in Ids : v1[j].st \in {"live", "trash"} /\ v1[j].parent \in U => j \in U
    BY UnderClosed
  <1> HIDE DEF U
  <1>3. v1 \in [Ids -> TodoRows!Todo] /\ TodoRows!Fitting(v1) /\ v3 = [o \in Pair |-> v3[o]]
    BY DEF TodoRows!TodosInv, TodoRows!TodosTypeOK
  <1>4. v1' \in [Ids -> TodoRows!Todo]
    BY <1>1, <1>3 DEF TodoRows!Todo
  <1>5. \A i \in Ids : /\ i \notin U => v1'[i] = v1[i]
                       /\ i \in U => v1'[i].st = "gone"
    BY <1>1, <1>3 DEF TodoRows!Todo
  <1>6. TodoRows!Fitting(v1')
    <2>1. ASSUME NEW i \in Ids, TodoRows!Kept(v1'[i])
          PROVE  v1'[i].parent \in Ids /\ TodoRows!Fits(v1'[i], v1'[v1'[i].parent])
      <3>1. i \notin U /\ v1'[i] = v1[i]
        BY <1>5, <2>1 DEF TodoRows!Kept
      <3>2. v1[i].parent \in Ids /\ TodoRows!Fits(v1[i], v1[v1[i].parent])
        BY <1>3, <2>1, <3>1 DEF TodoRows!Fitting
      <3>3. v1[i].parent \notin U
        BY <1>2, <2>1, <3>1 DEF TodoRows!Kept
      <3> QED BY <1>5, <3>1, <3>2, <3>3
    <2> QED BY <2>1 DEF TodoRows!Fitting
  <1>7. ASSUME NEW o \in Pair
        PROVE  /\ \A i \in v3[o].locks : v1'[i] = v1[i]
               /\ v3[o].op = "create" => v1'[v3[o].id].st = "none"
               /\ TodoRows!Fitting(TodoRows!Over(v3[o].put, v1'))
    <2> DEFINE y == v3[o].put
               q == TodoRows!Over(y, v1)
               z == TodoRows!Over(y, v1')
    <2>1. /\ TodoRows!StageInv(v3[o]) /\ TodoRows!WrittenInv(v3[o]) /\ v3[o].locks \subseteq Ids
          /\ TodoRows!Fitting(q) /\ TodoRows!IsWrite(y)
      BY TodosParts, TxFields
    <2>2. DOMAIN y \subseteq Ids /\ DOMAIN y \cap U = {}
      BY <1>1, <2>1 DEF TodoRows!WrittenInv, TodoRows!IsWrite
    <2>3. v3[o].op = "create" => v1'[v3[o].id].st = "none"
      BY <1>2, <1>5, <2>1 DEF TodoRows!StageInv
    <2>4. \A i \in v3[o].locks : v1'[i] = v1[i]
      BY <1>1, <1>5, <2>1
    <2>5. \A i \in Ids : q[i] = IF i \in DOMAIN y THEN y[i] ELSE v1[i]
      BY <1>3, <2>2, OverAt
    <2>6. \A i \in Ids : z[i] = IF i \in DOMAIN y THEN y[i] ELSE v1'[i]
      BY <1>4, <2>2, OverAt
    <2> HIDE DEF q, z
    <2>7. ASSUME NEW i \in Ids, TodoRows!Kept(z[i])
          PROVE  z[i].parent \in Ids /\ TodoRows!Fits(z[i], z[z[i].parent])
      <3> DEFINE p == z[i].parent
      <3>1. i \notin U
        BY <1>5, <2>2, <2>6, <2>7 DEF TodoRows!Kept
      <3>2. z[i] = q[i]
        BY <1>5, <2>5, <2>6, <3>1
      <3>3. p \in Ids /\ TodoRows!Fits(z[i], q[p])
        BY <2>1, <2>7, <3>2 DEF TodoRows!Fitting
      <3>4. CASE p \in DOMAIN y \/ p \notin U
        BY <1>5, <2>5, <2>6, <3>3, <3>4
      <3>5. CASE p \in U
        <4>1. i \notin DOMAIN y
          <5> SUFFICES ASSUME i \in DOMAIN y PROVE FALSE
            OBVIOUS
          <5>1. y[i] = z[i] /\ p # TodoRows!None /\ p \notin v3[o].locks
            BY <1>1, <2>6, <2>7, <3>5 DEF TodoRows!Kept
          <5>2. v1[i].st # "none" /\ v1[i].st # "gone" /\ v1[i].parent = p
            BY <2>1, <5>1 DEF TodoRows!WrittenInv
          <5>3. v1[i].st \in {"live", "trash"}
            BY <1>3, <5>2, TodoFields
          <5> QED BY <1>2, <3>1, <3>5, <5>2, <5>3
        <4>2. v1[i] = z[i] /\ v1[i].st \in {"live", "trash"}
          BY <2>5, <2>7, <3>2, <4>1 DEF TodoRows!Kept
        <4> QED BY <1>2, <3>1, <3>5, <4>2
      <3> QED BY <3>3, <3>4, <3>5
    <2>8. TodoRows!Fitting(z)
      BY <2>7 DEF TodoRows!Fitting
    <2> QED BY <2>3, <2>4, <2>8 DEF z
  <1> QED BY <1>3, <1>4, <1>6, <1>7, RowsChange

\* A statement that leaves every todo where it is, or adds one under a parent: the trigger sees to the rest.
LEMMA StayStatement ==
    ASSUME TodoRows!TodosInv, NEW s \in Pair, v3[s].pc = "write", NEW w, TodoRows!IsWrite(w),
           NEW shared \in SUBSET Ids, TodoRows!Statement(s, w, shared),
           \A i \in DOMAIN w :
              \/ /\ v1[i].st \in {"live", "trash"} /\ w[i].st \in {"live", "trash"}
                 /\ w[i].parent = v1[i].parent /\ w[i].list = v1[i].list
              \/ /\ v1[i].st = "none" /\ w[i].st = "live" /\ (i = v3[s].id \/ TodoRows!NewID(s, i))
                 /\ w[i].parent # TodoRows!None =>
                      /\ w[i].parent \in v3[s].locks \cup shared /\ v1[w[i].parent].st \in {"live", "trash"}
                      /\ v1[w[i].parent].list = w[i].list
    PROVE  TodoRows!TodosInv'
  <1> DEFINE r == TodoRows!Over(w, v1)
             Same(i) == /\ v1[i].st \in {"live", "trash"} /\ w[i].st \in {"live", "trash"}
                        /\ w[i].parent = v1[i].parent /\ w[i].list = v1[i].list
             New(i) == /\ v1[i].st = "none" /\ w[i].st = "live" /\ (i = v3[s].id \/ TodoRows!NewID(s, i))
                       /\ w[i].parent # TodoRows!None =>
                            /\ w[i].parent \in v3[s].locks \cup shared /\ v1[w[i].parent].st \in {"live", "trash"}
                            /\ v1[w[i].parent].list = w[i].list
  <1>0. \A i \in DOMAIN w : Same(i) \/ New(i)
    OBVIOUS
  <1>1. v1 \in [Ids -> TodoRows!Todo] /\ TodoRows!Fitting(v1) /\ DOMAIN w \subseteq Ids /\ v3[s].locks \subseteq Ids
    BY TodosParts, TxFields DEF TodoRows!IsWrite
  <1>2. \A i \in Ids : r[i] = IF i \in DOMAIN w THEN w[i] ELSE v1[i]
    BY <1>1, OverAt
  <1>3. \A i \in DOMAIN w : TodoRows!Depth(r, i)
    BY StatementSees
  <1> HIDE DEF r
  <1>4. ASSUME NEW p \in Ids, v1[p].st \in {"live", "trash"}
        PROVE  r[p].st \in {"live", "trash"} /\ r[p].list = v1[p].list /\ r[p].parent = v1[p].parent
    BY <1>0, <1>2, <1>4
  <1>5. ASSUME NEW i \in Ids, TodoRows!Kept(r[i])
        PROVE  r[i].parent \in Ids /\ TodoRows!Fits(r[i], r[r[i].parent])
    <2> DEFINE p == r[i].parent
    <2>1. CASE i \in DOMAIN w /\ New(i)
      <3>1. r[i] = w[i] /\ p # TodoRows!None /\ r[i].st = "live"
        BY <1>2, <1>5, <2>1 DEF TodoRows!Kept
      <3>2. p \in Ids /\ v1[p].st \in {"live", "trash"} /\ v1[p].list = r[i].list
        BY <1>1, <2>1, <3>1
      <3>3. r[p].parent = TodoRows!None
        BY <1>3, <2>1, <3>1 DEF TodoRows!Depth
      <3> QED BY <1>4, <3>2, <3>3 DEF TodoRows!Fits
    <2>2. CASE i \notin DOMAIN w \/ Same(i)
      <3>1. /\ v1[i].st \in {"live", "trash"} /\ v1[i].parent = p /\ v1[i].list = r[i].list /\ p # TodoRows!None
            /\ i \in DOMAIN w \/ v1[i].st = r[i].st
        BY <1>2, <1>5, <2>2 DEF TodoRows!Kept
      <3>2. p \in Ids /\ TodoRows!Fits(v1[i], v1[p])
        BY <1>1, <3>1 DEF TodoRows!Fitting, TodoRows!Kept
      <3>3. r[p].st \in {"live", "trash"} /\ r[p].list = r[i].list /\ r[p].parent = v1[p].parent
        BY <1>4, <3>1, <3>2 DEF TodoRows!Fits
      <3>4. ASSUME r[i].st = "live" PROVE r[p].parent = TodoRows!None
        <4>1. CASE i \in DOMAIN w
          BY <1>3, <3>1, <3>4, <4>1 DEF TodoRows!Depth
        <4>2. CASE i \notin DOMAIN w
          BY <3>1, <3>2, <3>3, <3>4, <4>2 DEF TodoRows!Fits
        <4> QED BY <4>1, <4>2
      <3> QED BY <3>2, <3>3, <3>4 DEF TodoRows!Fits
    <2> QED BY <1>0, <2>1, <2>2
  <1>6. TodoRows!Fitting(r)
    BY <1>5 DEF TodoRows!Fitting
  <1>7. \A i \in DOMAIN w :
          /\ w[i].st \in {"live", "trash"} /\ v1[i].st # "gone"
          /\ v1[i].st # "none" \/ i = v3[s].id \/ TodoRows!NewID(s, i)
          /\ w[i].parent # TodoRows!None =>
               /\ \/ w[i].parent \in v3[s].locks \cup shared
                  \/ v1[i].st # "none" /\ v1[i].parent = w[i].parent
               /\ w[i].st = "trash" => v1[i].st # "none" /\ v1[i].parent = w[i].parent
    BY <1>0
  <1> HIDE DEF Same, New
  <1> QED BY <1>6, <1>7, StatementKeeps DEF r

LEMMA InsertKeeps ==
    ASSUME TodoRows!TodosAssumption, TodoRows!TodosInv, NEW s \in Pair, TodoRows!Insert(s)
    PROVE  TodoRows!TodosInv'
  <1> DEFINE c == v3[s]
  <1>1. PICK k \in {0, Count} :
          TodoRows!Statement(s, TodoRows!Row(c.id, [TodoRows!Free EXCEPT !.st = "live", !.parent = c.parent,
              !.list = c.list, !.left = k, !.root = c.id]), {c.parent} \ {TodoRows!None})
    BY DEF TodoRows!Insert
  <1> DEFINE t == [TodoRows!Free EXCEPT !.st = "live", !.parent = c.parent, !.list = c.list, !.left = k, !.root = c.id]
             w == TodoRows!Row(c.id, t)
             shared == {c.parent} \ {TodoRows!None}
  <1>2. c.pc = "write" /\ c.op = "create" /\ TodoRows!Statement(s, w, shared)
    BY <1>1 DEF TodoRows!Insert
  <1>3. TodoRows!IsTx(c) /\ TodoRows!StageInv(c)
    BY TodosParts
  <1>4. c.id \in Ids /\ v1[c.id].st = "none" /\ c.parent # TodoRows!Keep /\ TodoRows!Placed(c)
    BY <1>2, <1>3 DEF TodoRows!StageInv
  <1>5. c.parent \in Ids \cup {TodoRows!None} /\ c.list \in TodoLists \cup {TodoRows!NoList}
    BY <1>3, <1>4, TxFields
  <1>6. k \in 0..Count /\ 0 \in 0..MaxTodoCalls
    BY DEF TodoRows!TodosAssumption
  <1>7. t \in TodoRows!Todo /\ t.st = "live" /\ t.parent = c.parent /\ t.list = c.list
    BY <1>4, <1>5, <1>6 DEF TodoRows!Todo, TodoRows!Free
  <1> HIDE DEF t
  <1>8. TodoRows!IsWrite(w) /\ DOMAIN w = {c.id} /\ w[c.id] = t
    BY <1>4, <1>7, RowWrite
  <1>9. t.parent # TodoRows!None => /\ t.parent \in c.locks /\ v1[t.parent].st \in {"live", "trash"}
                                    /\ v1[t.parent].list = t.list
    BY <1>4, <1>7 DEF TodoRows!Placed, TodoRows!Live
  <1>10. shared \in SUBSET Ids
    BY <1>5
  <1> HIDE DEF w, shared
  <1> QED BY <1>2, <1>4, <1>7, <1>8, <1>9, <1>10, StayStatement

\* The todo a statement is about.
LEMMA HeldRow ==
    ASSUME TodoRows!TodosInv, NEW s \in Pair, v3[s].pc = "write", v3[s].op \in {"move", "complete", "reopen", "delete"}
    PROVE  /\ v3[s].id \in Ids /\ v3[s].id \in v3[s].locks /\ v1[v3[s].id].st = "live"
           /\ v1[v3[s].id] \in TodoRows!Todo
  <1>1. TodoRows!StageInv(v3[s]) /\ v3[s].locks \subseteq Ids /\ v1 \in [Ids -> TodoRows!Todo]
    BY TodosParts, TxFields
  <1> QED BY <1>1 DEF TodoRows!StageInv, TodoRows!Held, TodoRows!Live

\* A statement that writes nothing, or one todo where it is.
LEMMA OneRowStatement ==
    ASSUME TodoRows!TodosInv, NEW s \in Pair, v3[s].pc = "write", v3[s].op \in {"complete", "reopen"},
           NEW t, t \in TodoRows!Todo, t.st = v1[v3[s].id].st, t.parent = v1[v3[s].id].parent, t.list = v1[v3[s].id].list,
           TodoRows!Statement(s, <<>>, {}) \/ TodoRows!Statement(s, TodoRows!Row(v3[s].id, t), {})
    PROVE  TodoRows!TodosInv'
  <1>1. CASE TodoRows!Statement(s, <<>>, {})
    BY <1>1, EmptyWrite, StayStatement
  <1>2. CASE TodoRows!Statement(s, TodoRows!Row(v3[s].id, t), {})
    <2> DEFINE w == TodoRows!Row(v3[s].id, t)
    <2>1. v3[s].id \in Ids /\ v1[v3[s].id].st = "live"
      BY HeldRow
    <2>2. TodoRows!IsWrite(w) /\ DOMAIN w = {v3[s].id} /\ w[v3[s].id] = t
      BY <2>1, RowWrite
    <2>3. TodoRows!Statement(s, w, {})
      BY <1>2
    <2> HIDE DEF w
    <2> QED BY <2>1, <2>2, <2>3, StayStatement
  <1> QED BY <1>1, <1>2

LEMMA FinishKeeps ==
    ASSUME TodoRows!TodosAssumption, TodoRows!TodosInv, NEW s \in Pair, TodoRows!Finish(s)
    PROVE  TodoRows!TodosInv'
  <1> DEFINE c == v3[s]
             t == v1[c.id]
             d == [t EXCEPT !.open = FALSE, !.left = 0]
             done == TodoRows!Row(c.id, d)
  <1>1. c.pc = "write" /\ c.op = "complete"
    BY DEF TodoRows!Finish
  <1>2. c.id \in Ids /\ t.st = "live" /\ t \in TodoRows!Todo /\ v1 \in [Ids -> TodoRows!Todo] /\ TodoRows!Fitting(v1)
    BY <1>1, HeldRow, TodosParts
  <1>3. FALSE \in BOOLEAN /\ 0 \in 0..Count
    BY DEF TodoRows!TodosAssumption
  <1>4. d \in TodoRows!Todo /\ d.st = t.st /\ d.parent = t.parent /\ d.list = t.list
    BY <1>2, <1>3 DEF TodoRows!Todo
  <1> HIDE DEF d
  <1>5. CASE TodoRows!Statement(s, <<>>, {}) \/ TodoRows!Statement(s, done, {})
    BY <1>1, <1>4, <1>5, OneRowStatement
  <1>6. ASSUME NEW i \in Ids, t.left > 1, TodoRows!NewID(s, i),
               TodoRows!Statement(s, TodoRows!Over(TodoRows!Next1(t, i), done), {t.parent} \ {TodoRows!None})
        PROVE  TodoRows!TodosInv'
    <2> DEFINE n == [t EXCEPT !.left = @ - 1]
               next == TodoRows!Row(i, n)
               w == TodoRows!Over(next, done)
               shared == {t.parent} \ {TodoRows!None}
    <2>1. TodoRows!Statement(s, w, shared)
      BY <1>6 DEF TodoRows!Next1
    <2>2. v1[i].st = "none" /\ i # c.id
      BY <1>2, <1>6 DEF TodoRows!NewID
    <2>3. t.left - 1 \in 0..Count
      <3> DEFINE k == t.left
      <3>1. k \in 0..Count /\ k > 1 /\ Count \in Nat
        BY <1>2, <1>6, TodoFields DEF TodoRows!TodosAssumption
      <3> HIDE DEF k
      <3>2. k - 1 \in 0..Count
        BY <3>1
      <3> QED BY <3>2 DEF k
    <2>4. n \in TodoRows!Todo /\ n.st = "live" /\ n.parent = t.parent /\ n.list = t.list
      BY <1>2, <2>3 DEF TodoRows!Todo
    <2> HIDE DEF n
    <2>5. TodoRows!IsWrite(next) /\ DOMAIN next = {i} /\ next[i] = n
      BY <2>4, RowWrite
    <2>6. TodoRows!IsWrite(done) /\ DOMAIN done = {c.id} /\ done[c.id] = d
      BY <1>2, <1>4, RowWrite
    <2> HIDE DEF next, done
    <2>7. TodoRows!IsWrite(w)
      BY <2>5, <2>6, OverWrite
    <2>8. DOMAIN w = {i, c.id} /\ w[i] = n /\ w[c.id] = d
      BY <2>2, <2>5, <2>6 DEF TodoRows!Over
    <2> HIDE DEF w
    <2>9. t.parent \in Ids \cup {TodoRows!None}
      BY <1>2, TodoFields
    <2>10. t.parent # TodoRows!None => /\ t.parent \in shared /\ v1[t.parent].st \in {"live", "trash"}
                                       /\ v1[t.parent].list = t.list
      BY <1>2 DEF TodoRows!Fitting, TodoRows!Kept, TodoRows!Fits
    <2>11. shared \in SUBSET Ids
      BY <2>9
    <2> HIDE DEF shared, c, t
    <2>12. /\ v1[c.id].st \in {"live", "trash"} /\ w[c.id].st \in {"live", "trash"}
           /\ w[c.id].parent = v1[c.id].parent /\ w[c.id].list = v1[c.id].list
      BY <1>2, <1>4, <2>8 DEF t
    <2>13. /\ v1[i].st = "none" /\ w[i].st = "live" /\ TodoRows!NewID(s, i)
           /\ w[i].parent # TodoRows!None =>
                /\ w[i].parent \in v3[s].locks \cup shared /\ v1[w[i].parent].st \in {"live", "trash"}
                /\ v1[w[i].parent].list = w[i].list
      BY <1>6, <2>2, <2>4, <2>8, <2>10
    <2>14. v3[s].pc = "write"
      BY <1>1 DEF c
    <2> QED BY <2>1, <2>7, <2>8, <2>11, <2>12, <2>13, <2>14, StayStatement
  <1> QED BY <1>5, <1>6 DEF TodoRows!Finish, d

LEMMA ReopenKeeps ==
    ASSUME TodoRows!TodosInv, NEW s \in Pair, TodoRows!ReopenRow(s)
    PROVE  TodoRows!TodosInv'
  <1> DEFINE t == [v1[v3[s].id] EXCEPT !.open = TRUE]
  <1>1. /\ v3[s].pc = "write" /\ v3[s].op = "reopen"
        /\ TodoRows!Statement(s, <<>>, {}) \/ TodoRows!Statement(s, TodoRows!Row(v3[s].id, t), {})
    BY DEF TodoRows!ReopenRow
  <1>2. v1[v3[s].id] \in TodoRows!Todo
    BY <1>1, HeldRow
  <1>3. /\ t \in TodoRows!Todo /\ t.st = v1[v3[s].id].st /\ t.parent = v1[v3[s].id].parent
        /\ t.list = v1[v3[s].id].list
    BY <1>2 DEF TodoRows!Todo
  <1> HIDE DEF t
  <1> QED BY <1>1, <1>3, OneRowStatement

\* Todos that go to the trash, or come back.
LEMMA BatchKeeps ==
    ASSUME TodoRows!TodosAssumption, TodoRows!TodosInv, NEW s \in Pair,
           TodoRows!DeleteRows(s) \/ TodoRows!RestoreRows(s)
    PROVE  TodoRows!TodosInv'
  <1>0. v3[s].pc = "write"
    BY DEF TodoRows!DeleteRows, TodoRows!RestoreRows
  <1>1. v1 \in [Ids -> TodoRows!Todo] /\ v3[s].at \in 0..MaxTodoCalls /\ 0 \in 0..MaxTodoCalls
    BY TodosParts, TxFields DEF TodoRows!TodosAssumption
  <1>2. ASSUME NEW batch \in SUBSET Ids, \A i \in batch : v1[i].st \in {"live", "trash"},
               NEW st \in {"live", "trash"}, NEW at \in 0..MaxTodoCalls,
               TodoRows!Statement(s, [i \in batch |-> [v1[i] EXCEPT !.st = st, !.at = at]], {})
        PROVE  TodoRows!TodosInv'
    <2> DEFINE w == [i \in batch |-> [v1[i] EXCEPT !.st = st, !.at = at]]
    <2>1. ASSUME NEW i \in batch PROVE /\ w[i] \in TodoRows!Todo /\ w[i].st = st /\ w[i].parent = v1[i].parent
                                     /\ w[i].list = v1[i].list
      <3>1. v1[i] \in TodoRows!Todo
        BY <1>1
      <3>2. w[i] = [v1[i] EXCEPT !.st = st, !.at = at]
        OBVIOUS
      <3> HIDE DEF w
      <3> QED BY <1>1, <1>2, <3>1, <3>2 DEF TodoRows!Todo
    <2>2. w \in [batch -> TodoRows!Todo] /\ DOMAIN w = batch
      BY <2>1
    <2>3. TodoRows!Statement(s, w, {})
      BY <1>2
    <2> HIDE DEF w
    <2>4. TodoRows!IsWrite(w)
      BY <1>2, <2>2 DEF TodoRows!IsWrite
    <2>5. \A i \in DOMAIN w : /\ v1[i].st \in {"live", "trash"} /\ w[i].st \in {"live", "trash"}
                              /\ w[i].parent = v1[i].parent /\ w[i].list = v1[i].list
      BY <1>2, <2>1, <2>2
    <2>6. {} \in SUBSET Ids
      OBVIOUS
    <2> QED BY <1>0, <2>3, <2>4, <2>5, <2>6, StayStatement
  <1>3. CASE TodoRows!DeleteRows(s)
    <2> DEFINE batch == {i \in Ids : TodoRows!Live(v1, i) /\ v3[s].id \in {i, v1[i].parent}}
    <2>1. TodoRows!Statement(s, [i \in batch |-> [v1[i] EXCEPT !.st = "trash", !.at = v3[s].at]], {})
      BY <1>3 DEF TodoRows!DeleteRows
    <2>2. batch \in SUBSET Ids /\ \A i \in batch : v1[i].st \in {"live", "trash"}
      BY DEF TodoRows!Live
    <2> HIDE DEF batch
    <2> QED BY <1>1, <1>2, <2>1, <2>2
  <1>4. CASE TodoRows!RestoreRows(s)
    <2> DEFINE batch == {i \in Ids : v1[i].st = "trash" /\ v1[i].at = v3[s].at /\ v3[s].id \in {i, v1[i].parent}}
    <2>1. TodoRows!Statement(s, [i \in batch |-> [v1[i] EXCEPT !.st = "live", !.at = 0]], {})
      BY <1>4 DEF TodoRows!RestoreRows
    <2>2. batch \in SUBSET Ids /\ \A i \in batch : v1[i].st \in {"live", "trash"}
      OBVIOUS
    <2> HIDE DEF batch
    <2> QED BY <1>1, <1>2, <2>1, <2>2
  <1> QED BY <1>3, <1>4

\* A todo that moves, with what hangs under it.
LEMMA RelocateKeeps ==
    ASSUME TodoRows!TodosAssumption, TodoRows!TodosInv, NEW s \in Pair, TodoRows!Relocate(s)
    PROVE  TodoRows!TodosInv'
  <1> DEFINE c == v3[s]
             t == v1[c.id]
             moved == [t EXCEPT !.parent = c.parent, !.list = c.list]
             along == IF c.list = t.list THEN {} ELSE TodoRows!Under({c.id})
             D == along \cup {c.id}
             w == [i \in D |-> IF i = c.id THEN moved ELSE [v1[i] EXCEPT !.list = c.list]]
             shared == {c.parent} \ {TodoRows!None}
             r == TodoRows!Over(w, v1)
  <1>1. c.pc = "write" /\ c.op = "move" /\ TodoRows!Statement(s, w, shared)
    BY DEF TodoRows!Relocate
  <1>2. c.id \in Ids /\ t.st = "live" /\ v1 \in [Ids -> TodoRows!Todo] /\ TodoRows!Fitting(v1)
    BY <1>1, HeldRow, TodosParts
  <1>3. TodoRows!IsTx(c) /\ TodoRows!StageInv(c) /\ c.locks \subseteq Ids /\ c.list \in TodoLists \cup {TodoRows!NoList}
    BY TodosParts, TxFields
  <1>4. TodoRows!Placed(c) \/ (c.parent = t.parent /\ c.list = t.list)
    BY <1>1, <1>3 DEF TodoRows!StageInv
  <1>5. c.parent \in Ids \cup {TodoRows!None}
    BY <1>2, <1>3, <1>4, TodoFields DEF TodoRows!Placed
  <1>6. /\ D \subseteq Ids /\ c.id \in D
        /\ \A j \in D \ {c.id} : c.list # t.list /\ v1[j].st \in {"live", "trash"} /\ v1[j].parent \in D
        /\ c.list # t.list => \A j \in Ids : v1[j].st \in {"live", "trash"} /\ v1[j].parent \in D => j \in D
    <2>1. {c.id} \in SUBSET Ids
      BY <1>2
    <2> QED BY <1>2, <2>1, UnderClosed
  <1> HIDE DEF D
  <1>7. moved \in TodoRows!Todo /\ moved.st = "live" /\ moved.parent = c.parent /\ moved.list = c.list
    <2> DEFINE y == [t EXCEPT !.parent = c.parent]
    <2>1. y \in TodoRows!Todo /\ y.st = t.st /\ y.parent = c.parent
      BY <1>2, <1>5 DEF TodoRows!Todo
    <2>2. moved = [y EXCEPT !.list = c.list]
      OBVIOUS
    <2> HIDE DEF y, moved
    <2> QED BY <1>2, <1>3, <2>1, <2>2 DEF TodoRows!Todo
  <1>8. \A j \in Ids : LET x == [v1[j] EXCEPT !.list = c.list]
                       IN  x \in TodoRows!Todo /\ x.st = v1[j].st /\ x.parent = v1[j].parent /\ x.list = c.list
    BY <1>2, <1>3 DEF TodoRows!Todo
  <1> HIDE DEF moved
  <1>9. /\ w[c.id] = moved /\ DOMAIN w = D
        /\ \A j \in D \ {c.id} : w[j].st = v1[j].st /\ w[j].parent = v1[j].parent /\ w[j].list = c.list
    BY <1>6, <1>8
  <1>10. TodoRows!IsWrite(w)
    <2>1. \A j \in D : w[j] \in TodoRows!Todo
      BY <1>6, <1>7, <1>8
    <2>2. w \in [D -> TodoRows!Todo]
      BY <2>1
    <2> HIDE DEF w
    <2> QED BY <1>6, <1>9, <2>2 DEF TodoRows!IsWrite
  <1> HIDE DEF w
  <1>11. DOMAIN r = Ids /\ \A i \in Ids : r[i] = IF i \in D THEN w[i] ELSE v1[i]
    BY <1>2, <1>6, <1>9, OverAt
  <1>12. \A i \in D : TodoRows!Depth(r, i)
    BY <1>1, <1>9, <1>10, StatementSees
  <1> HIDE DEF r
  <1>13. TodoRows!None \notin Ids
    BY IdsApart
  <1>14. ASSUME NEW i \in Ids, TodoRows!Kept(r[i])
         PROVE  r[i].parent \in Ids /\ TodoRows!Fits(r[i], r[r[i].parent])
    <2> DEFINE p == r[i].parent
    <2>1. CASE i = c.id
      <3>1. p = c.parent /\ p # TodoRows!None /\ p \in Ids /\ r[i].st = "live" /\ r[i].list = c.list
        BY <1>5, <1>6, <1>7, <1>9, <1>11, <1>14, <2>1 DEF TodoRows!Kept
      <3>2. r[p].parent = TodoRows!None
        BY <1>6, <1>12, <2>1, <3>1 DEF TodoRows!Depth
      <3>3. p # c.id
        BY <2>1, <3>1, <3>2
      <3>4. p \notin D /\ v1[p].st \in {"live", "trash"} /\ v1[p].list = c.list
        <4>1. CASE TodoRows!Placed(c)
          <5>1. v1[p].st = "live" /\ v1[p].parent = TodoRows!None /\ v1[p].list = c.list
            BY <3>1, <4>1 DEF TodoRows!Placed, TodoRows!Live
          <5> QED BY <1>6, <1>13, <3>3, <5>1
        <4>2. CASE c.parent = t.parent /\ c.list = t.list
          <5>1. TodoRows!Fits(t, v1[p])
            BY <1>2, <3>1, <4>2 DEF TodoRows!Fitting, TodoRows!Kept
          <5> QED BY <1>6, <3>3, <4>2, <5>1 DEF TodoRows!Fits
        <4> QED BY <1>4, <4>1, <4>2
      <3> QED BY <1>11, <3>1, <3>2, <3>4 DEF TodoRows!Fits
    <2>2. CASE i \in D \ {c.id}
      <3>1. /\ p = v1[i].parent /\ p \in D /\ p # TodoRows!None /\ r[i].st = v1[i].st /\ r[i].list = c.list
            /\ v1[i].st \in {"live", "trash"}
        BY <1>6, <1>9, <1>11, <1>14, <2>2 DEF TodoRows!Kept
      <3>2. v1[p].st \in {"live", "trash"}
        BY <1>2, <3>1 DEF TodoRows!Fitting, TodoRows!Kept, TodoRows!Fits
      <3>3. r[p].st \in {"live", "trash"} /\ r[p].list = c.list
        BY <1>6, <1>7, <1>9, <1>11, <3>1, <3>2
      <3>4. r[i].st = "live" => r[p].parent = TodoRows!None
        BY <1>12, <2>2, <3>1 DEF TodoRows!Depth
      <3> QED BY <1>6, <3>1, <3>3, <3>4 DEF TodoRows!Fits
    <2>3. CASE i \notin D
      <3>1. r[i] = v1[i] /\ p \in Ids /\ TodoRows!Fits(v1[i], v1[p]) /\ v1[i].st \in {"live", "trash"}
        BY <1>2, <1>11, <1>14, <2>3 DEF TodoRows!Fitting, TodoRows!Kept
      <3>2. CASE p \notin D
        BY <1>11, <3>1, <3>2
      <3>3. CASE p \in D
        <4>1. c.list = t.list /\ p = c.id
          BY <1>6, <2>3, <3>1, <3>3
        <4>2. r[p] = moved
          BY <1>6, <1>9, <1>11, <4>1
        <4>3. ASSUME r[i].st = "live" PROVE c.parent = TodoRows!None
          <5>1. TodoRows!Live(r, i) /\ r[i].parent = c.id
            BY <1>11, <4>1, <4>3 DEF TodoRows!Live
          <5>2. TodoRows!HasChildren(r, c.id)
            BY <5>1 DEF TodoRows!HasChildren
          <5> QED BY <1>6, <1>7, <1>12, <4>1, <4>2, <5>2 DEF TodoRows!Depth
        <4> QED BY <1>7, <3>1, <4>1, <4>2, <4>3 DEF TodoRows!Fits
      <3> QED BY <3>2, <3>3
    <2> QED BY <2>1, <2>2, <2>3
  <1>15. TodoRows!Fitting(r)
    BY <1>14 DEF TodoRows!Fitting
  <1>16. \A i \in DOMAIN w :
          /\ w[i].st \in {"live", "trash"} /\ v1[i].st # "gone"
          /\ v1[i].st # "none" \/ i = v3[s].id \/ TodoRows!NewID(s, i)
          /\ w[i].parent # TodoRows!None =>
               /\ \/ w[i].parent \in v3[s].locks \cup shared
                  \/ v1[i].st # "none" /\ v1[i].parent = w[i].parent
               /\ w[i].st = "trash" => v1[i].st # "none" /\ v1[i].parent = w[i].parent
    BY <1>2, <1>6, <1>7, <1>9
  <1>17. shared \in SUBSET Ids
    BY <1>5
  <1> HIDE DEF shared
  <1> QED BY <1>1, <1>10, <1>15, <1>16, <1>17, StatementKeeps DEF r

\* The one-statement transactions.
LEMMA PurgeKeeps ==
    ASSUME TodoRows!TodosAssumption, TodoRows!TodosInv,
           \/ \E i \in Ids : TodoRows!PurgeItem(i)
           \/ \E t \in 0..v4 : TodoRows!PurgeDeleted(t)
           \/ \E l \in TodoLists : TodoRows!DeleteList(l)
    PROVE  TodoRows!TodosInv'
  <1>0. v2 \subseteq TodoLists /\ v4 \in 0..MaxTodoCalls
    BY DEF TodoRows!TodosInv, TodoRows!TodosTypeOK
  <1>1. v4 < MaxTodoCalls /\ v4' = v4 + 1
    BY DEF TodoRows!PurgeItem, TodoRows!PurgeDeleted, TodoRows!DeleteList
  <1>2. v4' \in 0..MaxTodoCalls
    BY <1>0, <1>1 DEF TodoRows!TodosAssumption
  <1>3. CASE \E i \in Ids : TodoRows!PurgeItem(i)
    <2>1. PICK i \in Ids : TodoRows!PurgeItem(i)
      BY <1>3
    <2> DEFINE is == {j \in Ids : v1[j].st = "trash" /\ i \in {j, v1[j].parent}}
    <2>2. TodoRows!Remove(is) /\ v2' = v2 /\ v3' = v3
      BY <2>1 DEF TodoRows!PurgeItem
    <2>3. is \in SUBSET Ids /\ \A j \in is : v1[j].st \in {"live", "trash"}
      OBVIOUS
    <2> HIDE DEF is
    <2> QED BY <1>0, <1>2, <2>2, <2>3, RemoveKeeps
  <1>4. CASE \E t \in 0..v4 : TodoRows!PurgeDeleted(t)
    <2>1. PICK t \in 0..v4 : TodoRows!PurgeDeleted(t)
      BY <1>4
    <2> DEFINE is == {j \in Ids : v1[j].st = "trash" /\ v1[j].at <= t}
    <2>2. TodoRows!Remove(is) /\ v2' = v2 /\ v3' = v3
      BY <2>1 DEF TodoRows!PurgeDeleted
    <2>3. is \in SUBSET Ids /\ \A j \in is : v1[j].st \in {"live", "trash"}
      OBVIOUS
    <2> HIDE DEF is
    <2> QED BY <1>0, <1>2, <2>2, <2>3, RemoveKeeps
  <1>5. CASE \E l \in TodoLists : TodoRows!DeleteList(l)
    <2>1. PICK l \in TodoLists : TodoRows!DeleteList(l)
      BY <1>5
    <2> DEFINE is == {i \in Ids : v1[i].list = l /\ v1[i].st \in {"live", "trash"}}
    <2>2. TodoRows!Remove(is) /\ v2' = v2 \ {l} /\ v3' = v3
      BY <2>1 DEF TodoRows!DeleteList
    <2>3. is \in SUBSET Ids /\ \A j \in is : v1[j].st \in {"live", "trash"}
      OBVIOUS
    <2>4. v2' \subseteq TodoLists
      BY <1>0, <2>2
    <2> HIDE DEF is
    <2> QED BY <1>2, <2>2, <2>3, <2>4, RemoveKeeps
  <1> QED BY <1>3, <1>4, <1>5

\* A list more changes no todo; neither does a step of another part.
LEMMA ListsKeep ==
    ASSUME TodoRows!TodosAssumption, TodoRows!TodosInv, v1' = v1, v3' = v3, v2' \subseteq TodoLists,
           v4' \in 0..MaxTodoCalls
    PROVE  TodoRows!TodosInv'
  <1>1. /\ v1 \in [Ids -> TodoRows!Todo] /\ TodoRows!Fitting(v1) /\ v3 = [o \in Pair |-> v3[o]]
    BY DEF TodoRows!TodosInv, TodoRows!TodosTypeOK
  <1>2. ASSUME NEW o \in Pair
        PROVE  /\ v3[o].op = "create" => v1[v3[o].id].st = "none"
               /\ TodoRows!Fitting(TodoRows!Over(v3[o].put, v1))
    BY TodosParts DEF TodoRows!StageInv
  <1> QED BY <1>1, <1>2, RowsChange

\* Every call begins on a todo that is there, or on a new id.
LEMMA CallsKeep ==
    ASSUME TodoRows!TodosAssumption, TodoRows!TodosInv, NEW s \in Pair,
           \/ TodoRows!createTodo(s) \/ TodoRows!updateTodo(s) \/ TodoRows!moveTodo(s) \/ TodoRows!completeTodo(s)
           \/ TodoRows!reopenTodo(s) \/ TodoRows!deleteTodo(s) \/ TodoRows!WebCreate(s) \/ TodoRows!WebUpdate(s)
           \/ TodoRows!WebToggle(s) \/ TodoRows!WebRemove(s)
    PROVE  TodoRows!TodosInv'
  <1>0. v1 \in [Ids -> TodoRows!Todo] /\ v2 \subseteq TodoLists /\ TodoRows!Keep \notin Ids \cup {TodoRows!None}
    BY TodosParts, IdsApart
  <1>1. ASSUME NEW l \in TodoLists \cup {TodoRows!NoList}, NEW p \in Ids \cup {TodoRows!None}, TodoRows!Create(s, l, p)
        PROVE  TodoRows!TodosInv'
    <2>1. PICK i \in Ids : TodoRows!NewID(s, i) /\ TodoRows!Begin(s, "create", i, l, p, "place")
      BY <1>1 DEF TodoRows!Create
    <2>2. "create" \in TodoRows!Ops /\ p \in Ids \cup {TodoRows!None, TodoRows!Keep} /\ p # TodoRows!Keep
      BY <1>0, <1>1 DEF TodoRows!Ops
    <2> QED BY <1>1, <2>1, <2>2, CallBegins
  <1>2. ASSUME NEW i \in Ids, v1[i].st = "live", NEW l \in TodoLists \cup {TodoRows!NoList},
               NEW p \in Ids \cup {TodoRows!None, TodoRows!Keep}, NEW op \in {"move", "complete", "reopen", "delete"},
               TodoRows!Begin(s, op, i, l, p, "get")
        PROVE  TodoRows!TodosInv'
    <2>1. op \in TodoRows!Ops
      BY DEF TodoRows!Ops
    <2> QED BY <1>2, <2>1, CallBegins
  <1>3. CASE TodoRows!createTodo(s)
    BY <1>0, <1>1, <1>3 DEF TodoRows!createTodo
  <1>4. CASE TodoRows!WebCreate(s)
    <2>1. CASE TodoRows!Create(s, DefaultList, TodoRows!None)
      BY <1>1, <2>1 DEF TodoRows!TodosAssumption
    <2>2. CASE \E p \in Ids : v1[p].st = "live" /\ TodoRows!Create(s, v1[p].list, p)
      BY <1>0, <1>1, <2>2, TodoFields
    <2> QED BY <1>4, <2>1, <2>2 DEF TodoRows!WebCreate
  <1>5. CASE TodoRows!updateTodo(s) \/ TodoRows!moveTodo(s) \/ TodoRows!WebUpdate(s)
    <2>1. PICK i \in Ids, l \in TodoLists \cup {TodoRows!NoList}, p \in Ids \cup {TodoRows!None, TodoRows!Keep} :
            v1[i].st = "live" /\ TodoRows!Begin(s, "move", i, l, p, "get")
      BY <1>0, <1>5 DEF TodoRows!updateTodo, TodoRows!moveTodo, TodoRows!WebUpdate, TodoRows!Move, TodoRows!Update
    <2> QED BY <1>2, <2>1
  <1>6. CASE \/ TodoRows!completeTodo(s) \/ TodoRows!reopenTodo(s) \/ TodoRows!deleteTodo(s) \/ TodoRows!WebToggle(s)
             \/ TodoRows!WebRemove(s)
    <2>1. PICK i \in Ids, op \in {"complete", "reopen", "delete"} :
            v1[i].st = "live" /\ TodoRows!Begin(s, op, i, TodoRows!NoList, TodoRows!None, "get")
      BY <1>6 DEF TodoRows!completeTodo, TodoRows!reopenTodo, TodoRows!deleteTodo, TodoRows!WebToggle,
         TodoRows!WebRemove, TodoRows!Complete, TodoRows!Reopen, TodoRows!Delete
    <2> QED BY <1>2, <2>1
  <1> QED BY <1>3, <1>4, <1>5, <1>6

LEMMA TodosKeep ==
    ASSUME TodoRows!TodosAssumption, TodoRows!TodosInv, TodoRows!TodosNext
    PROVE  TodoRows!TodosInv'
  <1>1. ASSUME NEW s \in Pair,
               \/ TodoRows!createTodo(s) \/ TodoRows!updateTodo(s) \/ TodoRows!moveTodo(s) \/ TodoRows!completeTodo(s)
               \/ TodoRows!reopenTodo(s) \/ TodoRows!deleteTodo(s) \/ TodoRows!WebCreate(s) \/ TodoRows!WebUpdate(s)
               \/ TodoRows!WebToggle(s) \/ TodoRows!WebRemove(s)
        PROVE  TodoRows!TodosInv'
    BY <1>1, CallsKeep
  <1>2. ASSUME NEW s \in Pair,
               \/ TodoRows!Restore(s) \/ TodoRows!Get(s) \/ TodoRows!PlaceKept(s) \/ TodoRows!PlaceTop(s)
               \/ TodoRows!PlaceUnder(s) \/ TodoRows!Rollback(s)
        PROVE  TodoRows!TodosInv'
    BY <1>2, RestoreBegins, GetKeeps, PlaceKeeps, RollbackKeeps
  <1>3. ASSUME NEW s \in Pair,
               \/ TodoRows!Insert(s) \/ TodoRows!Relocate(s) \/ TodoRows!Finish(s) \/ TodoRows!ReopenRow(s)
               \/ TodoRows!DeleteRows(s) \/ TodoRows!RestoreRows(s) \/ TodoRows!Commit(s)
        PROVE  TodoRows!TodosInv'
    BY <1>3, InsertKeeps, RelocateKeeps, FinishKeeps, ReopenKeeps, BatchKeeps, CommitKeeps
  <1>4. CASE \/ \E i \in Ids : TodoRows!PurgeItem(i)
             \/ \E t \in 0..v4 : TodoRows!PurgeDeleted(t)
             \/ \E l \in TodoLists : TodoRows!deleteTodoList(l)
    BY <1>4, PurgeKeeps DEF TodoRows!deleteTodoList
  <1>5. CASE \E l \in TodoLists : TodoRows!createTodoList(l) \/ TodoRows!WebCreateList(l)
    <2>1. PICK l \in TodoLists : TodoRows!CreateList(l)
      BY <1>5 DEF TodoRows!createTodoList, TodoRows!WebCreateList
    <2>2. v2 \subseteq TodoLists /\ v4 \in 0..MaxTodoCalls
      BY DEF TodoRows!TodosInv, TodoRows!TodosTypeOK
    <2>3. v1' = v1 /\ v3' = v3 /\ v2' \subseteq TodoLists /\ v4 < MaxTodoCalls /\ v4' = v4 + 1
      BY <2>1, <2>2 DEF TodoRows!CreateList
    <2>4. v4' \in 0..MaxTodoCalls
      BY <2>2, <2>3 DEF TodoRows!TodosAssumption
    <2> QED BY <2>3, <2>4, ListsKeep
  <1> QED BY <1>1, <1>2, <1>3, <1>4, <1>5 DEF TodoRows!TodosNext

LEMMA TodosStart ==
    ASSUME TodoRows!TodosAssumption, TodoRows!TodosInit
    PROVE  TodoRows!TodosInv
  <1>1. PICK l \in v2, sub \in {"live", "trash"} :
          v1 = [i \in Ids |->
                  IF i = 1 THEN [TodoRows!Free EXCEPT !.st = "live", !.list = DefaultList, !.root = 1]
                  ELSE IF i = 2 THEN [TodoRows!Free EXCEPT !.st = sub, !.parent = 1, !.list = DefaultList,
                                                           !.left = Count, !.root = 2]
                  ELSE IF i = 3 THEN [TodoRows!Free EXCEPT !.st = "live", !.list = l, !.root = 3]
                  ELSE TodoRows!Free]
    BY DEF TodoRows!TodosInit
  <1>2. v2 \subseteq TodoLists /\ v3 = [s \in Pair |-> TodoRows!NoTx] /\ v4 = 0
    BY DEF TodoRows!TodosInit, TodoRows!TodosAssumption
  <1>3. /\ 1 \in Ids /\ 2 \in Ids /\ 3 \in Ids /\ DefaultList \in TodoLists /\ l \in TodoLists
        /\ 0 \in 0..Count /\ Count \in 0..Count /\ 0 \in 0..MaxTodoCalls
    BY <1>1, <1>2 DEF TodoRows!TodosAssumption
  <1> DEFINE one == [TodoRows!Free EXCEPT !.st = "live", !.list = DefaultList, !.root = 1]
             two == [TodoRows!Free EXCEPT !.st = sub, !.parent = 1, !.list = DefaultList, !.left = Count, !.root = 2]
             three == [TodoRows!Free EXCEPT !.st = "live", !.list = l, !.root = 3]
  <1>4. one \in TodoRows!Todo /\ one.st = "live" /\ one.parent = TodoRows!None /\ one.list = DefaultList
    BY <1>3 DEF TodoRows!Todo, TodoRows!Free
  <1>5. two \in TodoRows!Todo /\ two.st = sub /\ two.parent = 1 /\ two.list = DefaultList
    BY <1>1, <1>3 DEF TodoRows!Todo, TodoRows!Free
  <1>6. three \in TodoRows!Todo /\ three.parent = TodoRows!None
    BY <1>3 DEF TodoRows!Todo, TodoRows!Free
  <1>7. TodoRows!Free \in TodoRows!Todo /\ TodoRows!Free.parent = TodoRows!None
    BY <1>3 DEF TodoRows!Todo, TodoRows!Free
  <1>8. v1 = [i \in Ids |-> IF i = 1 THEN one ELSE IF i = 2 THEN two ELSE IF i = 3 THEN three ELSE TodoRows!Free]
    BY <1>1
  <1> HIDE DEF one, two, three
  <1>9. v1 \in [Ids -> TodoRows!Todo]
    BY <1>4, <1>5, <1>6, <1>7, <1>8
  <1>10. TodoRows!Fitting(v1)
    <2>1. ASSUME NEW i \in Ids, TodoRows!Kept(v1[i])
          PROVE  v1[i].parent \in Ids /\ TodoRows!Fits(v1[i], v1[v1[i].parent])
      <3>1. i = 2
        BY <1>4, <1>6, <1>7, <1>8, <2>1 DEF TodoRows!Kept
      <3>2. v1[i] = two /\ v1[1] = one
        BY <1>3, <1>8, <3>1
      <3> QED BY <1>3, <1>4, <1>5, <3>2 DEF TodoRows!Fits
    <2> QED BY <2>1 DEF TodoRows!Fitting
  <1>11. \A s \in Pair : v3[s] = TodoRows!NoTx
    BY <1>2
  <1>12. TodoRows!TodosTypeOK
    BY <1>2, <1>3, <1>9, <1>11, RestingTx DEF TodoRows!TodosTypeOK
  <1>13. ASSUME NEW s \in Pair
         PROVE  TodoRows!Fitting(TodoRows!Sees(s)) /\ TodoRows!WrittenInv(v3[s]) /\ TodoRows!StageInv(v3[s])
    <2>1. TodoRows!Sees(s) = v1
      BY <1>9, <1>11, RestingTx, OverNothing DEF TodoRows!Sees
    <2>2. TodoRows!WrittenInv(v3[s]) /\ TodoRows!StageInv(v3[s])
      BY <1>11, RestingTx DEF TodoRows!WrittenInv, TodoRows!StageInv
    <2> QED BY <1>10, <2>1, <2>2
  <1>14. ASSUME NEW s \in Pair, NEW o \in Pair PROVE TodoRows!Apart(v3[s], v3[o])
    BY <1>11, RestingTx DEF TodoRows!Apart
  <1> QED BY <1>10, <1>12, <1>13, <1>14 DEF TodoRows!TodosInv, TodoRows!Others

\* For any todos, lists, requests and repetitions: a live subtask's parent is kept, has no parent
\* and is in its list, however the steps of the requests interleave.
THEOREM SubtasksFit == Spec => []OneLevel
  <1> DEFINE Inv == part = "todos" => TodoRows!TodosInv
  <1>0. TodoRows!TodosAssumption
    BY ContentAssumption
  <1>1. Init => Inv
    BY <1>0, TodosStart DEF Init
  <1>2. Inv /\ [Next]_vars => Inv'
    <2> SUFFICES ASSUME Inv, [Next]_vars, part' = "todos" PROVE TodoRows!TodosInv'
      OBVIOUS
    <2>1. part = "todos"
      BY DEF Next, vars
    <2>2. CASE UNCHANGED vars
      <3>1. v2 \subseteq TodoLists /\ v4 \in 0..MaxTodoCalls
        BY <2>1 DEF TodoRows!TodosInv, TodoRows!TodosTypeOK
      <3>2. v1' = v1 /\ v2' = v2 /\ v3' = v3 /\ v4' = v4
        BY <2>2 DEF vars
      <3> QED BY <1>0, <2>1, <3>1, <3>2, ListsKeep
    <2>3. CASE TodoRows!TodosNext
      BY <1>0, <2>1, <2>3, TodosKeep
    <2> QED BY <2>1, <2>2, <2>3 DEF Next
  <1>3. Inv => OneLevel
    <2> SUFFICES ASSUME Inv, part = "todos" PROVE TodoRows!OneLevel
      BY DEF OneLevel
    <2>1. TodoRows!Fitting(v1)
      BY DEF TodoRows!TodosInv
    <2> QED BY <2>1 DEF TodoRows!OneLevel, TodoRows!Fitting, TodoRows!Kept, TodoRows!Fits, TodoRows!Live
  <1> QED BY <1>1, <1>2, <1>3, PTL DEF Spec

\* What the invariant of the repetitions says.
LEMMA CountParts ==
    ASSUME TodoRows!TodosInv, TodoRows!CountInv
    PROVE  /\ v1 \in [Ids -> TodoRows!Todo] /\ TodoRows!Rooted /\ TodoRows!Counted
           /\ \A o \in Pair : TodoRows!Spends(v3[o].put) /\ DOMAIN v3[o].put \subseteq Ids
  <1>1. \A o \in Pair : DOMAIN v3[o].put \subseteq Ids
    BY TodosParts, TxFields DEF TodoRows!IsWrite
  <1>2. v1 \in [Ids -> TodoRows!Todo]
    BY DEF TodoRows!TodosInv, TodoRows!TodosTypeOK
  <1> QED BY <1>1, <1>2 DEF TodoRows!CountInv

\* The families do not change, and neither do the writes that are still pending.
LEMMA CountStays ==
    ASSUME TodoRows!TodosInv, TodoRows!CountInv,
           \A i \in Ids : /\ v1'[i].root = v1[i].root /\ v1'[i].left = v1[i].left
                          /\ v1'[i].st = "none" <=> v1[i].st = "none",
           \A o \in Pair : DOMAIN v3'[o].put = {} \/ v3'[o].put = v3[o].put
    PROVE  TodoRows!CountInv'
  <1>1. TodoRows!Rooted'
    BY CountParts DEF TodoRows!Rooted
  <1>2. ASSUME NEW i \in Ids, v1'[i].left > 0
        PROVE  /\ \A j \in Ids : v1'[j].root = v1'[i].root /\ v1'[j].left > 0 => j = i
               /\ TodoRows!Cardinality({j \in Ids : v1'[j].root = v1'[i].root}) + v1'[i].left = Count + 1
    <2>1. /\ \A j \in TodoRows!Family(v1[i].root) : v1[j].left > 0 => j = i
          /\ TodoRows!Cardinality(TodoRows!Family(v1[i].root)) + v1[i].left = Count + 1
      BY <1>2, CountParts DEF TodoRows!Counted
    <2>2. {j \in Ids : v1'[j].root = v1'[i].root} = TodoRows!Family(v1[i].root)
      BY DEF TodoRows!Family
    <2> QED BY <2>1, <2>2
  <1>3. TodoRows!Counted'
    BY <1>2 DEF TodoRows!Counted, TodoRows!Family
  <1>4. ASSUME NEW o \in Pair PROVE TodoRows!Spends(v3[o].put)'
    <2>1. CASE DOMAIN v3'[o].put = {}
      BY <2>1 DEF TodoRows!Spends
    <2>2. CASE v3'[o].put = v3[o].put
      <3>1. TodoRows!Spends(v3[o].put) /\ DOMAIN v3[o].put \subseteq Ids
        BY CountParts
      <3> QED BY <2>2, <3>1 DEF TodoRows!Spends
    <2> QED BY <2>1, <2>2
  <1> QED BY <1>1, <1>3, <1>4 DEF TodoRows!CountInv

\* One transaction goes on, with nothing written or what it had written.
LEMMA WritesStay ==
    ASSUME TodoRows!TodosInv, TodoRows!CountInv, NEW s \in Pair, NEW c, v3' = [v3 EXCEPT ![s] = c],
           v1' = v1, DOMAIN c.put = {} \/ c.put = v3[s].put
    PROVE  TodoRows!CountInv'
  <1>1. v3 = [o \in Pair |-> v3[o]]
    BY DEF TodoRows!TodosInv, TodoRows!TodosTypeOK
  <1>2. \A o \in Pair : v3'[o] = IF o = s THEN c ELSE v3[o]
    BY <1>1
  <1> QED BY <1>2, CountStays

\* A call that begins has written nothing.
LEMMA BegunWrites ==
    ASSUME NEW pc, NEW op, NEW i, NEW l, NEW p, NEW at
    PROVE  DOMAIN TodoRows!Begun(pc, op, i, l, p, at).put = {}
  <1>1. TodoRows!Begun(pc, op, i, l, p, at).put = <<>>
    BY DEF TodoRows!Begun
  <1> QED BY <1>1, EmptyWrite

\* A statement that keeps the rules of its todos.
LEMMA StatementCounts ==
    ASSUME TodoRows!TodosInv, TodoRows!CountInv, NEW s \in Pair, v3[s].pc = "write", NEW w, TodoRows!IsWrite(w),
           NEW shared, TodoRows!Statement(s, w, shared), TodoRows!Spends(w)
    PROVE  TodoRows!CountInv'
  <1> DEFINE x == v3[s]
             put == TodoRows!Over(w, x.put)
             c == [x EXCEPT !.put = put, !.locks = @ \cup DOMAIN w \cup shared,
                            !.advisory = @ \cup TodoRows!Advised(w), !.pc = "commit"]
  <1>1. v3' = [v3 EXCEPT ![s] = c] /\ v1' = v1
    BY DEF TodoRows!Statement
  <1>2. TodoRows!IsTx(x) /\ DOMAIN x.put = {}
    BY TodosParts DEF TodoRows!StageInv
  <1>3. put = w
    BY <1>2, OverEmpty DEF TodoRows!IsWrite
  <1> HIDE DEF put
  <1>4. c.put = w
    BY <1>2, <1>3 DEF TodoRows!IsTx
  <1> HIDE DEF c
  <1>5. v3 = [o \in Pair |-> v3[o]]
    BY DEF TodoRows!TodosInv, TodoRows!TodosTypeOK
  <1>6. \A o \in Pair : v3'[o] = IF o = s THEN c ELSE v3[o]
    BY <1>1, <1>5
  <1>7. \A o \in Pair : TodoRows!Spends(v3'[o].put)
    BY <1>4, <1>6, CountParts
  <1>8. ASSUME NEW o \in Pair PROVE TodoRows!Spends(v3[o].put)'
    BY <1>1, <1>7 DEF TodoRows!Spends
  <1>9. TodoRows!Rooted' /\ TodoRows!Counted'
    BY <1>1, CountParts DEF TodoRows!Rooted, TodoRows!Counted, TodoRows!Family
  <1> QED BY <1>8, <1>9 DEF TodoRows!CountInv

\* A statement that writes todos with their rule, or without.
LEMMA KeptCounts ==
    ASSUME TodoRows!TodosInv, TodoRows!CountInv, NEW s \in Pair, v3[s].pc = "write", NEW w, TodoRows!IsWrite(w),
           NEW shared, TodoRows!Statement(s, w, shared),
           \A i \in DOMAIN w : v1[i].st # "none" /\ w[i].root = v1[i].root /\ w[i].left \in {v1[i].left, 0}
    PROVE  TodoRows!CountInv'
  <1>1. TodoRows!Spends(w)
    BY DEF TodoRows!Spends
  <1> QED BY <1>1, StatementCounts

LEMMA InsertCounts ==
    ASSUME TodoRows!TodosAssumption, TodoRows!TodosInv, TodoRows!CountInv, NEW s \in Pair, TodoRows!Insert(s)
    PROVE  TodoRows!CountInv'
  <1> DEFINE c == v3[s]
  <1>1. PICK k \in {0, Count} :
          TodoRows!Statement(s, TodoRows!Row(c.id, [TodoRows!Free EXCEPT !.st = "live", !.parent = c.parent,
              !.list = c.list, !.left = k, !.root = c.id]), {c.parent} \ {TodoRows!None})
    BY DEF TodoRows!Insert
  <1> DEFINE t == [TodoRows!Free EXCEPT !.st = "live", !.parent = c.parent, !.list = c.list, !.left = k, !.root = c.id]
             w == TodoRows!Row(c.id, t)
             shared == {c.parent} \ {TodoRows!None}
  <1>2. c.pc = "write" /\ c.op = "create" /\ TodoRows!Statement(s, w, shared)
    BY <1>1 DEF TodoRows!Insert
  <1>3. TodoRows!IsTx(c) /\ TodoRows!StageInv(c)
    BY TodosParts
  <1>4. c.id \in Ids /\ v1[c.id].st = "none" /\ c.parent # TodoRows!Keep /\ TodoRows!Placed(c)
    BY <1>2, <1>3 DEF TodoRows!StageInv
  <1>5. c.parent \in Ids \cup {TodoRows!None} /\ c.list \in TodoLists \cup {TodoRows!NoList}
    BY <1>3, <1>4, TxFields
  <1>6. k \in 0..Count /\ 0 \in 0..MaxTodoCalls
    BY DEF TodoRows!TodosAssumption
  <1>7. t \in TodoRows!Todo /\ t.left = k /\ t.root = c.id
    BY <1>4, <1>5, <1>6 DEF TodoRows!Todo, TodoRows!Free
  <1> HIDE DEF t
  <1>8. TodoRows!IsWrite(w) /\ DOMAIN w = {c.id} /\ w[c.id] = t
    BY <1>4, <1>7, RowWrite
  <1> HIDE DEF w, shared
  <1>9. TodoRows!Spends(w)
    BY <1>4, <1>7, <1>8 DEF TodoRows!Spends
  <1> QED BY <1>2, <1>8, <1>9, StatementCounts

\* Rows that are: what a call writes of them keeps its rule.
LEMMA ReopenCounts ==
    ASSUME TodoRows!TodosInv, TodoRows!CountInv, NEW s \in Pair, TodoRows!ReopenRow(s)
    PROVE  TodoRows!CountInv'
  <1> DEFINE i == v3[s].id
             t == [v1[i] EXCEPT !.open = TRUE]
             w == TodoRows!Row(i, t)
  <1>1. /\ v3[s].pc = "write" /\ v3[s].op = "reopen"
        /\ TodoRows!Statement(s, <<>>, {}) \/ TodoRows!Statement(s, w, {})
    BY DEF TodoRows!ReopenRow
  <1>2. i \in Ids /\ v1[i].st = "live" /\ v1[i] \in TodoRows!Todo
    BY <1>1, HeldRow
  <1>3. t \in TodoRows!Todo /\ t.root = v1[i].root /\ t.left = v1[i].left
    BY <1>2 DEF TodoRows!Todo
  <1> HIDE DEF t
  <1>4. TodoRows!IsWrite(w) /\ DOMAIN w = {i} /\ w[i] = t
    BY <1>2, <1>3, RowWrite
  <1> HIDE DEF w
  <1>5. CASE TodoRows!Statement(s, <<>>, {})
    BY <1>1, <1>5, EmptyWrite, KeptCounts
  <1>6. CASE TodoRows!Statement(s, w, {})
    BY <1>1, <1>2, <1>3, <1>4, <1>6, KeptCounts
  <1> QED BY <1>1, <1>5, <1>6

LEMMA BatchCounts ==
    ASSUME TodoRows!TodosAssumption, TodoRows!TodosInv, TodoRows!CountInv, NEW s \in Pair,
           TodoRows!DeleteRows(s) \/ TodoRows!RestoreRows(s)
    PROVE  TodoRows!CountInv'
  <1>0. v3[s].pc = "write"
    BY DEF TodoRows!DeleteRows, TodoRows!RestoreRows
  <1>1. v1 \in [Ids -> TodoRows!Todo] /\ v3[s].at \in 0..MaxTodoCalls /\ 0 \in 0..MaxTodoCalls
    BY TodosParts, TxFields DEF TodoRows!TodosAssumption
  <1>2. ASSUME NEW batch \in SUBSET Ids, \A i \in batch : v1[i].st # "none",
               NEW st \in {"live", "trash"}, NEW at \in 0..MaxTodoCalls,
               TodoRows!Statement(s, [i \in batch |-> [v1[i] EXCEPT !.st = st, !.at = at]], {})
        PROVE  TodoRows!CountInv'
    <2> DEFINE w == [i \in batch |-> [v1[i] EXCEPT !.st = st, !.at = at]]
    <2>1. ASSUME NEW i \in batch PROVE w[i] \in TodoRows!Todo /\ w[i].root = v1[i].root /\ w[i].left = v1[i].left
      <3>1. v1[i] \in TodoRows!Todo
        BY <1>1
      <3>2. w[i] = [v1[i] EXCEPT !.st = st, !.at = at]
        OBVIOUS
      <3> HIDE DEF w
      <3> QED BY <1>1, <1>2, <3>1, <3>2 DEF TodoRows!Todo
    <2>2. w \in [batch -> TodoRows!Todo] /\ DOMAIN w = batch
      BY <2>1
    <2>3. TodoRows!Statement(s, w, {})
      BY <1>2
    <2> HIDE DEF w
    <2>4. TodoRows!IsWrite(w)
      BY <1>2, <2>2 DEF TodoRows!IsWrite
    <2> QED BY <1>0, <1>2, <2>1, <2>2, <2>3, <2>4, KeptCounts
  <1>3. CASE TodoRows!DeleteRows(s)
    <2> DEFINE batch == {i \in Ids : TodoRows!Live(v1, i) /\ v3[s].id \in {i, v1[i].parent}}
    <2>1. TodoRows!Statement(s, [i \in batch |-> [v1[i] EXCEPT !.st = "trash", !.at = v3[s].at]], {})
      BY <1>3 DEF TodoRows!DeleteRows
    <2>2. batch \in SUBSET Ids /\ \A i \in batch : v1[i].st # "none"
      BY DEF TodoRows!Live
    <2> HIDE DEF batch
    <2> QED BY <1>1, <1>2, <2>1, <2>2
  <1>4. CASE TodoRows!RestoreRows(s)
    <2> DEFINE batch == {i \in Ids : v1[i].st = "trash" /\ v1[i].at = v3[s].at /\ v3[s].id \in {i, v1[i].parent}}
    <2>1. TodoRows!Statement(s, [i \in batch |-> [v1[i] EXCEPT !.st = "live", !.at = 0]], {})
      BY <1>4 DEF TodoRows!RestoreRows
    <2>2. batch \in SUBSET Ids /\ \A i \in batch : v1[i].st # "none"
      OBVIOUS
    <2> HIDE DEF batch
    <2> QED BY <1>1, <1>2, <2>1, <2>2
  <1> QED BY <1>3, <1>4

LEMMA RelocateCounts ==
    ASSUME TodoRows!TodosAssumption, TodoRows!TodosInv, TodoRows!CountInv, NEW s \in Pair, TodoRows!Relocate(s)
    PROVE  TodoRows!CountInv'
  <1> DEFINE c == v3[s]
             t == v1[c.id]
             moved == [t EXCEPT !.parent = c.parent, !.list = c.list]
             along == IF c.list = t.list THEN {} ELSE TodoRows!Under({c.id})
             D == along \cup {c.id}
             w == [i \in D |-> IF i = c.id THEN moved ELSE [v1[i] EXCEPT !.list = c.list]]
             shared == {c.parent} \ {TodoRows!None}
  <1>1. c.pc = "write" /\ c.op = "move" /\ TodoRows!Statement(s, w, shared)
    BY DEF TodoRows!Relocate
  <1>2. c.id \in Ids /\ t.st = "live" /\ v1 \in [Ids -> TodoRows!Todo]
    BY <1>1, HeldRow, TodosParts
  <1>3. TodoRows!IsTx(c) /\ TodoRows!StageInv(c) /\ c.list \in TodoLists \cup {TodoRows!NoList}
    BY TodosParts, TxFields
  <1>4. TodoRows!Placed(c) \/ c.parent = t.parent
    BY <1>1, <1>3 DEF TodoRows!StageInv
  <1>5. c.parent \in Ids \cup {TodoRows!None}
    BY <1>2, <1>3, <1>4, TodoFields, TxFields DEF TodoRows!Placed
  <1>6. D \subseteq Ids /\ c.id \in D /\ \A j \in D : v1[j].st # "none"
    <2>1. {c.id} \in SUBSET Ids
      BY <1>2
    <2> QED BY <1>2, <2>1, UnderClosed
  <1> HIDE DEF D
  <1>7. moved \in TodoRows!Todo /\ moved.root = t.root /\ moved.left = t.left
    <2> DEFINE y == [t EXCEPT !.parent = c.parent]
    <2>1. y \in TodoRows!Todo /\ y.root = t.root /\ y.left = t.left
      BY <1>2, <1>5 DEF TodoRows!Todo
    <2>2. moved = [y EXCEPT !.list = c.list]
      OBVIOUS
    <2> HIDE DEF y, moved
    <2> QED BY <1>2, <1>3, <2>1, <2>2 DEF TodoRows!Todo
  <1>8. \A j \in Ids : LET x == [v1[j] EXCEPT !.list = c.list]
                       IN  x \in TodoRows!Todo /\ x.root = v1[j].root /\ x.left = v1[j].left
    BY <1>2, <1>3 DEF TodoRows!Todo
  <1> HIDE DEF moved
  <1>9. \A i \in D : w[i] \in TodoRows!Todo /\ w[i].root = v1[i].root /\ w[i].left = v1[i].left
    BY <1>6, <1>7, <1>8
  <1>10. w \in [D -> TodoRows!Todo] /\ DOMAIN w = D
    BY <1>9
  <1> HIDE DEF w, shared
  <1>11. TodoRows!IsWrite(w)
    BY <1>6, <1>10 DEF TodoRows!IsWrite
  <1> QED BY <1>1, <1>6, <1>9, <1>10, <1>11, KeptCounts

\* The steps of a call before and after its statement.
LEMMA StepCounts ==
    ASSUME TodoRows!TodosAssumption, TodoRows!TodosInv, TodoRows!CountInv, NEW s \in Pair,
           \/ TodoRows!Get(s) \/ TodoRows!PlaceKept(s) \/ TodoRows!PlaceTop(s) \/ TodoRows!PlaceUnder(s)
           \/ TodoRows!Restore(s) \/ TodoRows!Rollback(s)
           \/ \E op, i, l, p, pc : TodoRows!Begin(s, op, i, l, p, pc)
    PROVE  TodoRows!CountInv'
  <1> DEFINE x == v3[s]
  <1>1. TodoRows!IsTx(x)
    BY TodosParts
  <1>2. CASE TodoRows!Rollback(s)
    BY <1>2, RestingTx, WritesStay DEF TodoRows!Rollback
  <1>3. CASE \E op, i, l, p, pc : TodoRows!Begin(s, op, i, l, p, pc)
    <2>1. PICK op, i, l, p, pc : TodoRows!Begin(s, op, i, l, p, pc)
      BY <1>3
    <2> DEFINE c == TodoRows!Begun(pc, op, i, l, p, v4 + 1)
    <2>2. v3' = [v3 EXCEPT ![s] = c] /\ v1' = v1
      BY <2>1 DEF TodoRows!Begin
    <2>3. DOMAIN c.put = {}
      BY BegunWrites
    <2> HIDE DEF c
    <2> QED BY <2>2, <2>3, WritesStay
  <1>4. CASE TodoRows!Restore(s)
    <2>1. PICK i \in Ids :
            /\ v3' = [v3 EXCEPT ![s] = TodoRows!Begun("write", "restore", i, TodoRows!NoList, TodoRows!None, v1[i].at)]
            /\ v1' = v1
      BY <1>4 DEF TodoRows!Restore
    <2> DEFINE c == TodoRows!Begun("write", "restore", i, TodoRows!NoList, TodoRows!None, v1[i].at)
    <2>2. v3' = [v3 EXCEPT ![s] = c]
      BY <2>1
    <2>3. DOMAIN c.put = {}
      BY BegunWrites
    <2> HIDE DEF c
    <2> QED BY <2>1, <2>2, <2>3, WritesStay
  <1>5. CASE TodoRows!Get(s)
    <2> DEFINE pc == IF x.op = "move" THEN "place" ELSE "write"
               c == [x EXCEPT !.locks = @ \cup {x.id}, !.pc = pc]
    <2>1. v3' = [v3 EXCEPT ![s] = c] /\ v1' = v1
      BY <1>5 DEF TodoRows!Get
    <2>2. c.put = x.put
      BY <1>1 DEF TodoRows!IsTx
    <2> HIDE DEF c
    <2> QED BY <2>1, <2>2, WritesStay
  <1>6. CASE TodoRows!PlaceKept(s)
    <2> DEFINE t == v1[x.id]
               l == IF x.list = TodoRows!NoList THEN t.list ELSE x.list
               c == [x EXCEPT !.pc = "write", !.list = l, !.parent = t.parent]
    <2>1. v3' = [v3 EXCEPT ![s] = c] /\ v1' = v1
      BY <1>6 DEF TodoRows!PlaceKept
    <2>2. c.put = x.put
      BY <1>1 DEF TodoRows!IsTx
    <2> HIDE DEF c
    <2> QED BY <2>1, <2>2, WritesStay
  <1>7. CASE TodoRows!PlaceTop(s)
    <2> DEFINE l == IF x.list = TodoRows!NoList THEN v1[x.id].list ELSE x.list
               c == [x EXCEPT !.pc = "write", !.list = l]
    <2>1. v3' = [v3 EXCEPT ![s] = c] /\ v1' = v1
      BY <1>7 DEF TodoRows!PlaceTop
    <2>2. c.put = x.put
      BY <1>1 DEF TodoRows!IsTx
    <2> HIDE DEF c
    <2> QED BY <2>1, <2>2, WritesStay
  <1>8. CASE TodoRows!PlaceUnder(s)
    <2> DEFINE c == [x EXCEPT !.pc = "write", !.locks = @ \cup {x.parent}, !.list = v1[x.parent].list]
    <2>1. v3' = [v3 EXCEPT ![s] = c] /\ v1' = v1
      BY <1>8 DEF TodoRows!PlaceUnder
    <2>2. c.put = x.put
      BY <1>1 DEF TodoRows!IsTx
    <2> HIDE DEF c
    <2> QED BY <2>1, <2>2, WritesStay
  <1> QED BY <1>2, <1>3, <1>4, <1>5, <1>6, <1>7, <1>8

\* A completed todo loses its rule, and its next takes it over.
LEMMA FinishCounts ==
    ASSUME TodoRows!TodosAssumption, TodoRows!TodosInv, TodoRows!CountInv, NEW s \in Pair, TodoRows!Finish(s)
    PROVE  TodoRows!CountInv'
  <1> DEFINE c == v3[s]
             t == v1[c.id]
             d == [t EXCEPT !.open = FALSE, !.left = 0]
             done == TodoRows!Row(c.id, d)
  <1>1. c.pc = "write" /\ c.op = "complete"
    BY DEF TodoRows!Finish
  <1>2. c.id \in Ids /\ t.st = "live" /\ t \in TodoRows!Todo
    BY <1>1, HeldRow
  <1>3. FALSE \in BOOLEAN /\ 0 \in 0..Count
    BY DEF TodoRows!TodosAssumption
  <1>4. d \in TodoRows!Todo /\ d.root = t.root /\ d.left = 0
    BY <1>2, <1>3 DEF TodoRows!Todo
  <1> HIDE DEF d
  <1>5. TodoRows!IsWrite(done) /\ DOMAIN done = {c.id} /\ done[c.id] = d
    BY <1>2, <1>4, RowWrite
  <1> HIDE DEF done
  <1>6. CASE TodoRows!Statement(s, <<>>, {})
    BY <1>1, <1>6, EmptyWrite, KeptCounts
  <1>7. CASE TodoRows!Statement(s, done, {})
    BY <1>1, <1>2, <1>4, <1>5, <1>7, KeptCounts
  <1>8. ASSUME NEW i \in Ids, t.left > 1, TodoRows!NewID(s, i),
               TodoRows!Statement(s, TodoRows!Over(TodoRows!Next1(t, i), done), {t.parent} \ {TodoRows!None})
        PROVE  TodoRows!CountInv'
    <2> DEFINE n == [t EXCEPT !.left = @ - 1]
               next == TodoRows!Row(i, n)
               w == TodoRows!Over(next, done)
               shared == {t.parent} \ {TodoRows!None}
    <2>1. TodoRows!Statement(s, w, shared)
      BY <1>8 DEF TodoRows!Next1
    <2>2. v1[i].st = "none" /\ i # c.id
      BY <1>2, <1>8 DEF TodoRows!NewID
    <2>3. t.left - 1 \in 0..Count
      <3> DEFINE k == t.left
      <3>1. k \in 0..Count /\ k > 1 /\ Count \in Nat
        BY <1>2, <1>8, TodoFields DEF TodoRows!TodosAssumption
      <3> HIDE DEF k
      <3>2. k - 1 \in 0..Count
        BY <3>1
      <3> QED BY <3>2 DEF k
    <2>4. n \in TodoRows!Todo /\ n.root = t.root /\ n.left = t.left - 1
      BY <1>2, <2>3 DEF TodoRows!Todo
    <2> HIDE DEF n
    <2>5. TodoRows!IsWrite(next) /\ DOMAIN next = {i} /\ next[i] = n
      BY <2>4, RowWrite
    <2> HIDE DEF next
    <2>6. TodoRows!IsWrite(w)
      BY <1>5, <2>5, OverWrite
    <2>7. DOMAIN w = {i, c.id} /\ w[i] = n /\ w[c.id] = d
      BY <1>5, <2>2, <2>5 DEF TodoRows!Over
    <2> HIDE DEF w, shared
    <2>8. TodoRows!Spends(w)
      <3>1. ASSUME NEW j \in DOMAIN w, v1[j].st # "none"
            PROVE  w[j].root = v1[j].root /\ w[j].left \in {v1[j].left, 0}
        <4>1. j = c.id
          BY <2>2, <2>7, <3>1
        <4> QED BY <1>4, <2>7, <4>1
      <3>2. ASSUME NEW j \in DOMAIN w, v1[j].st = "none"
            PROVE  /\ \A k \in DOMAIN w : v1[k].st = "none" => k = j
                   /\ \E k \in DOMAIN w : /\ v1[k].left > 1 /\ w[k].left = 0
                                          /\ w[j].root = v1[k].root /\ w[j].left = v1[k].left - 1
        <4>1. j = i /\ \A k \in DOMAIN w : v1[k].st = "none" => k = i
          BY <1>2, <2>7, <3>2
        <4>2. c.id \in DOMAIN w /\ t.left > 1 /\ w[c.id].left = 0 /\ w[i].root = t.root /\ w[i].left = t.left - 1
          BY <1>4, <1>8, <2>4, <2>7
        <4> QED BY <4>1, <4>2
      <3> QED BY <3>1, <3>2 DEF TodoRows!Spends
    <2> HIDE DEF t
    <2> QED BY <1>1, <2>1, <2>6, <2>8, StatementCounts
  <1> QED BY <1>6, <1>7, <1>8 DEF TodoRows!Finish, d, done

\* What is committed of a write: families grow by the todos it adds.
LEMMA CommitCounts ==
    ASSUME TodoRows!TodosAssumption, TodoRows!TodosInv, TodoRows!CountInv, NEW s \in Pair, TodoRows!Commit(s)
    PROVE  TodoRows!CountInv'
  <1> DEFINE x == v3[s].put
             r == TodoRows!Over(x, v1)
  <1>1. v1' = r /\ v3' = [v3 EXCEPT ![s] = TodoRows!NoTx]
    BY DEF TodoRows!Commit, TodoRows!Sees
  <1>2. /\ v1 \in [Ids -> TodoRows!Todo] /\ TodoRows!IsWrite(x) /\ DOMAIN x \subseteq Ids
        /\ TodoRows!Rooted /\ TodoRows!Counted /\ TodoRows!Spends(x) /\ TodoRows!WrittenInv(v3[s])
    BY TodosParts, CountParts, TxFields
  <1>3. \A i \in Ids : r[i] = IF i \in DOMAIN x THEN x[i] ELSE v1[i]
    BY <1>2, OverAt
  <1>4. \A i \in DOMAIN x : x[i].st # "none"
    BY <1>2 DEF TodoRows!WrittenInv
  <1>5. /\ \A i \in DOMAIN x : v1[i].st # "none" => x[i].root = v1[i].root /\ x[i].left \in {v1[i].left, 0}
        /\ \A i, j \in DOMAIN x : v1[i].st = "none" /\ v1[j].st = "none" => j = i
    BY <1>2 DEF TodoRows!Spends
  <1>6. \A i \in DOMAIN x : v1[i].st = "none" =>
             \/ x[i].root = i /\ x[i].left \in {0, Count}
             \/ \E k \in DOMAIN x : /\ v1[k].left > 1 /\ x[k].left = 0
                                    /\ x[i].root = v1[k].root /\ x[i].left = v1[k].left - 1
    BY <1>2 DEF TodoRows!Spends
  <1>7. r \in [Ids -> TodoRows!Todo]
    BY <1>2, OverTyped
  <1> HIDE DEF r, x
  <1>8. \A i \in Ids : v1[i].left \in Nat /\ r[i].left \in Nat
    <2>1. \A i \in Ids : v1[i].left \in 0..Count /\ r[i].left \in 0..Count
      BY <1>2, <1>7, TodoFields
    <2> QED BY <2>1 DEF TodoRows!TodosAssumption
  <1>9. \A i \in Ids : v1[i].st = "none" => v1[i].left = 0 /\ v1[i].root = TodoRows!None
    BY <1>2 DEF TodoRows!Rooted
  <1>10. \A i \in Ids : v1[i].st # "none" => v1[i].root \in Ids /\ v1[v1[i].root].st # "none"
    BY <1>2 DEF TodoRows!Rooted
  <1>11. \A i \in Ids : v1[i].st # "none" => /\ r[i].st # "none" /\ r[i].root = v1[i].root
                                             /\ r[i].left \in {v1[i].left, 0}
    BY <1>3, <1>4, <1>5
  <1>12. \A i \in Ids : v1[i].left > 0 => v1[i].st # "none"
    BY <1>9
  <1>13. TodoRows!None \notin Ids
    BY IdsApart
  \* What a family was and is, of those that have a rule.
  <1>14. ASSUME NEW i \in Ids, v1[i].left > 0
         PROVE  /\ \A j \in Ids : v1[j].root = v1[i].root /\ v1[j].left > 0 => j = i
                /\ TodoRows!Cardinality(TodoRows!Family(v1[i].root)) + v1[i].left = Count + 1
    BY <1>2, <1>14 DEF TodoRows!Counted, TodoRows!Family
  \* A todo that is new, and the one whose rule it takes over.
  <1>15. ASSUME NEW i \in Ids, v1[i].st = "none", i \in DOMAIN x
         PROVE  \/ r[i].root = i /\ r[i].left \in {0, Count}
                \/ \E k \in Ids : /\ v1[k].left > 1 /\ r[k].left = 0 /\ v1[k].st # "none"
                                  /\ r[i].root = v1[k].root /\ r[i].left = v1[k].left - 1
    <2>1. CASE x[i].root = i /\ x[i].left \in {0, Count}
      BY <1>3, <1>15, <2>1
    <2>2. CASE \E k \in DOMAIN x : /\ v1[k].left > 1 /\ x[k].left = 0
                                   /\ x[i].root = v1[k].root /\ x[i].left = v1[k].left - 1
      <3>1. PICK k \in DOMAIN x : /\ v1[k].left > 1 /\ x[k].left = 0
                                  /\ x[i].root = v1[k].root /\ x[i].left = v1[k].left - 1
        BY <2>2
      <3>2. k \in Ids /\ v1[k].left \in Nat
        BY <1>2, <1>8
      <3>3. v1[k].left > 0
        BY <3>1, <3>2
      <3>4. r[k] = x[k] /\ r[i] = x[i] /\ v1[k].st # "none"
        BY <1>3, <1>12, <1>15, <3>2, <3>3
      <3> QED BY <3>1, <3>2, <3>4
    <2> QED BY <1>6, <1>15, <2>1, <2>2
  <1>16. TodoRows!Rooted'
    <2>1. ASSUME NEW i \in Ids
          PROVE  \/ r[i].st = "none" /\ r[i].left = 0 /\ r[i].root = TodoRows!None
                 \/ r[i].st # "none" /\ r[i].root \in Ids /\ r[r[i].root].st # "none"
      <3>1. CASE v1[i].st # "none"
        BY <1>10, <1>11, <3>1
      <3>2. CASE v1[i].st = "none" /\ i \notin DOMAIN x
        BY <1>3, <1>9, <3>2
      <3>3. CASE v1[i].st = "none" /\ i \in DOMAIN x
        <4>1. r[i].st # "none"
          BY <1>3, <1>4, <3>3
        <4> QED BY <1>10, <1>11, <1>15, <3>3, <4>1
      <3> QED BY <3>1, <3>2, <3>3
    <2> QED BY <1>1, <2>1 DEF TodoRows!Rooted
  <1>17. ASSUME NEW i \in Ids, r[i].left > 0
         PROVE  /\ \A j \in Ids : r[j].root = r[i].root /\ r[j].left > 0 => j = i
                /\ TodoRows!Cardinality({j \in Ids : r[j].root = r[i].root}) + r[i].left = Count + 1
    <2>1. CASE v1[i].st # "none"
      <3>1. /\ v1[i].left > 0 /\ r[i].left = v1[i].left /\ r[i].root = v1[i].root /\ v1[i].root \in Ids
            /\ v1[v1[i].root].st # "none"
        BY <1>8, <1>10, <1>11, <1>17, <2>1
      <3>2. ASSUME NEW j \in Ids
            PROVE  r[j].root = r[i].root <=> v1[j].root = v1[i].root
        <4>1. CASE v1[j].st # "none"
          BY <1>11, <3>1, <4>1
        <4>2. CASE v1[j].st = "none" /\ j \notin DOMAIN x
          BY <1>3, <3>1, <4>2
        <4>3. CASE v1[j].st = "none" /\ j \in DOMAIN x
          <5>1. v1[j].root # v1[i].root
            BY <1>9, <1>13, <3>1, <4>3
          <5>2. r[j].root # v1[i].root
            <6>1. CASE r[j].root = j
              BY <3>1, <4>3, <6>1
            <6>2. CASE \E k \in Ids : v1[k].left > 1 /\ r[k].left = 0 /\ r[j].root = v1[k].root
              <7>1. PICK k \in Ids : v1[k].left > 1 /\ r[k].left = 0 /\ r[j].root = v1[k].root
                BY <6>2
              <7>2. v1[k].left > 0
                BY <1>8, <7>1
              <7>3. k # i
                BY <1>17, <7>1
              <7> QED BY <1>14, <3>1, <7>1, <7>2, <7>3
            <6> QED BY <1>15, <4>3, <6>1, <6>2
          <5> QED BY <3>1, <5>1, <5>2
        <4> QED BY <4>1, <4>2, <4>3
      <3>3. {j \in Ids : r[j].root = r[i].root} = TodoRows!Family(v1[i].root)
        BY <3>2 DEF TodoRows!Family
      <3>4. ASSUME NEW j \in Ids, r[j].root = r[i].root, r[j].left > 0
            PROVE  j = i
        <4>1. v1[j].root = v1[i].root
          BY <3>2, <3>4
        <4>2. v1[j].st # "none"
          BY <1>9, <1>13, <3>1, <4>1
        <4>3. v1[j].left > 0
          BY <1>8, <1>11, <3>4, <4>2
        <4> QED BY <1>14, <3>1, <4>1, <4>3
      <3> QED BY <1>14, <3>1, <3>3, <3>4
    <2>2. CASE v1[i].st = "none"
      <3>1. i \in DOMAIN x
        BY <1>3, <1>9, <1>17, <2>2
      <3>2. ASSUME NEW j \in Ids, j # i, r[j].root \in Ids
            PROVE  v1[j].st # "none"
        BY <1>3, <1>5, <1>9, <1>13, <2>2, <3>1, <3>2
      <3>3. CASE r[i].root = i /\ r[i].left \in {0, Count}
        <4>1. ASSUME NEW j \in Ids, r[j].root = i PROVE j = i
          BY <1>10, <1>11, <2>2, <3>2, <4>1
        <4>2. {j \in Ids : r[j].root = r[i].root} = {i}
          BY <3>3, <4>1
        <4>3. TodoRows!Cardinality({i}) = 1
          BY TodosSize, FS_Singleton
        <4>4. r[i].left = Count /\ Count \in Nat
          BY <1>17, <3>3 DEF TodoRows!TodosAssumption
        <4>5. \A j \in Ids : r[j].root = r[i].root /\ r[j].left > 0 => j = i
          BY <3>3, <4>1
        <4>6. TodoRows!Cardinality({j \in Ids : r[j].root = r[i].root}) = 1
          BY <4>2, <4>3
        <4>7. 1 + r[i].left = Count + 1
          BY <4>4
        <4> QED BY <4>5, <4>6, <4>7
      <3>4. CASE \E k \in Ids : /\ v1[k].left > 1 /\ r[k].left = 0 /\ v1[k].st # "none"
                                /\ r[i].root = v1[k].root /\ r[i].left = v1[k].left - 1
        <4>1. PICK k \in Ids : /\ v1[k].left > 1 /\ r[k].left = 0 /\ v1[k].st # "none"
                               /\ r[i].root = v1[k].root /\ r[i].left = v1[k].left - 1
          BY <3>4
        <4> DEFINE F == TodoRows!Family(v1[k].root)
                   n == v1[k].left
                   m == TodoRows!Cardinality(F)
        <4>2. n \in Nat /\ v1[k].left > 0 /\ v1[k].root \in Ids
          BY <1>8, <1>10, <4>1
        <4>3. i \notin F /\ F \subseteq Ids
          BY <1>9, <1>13, <2>2, <4>2 DEF TodoRows!Family
        <4>4. {j \in Ids : r[j].root = r[i].root} = F \cup {i}
          <5>1. ASSUME NEW j \in Ids, j # i PROVE r[j].root = r[i].root <=> j \in F
            <6>1. CASE v1[j].st # "none"
              BY <1>11, <4>1, <6>1 DEF TodoRows!Family
            <6>2. CASE v1[j].st = "none"
              BY <1>9, <1>13, <3>2, <4>1, <4>2, <5>1, <6>2 DEF TodoRows!Family
            <6> QED BY <6>1, <6>2
          <5> QED BY <4>3, <5>1
        <4>5. m + n = Count + 1
          BY <1>14, <4>2
        <4>6. IsFiniteSet(F)
          <5>1. IsFiniteSet(Ids)
            BY TodosSize DEF TodoRows!TodosAssumption
          <5> QED BY <4>3, <5>1, FS_Subset
        <4>7. m \in Nat /\ TodoRows!Cardinality(F \cup {i}) = m + 1
          BY <4>3, <4>6, FS_AddElement, FS_CardinalityType, TodosSize
        <4>8. ASSUME NEW j \in Ids, r[j].root = r[i].root, r[j].left > 0
              PROVE  j = i
          <5> SUFFICES ASSUME j # i PROVE FALSE
            OBVIOUS
          <5>1. v1[j].st # "none"
            BY <3>2, <4>1, <4>2, <4>8
          <5>2. v1[j].root = v1[k].root /\ v1[j].left > 0
            BY <1>8, <1>11, <4>1, <4>8, <5>1
          <5>3. j = k
            BY <1>14, <4>2, <5>2
          <5> QED BY <4>1, <4>8, <5>3
        <4>9. r[i].left = n - 1 /\ Count \in Nat
          BY <4>1 DEF TodoRows!TodosAssumption
        <4> HIDE DEF m, n
        <4>10. m + 1 + (n - 1) = Count + 1
          BY <4>2, <4>5, <4>7, <4>9
        <4> QED BY <4>4, <4>7, <4>8, <4>9, <4>10
      <3> QED BY <1>15, <2>2, <3>1, <3>3, <3>4
    <2> QED BY <2>1, <2>2
  <1>18. TodoRows!Counted'
    BY <1>1, <1>17 DEF TodoRows!Counted, TodoRows!Family
  <1>19. v3 = [o \in Pair |-> v3[o]]
    BY DEF TodoRows!TodosInv, TodoRows!TodosTypeOK
  <1>20. \A o \in Pair : v3'[o] = IF o = s THEN TodoRows!NoTx ELSE v3[o]
    BY <1>1, <1>19
  <1>21. ASSUME NEW o \in Pair PROVE TodoRows!Spends(v3[o].put)'
    <2>1. CASE o = s
      BY <1>20, <2>1, RestingTx DEF TodoRows!Spends
    <2>2. CASE o # s
      <3>1. DOMAIN v3[o].put \subseteq v3[o].locks /\ DOMAIN x \subseteq v3[s].locks /\ v3[o].locks \cap v3[s].locks = {}
        BY <1>2, <2>2, TodosParts DEF TodoRows!WrittenInv, TodoRows!Apart, x
      <3>2. TodoRows!Spends(v3[o].put) /\ DOMAIN v3[o].put \subseteq Ids
        BY CountParts
      <3>3. \A i \in DOMAIN v3[o].put : v1'[i] = v1[i]
        BY <1>1, <1>3, <3>1, <3>2
      <3>4. v3'[o].put = v3[o].put
        BY <1>20, <2>2
      <3> QED BY <3>2, <3>3, <3>4 DEF TodoRows!Spends
    <2> QED BY <2>1, <2>2
  <1> QED BY <1>16, <1>18, <1>21 DEF TodoRows!CountInv

\* Rows that go keep their place in the count.
LEMMA RemoveCounts ==
    ASSUME TodoRows!TodosInv, TodoRows!CountInv, NEW is \in SUBSET Ids, TodoRows!Remove(is),
           \A i \in is : v1[i].st \in {"live", "trash"}, v3' = v3
    PROVE  TodoRows!CountInv'
  <1> DEFINE U == TodoRows!Under(is)
  <1>1. v1' = [i \in Ids |-> IF i \in U THEN [v1[i] EXCEPT !.st = "gone"] ELSE v1[i]]
    BY DEF TodoRows!Remove
  <1>2. U \subseteq Ids /\ \A j \in U : v1[j].st \in {"live", "trash"}
    BY UnderClosed
  <1> HIDE DEF U
  <1>3. v1 \in [Ids -> TodoRows!Todo]
    BY CountParts
  <1>4. \A i \in Ids : /\ v1'[i].root = v1[i].root /\ v1'[i].left = v1[i].left
                       /\ v1'[i].st = "none" <=> v1[i].st = "none"
    BY <1>1, <1>2, <1>3 DEF TodoRows!Todo
  <1> QED BY <1>4, CountStays

LEMMA CountKeeps ==
    ASSUME TodoRows!TodosAssumption, TodoRows!TodosInv, TodoRows!CountInv, TodoRows!TodosNext
    PROVE  TodoRows!CountInv'
  <1>1. ASSUME NEW s \in Pair,
               \/ TodoRows!createTodo(s) \/ TodoRows!updateTodo(s) \/ TodoRows!moveTodo(s) \/ TodoRows!completeTodo(s)
               \/ TodoRows!reopenTodo(s) \/ TodoRows!deleteTodo(s) \/ TodoRows!WebCreate(s) \/ TodoRows!WebUpdate(s)
               \/ TodoRows!WebToggle(s) \/ TodoRows!WebRemove(s)
        PROVE  TodoRows!CountInv'
    <2>1. \E op, i, l, p, pc : TodoRows!Begin(s, op, i, l, p, pc)
      BY <1>1 DEF TodoRows!createTodo, TodoRows!updateTodo, TodoRows!moveTodo, TodoRows!completeTodo,
         TodoRows!reopenTodo, TodoRows!deleteTodo, TodoRows!WebCreate, TodoRows!WebUpdate, TodoRows!WebToggle,
         TodoRows!WebRemove, TodoRows!Create, TodoRows!Update, TodoRows!Move, TodoRows!Complete, TodoRows!Reopen,
         TodoRows!Delete
    <2> QED BY <2>1, StepCounts
  <1>2. ASSUME NEW s \in Pair,
               \/ TodoRows!Restore(s) \/ TodoRows!Get(s) \/ TodoRows!PlaceKept(s) \/ TodoRows!PlaceTop(s)
               \/ TodoRows!PlaceUnder(s) \/ TodoRows!Rollback(s)
        PROVE  TodoRows!CountInv'
    BY <1>2, StepCounts
  <1>3. ASSUME NEW s \in Pair,
               \/ TodoRows!Insert(s) \/ TodoRows!Relocate(s) \/ TodoRows!Finish(s) \/ TodoRows!ReopenRow(s)
               \/ TodoRows!DeleteRows(s) \/ TodoRows!RestoreRows(s) \/ TodoRows!Commit(s)
        PROVE  TodoRows!CountInv'
    BY <1>3, InsertCounts, RelocateCounts, FinishCounts, ReopenCounts, BatchCounts, CommitCounts
  <1>4. ASSUME NEW i \in Ids, TodoRows!PurgeItem(i) PROVE TodoRows!CountInv'
    <2> DEFINE is == {j \in Ids : v1[j].st = "trash" /\ i \in {j, v1[j].parent}}
    <2>1. TodoRows!Remove(is) /\ v3' = v3
      BY <1>4 DEF TodoRows!PurgeItem
    <2>2. is \in SUBSET Ids /\ \A j \in is : v1[j].st \in {"live", "trash"}
      OBVIOUS
    <2> HIDE DEF is
    <2> QED BY <2>1, <2>2, RemoveCounts
  <1>5. ASSUME NEW t \in 0..v4, TodoRows!PurgeDeleted(t) PROVE TodoRows!CountInv'
    <2> DEFINE is == {j \in Ids : v1[j].st = "trash" /\ v1[j].at <= t}
    <2>1. TodoRows!Remove(is) /\ v3' = v3
      BY <1>5 DEF TodoRows!PurgeDeleted
    <2>2. is \in SUBSET Ids /\ \A j \in is : v1[j].st \in {"live", "trash"}
      OBVIOUS
    <2> HIDE DEF is
    <2> QED BY <2>1, <2>2, RemoveCounts
  <1>6. ASSUME NEW l \in TodoLists, TodoRows!deleteTodoList(l) PROVE TodoRows!CountInv'
    <2> DEFINE is == {i \in Ids : v1[i].list = l /\ v1[i].st \in {"live", "trash"}}
    <2>1. TodoRows!Remove(is) /\ v3' = v3
      BY <1>6 DEF TodoRows!deleteTodoList, TodoRows!DeleteList
    <2>2. is \in SUBSET Ids /\ \A j \in is : v1[j].st \in {"live", "trash"}
      OBVIOUS
    <2> HIDE DEF is
    <2> QED BY <2>1, <2>2, RemoveCounts
  <1>7. ASSUME NEW l \in TodoLists, TodoRows!createTodoList(l) \/ TodoRows!WebCreateList(l)
        PROVE  TodoRows!CountInv'
    <2>1. v1' = v1 /\ v3' = v3
      BY <1>7 DEF TodoRows!createTodoList, TodoRows!WebCreateList, TodoRows!CreateList
    <2> QED BY <2>1, CountStays
  <1> QED BY <1>1, <1>2, <1>3, <1>4, <1>5, <1>6, <1>7 DEF TodoRows!TodosNext

LEMMA CountStart ==
    ASSUME TodoRows!TodosAssumption, TodoRows!TodosInit
    PROVE  TodoRows!CountInv
  <1>1. PICK l \in v2, sub \in {"live", "trash"} :
          v1 = [i \in Ids |->
                  IF i = 1 THEN [TodoRows!Free EXCEPT !.st = "live", !.list = DefaultList, !.root = 1]
                  ELSE IF i = 2 THEN [TodoRows!Free EXCEPT !.st = sub, !.parent = 1, !.list = DefaultList,
                                                           !.left = Count, !.root = 2]
                  ELSE IF i = 3 THEN [TodoRows!Free EXCEPT !.st = "live", !.list = l, !.root = 3]
                  ELSE TodoRows!Free]
    BY DEF TodoRows!TodosInit
  <1>2. 1 \in Ids /\ 2 \in Ids /\ 3 \in Ids /\ Count \in Nat \ {0} /\ TodoRows!None = 0 /\ TodoRows!None \notin Ids
    BY IdsApart DEF TodoRows!TodosAssumption, TodoRows!None
  <1> DEFINE one == [TodoRows!Free EXCEPT !.st = "live", !.list = DefaultList, !.root = 1]
             two == [TodoRows!Free EXCEPT !.st = sub, !.parent = 1, !.list = DefaultList, !.left = Count, !.root = 2]
             three == [TodoRows!Free EXCEPT !.st = "live", !.list = l, !.root = 3]
  <1>3. one.st # "none" /\ one.left = 0 /\ one.root = 1
    BY DEF TodoRows!Free
  <1>4. two.st # "none" /\ two.left = Count /\ two.root = 2
    BY <1>1 DEF TodoRows!Free
  <1>5. three.st # "none" /\ three.left = 0 /\ three.root = 3
    BY DEF TodoRows!Free
  <1>6. TodoRows!Free.st = "none" /\ TodoRows!Free.left = 0 /\ TodoRows!Free.root = 0
    BY <1>2 DEF TodoRows!Free
  <1>7. v1 = [i \in Ids |-> IF i = 1 THEN one ELSE IF i = 2 THEN two ELSE IF i = 3 THEN three ELSE TodoRows!Free]
    BY <1>1
  <1> HIDE DEF one, two, three
  <1>8. TodoRows!Rooted
    BY <1>2, <1>3, <1>4, <1>5, <1>6, <1>7 DEF TodoRows!Rooted
  <1>9. \A i \in Ids : v1[i].left > 0 => i = 2
    BY <1>3, <1>5, <1>6, <1>7
  <1>10. v1[2].root = 2 /\ v1[2].left = Count /\ TodoRows!Family(2) = {2}
    BY <1>2, <1>3, <1>4, <1>5, <1>6, <1>7 DEF TodoRows!Family
  <1>11. TodoRows!Cardinality({2}) = 1
    BY TodosSize, FS_Singleton
  <1>12. TodoRows!Counted
    <2>1. ASSUME NEW i \in Ids, v1[i].left > 0
          PROVE  /\ \A j \in TodoRows!Family(v1[i].root) : v1[j].left > 0 => j = i
                 /\ TodoRows!Cardinality(TodoRows!Family(v1[i].root)) + v1[i].left = Count + 1
      <3>1. i = 2
        BY <1>9, <2>1
      <3>2. 1 + Count = Count + 1
        BY <1>2
      <3> QED BY <1>10, <1>11, <3>1, <3>2
    <2> QED BY <2>1 DEF TodoRows!Counted
  <1>13. \A s \in Pair : v3[s] = TodoRows!NoTx
    BY DEF TodoRows!TodosInit
  <1>14. ASSUME NEW s \in Pair PROVE TodoRows!Spends(v3[s].put)
    BY <1>13, RestingTx DEF TodoRows!Spends
  <1> QED BY <1>8, <1>12, <1>14 DEF TodoRows!CountInv

\* For any todos, requests and repetitions: the todos a recurring one has become and those still to
\* come add up to its count, and the rule is with one of them, however it is completed, reopened,
\* deleted, restored and purged by requests at one time.
THEOREM RepeatsRight == Spec => []RepeatsExactly
  <1> DEFINE Inv == part = "todos" => TodoRows!TodosInv /\ TodoRows!CountInv
  <1>0. TodoRows!TodosAssumption
    BY ContentAssumption
  <1>1. Init => Inv
    BY <1>0, TodosStart, CountStart DEF Init
  <1>2. Inv /\ [Next]_vars => Inv'
    <2> SUFFICES ASSUME Inv, [Next]_vars, part' = "todos"
                 PROVE  TodoRows!TodosInv' /\ TodoRows!CountInv'
      OBVIOUS
    <2>1. part = "todos"
      BY DEF Next, vars
    <2>2. CASE UNCHANGED vars
      <3>1. v2 \subseteq TodoLists /\ v4 \in 0..MaxTodoCalls
        BY <2>1 DEF TodoRows!TodosInv, TodoRows!TodosTypeOK
      <3>2. v1' = v1 /\ v2' = v2 /\ v3' = v3 /\ v4' = v4
        BY <2>2 DEF vars
      <3> QED BY <1>0, <2>1, <3>1, <3>2, ListsKeep, CountStays
    <2>3. CASE TodoRows!TodosNext
      BY <1>0, <2>1, <2>3, TodosKeep, CountKeeps
    <2> QED BY <2>1, <2>2, <2>3 DEF Next
  <1>3. Inv => RepeatsExactly
    <2> SUFFICES ASSUME Inv, part = "todos" PROVE TodoRows!RepeatsExactly
      BY DEF RepeatsExactly
    <2>1. \A i \in Ids : v1[i].left > 0 =>
            /\ \A j \in TodoRows!Family(v1[i].root) : v1[j].left > 0 => j = i
            /\ TodoRows!Cardinality(TodoRows!Family(v1[i].root)) + v1[i].left = Count + 1
      BY DEF TodoRows!CountInv, TodoRows!Counted
    <2>2. ASSUME NEW r \in Ids, NEW i \in Ids, v1[i].root = r, v1[i].left > 0
          PROVE  LET of == {j \in Ids : v1[j].root = r}
                     ruled == {j \in of : v1[j].left > 0}
                 IN  /\ TodoRows!Cardinality(ruled) = 1
                     /\ \A j \in ruled : TodoRows!Cardinality(of) + v1[j].left - 1 = Count
      <3> DEFINE of == {j \in Ids : v1[j].root = r}
                 ruled == {j \in of : v1[j].left > 0}
                 m == TodoRows!Cardinality(of)
                 n == v1[i].left
      <3>1. of = TodoRows!Family(v1[i].root)
        BY <2>2 DEF TodoRows!Family
      <3>2. (\A j \in of : v1[j].left > 0 => j = i) /\ m + n = Count + 1
        BY <2>1, <2>2, <3>1
      <3>3. ruled = {i}
        BY <2>2, <3>2
      <3>4. TodoRows!Cardinality({i}) = 1
        BY TodosSize, FS_Singleton
      <3>5. IsFiniteSet(Ids) /\ of \subseteq Ids /\ Count \in Nat
        BY <1>0, TodosSize DEF TodoRows!TodosAssumption
      <3>6. m \in Nat
        BY <3>5, FS_Subset, FS_CardinalityType, TodosSize
      <3>7. n \in Nat
        <4>1. v1[i].left \in 0..Count
          BY <2>2, TodoFields DEF TodoRows!TodosInv, TodoRows!TodosTypeOK
        <4> QED BY <3>5, <4>1
      <3> HIDE DEF m, n
      <3>8. m + n - 1 = Count
        BY <3>2, <3>5, <3>6, <3>7
      <3> QED BY <3>3, <3>4, <3>8 DEF m, n
    <2> QED BY <2>2 DEF TodoRows!RepeatsExactly
  <1> QED BY <1>1, <1>2, <1>3, PTL DEF Spec
=============================================================================
