------------------------- MODULE EventEditsProofs --------------------------
(***************************************************************************)
(* What the edits, deletions and restores of EventSeries keep, for all     *)
(* ids, contents, rules and patches.  Splitting a series leaves its head   *)
(* what it was before the split (RuleHead); from there, operation by       *)
(* operation: changed occurrences stand for occurrences of their series,   *)
(* the past of a series that is cut stays, and a restore is exact.  Last,  *)
(* the times: an edit of one occurrence touches one line, and a series     *)
(* that is split or moved keeps its times.                                 *)
(***************************************************************************)
EXTENDS EventSeriesProofs

\* The part of the assumption on the constants that most steps need.
LEMMA Constants ==
    /\ Ids \subseteq Nat /\ Nil \notin Ids /\ Horizon \in Nat
    /\ Creations \subseteq Event /\ Patches \subseteq Patch
  BY SeriesAssumption

USE Constants

-----------------------------------------------------------------------------
(* Splitting a rule. *)

\* A rule that repeats; if it counts, it counts from the start of its event.
GoodRule(r) == r # NoRule => r.step > 0 /\ (r.count > 0 => r.anchor = NoTime /\ r.until = NoTime)

\* The number of instants of the rule before t.
Rank(r, start, t) == Cardinality({u \in OnRule(r, start) : u < t})

LEMMA OnTyped ==
    ASSUME NEW r, NEW start
    PROVE  OnRule(r, start) \subseteq Time /\ IsFiniteSet(OnRule(r, start))
  <1>1. OnRule(r, start) \subseteq Time
    BY DEF OnRule
  <1> QED
    BY <1>1, Typed, FS_Subset

\* Ranks are numbers, and a subset of instants before t has no more members than the rank of t.
LEMMA RankTyped ==
    ASSUME NEW r, NEW start, NEW t
    PROVE  /\ Rank(r, start, t) \in Nat
           /\ \A S : S \subseteq {u \in OnRule(r, start) : u < t} =>
                IsFiniteSet(S) /\ Cardinality(S) \in Nat /\ Cardinality(S) <= Rank(r, start, t)
  <1> DEFINE B == {u \in OnRule(r, start) : u < t}
  <1>1. IsFiniteSet(B)
    BY OnTyped, FS_Subset
  <1> HIDE DEF B
  <1>2. Cardinality(B) \in Nat
    BY <1>1, FS_CardinalityType
  <1>3. ASSUME NEW S, S \subseteq B
        PROVE  IsFiniteSet(S) /\ Cardinality(S) \in Nat /\ Cardinality(S) <= Cardinality(B)
    BY <1>1, <1>3, FS_Subset, FS_CardinalityType
  <1>4. Rank(r, start, t) = Cardinality(B)
    BY DEF Rank, B
  <1> QED
    BY <1>2, <1>3, <1>4 DEF B

\* An earlier instant has a rank that is no greater.
LEMMA RankGrows ==
    ASSUME NEW r, NEW start, NEW t \in Time, NEW u \in Time, u <= t
    PROVE  Rank(r, start, u) <= Rank(r, start, t)
  <1>1. \A x \in Time : x \in Int
    BY Typed
  <1>2. {x \in OnRule(r, start) : x < u} \subseteq {x \in OnRule(r, start) : x < t}
    BY <1>1, OnTyped
  <1> QED
    BY <1>2, RankTyped DEF Rank

\* The instants of the rule before `at', as Split counts them.
Before(r, start, at) == {t \in RuleTimes(r, start) : t < at}

\* What it means to be an instant of the rule.
LEMMA InRule ==
    ASSUME NEW r, NEW start, NEW t
    PROVE  t \in RuleTimes(r, start) <=>
             /\ t \in OnRule(r, start)
             /\ r.until # NoTime => t <= r.until
             /\ r.count > 0 => Rank(r, start, t) < r.count
  BY DEF RuleTimes, Rank

\* Where a rule counts, the instants it has before `at' are counted by n.
LEMMA CountedBefore ==
    ASSUME NEW r \in Rule, NEW start \in Time, NEW at \in Time, r.count > 0, r.until = NoTime,
           NEW n, n = Cardinality(Before(r, start, at)),
           NEW t \in OnRule(r, start)
    PROVE  /\ n \in Nat
           /\ t \in RuleTimes(r, start) /\ t < at => Rank(r, start, t) < n
           /\ Rank(r, start, t) < n => t \in RuleTimes(r, start) /\ t < at
  <1> DEFINE S == {u \in RuleTimes(r, start) : u < at}
             B == {u \in OnRule(r, start) : u < t}
  <1>0. /\ t \in Time /\ Time \subseteq Int /\ r.count \in Nat
        /\ \A u : u \in OnRule(r, start) => u \in Time
        /\ Rank(r, start, t) \in Nat
    BY Typed, OnTyped, RankTyped DEF Rule
  <1>1. \A u : u \in RuleTimes(r, start) <=> u \in OnRule(r, start) /\ Rank(r, start, u) < r.count
    BY InRule
  <1>2. \A u \in Time : u <= t => Rank(r, start, u) <= Rank(r, start, t)
    BY <1>0, RankGrows
  <1>3. \A u \in Time : t <= u => Rank(r, start, t) <= Rank(r, start, u)
    BY <1>0, RankGrows
  <1>4. \A u : Rank(r, start, u) \in Nat
    BY RankTyped
  <1>5. IsFiniteSet(S) /\ n = Cardinality(S) /\ n \in Nat
    BY CountTyped DEF Before
  <1>6. ASSUME t \in RuleTimes(r, start), t < at
        PROVE  Rank(r, start, t) < n
    <2>1. B \subseteq S
      <3> SUFFICES ASSUME NEW u \in B PROVE u \in S
        OBVIOUS
      <3>1. u \in OnRule(r, start) /\ u \in Int /\ t \in Int /\ at \in Int /\ u < t
        BY <1>0
      <3>2. Rank(r, start, u) <= Rank(r, start, t) /\ Rank(r, start, t) < r.count
        BY <1>0, <1>1, <1>2, <1>6, <3>1
      <3>3. u \in RuleTimes(r, start)
        BY <1>0, <1>1, <1>4, <3>1, <3>2
      <3> QED
        BY <1>6, <3>1, <3>3
    <2>2. t \in S /\ t \notin B
      BY <1>0, <1>6
    <2>3. IsFiniteSet(B) /\ Cardinality(B) \in Nat /\ Cardinality(B) = Rank(r, start, t)
      BY RankTyped DEF Rank
    <2> HIDE DEF S, B
    <2>4. B \cup {t} \subseteq S /\ IsFiniteSet(B \cup {t}) /\ Cardinality(B \cup {t}) = Cardinality(B) + 1
      BY <2>1, <2>2, <2>3, FS_AddElement
    <2>5. Cardinality(B \cup {t}) <= Cardinality(S)
      BY <1>5, <2>4, FS_Subset
    <2> QED
      BY <1>5, <2>3, <2>4, <2>5
  <1>7. ASSUME Rank(r, start, t) < n
        PROVE  t \in RuleTimes(r, start) /\ t < at
    <2>1. ASSUME S \subseteq B PROVE FALSE
      <3>1. Cardinality(S) <= Rank(r, start, t)
        BY <2>1, RankTyped
      <3> QED
        BY <1>0, <1>5, <1>7, <3>1
    <2>2. CASE t >= at
      <3>1. S \subseteq B
        <4> SUFFICES ASSUME NEW u \in S PROVE u \in B
          OBVIOUS
        <4>1. u \in OnRule(r, start) /\ u \in Int /\ at \in Int /\ t \in Int /\ u < at
          BY <1>0, <1>1
        <4> QED
          BY <2>2, <4>1
      <3> QED
        BY <2>1, <3>1
    <2>3. CASE ~(Rank(r, start, t) < r.count)
      <3>1. S \subseteq B
        <4> SUFFICES ASSUME NEW u \in S PROVE u \in B
          OBVIOUS
        <4>1. u \in OnRule(r, start) /\ u \in Time /\ Rank(r, start, u) < r.count
          BY <1>0, <1>1
        <4>2. ~(t <= u)
          BY <1>0, <1>3, <1>4, <2>3, <4>1
        <4> QED
          BY <1>0, <4>1, <4>2
      <3> QED
        BY <2>1, <3>1
    <2> QED
      BY <1>0, <1>1, <2>2, <2>3
  <1> QED
    BY <1>5, <1>6, <1>7

\* The rule of the head of a split series: it repeats, it never reaches `at', and before `at'
\* nothing is lost; unless the rule had ended before, nothing is gained either.
LEMMA RuleHead ==
    ASSUME NEW e \in Event, e.rule # NoRule, GoodRule(e.rule),
           NEW at \in Time, at > e.start,
           NEW h, h = Split(e, at).head
    PROVE  /\ h # NoRule /\ GoodRule(h)
           /\ \A t \in RuleTimes(h, e.start) : t < at
           /\ \A t \in RuleTimes(e.rule, e.start) : t < at => t \in RuleTimes(h, e.start)
           /\ e.rule.until = NoTime \/ e.rule.until >= at - 1 =>
                RuleTimes(h, e.start) \subseteq RuleTimes(e.rule, e.start)
  <1> DEFINE r == e.rule
             n == Cardinality({t \in RuleTimes(r, e.start) : t < at})
  <1>0. /\ r \in Rule /\ r # NoRule /\ GoodRule(r) /\ e.start \in Time /\ Time \subseteq Int
        /\ r.count \in Nat /\ r.step \in Nat /\ r.step > 0 /\ r.until \in Int /\ r.anchor \in Int
    BY Typed DEF Event, Rule, GoodRule
  <1>1. at \in Nat /\ e.start \in Nat /\ at - 1 \in Nat
    BY <1>0 DEF Time
  <1>2. h = IF r.count = 0 THEN [r EXCEPT !.until = at - 1]
            ELSE IF n > 0 THEN [r EXCEPT !.count = n] ELSE NoRule
    BY DEF Split
  <1>3. \A x : x \in OnRule(r, e.start) => x \in Time /\ x \in Int
    BY <1>0, OnTyped
  <1>4. \A k : /\ [r EXCEPT !.until = k].step = r.step /\ [r EXCEPT !.until = k].anchor = r.anchor
               /\ [r EXCEPT !.until = k].count = r.count /\ [r EXCEPT !.until = k].until = k
               /\ [r EXCEPT !.count = k].step = r.step /\ [r EXCEPT !.count = k].anchor = r.anchor
               /\ [r EXCEPT !.count = k].count = k /\ [r EXCEPT !.count = k].until = r.until
    BY <1>0 DEF Rule
  <1>c. n = Cardinality(Before(r, e.start, at))
    BY DEF Before
  <1> HIDE DEF r, n
  <1>5. CASE r.count = 0
    <2>1. h.step = r.step /\ h.anchor = r.anchor /\ h.count = 0 /\ h.until = at - 1
      BY <1>2, <1>4, <1>5
    <2>2. OnRule(h, e.start) = OnRule(r, e.start)
      BY <2>1 DEF OnRule
    <2>3. h # NoRule /\ GoodRule(h)
      BY <1>0, <2>1 DEF NoRule, GoodRule
    <2>4. \A t : t \in RuleTimes(h, e.start) <=> t \in OnRule(r, e.start) /\ t <= at - 1
      BY <1>1, <2>1, <2>2, InRule DEF NoTime
    <2>5. \A t : t \in RuleTimes(r, e.start) <=> t \in OnRule(r, e.start) /\ (r.until # NoTime => t <= r.until)
      BY <1>5, InRule
    <2>6. \A t \in RuleTimes(h, e.start) : t < at
      BY <1>1, <1>3, <2>4
    <2>7. \A t \in RuleTimes(r, e.start) : t < at => t \in RuleTimes(h, e.start)
      BY <1>1, <1>3, <2>4, <2>5
    <2>8. ASSUME r.until = NoTime \/ r.until >= at - 1, NEW t \in RuleTimes(h, e.start)
          PROVE  t \in RuleTimes(r, e.start)
      BY <1>0, <1>1, <1>3, <2>4, <2>5, <2>8
    <2> QED
      BY <2>3, <2>6, <2>7, <2>8 DEF r
  <1>6. CASE r.count # 0
    <2>0. r.count > 0 /\ r.anchor = NoTime /\ r.until = NoTime
      BY <1>0, <1>6 DEF GoodRule
    <2>1. \A t \in OnRule(r, e.start) :
             /\ n \in Nat
             /\ t \in RuleTimes(r, e.start) /\ t < at => Rank(r, e.start, t) < n
             /\ Rank(r, e.start, t) < n => t \in RuleTimes(r, e.start) /\ t < at
      <3> SUFFICES ASSUME NEW t \in OnRule(r, e.start)
                   PROVE  /\ n \in Nat
                          /\ t \in RuleTimes(r, e.start) /\ t < at => Rank(r, e.start, t) < n
                          /\ Rank(r, e.start, t) < n => t \in RuleTimes(r, e.start) /\ t < at
        OBVIOUS
      <3>1. r \in Rule /\ e.start \in Time
        BY <1>0
      <3> QED
        BY <1>c, <2>0, <3>1, CountedBefore
    <2>2. n \in Nat /\ n > 0
      <3>1. e.start \in OnRule(r, e.start)
        <4>1. (e.start - e.start) % r.step = 0
          BY <1>0, <1>1
        <4> QED
          BY <1>0, <1>1, <2>0, <4>1 DEF OnRule
      <3>2. {u \in OnRule(r, e.start) : u < e.start} = {}
        BY <1>1, <1>3 DEF OnRule
      <3>3. Rank(r, e.start, e.start) = 0
        BY <3>2, FS_EmptySet DEF Rank
      <3>4. e.start \in RuleTimes(r, e.start) /\ e.start < at
        BY <1>1, <2>0, <3>1, <3>3, InRule
      <3> QED
        BY <2>1, <3>1, <3>3, <3>4
    <2>3. h.step = r.step /\ h.anchor = NoTime /\ h.count = n /\ h.until = NoTime
      BY <1>2, <1>4, <1>6, <2>0, <2>2
    <2>4. OnRule(h, e.start) = OnRule(r, e.start)
      BY <2>0, <2>3 DEF OnRule
    <2>5. h # NoRule /\ GoodRule(h)
      BY <1>0, <2>3 DEF NoRule, GoodRule
    <2>6. \A t : Rank(h, e.start, t) = Rank(r, e.start, t)
      BY <2>4 DEF Rank
    <2>7. \A t : t \in RuleTimes(h, e.start) <=> t \in OnRule(r, e.start) /\ Rank(r, e.start, t) < n
      BY <2>2, <2>3, <2>4, <2>6, InRule
    <2>8. \A t \in RuleTimes(r, e.start) : t \in OnRule(r, e.start)
      BY InRule
    <2> QED
      BY <2>1, <2>5, <2>7, <2>8 DEF r
  <1> QED
    BY <1>5, <1>6

-----------------------------------------------------------------------------
(* Splitting an event. *)

\* The head occurs where the event did before `at', and unless the rule had ended before,
\* nowhere else.
LEMMA HeadOccurs ==
    ASSUME NEW e \in Event, e.rule # NoRule, GoodRule(e.rule),
           NEW at \in Time, at > e.start
    PROVE  /\ Recurs(Cut(e, at)) /\ GoodRule(Cut(e, at).rule)
           /\ \A t \in Occurs(Cut(e, at)) : t < at
           /\ \A t \in Occurs(e) : t < at => t \in Occurs(Cut(e, at))
           /\ e.rule.until = NoTime \/ e.rule.until >= at - 1 =>
                Occurs(Cut(e, at)) = {t \in Occurs(e) : t < at}
  <1> DEFINE c == Cut(e, at)
             h == Split(e, at).head
             past == e.rule.until = NoTime \/ e.rule.until >= at - 1
  <1>1. /\ c.start = e.start /\ c.rule = h
        /\ c.rdate = {t \in e.rdate : t < at} /\ c.exdate = {t \in e.exdate : t < at}
    BY CutTyped
  <1>2. /\ h # NoRule /\ GoodRule(h)
        /\ \A t \in RuleTimes(h, e.start) : t < at
        /\ \A t \in RuleTimes(e.rule, e.start) : t < at => t \in RuleTimes(h, e.start)
        /\ past => RuleTimes(h, e.start) \subseteq RuleTimes(e.rule, e.start)
    BY RuleHead
  <1> HIDE DEF c, h, past
  <1>3. Recurs(c) /\ GoodRule(c.rule)
    BY <1>1, <1>2 DEF Recurs
  <1>4. \A t : t \in Occurs(c) <=> /\ t \in RuleTimes(h, e.start) \/ t = e.start \/ (t \in e.rdate /\ t < at)
                                   /\ ~(t \in e.exdate /\ t < at)
    BY <1>1 DEF Occurs
  <1>5. \A t : t \in Occurs(e) <=> /\ t \in RuleTimes(e.rule, e.start) \/ t = e.start \/ t \in e.rdate
                                   /\ t \notin e.exdate
    BY DEF Occurs
  <1>6. \A t \in Occurs(c) : t < at
    BY <1>2, <1>4
  <1>7. \A t \in Occurs(e) : t < at => t \in Occurs(c)
    BY <1>2, <1>4, <1>5
  <1>8. past => \A t \in Occurs(c) : t \in Occurs(e)
    BY <1>2, <1>4, <1>5, <1>6
  <1>9. past => Occurs(c) = {t \in Occurs(e) : t < at}
    BY <1>6, <1>7, <1>8
  <1> QED
    BY <1>3, <1>6, <1>7, <1>9 DEF c, past

\* Excluding one instant takes that instant away.
LEMMA WithoutOccurs ==
    ASSUME NEW e \in Event, NEW at \in Time
    PROVE  Occurs(Without(e, at)) = Occurs(e) \ {at} /\ (Recurs(Without(e, at)) <=> Recurs(e))
  BY CutTyped DEF Occurs, Recurs

\* The rules of both parts are as good as the whole one.
LEMMA SplitGood ==
    ASSUME NEW e \in Event, e.rule # NoRule, GoodRule(e.rule), NEW at \in Time
    PROVE  GoodRule(Split(e, at).head) /\ GoodRule(Split(e, at).tail)
  <1> DEFINE r == e.rule
             n == Cardinality({t \in RuleTimes(r, e.start) : t < at})
  <1>1. r \in Rule /\ GoodRule(r) /\ r # NoRule
    BY DEF Event
  <1>2. \A k : GoodRule([r EXCEPT !.count = k]) \/ r.count = 0
    BY <1>1 DEF GoodRule, Rule
  <1>3. \A k : r.count = 0 => GoodRule([r EXCEPT !.until = k])
    BY <1>1 DEF GoodRule, Rule
  <1>4. GoodRule(NoRule)
    BY DEF GoodRule
  <1> HIDE DEF n
  <1>5. Split(e, at) =
          IF r.count = 0
          THEN [head |-> [r EXCEPT !.until = at - 1], tail |-> r]
          ELSE [head |-> IF n > 0 THEN [r EXCEPT !.count = n] ELSE NoRule,
                tail |-> IF r.count > n THEN [r EXCEPT !.count = r.count - n] ELSE NoRule]
    BY DEF Split, n
  <1> HIDE DEF r
  <1>6. CASE r.count = 0
    <2>1. Split(e, at).head = [r EXCEPT !.until = at - 1] /\ Split(e, at).tail = r
      BY <1>5, <1>6
    <2> QED
      BY <1>1, <1>3, <1>6, <2>1
  <1>7. CASE r.count # 0
    <2>1. /\ Split(e, at).head = IF n > 0 THEN [r EXCEPT !.count = n] ELSE NoRule
          /\ Split(e, at).tail = IF r.count > n THEN [r EXCEPT !.count = r.count - n] ELSE NoRule
      BY <1>5, <1>7
    <2> QED
      BY <1>2, <1>4, <1>7, <2>1
  <1> QED
    BY <1>6, <1>7

-----------------------------------------------------------------------------
(* Changed occurrences stand for occurrences of their series. *)

\* Rules that count do so from the start of their event (what the run series_off_rule is
\* about has one that does not).
CountedFromStart ==
    \A r \in {c.rule : c \in Creations} \cup {p.rule : p \in Patches} :
        r # Keep /\ r.count > 0 => r.anchor = NoTime

RuleInv == \A i \in Ids : GoodRule(rows[i].event.rule)

\* Override o stands for an occurrence of its series.
Stands(o) == LET m == rows[o].series
             IN  Recurs(rows[m].event) /\ rows[o].rid \in Occurs(rows[m].event)

\* An override stands for an occurrence of its series if both are live, or went to the trash
\* in one operation, and so will come back in one; a live one has a live series.
StandsInv ==
    \A o \in Ids : rows[o].series # Nil =>
        LET m == rows[o].series
        IN  /\ rows[o].status = "live" => rows[m].status = "live" /\ Stands(o)
            /\ rows[o].status = "trashed" /\ rows[m].status = "trashed"
                 /\ rows[m].deletedAt = rows[o].deletedAt => Stands(o)

LEMMA StandsMeans ==
    ASSUME ShapeInv, StandsInv
    PROVE  OverridesOccur
  BY DEF StandsInv, Stands, OverridesOccur, Live, IsOverride, IsMaster, ShapeInv, SeriesInv

\* A changed occurrence is edited and deleted as an occurrence of its series.
LEMMA ResolvedOccurs ==
    ASSUME ShapeInv, StandsInv, NEW i \in Ids, NEW scope, NEW inst \in Time, NEW m \in Ids,
           Resolves(i, scope, inst, m), IsMaster(m)
    PROVE  inst \in Occurs(rows[m].event)
  <1>1. inst # NoTime
    BY Typed
  <1> QED
    BY <1>1 DEF Resolves, Live, IsOverride, StandsInv, Stands

\* Where a row and its series stay what they are, so does what StandsInv says of them.
LEMMA StandsSame ==
    ASSUME ShapeInv, StandsInv, NEW o \in Ids, rows'[o].series # Nil,
           rows'[o] = rows[o], rows'[rows[o].series] = rows[rows[o].series]
    PROVE  /\ rows'[o].status = "live" => rows'[rows'[o].series].status = "live" /\ Stands(o)'
           /\ rows'[o].status = "trashed" /\ rows'[rows'[o].series].status = "trashed"
                /\ rows'[rows'[o].series].deletedAt = rows'[o].deletedAt => Stands(o)'
  BY DEF StandsInv, Stands

LEMMA StandsCreate ==
    ASSUME ShapeInv, StandsInv, NEW i \in Ids, NEW e \in Creations, Create(i, e)
    PROVE  StandsInv'
  <1> DEFINE new == [Blank EXCEPT !.status = "live", !.uid = <<i>>, !.event = e]
  <1>1. rows' = [rows EXCEPT ![i] = new] /\ rows \in [Ids -> Row] /\ rows[i].status = "absent"
    BY DEF Create, Fresh, ShapeInv, TypeOK
  <1>2. new.series = Nil
    BY DEF Blank
  <1> HIDE DEF new
  <1>3. ASSUME NEW o \in Ids, rows'[o].series # Nil
        PROVE  rows'[o] = rows[o] /\ rows'[rows[o].series] = rows[rows[o].series]
    <2>1. rows'[o] = rows[o] /\ rows[o].series \in Ids /\ rows[rows[o].series].status # "absent"
      BY <1>1, <1>2, <1>3, RowShape
    <2> QED
      BY <1>1, <2>1
  <1> QED
    BY <1>3, StandsSame DEF StandsInv

LEMMA StandsThis ==
    ASSUME ShapeInv, StandsInv, NEW m \in Ids, NEW inst \in Time, NEW p \in Patches, rows[m].series = Nil, Live(m),
           IsMaster(m), inst \in Occurs(rows[m].event), UpdateThis(m, inst, p)
    PROVE  StandsInv'
  <1>0. PICK o \in Ids : ChangedOne(m, o, inst, p)
    BY ThisRow
  <1>1. /\ rows' = [rows EXCEPT ![o] = rows'[o]] /\ rows'[o] \in Row
        /\ o \in Overrides(rows, m) \/ Fresh(o)
        /\ rows'[o].status = "live" /\ rows'[o].series = m /\ rows'[o].rid = inst
    BY <1>0 DEF ChangedOne
  <1>2. \A j \in Ids : j # o => rows'[j] = rows[j]
    BY <1>1, RowShape
  <1>3. m # o /\ rows'[m] = rows[m]
    BY <1>1, <1>2 DEF Overrides, Fresh, Live
  <1>4. rows'[rows'[o].series].status = "live" /\ Stands(o)'
    BY <1>1, <1>3 DEF Stands, IsMaster, Live
  <1>5. ASSUME NEW j \in Ids, j # o, rows'[j].series # Nil
        PROVE  rows'[j] = rows[j] /\ rows'[rows[j].series] = rows[rows[j].series]
    <2>1. /\ rows'[j] = rows[j] /\ rows[j].series \in Ids
          /\ rows[rows[j].series].status # "absent" /\ rows[rows[j].series].series = Nil
      BY <1>2, <1>5, RowShape
    <2>2. rows[j].series # o
      BY <1>1, <2>1, RowShape DEF Overrides, Fresh
    <2> QED
      BY <1>2, <2>1, <2>2
  <1>6. ASSUME NEW j \in Ids, rows'[j].series # Nil
        PROVE  /\ rows'[j].status = "live" => rows'[rows'[j].series].status = "live" /\ Stands(j)'
               /\ rows'[j].status = "trashed" /\ rows'[rows'[j].series].status = "trashed"
                    /\ rows'[rows'[j].series].deletedAt = rows'[j].deletedAt => Stands(j)'
    <2>1. CASE j = o
      BY <1>1, <1>4, <2>1
    <2>2. CASE j # o
      BY <1>5, <1>6, <2>2, StandsSame
    <2> QED
      BY <2>1, <2>2
  <1> QED
    BY <1>6 DEF StandsInv

LEMMA StandsAll ==
    ASSUME ShapeInv, StandsInv, NEW m \in Ids, NEW p \in Patches, UpdateAll(m, p), rows[m].series = Nil, Live(m)
    PROVE  StandsInv'
  <1>1. /\ rows'[m].event = AfterAll(m, p) /\ rows'[m].status = "live"
        /\ \A j \in Ids \ {m} :
             /\ rows'[j].series = rows[j].series
             /\ \/ rows'[j] = rows[j] /\ (Recurs(rows[m].event) => j \notin Overrides(rows, m))
                \/ /\ j \in Overrides(rows, m)
                   /\ rows'[j].status = "live"
                   /\ Recurs(AfterAll(m, p)) /\ rows'[j].rid \in Occurs(AfterAll(m, p))
                \/ j \in Overrides(rows, m) /\ rows'[j].status = "trashed"
    BY AllRows DEF Live
  <1>2. ASSUME NEW j \in Ids, rows'[j].series # Nil
        PROVE  /\ rows'[j].status = "live" => rows'[rows'[j].series].status = "live" /\ Stands(j)'
               /\ rows'[j].status = "trashed" /\ rows'[rows'[j].series].status = "trashed"
                    /\ rows'[rows'[j].series].deletedAt = rows'[j].deletedAt => Stands(j)'
    <2>1. j # m /\ rows'[j].series = rows[j].series /\ rows[j].series \in Ids /\ rows[rows[j].series].series = Nil
      BY <1>1, <1>2, AllRows, RowShape
    <2>2. CASE rows[j].series = m
      <3>1. rows'[rows'[j].series] = rows'[m] /\ rows'[m].status # "trashed"
        BY <1>1, <2>1, <2>2
      <3>2. rows'[j].status = "live" => Recurs(AfterAll(m, p)) /\ rows'[j].rid \in Occurs(AfterAll(m, p))
        <4>1. rows'[j] = rows[j] /\ rows'[j].status = "live" => Recurs(rows[m].event)
          BY <2>1, <2>2 DEF StandsInv, Stands
        <4>2. rows[j].status = "live" => j \in Overrides(rows, m)
          BY <2>2 DEF Overrides
        <4> QED
          BY <1>1, <2>1, <4>1, <4>2
      <3> QED
        BY <1>1, <2>1, <2>2, <3>1, <3>2 DEF Stands
    <2>3. CASE rows[j].series # m
      <3>1. rows'[j] = rows[j]
        BY <1>1, <2>1, <2>3 DEF Overrides
      <3>2. rows[j].series \notin Overrides(rows, m)
        BY <2>1 DEF Overrides
      <3>3. rows'[rows[j].series] = rows[rows[j].series]
        BY <1>1, <2>1, <2>3, <3>2
      <3> QED
        BY <1>2, <3>1, <3>3, StandsSame
    <2> QED
      BY <2>2, <2>3
  <1> QED
    BY <1>2 DEF StandsInv

LEMMA StandsFollowing ==
    ASSUME ShapeInv, StandsInv, NEW m \in Ids, GoodRule(rows[m].event.rule), NEW at \in Time, NEW p \in Patches,
           at > rows[m].event.start, rows[m].series = Nil, Live(m), UpdateFollowing(m, at, p)
    PROVE  StandsInv'
  <1> DEFINE e    == rows[m].event
             next == AfterRest(rows[m].event, at, p)
  <1>p. PICK n \in Ids : Followed(m, n, at, p)
    BY FollowingRows
  <1>1. /\ n # m /\ Fresh(n)
        /\ rows'[m].event = Cut(e, at) /\ rows'[m].series = Nil /\ rows'[m].status = "live"
        /\ rows'[n].event = next /\ rows'[n].series = Nil /\ rows'[n].status = "live"
        /\ \A j \in Ids \ {m, n} :
             \/ /\ rows'[j] = rows[j]
                /\ ~(j \in Overrides(rows, m) /\ rows[j].rid >= at)
             \/ /\ j \in Overrides(rows, m) /\ rows'[j].series = n
                /\ \/ /\ rows'[j].status = "live"
                      /\ Recurs(next) /\ rows'[j].rid \in Occurs(next)
                   \/ rows'[j].status = "trashed"
    BY <1>p DEF Followed
  <1>2. e \in Event /\ e.rule # NoRule /\ GoodRule(e.rule) /\ at > e.start
    BY RowShape DEF UpdateFollowing
  <1>3. Recurs(Cut(e, at)) /\ \A t \in Occurs(e) : t < at => t \in Occurs(Cut(e, at))
    <2> HIDE DEF e
    <2> QED
      BY <1>2, HeadOccurs
  <1> HIDE DEF next, e
  <1>4. ASSUME NEW j \in Ids, rows'[j].series # Nil
        PROVE  /\ rows'[j].status = "live" => rows'[rows'[j].series].status = "live" /\ Stands(j)'
               /\ rows'[j].status = "trashed" /\ rows'[rows'[j].series].status = "trashed"
                    /\ rows'[rows'[j].series].deletedAt = rows'[j].deletedAt => Stands(j)'
    <2>0. j \notin {m, n}
      BY <1>1, <1>4
    <2>1. CASE rows'[j].series = n
      <3>1. rows[j].series # n
        BY <1>1, RowShape DEF Fresh
      <3> QED
        BY <1>1, <2>0, <2>1, <3>1 DEF Stands
    <2>2. CASE rows'[j].series # n /\ rows[j].series = m
      <3>1. rows'[j] = rows[j] /\ ~(j \in Overrides(rows, m) /\ rows[j].rid >= at)
        BY <1>1, <2>0, <2>2
      <3>2. rows[j].rid \in Time /\ rows[j].rid \in Int /\ at \in Int
        BY <2>2, RowShape, Typed
      <3>3. rows[j].status = "live" => rows[j].rid < at /\ rows[j].rid \in Occurs(e)
        BY <2>2, <3>1, <3>2 DEF Overrides, StandsInv, Stands, e
      <3> QED
        BY <1>1, <1>3, <2>2, <3>1, <3>3 DEF Stands
    <2>3. CASE rows'[j].series # n /\ rows[j].series # m
      <3>1. rows'[j] = rows[j]
        BY <1>1, <2>0, <2>3 DEF Overrides
      <3>2. /\ rows[j].series \in Ids /\ rows[j].series # n /\ rows[j].series # m
            /\ rows[rows[j].series].series = Nil
        BY <1>4, <2>3, <3>1, RowShape
      <3>3. rows'[rows[j].series] = rows[rows[j].series]
        BY <1>1, <3>2 DEF Overrides
      <3> QED
        BY <1>4, <3>1, <3>3, StandsSame
    <2> QED
      BY <2>1, <2>2, <2>3
  <1> QED
    BY <1>4 DEF StandsInv

\* What a deletion does to the rows: the event, its overrides, and the rest.
Deleted(m, e, doomed) ==
    /\ rows'[m].event = e /\ rows'[m].series = Nil
    /\ m \in doomed => rows'[m].status = "trashed" /\ rows'[m].deletedAt = Now
    /\ m \notin doomed => rows'[m].status = "live" /\ rows'[m].deletedAt = rows[m].deletedAt
    /\ \A j \in Ids \ {m} :
         /\ rows'[j].series = rows[j].series /\ rows'[j].event = rows[j].event /\ rows'[j].rid = rows[j].rid
         /\ \/ rows'[j] = rows[j] /\ ~(j \in Overrides(rows, m) /\ (m \in doomed \/ j \in doomed))
            \/ /\ rows'[j].status = "trashed" /\ rows'[j].deletedAt = Now
               /\ j \in Overrides(rows, m) /\ (m \in doomed \/ j \in doomed)

LEMMA DeletedRows ==
    ASSUME ShapeInv, NEW m \in Ids, rows[m].series = Nil, Live(m), NEW e \in Event,
           NEW doomed, doomed \subseteq Overrides(rows, m) \cup {m},
           rows' = Trash(Saved(rows, m, e), doomed, Now)
    PROVE  Deleted(m, e, doomed)
  <1> DEFINE table == Saved(rows, m, e)
  <1>1. rows' = Trash(table, doomed, Now) /\ table = Saved(rows, m, e)
    OBVIOUS
  <1> HIDE DEF table
  <1>2. /\ table \in [Ids -> Row] /\ \A j \in Ids : j # m => table[j] = rows[j]
        /\ table[m].event = e /\ table[m].status = "live" /\ table[m].deletedAt = rows[m].deletedAt
        /\ table[m].series = Nil
    <2>1. rows \in [Ids -> Row]
      BY RowShape
    <2> QED
      BY <1>1, <2>1, SavedTyped DEF Live
  <1>3. m \notin Overrides(rows, m) /\ Nil \notin doomed
    BY DEF Overrides
  <1>4. rows'[m] = Trash(table, doomed, Now)[m]
    BY <1>1
  <1>5. /\ rows'[m].event = e /\ rows'[m].series = Nil
        /\ m \in doomed => rows'[m].status = "trashed" /\ rows'[m].deletedAt = Now
        /\ m \notin doomed => rows'[m] = table[m]
    BY <1>2, <1>3, <1>4, TrashRows
  <1>6. ASSUME NEW j \in Ids \ {m}
        PROVE  /\ rows'[j].series = rows[j].series /\ rows'[j].event = rows[j].event /\ rows'[j].rid = rows[j].rid
               /\ \/ rows'[j] = rows[j] /\ ~(j \in Overrides(rows, m) /\ (m \in doomed \/ j \in doomed))
                  \/ /\ rows'[j].status = "trashed" /\ rows'[j].deletedAt = Now
                     /\ j \in Overrides(rows, m) /\ (m \in doomed \/ j \in doomed)
    <2>1. rows'[j] = Trash(table, doomed, Now)[j] /\ table[j] = rows[j]
      BY <1>1, <1>2
    <2>2. rows'[j].series = rows[j].series /\ rows'[j].event = rows[j].event /\ rows'[j].rid = rows[j].rid
      BY <1>2, <2>1, TrashRows
    <2> DEFINE hit == rows[j].status = "live" /\ (j \in doomed \/ rows[j].series \in doomed)
    <2>3. /\ ~hit => rows'[j] = rows[j]
          /\ hit => rows'[j].status = "trashed" /\ rows'[j].deletedAt = Now
      BY <1>2, <2>1, TrashRows
    <2>4. hit <=> j \in Overrides(rows, m) /\ (m \in doomed \/ j \in doomed)
      <3>1. rows[j].series \in Ids => rows[rows[j].series].series = Nil
        BY RowShape
      <3>2. rows[j].series \in doomed => rows[j].series = m
        BY <3>1 DEF Overrides
      <3> QED
        BY <3>2 DEF Overrides
    <2> HIDE DEF hit
    <2> QED
      BY <2>2, <2>3, <2>4
  <1> QED
    BY <1>2, <1>5, <1>6 DEF Deleted

\* A deletion keeps the overrides that it leaves, or takes, together with their event.
LEMMA StandsDelete ==
    ASSUME ShapeInv, StandsInv, NEW m \in Ids, rows[m].series = Nil, Live(m), NEW e \in Event,
           NEW doomed, doomed \subseteq Overrides(rows, m) \cup {m},
           rows' = Trash(Saved(rows, m, e), doomed, Now),
           m \in doomed => e = rows[m].event,
           \A o \in Overrides(rows, m) \ doomed :
              Recurs(rows[m].event) /\ rows[o].rid \in Occurs(rows[m].event) =>
                 Recurs(e) /\ rows[o].rid \in Occurs(e)
    PROVE  StandsInv'
  <1>1. /\ rows'[m].event = e /\ rows'[m].series = Nil
        /\ m \in doomed => rows'[m].status = "trashed" /\ rows'[m].deletedAt = Now
        /\ m \notin doomed => rows'[m].status = "live"
        /\ \A j \in Ids \ {m} :
             /\ rows'[j].series = rows[j].series /\ rows'[j].rid = rows[j].rid
             /\ \/ rows'[j] = rows[j] /\ ~(j \in Overrides(rows, m) /\ (m \in doomed \/ j \in doomed))
                \/ /\ rows'[j].status = "trashed" /\ rows'[j].deletedAt = Now
                   /\ j \in Overrides(rows, m) /\ (m \in doomed \/ j \in doomed)
    <2>1. Deleted(m, e, doomed)
      BY DeletedRows
    <2> QED
      BY <2>1 DEF Deleted
  <1>2. ASSUME NEW j \in Ids, rows'[j].series # Nil
        PROVE  /\ rows'[j].status = "live" => rows'[rows'[j].series].status = "live" /\ Stands(j)'
               /\ rows'[j].status = "trashed" /\ rows'[rows'[j].series].status = "trashed"
                    /\ rows'[rows'[j].series].deletedAt = rows'[j].deletedAt => Stands(j)'
    <2>1. /\ j # m /\ rows'[j].series = rows[j].series /\ rows'[j].rid = rows[j].rid /\ rows[j].series \in Ids
          /\ rows[rows[j].series].series = Nil
      BY <1>1, <1>2, RowShape
    <2>2. CASE rows[j].series = m
      <3>1. rows[j].status = "live" => Recurs(rows[m].event) /\ rows[j].rid \in Occurs(rows[m].event)
        BY <2>1, <2>2 DEF StandsInv, Stands
      <3>2. rows[j].status = "live" <=> j \in Overrides(rows, m)
        BY <2>2 DEF Overrides
      <3>3. rows[j].status = "trashed" => rows[j].deletedAt # Now
        BY RowShape DEF ShapeInv, ClockInv
      <3>4. CASE m \in doomed
        <4>1. rows'[j] = rows[j] => rows'[j].status # "live"
          BY <1>1, <2>1, <3>2, <3>4
        <4>2. rows'[j].status = "trashed" /\ rows'[j].deletedAt = Now => rows[j].status = "live"
          BY <1>1, <2>1, <3>2, <3>3
        <4>3. Stands(j)' <=> Recurs(e) /\ rows[j].rid \in Occurs(e)
          BY <1>1, <2>1, <2>2 DEF Stands
        <4> QED
          BY <1>1, <2>1, <2>2, <3>1, <3>4, <4>1, <4>2, <4>3
      <3>5. CASE m \notin doomed
        <4>1. rows'[j].status = "live" => j \in Overrides(rows, m) \ doomed
          BY <1>1, <2>1, <3>2
        <4>2. Stands(j)' <=> Recurs(e) /\ rows[j].rid \in Occurs(e)
          BY <1>1, <2>1, <2>2 DEF Stands
        <4> QED
          BY <1>1, <2>1, <2>2, <3>1, <3>2, <3>5, <4>1, <4>2
      <3> QED
        BY <3>4, <3>5
    <2>3. CASE rows[j].series # m
      <3>1. rows'[j] = rows[j]
        BY <1>1, <2>1, <2>3 DEF Overrides
      <3>2. rows[j].series \in Ids \ {m} /\ rows[j].series \notin Overrides(rows, m)
        BY <2>1, <2>3 DEF Overrides
      <3>3. rows'[rows[j].series] = rows[rows[j].series]
        BY <1>1, <3>2
      <3> QED
        BY <1>2, <3>1, <3>3, StandsSame
    <2> QED
      BY <2>2, <2>3
  <1> QED
    BY <1>2 DEF StandsInv

LEMMA StandsTruncate ==
    ASSUME ShapeInv, StandsInv, NEW m \in Ids, GoodRule(rows[m].event.rule), NEW at \in Time,
           at > rows[m].event.start, rows[m].series = Nil, Live(m), TruncateSeries(m, at)
    PROVE  StandsInv'
  <1> DEFINE e      == rows[m].event
             doomed == {o \in Overrides(rows, m) : rows[o].rid >= at}
             c      == Cut(e, at)
  <1>1. e \in Event /\ e.rule # NoRule /\ GoodRule(e.rule) /\ at > e.start
    BY RowShape DEF TruncateSeries
  <1>2. rows' = Trash(Saved(rows, m, c), doomed, Now)
    BY DeleteRows
  <1>3. \A o \in Overrides(rows, m) \ doomed : rows[o].rid < at
    <2>1. \A o \in Overrides(rows, m) : rows[o].rid \in Time
      BY RowShape DEF Overrides
    <2> QED
      BY <2>1, Typed
  <1>4. m \notin doomed /\ doomed \subseteq Overrides(rows, m) \cup {m}
    BY DEF Overrides
  <1>5. c \in Event /\ Recurs(c) /\ \A t \in Occurs(e) : t < at => t \in Occurs(c)
    <2> HIDE DEF e
    <2> QED
      BY <1>1, CutTyped, HeadOccurs
  <1>6. \A o \in Overrides(rows, m) \ doomed : rows[o].rid \in Occurs(rows[m].event) => rows[o].rid \in Occurs(c)
    BY <1>3, <1>5
  <1> HIDE DEF c, doomed
  <1> QED
    BY <1>2, <1>4, <1>5, <1>6, StandsDelete

LEMMA StandsExclude ==
    ASSUME ShapeInv, StandsInv, NEW m \in Ids, NEW at \in Time,
           rows[m].series = Nil, Live(m), ExcludeInstance(m, at)
    PROVE  StandsInv'
  <1> DEFINE e      == rows[m].event
             doomed == {o \in Overrides(rows, m) : rows[o].rid = at}
             c      == Without(e, at)
  <1>1. e \in Event
    BY RowShape
  <1>2. rows' = Trash(Saved(rows, m, c), doomed, Now)
    BY DeleteRows
  <1>3. m \notin doomed /\ doomed \subseteq Overrides(rows, m) \cup {m}
    BY DEF Overrides
  <1>4. c \in Event /\ Occurs(c) = Occurs(e) \ {at} /\ (Recurs(c) <=> Recurs(e))
    BY <1>1, CutTyped, WithoutOccurs
  <1>5. \A o \in Overrides(rows, m) \ doomed :
           Recurs(rows[m].event) /\ rows[o].rid \in Occurs(rows[m].event) => Recurs(c) /\ rows[o].rid \in Occurs(c)
    BY <1>4
  <1> HIDE DEF c, doomed
  <1> QED
    BY <1>2, <1>3, <1>4, <1>5, StandsDelete

LEMMA StandsDeleteAll ==
    ASSUME ShapeInv, StandsInv, NEW m \in Ids, rows[m].series = Nil, Live(m), DeleteAll(m)
    PROVE  StandsInv'
  <1>1. rows' = Trash(Saved(rows, m, rows[m].event), {m}, Now) /\ rows[m].event \in Event
    BY Typed, DeleteRows, RowShape
  <1>2. {m} \subseteq Overrides(rows, m) \cup {m}
    OBVIOUS
  <1> QED
    BY <1>1, <1>2, StandsDelete

\* A restore takes an event, not an override alone, and with it what was deleted with it.
LEMMA StandsRestore ==
    ASSUME ShapeInv, StandsInv, ~LoneTrash, NEW i \in Ids, Restore(i)
    PROVE  StandsInv'
  <1>1. rows' = Restored(i) /\ rows[i].series = Nil /\ rows[i].status = "trashed"
    BY DEF Restore
  <1>2. ASSUME NEW j \in Ids
        PROVE  /\ rows'[j].series = rows[j].series /\ rows'[j].event = rows[j].event /\ rows'[j].rid = rows[j].rid
               /\ \/ /\ rows'[j].status = "live" /\ (j = i \/ rows[j].series = i)
                     /\ rows[j].status = "trashed" /\ rows[j].deletedAt = rows[i].deletedAt
                  \/ /\ rows'[j] = rows[j]
                     /\ j # i
    BY <1>1, RowShape, RestoredRows
  <1>3. ASSUME NEW j \in Ids, rows'[j].series # Nil
        PROVE  /\ rows'[j].status = "live" => rows'[rows'[j].series].status = "live" /\ Stands(j)'
               /\ rows'[j].status = "trashed" /\ rows'[rows'[j].series].status = "trashed"
                    /\ rows'[rows'[j].series].deletedAt = rows'[j].deletedAt => Stands(j)'
    <2> DEFINE m == rows[j].series
    <2>1. /\ rows'[j].series = m /\ rows'[j].rid = rows[j].rid /\ m \in Ids /\ m # Nil
          /\ rows'[m].event = rows[m].event
      BY <1>2, <1>3, RowShape
    <2>2. Stands(j)' <=> Stands(j)
      BY <2>1 DEF Stands
    <2>3. CASE rows'[j] = rows[j]
      <3>1. rows[m].status = "live" => rows'[m].status = "live"
        BY <1>2, <2>1
      <3>2. rows'[m].status = "trashed" => rows'[m] = rows[m]
        BY <1>2, <2>1
      <3> QED
        BY <2>1, <2>2, <2>3, <3>1, <3>2 DEF StandsInv
    <2>4. CASE /\ rows'[j].status = "live" /\ (j = i \/ m = i)
               /\ rows[j].status = "trashed" /\ rows[j].deletedAt = rows[i].deletedAt
      <3>1. m = i
        BY <1>1, <2>1, <2>4
      <3>2. rows'[i].status = "live"
        BY <1>2
      <3>3. Stands(j)
        BY <1>1, <2>1, <2>4, <3>1 DEF StandsInv
      <3> QED
        BY <2>1, <2>2, <2>4, <3>1, <3>2, <3>3
    <2> QED
      BY <1>2, <2>3, <2>4
  <1> QED
    BY <1>3 DEF StandsInv

LEMMA StandsPurge ==
    ASSUME ShapeInv, StandsInv, NEW i \in Ids, PurgeItem(i)
    PROVE  StandsInv'
  <1>1. ASSUME NEW j \in Ids, rows'[j].series # Nil
        PROVE  rows'[j] = rows[j] /\ rows'[rows[j].series] = rows[rows[j].series]
    <2>1. rows'[j] # Blank
      BY <1>1, BlankTyped
    <2>2. rows'[j] = rows[j] /\ rows[j].series \in Ids
      BY <1>1, <2>1, PurgeRows, RowShape
    <2> QED
      BY <2>1, <2>2, PurgeRows
  <1> QED
    BY <1>1, StandsSame DEF StandsInv

\* No operation makes a rule that is not good.
LEMMA RulesStayGood ==
    ASSUME ShapeInv, RuleInv, CountedFromStart, Next
    PROVE  RuleInv'
  <1>0. \A r : /\ r \in {c.rule : c \in Creations} \cup {p.rule : p \in Patches}
               /\ r # Keep
               => GoodRule(r)
    <2> SUFFICES ASSUME NEW r \in {c.rule : c \in Creations} \cup {p.rule : p \in Patches},
                        r # Keep, r # NoRule
                 PROVE  r.step > 0 /\ (r.count > 0 => r.anchor = NoTime /\ r.until = NoTime)
      BY DEF GoodRule
    <2>1. r \in Rule
      BY DEF Event, Patch
    <2> QED
      BY <2>1, SeriesAssumption DEF CountedFromStart, Rule
  <1>1. /\ \A c \in Creations : GoodRule(c.rule)
        /\ \A p \in Patches : \A r : GoodRule(r) => GoodRule(Field(p.rule, r))
    <2>1. ASSUME NEW c \in Creations PROVE GoodRule(c.rule)
      <3>1. c.rule \in Rule
        BY DEF Event
      <3>2. c.rule # Keep
        BY <3>1, SeriesAssumption
      <3> QED
        BY <1>0, <3>2
    <2>2. \A p \in Patches : p.rule # Keep => GoodRule(p.rule)
      BY <1>0
    <2> QED
      BY <2>1, <2>2 DEF Field
  <1>2. GoodRule(NoRule) /\ Blank.event.rule = NoRule
    BY DEF GoodRule, Blank
  <1>3. \A j \in Ids : rows[j].event \in Event /\ rows[j] \in Row /\ GoodRule(rows[j].event.rule)
    BY RowShape DEF RuleInv
  <1>4. ASSUME NEW i \in Ids, NEW e \in Creations, Create(i, e)
        PROVE  RuleInv'
    <2> DEFINE new == [Blank EXCEPT !.status = "live", !.uid = <<i>>, !.event = e]
    <2>1. rows' = [rows EXCEPT ![i] = new] /\ rows \in [Ids -> Row]
      BY <1>4 DEF Create, ShapeInv, TypeOK
    <2>2. new.event = e
      BY DEF Blank
    <2> HIDE DEF new
    <2> QED
      BY <1>1, <1>3, <2>1, <2>2 DEF RuleInv
  <1>5. ASSUME NEW i \in Ids, Restore(i)
        PROVE  RuleInv'
    <2>1. \A j \in Ids : rows'[j].event = rows[j].event
      BY <1>5, RowShape, RestoredRows DEF Restore
    <2> QED
      BY <1>3, <2>1 DEF RuleInv
  <1>6. ASSUME NEW i \in Ids, PurgeItem(i)
        PROVE  RuleInv'
    BY <1>2, <1>3, <1>6, PurgeRows DEF RuleInv
  <1>7. ASSUME NEW i \in Ids, NEW scope \in Scopes, NEW inst \in Time \cup {NoTime}, NEW p \in Patches,
               Update(i, scope, inst, p)
        PROVE  RuleInv'
    <2>1. PICK m \in Ids :
            /\ rows[m].series = Nil /\ Live(m)
            /\ UpdateAll(m, p) \/ (inst \in Time /\ (UpdateThis(m, inst, p) \/ UpdateFollowing(m, inst, p)))
      BY <1>7, UpdateCases
    <2>2. CASE UpdateAll(m, p)
      BY <1>1, <1>3, <2>1, <2>2, AllRows DEF RuleInv
    <2>3. CASE inst \in Time /\ UpdateThis(m, inst, p)
      <3>0. PICK o \in Ids : ChangedOne(m, o, inst, p)
        BY <2>1, <2>3, ThisRow
      <3>1. rows' = [rows EXCEPT ![o] = rows'[o]] /\ Bare(rows'[o].event)
        BY <3>0 DEF ChangedOne
      <3>2. \A j \in Ids : j # o => rows'[j] = rows[j]
        BY <3>1, RowShape
      <3> QED
        BY <1>2, <1>3, <3>1, <3>2 DEF Bare, RuleInv
    <2>4. CASE inst \in Time /\ UpdateFollowing(m, inst, p)
      <3>0. PICK n \in Ids : Followed(m, n, inst, p)
        BY <2>1, <2>4, FollowingRows
      <3> DEFINE e    == rows[m].event
                 next == AfterRest(rows[m].event, inst, p)
      <3>1. /\ rows'[m].event = Cut(e, inst) /\ rows'[n].event = next /\ next \in Event
            /\ \A j \in Ids \ {m, n} : rows'[j] = rows[j] \/ rows'[j].event = rows[j].event
        BY <3>0 DEF Followed
      <3>2. e.rule # NoRule /\ e \in Event /\ GoodRule(e.rule)
        BY <1>3, <2>4 DEF UpdateFollowing
      <3>3. GoodRule(Split(e, inst).head) /\ GoodRule(Split(e, inst).tail)
        BY <2>4, <3>2, SplitGood
      <3>4. Cut(e, inst).rule = Split(e, inst).head
        BY <2>4, <3>2, CutTyped
      <3>5. next.rule = Field(p.rule, Split(e, inst).tail)
        <4> DEFINE base == Rest(e, inst)
        <4>1. base \in Event /\ base.rule = Split(e, inst).tail
          BY <2>4, <3>2, RestTyped
        <4> HIDE DEF base, e
        <4>2. next = ShiftSeries(base, Applied(base, p), p)
          BY DEF AfterRest, base, e
        <4>3. Applied(base, p) \in Event /\ Applied(base, p).rule = Field(p.rule, base.rule)
          BY <4>1, AppliedTyped DEF Applied
        <4>4. next.rdate \subseteq Time /\ next.exdate \subseteq Time
          BY <3>1 DEF Event
        <4> HIDE DEF next
        <4>5. next.rule = Applied(base, p).rule
          BY <4>1, <4>2, <4>3, <4>4, ShiftTyped
        <4> QED
          BY <4>1, <4>3, <4>5
      <3> HIDE DEF e, next
      <3>6. GoodRule(rows'[m].event.rule) /\ GoodRule(rows'[n].event.rule)
        BY <1>1, <3>1, <3>3, <3>4, <3>5
      <3>7. \A j \in Ids \ {m, n} : GoodRule(rows'[j].event.rule)
        BY <1>3, <3>1
      <3> QED
        BY <3>6, <3>7 DEF RuleInv
    <2> QED
      BY <2>1, <2>2, <2>3, <2>4
  <1>8. ASSUME NEW i \in Ids, NEW scope \in Scopes, NEW inst \in Time \cup {NoTime}, Delete(i, scope, inst)
        PROVE  RuleInv'
    <2>1. PICK m \in Ids :
            /\ rows[m].series = Nil /\ Live(m)
            /\ DeleteAll(m) \/ (inst \in Time /\ (TruncateSeries(m, inst) \/ ExcludeInstance(m, inst)))
      BY <1>8, DeleteCases
    <2> DEFINE e == rows[m].event
    <2>2. ASSUME NEW c \in Event, NEW doomed, GoodRule(c.rule),
                 doomed \subseteq Overrides(rows, m) \cup {m}, rows' = Trash(Saved(rows, m, c), doomed, Now)
          PROVE  RuleInv'
      <3>1. Deleted(m, c, doomed)
        BY <2>1, <2>2, DeletedRows
      <3>2. rows'[m].event = c /\ \A j \in Ids \ {m} : rows'[j].event = rows[j].event
        BY <3>1 DEF Deleted
      <3> QED
        BY <1>3, <2>2, <3>2 DEF RuleInv
    <2>3. CASE DeleteAll(m)
      <3>1. rows' = Trash(Saved(rows, m, e), {m}, Now)
        BY <2>1, <2>3, Typed, DeleteRows
      <3>2. {m} \subseteq Overrides(rows, m) \cup {m}
        OBVIOUS
      <3> QED
        BY <1>3, <2>2, <3>1, <3>2
    <2>4. CASE inst \in Time /\ TruncateSeries(m, inst)
      <3>1. rows' = Trash(Saved(rows, m, Cut(e, inst)), {o \in Overrides(rows, m) : rows[o].rid >= inst}, Now)
        BY <2>1, <2>4, DeleteRows
      <3>2. e.rule # NoRule /\ e \in Event /\ GoodRule(e.rule)
        BY <1>3, <2>4 DEF TruncateSeries
      <3>3. Cut(e, inst) \in Event /\ GoodRule(Cut(e, inst).rule)
        BY <2>4, <3>2, SplitGood, CutTyped
      <3>4. {o \in Overrides(rows, m) : rows[o].rid >= inst} \subseteq Overrides(rows, m) \cup {m}
        OBVIOUS
      <3> QED
        BY <2>2, <3>1, <3>3, <3>4
    <2>5. CASE inst \in Time /\ ExcludeInstance(m, inst)
      <3>1. rows' = Trash(Saved(rows, m, Without(e, inst)), {o \in Overrides(rows, m) : rows[o].rid = inst}, Now)
        BY <2>1, <2>5, DeleteRows
      <3>2. Without(e, inst) \in Event /\ GoodRule(Without(e, inst).rule)
        BY <1>3, <2>5, CutTyped
      <3>3. {o \in Overrides(rows, m) : rows[o].rid = inst} \subseteq Overrides(rows, m) \cup {m}
        OBVIOUS
      <3> QED
        BY <2>2, <3>1, <3>2, <3>3
    <2> QED
      BY <2>1, <2>3, <2>4, <2>5
  <1> QED
    BY <1>4, <1>5, <1>6, <1>7, <1>8 DEF Next

LEMMA StandsStep ==
    ASSUME ShapeInv, RuleInv, StandsInv, ~LoneTrash, Next
    PROVE  StandsInv'
  <1>1. PICK i \in Ids :
           \/ \E e \in Creations : Create(i, e)
           \/ \E scope \in Scopes, inst \in Time \cup {NoTime} :
                 \/ Delete(i, scope, inst)
                 \/ \E p \in Patches : Update(i, scope, inst, p)
           \/ Restore(i)
           \/ PurgeItem(i)
    BY DEF Next
  <1>2. ASSUME NEW scope \in Scopes, NEW inst \in Time \cup {NoTime}, Delete(i, scope, inst)
        PROVE  StandsInv'
    <2>1. PICK m \in Ids :
            /\ rows[m].series = Nil /\ Live(m)
            /\ \/ DeleteAll(m)
               \/ inst \in Time /\ inst > rows[m].event.start /\ TruncateSeries(m, inst)
               \/ inst \in Time /\ ExcludeInstance(m, inst)
      BY <1>2, DeleteCases
    <2>2. GoodRule(rows[m].event.rule)
      BY DEF RuleInv
    <2> QED
      BY <2>1, <2>2, StandsDeleteAll, StandsTruncate, StandsExclude
  <1>3. ASSUME NEW scope \in Scopes, NEW inst \in Time \cup {NoTime}, NEW p \in Patches, Update(i, scope, inst, p)
        PROVE  StandsInv'
    <2>1. PICK m \in Ids :
            /\ Resolves(i, scope, inst, m) /\ rows[m].series = Nil /\ Live(m)
            /\ \/ IsMaster(m) /\ inst \in Time /\ UpdateThis(m, inst, p)
               \/ inst \in Time /\ inst > rows[m].event.start /\ UpdateFollowing(m, inst, p)
               \/ UpdateAll(m, p)
      BY <1>3, UpdateCases
    <2>2. GoodRule(rows[m].event.rule)
      BY DEF RuleInv
    <2>3. CASE IsMaster(m) /\ inst \in Time /\ UpdateThis(m, inst, p)
      <3>1. inst \in Occurs(rows[m].event)
        BY <2>1, <2>3, ResolvedOccurs
      <3> QED
        BY <2>1, <2>3, <3>1, StandsThis
    <2>4. CASE inst \in Time /\ inst > rows[m].event.start /\ UpdateFollowing(m, inst, p)
      BY <2>1, <2>2, <2>4, StandsFollowing
    <2>5. CASE UpdateAll(m, p)
      BY <2>1, <2>5, StandsAll
    <2> QED
      BY <2>1, <2>3, <2>4, <2>5
  <1> QED
    BY <1>1, <1>2, <1>3, StandsCreate, StandsRestore, StandsPurge

\* The rules and what the overrides stand for, along every behaviour.
OccurInv == ShapeInv /\ RuleInv /\ StandsInv

LEMMA OccurHolds ==
    ASSUME ~LoneTrash, CountedFromStart
    PROVE  Spec => []OccurInv
  <1>1. Init => OccurInv
    <2> SUFFICES ASSUME Init PROVE OccurInv
      OBVIOUS
    <2>1. ShapeInv
      BY ShapeInit
    <2>2. \A i \in Ids : rows[i].event.rule = NoRule /\ rows[i].series = Nil
      BY DEF Init, Blank
    <2> QED
      BY <2>1, <2>2 DEF OccurInv, RuleInv, GoodRule, StandsInv
  <1>2. OccurInv /\ [Next]_vars => OccurInv'
    <2> SUFFICES ASSUME OccurInv, [Next]_vars PROVE OccurInv'
      OBVIOUS
    <2>0. ShapeInv /\ RuleInv /\ StandsInv /\ ShapeInv'
      BY ShapeStep DEF OccurInv
    <2>1. CASE Next
      BY <2>0, <2>1, RulesStayGood, StandsStep DEF OccurInv
    <2>2. CASE UNCHANGED vars
      BY <2>0, <2>2 DEF OccurInv, RuleInv, StandsInv, Stands, vars
    <2> QED
      BY <2>1, <2>2
  <1> QED
    BY <1>1, <1>2, PTL DEF Spec

\* Every changed occurrence belongs to a live series and stands for an instant at which it
\* really occurs, so that an edit of it reaches the occurrence and not the whole event
\* (resolve, syncOverrides, MoveOverrides, excludeInstance, Restore).  For rules that count
\* from their start, and where overrides come back with their series only.
THEOREM ChangedOnesOccur ==
    ASSUME ~LoneTrash, CountedFromStart
    PROVE  Spec => []OverridesOccur
  <1>1. OccurInv => OverridesOccur
    BY StandsMeans DEF OccurInv
  <1>2. Spec => []OccurInv
    BY OccurHolds
  <1> QED
    BY <1>1, <1>2, PTL

-----------------------------------------------------------------------------
(* A restore brings back what was shown. *)

\* What a user sees of a series depends on its row and on those of its overrides only.
LEMMA LinesSame ==
    ASSUME NEW t1, NEW t2, NEW m \in Ids, t1[m] = t2[m],
           \A j \in Ids : t1[j].series = m \/ t2[j].series = m => t1[j] = t2[j]
    PROVE  Lines(t1, m) = Lines(t2, m)
  <1>1. Overrides(t1, m) = Overrides(t2, m)
    BY DEF Overrides
  <1>2. \A o \in Overrides(t1, m) : t1[o] = t2[o]
    BY DEF Overrides
  <1> DEFINE ov == Overrides(t1, m)
  <1>3. {t1[o].rid : o \in ov} = {t2[o].rid : o \in ov}
    BY <1>2
  <1>4. {o \in ov : t1[o].event.val # Cancelled} = {o \in ov : t2[o].event.val # Cancelled}
    BY <1>2
  <1> DEFINE shown == {o \in ov : t1[o].event.val # Cancelled}
  <1>5. {<<t1[o].rid, t1[o].event.start, t1[o].event.val>> : o \in shown}
          = {<<t2[o].rid, t2[o].event.start, t2[o].event.val>> : o \in shown}
    BY <1>2
  <1> DEFINE e == t1[m].event
             on == IF t1[m].status # "live" \/ t1[m].series # Nil THEN {}
                   ELSE IF Recurs(e) THEN Occurs(e) \ {t1[o].rid : o \in ov} ELSE {e.start}
             line1 == {<<t, t, e.val>> : t \in {t \in on : e.val # Cancelled}}
  <1>6. Lines(t1, m) = line1 \cup {<<t1[o].rid, t1[o].event.start, t1[o].event.val>> : o \in shown}
    BY DEF Lines
  <1>7. Lines(t2, m) = line1 \cup {<<t2[o].rid, t2[o].event.start, t2[o].event.val>> : o \in shown}
    <2>1. on = IF t2[m].status # "live" \/ t2[m].series # Nil THEN {}
               ELSE IF Recurs(t2[m].event) THEN Occurs(t2[m].event) \ {t2[o].rid : o \in Overrides(t2, m)}
               ELSE {t2[m].event.start}
      BY <1>1, <1>3
    <2>2. shown = {o \in Overrides(t2, m) : t2[o].event.val # Cancelled}
      BY <1>1, <1>4
    <2>3. e = t2[m].event
      OBVIOUS
    <2> HIDE DEF on, shown, e
    <2> QED
      BY <2>1, <2>2, <2>3 DEF Lines
  <1> HIDE DEF line1, shown
  <1> QED
    BY <1>5, <1>6, <1>7

\* A row when it is deleted at k, and when it is restored.
Marked(row, k) == [row EXCEPT !.status = "trashed", !.deletedAt = k]
Unmarked(row)  == [row EXCEPT !.status = "live", !.deletedAt = 0]

LEMMA MarksUndone ==
    ASSUME NEW row \in Row, NEW k \in Nat
    PROVE  /\ Marked(row, k).status = "trashed" /\ Marked(row, k).deletedAt = k
           /\ Marked(row, k).series = row.series /\ Unmarked(row).series = row.series
           /\ row.status = "live" /\ row.deletedAt = 0 => Unmarked(Marked(row, k)) = row
  <1>1. \A x \in Row : \A n \in Nat :
          /\ Marked(x, n) \in Row /\ Marked(x, n).status = "trashed" /\ Marked(x, n).deletedAt = n
          /\ Marked(x, n).uid = x.uid /\ Marked(x, n).series = x.series
          /\ Marked(x, n).rid = x.rid /\ Marked(x, n).event = x.event
    BY DEF Row, Marked
  <1>2. \A x \in Row :
          /\ Unmarked(x) \in Row /\ Unmarked(x).status = "live" /\ Unmarked(x).deletedAt = 0
          /\ Unmarked(x).uid = x.uid /\ Unmarked(x).series = x.series
          /\ Unmarked(x).rid = x.rid /\ Unmarked(x).event = x.event
    BY DEF Row, Unmarked
  <1>3. \A x \in Row, y \in Row :
          /\ x.status = y.status /\ x.deletedAt = y.deletedAt /\ x.uid = y.uid
          /\ x.series = y.series /\ x.rid = y.rid /\ x.event = y.event
          => x = y
    BY DEF Row
  <1> DEFINE out  == Marked(row, k)
             back == Unmarked(out)
  <1>4. /\ out \in Row /\ out.status = "trashed" /\ out.deletedAt = k
        /\ out.uid = row.uid /\ out.series = row.series /\ out.rid = row.rid /\ out.event = row.event
    BY <1>1
  <1> HIDE DEF out
  <1>5. /\ back \in Row /\ back.status = "live" /\ back.deletedAt = 0
        /\ back.uid = row.uid /\ back.series = row.series /\ back.rid = row.rid /\ back.event = row.event
    BY <1>2, <1>4
  <1> HIDE DEF back
  <1>6. row.status = "live" /\ row.deletedAt = 0 => back = row
    BY <1>3, <1>5
  <1> QED
    BY <1>2, <1>4, <1>6 DEF out, back

\* The table that a restore of row i makes.
Back(table, i) ==
    [j \in Ids |->
        IF (j = i \/ table[j].series = i) /\ table[j].status = "trashed" /\ table[j].deletedAt = table[i].deletedAt
        THEN [table[j] EXCEPT !.status = "live", !.deletedAt = 0]
        ELSE table[j]]

\* An event in the trash would show, restored, what it showed when it was deleted.
GoneInv ==
    \A i \in Ids : rows[i].status = "trashed" /\ rows[i].series = Nil => gone[i] = Lines(Back(rows, i), i)

\* Nothing of event i changed.
Untouched(i) ==
    /\ rows'[i] = rows[i] /\ gone'[i] = gone[i]
    /\ \A j \in Ids : rows[j].series = i \/ rows'[j].series = i => rows'[j] = rows[j]

LEMMA GoneKept ==
    ASSUME ShapeInv, ShapeInv', GoneInv, NEW i \in Ids, Untouched(i),
           rows'[i].status = "trashed", rows'[i].series = Nil
    PROVE  gone'[i] = Lines(Back(rows', i), i)
  <1> DEFINE t1 == Back(rows, i)
             t2 == Back(rows', i)
  <1>0. /\ rows \in [Ids -> Row] /\ rows' \in [Ids -> Row] /\ rows'[i] = rows[i]
        /\ \A j \in Ids : rows[j].series = i \/ rows'[j].series = i => rows'[j] = rows[j]
    BY DEF ShapeInv, TypeOK, Untouched
  <1>1. \A j \in Ids : rows'[j] = rows[j] => t1[j] = t2[j]
    BY <1>0 DEF Back
  <1>2. \A j \in Ids : t1[j].series = rows[j].series /\ t2[j].series = rows'[j].series
    <2> SUFFICES ASSUME NEW j \in Ids
                 PROVE  t1[j].series = rows[j].series /\ t2[j].series = rows'[j].series
      OBVIOUS
    <2>1. rows[j] \in Row /\ rows'[j] \in Row
      BY <1>0
    <2>2. \A row \in Row : Unmarked(row).series = row.series
      BY MarksUndone
    <2>3. t1[j] = rows[j] \/ t1[j] = Unmarked(rows[j])
      BY DEF Back, Unmarked
    <2>4. t2[j] = rows'[j] \/ t2[j] = Unmarked(rows'[j])
      BY DEF Back, Unmarked
    <2> HIDE DEF t1, t2
    <2> QED
      BY <2>1, <2>2, <2>3, <2>4
  <1> HIDE DEF t1, t2
  <1>3. t1[i] = t2[i]
    BY <1>0, <1>1
  <1>4. \A j \in Ids : t1[j].series = i \/ t2[j].series = i => t1[j] = t2[j]
    BY <1>0, <1>1, <1>2
  <1>5. Lines(t1, i) = Lines(t2, i)
    BY <1>3, <1>4, LinesSame
  <1>6. gone[i] = Lines(Back(rows, i), i)
    BY <1>0 DEF GoneInv
  <1> QED
    BY <1>5, <1>6 DEF t1, t2, Untouched

\* Deleting an event marks what it showed, and nothing that was marked before.
LEMMA GoneDeleted ==
    ASSUME ShapeInv, NEW m \in Ids, rows[m].series = Nil, Live(m), DeleteAll(m)
    PROVE  gone'[m] = Lines(Back(rows', m), m)
  <1>1. gone'[m] = Lines(rows, m)
    BY DEF DeleteAll, ShapeInv, TypeOK
  <1>2. rows' = Trash(rows, {m}, Now) /\ rows \in [Ids -> Row]
    BY RowShape DEF DeleteAll
  <1> DEFINE t2 == Back(rows', m)
  <1>3. rows'[m] = Marked(rows[m], Now)
    BY <1>2 DEF Trash, Live, Marked
  <1>4. \A row \in Row :
           /\ Marked(row, Now).status = "trashed" /\ Marked(row, Now).deletedAt = Now
           /\ Marked(row, Now).series = row.series /\ Unmarked(row).series = row.series
           /\ row.status = "live" /\ row.deletedAt = 0 => Unmarked(Marked(row, Now)) = row
    BY RowShape, MarksUndone
  <1>5. rows[m] \in Row /\ Now \in Nat /\ rows[m].status = "live" /\ rows[m].deletedAt = 0
    BY RowShape DEF Live, ShapeInv, ClockInv
  <1>6. rows'[m].status = "trashed" /\ rows'[m].deletedAt = Now
    BY <1>3, <1>4, <1>5
  <1>7. ASSUME NEW j \in Ids, j = m \/ rows'[j].series = m \/ rows[j].series = m
        PROVE  t2[j] = rows[j]
    <2>1. /\ t2[j] = IF (j = m \/ rows'[j].series = m) /\ rows'[j].status = "trashed" /\ rows'[j].deletedAt = Now
                     THEN Unmarked(rows'[j]) ELSE rows'[j]
          /\ rows[j] \in Row
      BY <1>2, <1>6 DEF Back, Unmarked
    <2>2. rows'[j] = IF rows[j].status = "live" /\ (j = m \/ rows[j].series = m) THEN Marked(rows[j], Now) ELSE rows[j]
      BY <1>2 DEF Trash, Marked
    <2> HIDE DEF t2
    <2>3. rows[j].series = rows'[j].series
      BY <1>4, <1>5, <2>1, <2>2
    <2>4. CASE rows[j].status = "live"
      <3>1. rows[j].deletedAt = 0
        BY <2>4 DEF ShapeInv, ClockInv
      <3>2. rows'[j] = Marked(rows[j], Now)
        BY <1>7, <2>2, <2>3, <2>4
      <3>3. rows'[j].status = "trashed" /\ rows'[j].deletedAt = Now
        BY <1>4, <1>5, <2>1, <3>2
      <3>4. t2[j] = Unmarked(Marked(rows[j], Now))
        BY <1>7, <2>1, <2>3, <3>2, <3>3
      <3> QED
        BY <1>4, <1>5, <2>1, <2>4, <3>1, <3>4
    <2>5. CASE rows[j].status # "live"
      <3>1. rows'[j] = rows[j]
        BY <2>2, <2>5
      <3>2. ~(rows[j].status = "trashed" /\ rows[j].deletedAt = Now)
        BY <1>5 DEF ShapeInv, ClockInv
      <3> QED
        BY <2>1, <3>1, <3>2
    <2> QED
      BY <2>4, <2>5
  <1>8. \A j \in Ids : t2[j].series = m => rows'[j].series = m
    <2> SUFFICES ASSUME NEW j \in Ids PROVE t2[j].series = rows'[j].series
      OBVIOUS
    <2>1. rows'[j] \in Row
      <3>1. rows'[j] = Trash(rows, {m}, Now)[j] /\ Trash(rows, {m}, Now) \in [Ids -> Row]
        BY <1>2, <1>5, TrashTyped
      <3> QED
        BY <3>1
    <2>2. t2[j] = rows'[j] \/ t2[j] = Unmarked(rows'[j])
      BY DEF Back, Unmarked
    <2> HIDE DEF t2
    <2> QED
      BY <1>4, <2>1, <2>2
  <1> HIDE DEF t2
  <1>9. rows[m] = t2[m] /\ \A j \in Ids : rows[j].series = m \/ t2[j].series = m => rows[j] = t2[j]
    BY <1>7, <1>8
  <1>10. Lines(rows, m) = Lines(t2, m)
    BY <1>9, LinesSame
  <1> QED
    BY <1>1, <1>10 DEF t2

\* An event in the trash is untouched by every operation but its own deletion.
LEMMA UntouchedTrash ==
    ASSUME ShapeInv, ShapeInv', ~LoneTrash, Next, NEW k \in Ids,
           rows'[k].status = "trashed", rows'[k].series = Nil
    PROVE  Untouched(k) \/ (rows[k].series = Nil /\ Live(k) /\ DeleteAll(k))
  <1>0. /\ rows \in [Ids -> Row] /\ gone \in [Ids -> SUBSET (Time \X Time \X Contents)]
        /\ \A j \in Ids : rows[j].series \in Ids \cup {Nil}
        /\ \A j \in Ids : rows[j].series # Nil => rows[rows[j].series].series = Nil
    BY RowShape DEF ShapeInv, TypeOK
  <1>1. ASSUME NEW i \in Ids, NEW e \in Creations, Create(i, e)
        PROVE  Untouched(k)
    <2> DEFINE new == [Blank EXCEPT !.status = "live", !.uid = <<i>>, !.event = e]
    <2>1. rows' = [rows EXCEPT ![i] = new] /\ gone' = gone /\ rows[i].status = "absent"
      BY <1>1 DEF Create, Fresh
    <2>2. new.series = Nil /\ new.status = "live"
      BY DEF Blank
    <2> HIDE DEF new
    <2>3. i # k /\ rows[i].series = Nil /\ \A j \in Ids : j # i => rows'[j] = rows[j]
      BY <1>0, <2>1, <2>2, RowShape
    <2>4. rows'[i].series = Nil
      BY <1>0, <2>1, <2>2
    <2> QED
      BY <2>1, <2>3, <2>4 DEF Untouched
  <1>2. ASSUME NEW i \in Ids, Restore(i)
        PROVE  Untouched(k)
    <2>1. rows' = Restored(i) /\ gone' = gone /\ rows[i].series = Nil /\ rows[i].status = "trashed"
      BY <1>2 DEF Restore
    <2>2. \A j \in Ids : /\ rows'[j].series = rows[j].series
                         /\ \/ rows'[j].status = "live" /\ (j = i \/ rows[j].series = i)
                            \/ rows'[j] = rows[j] /\ j # i
      BY <1>0, <2>1, RestoredRows
    <2>3. rows'[k] = rows[k] /\ k # i
      BY <1>0, <2>1, <2>2
    <2>4. ASSUME NEW j \in Ids, rows[j].series = k \/ rows'[j].series = k PROVE rows'[j] = rows[j]
      <3>1. rows[j].series = k
        BY <2>2, <2>4
      <3>2. j # i /\ rows[j].series # i
        BY <2>1, <2>3, <3>1, Constants
      <3> QED
        BY <2>2, <3>2
    <2> QED
      BY <2>1, <2>3, <2>4 DEF Untouched
  <1>3. ASSUME NEW i \in Ids, PurgeItem(i)
        PROVE  Untouched(k)
    <2>1. gone' = gone /\ rows[i].series = Nil
      BY <1>3 DEF PurgeItem
    <2>2. rows'[k] = rows[k] /\ rows'[k] # Blank
      BY <1>3, PurgeRows, BlankTyped
    <2>3. i # k
      <3>1. rows[k].status = "trashed" /\ i = k => rows'[k] = Blank
        BY <1>3 DEF PurgeItem
      <3> QED
        BY <2>2, <3>1
    <2>4. ASSUME NEW j \in Ids, rows[j].series = k PROVE rows'[j] # Blank
      <3>1. rows[j] # Blank /\ j # i
        BY <1>0, <2>1, <2>4, BlankTyped
      <3> QED
        BY <1>3, <2>2, <2>3, <2>4, <3>1, PurgeRows
    <2>5. \A j \in Ids : rows'[j] = rows[j] \/ rows'[j] = Blank
      BY <1>3, PurgeRows
    <2>6. \A j \in Ids : rows'[j].series = k => rows'[j] = rows[j]
      BY <2>5, BlankTyped
    <2> QED
      BY <2>1, <2>2, <2>4, <2>5, <2>6 DEF Untouched
  <1>4. ASSUME NEW i \in Ids, NEW scope \in Scopes, NEW inst \in Time \cup {NoTime}, NEW p \in Patches,
               Update(i, scope, inst, p)
        PROVE  Untouched(k)
    <2>1. PICK m \in Ids :
            /\ rows[m].series = Nil /\ Live(m)
            /\ UpdateAll(m, p) \/ (inst \in Time /\ (UpdateThis(m, inst, p) \/ UpdateFollowing(m, inst, p)))
      BY Zenon, <1>4, UpdateCases
    <2>2. gone' = gone
      BY <2>1 DEF UpdateAll, UpdateThis, UpdateFollowing
    <2>3. CASE UpdateAll(m, p)
      <3>1. /\ rows'[m].status = "live" /\ rows'[m].series = Nil
            /\ \A j \in Ids \ {m} :
                 rows'[j].series = rows[j].series /\ (rows'[j] = rows[j] \/ j \in Overrides(rows, m))
        BY <2>1, <2>3, AllRows DEF Live
      <3>2. k # m /\ k \notin Overrides(rows, m)
        <4>1. k # m
          BY <3>1
        <4>2. rows'[k].series = rows[k].series
          BY <3>1, <4>1
        <4>3. rows[k].series = Nil /\ m # Nil
          BY <4>2, Constants
        <4> QED
          BY <4>1, <4>3 DEF Overrides
      <3> QED
        BY <2>1, <2>2, <3>1, <3>2 DEF Untouched, Overrides
    <2>4. CASE inst \in Time /\ UpdateThis(m, inst, p)
      <3>0. PICK o \in Ids : ChangedOne(m, o, inst, p)
        BY <2>1, <2>4, ThisRow
      <3>1. /\ rows' = [rows EXCEPT ![o] = rows'[o]] /\ rows'[o] \in Row
            /\ o \in Overrides(rows, m) \/ Fresh(o)
            /\ rows'[o].status = "live" /\ rows'[o].series = m /\ rows'[o].rid = inst
        BY <3>0 DEF ChangedOne
      <3>2. k # o /\ k # m /\ \A j \in Ids : j # o => rows'[j] = rows[j]
        BY <1>0, <2>1, <3>1 DEF Live, Overrides, Fresh
      <3>3. rows[o].series # k
        BY <3>1, <3>2, RowShape DEF Overrides, Fresh
      <3> QED
        BY <2>2, <3>1, <3>2, <3>3 DEF Untouched
    <2>5. CASE inst \in Time /\ UpdateFollowing(m, inst, p)
      <3>0. PICK n \in Ids : Followed(m, n, inst, p)
        BY <2>1, <2>5, FollowingRows
      <3>1. /\ Fresh(n) /\ rows'[m].status = "live" /\ rows'[m].series = Nil
            /\ rows'[n].status = "live" /\ rows'[n].series = Nil
            /\ \A j \in Ids \ {m, n} :
                 rows'[j] = rows[j] \/ (j \in Overrides(rows, m) /\ rows'[j].series = n)
        BY <3>0 DEF Followed
      <3>2. k # m /\ k # n /\ rows[n].series = Nil
        BY <3>1, RowShape DEF Fresh
      <3>3. ASSUME NEW j \in Ids, rows[j].series = k \/ rows'[j].series = k
            PROVE  rows'[j] = rows[j]
        <4>1. j \notin {m, n}
          BY <2>1, <3>1, <3>2, <3>3
        <4>2. ~(j \in Overrides(rows, m) /\ rows'[j].series = n)
          BY <3>2, <3>3 DEF Overrides
        <4> QED
          BY <3>1, <4>1, <4>2
      <3>4. rows'[k] = rows[k]
        BY <3>1, <3>2
      <3> QED
        BY <2>2, <3>3, <3>4 DEF Untouched
    <2> QED
      BY <2>1, <2>3, <2>4, <2>5
  <1>5. ASSUME NEW i \in Ids, NEW scope \in Scopes, NEW inst \in Time \cup {NoTime}, Delete(i, scope, inst)
        PROVE  Untouched(k) \/ (rows[k].series = Nil /\ Live(k) /\ DeleteAll(k))
    <2>1. PICK m \in Ids :
            /\ rows[m].series = Nil /\ Live(m)
            /\ DeleteAll(m) \/ (inst \in Time /\ (TruncateSeries(m, inst) \/ ExcludeInstance(m, inst)))
      BY <1>5, DeleteCases
    <2> DEFINE e == rows[m].event
    <2>2. ASSUME NEW c \in Event, NEW doomed,
                 doomed \subseteq Overrides(rows, m) \cup {m}, rows' = Trash(Saved(rows, m, c), doomed, Now),
                 k # m, gone'[k] = gone[k]
          PROVE  Untouched(k)
      <3>1. Deleted(m, c, doomed)
        BY <2>1, <2>2, DeletedRows
      <3>2. /\ rows'[m].series = Nil
            /\ \A j \in Ids \ {m} : /\ rows'[j].series = rows[j].series
                                    /\ rows'[j] = rows[j] \/ j \in Overrides(rows, m)
        BY <3>1 DEF Deleted
      <3> QED
        BY <2>1, <2>2, <3>2 DEF Untouched, Overrides
    <2>3. CASE DeleteAll(m)
      <3>1. rows' = Trash(Saved(rows, m, e), {m}, Now) /\ e \in Event
        BY <2>1, <2>3, Typed, DeleteRows, RowShape
      <3>2. {m} \subseteq Overrides(rows, m) \cup {m} /\ (k # m => gone'[k] = gone[k])
        BY <1>0, <2>3 DEF DeleteAll
      <3> QED
        BY <2>1, <2>2, <2>3, <3>1, <3>2
    <2>4. ASSUME NEW c \in Event, NEW doomed, doomed \subseteq Overrides(rows, m),
                 rows' = Trash(Saved(rows, m, c), doomed, Now), gone' = gone
          PROVE  Untouched(k)
      <3>1. m \notin doomed /\ doomed \subseteq Overrides(rows, m) \cup {m}
        BY <2>1, <2>4 DEF Overrides
      <3>2. Deleted(m, c, doomed)
        BY <2>1, <2>4, <3>1, DeletedRows
      <3>3. k # m
        BY <3>1, <3>2 DEF Deleted
      <3> QED
        BY <2>2, <2>4, <3>1, <3>3
    <2>5. CASE inst \in Time /\ TruncateSeries(m, inst)
      <3>1. /\ rows' = Trash(Saved(rows, m, Cut(e, inst)), {o \in Overrides(rows, m) : rows[o].rid >= inst}, Now)
            /\ gone' = gone
        BY <2>1, <2>5, DeleteRows DEF TruncateSeries
      <3>2. Cut(e, inst) \in Event /\ {o \in Overrides(rows, m) : rows[o].rid >= inst} \subseteq Overrides(rows, m)
        BY <2>5, RowShape, CutTyped
      <3> QED
        BY <2>4, <3>1, <3>2
    <2>6. CASE inst \in Time /\ ExcludeInstance(m, inst)
      <3>1. /\ rows' = Trash(Saved(rows, m, Without(e, inst)), {o \in Overrides(rows, m) : rows[o].rid = inst}, Now)
            /\ gone' = gone
        BY <2>1, <2>6, DeleteRows DEF ExcludeInstance
      <3>2. Without(e, inst) \in Event /\ {o \in Overrides(rows, m) : rows[o].rid = inst} \subseteq Overrides(rows, m)
        BY <2>6, RowShape, CutTyped
      <3> QED
        BY <2>4, <3>1, <3>2
    <2> QED
      BY <2>1, <2>3, <2>5, <2>6
  <1> QED
    BY <1>1, <1>2, <1>3, <1>4, <1>5 DEF Next

\* Which operation the ghost tells of.
LEMMA UpdateOps ==
    ASSUME NEW i, NEW scope, NEW inst, NEW p, Update(i, scope, inst, p)
    PROVE  did'.op \in {"this", "all", "following"}
  <1>1. ASSUME NEW m, UpdateAll(m, p)
        PROVE  did'.op = "all"
    <2>1. Did("all", m, NoTime, p)
      BY <1>1 DEF UpdateAll
    <2> QED
      BY <2>1 DEF Did
  <1>2. ASSUME NEW m, UpdateThis(m, inst, p)
        PROVE  did'.op = "this"
    <2>1. Did("this", m, inst, p)
      BY <1>2 DEF UpdateThis
    <2> QED
      BY <2>1 DEF Did
  <1>3. ASSUME NEW m, UpdateFollowing(m, inst, p)
        PROVE  did'.op = "following"
    <2>1. Did("following", m, inst, p)
      BY <1>3 DEF UpdateFollowing
    <2> QED
      BY Zenon, <2>1 DEF Did
  <1> QED
    BY <1>1, <1>2, <1>3 DEF Update

LEMMA DeleteOps ==
    ASSUME NEW i, NEW scope, NEW inst, Delete(i, scope, inst)
    PROVE  did'.op \in {"trash", "truncate", "exclude"}
  <1>1. ASSUME NEW m, DeleteAll(m)
        PROVE  did'.op = "trash"
    <2>1. Did("trash", m, NoTime, Nil)
      BY <1>1 DEF DeleteAll
    <2> QED
      BY <2>1 DEF Did
  <1>2. ASSUME NEW m, TruncateSeries(m, inst)
        PROVE  did'.op = "truncate"
    <2>1. Did("truncate", m, inst, Nil)
      BY <1>2 DEF TruncateSeries
    <2> QED
      BY <2>1 DEF Did
  <1>3. ASSUME NEW m, ExcludeInstance(m, inst)
        PROVE  did'.op = "exclude"
    <2>1. Did("exclude", m, inst, Nil)
      BY <1>3 DEF ExcludeInstance
    <2> QED
      BY <2>1 DEF Did
  <1> QED
    BY <1>1, <1>2, <1>3 DEF Delete

LEMMA DidRestore ==
    ASSUME ShapeInv, Next, did'.op = "restore"
    PROVE  \E i \in Ids : Restore(i) /\ did'.series = i
  <1>1. PICK i \in Ids :
           \/ \E e \in Creations : Create(i, e)
           \/ \E scope \in Scopes, inst \in Time \cup {NoTime} :
                 \/ Delete(i, scope, inst)
                 \/ \E p \in Patches : Update(i, scope, inst, p)
           \/ Restore(i)
           \/ PurgeItem(i)
    BY DEF Next
  <1>2. \A e : Create(i, e) => did'.op = "create"
    BY DEF Create, Did
  <1>3. PurgeItem(i) => did'.op = "purge"
    BY DEF PurgeItem, Did
  <1>4. ASSUME NEW scope \in Scopes, NEW inst \in Time \cup {NoTime}, NEW p \in Patches
        PROVE  ~Update(i, scope, inst, p)
    <2> SUFFICES ASSUME Update(i, scope, inst, p) PROVE FALSE
      OBVIOUS
    <2>1. did'.op \in {"this", "all", "following"}
      BY UpdateOps
    <2> QED
      BY <2>1
  <1>5. ASSUME NEW scope \in Scopes, NEW inst \in Time \cup {NoTime}
        PROVE  ~Delete(i, scope, inst)
    <2> SUFFICES ASSUME Delete(i, scope, inst) PROVE FALSE
      OBVIOUS
    <2>1. did'.op \in {"trash", "truncate", "exclude"}
      BY DeleteOps
    <2> QED
      BY <2>1
  <1>6. Restore(i) => did'.series = i
    BY DEF Restore, Did
  <1> QED
    BY <1>1, <1>2, <1>3, <1>4, <1>5, <1>6

LEMMA GoneHolds ==
    ASSUME ~LoneTrash
    PROVE  Spec => [](ShapeInv /\ GoneInv)
  <1>1. Init => GoneInv
    BY DEF Init, GoneInv, Blank
  <1>2. ShapeInv /\ GoneInv /\ [Next]_vars => GoneInv'
    <2> SUFFICES ASSUME ShapeInv, GoneInv, [Next]_vars PROVE GoneInv'
      OBVIOUS
    <2>0. ShapeInv'
      BY ShapeStep
    <2>1. CASE Next
      <3> SUFFICES ASSUME NEW k \in Ids, rows'[k].status = "trashed", rows'[k].series = Nil
                   PROVE  gone'[k] = Lines(Back(rows', k), k)
        BY DEF GoneInv
      <3> QED
        BY <2>0, <2>1, UntouchedTrash, GoneKept, GoneDeleted
    <2>2. CASE UNCHANGED vars
      BY <2>2 DEF vars, GoneInv
    <2> QED
      BY <2>1, <2>2
  <1> QED
    BY <1>1, <1>2, ShapeInit, ShapeStep, PTL DEF Spec

\* Restoring an event from the trash brings back what it showed when it was deleted: its
\* changed occurrences too, and none of those deleted before it (Store.Restore and its
\* comparison of deleted_at).  Where overrides are restored and purged with their series only.
THEOREM RestoresExactly ==
    ASSUME ~LoneTrash
    PROVE  Spec => RestoreIsExact
  <1>1. ASSUME ShapeInv, GoneInv, [Next]_vars, vars' # vars, did'.op = "restore", rows[did'.series].series = Nil
        PROVE  Lines(rows', did'.series) = gone[did'.series]
    <2>1. PICK i \in Ids : Restore(i) /\ did'.series = i
      BY <1>1, DidRestore
    <2>2. rows' = Back(rows, i) /\ rows[i].status = "trashed" /\ rows[i].series = Nil
      BY <1>1, <2>1 DEF Restore, Restored, Back
    <2> QED
      BY <1>1, <2>1, <2>2 DEF GoneInv
  <1>2. ShapeInv /\ GoneInv /\ [Next]_vars =>
          [did'.op = "restore" /\ rows[did'.series].series = Nil =>
             Lines(rows', did'.series) = gone[did'.series]]_vars
    BY <1>1
  <1>3. Spec => [](ShapeInv /\ GoneInv)
    BY GoneHolds
  <1> QED
    BY <1>2, <1>3, PTL DEF Spec, RestoreIsExact

-----------------------------------------------------------------------------
(* What an edit from one occurrence on leaves alone. *)

\* What a user sees of a series: the occurrences without an override, and the overrides.
LEMMA SeriesLines ==
    ASSUME NEW table, NEW m, table[m].status = "live", table[m].series = Nil, Recurs(table[m].event), NEW l
    PROVE  l \in Lines(table, m) <=>
             \/ \E t \in Occurs(table[m].event) :
                  /\ \A o \in Overrides(table, m) : table[o].rid # t
                  /\ table[m].event.val # Cancelled /\ l = <<t, t, table[m].event.val>>
             \/ \E o \in Overrides(table, m) :
                  /\ table[o].event.val # Cancelled
                  /\ l = <<table[o].rid, table[o].event.start, table[o].event.val>>
  <1> DEFINE e    == table[m].event
             ov   == Overrides(table, m)
             on   == Occurs(e) \ {table[o].rid : o \in ov}
             own  == {<<t, t, e.val>> : t \in {t \in on : e.val # Cancelled}}
             theirs == {<<table[o].rid, table[o].event.start, table[o].event.val>> :
                          o \in {o \in ov : table[o].event.val # Cancelled}}
  <1>1. Lines(table, m) = own \cup theirs
    BY DEF Lines
  <1> HIDE DEF ov
  <1>2. l \in own <=> \E t \in Occurs(e) : /\ \A o \in ov : table[o].rid # t
                                           /\ e.val # Cancelled /\ l = <<t, t, e.val>>
    OBVIOUS
  <1>3. l \in theirs <=> \E o \in ov : /\ table[o].event.val # Cancelled
                                       /\ l = <<table[o].rid, table[o].event.start, table[o].event.val>>
    OBVIOUS
  <1> HIDE DEF own, theirs
  <1> QED
    BY <1>1, <1>2, <1>3 DEF ov

\* An override shows nothing of its own.
LEMMA OverrideLines ==
    ASSUME NEW table, NEW m, table[m].series # Nil, \A j \in Ids : table[j].series # m
    PROVE  Lines(table, m) = {}
  <1>1. Overrides(table, m) = {}
    BY DEF Overrides
  <1> QED
    BY <1>1 DEF Lines

\* What a cut of a series does to its lines.
LEMMA CutLines ==
    ASSUME ShapeInv, NEW m \in Ids, GoodRule(rows[m].event.rule), NEW at \in Time,
           LET r == rows[m].event.rule IN r.until = NoTime \/ r.until >= at - 1,
           at > rows[m].event.start, rows[m].series = Nil, Live(m), rows[m].event.rule # NoRule,
           rows'[m].event = Cut(rows[m].event, at), rows'[m].status = "live", rows'[m].series = Nil,
           \A j \in Ids : \/ /\ j \in Overrides(rows', m) /\ j \in Overrides(rows, m) /\ rows[j].rid < at
                             /\ rows'[j].rid = rows[j].rid /\ rows'[j].event = rows[j].event
                          \/ j \notin Overrides(rows', m) /\ ~(j \in Overrides(rows, m) /\ rows[j].rid < at)
    PROVE  Lines(rows', m) = {l \in Lines(rows, m) : l[1] < at}
  <1> DEFINE e == rows[m].event
             c == Cut(e, at)
  <1>1. e \in Event /\ e.rule # NoRule /\ GoodRule(e.rule) /\ at > e.start
    BY RowShape
  <1>2. Recurs(c) /\ Occurs(c) = {t \in Occurs(e) : t < at} /\ c.val = e.val /\ Recurs(e)
    <2> HIDE DEF e
    <2> QED
      BY <1>1, HeadOccurs, CutTyped DEF Recurs, e
  <1>3. \A o \in Overrides(rows, m) : o \in Ids
    BY DEF Overrides
  <1>4. \A o \in Overrides(rows', m) : o \in Ids
    BY DEF Overrides
  <1> HIDE DEF c
  <1>5. rows'[m].event = c
    BY DEF c
  <1> DEFINE Own(l, t)  == e.val # Cancelled /\ l = <<t, t, e.val>>
             Line(l, o) == /\ rows[o].event.val # Cancelled
                           /\ l = <<rows[o].rid, rows[o].event.start, rows[o].event.val>>
  <1>6. \A l : l \in Lines(rows, m) <=>
           \/ \E t \in Occurs(e) : (\A o \in Overrides(rows, m) : rows[o].rid # t) /\ Own(l, t)
           \/ \E o \in Overrides(rows, m) : Line(l, o)
    BY <1>2, SeriesLines DEF Live
  <1>7. \A l : l \in Lines(rows', m) <=>
           \/ \E t \in Occurs(c) : (\A o \in Overrides(rows', m) : rows'[o].rid # t) /\ Own(l, t)
           \/ \E o \in Overrides(rows', m) : /\ rows'[o].event.val # Cancelled
                                             /\ l = <<rows'[o].rid, rows'[o].event.start, rows'[o].event.val>>
    BY <1>2, <1>5, SeriesLines
  <1>8. \A l : (\E o \in Overrides(rows', m) : /\ rows'[o].event.val # Cancelled
                                               /\ l = <<rows'[o].rid, rows'[o].event.start, rows'[o].event.val>>)
                 <=> (\E o \in Overrides(rows, m) : Line(l, o) /\ rows[o].rid < at)
    BY <1>3, <1>4
  <1>9. \A t : t < at => ((\A o \in Overrides(rows', m) : rows'[o].rid # t)
                            <=> (\A o \in Overrides(rows, m) : rows[o].rid # t))
    BY <1>3, <1>4
  <1>10. \A l, t : Own(l, t) => l[1] = t
    OBVIOUS
  <1>11. \A l, o : Line(l, o) => l[1] = rows[o].rid
    OBVIOUS
  <1> HIDE DEF e, Own, Line
  <1>12. \A l : l \in Lines(rows', m) <=> l \in Lines(rows, m) /\ l[1] < at
    BY <1>2, <1>6, <1>7, <1>8, <1>9, <1>10, <1>11
  <1> QED
    BY <1>12

\* Events that an operation on series m does not touch show what they showed.
LEMMA OthersSame ==
    ASSUME ShapeInv, ShapeInv', NEW m \in Ids, rows[m].series = Nil,
           \A j \in Ids : j # m /\ rows[j].series # m /\ rows[j].status # "absent" =>
              rows'[j].series = rows[j].series /\ (rows[j].series = Nil => rows'[j] = rows[j]),
           \A j \in Ids : rows[j].series # m /\ rows[j].series # Nil => rows'[j] = rows[j],
           \A j \in Ids : rows[j].series = m => rows'[j].series \in {m} \cup {f \in Ids : Fresh(f)},
           \A j \in Ids : rows[j].series = Nil => rows'[j].series \in {Nil, m},
           NEW k \in Ids, k # m, Live(k)
    PROVE  Lines(rows', k) = Lines(rows, k)
  <1>1. CASE rows[k].series # Nil
    <2>1. rows'[k].series # Nil
      <3>1. rows[k].series = m => rows'[k].series # Nil
        OBVIOUS
      <3> QED
        BY <1>1, <3>1 DEF Live
    <2>2. \A j \in Ids : rows[j].series # k
      BY <1>1, RowShape
    <2>3. \A j \in Ids : rows'[j].series # k
      BY <2>1 DEF ShapeInv, SeriesInv
    <2>4. Lines(rows, k) = {}
      BY <1>1, <2>2, OverrideLines
    <2>5. Lines(rows', k) = {}
      BY <2>1, <2>3, OverrideLines
    <2> QED
      BY <2>4, <2>5
  <1>2. CASE rows[k].series = Nil
    <2>1. rows'[k] = rows[k]
      BY <1>2 DEF Live
    <2>2. \A j \in Ids : rows[j].series = k \/ rows'[j].series = k => rows'[j] = rows[j]
      <3> SUFFICES ASSUME NEW j \in Ids, rows[j].series = k \/ rows'[j].series = k
                   PROVE  rows'[j] = rows[j]
        OBVIOUS
      <3>1. CASE rows[j].series = k
        BY <3>1
      <3>2. CASE rows[j].series # k /\ rows[j].series = m
        <4>1. rows'[j].series = k
          BY <3>2
        <4>2. Fresh(k)
          BY <3>2, <4>1
        <4> QED
          BY <4>2 DEF Fresh, Live
      <3>3. CASE rows[j].series # k /\ rows[j].series # m
        BY <3>3
      <3> QED
        BY <3>1, <3>2, <3>3
    <2> QED
      BY <2>1, <2>2, LinesSame
  <1> QED
    BY <1>1, <1>2

LEMMA PastFollowing ==
    ASSUME ShapeInv, RuleInv, ShapeInv', NEW m \in Ids, NEW at \in Time, NEW p \in Patches,
           at > rows[m].event.start, rows[m].series = Nil, Live(m), UpdateFollowing(m, at, p),
           LET r == rows[m].event.rule IN r.until = NoTime \/ r.until >= at - 1
    PROVE  /\ Lines(rows', m) = {l \in Lines(rows, m) : l[1] < at}
           /\ \A k \in Ids \ {m} : Live(k) => Lines(rows', k) = Lines(rows, k)
  <1>1. PICK n \in Ids : Followed(m, n, at, p)
    BY FollowingRows
  <1>2. /\ n # m /\ Fresh(n)
        /\ rows'[m].event = Cut(rows[m].event, at) /\ rows'[m].series = Nil /\ rows'[m].status = "live"
        /\ rows'[n].series = Nil
        /\ \A j \in Ids \ {m, n} :
             \/ /\ rows'[j] = rows[j]
                /\ ~(j \in Overrides(rows, m) /\ rows[j].rid >= at)
             \/ /\ j \in Overrides(rows, m) /\ rows[j].rid >= at
                /\ rows'[j].series = n
    BY <1>1 DEF Followed
  <1>3. rows[n].series = Nil /\ rows[n].status = "absent"
    BY Zenon, <1>2, RowShape DEF Fresh
  <1>4. GoodRule(rows[m].event.rule) /\ rows[m].event.rule # NoRule
    BY DEF RuleInv, UpdateFollowing
  <1>5. ASSUME NEW j \in Ids
        PROVE  \/ /\ j \in Overrides(rows', m) /\ j \in Overrides(rows, m) /\ rows[j].rid < at
                  /\ rows'[j].rid = rows[j].rid /\ rows'[j].event = rows[j].event
               \/ j \notin Overrides(rows', m) /\ ~(j \in Overrides(rows, m) /\ rows[j].rid < at)
    <2>1. j \in Overrides(rows, m) => rows[j].rid \in Int /\ at \in Int
      BY RowShape, Typed DEF Overrides
    <2>2. CASE j \in {m, n}
      BY <1>2, <1>3, <2>2 DEF Overrides
    <2>3. CASE j \notin {m, n} /\ rows'[j] = rows[j] /\ ~(j \in Overrides(rows, m) /\ rows[j].rid >= at)
      <3>1. j \in Overrides(rows', m) <=> j \in Overrides(rows, m)
        BY <2>3 DEF Overrides
      <3> QED
        BY <2>1, <2>3, <3>1
    <2>4. CASE j \in Overrides(rows, m) /\ rows[j].rid >= at /\ rows'[j].series = n
      <3>1. j \notin Overrides(rows', m)
        BY <1>2, <2>4 DEF Overrides
      <3> QED
        BY <2>1, <2>4, <3>1
    <2> QED
      BY <1>2, <2>2, <2>3, <2>4
  <1>6. Lines(rows', m) = {l \in Lines(rows, m) : l[1] < at}
    BY <1>2, <1>4, <1>5, CutLines
  <1>7. /\ \A j \in Ids : j # m /\ rows[j].series # m /\ rows[j].status # "absent" =>
              rows'[j].series = rows[j].series /\ (rows[j].series = Nil => rows'[j] = rows[j])
        /\ \A j \in Ids : rows[j].series # m /\ rows[j].series # Nil => rows'[j] = rows[j]
        /\ \A j \in Ids : rows[j].series = m => rows'[j].series \in {m} \cup {f \in Ids : Fresh(f)}
        /\ \A j \in Ids : rows[j].series = Nil => rows'[j].series \in {Nil, m}
    BY <1>2, <1>3 DEF Overrides
  <1>8. \A k \in Ids \ {m} : Live(k) => Lines(rows', k) = Lines(rows, k)
    BY <1>7, OthersSame
  <1> QED
    BY <1>6, <1>8

LEMMA PastTruncate ==
    ASSUME ShapeInv, RuleInv, ShapeInv', NEW m \in Ids, NEW at \in Time,
           at > rows[m].event.start, rows[m].series = Nil, Live(m), TruncateSeries(m, at),
           LET r == rows[m].event.rule IN r.until = NoTime \/ r.until >= at - 1
    PROVE  /\ Lines(rows', m) = {l \in Lines(rows, m) : l[1] < at}
           /\ \A k \in Ids \ {m} : Live(k) => Lines(rows', k) = Lines(rows, k)
  <1> DEFINE e      == rows[m].event
             doomed == {o \in Overrides(rows, m) : rows[o].rid >= at}
  <1>1. /\ rows' = Trash(Saved(rows, m, Cut(e, at)), doomed, Now)
        /\ Cut(e, at) \in Event /\ GoodRule(e.rule) /\ e.rule # NoRule
    BY DeleteRows, RowShape, CutTyped DEF RuleInv, TruncateSeries
  <1>2. m \notin doomed /\ doomed \subseteq Overrides(rows, m) \cup {m} /\ \A j \in doomed : j \in Overrides(rows, m)
    BY DEF Overrides
  <1>3. \A j \in Overrides(rows, m) : rows[j].rid \in Int /\ at \in Int /\ j \in Ids
    BY RowShape, Typed DEF Overrides
  <1>4. \A j : j \in doomed <=> j \in Overrides(rows, m) /\ rows[j].rid >= at
    OBVIOUS
  <1> HIDE DEF doomed
  <1>5. Deleted(m, Cut(e, at), doomed)
    BY <1>1, <1>2, DeletedRows
  <1>6. /\ rows'[m].event = Cut(e, at) /\ rows'[m].series = Nil /\ rows'[m].status = "live"
        /\ \A j \in Ids \ {m} :
             /\ rows'[j].series = rows[j].series /\ rows'[j].event = rows[j].event /\ rows'[j].rid = rows[j].rid
             /\ \/ rows'[j] = rows[j] /\ ~(j \in Overrides(rows, m) /\ j \in doomed)
                \/ rows'[j].status = "trashed" /\ j \in Overrides(rows, m) /\ j \in doomed
    BY <1>2, <1>5 DEF Deleted
  <1>7. ASSUME NEW j \in Ids
        PROVE  \/ /\ j \in Overrides(rows', m) /\ j \in Overrides(rows, m) /\ rows[j].rid < at
                  /\ rows'[j].rid = rows[j].rid /\ rows'[j].event = rows[j].event
               \/ j \notin Overrides(rows', m) /\ ~(j \in Overrides(rows, m) /\ rows[j].rid < at)
    <2>1. CASE j = m
      BY <1>6, <2>1 DEF Overrides
    <2>2. CASE j # m /\ j \in doomed
      <3>1. j \notin Overrides(rows', m)
        BY <1>2, <1>6, <2>2 DEF Overrides
      <3> QED
        BY <1>3, <1>4, <2>2, <3>1
    <2>3. CASE j # m /\ j \notin doomed
      <3>1. rows'[j] = rows[j]
        BY <1>6, <2>3
      <3>2. j \in Overrides(rows', m) <=> j \in Overrides(rows, m)
        BY <3>1 DEF Overrides
      <3> QED
        BY <1>3, <1>4, <2>3, <3>1, <3>2
    <2> QED
      BY <2>1, <2>2, <2>3
  <1>8. Lines(rows', m) = {l \in Lines(rows, m) : l[1] < at}
    BY <1>1, <1>6, <1>7, CutLines
  <1>9. /\ \A j \in Ids : j # m /\ rows[j].series # m /\ rows[j].status # "absent" =>
              rows'[j].series = rows[j].series /\ (rows[j].series = Nil => rows'[j] = rows[j])
        /\ \A j \in Ids : rows[j].series # m /\ rows[j].series # Nil => rows'[j] = rows[j]
        /\ \A j \in Ids : rows[j].series = m => rows'[j].series \in {m} \cup {f \in Ids : Fresh(f)}
        /\ \A j \in Ids : rows[j].series = Nil => rows'[j].series \in {Nil, m}
    <2>1. \A j \in Ids : rows'[j].series = rows[j].series
      BY <1>6
    <2>2. \A j \in Ids \ {m} : rows[j].series # m => rows'[j] = rows[j]
      BY <1>6 DEF Overrides
    <2> QED
      BY <2>1, <2>2
  <1>10. \A k \in Ids \ {m} : Live(k) => Lines(rows', k) = Lines(rows, k)
    BY <1>9, OthersSame
  <1> QED
    BY Zenon, <1>8, <1>10

LEMMA RuleHolds ==
    ASSUME CountedFromStart
    PROVE  Spec => [](ShapeInv /\ RuleInv)
  <1>1. Init => RuleInv
    BY DEF Init, RuleInv, GoodRule, Blank
  <1>2. ShapeInv /\ RuleInv /\ [Next]_vars => RuleInv'
    <2>1. CASE UNCHANGED vars
      BY <2>1 DEF vars, RuleInv
    <2> QED
      BY <2>1, RulesStayGood
  <1> QED
    BY <1>1, <1>2, ShapeInit, ShapeStep, PTL DEF Spec

\* Which edits and deletions the ghost tells of, and on what.
LEMMA DidSplit ==
    ASSUME ShapeInv, Next, did'.op \in {"following", "truncate"}
    PROVE  \E m \in Ids, at \in Time :
              /\ did'.series = m /\ did'.at = at
              /\ rows[m].series = Nil /\ Live(m) /\ at > rows[m].event.start
              /\ \/ TruncateSeries(m, at)
                 \/ \E p \in Patches : did'.patch = p /\ UpdateFollowing(m, at, p)
  <1>1. PICK i \in Ids :
           \/ \E e \in Creations : Create(i, e)
           \/ \E scope \in Scopes, inst \in Time \cup {NoTime} :
                 \/ Delete(i, scope, inst)
                 \/ \E p \in Patches : Update(i, scope, inst, p)
           \/ Restore(i)
           \/ PurgeItem(i)
    BY DEF Next
  <1>2. \A e : Create(i, e) => did'.op = "create"
    BY DEF Create, Did
  <1>3. PurgeItem(i) => did'.op = "purge"
    BY DEF PurgeItem, Did
  <1>4. Restore(i) => did'.op = "restore"
    BY DEF Restore, Did
  <1>5. ASSUME NEW scope \in Scopes, NEW inst \in Time \cup {NoTime}, Delete(i, scope, inst)
        PROVE  \E m \in Ids, at \in Time :
                  /\ did'.series = m /\ did'.at = at
                  /\ rows[m].series = Nil /\ Live(m) /\ at > rows[m].event.start
                  /\ TruncateSeries(m, at)
    <2>1. PICK m \in Ids :
            /\ rows[m].series = Nil /\ Live(m)
            /\ \/ DeleteAll(m)
               \/ inst \in Time /\ inst > rows[m].event.start /\ TruncateSeries(m, inst)
               \/ inst \in Time /\ ExcludeInstance(m, inst)
      BY <1>5, DeleteCases
    <2>2. DeleteAll(m) => Did("trash", m, NoTime, Nil)
      BY DEF DeleteAll
    <2>3. ExcludeInstance(m, inst) => Did("exclude", m, inst, Nil)
      BY DEF ExcludeInstance
    <2>4. TruncateSeries(m, inst) => Did("truncate", m, inst, Nil)
      BY DEF TruncateSeries
    <2>5. ~DeleteAll(m) /\ ~ExcludeInstance(m, inst)
      BY <2>2, <2>3 DEF Did
    <2>6. did'.series = m /\ did'.at = inst
      BY <2>1, <2>4, <2>5 DEF Did
    <2> QED
      BY <2>1, <2>5, <2>6
  <1>6. ASSUME NEW scope \in Scopes, NEW inst \in Time \cup {NoTime}, NEW p \in Patches, Update(i, scope, inst, p)
        PROVE  \E m \in Ids, at \in Time :
                  /\ did'.series = m /\ did'.at = at
                  /\ rows[m].series = Nil /\ Live(m) /\ at > rows[m].event.start
                  /\ \E q \in Patches : did'.patch = q /\ UpdateFollowing(m, at, q)
    <2>1. PICK m \in Ids :
            /\ rows[m].series = Nil /\ Live(m)
            /\ \/ inst \in Time /\ UpdateThis(m, inst, p)
               \/ inst \in Time /\ inst > rows[m].event.start /\ UpdateFollowing(m, inst, p)
               \/ UpdateAll(m, p)
      BY <1>6, UpdateCases
    <2>2. UpdateAll(m, p) => Did("all", m, NoTime, p)
      BY DEF UpdateAll
    <2>3. UpdateThis(m, inst, p) => Did("this", m, inst, p)
      BY Zenon DEF UpdateThis
    <2>4. UpdateFollowing(m, inst, p) => Did("following", m, inst, p)
      BY DEF UpdateFollowing
    <2>5. ~UpdateAll(m, p) /\ ~UpdateThis(m, inst, p)
      BY <2>2, <2>3 DEF Did
    <2>6. did'.series = m /\ did'.at = inst /\ did'.patch = p
      BY <2>1, <2>4, <2>5 DEF Did
    <2> QED
      BY <2>1, <2>5, <2>6
  <1> QED
    BY <1>1, <1>2, <1>3, <1>4, <1>5, <1>6

\* An edit or deletion from one occurrence on ends the series there, leaves every line before
\* it as it was, and leaves other events alone (Split, updateFollowing, truncateSeries).  For
\* rules that count from their start, and but for a rule that had ended before (PastStays).
THEOREM PastIsKept ==
    ASSUME CountedFromStart
    PROVE  Spec => PastStays
  <1>1. ASSUME ShapeInv, RuleInv, Next, did'.op \in {"following", "truncate"},
               LET r == rows[did'.series].event.rule IN r.until = NoTime \/ r.until >= did'.at - 1
        PROVE  /\ Lines(rows', did'.series) = {l \in Lines(rows, did'.series) : l[1] < did'.at}
               /\ \A k \in Ids \ {did'.series} : Live(k) => Lines(rows', k) = Lines(rows, k)
    <2>1. PICK m \in Ids, at \in Time :
              /\ did'.series = m /\ did'.at = at
              /\ rows[m].series = Nil /\ Live(m) /\ at > rows[m].event.start
              /\ \/ TruncateSeries(m, at)
                 \/ \E p \in Patches : did'.patch = p /\ UpdateFollowing(m, at, p)
      BY <1>1, DidSplit
    <2>2. ShapeInv'
      BY <1>1, ShapeStep
    <2>3. LET r == rows[m].event.rule IN r.until = NoTime \/ r.until >= at - 1
      BY <1>1, <2>1
    <2>4. /\ Lines(rows', m) = {l \in Lines(rows, m) : l[1] < at}
          /\ \A k \in Ids \ {m} : Live(k) => Lines(rows', k) = Lines(rows, k)
      BY <1>1, <2>1, <2>2, <2>3, PastFollowing, PastTruncate
    <2> QED
      BY <2>1, <2>4
  <1>2. ShapeInv /\ RuleInv /\ [Next]_vars =>
          [/\ did'.op \in {"following", "truncate"}
           /\ LET r == rows[did'.series].event.rule IN r.until = NoTime \/ r.until >= did'.at - 1
           =>
             /\ Lines(rows', did'.series) = {l \in Lines(rows, did'.series) : l[1] < did'.at}
             /\ \A k \in Ids \ {did'.series} : Live(k) => Lines(rows', k) = Lines(rows, k)]_vars
    BY <1>1
  <1>3. Spec => [](ShapeInv /\ RuleInv)
    BY RuleHolds
  <1> QED
    BY <1>2, <1>3, PTL DEF Spec, PastStays

-----------------------------------------------------------------------------
(* One override for one occurrence. *)

\* events_series_recurrence_idx: no two live overrides stand for one occurrence.
UniqueInv ==
    \A i, j \in Ids :
        /\ i # j /\ rows[i].series # Nil /\ rows[i].series = rows[j].series
        /\ rows[i].status = "live" /\ rows[j].status = "live"
        => rows[i].rid # rows[j].rid

\* An operation that adds no override and moves none.
LEMMA UniqueKept ==
    ASSUME UniqueInv,
           \A j \in Ids : rows'[j].status = "live" /\ rows'[j].series # Nil =>
              rows[j].status = "live" /\ rows'[j].series = rows[j].series /\ rows'[j].rid = rows[j].rid
    PROVE  UniqueInv'
  BY DEF UniqueInv

\* The override of an occurrence is changed, or made where there is none.
LEMMA UniqueThis ==
    ASSUME ShapeInv, UniqueInv, NEW m \in Ids, NEW inst \in Time, NEW p \in Patches, rows[m].series = Nil, Live(m),
           UpdateThis(m, inst, p)
    PROVE  UniqueInv'
  <1>0. PICK o \in Ids : ChangedOne(m, o, inst, p)
    BY ThisRow
  <1>1. /\ \A j \in Ids \ {o} : rows'[j] = rows[j]
        /\ rows'[o].series = m /\ rows'[o].rid = inst
        /\ \/ o \in Overrides(rows, m) /\ rows[o].rid = inst
           \/ \A x \in Overrides(rows, m) : rows[x].rid # inst
    BY <1>0, RowShape DEF ChangedOne
  <1>2. \A x \in Ids : x # o /\ rows[x].status = "live" /\ rows[x].series = m => rows[x].rid # inst
    BY <1>1 DEF UniqueInv, Overrides
  <1> QED
    BY <1>1, <1>2 DEF UniqueInv

\* The overrides of a series that is edited as a whole move together.
LEMMA UniqueAll ==
    ASSUME ShapeInv, UniqueInv, NEW m \in Ids, NEW p \in Patches, rows[m].series = Nil, Live(m), UpdateAll(m, p)
    PROVE  UniqueInv'
  <1> DEFINE d == Shift(rows[m].event, AfterAll(m, p))
  <1>1. /\ rows'[m].series = Nil
        /\ \A j \in Ids \ {m} :
             /\ rows'[j].series = rows[j].series
             /\ \/ rows'[j] = rows[j] /\ (Recurs(rows[m].event) => j \notin Overrides(rows, m))
                \/ /\ Recurs(rows[m].event) /\ j \in Overrides(rows, m) /\ rows'[j].rid = rows[j].rid + d
                \/ rows'[j].status = "trashed"
    <2>1. rows'[m].series = Nil /\ \A j \in Ids \ {m} : rows'[j].series = rows[j].series
      BY AllRows
    <2>2. ASSUME NEW j \in Ids \ {m}
          PROVE  \/ rows'[j] = rows[j] /\ (Recurs(rows[m].event) => j \notin Overrides(rows, m))
                 \/ /\ Recurs(rows[m].event) /\ j \in Overrides(rows, m) /\ rows'[j].rid = rows[j].rid + d
                 \/ rows'[j].status = "trashed"
      BY AllRows
    <2> QED BY <2>1, <2>2
  <1>2. \A j \in Ids : rows[j].series # Nil => rows[j].rid \in Int
    BY RowShape, Typed
  <1>3. d \in Int
    <2>1. AfterAll(m, p) \in Event /\ rows[m].event \in Event
      BY AllRows, RowShape
    <2>2. AfterAll(m, p).start \in Int /\ rows[m].event.start \in Int
      BY <2>1, Typed DEF Event
    <2> QED
      BY <2>2 DEF Shift
  <1> HIDE DEF d
  <1>4. ASSUME NEW i \in Ids, NEW j \in Ids, i # j, rows'[i].series # Nil, rows'[i].series = rows'[j].series,
               rows'[i].status = "live", rows'[j].status = "live"
        PROVE  rows'[i].rid # rows'[j].rid
    <2>1. i # m /\ j # m /\ rows[i].series = rows[j].series /\ rows[i].series # Nil
      BY <1>1, <1>4
    <2>2. rows[i].rid \in Int /\ rows[j].rid \in Int
      BY <1>2, <2>1
    <2>3. rows[i].status = "live" /\ rows[j].status = "live"
      BY <1>1, <1>4, <2>1 DEF Overrides
    <2>4. rows[i].rid # rows[j].rid
      BY <1>4, <2>1, <2>3 DEF UniqueInv
    <2>5. CASE Recurs(rows[m].event) /\ rows[i].series = m
      <3>1. rows'[i].rid = rows[i].rid + d /\ rows'[j].rid = rows[j].rid + d
        BY <1>1, <1>4, <2>1, <2>3, <2>5 DEF Overrides
      <3> QED
        BY <1>3, <2>2, <2>4, <3>1
    <2>6. CASE ~(Recurs(rows[m].event) /\ rows[i].series = m)
      <3>1. rows'[i] = rows[i] /\ rows'[j] = rows[j]
        BY <1>1, <1>4, <2>1, <2>6 DEF Overrides
      <3> QED
        BY <2>4, <3>1
    <2> QED
      BY <2>5, <2>6
  <1> QED
    BY <1>4 DEF UniqueInv

\* The overrides that a new series takes over move together.
LEMMA UniqueFollowing ==
    ASSUME ShapeInv, UniqueInv, NEW m \in Ids, NEW at \in Time, NEW p \in Patches, rows[m].series = Nil, Live(m),
           UpdateFollowing(m, at, p)
    PROVE  UniqueInv'
  <1>0. PICK n \in Ids : Followed(m, n, at, p)
    BY FollowingRows
  <1> DEFINE d == Shift(Rest(rows[m].event, at), AfterRest(rows[m].event, at, p))
  <1>1. /\ n # m /\ Fresh(n) /\ rows'[m].series = Nil /\ rows'[n].series = Nil
        /\ \A j \in Ids \ {m, n} :
             \/ rows'[j] = rows[j]
             \/ /\ j \in Overrides(rows, m) /\ rows'[j].series = n
                /\ rows'[j].status = "live" => rows'[j].rid = rows[j].rid + d
    BY <1>0 DEF Followed
  <1>2. \A j \in Ids : rows[j].series # Nil => rows[j].rid \in Int /\ rows[j].series # n
    BY <1>1, RowShape, Typed DEF Fresh
  <1>3. d \in Int
    <2>1. AfterRest(rows[m].event, at, p) \in Event /\ Rest(rows[m].event, at) \in Event
      BY <1>0, RowShape, RestTyped DEF Followed
    <2> QED
      BY <2>1, Typed DEF Shift, Event
  <1> HIDE DEF d
  <1>4. ASSUME NEW i \in Ids, NEW j \in Ids, i # j, rows'[i].series # Nil, rows'[i].series = rows'[j].series,
               rows'[i].status = "live", rows'[j].status = "live"
        PROVE  rows'[i].rid # rows'[j].rid
    <2>1. i \notin {m, n} /\ j \notin {m, n}
      BY <1>1, <1>4
    <2>2. CASE rows'[i].series = n
      <3>1. /\ i \in Overrides(rows, m) /\ rows'[i].rid = rows[i].rid + d
            /\ j \in Overrides(rows, m) /\ rows'[j].rid = rows[j].rid + d
        BY <1>1, <1>2, <1>4, <2>1, <2>2
      <3>2. rows[i].rid # rows[j].rid /\ rows[i].rid \in Int /\ rows[j].rid \in Int
        BY <1>2, <1>4, <3>1 DEF UniqueInv, Overrides
      <3> QED
        BY <1>3, <3>1, <3>2
    <2>3. CASE rows'[i].series # n
      <3>1. rows'[i] = rows[i] /\ rows'[j] = rows[j]
        BY <1>1, <1>4, <2>1, <2>3
      <3> QED
        BY <1>4, <3>1 DEF UniqueInv
    <2> QED
      BY <2>2, <2>3
  <1> QED
    BY <1>4 DEF UniqueInv

\* A deletion takes live rows away.
LEMMA UniqueDelete ==
    ASSUME ShapeInv, UniqueInv, NEW m \in Ids, NEW at \in Time, rows[m].series = Nil, Live(m),
           DeleteAll(m) \/ TruncateSeries(m, at) \/ ExcludeInstance(m, at)
    PROVE  UniqueInv'
  <1>0. rows[m].event \in Event /\ rows \in [Ids -> Row]
    BY RowShape
  <1>1. PICK e \in Event, doomed \in SUBSET (Overrides(rows, m) \cup {m}) :
          rows' = Trash(Saved(rows, m, e), doomed, Now)
    <2>1. CASE DeleteAll(m)
      <3>1. rows' = Trash(Saved(rows, m, rows[m].event), {m}, Now)
        BY <2>1, DeleteRows
      <3> QED
        BY <1>0, <3>1
    <2>2. CASE TruncateSeries(m, at)
      <3>1. rows' = Trash(Saved(rows, m, Cut(rows[m].event, at)), {o \in Overrides(rows, m) : rows[o].rid >= at}, Now)
        BY <2>2, DeleteRows
      <3>2. Cut(rows[m].event, at) \in Event
        BY <1>0, CutTyped
      <3>3. {o \in Overrides(rows, m) : rows[o].rid >= at} \in SUBSET (Overrides(rows, m) \cup {m})
        OBVIOUS
      <3> QED
        BY <3>1, <3>2, <3>3
    <2>3. CASE ExcludeInstance(m, at)
      <3>1. rows' = Trash(Saved(rows, m, Without(rows[m].event, at)), {o \in Overrides(rows, m) : rows[o].rid = at}, Now)
        BY <2>3, DeleteRows
      <3>2. Without(rows[m].event, at) \in Event
        BY <1>0, CutTyped
      <3>3. {o \in Overrides(rows, m) : rows[o].rid = at} \in SUBSET (Overrides(rows, m) \cup {m})
        OBVIOUS
      <3> QED
        BY <3>1, <3>2, <3>3
    <2> QED
      BY <2>1, <2>2, <2>3
  <1>2. Deleted(m, e, doomed)
    BY <1>1, DeletedRows
  <1>3. \A j \in Ids : rows'[j].status = "live" /\ rows'[j].series # Nil =>
           rows[j].status = "live" /\ rows'[j].series = rows[j].series /\ rows'[j].rid = rows[j].rid
    BY <1>2 DEF Deleted
  <1> QED
    BY <1>3, UniqueKept

LEMMA UniqueStep ==
    ASSUME ShapeInv, UniqueInv, Next
    PROVE  UniqueInv'
  <1>1. PICK i \in Ids :
           \/ \E e \in Creations : Create(i, e)
           \/ \E scope \in Scopes, inst \in Time \cup {NoTime} :
                 \/ Delete(i, scope, inst)
                 \/ \E p \in Patches : Update(i, scope, inst, p)
           \/ Restore(i)
           \/ PurgeItem(i)
    BY DEF Next
  <1>2. ASSUME NEW scope \in Scopes, NEW inst \in Time \cup {NoTime}, Delete(i, scope, inst)
        PROVE  UniqueInv'
    <2>1. PICK m \in Ids :
            /\ rows[m].series = Nil /\ Live(m)
            /\ DeleteAll(m) \/ (inst \in Time /\ (TruncateSeries(m, inst) \/ ExcludeInstance(m, inst)))
      BY <1>2, DeleteCases
    <2>2. 0 \in Time
      BY Typed
    <2> QED
      BY <2>1, <2>2, UniqueDelete
  <1>3. ASSUME NEW scope \in Scopes, NEW inst \in Time \cup {NoTime}, NEW p \in Patches, Update(i, scope, inst, p)
        PROVE  UniqueInv'
    <2>1. PICK m \in Ids :
            /\ rows[m].series = Nil /\ Live(m)
            /\ UpdateAll(m, p) \/ (inst \in Time /\ (UpdateThis(m, inst, p) \/ UpdateFollowing(m, inst, p)))
      BY <1>3, UpdateCases
    <2> QED
      BY <2>1, UniqueAll, UniqueThis, UniqueFollowing
  <1>4. ASSUME NEW e \in Creations, Create(i, e)
        PROVE  UniqueInv'
    <2>1. rows'[i].series = Nil /\ \A j \in Ids \ {i} : rows'[j] = rows[j]
      BY <1>4, RowShape DEF Create, Blank
    <2> QED
      BY <2>1, UniqueKept
  <1>5. CASE Restore(i)
    <2>1. Unique(rows')
      BY <1>5 DEF Restore
    <2> QED
      BY <2>1 DEF Unique, UniqueInv
  <1>6. CASE PurgeItem(i)
    <2>1. \A j \in Ids : rows'[j] = rows[j] \/ rows'[j].status = "absent"
      BY <1>6, PurgeRows, BlankTyped
    <2> QED
      BY <2>1, UniqueKept
  <1> QED
    BY <1>1, <1>2, <1>3, <1>4, <1>5, <1>6

LEMMA UniqueHolds == Spec => [](ShapeInv /\ UniqueInv)
  <1>1. Init => UniqueInv
    BY DEF Init, UniqueInv, Blank
  <1>2. ShapeInv /\ UniqueInv /\ [Next]_vars => UniqueInv'
    <2>1. CASE UNCHANGED vars
      BY <2>1 DEF vars, UniqueInv
    <2> QED
      BY <2>1, UniqueStep
  <1> QED
    BY <1>1, <1>2, ShapeInit, ShapeStep, PTL DEF Spec

-----------------------------------------------------------------------------
(* An edit of one occurrence. *)

\* The lines of event k but for those of occurrence `at' of series m.
Elsewhere(table, k, m, at) == {l \in Lines(table, k) : k # m \/ l[1] # at}

\* A row that is not live, or an override, shows nothing of its own.
LEMMA NoLines ==
    ASSUME NEW table, NEW m, table[m].status # "live" \/ table[m].series # Nil, \A j \in Ids : table[j].series # m
    PROVE  Lines(table, m) = {}
  <1>1. Overrides(table, m) = {}
    BY DEF Overrides
  <1> QED
    BY <1>1 DEF Lines

\* An operation that changes nothing but a series and rows that show nothing of their own
\* leaves what other events show.
LEMMA OthersShown ==
    ASSUME ShapeInv, ShapeInv', NEW m \in Ids, rows[m].series = Nil, rows'[m].series = Nil, NEW k \in Ids, k # m,
           \A j \in Ids \ {m} : \/ rows'[j] = rows[j]
                                \/ /\ rows'[j].series = m
                                   /\ rows[j].series = m \/ rows[j].status = "absent"
    PROVE  Lines(rows', k) = Lines(rows, k)
  <1>1. CASE rows'[k] = rows[k]
    <2>1. \A j \in Ids : rows[j].series = k \/ rows'[j].series = k => j # m /\ rows'[j] = rows[j]
      <3>1. TAKE j \in Ids
      <3>2. HAVE rows[j].series = k \/ rows'[j].series = k
      <3>3. k # Nil
        BY Constants
      <3>4. j # m
        BY <3>2, <3>3
      <3>5. rows[j].status = "absent" => rows[j].series = Nil
        BY RowShape
      <3>6. rows'[j] = rows[j] \/ (rows'[j].series = m /\ (rows[j].series = m \/ rows[j].status = "absent"))
        BY <3>4
      <3> QED
        BY <3>2, <3>3, <3>4, <3>5, <3>6
    <2> QED
      BY <1>1, <2>1, LinesSame
  <1>2. CASE rows'[k] # rows[k]
    <2>1. rows'[k].series = m /\ (rows[k].series = m \/ rows[k].status = "absent")
      BY <1>2
    <2>2. \A j \in Ids : rows'[j].series # k
      BY <2>1 DEF ShapeInv, SeriesInv
    <2>3. \A j \in Ids : rows[j].series # k
      BY <2>1, RowShape
    <2>4. Lines(rows', k) = {}
      BY <2>1, <2>2, NoLines
    <2>5. rows[k].status # "live" \/ rows[k].series # Nil
      BY <2>1
    <2>6. Lines(rows, k) = {}
      BY <2>3, <2>5, NoLines
    <2> QED
      BY <2>4, <2>6
  <1> QED
    BY <1>1, <1>2

\* A series in which only occurrence `at' and its override change.
LEMMA SeriesElsewhere ==
    ASSUME NEW m \in Ids, NEW at,
           rows[m].status = "live", rows[m].series = Nil, Recurs(rows[m].event),
           rows'[m].status = "live", rows'[m].series = Nil, Recurs(rows'[m].event),
           rows'[m].event.val = rows[m].event.val,
           \A t : t # at => (t \in Occurs(rows'[m].event) <=> t \in Occurs(rows[m].event)),
           \A o \in Ids : \/ rows'[o] = rows[o]
                          \/ /\ o \in Overrides(rows', m) => rows'[o].rid = at
                             /\ o \in Overrides(rows, m) => rows[o].rid = at
    PROVE  Elsewhere(rows', m, m, at) = Elsewhere(rows, m, m, at)
  <1> DEFINE v == rows[m].event.val
             Own(l, t)  == v # Cancelled /\ l = <<t, t, v>>
             Old(l, o)  == rows[o].event.val # Cancelled /\ l = <<rows[o].rid, rows[o].event.start, rows[o].event.val>>
             New(l, o)  == rows'[o].event.val # Cancelled /\ l = <<rows'[o].rid, rows'[o].event.start, rows'[o].event.val>>
  <1>1. \A l : l \in Lines(rows, m) <=>
           \/ \E t \in Occurs(rows[m].event) : (\A o \in Overrides(rows, m) : rows[o].rid # t) /\ Own(l, t)
           \/ \E o \in Overrides(rows, m) : Old(l, o)
    BY SeriesLines
  <1>2. \A l : l \in Lines(rows', m) <=>
           \/ \E t \in Occurs(rows'[m].event) : (\A o \in Overrides(rows', m) : rows'[o].rid # t) /\ Own(l, t)
           \/ \E o \in Overrides(rows', m) : New(l, o)
    BY SeriesLines
  <1>3. \A l, t : Own(l, t) => l[1] = t
    OBVIOUS
  <1>4. \A l, o : (Old(l, o) => l[1] = rows[o].rid) /\ (New(l, o) => l[1] = rows'[o].rid)
    OBVIOUS
  <1>5. \A o \in Ids : rows'[o] = rows[o] => \A l : Old(l, o) <=> New(l, o)
    OBVIOUS
  <1>6. \A o : (o \in Overrides(rows, m) => o \in Ids) /\ (o \in Overrides(rows', m) => o \in Ids)
    BY DEF Overrides
  <1>7. \A o \in Ids : rows'[o] = rows[o] => (o \in Overrides(rows, m) <=> o \in Overrides(rows', m))
    BY DEF Overrides
  <1> HIDE DEF Own, Old, New
  <1>8. ASSUME NEW t, t # at
        PROVE  (\A o \in Overrides(rows', m) : rows'[o].rid # t) <=> (\A o \in Overrides(rows, m) : rows[o].rid # t)
    <2>1. \A o \in Ids : \/ rows'[o] = rows[o] /\ (o \in Overrides(rows, m) <=> o \in Overrides(rows', m))
                        \/ /\ o \in Overrides(rows', m) => rows'[o].rid # t
                           /\ o \in Overrides(rows, m) => rows[o].rid # t
      BY <1>7, <1>8
    <2>2. \A o \in Ids : (o \in Overrides(rows', m) => rows'[o].rid # t) <=> (o \in Overrides(rows, m) => rows[o].rid # t)
      BY <2>1
    <2> QED
      BY <1>6, <2>2
  <1>9. \A l, o : /\ l[1] # at /\ o \in Overrides(rows', m) /\ New(l, o) => o \in Overrides(rows, m) /\ Old(l, o)
                  /\ l[1] # at /\ o \in Overrides(rows, m) /\ Old(l, o) => o \in Overrides(rows', m) /\ New(l, o)
    <2> SUFFICES ASSUME NEW l, NEW o, l[1] # at, o \in Ids
                 PROVE  o \in Overrides(rows', m) /\ New(l, o) <=> o \in Overrides(rows, m) /\ Old(l, o)
      BY <1>6
    <2>1. CASE rows'[o] = rows[o]
      BY <1>5, <1>7, <2>1
    <2>2. CASE rows'[o] # rows[o]
      BY <1>4, <2>2
    <2> QED
      BY <2>1, <2>2
  <1>10. ASSUME NEW l, l[1] # at
         PROVE  l \in Lines(rows', m) <=> l \in Lines(rows, m)
    <2>1. (\E o \in Overrides(rows', m) : New(l, o)) <=> (\E o \in Overrides(rows, m) : Old(l, o))
      BY <1>9, <1>10
    <2>2. \A t : Own(l, t) => t # at
      BY <1>3, <1>10
    <2>3. (\E t \in Occurs(rows'[m].event) : (\A o \in Overrides(rows', m) : rows'[o].rid # t) /\ Own(l, t))
            <=> (\E t \in Occurs(rows[m].event) : (\A o \in Overrides(rows, m) : rows[o].rid # t) /\ Own(l, t))
      BY <1>8, <2>2
    <2> QED
      BY <1>1, <1>2, <2>1, <2>3
  <1> QED
    BY <1>10 DEF Elsewhere

\* An occurrence has one line at most when it has one override at most, or none and does not occur.
LEMMA OneLine ==
    ASSUME NEW m \in Ids, NEW at, rows'[m].status = "live", rows'[m].series = Nil, Recurs(rows'[m].event),
           NEW L, L = Lines(rows', m) \ Elsewhere(rows', m, m, at)
    PROVE  /\ at \notin Occurs(rows'[m].event) /\ (\A x \in Overrides(rows', m) : rows'[x].rid # at) => L = {}
           /\ \A o : (/\ o \in Overrides(rows', m) /\ rows'[o].rid = at
                      /\ \A x \in Overrides(rows', m) : rows'[x].rid = at => x = o) => Cardinality(L) <= 1
  <1> DEFINE Own(l, t)  == rows'[m].event.val # Cancelled /\ l = <<t, t, rows'[m].event.val>>
             New(l, o)  == rows'[o].event.val # Cancelled /\ l = <<rows'[o].rid, rows'[o].event.start, rows'[o].event.val>>
  <1>1. \A l : l \in Lines(rows', m) <=>
           \/ \E t \in Occurs(rows'[m].event) : (\A o \in Overrides(rows', m) : rows'[o].rid # t) /\ Own(l, t)
           \/ \E o \in Overrides(rows', m) : New(l, o)
    BY SeriesLines
  <1>2. \A l : l \in L <=> l \in Lines(rows', m) /\ l[1] = at
    BY DEF Elsewhere
  <1>3. (\A l, t : Own(l, t) => l[1] = t) /\ \A l, o : New(l, o) => l[1] = rows'[o].rid
    OBVIOUS
  <1>4. \A l, k, o : New(l, o) /\ New(k, o) => l = k
    OBVIOUS
  <1> HIDE DEF Own, New
  <1>5. at \notin Occurs(rows'[m].event) /\ (\A x \in Overrides(rows', m) : rows'[x].rid # at) => L = {}
    BY <1>1, <1>2, <1>3
  <1>6. ASSUME NEW o, o \in Overrides(rows', m), rows'[o].rid = at,
               \A x \in Overrides(rows', m) : rows'[x].rid = at => x = o
        PROVE  Cardinality(L) <= 1
    <2>1. \A l \in L : New(l, o)
      BY <1>1, <1>2, <1>3, <1>6
    <2>2. \A l, k \in L : l = k
      BY <1>4, <2>1
    <2>3. L = {} \/ \E l : L = {l}
      BY <2>2
    <2>4. L = {} => Cardinality(L) = 0
      BY FS_EmptySet
    <2>5. \A l : L = {l} => Cardinality(L) = 1
      BY FS_Singleton
    <2>6. Cardinality(L) = 0 \/ Cardinality(L) = 1
      BY <2>3, <2>4, <2>5
    <2> QED
      BY <2>6
  <1> QED
    BY <1>5, <1>6

\* What an edit or a deletion of one occurrence may change.
Touched(m, at) ==
    /\ \A k \in Ids : Elsewhere(rows', k, m, at) = Elsewhere(rows, k, m, at)
    /\ Cardinality(Lines(rows', m) \ Elsewhere(rows', m, m, at)) <= 1

\* An edit of one occurrence changes or makes one override.
LEMMA TouchThis ==
    ASSUME ShapeInv, UniqueInv, ShapeInv', UniqueInv', NEW m \in Ids, NEW at \in Time, NEW p \in Patches,
           rows[m].series = Nil, Live(m), IsMaster(m), UpdateThis(m, at, p)
    PROVE  Touched(m, at)
  <1>0. PICK o \in Ids : ChangedOne(m, o, at, p)
    BY ThisRow
  <1>1. /\ \A j \in Ids \ {o} : rows'[j] = rows[j]
        /\ rows'[o].series = m /\ rows'[o].rid = at /\ rows'[o].status = "live"
        /\ (o \in Overrides(rows, m) /\ rows[o].rid = at) \/ Fresh(o)
    BY <1>0, RowShape DEF ChangedOne
  <1>2. o # m /\ rows'[m] = rows[m]
    BY <1>1 DEF Overrides, Fresh, Live
  <1>3. rows[m].status = "live" /\ Recurs(rows[m].event)
    BY DEF Live, IsMaster
  <1>4. o \in Overrides(rows, m) => rows[o].rid = at
    BY <1>1 DEF Overrides, Fresh
  <1>5. Elsewhere(rows', m, m, at) = Elsewhere(rows, m, m, at)
    BY <1>1, <1>2, <1>3, <1>4, SeriesElsewhere
  <1>6. ASSUME NEW k \in Ids, k # m
        PROVE  Lines(rows', k) = Lines(rows, k)
    <2>1. rows[o].series = m \/ rows[o].status = "absent"
      BY <1>1 DEF Overrides, Fresh
    <2> QED
      BY <1>1, <1>2, <1>6, <2>1, OthersShown
  <1>7. o \in Overrides(rows', m) /\ \A x \in Overrides(rows', m) : rows'[x].rid = at => x = o
    BY <1>1 DEF Overrides, UniqueInv
  <1>8. Cardinality(Lines(rows', m) \ Elsewhere(rows', m, m, at)) <= 1
    <2>1. rows'[m].status = "live" /\ rows'[m].series = Nil /\ Recurs(rows'[m].event)
      BY <1>2, <1>3
    <2>2. rows'[o].rid = at
      BY <1>1
    <2> QED
      BY <1>7, <2>1, <2>2, OneLine
  <1> QED
    BY <1>5, <1>6, <1>8 DEF Touched, Elsewhere

\* A deletion of one occurrence excludes it and takes its override.
LEMMA TouchExclude ==
    ASSUME ShapeInv, ShapeInv', NEW m \in Ids, NEW at \in Time,
           rows[m].series = Nil, Live(m), IsMaster(m), ExcludeInstance(m, at)
    PROVE  Touched(m, at) /\ Lines(rows', m) \ Elsewhere(rows', m, m, at) = {}
  <1> DEFINE doomed == {o \in Overrides(rows, m) : rows[o].rid = at}
             c      == Without(rows[m].event, at)
  <1>1. rows[m].event \in Event /\ rows[m].status = "live" /\ Recurs(rows[m].event)
    BY RowShape DEF Live, IsMaster
  <1>2. rows' = Trash(Saved(rows, m, c), doomed, Now)
    BY DeleteRows
  <1>3. m \notin doomed /\ doomed \subseteq Overrides(rows, m) \cup {m}
    BY DEF Overrides
  <1>4. c \in Event /\ Occurs(c) = Occurs(rows[m].event) \ {at} /\ Recurs(c) /\ c.val = rows[m].event.val
    BY <1>1, CutTyped, WithoutOccurs
  <1>5. \A o : o \in doomed <=> o \in Overrides(rows, m) /\ rows[o].rid = at
    OBVIOUS
  <1> HIDE DEF c, doomed
  <1>6. Deleted(m, c, doomed)
    BY <1>2, <1>3, <1>4, DeletedRows
  <1>7. /\ rows'[m].event = c /\ rows'[m].series = Nil /\ rows'[m].status = "live"
        /\ \A j \in Ids \ {m} :
             \/ rows'[j] = rows[j] /\ j \notin doomed
             \/ rows'[j].status = "trashed" /\ j \in doomed /\ rows'[j].series = rows[j].series
    BY <1>3, <1>5, <1>6 DEF Deleted
  <1>8. ASSUME NEW o \in Ids
        PROVE  \/ rows'[o] = rows[o]
               \/ /\ o \in Overrides(rows', m) => rows'[o].rid = at
                  /\ o \in Overrides(rows, m) => rows[o].rid = at
    BY <1>5, <1>7 DEF Overrides
  <1>9. Elsewhere(rows', m, m, at) = Elsewhere(rows, m, m, at)
    BY <1>1, <1>4, <1>7, <1>8, SeriesElsewhere
  <1>10. ASSUME NEW k \in Ids, k # m
         PROVE  Lines(rows', k) = Lines(rows, k)
    <2>1. \A j \in Ids \ {m} : rows'[j] = rows[j] \/ (rows'[j].series = m /\ rows[j].series = m)
      BY <1>5, <1>7 DEF Overrides
    <2> QED
      BY <1>7, <1>10, <2>1, OthersShown
  <1>11. ASSUME NEW x \in Overrides(rows', m)
         PROVE  rows'[x].rid # at
    <2>1. x \in Ids /\ rows'[x].status = "live" /\ rows'[x].series = m /\ x # m
      BY <1>7 DEF Overrides
    <2>2. rows'[x] = rows[x] /\ x \notin doomed
      BY <1>7, <2>1
    <2> QED
      BY <1>5, <2>1, <2>2 DEF Overrides
  <1>12. Lines(rows', m) \ Elsewhere(rows', m, m, at) = {}
    BY <1>4, <1>7, <1>11, OneLine
  <1>13. Cardinality({}) <= 1
    BY FS_EmptySet
  <1> QED
    BY <1>9, <1>10, <1>12, <1>13 DEF Touched, Elsewhere

\* Which edit or deletion of one occurrence, or edit of a whole event, the ghost tells of.
LEMMA DidEdit ==
    ASSUME ShapeInv, Next, did'.op \in {"this", "exclude", "all"}
    PROVE  \E m \in Ids :
              /\ did'.series = m /\ rows[m].series = Nil /\ Live(m)
              /\ \/ \E at \in Time, p \in Patches :
                       did'.op = "this" /\ did'.at = at /\ IsMaster(m) /\ UpdateThis(m, at, p)
                 \/ \E at \in Time : did'.op = "exclude" /\ did'.at = at /\ IsMaster(m) /\ ExcludeInstance(m, at)
                 \/ \E p \in Patches : did'.op = "all" /\ did'.patch = p /\ UpdateAll(m, p)
  <1>1. PICK i \in Ids :
           \/ \E e \in Creations : Create(i, e)
           \/ \E scope \in Scopes, inst \in Time \cup {NoTime} :
                 \/ Delete(i, scope, inst)
                 \/ \E p \in Patches : Update(i, scope, inst, p)
           \/ Restore(i)
           \/ PurgeItem(i)
    BY DEF Next
  <1>2. /\ \A e : ~Create(i, e)
        /\ ~PurgeItem(i) /\ ~Restore(i)
    <2>1. \A e : Create(i, e) => did'.op = "create"
      BY DEF Create, Did
    <2>2. PurgeItem(i) => did'.op = "purge"
      BY DEF PurgeItem, Did
    <2>3. Restore(i) => did'.op = "restore"
      BY DEF Restore, Did
    <2> QED
      BY <2>1, <2>2, <2>3
  <1>3. ASSUME NEW scope \in Scopes, NEW inst \in Time \cup {NoTime}, Delete(i, scope, inst)
        PROVE  \E m \in Ids, at \in Time :
                  /\ did'.series = m /\ rows[m].series = Nil /\ Live(m)
                  /\ did'.op = "exclude" /\ did'.at = at /\ IsMaster(m) /\ ExcludeInstance(m, at)
    <2>1. PICK m \in Ids :
            /\ rows[m].series = Nil /\ Live(m)
            /\ \/ DeleteAll(m)
               \/ inst \in Time /\ TruncateSeries(m, inst)
               \/ IsMaster(m) /\ inst \in Time /\ ExcludeInstance(m, inst)
      BY <1>3, DeleteCases
    <2>2. DeleteAll(m) => Did("trash", m, NoTime, Nil)
      BY DEF DeleteAll
    <2>3. ExcludeInstance(m, inst) => Did("exclude", m, inst, Nil)
      BY DEF ExcludeInstance
    <2>4. TruncateSeries(m, inst) => Did("truncate", m, inst, Nil)
      BY DEF TruncateSeries
    <2>5. ~DeleteAll(m) /\ ~TruncateSeries(m, inst)
      BY <2>2, <2>4 DEF Did
    <2>6. did'.series = m /\ did'.at = inst /\ did'.op = "exclude"
      BY <2>1, <2>3, <2>5 DEF Did
    <2> QED
      BY <2>1, <2>5, <2>6
  <1>4. ASSUME NEW scope \in Scopes, NEW inst \in Time \cup {NoTime}, NEW p \in Patches, Update(i, scope, inst, p)
        PROVE  \E m \in Ids :
                 /\ did'.series = m /\ rows[m].series = Nil /\ Live(m) /\ did'.patch = p
                 /\ \/ /\ did'.op = "this" /\ did'.at = inst /\ IsMaster(m)
                       /\ inst \in Time /\ UpdateThis(m, inst, p)
                    \/ did'.op = "all" /\ UpdateAll(m, p)
    <2>1. PICK m \in Ids :
            /\ rows[m].series = Nil /\ Live(m)
            /\ \/ IsMaster(m) /\ inst \in Time /\ UpdateThis(m, inst, p)
               \/ inst \in Time /\ UpdateFollowing(m, inst, p)
               \/ UpdateAll(m, p)
      BY <1>4, UpdateCases
    <2>2. UpdateAll(m, p) => Did("all", m, NoTime, p)
      BY DEF UpdateAll
    <2>3. UpdateThis(m, inst, p) => Did("this", m, inst, p)
      BY Zenon DEF UpdateThis
    <2>4. UpdateFollowing(m, inst, p) => Did("following", m, inst, p)
      BY DEF UpdateFollowing
    <2>5. ~UpdateFollowing(m, inst, p)
      BY <2>4 DEF Did
    <2>6. UpdateAll(m, p) => did'.series = m /\ did'.patch = p /\ did'.op = "all"
      BY <2>2 DEF Did
    <2>7. UpdateThis(m, inst, p) => did'.series = m /\ did'.patch = p /\ did'.op = "this" /\ did'.at = inst
      BY <2>3 DEF Did
    <2> QED
      BY <2>1, <2>5, <2>6, <2>7
  <1>5. CASE \E scope \in Scopes, inst \in Time \cup {NoTime} : Delete(i, scope, inst)
    BY <1>3, <1>5
  <1>6. CASE \E scope \in Scopes, inst \in Time \cup {NoTime} : \E p \in Patches : Update(i, scope, inst, p)
    BY <1>4, <1>6
  <1> QED
    BY <1>1, <1>2, <1>5, <1>6

\* An edit or deletion of one occurrence changes no other line of any event, and leaves one
\* line for the occurrence at most, none if it was deleted (updateThis, newOverride,
\* excludeInstance), for whatever rules, overrides and restores came before.
THEOREM OneIsTouched == Spec => TouchesOne
  <1>1. ASSUME ShapeInv, UniqueInv, Next, did'.op \in {"this", "exclude"}
        PROVE  LET Others(table, k) == {l \in Lines(table, k) : k # did'.series \/ l[1] # did'.at}
                   It(table)        == Lines(table, did'.series) \ Others(table, did'.series)
               IN  /\ \A k \in Ids : Others(rows', k) = Others(rows, k)
                   /\ Cardinality(It(rows')) <= 1
                   /\ did'.op = "exclude" => It(rows') = {}
    <2>1. ShapeInv' /\ UniqueInv'
      BY <1>1, ShapeStep, UniqueStep
    <2>2. PICK m \in Ids :
              /\ did'.series = m /\ rows[m].series = Nil /\ Live(m)
              /\ \/ \E at \in Time, p \in Patches :
                       did'.op = "this" /\ did'.at = at /\ IsMaster(m) /\ UpdateThis(m, at, p)
                 \/ \E at \in Time : did'.op = "exclude" /\ did'.at = at /\ IsMaster(m) /\ ExcludeInstance(m, at)
      <3>1. did'.op \in {"this", "exclude", "all"} /\ did'.op # "all"
        BY <1>1
      <3> QED
        BY <1>1, <3>1, DidEdit
    <2>3. /\ Touched(m, did'.at)
          /\ did'.op = "exclude" => Lines(rows', m) \ Elsewhere(rows', m, m, did'.at) = {}
      <3>1. CASE \E at \in Time, p \in Patches :
                    did'.op = "this" /\ did'.at = at /\ IsMaster(m) /\ UpdateThis(m, at, p)
        BY <1>1, <2>1, <2>2, <3>1, TouchThis
      <3>2. CASE \E at \in Time : did'.op = "exclude" /\ did'.at = at /\ IsMaster(m) /\ ExcludeInstance(m, at)
        BY <1>1, <2>1, <2>2, <3>2, TouchExclude
      <3> QED
        BY <2>2, <3>1, <3>2
    <2> DEFINE Others(table, k) == {l \in Lines(table, k) : k # did'.series \/ l[1] # did'.at}
    <2>4. \A k \in Ids : /\ Elsewhere(rows, k, m, did'.at) = Others(rows, k)
                        /\ Elsewhere(rows', k, m, did'.at) = Others(rows', k)
      BY <2>2 DEF Elsewhere
    <2> HIDE DEF Others
    <2>5. /\ \A k \in Ids : Others(rows', k) = Others(rows, k)
          /\ Cardinality(Lines(rows', m) \ Others(rows', m)) <= 1
          /\ did'.op = "exclude" => Lines(rows', m) \ Others(rows', m) = {}
      BY <2>3, <2>4 DEF Touched
    <2> QED
      BY <2>2, <2>5 DEF Others
  <1>2. ShapeInv /\ UniqueInv /\ [Next]_vars =>
          [did'.op \in {"this", "exclude"} =>
             LET Others(table, k) == {l \in Lines(table, k) : k # did'.series \/ l[1] # did'.at}
                 It(table)        == Lines(table, did'.series) \ Others(table, did'.series)
             IN  /\ \A k \in Ids : Others(rows', k) = Others(rows, k)
                 /\ Cardinality(It(rows')) <= 1
                 /\ did'.op = "exclude" => It(rows') = {}]_vars
    BY <1>1
  <1> QED
    BY <1>2, UniqueHolds, PTL DEF Spec, TouchesOne

-----------------------------------------------------------------------------
(* The rule of the rest of a split series. *)

\* Division with remainder.
LEMMA Divided ==
    ASSUME NEW s \in Nat, s > 0, NEW x \in Int
    PROVE  x \div s \in Int /\ x = s * (x \div s) + (x % s) /\ x % s \in 0..(s - 1)
  BY SMT

LEMMA Remainder ==
    ASSUME NEW s \in Nat, s > 0, NEW q \in Int, NEW r \in 0..(s - 1)
    PROVE  (s * q + r) % s = r
  BY SMT

LEMMA AddMultiple ==
    ASSUME NEW s \in Nat, s > 0, NEW x \in Int, NEW z \in Int, x % s = 0
    PROVE  (z + x) % s = z % s
  <1> DEFINE q == z \div s
             k == x \div s
  <1>1. x = s * k /\ k \in Int
    BY Divided
  <1>2. z = s * q + (z % s) /\ q \in Int /\ z % s \in 0..(s - 1)
    BY Divided
  <1> HIDE DEF q, k
  <1>3. z + x = s * (q + k) + (z % s)
    BY <1>1, <1>2
  <1>4. q + k \in Int
    BY <1>1, <1>2
  <1> QED
    BY <1>2, <1>3, <1>4, Remainder

\* The instants of a rule are the same from any of them on.
LEMMA SameGrid ==
    ASSUME NEW s \in Nat, s > 0, NEW a \in Int, NEW b \in Int, NEW t \in Int, (a - b) % s = 0
    PROVE  (t - a) % s = 0 <=> (t - b) % s = 0
  <1> DEFINE x == a - b
             z == t - a
  <1>0. x \in Int /\ z \in Int /\ x % s = 0
    OBVIOUS
  <1> HIDE DEF x, z
  <1>1. (z + x) % s = z % s
    BY <1>0, AddMultiple
  <1>2. z + x = t - b
    BY DEF x, z
  <1>3. (t - b) % s = z % s
    BY <1>1, <1>2
  <1> QED
    BY <1>3 DEF z

\* From one of its instants on, a rule has the instants it had.
LEMMA OnRuleFrom ==
    ASSUME NEW r \in Rule, r.step > 0, NEW start \in Time, NEW at \in OnRule(r, start), NEW k \in Rule,
           k.step = r.step, k.anchor = r.anchor, NEW t
    PROVE  t \in OnRule(k, at) <=> t \in OnRule(r, start) /\ t >= at
  <1>0. at \in Time /\ at >= start
    BY DEF OnRule
  <1>1. at \in Time /\ at >= start /\ Time \subseteq Int /\ r.step \in Nat
    BY <1>0, Typed DEF Rule
  <1>2. CASE r.anchor = NoTime
    <2> DEFINE s == r.step
    <2>0. s \in Nat /\ s > 0 /\ at \in Int /\ start \in Int
      BY <1>1
    <2>1. (at - start) % s = 0
      BY <1>2 DEF OnRule
    <2> HIDE DEF s
    <2>2. \A x \in Time : (x - at) % s = 0 <=> (x - start) % s = 0
      BY ZenonT(60), <1>1, <2>0, <2>1, SameGrid
    <2>3. t \in OnRule(k, at) <=> t \in Time /\ t >= at /\ (t - at) % r.step = 0
      BY <1>2 DEF OnRule
    <2>4. t \in OnRule(r, start) <=> t \in Time /\ t >= start /\ (t - start) % r.step = 0
      BY <1>2 DEF OnRule
    <2>5. t \in Time /\ t >= at => t >= start
      BY <1>1
    <2> QED
      BY <2>2, <2>3, <2>4, <2>5 DEF s
  <1>3. CASE r.anchor # NoTime
    <2>1. t \in OnRule(k, at) <=> t \in Time /\ t >= at /\ t % r.step = r.anchor
      BY <1>3 DEF OnRule
    <2>2. t \in OnRule(r, start) <=> t \in Time /\ t >= start /\ t % r.step = r.anchor
      BY <1>3 DEF OnRule
    <2>3. t \in Time /\ t >= at => t >= start
      BY <1>1
    <2> QED
      BY <2>1, <2>2, <2>3
  <1> QED
    BY <1>2, <1>3

\* The rank of an instant counts on from that of an earlier one.
LEMMA RankFrom ==
    ASSUME NEW r \in Rule, r.step > 0, NEW start \in Time, NEW at \in OnRule(r, start), NEW k \in Rule,
           k.step = r.step, k.anchor = r.anchor, NEW t \in OnRule(k, at)
    PROVE  Rank(r, start, t) = Rank(r, start, at) + Rank(k, at, t)
  <1> DEFINE A == {u \in OnRule(r, start) : u < at}
             B == {u \in OnRule(k, at) : u < t}
             C == {u \in OnRule(r, start) : u < t}
  <1>1. \A u : u \in OnRule(k, at) <=> u \in OnRule(r, start) /\ u >= at
    BY OnRuleFrom
  <1>2. /\ \A u : u \in OnRule(r, start) => u \in Int
        /\ at \in Int /\ t \in Int /\ t >= at
    BY <1>1, OnTyped, Typed
  <1>3. C = A \cup B /\ A \cap B = {}
    BY <1>1, <1>2
  <1>4. IsFiniteSet(A) /\ IsFiniteSet(B)
    BY OnTyped, FS_Subset
  <1>5. /\ Rank(r, start, t) = Cardinality(C) /\ Rank(r, start, at) = Cardinality(A)
        /\ Rank(k, at, t) = Cardinality(B)
    BY DEF Rank
  <1> HIDE DEF A, B, C
  <1>6. Cardinality(C) = Cardinality(A) + Cardinality(B) - Cardinality({})
    BY <1>3, <1>4, FS_Union
  <1>7. Cardinality(A) \in Nat /\ Cardinality(B) \in Nat /\ Cardinality({}) = 0
    BY <1>4, FS_CardinalityType, FS_EmptySet
  <1> QED
    BY <1>5, <1>6, <1>7

\* The rule of the rest has the instants of the whole one from `at' on, where `at' is one of them.
LEMMA RuleTail ==
    ASSUME NEW e \in Event, e.rule # NoRule, GoodRule(e.rule), NEW at \in RuleTimes(e.rule, e.start),
           NEW k, k = Split(e, at).tail
    PROVE  /\ k # NoRule
           /\ \A t : t \in RuleTimes(k, at) <=> t \in RuleTimes(e.rule, e.start) /\ t >= at
  <1> DEFINE r == e.rule
             n == Cardinality({t \in RuleTimes(r, e.start) : t < at})
  <1>0. /\ r \in Rule /\ r # NoRule /\ GoodRule(r) /\ e.start \in Time /\ Time \subseteq Int
        /\ r.count \in Nat /\ r.step \in Nat /\ r.step > 0
    BY Typed DEF Event, Rule, GoodRule
  <1>1. at \in OnRule(r, e.start) /\ at \in Time
    BY InRule, OnTyped
  <1>2. k = IF r.count = 0 THEN r ELSE IF r.count > n THEN [r EXCEPT !.count = r.count - n] ELSE NoRule
    BY DEF Split
  <1>3. \A x : /\ [r EXCEPT !.count = x].step = r.step /\ [r EXCEPT !.count = x].anchor = r.anchor
               /\ [r EXCEPT !.count = x].count = x /\ [r EXCEPT !.count = x].until = r.until
               /\ x \in Nat => [r EXCEPT !.count = x] \in Rule
    BY <1>0 DEF Rule
  <1>4. n = Cardinality(Before(r, e.start, at)) /\ n \in Nat
    BY CountTyped DEF Before
  <1>5. at \in RuleTimes(r, e.start)
    OBVIOUS
  <1> HIDE DEF r, n
  <1>6. CASE r.count = 0
    <2>1. k = r
      BY <1>2, <1>6
    <2>2. \A t : t \in OnRule(r, at) <=> t \in OnRule(r, e.start) /\ t >= at
      BY <1>0, <1>1, OnRuleFrom
    <2>3. \A t : t \in RuleTimes(r, at) <=> t \in OnRule(r, at) /\ (r.until # NoTime => t <= r.until)
      BY <1>6, InRule
    <2>4. \A t : t \in RuleTimes(r, e.start) <=> t \in OnRule(r, e.start) /\ (r.until # NoTime => t <= r.until)
      BY <1>6, InRule
    <2> QED
      BY <1>0, <2>1, <2>2, <2>3, <2>4 DEF r
  <1>7. CASE r.count # 0
    <2>0. r.count > 0 /\ r.until = NoTime
      BY <1>0, <1>7 DEF GoodRule
    <2>1. n = Rank(r, e.start, at) /\ n < r.count
      <3>1. Rank(r, e.start, at) < r.count
        BY <1>5, <2>0, InRule
      <3>2. \A u \in OnRule(r, e.start) : u < at => Rank(r, e.start, u) <= Rank(r, e.start, at)
        <4>1. \A u \in OnRule(r, e.start) : u \in Time /\ u \in Int
          BY <1>0, OnTyped
        <4>2. at \in Int
          BY <1>0, <1>1
        <4> QED
          BY <1>1, <4>1, <4>2, RankGrows
      <3>3. \A u : Rank(r, e.start, u) \in Nat
        BY RankTyped
      <3>4. \A u : u \in OnRule(r, e.start) /\ u < at => u \in RuleTimes(r, e.start)
        BY <1>0, <2>0, <3>1, <3>2, <3>3, InRule
      <3>5. \A u : u \in RuleTimes(r, e.start) => u \in OnRule(r, e.start)
        BY InRule
      <3>6. Before(r, e.start, at) = {u \in OnRule(r, e.start) : u < at}
        BY <3>4, <3>5 DEF Before
      <3> QED
        BY <1>4, <3>1, <3>6 DEF Rank
    <2>2. /\ k = [r EXCEPT !.count = r.count - n] /\ r.count - n \in Nat /\ r.count - n > 0
      BY <1>0, <1>2, <1>4, <1>7, <2>1
    <2>3. k.step = r.step /\ k.anchor = r.anchor /\ k.count = r.count - n /\ k.until = NoTime /\ k \in Rule
      BY <1>3, <2>0, <2>2
    <2>4. ASSUME NEW t
          PROVE  t \in OnRule(k, at) <=> t \in OnRule(r, e.start) /\ t >= at
      <3>1. r \in Rule /\ r.step > 0 /\ e.start \in Time /\ at \in OnRule(r, e.start)
        BY <1>0, <1>1
      <3>2. k \in Rule /\ k.step = r.step /\ k.anchor = r.anchor
        BY <2>3
      <3> QED
        BY <3>1, <3>2, OnRuleFrom
    <2>5. ASSUME NEW t \in OnRule(k, at)
          PROVE  Rank(r, e.start, t) = n + Rank(k, at, t) /\ Rank(k, at, t) \in Nat
      BY <1>0, <1>1, <2>1, <2>3, RankFrom, RankTyped
    <2>6. \A t : t \in RuleTimes(k, at) <=> t \in OnRule(k, at) /\ Rank(k, at, t) < r.count - n
      <3>1. k.count = r.count - n /\ k.count > 0 /\ k.until = NoTime
        BY <2>2, <2>3
      <3>2. \A t : t \in RuleTimes(k, at) <=> t \in OnRule(k, at) /\ Rank(k, at, t) < k.count
        BY <3>1, InRule
      <3> QED
        BY <3>1, <3>2
    <2>7. \A t : t \in RuleTimes(r, e.start) <=> t \in OnRule(r, e.start) /\ Rank(r, e.start, t) < r.count
      BY <2>0, InRule
    <2>8. \A t \in OnRule(k, at) : Rank(k, at, t) < r.count - n <=> Rank(r, e.start, t) < r.count
      BY <1>0, <1>4, <2>5
    <2>9. k # NoRule
      BY <1>0, <2>3 DEF NoRule
    <2> QED
      BY <2>4, <2>6, <2>7, <2>8, <2>9 DEF r
  <1> QED
    BY <1>6, <1>7

\* An edit that leaves the times alone leaves the rest of the series where it was.
LEMMA RestOccurs ==
    ASSUME NEW e \in Event, e.rule # NoRule, GoodRule(e.rule), NEW at \in RuleTimes(e.rule, e.start), at > e.start,
           NEW p \in Patches, p.start = Keep, p.rule = Keep, p.rdate = Keep, p.exdate = Keep,
           NEW next, next = AfterRest(e, at, p)
    PROVE  /\ Recurs(next) /\ Shift(Rest(e, at), next) = 0
           /\ Occurs(next) = {t \in Occurs(e) : t >= at}
  <1> DEFINE base == Rest(e, at)
             k    == Split(e, at).tail
  <1>0. at \in Time /\ e.start \in Time /\ Time \subseteq Int
    BY InRule, OnTyped, Typed DEF Event
  <1>1. /\ base.start = at /\ base.rule = k
        /\ base.rdate = {t \in e.rdate : t >= at} /\ base.exdate = {t \in e.exdate : t >= at}
    BY <1>0, RestTyped
  <1>2. next = ShiftSeries(base, Applied(base, p), p)
    BY DEF AfterRest
  <1> HIDE DEF base, k
  <1>3. LET a == Applied(base, p)
        IN  a.start = base.start /\ a.rule = base.rule /\ a.rdate = base.rdate /\ a.exdate = base.exdate
    BY DEF Applied, Field
  <1>4. next = Applied(base, p) /\ Shift(base, next) = 0
    BY <1>2, <1>3 DEF ShiftSeries, Moved, Shift
  <1>5. /\ k # NoRule
        /\ \A t : t \in RuleTimes(k, at) <=> t \in RuleTimes(e.rule, e.start) /\ t >= at
    BY RuleTail DEF k
  <1>6. next.start = at /\ next.rule = k /\ next.rdate = {t \in e.rdate : t >= at}
        /\ next.exdate = {t \in e.exdate : t >= at}
    BY <1>1, <1>3, <1>4
  <1>7. \A t : t \in Occurs(next) <=> /\ t \in RuleTimes(k, at) \/ t = at \/ (t \in e.rdate /\ t >= at)
                                      /\ ~(t \in e.exdate /\ t >= at)
    BY <1>6 DEF Occurs
  <1>8. \A t : t \in Occurs(e) <=> /\ t \in RuleTimes(e.rule, e.start) \/ t = e.start \/ t \in e.rdate
                                   /\ t \notin e.exdate
    BY DEF Occurs
  <1>9. ~(e.start >= at) /\ at >= at
    <2>1. e.start \in Int /\ at \in Int
      BY <1>0
    <2> QED
      BY <2>1
  <1>10. \A t : t \in Occurs(next) <=> t \in Occurs(e) /\ t >= at
    BY <1>5, <1>7, <1>8, <1>9
  <1> QED
    BY <1>4, <1>5, <1>6, <1>10 DEF Recurs, base

\* The changed occurrences of a series: where they stand, and what they are.
Changed(table, k) == {<<table[o].rid, table[o].event>> : o \in Overrides(table, k)}

\* The new series takes every override from `at' on, as it is.
LEMMA FutureFollowing ==
    ASSUME ShapeInv, RuleInv, StandsInv, NEW m \in Ids, NEW at \in Time, NEW p \in Patches,
           at > rows[m].event.start, rows[m].series = Nil, Live(m), UpdateFollowing(m, at, p),
           p.start = Keep, p.rule = Keep, p.rdate = Keep, p.exdate = Keep,
           at \in RuleTimes(rows[m].event.rule, rows[m].event.start)
    PROVE  \E n \in Ids :
              /\ Fresh(n)
              /\ Occurs(rows'[n].event) = {t \in Occurs(rows[m].event) : t >= at}
              /\ Changed(rows', n) = {c \in Changed(rows, m) : c[1] >= at}
  <1>0. PICK n \in Ids : Followed(m, n, at, p)
    BY Zenon, FollowingRows
  <1> DEFINE e    == rows[m].event
             base == Rest(e, at)
             next == AfterRest(e, at, p)
  <1>1. e \in Event /\ e.rule # NoRule /\ GoodRule(e.rule)
    BY RowShape DEF RuleInv, UpdateFollowing
  <1>2. Recurs(next) /\ Shift(base, next) = 0 /\ Occurs(next) = {t \in Occurs(e) : t >= at}
    <2> HIDE DEF e
    <2> QED
      BY <1>1, RestOccurs DEF e
  <1>3. /\ n # m /\ Fresh(n) /\ rows'[n].event = next /\ rows'[n].series = Nil
        /\ rows'[m].series = Nil
        /\ \A j \in Ids \ {m, n} :
             \/ rows'[j] = rows[j] /\ ~(j \in Overrides(rows, m) /\ rows[j].rid >= at)
             \/ /\ j \in Overrides(rows, m) /\ rows[j].rid >= at
                /\ rows'[j].series = n /\ rows'[j].event = rows[j].event
                /\ \/ rows'[j].status = "live" /\ rows'[j].rid = rows[j].rid + Shift(base, next)
                   \/ /\ rows'[j].status = "trashed"
                      /\ ~(Recurs(next) /\ rows[j].rid + Shift(base, next) \in Occurs(next))
    BY <1>0 DEF Followed
  <1> HIDE DEF e, base, next
  <1>4. \A j \in Overrides(rows, m) : j \in Ids \ {m, n} /\ rows[j].rid \in Int /\ rows[j].rid \in Occurs(e)
    <2>1. \A j \in Overrides(rows, m) : j \in Ids /\ rows[j].status = "live" /\ rows[j].series = m /\ m # Nil
      BY DEF Overrides
    <2>2. rows[n].status = "absent"
      BY <1>3 DEF Fresh
    <2> QED
      BY <2>1, <2>2, RowShape, Typed DEF StandsInv, Stands, e
  <1>5. ASSUME NEW j \in Ids \ {m, n}
        PROVE  \/ /\ rows'[j] = rows[j] /\ j \notin Overrides(rows', n)
                  /\ ~(j \in Overrides(rows, m) /\ rows[j].rid >= at)
               \/ /\ j \in Overrides(rows, m) /\ rows[j].rid >= at /\ j \in Overrides(rows', n)
                  /\ rows'[j].event = rows[j].event /\ rows'[j].rid = rows[j].rid
    <2>1. rows[j].series # n
      BY <1>3, RowShape DEF Fresh
    <2>2. CASE rows'[j] = rows[j] /\ ~(j \in Overrides(rows, m) /\ rows[j].rid >= at)
      BY <2>1, <2>2 DEF Overrides
    <2>3. CASE /\ j \in Overrides(rows, m) /\ rows[j].rid >= at
               /\ rows'[j].series = n /\ rows'[j].event = rows[j].event
               /\ \/ rows'[j].status = "live" /\ rows'[j].rid = rows[j].rid + Shift(base, next)
                  \/ /\ rows'[j].status = "trashed"
                     /\ ~(Recurs(next) /\ rows[j].rid + Shift(base, next) \in Occurs(next))
      <3>1. rows[j].rid + Shift(base, next) = rows[j].rid
        BY <1>2, <1>4, <2>3
      <3>2. rows[j].rid \in Occurs(next)
        BY <1>2, <1>4, <2>3
      <3>3. rows'[j].status = "live" /\ rows'[j].rid = rows[j].rid
        BY <1>2, <2>3, <3>1, <3>2
      <3> QED
        BY <2>3, <3>3 DEF Overrides
    <2> QED
      BY <1>3, <2>2, <2>3
  <1>6. n \notin Overrides(rows', n) /\ m \notin Overrides(rows', n)
    BY <1>3 DEF Overrides
  <1>7. \A j : j \in Overrides(rows', n) => j \in Ids \ {m, n}
    BY <1>6 DEF Overrides
  <1>8. \A c : c \in Changed(rows', n) <=> \E j \in Overrides(rows', n) : c = <<rows'[j].rid, rows'[j].event>>
    BY DEF Changed
  <1>9. \A c : c \in Changed(rows, m) <=> \E j \in Overrides(rows, m) : c = <<rows[j].rid, rows[j].event>>
    BY DEF Changed
  <1>10. ASSUME NEW c
         PROVE  c \in Changed(rows', n) <=> c \in Changed(rows, m) /\ c[1] >= at
    <2>1. ASSUME c \in Changed(rows', n)
          PROVE  c \in Changed(rows, m) /\ c[1] >= at
      <3>1. PICK j \in Overrides(rows', n) : c = <<rows'[j].rid, rows'[j].event>>
        BY <1>8, <2>1
      <3>2. j \in Overrides(rows, m) /\ rows[j].rid >= at /\ c = <<rows[j].rid, rows[j].event>>
        BY <1>5, <1>7, <3>1
      <3> QED
        BY <1>9, <3>2
    <2>2. ASSUME c \in Changed(rows, m), c[1] >= at
          PROVE  c \in Changed(rows', n)
      <3>1. PICK j \in Overrides(rows, m) : c = <<rows[j].rid, rows[j].event>>
        BY <1>9, <2>2
      <3>2. rows[j].rid >= at
        BY <2>2, <3>1
      <3>3. j \in Overrides(rows', n) /\ c = <<rows'[j].rid, rows'[j].event>>
        BY <1>4, <1>5, <3>1, <3>2
      <3> QED
        BY <1>8, <3>3
    <2> QED
      BY <2>1, <2>2
  <1>11. Occurs(rows'[n].event) = {t \in Occurs(rows[m].event) : t >= at}
    BY <1>2, <1>3 DEF e
  <1> QED
    BY <1>3, <1>10, <1>11

\* An edit of the content alone from an occurrence of the rule on keeps every later occurrence
\* at its time, counted, extra and excluded ones included, and every changed occurrence as it
\* was changed (Split, splitTimes, MoveOverrides).  For rules that count from their start, and
\* where overrides come back with their series only.
THEOREM FutureIsKept ==
    ASSUME ~LoneTrash, CountedFromStart
    PROVE  Spec => FutureKeepsTimes
  <1>1. ASSUME OccurInv, Next, did'.op = "following"
        PROVE  LET p == did'.patch
                   m == did'.series
                   e == rows[m].event
                   C(table, k) == {<<table[o].rid, table[o].event>> : o \in Overrides(table, k)}
               IN  p.start = Keep /\ p.rule = Keep /\ p.rdate = Keep /\ p.exdate = Keep
                     /\ did'.at \in RuleTimes(e.rule, e.start)
                   => \E n \in Ids :
                        /\ Fresh(n)
                        /\ Occurs(rows'[n].event) = {t \in Occurs(e) : t >= did'.at}
                        /\ C(rows', n) = {c \in C(rows, m) : c[1] >= did'.at}
    <2>0. ShapeInv /\ RuleInv /\ StandsInv
      BY <1>1 DEF OccurInv
    <2>1. PICK m \in Ids, at \in Time :
              /\ did'.series = m /\ did'.at = at
              /\ rows[m].series = Nil /\ Live(m) /\ at > rows[m].event.start
              /\ \/ TruncateSeries(m, at)
                 \/ \E p \in Patches : did'.patch = p /\ UpdateFollowing(m, at, p)
      BY <1>1, <2>0, DidSplit
    <2>2. TruncateSeries(m, at) => did'.op = "truncate"
      <3>1. TruncateSeries(m, at) => Did("truncate", m, at, Nil)
        BY DEF TruncateSeries
      <3> QED
        BY <3>1 DEF Did
    <2>3. PICK p \in Patches : did'.patch = p /\ UpdateFollowing(m, at, p)
      BY <1>1, <2>1, <2>2
    <2>4. ASSUME p.start = Keep, p.rule = Keep, p.rdate = Keep, p.exdate = Keep,
                 at \in RuleTimes(rows[m].event.rule, rows[m].event.start)
          PROVE  \E n \in Ids :
                    /\ Fresh(n)
                    /\ Occurs(rows'[n].event) = {t \in Occurs(rows[m].event) : t >= at}
                    /\ Changed(rows', n) = {c \in Changed(rows, m) : c[1] >= at}
      BY <2>0, <2>1, <2>3, <2>4, FutureFollowing
    <2> QED
      BY <2>1, <2>3, <2>4 DEF Changed
  <1>2. OccurInv /\ [Next]_vars =>
          [did'.op = "following" =>
             LET p == did'.patch
                 m == did'.series
                 e == rows[m].event
                 C(table, k) == {<<table[o].rid, table[o].event>> : o \in Overrides(table, k)}
             IN  p.start = Keep /\ p.rule = Keep /\ p.rdate = Keep /\ p.exdate = Keep
                   /\ did'.at \in RuleTimes(e.rule, e.start)
                 => \E n \in Ids :
                      /\ Fresh(n)
                      /\ Occurs(rows'[n].event) = {t \in Occurs(e) : t >= did'.at}
                      /\ C(rows', n) = {c \in C(rows, m) : c[1] >= did'.at}]_vars
    BY <1>1
  <1>3. Spec => []OccurInv
    BY OccurHolds
  <1> QED
    BY <1>2, <1>3, PTL DEF Spec, FutureKeepsTimes

-----------------------------------------------------------------------------
(* Moving a whole series. *)

\* The instants of a rule that repeats from its start move with it.
LEMMA MovedGrid ==
    ASSUME NEW r \in Rule, r.anchor = NoTime, NEW a \in Time, NEW b \in Time, NEW d, d = b - a,
           NEW t \in Time, t + d \in Time
    PROVE  t \in OnRule(r, a) <=> t + d \in OnRule(r, b)
  <1>1. a \in Int /\ b \in Int /\ t \in Int /\ d \in Int
    BY Typed
  <1>2. (t + d) - b = t - a /\ (t + d >= b <=> t >= a)
    BY <1>1
  <1>3. t \in OnRule(r, a) <=> r.step > 0 /\ t >= a /\ (t - a) % r.step = 0
    BY DEF OnRule
  <1>4. t + d \in OnRule(r, b) <=> r.step > 0 /\ t + d >= b /\ ((t + d) - b) % r.step = 0
    BY DEF OnRule
  <1> QED
    BY <1>2, <1>3, <1>4

\* So do their ranks.
LEMMA MovedRank ==
    ASSUME NEW r \in Rule, r.anchor = NoTime, NEW a \in Time, NEW b \in Time, NEW d, d = b - a,
           NEW t \in Time, t + d \in Time
    PROVE  Rank(r, b, t + d) = Rank(r, a, t)
  <1> DEFINE S == {u \in OnRule(r, a) : u < t}
             T == {u \in OnRule(r, b) : u < t + d}
             f == [u \in S |-> u + d]
  <1>1. a \in Int /\ b \in Int /\ t \in Int /\ d \in Int
    BY Typed
  <1>2. \A u : u \in OnRule(r, a) => u \in Time /\ u \in Int /\ u >= a
    BY Typed DEF OnRule
  <1>3. \A u : u \in OnRule(r, b) => u \in Time /\ u \in Int /\ u >= b
    BY Typed DEF OnRule
  <1>4. ASSUME NEW u \in S
        PROVE  u + d \in T
    <2>1. u \in Int /\ u >= a /\ u < t /\ u \in Time
      BY <1>2
    <2>2. u + d >= b /\ u + d < t + d
      BY <1>1, <2>1
    <2>3. u + d \in Time
      BY <1>1, <2>1, <2>2 DEF Time
    <2> QED
      BY <2>1, <2>2, <2>3, MovedGrid
  <1>5. ASSUME NEW v \in T
        PROVE  v - d \in S /\ (v - d) + d = v
    <2>1. v \in Int /\ v >= b /\ v < t + d /\ v \in Time
      BY <1>3
    <2>2. v - d >= a /\ v - d < t /\ (v - d) + d = v
      BY <1>1, <2>1
    <2>3. v - d \in Time
      BY <1>1, <2>1, <2>2 DEF Time
    <2> QED
      BY <2>1, <2>2, <2>3, MovedGrid
  <1>6. \A u, w \in S : u + d = w + d => u = w
    BY <1>1, <1>2
  <1>7. IsFiniteSet(S)
    BY OnTyped, FS_Subset
  <1>8. Rank(r, a, t) = Cardinality(S) /\ Rank(r, b, t + d) = Cardinality(T)
    BY DEF Rank
  <1> HIDE DEF S, T
  <1>9. f \in Bijection(S, T)
    <2>1. f \in [S -> T]
      BY <1>4
    <2>2. \A u, w \in S : f[u] = f[w] => u = w
      BY <1>6
    <2>3. \A v \in T : \E u \in S : f[u] = v
      BY <1>5
    <2> HIDE DEF f
    <2> QED
      BY <2>1, <2>2, <2>3 DEF Bijection, Injection, Surjection, IsInjective
  <1> HIDE DEF f
  <1>10. ExistsBijection(S, T)
    BY <1>9 DEF ExistsBijection
  <1> QED
    BY <1>7, <1>8, <1>10, FS_Bijection

\* So do those that it counts.
LEMMA MovedRule ==
    ASSUME NEW r \in Rule, r.anchor = NoTime, r.until = NoTime, NEW a \in Time, NEW b \in Time, NEW d, d = b - a,
           NEW t \in Time, t + d \in Time
    PROVE  t \in RuleTimes(r, a) <=> t + d \in RuleTimes(r, b)
  <1>1. t \in OnRule(r, a) <=> t + d \in OnRule(r, b)
    BY MovedGrid
  <1>2. Rank(r, b, t + d) = Rank(r, a, t)
    BY MovedRank
  <1>3. t \in RuleTimes(r, a) <=> t \in OnRule(r, a) /\ (r.count > 0 => Rank(r, a, t) < r.count)
    BY InRule
  <1>4. t + d \in RuleTimes(r, b) <=> t + d \in OnRule(r, b) /\ (r.count > 0 => Rank(r, b, t + d) < r.count)
    BY InRule
  <1> QED
    BY <1>1, <1>2, <1>3, <1>4

\* A series whose dates moved with its start occurs where it did, moved.
LEMMA MovedOccurs ==
    ASSUME NEW e \in Event, NEW a \in Event, NEW d, d = a.start - e.start,
           e.rule.anchor = NoTime, e.rule.until = NoTime, a.rule = e.rule,
           a.rdate = MoveBy(e.rdate, d), a.exdate = MoveBy(e.exdate, d),
           NEW t \in Time, t + d \in Time
    PROVE  t \in Occurs(e) <=> t + d \in Occurs(a)
  <1>1. e.start \in Time /\ a.start \in Time /\ e.rule \in Rule /\ e.rdate \subseteq Time /\ e.exdate \subseteq Time
    BY DEF Event
  <1>2. Time \subseteq Int
    BY Typed
  <1>3. d \in Int /\ t \in Int /\ e.start \in Int /\ a.start \in Int
    <2>1. e.start \in Int /\ a.start \in Int /\ t \in Int
      BY <1>1, <1>2
    <2> QED
      BY <2>1
  <1>4. t \in RuleTimes(e.rule, e.start) <=> t + d \in RuleTimes(e.rule, a.start)
    BY <1>1, MovedRule
  <1>5. t = e.start <=> t + d = a.start
    <2> DEFINE x == e.start
               y == a.start
    <2>1. x \in Int /\ y \in Int /\ t \in Int /\ d = y - x
      BY <1>3
    <2> HIDE DEF x, y
    <2>2. t = x <=> t + d = y
      BY <2>1
    <2> QED
      BY <2>2 DEF x, y
  <1>6. \A x \in Time : x + d = t + d <=> x = t
    BY <1>2, <1>3
  <1>7. \A S : S \subseteq Time => (t \in S <=> t + d \in MoveBy(S, d))
    BY <1>6 DEF MoveBy
  <1>8. (t \in e.rdate <=> t + d \in a.rdate) /\ (t \in e.exdate <=> t + d \in a.exdate)
    BY <1>1, <1>7
  <1> QED
    BY <1>4, <1>5, <1>8 DEF Occurs

\* An edit that keeps the recurrence moves the dates of a series with its start.
LEMMA MovedEvent ==
    ASSUME NEW e \in Event, Recurs(e), NEW p \in Patches, p.rule = Keep, p.rdate = Keep, p.exdate = Keep,
           NEW a \in Event, a = ShiftSeries(e, Applied(e, p), p), NEW d, d = a.start - e.start
    PROVE  /\ a.rule = e.rule /\ a.rdate = MoveBy(e.rdate, d) /\ a.exdate = MoveBy(e.exdate, d)
           /\ Shift(e, a) = d /\ Recurs(a) /\ (d # 0 => Moved(e, a))
  <1> DEFINE b == Applied(e, p)
  <1>1. b \in Event /\ b.rule = e.rule /\ b.rdate = e.rdate /\ b.exdate = e.exdate
    BY AppliedTyped DEF Applied, Field
  <1>2. a.start = b.start /\ a.rule = b.rule
    <2>1. a.rdate \subseteq Time /\ a.exdate \subseteq Time
      BY DEF Event
    <2> HIDE DEF b
    <2> QED
      BY <1>1, <2>1, ShiftTyped DEF b
  <1>3. a = ShiftSeries(e, b, p)
    OBVIOUS
  <1> HIDE DEF b
  <1>4. /\ e.rdate \subseteq Int /\ e.exdate \subseteq Int /\ e.start \in Int /\ a.start \in Int
    BY Typed DEF Event
  <1>5. CASE e.start = a.start
    <2>1. ~Moved(e, b) /\ ~Moved(e, a)
      BY <1>2, <1>5 DEF Moved
    <2>2. a = b
      BY <1>3, <2>1 DEF ShiftSeries
    <2>3. d = 0
      BY <1>4, <1>5
    <2>4. MoveBy(e.rdate, 0) = e.rdate /\ MoveBy(e.exdate, 0) = e.exdate
      <3>1. ASSUME NEW S, S \subseteq Int
            PROVE  MoveBy(S, 0) = S
        <4>1. \A x \in S : x + 0 = x
          BY <3>1
        <4> QED
          BY <4>1 DEF MoveBy
      <3> QED
        BY <1>4, <3>1
    <2> QED
      BY <1>1, <2>1, <2>2, <2>3, <2>4 DEF Shift, Recurs
  <1>6. CASE e.start # a.start
    <2>1. Moved(e, b) /\ Moved(e, a)
      BY <1>1, <1>2, <1>6 DEF Moved
    <2>2. a = [b EXCEPT !.exdate = MoveBy(@, d), !.rdate = MoveBy(@, d)]
      BY <1>2, <1>3, <2>1 DEF ShiftSeries
    <2>3. a.rdate = MoveBy(b.rdate, d) /\ a.exdate = MoveBy(b.exdate, d)
      BY <1>1, <2>2 DEF Event
    <2>4. e.rdate # {} => MoveBy(e.rdate, d) # {}
      BY DEF MoveBy
    <2> QED
      BY <1>1, <1>2, <2>1, <2>3, <2>4 DEF Shift, Recurs
  <1> QED
    BY <1>5, <1>6

\* Where the overrides of a series stand.
Rids(table, m) == {table[o].rid : o \in Overrides(table, m)}

\* An edit of the whole series moves every occurrence and every override.
LEMMA AllMove ==
    ASSUME ShapeInv, StandsInv, NEW m \in Ids, NEW p \in Patches, rows[m].series = Nil, Live(m), UpdateAll(m, p),
           p.rule = Keep, p.rdate = Keep, p.exdate = Keep, IsMaster(m),
           rows[m].event.rule.anchor = NoTime, rows[m].event.rule.until = NoTime,
           NEW d, d = rows'[m].event.start - rows[m].event.start
    PROVE  /\ \A t \in Time : t + d \in Time => (t \in Occurs(rows[m].event) <=> t + d \in Occurs(rows'[m].event))
           /\ Rids(rows', m) = MoveBy(Rids(rows, m), d)
  <1> DEFINE e == rows[m].event
             a == AfterAll(m, p)
  <1>1. /\ e \in Event /\ a \in Event /\ Recurs(e) /\ rows'[m].event = a /\ rows'[m].series = Nil
        /\ a = ShiftSeries(e, Applied(e, p), p)
    BY RowShape, AllRows DEF IsMaster, AfterAll
  <1>2. \A j \in Ids \ {m} :
            /\ rows'[j].series = rows[j].series
            /\ \/ rows'[j] = rows[j] /\ (Recurs(e) => j \notin Overrides(rows, m))
               \/ /\ j \in Overrides(rows, m) /\ rows'[j].status = "live" /\ rows'[j].rid = rows[j].rid + Shift(e, a)
               \/ /\ j \in Overrides(rows, m)
                  /\ ~(Recurs(a) /\ rows[j].rid + Shift(e, a) \in Occurs(a))
    BY AllRows
  <1>3. \A o \in Overrides(rows, m) : Moved(e, a) => rows[o].rid + (a.start - e.start) \in Time
    BY DEF UpdateAll, InWindow, MoveBy, AfterAll
  <1>4. d = a.start - e.start /\ e.rule.anchor = NoTime /\ e.rule.until = NoTime
    BY <1>1
  <1> HIDE DEF e, a
  <1>5. /\ a.rule = e.rule /\ a.rdate = MoveBy(e.rdate, d) /\ a.exdate = MoveBy(e.exdate, d)
        /\ Shift(e, a) = d /\ Recurs(a) /\ (d # 0 => Moved(e, a))
    BY <1>1, <1>4, MovedEvent
  <1>6. ASSUME NEW t \in Time, t + d \in Time
        PROVE  t \in Occurs(e) <=> t + d \in Occurs(a)
    BY <1>1, <1>4, <1>5, <1>6, MovedOccurs
  <1>7. ASSUME NEW o \in Overrides(rows, m)
        PROVE  /\ o \in Ids \ {m} /\ rows[o].rid + d \in Time
               /\ Recurs(a) /\ rows[o].rid + Shift(e, a) \in Occurs(a)
    <2>1. o \in Ids \ {m} /\ rows[o].rid \in Time /\ rows[o].rid \in Int /\ rows[o].rid \in Occurs(e)
      BY RowShape, Typed DEF Overrides, StandsInv, Stands, e
    <2>2. rows[o].rid + d \in Time
      BY <1>3, <1>4, <1>5, <2>1
    <2>3. rows[o].rid + d \in Occurs(a)
      BY <1>6, <2>1, <2>2
    <2> QED
      BY <1>5, <2>1, <2>2, <2>3
  <1>8. \A o \in Ids : /\ o \in Overrides(rows', m) <=> o \in Overrides(rows, m)
                       /\ o \in Overrides(rows, m) => rows'[o].rid = rows[o].rid + d
    <2> SUFFICES ASSUME NEW o \in Ids
                 PROVE  /\ o \in Overrides(rows', m) <=> o \in Overrides(rows, m)
                        /\ o \in Overrides(rows, m) => rows'[o].rid = rows[o].rid + d
      OBVIOUS
    <2>1. CASE o = m
      BY <1>1, <2>1 DEF Overrides
    <2>2. CASE o # m /\ o \in Overrides(rows, m)
      <3>1. rows'[o].status = "live" /\ rows'[o].series = m /\ rows'[o].rid = rows[o].rid + Shift(e, a)
        BY <1>1, <1>2, <1>7, <2>2 DEF Overrides
      <3> QED
        BY <1>5, <2>2, <3>1 DEF Overrides
    <2>3. CASE o # m /\ o \notin Overrides(rows, m)
      <3>1. rows'[o] = rows[o]
        BY <1>2, <2>3
      <3> QED
        BY <2>3, <3>1 DEF Overrides
    <2> QED
      BY <2>1, <2>2, <2>3
  <1>9. Rids(rows', m) = MoveBy(Rids(rows, m), d)
    <2>1. \A o : (o \in Overrides(rows, m) => o \in Ids) /\ (o \in Overrides(rows', m) => o \in Ids)
      BY DEF Overrides
    <2>2. \A x : x \in Rids(rows', m) <=> \E o \in Overrides(rows', m) : x = rows'[o].rid
      BY DEF Rids
    <2>3. \A x : x \in MoveBy(Rids(rows, m), d) <=> \E o \in Overrides(rows, m) : x = rows[o].rid + d
      BY DEF Rids, MoveBy
    <2>4. \A o : o \in Overrides(rows', m) <=> o \in Overrides(rows, m)
      BY <1>8, <2>1
    <2>5. \A o \in Overrides(rows, m) : rows'[o].rid = rows[o].rid + d
      BY <1>8, <2>1
    <2>6. \A x : x \in Rids(rows', m) <=> x \in MoveBy(Rids(rows, m), d)
      BY <2>2, <2>3, <2>4, <2>5
    <2> QED
      BY <2>6
  <1> QED
    BY <1>1, <1>6, <1>9 DEF e

\* Moving a whole series by its start moves every occurrence, and with it every excluded, extra
\* and changed one, by the same distance (shiftSeries, syncOverrides).  For rules that count
\* from their start, and where overrides come back with their series only.
THEOREM AllMovesAsOne ==
    ASSUME ~LoneTrash, CountedFromStart
    PROVE  Spec => MovesAsOne
  <1>1. ASSUME OccurInv, Next, did'.op = "all"
        PROVE  LET p == did'.patch
                   m == did'.series
                   e == rows[m].event
                   d == rows'[m].event.start - e.start
                   R(table) == {table[o].rid : o \in Overrides(table, m)}
               IN  p.rule = Keep /\ p.rdate = Keep /\ p.exdate = Keep
                     /\ IsMaster(m) /\ e.rule.anchor = NoTime /\ e.rule.until = NoTime
                   => /\ \A t \in Time : t + d \in Time =>
                             (t \in Occurs(e) <=> t + d \in Occurs(rows'[m].event))
                      /\ R(rows') = MoveBy(R(rows), d)
    <2>0. ShapeInv /\ StandsInv
      BY <1>1 DEF OccurInv
    <2>1. PICK m \in Ids :
              /\ did'.series = m /\ rows[m].series = Nil /\ Live(m)
              /\ \E p \in Patches : did'.patch = p /\ UpdateAll(m, p)
      <3>1. did'.op \in {"this", "exclude", "all"} /\ did'.op # "this" /\ did'.op # "exclude"
        BY <1>1
      <3> QED
        BY <1>1, <2>0, <3>1, DidEdit
    <2>2. PICK p \in Patches : did'.patch = p /\ UpdateAll(m, p)
      BY <2>1
    <2> DEFINE d == rows'[m].event.start - rows[m].event.start
    <2>3. ASSUME p.rule = Keep, p.rdate = Keep, p.exdate = Keep, IsMaster(m),
                 rows[m].event.rule.anchor = NoTime, rows[m].event.rule.until = NoTime
          PROVE  /\ \A t \in Time : t + d \in Time =>
                      (t \in Occurs(rows[m].event) <=> t + d \in Occurs(rows'[m].event))
                 /\ Rids(rows', m) = MoveBy(Rids(rows, m), d)
      BY <2>0, <2>1, <2>2, <2>3, AllMove
    <2> QED
      BY <2>1, <2>2, <2>3 DEF Rids
  <1>2. OccurInv /\ [Next]_vars =>
          [did'.op = "all" =>
             LET p == did'.patch
                 m == did'.series
                 e == rows[m].event
                 d == rows'[m].event.start - e.start
                 R(table) == {table[o].rid : o \in Overrides(table, m)}
             IN  p.rule = Keep /\ p.rdate = Keep /\ p.exdate = Keep
                   /\ IsMaster(m) /\ e.rule.anchor = NoTime /\ e.rule.until = NoTime
                 => /\ \A t \in Time : t + d \in Time =>
                           (t \in Occurs(e) <=> t + d \in Occurs(rows'[m].event))
                    /\ R(rows') = MoveBy(R(rows), d)]_vars
    BY <1>1
  <1>3. Spec => []OccurInv
    BY OccurHolds
  <1> QED
    BY <1>2, <1>3, PTL DEF Spec, MovesAsOne
=============================================================================
