--------------------------- MODULE MCEventSeries ---------------------------
(* Instances of EventSeries for TLC. *)
EXTENDS EventSeries, TLC

Daily(step, count) == [step |-> step, anchor |-> NoTime, count |-> count, until |-> NoTime]
OnDays(step, day, count) == [step |-> step, anchor |-> day, count |-> count, until |-> NoTime]

Plain == [start |-> 1, val |-> "a", rule |-> NoRule, rdate |-> {}, exdate |-> {}]
Same  == [start |-> Keep, val |-> Keep, rule |-> Keep, rdate |-> Keep, exdate |-> Keep]

\* A counted series, one without end and with an extra date, one that starts off its rule
\* and ends before an extra date.
MCCreations == {[Plain EXCEPT !.rule = Daily(1, 3)],
                [Plain EXCEPT !.rule = Daily(2, 0), !.rdate = {2}],
                [Plain EXCEPT !.rule = [OnDays(2, 0, 0) EXCEPT !.until = 2], !.rdate = {4}]}

\* Cancelled, a later start, an earlier start with another rule, no recurrence.
MCPatches == {[Same EXCEPT !.val = "x"], [Same EXCEPT !.start = 2, !.val = "b"],
              [Same EXCEPT !.start = 0, !.rule = Daily(2, 2)], [Same EXCEPT !.rule = NoRule, !.rdate = {}]}

\* A counted series that starts off its rule: the start is not one of the count.
OffRule == {[Plain EXCEPT !.rule = OnDays(2, 0, 2)]}
=============================================================================
