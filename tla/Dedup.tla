------------------------------- MODULE Dedup -------------------------------
(***************************************************************************)
(* Duplicates (internal/dedup): a scan looks for entries that share a UID  *)
(* or a fingerprint or have similar titles, outside any transaction, and   *)
(* then, in one transaction, removes the younger of every pair the user's  *)
(* policy lets it remove and flags the others.  A flagged pair is resolved *)
(* by the user, from the web, the API or in bulk from the command line.    *)
(* A copy is an event or a todo; its number is its id, and ids grow with   *)
(* time.  `look' stands for the fields the fingerprint is made of.         *)
(***************************************************************************)
EXTENDS Integers, FiniteSets

CONSTANTS
    Copies,          \* 1..n
    Uid,             \* copy -> its UID
    Looks, Blank,    \* what copies look like; Blank has an empty title
    Far,             \* copies outside the rolling window of the nightly sweep
    Linked,          \* copies Google knows
    Scanners,        \* the worker's handler and the command line
    MaxPairs,        \* pairs one scan keeps
    MaxDedupCalls    \* bound: what users do

DedupAssumption == Copies \subseteq Nat /\ MaxPairs \in Nat /\ MaxDedupCalls \in Nat

VARIABLES
    entity,      \* the copies are all events or all todos
    copies,      \* copy -> [st, look]
    pairRows,    \* duplicate_candidates: pair -> [status, reason]; "none" if there is no row
    policy,      \* users.dedup_policy
    scanQueued,  \* a dedup.scan job waits
    scans,       \* scanner -> what it has found and not yet applied
    batch,       \* pairs the command line still has to resolve
    answer,      \* ghost: the last resolution, and what it was told
    dedupCalls

dedupVars == <<entity, copies, pairRows, policy, scanQueued, scans, batch, answer, dedupCalls>>

Pairs    == {p \in Copies \X Copies : p[1] < p[2]}
Policies == {"off", "flag", "auto_exact", "auto_fingerprint"}
Reasons  == {"uid", "fingerprint", "fuzzy"}
Choices  == {"keep_a", "keep_b", "merge", "dismiss"}
NoRow    == [status |-> "none", reason |-> "uid"]
Copy     == [st : {"live", "trash"}, look : Looks \cup {Blank}]
PairRow  == [status : {"none", "pending", "merged", "deleted", "dismissed"}, reason : Reasons]
Scanning == [found : SUBSET (Pairs \X Reasons), under : Policies, busy : BOOLEAN, touched : BOOLEAN]
NoScan   == [found |-> {}, under |-> "off", busy |-> FALSE, touched |-> FALSE]

DedupTypeOK ==
    /\ entity \in {"event", "todo"}
    /\ copies \in [Copies -> Copy] /\ pairRows \in [Pairs -> PairRow]
    /\ policy \in Policies /\ scanQueued \in BOOLEAN
    /\ scans \in [Scanners -> Scanning] /\ \A s \in Scanners : Cardinality(scans[s].found) <= MaxPairs
    /\ batch \subseteq Pairs
    /\ dedupCalls \in 0..MaxDedupCalls

Live(c) == copies[c].st = "live"

-----------------------------------------------------------------------------
(* Finding pairs. *)

\* EventsInSpan: live events in the window, all of them in a full scan.
EventsInSpan(full) == {c \in Copies : Live(c) /\ (full \/ c \notin Far)}

\* OpenTodos: live todos, which have no window.
OpenTodos == {c \in Copies : Live(c)}

Seen(full) == IF entity = "event" THEN EventsInSpan(full) ELSE OpenTodos

\* The members of a group are paired with its first, which has the smallest id.
Grouped(cs, same(_, _)) ==
    {p \in Pairs : /\ {p[1], p[2]} \subseteq cs /\ same(p[1], p[2])
                   /\ \A c \in cs : same(c, p[1]) => p[1] <= c}

ByUID(cs)   == Grouped(cs, LAMBDA a, b : Uid[a] = Uid[b])
ByPrint(cs) == Grouped(cs, LAMBDA a, b : copies[a].look = copies[b].look)

\* Similarity: events near one another whose titles are alike; any two that are not blank.
Similarity(cs) ==
    IF entity = "todo" THEN {}
    ELSE {p \in Pairs : /\ {p[1], p[2]} \subseteq cs
                        /\ copies[p[1]].look # Blank /\ copies[p[2]].look # Blank}

\* pairKey and `seen': a pair is reported once, for the strongest reason.
Candidates(cs) ==
    {<<p, "uid">> : p \in ByUID(cs)}
      \cup {<<p, "fingerprint">> : p \in ByPrint(cs) \ ByUID(cs)}
      \cup {<<p, "fuzzy">> : p \in Similarity(cs) \ (ByUID(cs) \cup ByPrint(cs))}

\* Resolved: the user has had the pair before and it is settled.
Resolved(p) == pairRows[p].status \notin {"none", "pending"}

Rank(r) == CASE r = "uid" -> 1 [] r = "fingerprint" -> 2 [] OTHER -> 3

\* find: what is found is cut off at MaxPairs, and where a lookup fails; groups come in any
\* order, but by reason.
Finds(full) ==
    LET all == {x \in Candidates(Seen(full)) : ~Resolved(x[1])}
    IN  {f \in SUBSET all :
           /\ Cardinality(f) <= MaxPairs
           /\ \A x \in f, y \in all : Rank(y[2]) < Rank(x[2]) => y \in f}

-----------------------------------------------------------------------------
(* The table of pairs. *)

\* SaveDuplicate: an upsert that leaves settled rows alone.
SaveDuplicate(rows, found) ==
    [p \in Pairs |-> IF rows[p].status \in {"none", "pending"} /\ \E r \in Reasons : <<p, r>> \in found
                     THEN [status |-> "pending", reason |-> CHOOSE r \in Reasons : <<p, r>> \in found]
                     ELSE rows[p]]

\* DropDuplicates: every row of the copies goes, settled ones too.
DropDuplicates(rows, cs) ==
    [p \in Pairs |-> IF {p[1], p[2]} \cap cs # {} THEN NoRow ELSE rows[p]]

\* ResolveDuplicate reports a missing row when none is pending under the id.
CanResolve(rows, p) == rows[p].status = "pending"
ResolveDuplicate(rows, p, status) ==
    IF CanResolve(rows, p) THEN [rows EXCEPT ![p].status = status] ELSE rows

-----------------------------------------------------------------------------
(* A scan. *)

\* Duplicate.Auto
Auto(reason, under) ==
    \/ under = "auto_fingerprint" /\ reason \in {"uid", "fingerprint"}
    \/ under = "auto_exact" /\ reason = "uid"

\* Mutant: of two entries with one fingerprint the newer is kept.
DropNewest(x) == IF x[2] = "fingerprint" THEN x[1][1] ELSE x[1][2]

\* duplicate orders the ids of a pair, and the second is the one that goes.
Drop(x) == x[1][2]

Touch(ss) == [s \in Scanners |-> [ss[s] EXCEPT !.touched = TRUE]]

\* Scan: one job per owner is queued.
Scan == scanQueued' = TRUE
            /\ UNCHANGED <<entity, copies, pairRows, policy, scans, batch, answer, dedupCalls>>

scanDuplicates == ~scanQueued /\ Scan
WebScan        == ~scanQueued /\ policy # "off" /\ Scan
HandleSweep    == ~scanQueued /\ policy # "off" /\ Scan

\* HandleScan up to the end of find.
Find(s, full) ==
    /\ ~scans[s].busy
    /\ IF policy = "off" THEN UNCHANGED scans
       ELSE \E f \in Finds(full) :
              scans' = [scans EXCEPT ![s] = IF f = {} THEN NoScan
                          ELSE [found |-> f, under |-> policy, busy |-> TRUE, touched |-> FALSE]]
    /\ UNCHANGED <<entity, copies, pairRows, policy, batch, answer>>

HandleScan(s) == /\ scanQueued /\ scanQueued' = FALSE /\ Find(s, FALSE) /\ UNCHANGED dedupCalls

\* dedupScan runs the same handler in the command's own process.
dedupScan(s, full) ==
    /\ dedupCalls < MaxDedupCalls /\ dedupCalls' = dedupCalls + 1
    /\ Find(s, full) /\ UNCHANGED scanQueued

\* remove, for a set of copies: those that are gone already are passed over.
Remove(cs) == [c \in Copies |-> IF c \in cs /\ Live(c) THEN [copies[c] EXCEPT !.st = "trash"]
                                ELSE copies[c]]

\* HandleScan's transaction: the exact matches go first, because they were found first.
Apply(s) ==
    LET auto == {x \in scans[s].found : Auto(x[2], scans[s].under)}
        gone == {c \in {Drop(x) : x \in auto} : Live(c)}
    IN  /\ scans[s].busy
        /\ copies'   = Remove(gone)
        /\ pairRows' = SaveDuplicate(DropDuplicates(pairRows, gone), scans[s].found \ auto)
        /\ scans'    = [(IF gone = {} THEN scans ELSE Touch(scans)) EXCEPT ![s] = NoScan]
        /\ UNCHANGED <<entity, policy, scanQueued, batch, answer, dedupCalls>>

-----------------------------------------------------------------------------
(* Resolving a pair. *)

Tell(p, choice, got) ==
    answer' = [choice |-> choice, both |-> Live(p[1]) /\ Live(p[2]), got |-> got]

Dismiss(p) ==
    /\ CanResolve(pairRows, p)
    /\ pairRows' = ResolveDuplicate(pairRows, p, "dismissed")
    /\ Tell(p, "dismiss", "ok") /\ UNCHANGED <<copies, scans>>

\* keep_a and keep_b: the other copy goes, and with it the row of the pair.
Keep(p, choice) ==
    LET drop == {IF choice = "keep_b" THEN p[1] ELSE p[2]}
        gone == {c \in drop : Live(c)}
    IN  /\ CanResolve(pairRows, p)
        /\ copies'   = Remove(gone)
        /\ pairRows' = ResolveDuplicate(DropDuplicates(pairRows, gone), p, "deleted")
        /\ scans'    = Touch(scans)
        /\ Tell(p, choice, "ok")

\* mergeFields: the first copy takes what it lacks from the second.
Merged(a, b) == [copies[a] EXCEPT !.look = IF @ = Blank THEN copies[b].look ELSE @]

\* merge and the ResolveDuplicate after it are one transaction: an error undoes both.
Merge(p) ==
    LET rows == DropDuplicates(pairRows, {p[2]})
        ok   == Live(p[1]) /\ Live(p[2]) /\ CanResolve(rows, p)
    IN  /\ CanResolve(pairRows, p)
        /\ copies'   = IF ok THEN [Remove({p[2]}) EXCEPT ![p[1]] = Merged(p[1], p[2])] ELSE copies
        /\ pairRows' = IF ok THEN ResolveDuplicate(rows, p, "merged") ELSE pairRows
        /\ scans'    = IF ok THEN Touch(scans) ELSE scans
        /\ Tell(p, "merge", IF ok THEN "ok" ELSE "not found")

\* The pair's row is gone, or somebody settled it before.
TooLate(p, choice) ==
    /\ ~CanResolve(pairRows, p)
    /\ Tell(p, choice, IF pairRows[p].status = "none" THEN "not found" ELSE "conflict")
    /\ UNCHANGED <<copies, pairRows, scans>>

Resolve(p, choice) ==
    /\ \/ choice = "dismiss" /\ Dismiss(p)
       \/ choice \in {"keep_a", "keep_b"} /\ Keep(p, choice)
       \/ choice = "merge" /\ Merge(p)
       \/ TooLate(p, choice)
    /\ UNCHANGED <<entity, policy, scanQueued>>

\* The page and the API pass the choice on; the row was on the page the user looked at.
resolveDuplicate(p, choice) ==
    /\ pairRows[p].status # "none"
    /\ dedupCalls < MaxDedupCalls /\ dedupCalls' = dedupCalls + 1
    /\ Resolve(p, choice) /\ UNCHANGED batch

WebResolve(p, choice) == choice \in Choices /\ resolveDuplicate(p, choice)

\* dedupResolve takes the list of pending pairs and settles the exact ones, one after another.
Eligible(p) == pairRows[p].reason \in {"uid", "fingerprint"}

ListPending ==
    /\ batch = {} /\ dedupCalls < MaxDedupCalls /\ dedupCalls' = dedupCalls + 1
    /\ batch' = {p \in Pairs : pairRows[p].status = "pending" /\ Eligible(p)}
    /\ UNCHANGED <<entity, copies, pairRows, policy, scanQueued, scans, answer>>

\* choose: the copy Google knows, else the older one.
Choose(p) == IF p[2] \in Linked /\ p[1] \notin Linked THEN "keep_b" ELSE "keep_a"

dedupResolve(p) ==
    /\ p \in batch /\ batch' = batch \ {p}
    /\ Resolve(p, Choose(p)) /\ UNCHANGED dedupCalls

-----------------------------------------------------------------------------
(* What else happens to the copies. *)

UserCall == dedupCalls < MaxDedupCalls /\ dedupCalls' = dedupCalls + 1
                /\ UNCHANGED <<entity, pairRows, scanQueued, batch, answer>>

EditCopy(c, l) ==
    /\ UserCall /\ Live(c) /\ copies' = [copies EXCEPT ![c].look = l]
    /\ scans' = Touch(scans) /\ UNCHANGED policy

DeleteCopy(c) ==
    /\ UserCall /\ Live(c) /\ copies' = [copies EXCEPT ![c].st = "trash"]
    /\ scans' = Touch(scans) /\ UNCHANGED policy

\* Restore, from the trash page or the API: the rows of its pairs do not come back.
RestoreCopy(c) ==
    /\ UserCall /\ ~Live(c) /\ copies' = [copies EXCEPT ![c].st = "live"]
    /\ scans' = Touch(scans) /\ UNCHANGED policy

restoreTrash(c) == RestoreCopy(c)
WebRestore(c)   == RestoreCopy(c)

SetPolicy(p) == UserCall /\ policy' = p /\ UNCHANGED <<copies, scans>>

DedupInit ==
    /\ entity \in {"event", "todo"}
    /\ copies \in [Copies -> [st : {"live"}, look : Looks \cup {Blank}]]
    /\ pairRows = [p \in Pairs |-> NoRow]
    /\ policy \in Policies
    /\ scanQueued = FALSE /\ scans = [s \in Scanners |-> NoScan] /\ batch = {}
    /\ answer = [choice |-> "dismiss", both |-> FALSE, got |-> "none"] /\ dedupCalls = 0

DedupNext ==
    \/ scanDuplicates \/ WebScan \/ HandleSweep
    \/ \E s \in Scanners : HandleScan(s) \/ Apply(s)
    \/ \E s \in Scanners, full \in BOOLEAN : dedupScan(s, full)
    \/ \E p \in Pairs, choice \in Choices : resolveDuplicate(p, choice) \/ WebResolve(p, choice)
    \/ ListPending \/ \E p \in Pairs : dedupResolve(p)
    \/ \E c \in Copies : DeleteCopy(c) \/ restoreTrash(c) \/ WebRestore(c)
    \/ \E c \in Copies, l \in Looks : EditCopy(c, l)
    \/ \E p \in Policies : SetPolicy(p)

DedupSpec == DedupInit /\ [][DedupNext]_dedupVars

-----------------------------------------------------------------------------
(* Why it holds. *)

\* What an undisturbed scan has found is still there.
ScanInv ==
    \A s \in Scanners : scans[s].busy /\ ~scans[s].touched => \A x \in scans[s].found : Live(x[1][1])

DedupInv == DedupTypeOK /\ ScanInv

-----------------------------------------------------------------------------
(* Properties. *)

\* "Both kept. This pair will not be flagged again." (web/maintenance, resolved): while both
\* copies stay, a dismissed pair stays dismissed, also when a scan that began before applies
\* what it found after.
DismissedStood ==
    \A p \in Pairs :
      /\ pairRows[p].status = "dismissed"
      /\ \A c \in {p[1], p[2]} : Live(c) /\ copies'[c].st = "live"
      => pairRows'[p].status = "dismissed"

\* Of every step.
DismissedStands == [][DismissedStood]_dedupVars

\* A scan that nothing disturbed between finding and removing (dedup.go, HandleScan) leaves
\* one live copy of everything it removes: of any copies that the pairs it removes by do not
\* lead out of, one stays if one goes.
OneCopyWasLeft ==
    \A s \in Scanners :
      /\ scans[s].busy /\ ~scans'[s].busy /\ ~scans[s].touched
      => LET auto == {x \in scans[s].found : Auto(x[2], scans[s].under)}
         IN  \A near \in SUBSET Copies :
               /\ \A x \in auto : x[1][1] \in near <=> x[1][2] \in near
               /\ \E c \in near : Live(c) /\ copies'[c].st = "trash"
               => \E d \in near : copies'[d].st = "live"

\* Of every step.
OneCopyLeft == [][OneCopyWasLeft]_dedupVars

\* api/openapi.yaml, resolveDuplicate: "`merge` fills empty fields of the first entry from the
\* second ... and moves the second to the trash": a pending pair of two live entries can be
\* merged.
MergeSucceeds == answer.choice = "merge" /\ answer.both => answer.got = "ok"
=============================================================================
