------------------------------ MODULE Imports ------------------------------
(***************************************************************************)
(* Import and export (internal/importer, internal/exporter over            *)
(* store/pg/imports.go).  A file is uploaded and previewed; committing it  *)
(* claims the import row, writes the file's entries in one transaction,    *)
(* and saves the outcome, so commits of two tabs, of two imports of one    *)
(* file, the retention job and the death of the server meet between these  *)
(* statements.  An entry that carries a UID updates the entry of that UID. *)
(* A file holds calendars (here one, Events) and lists (one, Todos and the *)
(* subtasks under them); both kinds are numbered from 0.                   *)
(***************************************************************************)
EXTENDS Integers, FiniteSets

CONSTANTS
    ImportIDs,
    Commits,         \* requests that commit
    Events, Todos,   \* entries of the file that carry a UID
    Plain,           \* events without one
    Subtasks,
    Places,          \* "cal" and "list", which exist, and "newcal" and "newlist"
    MaxImportFaults  \* bound: deaths, failed statements, deletions and retentions

\* The places that are there, and those that an import makes.
ImportsAssumption == {"cal", "list", "newcal", "newlist"} \subseteq Places /\ MaxImportFaults \in Nat

Entries == Events \cup Todos \cup Plain \cup Subtasks
Kinds   == {"calendar", "list"}
InFile(kind) == IF kind = "calendar" THEN Events \cup Plain ELSE Todos \cup Subtasks
Unique  == Events \cup Todos

VARIABLES
    held,        \* <<place, entry>> -> live rows of it
    file,        \* the entries the file holds
    imports,     \* imports: id -> [status, payload, targets]
    commits,     \* commit -> where it is
    lists,       \* places that exist
    applied,     \* ghost: id -> times its transaction was committed
    importFaults

importVars == <<held, file, imports, commits, lists, applied, importFaults>>

Statuses == {"none", "previewed", "committing", "done", "failed", "purged"}
Targets  == [Kinds -> {"none", "new", "cal", "list"}]
Import   == [status : Statuses, payload : BOOLEAN, targets : Targets]
Choice   == [target : {"", "new", "cal", "list"}, skip : BOOLEAN]
Request  == [pc : {"new", "claim", "read", "write", "save", "end", "dead"}, id : ImportIDs \cup {0},
             choice : Choice, targets : Targets, seen : SUBSET (Places \X Entries), ok : BOOLEAN]
NoImport == [status |-> "none", payload |-> FALSE, targets |-> [k \in Kinds |-> "new"]]
NoCommit == [pc |-> "new", id |-> 0, choice |-> [target |-> "", skip |-> FALSE],
             targets |-> [k \in Kinds |-> "new"], seen |-> {}, ok |-> TRUE]

ImportsTypeOK ==
    /\ held \in [Places \X Entries -> Nat] /\ file \subseteq Entries
    /\ imports \in [ImportIDs -> Import] /\ commits \in [Commits -> Request]
    /\ lists \subseteq Places /\ applied \in [ImportIDs -> Nat]
    /\ importFaults \in 0..MaxImportFaults

To(c, pc) == commits' = [commits EXCEPT ![c].pc = pc]
Fault     == importFaults < MaxImportFaults /\ importFaults' = importFaults + 1

-----------------------------------------------------------------------------
(* Upload. *)

\* match: the place of the same name, if there is one.
Match(kind) == LET p == IF kind = "calendar" THEN "cal" ELSE "list"
               IN  IF p \in lists THEN p ELSE "new"

\* preview: one target for each calendar and list that has entries.
Preview == [k \in Kinds |-> IF InFile(k) \cap file = {} THEN "none" ELSE Match(k)]

\* Upload: the file is read and previewed, and kept with the preview.
Upload(i) ==
    /\ imports[i].status = "none" /\ file # {}
    /\ imports' = [imports EXCEPT ![i] = [status |-> "previewed", payload |-> TRUE, targets |-> Preview]]
    /\ UNCHANGED <<held, file, commits, lists, applied, importFaults>>

createImport(i) == Upload(i)
WebUpload(i)    == Upload(i)

-----------------------------------------------------------------------------
(* Commit. *)

\* The choices are kept by index, and a calendar and a list share one.
Chosen(targets, choice) ==
    [k \in Kinds |-> IF targets[k] = "none" \/ choice.skip THEN "none"
                     ELSE IF choice.target = "" THEN targets[k] ELSE choice.target]

\* Import, and the checks before the claim.
Load(c, i, choice) ==
    /\ commits[c].pc = "new" /\ imports[i].status # "none"
    /\ IF imports[i].status # "previewed" \/ ~imports[i].payload THEN To(c, "end")
       ELSE commits' = [commits EXCEPT ![c] = [commits[c] EXCEPT !.pc = "claim", !.id = i, !.choice = choice,
                                                 !.targets = Chosen(imports[i].targets, choice)]]
    /\ UNCHANGED <<held, file, imports, lists, applied, importFaults>>

\* The form has one field for an index, and the first of its values counts: the calendar's.
WebCommit(c, i) ==
    \E t \in {imports[i].targets["calendar"], "new"}, skip \in BOOLEAN :
        Load(c, i, [target |-> IF t = "none" THEN "" ELSE t, skip |-> skip])

commitImport(c, i) ==
    \E t \in {"", "new", "cal", "list"}, skip \in BOOLEAN : Load(c, i, [target |-> t, skip |-> skip])

\* Mutant: the claim does not look at the status.
ClaimAny(c) == imports[commits[c].id].status # "purged"

\* claimImportSQL
ClaimImport(c) == imports[commits[c].id].status = "previewed"

Claim(c) ==
    /\ commits[c].pc = "claim"
    /\ IF ClaimImport(c)
       THEN To(c, "read") /\ imports' = [imports EXCEPT ![commits[c].id].status = "committing"]
       ELSE To(c, "end") /\ UNCHANGED imports
    /\ UNCHANGED <<held, file, lists, applied, importFaults>>

\* Where a target's entries go; a new place is made by the transaction.
Place(c, k) ==
    LET t == commits[c].targets[k]
    IN  IF t = "new" THEN (IF k = "calendar" THEN "newcal" ELSE "newlist") ELSE t

\* The foreign keys: the place is there, and of the kind.
Fits(c, k) == LET t == commits[c].targets[k]
              IN  t \in {"none", "new"} \/ (t \in lists /\ t = IF k = "calendar" THEN "cal" ELSE "list")

Writes(c) == {<<Place(c, k), e>> : k \in {k \in Kinds : commits[c].targets[k] # "none"}, e \in file}
Wanted(c) == {x \in Writes(c) : \E k \in Kinds : x[1] = Place(c, k) /\ x[2] \in InFile(k)}

\* EventByUID and TodoByUID: what the transaction finds.
ByUID(c) == {x \in Wanted(c) : x[2] \in Unique /\ held[x] > 0}

ReadUIDs(c) ==
    /\ commits[c].pc = "read"
    /\ commits' = [commits EXCEPT ![c] = [commits[c] EXCEPT !.pc = "write", !.seen = ByUID(c)]]
    /\ UNCHANGED <<held, file, imports, lists, applied, importFaults>>

\* writer.series and writer.todo: found entries are updated, others inserted; subtasks always.
\* A new place is empty: earlier imports made others.
Write(c) ==
    LET new == {x \in Wanted(c) : x[1] \in {"newcal", "newlist"}}
        ins == {x \in Wanted(c) : x \notin commits[c].seen}
    IN  /\ held' = [x \in Places \X Entries |->
                      IF x \in new THEN 1 ELSE IF x \in ins THEN held[x] + 1 ELSE held[x]]
        /\ lists' = lists \cup {x[1] : x \in new}

\* An insert that breaks a unique index or a foreign key ends the transaction, also when
\* skippable goes on: Postgres takes no further statement.
Broken(c) == \/ \E k \in Kinds : ~Fits(c, k)
             \/ \E x \in Wanted(c) \ commits[c].seen :
                  x[2] \in Unique /\ x[1] \in {"cal", "list"} /\ held[x] > 0

\* A row that was found and is gone is not updated: the update fails with it.
Vanished(c) == \E x \in commits[c].seen : held[x] = 0

Ends(c, ok) == commits' = [commits EXCEPT ![c] = [commits[c] EXCEPT !.pc = "save", !.ok = ok]]

ApplyImport(c) ==
    /\ commits[c].pc = "write"
    /\ \/ /\ ~Broken(c) /\ ~Vanished(c)
          /\ Write(c)
          /\ Ends(c, TRUE)
          /\ applied' = [applied EXCEPT ![commits[c].id] = @ + 1]
          /\ UNCHANGED importFaults
       \/ /\ \/ (Broken(c) \/ Vanished(c)) /\ UNCHANGED importFaults
             \/ ~Broken(c) /\ ~Vanished(c) /\ Fault    \* a value the tables do not take
          /\ Ends(c, FALSE)
          /\ UNCHANGED <<held, lists, applied>>
    /\ UNCHANGED <<file, imports>>

\* SaveImport writes the row as it was loaded, without the file.
SaveImport(c) ==
    LET i == commits[c].id
    IN  /\ commits[c].pc = "save" /\ To(c, "end")
        /\ imports' = IF imports[i].status = "purged" THEN imports
                      ELSE [imports EXCEPT ![i] = [imports[i] EXCEPT !.payload = FALSE,
                                                     !.status = IF commits[c].ok THEN "done" ELSE "failed"]]
        /\ UNCHANGED <<held, file, lists, applied, importFaults>>

Die(c) ==
    /\ commits[c].pc \in {"read", "write", "save"} /\ Fault /\ To(c, "dead")
    /\ UNCHANGED <<held, file, imports, lists, applied>>

-----------------------------------------------------------------------------

\* Calendars, Lists and YAML: the file becomes an export of what is held.
YAML ==
    /\ file' = {e \in Entries : \E p \in {"cal", "list"} : held[<<p, e>>] > 0}
    /\ UNCHANGED <<held, imports, commits, lists, applied, importFaults>>

\* ICS and CSV hold the calendars only.
ICS ==
    /\ file' = {e \in Events \cup Plain : held[<<"cal", e>>] > 0}
    /\ UNCHANGED <<held, imports, commits, lists, applied, importFaults>>

\* Purge: the row goes whatever its status.
PurgeImport(i) ==
    /\ imports[i].status \notin {"none", "purged"} /\ Fault
    /\ imports' = [imports EXCEPT ![i] = [NoImport EXCEPT !.status = "purged"]]
    /\ UNCHANGED <<held, file, commits, lists, applied>>

\* The user deletes a calendar or a list that was a target.
DeletePlace(p) ==
    /\ p \in lists /\ Fault
    /\ lists' = lists \ {p} /\ held' = [x \in Places \X Entries |-> IF x[1] = p THEN 0 ELSE held[x]]
    /\ UNCHANGED <<file, imports, commits, applied>>

ImportsInit ==
    /\ held = [x \in Places \X Entries |-> 0]
    /\ file \in {Events \cup Todos \cup Subtasks, Events \cup Plain}
    /\ imports = [i \in ImportIDs |-> NoImport] /\ commits = [c \in Commits |-> NoCommit]
    /\ lists = {"cal", "list"} /\ applied = [i \in ImportIDs |-> 0] /\ importFaults = 0

ImportsNext ==
    \/ \E i \in ImportIDs : createImport(i) \/ WebUpload(i) \/ PurgeImport(i)
    \/ \E c \in Commits, i \in ImportIDs : commits[c].pc = "new" /\ (WebCommit(c, i) \/ commitImport(c, i))
    \/ \E c \in Commits : Claim(c) \/ ReadUIDs(c) \/ ApplyImport(c) \/ SaveImport(c) \/ Die(c)
    \/ YAML \/ ICS \/ \E p \in {"cal", "list"} : DeletePlace(p)

ImportsSpec == ImportsInit /\ [][ImportsNext]_importVars

-----------------------------------------------------------------------------
(* Why it holds. *)

\* A request that has claimed an import is the only one, and the import stays claimed, or is
\* purged; what was written is what the request has written.
Claimed(c) == commits[c].pc \in {"read", "write", "save"}
CommitInv ==
    \A c \in Commits :
      /\ commits[c].pc = "claim" \/ Claimed(c) => commits[c].id \in ImportIDs
      /\ Claimed(c) =>
           /\ imports[commits[c].id].status \in {"committing", "purged"}
           /\ \A b \in Commits : Claimed(b) /\ commits[b].id = commits[c].id => b = c
           /\ applied[commits[c].id] = IF commits[c].pc = "save" /\ commits[c].ok THEN 1 ELSE 0

\* What nobody has claimed was not written.
ImportInv == \A i \in ImportIDs : imports[i].status \in {"none", "previewed"} => applied[i] = 0

-----------------------------------------------------------------------------
(* Properties. *)

\* "An import can only be committed once." (api/openapi.yaml, commitImport): whatever requests,
\* crashes and retention do, a file is written at most once for an upload, the import that says
\* done wrote it and the one that says failed did not; and "entries that match an existing one
\* by UID are updated": a calendar or list never holds two entries of one UID.
ImportIsExact ==
    /\ \A i \in ImportIDs : /\ applied[i] <= 1
                            /\ imports[i].status = "done" => applied[i] = 1
                            /\ imports[i].status = "failed" => applied[i] = 0
    /\ \A p \in Places, e \in Unique : held[<<p, e>>] <= 1

ImportsInv == ImportsTypeOK /\ CommitInv /\ ImportInv /\ ImportIsExact
=============================================================================
