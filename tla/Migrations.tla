----------------------------- MODULE Migrations -----------------------------
(***************************************************************************)
(* The schema of the database (db/migrate.go, cmd/calendar/migrate.go and  *)
(* the start of the server in app/app.go).  Commands and starting servers  *)
(* move it with golang-migrate (external), which takes an advisory lock,   *)
(* and for each migration marks the version row dirty, runs the SQL and    *)
(* clears the mark.  Servers of an older build, which know fewer           *)
(* migrations, may still run.  Any of them may die between two statements. *)
(***************************************************************************)
EXTENDS Integers

CONSTANTS
    Migrators,      \* commands and starting servers
    Latest,         \* migrator -> the last migration its build holds
    Newest,         \* the largest of them
    MaxCommands     \* bound: commands and deaths

Versions == 0..Newest

\* What the constants must satisfy: a build holds migrations, and the lock can tell a migrator
\* from nobody.
MigrationsAssumption ==
    /\ Newest \in Nat /\ Latest \in [Migrators -> Versions]
    /\ "nobody" \notin Migrators /\ MaxCommands \in Nat

VARIABLES
    schema,     \* what the tables look like
    version,    \* schema_migrations: [v, dirty]; v = 0 without a row
    holder,     \* who has the advisory lock, or none
    migs,       \* migrator -> what it is doing
    forced,     \* ghost: a forced version that was not the schema's
    commands

migVars == <<schema, version, holder, migs, forced, commands>>

NoOne == [is |-> "nobody"]
Idle  == [pc |-> "idle", serve |-> FALSE, verb |-> "up", n |-> 0, goal |-> 0]

MigrationsTypeOK ==
    /\ schema \in Versions /\ version \in [v : Versions, dirty : BOOLEAN]
    /\ forced \in BOOLEAN /\ commands \in 0..MaxCommands
    /\ migs \in [Migrators -> [pc : {"idle", "asked", "held", "marked", "ran", "check", "up"},
                               serve : BOOLEAN, verb : {"up", "down", "goto"},
                               n : Nat, goal : Versions]]
    /\ \A m \in Migrators :
         /\ migs[m].pc \in {"held", "marked", "ran"} => holder = [is |-> m]
         /\ migs[m].verb = "goto" => migs[m].n \in Versions

Command == commands < MaxCommands /\ commands' = commands + 1
With(m, r) == migs' = [migs EXCEPT ![m] = r]

-----------------------------------------------------------------------------
(* Commands. *)

\* ensureClean, of the state read at the start.
ensureClean == ~version.dirty

Ask(m, r) ==
    /\ migs[m].pc = "idle" /\ Command
    /\ With(m, [r EXCEPT !.pc = "asked"])
    /\ UNCHANGED <<schema, version, holder, forced>>

\* n = 0: all of them
migrateUp(m, n)   == ensureClean /\ Ask(m, [Idle EXCEPT !.verb = "up", !.n = n])
migrateDown(m, n) == ensureClean /\ version.v # 0 /\ Ask(m, [Idle EXCEPT !.verb = "down", !.n = n])
migrateGoto(m, v) == ensureClean /\ v <= Latest[m] /\ v # version.v /\ Ask(m, [Idle EXCEPT !.verb = "goto", !.n = v])

\* MigrateForce: under the lock, the row and nothing else.
migrateForce(m, v) ==
    /\ migs[m].pc = "idle" /\ holder = NoOne /\ v <= Latest[m] /\ Command
    /\ version' = [v |-> v, dirty |-> FALSE]
    /\ forced' = (forced \/ v # schema)
    /\ UNCHANGED <<schema, holder, migs>>

\* New, of a server that migrates first, and of one that does not.
New(m, migrate) ==
    /\ migs[m].pc = "idle" /\ Command
    /\ With(m, [Idle EXCEPT !.pc = IF migrate THEN "asked" ELSE "check", !.serve = TRUE])
    /\ UNCHANGED <<schema, version, holder, forced>>

-----------------------------------------------------------------------------
(* golang-migrate. *)

Least(a, b) == IF a < b THEN a ELSE b

MigrateUp(m)   == IF migs[m].n = 0 THEN Latest[m] ELSE Least(version.v + migs[m].n, Latest[m])
MigrateDown(m) == IF migs[m].n = 0 THEN 0 ELSE version.v - Least(migs[m].n, version.v)
MigrateGoto(m) == migs[m].n

Goal(m) == IF migs[m].verb = "up" THEN MigrateUp(m)
           ELSE IF migs[m].verb = "down" THEN MigrateDown(m) ELSE MigrateGoto(m)

Leave(m, ok) == [migs[m] EXCEPT !.pc = IF ok /\ migs[m].serve THEN "check" ELSE "idle"]

\* Lock; a dirty row, or one the build does not know, is refused.
Lock(m) ==
    /\ migs[m].pc = "asked" /\ holder = NoOne
    /\ IF version.dirty \/ version.v > Latest[m] THEN With(m, Leave(m, FALSE)) /\ UNCHANGED holder
       ELSE holder' = [is |-> m] /\ With(m, [migs[m] EXCEPT !.pc = "held", !.goal = Goal(m)])
    /\ UNCHANGED <<schema, version, forced, commands>>

Step(m) == IF migs[m].goal > version.v THEN version.v + 1 ELSE version.v - 1

\* SetVersion(dirty)
Mark(m) ==
    /\ migs[m].pc = "held" /\ migs[m].goal # version.v
    /\ version' = [v |-> Step(m), dirty |-> TRUE]
    /\ With(m, [migs[m] EXCEPT !.pc = "marked"])
    /\ UNCHANGED <<schema, holder, forced, commands>>

\* The SQL, one transaction; it fails and leaves the row dirty, or the tables change.
RunSQL(m, works) ==
    /\ migs[m].pc = "marked"
    /\ IF works
       THEN schema' = version.v /\ With(m, [migs[m] EXCEPT !.pc = "ran"]) /\ UNCHANGED <<holder, commands>>
       ELSE Command /\ With(m, Leave(m, FALSE)) /\ holder' = NoOne /\ UNCHANGED schema
    /\ UNCHANGED <<version, forced>>

Clear(m) ==
    /\ migs[m].pc = "ran"
    /\ version' = [version EXCEPT !.dirty = FALSE]
    /\ With(m, [migs[m] EXCEPT !.pc = "held"])
    /\ UNCHANGED <<schema, holder, forced, commands>>

\* withMigrator: the end, or the stop a cancelled context asks for, which is an error.
Unlock(m) ==
    /\ migs[m].pc = "held"
    /\ With(m, Leave(m, migs[m].goal = version.v)) /\ holder' = NoOne
    /\ UNCHANGED <<schema, version, forced, commands>>

-----------------------------------------------------------------------------
(* Servers. *)

\* Mutant: the version alone decides.
VersionOnly(m) == version.v = Latest[m]

\* CheckSchema
CheckSchema(m) == ~version.dirty /\ version.v = Latest[m]

Start(m) ==
    /\ migs[m].pc = "check"
    /\ With(m, IF CheckSchema(m) THEN [migs[m] EXCEPT !.pc = "up"] ELSE Idle)
    /\ UNCHANGED <<schema, version, holder, forced, commands>>

\* A migrator dies, its session and its lock with it.
Dies(m) ==
    /\ migs[m].pc # "idle" /\ Command
    /\ With(m, Idle) /\ holder' = IF holder = [is |-> m] THEN NoOne ELSE holder
    /\ UNCHANGED <<schema, version, forced>>

MigrationsInit ==
    /\ schema = 0 /\ version = [v |-> 0, dirty |-> FALSE] /\ holder = NoOne
    /\ migs = [m \in Migrators |-> Idle] /\ forced = FALSE /\ commands = 0

MigrationsNext ==
    \E m \in Migrators :
      \/ \E n \in 0..1 : migrateUp(m, n) \/ migrateDown(m, n)
      \/ \E v \in Versions : migrateGoto(m, v) \/ migrateForce(m, v)
      \/ \E migrate \in BOOLEAN : New(m, migrate)
      \/ \E works \in BOOLEAN : RunSQL(m, works)
      \/ Lock(m) \/ Mark(m) \/ Clear(m) \/ Unlock(m) \/ Start(m) \/ Dies(m)

MigrationsSpec == MigrationsInit /\ [][MigrationsNext]_migVars

-----------------------------------------------------------------------------
(* Properties. *)

\* A server starts only on the schema its build was made for (app/app.go, New; db/migrate.go,
\* CheckSchema), whichever commands and servers migrate at the same time, fail or die between
\* the mark, the SQL and its end; unless somebody forced a version that was not the schema's.
StartedOnItsSchema ==
    \A m \in Migrators : migs[m].pc # "up" /\ migs'[m].pc = "up" /\ ~forced => schema = Latest[m]

\* Of every step.
StartsOnItsSchema == [][StartedOnItsSchema]_migVars

-----------------------------------------------------------------------------
(* Why it holds: the inductive invariant. *)

\* The row says what the tables look like, unless a migration is under way or failed, or
\* somebody forced a version.
RowInv == ~version.dirty /\ ~forced => schema = version.v

\* From its mark to its end a migration has the row dirty, and the lock.
MarkInv ==
    \A m \in Migrators :
        /\ migs[m].pc \in {"marked", "ran"} => version.dirty
        /\ migs[m].pc = "ran" /\ ~forced => schema = version.v

SchemaInv == MigrationsTypeOK /\ RowInv /\ MarkInv
=============================================================================
