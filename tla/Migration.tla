----------------------------- MODULE Migration -----------------------------
(***************************************************************************)
(* Opening the database (database.mjs): read the schema version, run the    *)
(* migrations above it, prepare the statements the bot needs.  Every SQL    *)
(* statement commits on its own, and the process may die between any two    *)
(* of them and be started again.                                            *)
(***************************************************************************)
EXTENDS Integers, Sequences

CONSTANT MaxCrashes   \* bound: how often the process dies

ASSUME MigrationAssumption == MaxCrashes \in Nat

VARIABLES schema,   \* tables and added columns that exist
          version,  \* settings.schema_version, 0 for no such row
          proc,     \* the process: "down", "migrating", "ready"
          current,  \* currentVersion, read once at the start
          mig,      \* the migration the loop is at
          stmt,     \* its next statement
          crashes   \* how often the process has died

migrationVars == <<schema, version, proc, current, mig, stmt, crashes>>

Create(t) == [op |-> "create", what |-> t]   \* CREATE TABLE IF NOT EXISTS
AddCol(c) == [op |-> "add", what |-> c]      \* ALTER TABLE ADD COLUMN
Record(v) == [op |-> "stamp", what |-> v]    \* the schema_version row

\* Mutant: the version is written before the columns are added.
MigrationsStampFirst ==
    << << Create("messages"), Create("threads"), Create("users"), Create("settings"), Record(1) >>,
       << Record(2), AddCol("username"), AddCol("profile_pic") >> >>

Migrations ==
    << << Create("messages"), Create("threads"), Create("users"), Create("settings"), Record(1) >>,
       << AddCol("username"), AddCol("profile_pic"), Record(2) >> >>

Made(i) == {Migrations[i][k].what : k \in {n \in DOMAIN Migrations[i] : Migrations[i][n].op # "stamp"}}

\* What #prepareStatements compiles against.
Needed == Made(1) \cup Made(2)

\* A fresh file, or a database some version 1 of the bot left behind.
MigrationInit == /\ \/ schema = {} /\ version = 0
                    \/ schema = Made(1) /\ version = 1
                 /\ proc = "down" /\ current = 0 /\ mig = 1 /\ stmt = 1
                 /\ crashes = 0

Start == /\ proc = "down"
         /\ proc' = "migrating" /\ current' = version
         /\ mig' = 1 /\ stmt' = 1
         /\ UNCHANGED <<schema, version, crashes>>

NextMigration == mig' = mig + 1 /\ stmt' = 1

Migrating == proc = "migrating" /\ mig <= Len(Migrations)
Statement == Migrations[mig][stmt]

\* The version is not read again: what counts is the one found at the start.
Skip == /\ Migrating /\ (current >= mig \/ stmt > Len(Migrations[mig]))
        /\ NextMigration
        /\ UNCHANGED <<schema, version, proc, current, crashes>>

Applies == Migrating /\ current < mig /\ stmt <= Len(Migrations[mig])

Execute ==
    /\ Applies
    /\ \/ /\ Statement.op = "create" \/ (Statement.op = "add" /\ Statement.what \notin schema)
          /\ schema' = schema \cup {Statement.what}
          /\ UNCHANGED version
       \/ /\ Statement.op = "stamp"
          /\ version' = Statement.what
          /\ UNCHANGED schema
    /\ stmt' = stmt + 1
    /\ UNCHANGED <<proc, current, mig, crashes>>

DuplicateColumn == Applies /\ Statement.op = "add" /\ Statement.what \in schema

\* Mutant: the error is not recognised and ends the process.
PassOverNever ==
    /\ DuplicateColumn
    /\ proc' = "down"
    /\ UNCHANGED <<schema, version, current, mig, stmt, crashes>>

\* exec() stops at the error, so the rest of the migration does not run either.
PassOver ==
    /\ DuplicateColumn
    /\ NextMigration
    /\ UNCHANGED <<schema, version, proc, current, crashes>>

\* #prepareStatements throws when a column is missing, and nothing catches it.
Prepare ==
    /\ proc = "migrating" /\ mig > Len(Migrations)
    /\ proc' = IF Needed \subseteq schema THEN "ready" ELSE "down"
    /\ UNCHANGED <<schema, version, current, mig, stmt, crashes>>

Crash == /\ proc # "down" /\ crashes < MaxCrashes
         /\ proc' = "down" /\ crashes' = crashes + 1
         /\ UNCHANGED <<schema, version, current, mig, stmt>>

Steps == Start \/ Skip \/ Execute \/ PassOver \/ Prepare

MigrationNext == Steps \/ Crash

MigrationSpec == MigrationInit /\ [][MigrationNext]_migrationVars

\* Whoever runs the bot starts it again; the start itself is synchronous code.
FairSpec == MigrationSpec /\ WF_migrationVars(Steps)
-----------------------------------------------------------------------------
MigrationTypeOK == /\ schema \subseteq Needed
                   /\ version \in 0 .. Len(Migrations)
                   /\ proc \in {"down", "migrating", "ready"}
                   /\ current \in 0 .. Len(Migrations)
                   /\ mig \in 1 .. Len(Migrations) + 1
                   /\ stmt \in 1 .. 6
                   /\ crashes \in 0 .. MaxCrashes

\* The recorded version is earned: whatever crashes there were, a database that
\* claims version i has everything migrations 1 to i make.
VersionIsEarned ==
    \A i \in DOMAIN Migrations : version >= i => Made(i) \subseteq schema

\* Why it is earned: the loop reaches migration 2 only past migration 1, and every
\* statement of the migration it applies is done up to the next one.
DoneSoFar ==
    /\ current <= version
    /\ proc = "migrating" =>
        /\ mig > 1 => version >= 1
        /\ (mig \in DOMAIN Migrations /\ current < mig) =>
               \A k \in DOMAIN Migrations[mig] : k < stmt =>
                   IF Migrations[mig][k].op = "stamp"
                   THEN version >= Migrations[mig][k].what
                   ELSE Migrations[mig][k].what \in schema

MigrationInv == MigrationTypeOK /\ VersionIsEarned /\ DoneSoFar

\* The one crash window that is not survived, between the two columns: the second
\* is missing and no statement is about to add it.
Torn == /\ "username" \in schema /\ "profile_pic" \notin schema
        /\ ~ (proc = "migrating" /\ mig = 2 /\ stmt = 2)

\* Once the crashes are over the bot comes up, a crash anywhere else included,
\* unless one of them hit between the two columns.
ComesUp == <>[](proc = "ready") \/ <>[]Torn
=============================================================================
