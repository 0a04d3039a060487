------------------------------ MODULE Migrator ------------------------------
(***************************************************************************)
(* The migration runner (packages/database/src/migrator.ts) over the       *)
(* node:sqlite driver, as the CLI (packages/database/bin/migrate.ts) and   *)
(* the booting server (apps/api/src/node.ts) call it: perhaps both at      *)
(* once, and perhaps killed between a script and its journal row.          *)
(*                                                                         *)
(* A script is one transaction; its journal row is another.  Scripts of    *)
(* the repository create tables, so that none runs twice; what a changed   *)
(* script does to the tables of its former self is left open.              *)
(***************************************************************************)
EXTENDS Naturals

CONSTANTS
    Scripts,     \* names, numbered in their order
    Checksums,   \* of the contents a script may be given
    NoChecksum,  \* no file, no journal row
    Runners      \* processes that may be migrating

ASSUME MigratorAssumption ==
    /\ Scripts \subseteq Nat
    /\ NoChecksum \notin Checksums

VARIABLES
    files,   \* the directory: the content of each script
    ran,     \* per script: the contents whose statements are in the schema
    journal, \* the schema_migrations table
    torn,    \* scripts whose runner died before it could write their row
    runner   \* per process: its files, the journal it read, what it is at

migratorVars == <<files, ran, journal, torn, runner>>

NoFiles == [n \in Scripts |-> NoChecksum]
NoRunner == [pc |-> "idle", files |-> NoFiles, applied |-> NoFiles, left |-> {}]

\* A content, or none, for each script.
Contents == [Scripts -> Checksums \cup {NoChecksum}]

\* The type invariant of the runner.
MigratorTypeOK ==
    /\ files \in Contents
    /\ ran \in [Scripts -> SUBSET Checksums]
    /\ journal \in Contents
    /\ torn \subseteq Scripts
    /\ runner \in [Runners -> [pc : {"idle", "journal", "next", "record", "done"},
                             files : Contents, applied : Contents,
                             left : SUBSET Scripts]]

MigratorInit ==
    /\ files = NoFiles
    /\ ran = [n \in Scripts |-> {}]
    /\ journal = NoFiles
    /\ torn = {}
    /\ runner = [r \in Runners |-> NoRunner]

\* The next script of a runner.
Turn(r, n) == n \in runner[r].left /\ \A m \in runner[r].left : n <= m

Running(r, pc) == runner[r].pc = pc
NoteRunner(r, pc) == runner' = [runner EXCEPT ![r].pc = pc]

\* A script is added or changed, before or after others were applied.
WriteScript(n, c) ==
    /\ files' = [files EXCEPT ![n] = c]
    /\ UNCHANGED <<ran, journal, torn, runner>>

\* The scripts are loaded; an empty directory is refused.
StartRunner(r) ==
    /\ runner[r].pc \in {"idle", "done"}
    /\ files # NoFiles
    /\ runner' = [runner EXCEPT ![r] =
           [pc |-> "journal", files |-> files, applied |-> NoFiles,
            left |-> {n \in Scripts : files[n] # NoChecksum}]]
    /\ UNCHANGED <<files, ran, journal, torn>>

\* The journal is created where it is missing, and read once.
ReadJournal(r) ==
    /\ Running(r, "journal")
    /\ runner' = [runner EXCEPT ![r].pc = "next", ![r].applied = journal]
    /\ UNCHANGED <<files, ran, journal, torn>>

\* Mutant: whatever is in the journal is skipped.
SkipRecorded(r, n) == runner[r].applied[n] # NoChecksum

\* A script of the journal is passed over if it is unchanged.
Skip(r, n) ==
    /\ runner[r].applied[n] # NoChecksum
    /\ runner[r].applied[n] = runner[r].files[n]

PassOver(r, n) ==
    /\ Running(r, "next")
    /\ Turn(r, n)
    /\ Skip(r, n)
    /\ runner' = [runner EXCEPT ![r].left = @ \ {n}]
    /\ UNCHANGED <<files, ran, journal, torn>>

\* The transaction of a script: its own statements stand in its way, those
\* of another content may.
RunScript(r, n) ==
    LET c == runner[r].files[n]
    IN /\ c \notin ran[n]
       /\ ran' = [ran EXCEPT ![n] = @ \cup {c}]

RunBody(r, n) ==
    /\ Running(r, "next")
    /\ Turn(r, n)
    /\ runner[r].applied[n] = NoChecksum
    /\ RunScript(r, n)
    /\ NoteRunner(r, "record")
    /\ UNCHANGED <<files, journal, torn>>

\* The journal row, refused when another runner wrote it first.
RecordScript(r, n) ==
    /\ Running(r, "record")
    /\ Turn(r, n)
    /\ journal[n] = NoChecksum
    /\ journal' = [journal EXCEPT ![n] = runner[r].files[n]]
    /\ runner' = [runner EXCEPT ![r].pc = "next", ![r].left = @ \ {n}]
    /\ UNCHANGED <<files, ran, torn>>

FinishRunner(r) ==
    /\ Running(r, "next")
    /\ runner[r].left = {}
    /\ NoteRunner(r, "done")
    /\ UNCHANGED <<files, ran, journal, torn>>

\* The runner throws (a changed script, a script that fails and is rolled
\* back, a row that is there, a locked database), or it is killed.
StopRunner(r) ==
    /\ runner[r].pc \in {"journal", "next", "record"}
    /\ torn' = torn \cup {n \in Scripts : Running(r, "record") /\ Turn(r, n)}
    /\ runner' = [runner EXCEPT ![r] = NoRunner]
    /\ UNCHANGED <<files, ran, journal>>

MigratorNext ==
    \/ \E n \in Scripts, c \in Checksums : WriteScript(n, c)
    \/ \E r \in Runners, n \in Scripts :
          PassOver(r, n) \/ RunBody(r, n) \/ RecordScript(r, n)
    \/ \E r \in Runners :
          StartRunner(r) \/ ReadJournal(r) \/ FinishRunner(r) \/ StopRunner(r)

MigratorSpec == MigratorInit /\ [][MigratorNext]_migratorVars

-----------------------------------------------------------------------------
(* Properties.                                                             *)

\* A journal row means that this very content was run, and a runner that
\* ended well leaves every script it had loaded, as it had loaded it, in the
\* journal: whoever else was migrating, changing files or being killed.
JournalIsTruthful ==
    /\ \A n \in Scripts : journal[n] # NoChecksum => journal[n] \in ran[n]
    /\ \A r \in Runners : Running(r, "done") =>
          \A n \in Scripts : runner[r].files[n] \in {NoChecksum, journal[n]}

\* Statements without a row are those of a runner about to write it or
\* stopped short of it.  Only the latter is what wedges a database: the
\* script will not run again and no runner passes it over.
UnjournaledIsTorn ==
    \A n \in Scripts : ran[n] # {} /\ journal[n] = NoChecksum =>
        \/ n \in torn
        \/ \E r \in Runners : Running(r, "record") /\ Turn(r, n)

\* Both: the journal says what was run, and what it does not say is known.
MigrationsAreAccounted == JournalIsTruthful /\ UnjournaledIsTorn
=============================================================================
