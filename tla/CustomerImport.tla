--------------------------- MODULE CustomerImport ---------------------------
(***************************************************************************)
(* The CSV import of customers (apps/api/src/routes/imports.ts), next to   *)
(* everything else that writes customers.                                  *)
(*                                                                         *)
(* A file is taken line by line: the line's address is looked up, and then *)
(* a customer is updated or created, two statements.  A dry run only       *)
(* counts.  One import: what another one writes, the routes may write too. *)
(* What created_at says plays no part.                                     *)
(***************************************************************************)
EXTENDS CustomerDirectory, Sequences

CONSTANT ImportFiles  \* the files to import: addresses, line by line

\* A clock always shows something.
ASSUME ImportAssumption ==
    /\ ImportFiles \subseteq Seq(Addresses)
    /\ Moments # {}

VARIABLES
    import,    \* its file, mode, line and report
    forecast   \* history: a dry run's report that nobody has outdated

importVars == <<people, related, walk, import, forecast>>

NoReport == [created |-> 0, updated |-> 0, invalid |-> 0]
Unforeseen == [NoReport EXCEPT !.invalid = 99]

\* promise and calm are history: what a dry run foretold, and whether
\* addresses were left alone since.
NoImport == [pc |-> "idle", file |-> <<>>, commit |-> FALSE, line |-> 1,
             found |-> FALSE, report |-> NoReport, promise |-> Unforeseen, calm |-> TRUE]

ImportInit ==
    /\ DirectoryInit
    /\ import = NoImport
    /\ forecast = [f \in ImportFiles |-> Unforeseen]

SomeMoment == CHOOSE at \in Moments : TRUE
AllOutdated == [f \in ImportFiles |-> Unforeseen]

\* The routes, or another import.
OthersWrite ==
    /\ \E p \in People, a \in Addresses :
          CreateCustomer(p, a, SomeMoment) \/ UpdateCustomer(p, a)
    /\ forecast' = AllOutdated
    /\ import' = [import EXCEPT !.calm = FALSE]

Address == Normalized[import.file[import.line]]
Counted(what) == [import EXCEPT !.line = @ + 1, !.report[what] = @ + 1, !.pc = "line"]

ImportStart(f, commit) ==
    /\ import.pc = "idle"
    /\ import' = [NoImport EXCEPT
           !.pc = "line", !.file = f, !.commit = commit, !.promise = forecast[f]]
    /\ UNCHANGED <<people, related, walk, forecast>>

Held == \E p \in Known : people[p].address = Address

\* Mutant: a dry run counts a line before it looks at the address.
AfterLineDryFirst(held) ==
    IF ~import.commit THEN Counted(IF held THEN "updated" ELSE "created")
    ELSE IF Address = NoAddress THEN Counted("invalid")
    ELSE [import EXCEPT !.pc = "write", !.found = held]

\* A line without an address is skipped; a dry run counts, and a commit is
\* going to write.
AfterLine(held) ==
    IF Address = NoAddress THEN Counted("invalid")
    ELSE IF ~import.commit THEN Counted(IF held THEN "updated" ELSE "created")
    ELSE [import EXCEPT !.pc = "write", !.found = held]

ImportLine ==
    /\ import.pc = "line"
    /\ import.line <= Len(import.file)
    /\ import' = AfterLine(Held)
    /\ UNCHANGED <<people, related, walk, forecast>>

\* The update leaves the address alone.
ImportUpdate ==
    /\ import.pc = "write"
    /\ import.found
    /\ import' = Counted("updated")
    /\ UNCHANGED <<people, related, walk, forecast>>

ImportCreate(p) ==
    /\ import.pc = "write"
    /\ ~import.found
    /\ p \notin Known
    /\ people' = [people EXCEPT ![p] =
           [there |-> TRUE, address |-> Address, at |-> SomeMoment]]
    /\ import' = Counted("created")
    /\ forecast' = AllOutdated
    /\ UNCHANGED <<related, walk>>

\* The report, behind the audit event of a commit.
ImportEnd ==
    /\ import.pc = "line"
    /\ import.line > Len(import.file)
    /\ import' = [import EXCEPT !.pc = "done"]
    /\ forecast' = IF import.commit \/ ~import.calm THEN forecast
                   ELSE [forecast EXCEPT ![import.file] = import.report]
    /\ UNCHANGED <<people, related, walk>>

\* The report has been read, or the handler dies half way.
ImportLeave ==
    /\ import.pc # "idle"
    /\ import' = NoImport
    /\ UNCHANGED <<people, related, walk, forecast>>

ImportNext ==
    \/ OthersWrite
    \/ \E f \in ImportFiles, commit \in BOOLEAN : ImportStart(f, commit)
    \/ ImportLine
    \/ ImportUpdate
    \/ \E p \in People : ImportCreate(p)
    \/ ImportEnd
    \/ ImportLeave

ImportSpec == ImportInit /\ [][ImportNext]_importVars

-----------------------------------------------------------------------------
(* Properties.                                                             *)

DistinctLines(f) ==
    \A i, j \in DOMAIN f : Normalized[f[i]] = Normalized[f[j]] =>
        i = j \/ Normalized[f[i]] = NoAddress

\* A dry run keeps its word: the commit of a file whose addresses differ
\* reports what the dry run reported, unless somebody else created a
\* customer or changed an address since the dry run began.
ForecastIsExact ==
    LET m == import
    IN /\ m.pc = "done" /\ m.commit /\ m.calm
       /\ m.promise # Unforeseen
       /\ DistinctLines(m.file)
       => m.report = m.promise
=============================================================================
