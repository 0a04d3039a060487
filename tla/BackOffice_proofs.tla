-------------------------- MODULE BackOffice_proofs --------------------------
(***************************************************************************)
(* Proofs about BackOffice: every service in it runs as its own module     *)
(* says, so what is proved of the services one by one holds of the         *)
(* specification that composes them.  The services share no variable, but  *)
(* for the customers that the directory and the import both write.         *)
(***************************************************************************)
EXTENDS BackOffice, TemplateVersions_proofs, AuditChain_proofs, Services_proofs

-----------------------------------------------------------------------------
(* Each service runs as its own module says.                               *)

\* A step of the office is a step of the service that is followed.
LEMMA OfficeStep ==
    ASSUME BackOfficeNext
    PROVE  /\ OthersRest
           /\ part = "templates" => TemplatesNext
           /\ part = "audit" => AuditNext
           /\ part = "form" => FormNext
           /\ part = "billing" => BillingNext
           /\ part = "accounts" => AccountsNext
           /\ part = "migrator" => MigratorNext
           /\ part = "access" => AccessNext
           /\ part = "card" => CardNext
           /\ part = "desk" => DeskNext
           /\ part = "directory" => DirectoryNext
           /\ part = "import" => ImportNext
BY Zenon DEF BackOfficeNext

\* TemplateService, AuditService and the signer's form.
LEMMA PaperworkRuns == BackOfficeSpec => TemplatesSpec /\ AuditSpec /\ FormSpec
<1>1. BackOfficeInit => TemplatesInit /\ AuditInit /\ FormInit
  BY DEF BackOfficeInit
<1>2. [BackOfficeNext]_backOfficeVars
        => /\ [TemplatesNext]_templateVars
           /\ [AuditNext]_auditVars
           /\ [FormNext]_formVars
  <2>1. CASE BackOfficeNext
    BY <2>1, OfficeStep DEF OthersRest
  <2>2. CASE UNCHANGED backOfficeVars
    BY <2>2 DEF backOfficeVars
  <2> QED
    BY <2>1, <2>2
<1> QED
  BY <1>1, <1>2, PTL DEF BackOfficeSpec, TemplatesSpec, AuditSpec, FormSpec

\* Billing, sign-up and the migrator.
LEMMA AccountingRuns == BackOfficeSpec => BillingSpec /\ AccountsSpec /\ MigratorSpec
<1>1. BackOfficeInit => BillingInit /\ AccountsInit /\ MigratorInit
  BY DEF BackOfficeInit
<1>2. [BackOfficeNext]_backOfficeVars
        => /\ [BillingNext]_billingVars
           /\ [AccountsNext]_accountVars
           /\ [MigratorNext]_migratorVars
  <2>1. CASE BackOfficeNext
    BY <2>1, OfficeStep DEF OthersRest
  <2>2. CASE UNCHANGED backOfficeVars
    BY <2>2 DEF backOfficeVars
  <2> QED
    BY <2>1, <2>2
<1> QED
  BY <1>1, <1>2, PTL DEF BackOfficeSpec, BillingSpec, AccountsSpec, MigratorSpec

\* The archive, the status card and the front desk.
LEMMA CounterRuns == BackOfficeSpec => AccessSpec /\ CardSpec /\ DeskSpec
<1>1. BackOfficeInit => AccessInit /\ CardInit /\ DeskInit
  BY DEF BackOfficeInit
<1>2. [BackOfficeNext]_backOfficeVars
        => /\ [AccessNext]_accessVars
           /\ [CardNext]_cardVars
           /\ [DeskNext]_deskVars
  <2>1. CASE BackOfficeNext
    BY <2>1, OfficeStep DEF OthersRest
  <2>2. CASE UNCHANGED backOfficeVars
    BY <2>2 DEF backOfficeVars
  <2> QED
    BY <2>1, <2>2
<1> QED
  BY <1>1, <1>2, PTL DEF BackOfficeSpec, AccessSpec, CardSpec, DeskSpec

-----------------------------------------------------------------------------
(* The import works on the customers of the directory.                     *)
(*                                                                         *)
(* What it writes is what the directory's own routes may write, and while  *)
(* those are followed there is neither an import nor a forecast.           *)

ImportRests ==
    /\ people \in [People -> Customers]
    /\ import = NoImport
    /\ forecast = AllOutdated

LEMMA RestFulfils == ImportRests => ImportInv
<1> SUFFICES ASSUME ImportRests
             PROVE  ImportInv
  OBVIOUS
<1>1. ImportTyped
  BY NoReportTyped DEF ImportRests, ImportTyped, ImportState, NoImport, AllOutdated
<1>2. AtLine /\ DryRunCounts /\ CommitCounts
  BY DEF ImportRests, AtLine, DryRunCounts, CommitCounts, NoImport
<1>3. ForecastStands
  BY DEF ImportRests, ForecastStands, AllOutdated
<1> QED
  BY <1>1, <1>2, <1>3 DEF ImportInv

\* The directory writes customers.
LEMMA RoutesWriteCustomers ==
    ASSUME people \in [People -> Customers], [DirectoryNext]_directoryVars
    PROVE  people' \in [People -> Customers]
<1>1. ASSUME NEW p \in People, NEW a \in Addresses, NEW at \in Moments,
             CreateCustomer(p, a, at)
      PROVE  people' \in [People -> Customers]
  <2>1. [there |-> TRUE, address |-> Normalized[a], at |-> at] \in Customers
    BY DEF Customers, Recipients
  <2> QED
    BY <1>1, <2>1 DEF CreateCustomer
<1>2. ASSUME NEW p \in People, NEW a \in Addresses, UpdateCustomer(p, a)
      PROVE  people' \in [People -> Customers]
  <2>1. [people[p] EXCEPT !.address = Normalized[a]] \in Customers
    BY DEF Customers, Recipients
  <2> QED
    BY <1>2, <2>1 DEF UpdateCustomer
<1>3. ASSUME NEW r \in Relatable, Relate(r[1], r[2]) \/ Unrelate(r[1], r[2])
      PROVE  people' = people
  BY <1>3 DEF Relate, Unrelate
<1>4. WalkPage \/ LeaveWalk \/ UNCHANGED directoryVars => people' = people
  BY DEF WalkPage, LeaveWalk, directoryVars
<1> QED
  BY <1>1, <1>2, <1>3, <1>4 DEF DirectoryNext

\* An import creates and changes customers as the routes do.
LEMMA ImportIsDirectory ==
    ASSUME ImportInv, ImportNext
    PROVE  [DirectoryNext]_directoryVars
<1>1. SomeMoment \in Moments
  BY ImportAssumption DEF SomeMoment
<1>2. CASE OthersWrite
  BY <1>1, <1>2 DEF OthersWrite, DirectoryNext
<1>3. ASSUME NEW p \in People, ImportCreate(p)
      PROVE  DirectoryNext
  <2>1. import.file[import.line] \in Addresses
    BY <1>3 DEF ImportInv, ImportTyped, ImportState, AtLine, ImportCreate
  <2>2. CreateCustomer(p, import.file[import.line], SomeMoment)
    BY <1>3 DEF ImportCreate, CreateCustomer, Address
  <2> QED
    BY <1>1, <2>1, <2>2 DEF DirectoryNext
<1>4. ASSUME \/ \E f \in ImportFiles, commit \in BOOLEAN : ImportStart(f, commit)
             \/ ImportLine \/ ImportUpdate \/ ImportEnd \/ ImportLeave
      PROVE  UNCHANGED directoryVars
  BY <1>4 DEF ImportStart, ImportLine, ImportUpdate, ImportEnd, ImportLeave, directoryVars
<1> QED
  BY <1>2, <1>3, <1>4 DEF ImportNext

OfficeImportInv == ImportInv /\ (part # "import" => ImportRests)

LEMMA OfficeImportHolds == BackOfficeSpec => []OfficeImportInv
<1>1. BackOfficeInit => OfficeImportInv
  <2> SUFFICES ASSUME BackOfficeInit
               PROVE  OfficeImportInv
    OBVIOUS
  <2>1. ImportInit
    BY DEF BackOfficeInit
  <2>2. ImportInv
    BY <2>1, ImportStarts
  <2>3. import = NoImport /\ forecast = AllOutdated
    BY <2>1 DEF ImportInit, AllOutdated
  <2> QED
    BY <2>2, <2>3 DEF OfficeImportInv, ImportRests, ImportInv, ImportTyped
<1>2. OfficeImportInv /\ [BackOfficeNext]_backOfficeVars => OfficeImportInv'
  <2> SUFFICES ASSUME OfficeImportInv, [BackOfficeNext]_backOfficeVars
               PROVE  OfficeImportInv'
    OBVIOUS
  <2>1. ImportInv /\ part' = part
    BY OfficeStep DEF OfficeImportInv, OthersRest, backOfficeVars
  <2>2. CASE part = "import"
    <3>1. [ImportNext]_importVars
      BY <2>2, OfficeStep DEF backOfficeVars
    <3> QED
      BY <2>1, <2>2, <3>1, ImportStep DEF OfficeImportInv
  <2>3. CASE part # "import"
    <3>1. ImportRests
      BY <2>3 DEF OfficeImportInv
    <3>2. import' = import /\ forecast' = forecast /\ [DirectoryNext]_directoryVars
      <4>1. CASE BackOfficeNext
        <5>1. OthersRest /\ (part = "directory" => DirectoryNext)
          BY <4>1, OfficeStep
        <5>2. UNCHANGED <<import, forecast>>
          BY <2>3, <5>1 DEF OthersRest
        <5>3. part # "directory" => UNCHANGED directoryVars
          BY <2>3, <5>1 DEF OthersRest
        <5> QED
          BY <5>1, <5>2, <5>3
      <4>2. CASE UNCHANGED backOfficeVars
        BY <4>2 DEF backOfficeVars, importVars, directoryVars
      <4> QED
        BY <4>1, <4>2
    <3>3. people' \in [People -> Customers]
      BY <3>1, <3>2, RoutesWriteCustomers DEF ImportRests
    <3>4. ImportRests'
      BY <3>1, <3>2, <3>3 DEF ImportRests, AllOutdated, NoImport
    <3>5. ImportInv'
      BY <3>4, RestFulfils, PTL
    <3> QED
      BY <3>4, <3>5 DEF OfficeImportInv
  <2> QED
    BY <2>2, <2>3
<1> QED
  BY <1>1, <1>2, PTL DEF BackOfficeSpec

LEMMA DirectoryRuns == BackOfficeSpec => DirectorySpec
<1>1. BackOfficeInit => DirectoryInit
  BY DEF BackOfficeInit, ImportInit
<1>2. OfficeImportInv /\ [BackOfficeNext]_backOfficeVars => [DirectoryNext]_directoryVars
  <2> SUFFICES ASSUME ImportInv, [BackOfficeNext]_backOfficeVars
               PROVE  [DirectoryNext]_directoryVars
    BY DEF OfficeImportInv
  <2>1. CASE BackOfficeNext /\ part = "import"
    BY <2>1, OfficeStep, ImportIsDirectory
  <2>2. CASE BackOfficeNext /\ part # "import"
    BY <2>2, OfficeStep DEF OthersRest
  <2>3. CASE UNCHANGED backOfficeVars
    BY <2>3 DEF backOfficeVars, importVars, directoryVars
  <2> QED
    BY <2>1, <2>2, <2>3
<1> QED
  BY <1>1, <1>2, OfficeImportHolds, PTL DEF BackOfficeSpec, DirectorySpec

-----------------------------------------------------------------------------
(* What holds of each service holds of the office.                         *)

\* The paperwork: versions, the audit chain and its verifier, the form.
PaperworkIsRight ==
    /\ ReferencesArePublished
    /\ VersionsAreDense
    /\ ChainHangsTogether
    /\ VerdictIsJust
    /\ AcceptedIsComplete
    /\ PlainFormsCanBeSubmitted

\* The books: entitlements, accounts and the journal of migrations.
BooksAreRight ==
    /\ EntitlementsAreEarned
    /\ WelcomedCanLogIn
    /\ ShellsStayEmpty
    /\ MigrationsAreAccounted

\* The counter: documents, status cards, visits and the customers' pages.
CounterIsRight ==
    /\ DownloadsAreLogged
    /\ TrailsAndPagesAreTrue
    /\ CardsCanBeTrusted
    /\ DeskAnswersHold
    /\ PagesAreExact

\* What a dry run foretells is exact in the office too, where the routes of
\* customers.ts and the import work on the same customers.
THEOREM OfficeForecasts == BackOfficeSpec => []ForecastIsExact
<1>1. OfficeImportInv => ForecastIsExact
  BY ForecastFollows DEF OfficeImportInv
<1> QED
  BY <1>1, OfficeImportHolds, PTL

\* The invariants of all services hold of the specification that composes
\* them, for every value of the constants: the one the instances are checked
\* with.
THEOREM OfficeIsRight ==
    BackOfficeSpec => [](PaperworkIsRight /\ BooksAreRight /\ CounterIsRight)
<1>1. BackOfficeSpec => []PaperworkIsRight
  BY PaperworkRuns, ReferencesPublished, NumbersDense, ChainsHang, VerdictsAreJust,
     AcceptedComplete, PlainFormsSubmit, PTL DEF PaperworkIsRight
<1>2. BackOfficeSpec => []BooksAreRight
  BY AccountingRuns, EntitlementsEarned, WelcomedLogIn, ShellsEmpty, MigrationsAccounted,
     PTL DEF BooksAreRight
<1>3. BackOfficeSpec => []CounterIsRight
  BY CounterRuns, DirectoryRuns, DownloadsLogged, TrailsTrue, CardsTrusted, DeskHonest,
     PagesExact, PTL DEF CounterIsRight
<1> QED
  BY <1>1, <1>2, <1>3, PTL

\* So do their action properties: hashes part, publications are undone, chains
\* fork and sales have two rows only where handlers overlap.
THEOREM OnlyRacesHarm ==
    BackOfficeSpec => /\ HashesMatchUnlessRaced
                      /\ OnlyRacesUndo
                      /\ ForksNeedStaleHeads
                      /\ TwinRowsNeedOverlap
BY PaperworkRuns, AccountingRuns, HashesPartByRacesOnly, RacesUndo, OnlyStaleHeadsFork,
   TwinsNeedOverlap, PTL
=============================================================================
