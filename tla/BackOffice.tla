----------------------------- MODULE BackOffice -----------------------------
(***************************************************************************)
(* The services around the signing of documents, in one specification.     *)
(* Each of their modules brings what it needs of its neighbours with it,   *)
(* as steps of its own: documents are filed and voided, versions           *)
(* published, customers edited.  No two of them share a variable, except   *)
(* that the import works on the directory's customers.  A state of all of  *)
(* them is therefore one state of each, and a behaviour of this module     *)
(* follows one service from start to end while the others rest.            *)
(***************************************************************************)
EXTENDS TemplateVersions, AuditVerify, SignerForm, Entitlements, Accounts,
        Migrator, DocumentAccess, StatusCard, CheckIns, CustomerImport

VARIABLE part  \* the service that is followed

Parts == {"templates", "audit", "form", "billing", "accounts", "migrator",
          "access", "card", "desk", "directory", "import"}

backOfficeVars ==
    <<part, templateVars, auditVars, formVars, billingVars, accountVars,
      migratorVars, accessVars, cardVars, deskVars, importVars>>

AnyForm == CHOOSE f \in Forms : TRUE

BackOfficeInit ==
    /\ part \in Parts
    /\ TemplatesInit
    /\ AuditInit
    /\ IF part = "form" THEN FormInit ELSE FormInit /\ form = AnyForm
    /\ BillingInit
    /\ AccountsInit
    /\ MigratorInit
    /\ AccessInit
    /\ CardInit
    /\ DeskInit
    /\ ImportInit

\* Whatever is not followed rests.
OthersRest ==
    /\ part' = part
    /\ part # "templates" => UNCHANGED templateVars
    /\ part # "audit" => UNCHANGED auditVars
    /\ part # "form" => UNCHANGED formVars
    /\ part # "billing" => UNCHANGED billingVars
    /\ part # "accounts" => UNCHANGED accountVars
    /\ part # "migrator" => UNCHANGED migratorVars
    /\ part # "access" => UNCHANGED accessVars
    /\ part # "card" => UNCHANGED cardVars
    /\ part # "desk" => UNCHANGED deskVars
    /\ part # "import" => UNCHANGED <<import, forecast>>
    /\ part \notin {"directory", "import"} => UNCHANGED directoryVars

BackOfficeNext ==
    \/ part = "templates" /\ TemplatesNext /\ OthersRest
    \/ part = "audit" /\ AuditNext /\ OthersRest
    \/ part = "form" /\ FormNext /\ OthersRest
    \/ part = "billing" /\ BillingNext /\ OthersRest
    \/ part = "accounts" /\ AccountsNext /\ OthersRest
    \/ part = "migrator" /\ MigratorNext /\ OthersRest
    \/ part = "access" /\ AccessNext /\ OthersRest
    \/ part = "card" /\ CardNext /\ OthersRest
    \/ part = "desk" /\ DeskNext /\ OthersRest
    \/ part = "directory" /\ DirectoryNext /\ OthersRest
    \/ part = "import" /\ ImportNext /\ OthersRest

BackOfficeSpec == BackOfficeInit /\ [][BackOfficeNext]_backOfficeVars
=============================================================================
