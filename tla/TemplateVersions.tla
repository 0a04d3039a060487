--------------------------- MODULE TemplateVersions ---------------------------
(***************************************************************************)
(* TemplateService (packages/templates/src/templates.ts): drafts, numbered *)
(* versions, publication and archiving, and the pinning of a version by    *)
(* SigningService.createSession, as concurrent handlers over one database. *)
(*                                                                         *)
(* Every await is a step.  updateDraft checks that the version is a draft  *)
(* and writes it by id alone; publishVersion hashes the schema it has      *)
(* read and freezes whatever row it finds, provided it is still a draft.   *)
(* A schema stands for its own hash: SHA-256 is taken to be injective.     *)
(***************************************************************************)
EXTENDS Naturals

CONSTANTS
    Templates,     \* ids of the templates that may be created
    NoTemplate,    \* the owner of a version that does not exist
    Schemas,       \* document schemas
    ValidSchemas,  \* those validateDocumentSchema accepts
    NoSchema,      \* the empty source hash of a draft
    Slots,         \* handlers that may be in progress
    MaxVersions    \* bound on version rows

ASSUME TemplateAssumption ==
    /\ NoTemplate \notin Templates
    /\ ValidSchemas \subseteq Schemas
    /\ NoSchema \notin Schemas
    /\ MaxVersions \in Nat

VARIABLES
    template,  \* the templates table
    version,   \* the template_versions table
    pinned,    \* versions that a signing session refers to
    req        \* what each slot is doing

templateVars == <<template, version, pinned, req>>

VersionIds == 1 .. MaxVersions
NoVersion == 0

Pcs == {"idle", "check", "number", "insert", "update", "publish_read",
        "publish_write", "publish_point", "pin"}

Idle == [pc |-> "idle", tpl |-> NoTemplate, ver |-> NoVersion,
         schema |-> NoSchema, number |-> 0]

AbsentTemplate == [status |-> "none", current |-> NoVersion]
AbsentVersion == [owner |-> NoTemplate, number |-> 0, schema |-> NoSchema,
                  published |-> FALSE, hash |-> NoSchema]

\* The type invariant of the two tables and of the handlers' locals.
TemplatesTypeOK ==
    /\ template \in [Templates ->
                       [status : {"none", "draft", "published", "archived"},
                        current : VersionIds \cup {NoVersion}]]
    /\ version \in [VersionIds ->
                      [owner : Templates \cup {NoTemplate}, number : Nat,
                       schema : Schemas \cup {NoSchema}, published : BOOLEAN,
                       hash : Schemas \cup {NoSchema}]]
    /\ pinned \subseteq VersionIds
    /\ req \in [Slots -> [pc : Pcs, tpl : Templates \cup {NoTemplate},
                          ver : VersionIds \cup {NoVersion},
                          schema : Schemas \cup {NoSchema}, number : Nat]]

TemplatesInit ==
    /\ template = [t \in Templates |-> AbsentTemplate]
    /\ version = [v \in VersionIds |-> AbsentVersion]
    /\ pinned = {}
    /\ req = [r \in Slots |-> Idle]

Exists(v) == version[v].owner # NoTemplate
VersionsOf(t) == {v \in VersionIds : version[v].owner = t}

At(r, label) == req[r].pc = label
Goto(r, label) == req' = [req EXCEPT ![r].pc = label]
Return(r) == req' = [req EXCEPT ![r] = Idle]

-----------------------------------------------------------------------------
(* create and createDraftVersion.                                          *)

\* create inserts the template and goes on to insert its version 1.
CreateTemplate(r) ==
    /\ At(r, "idle")
    /\ \E t \in Templates, s \in Schemas :
          /\ template[t].status = "none"
          /\ template' = [template EXCEPT ![t].status = "draft"]
          /\ req' = [req EXCEPT ![r] =
                       [Idle EXCEPT !.pc = "check", !.tpl = t, !.schema = s,
                                    !.number = 1]]
    /\ UNCHANGED <<version, pinned>>

\* createDraftVersion for an existing template.
DraftStart(r) ==
    /\ At(r, "idle")
    /\ \E t \in Templates, s \in Schemas :
          /\ template[t].status \in {"draft", "published"}
          /\ req' = [req EXCEPT ![r] =
                       [Idle EXCEPT !.pc = "number", !.tpl = t, !.schema = s]]
    /\ UNCHANGED <<template, version, pinned>>

\* The same check inside create; an archived template makes it throw.
DraftCheck(r) ==
    /\ At(r, "check")
    /\ IF template[req[r].tpl].status = "archived"
       THEN Return(r) ELSE Goto(r, "number")
    /\ UNCHANGED <<template, version, pinned>>

\* n is max(version_number) of t plus one, or 1 without versions.
IsNextNumber(t, n) ==
    /\ n # 0
    /\ \A v \in VersionsOf(t) : version[v].number < n
    /\ n = 1 \/ \E v \in VersionsOf(t) : version[v].number = n - 1

\* The maximum is read; create insists on 1 whatever it is.
DraftNumber(r) ==
    /\ At(r, "number")
    /\ \E n \in 1 .. MaxVersions + 1 :
          /\ IF req[r].number # 0 THEN n = req[r].number
                                  ELSE IsNextNumber(req[r].tpl, n)
          /\ req' = [req EXCEPT ![r].pc = "insert", ![r].number = n]
    /\ UNCHANGED <<template, version, pinned>>

\* Mutant: no unique index on the version number.
NumberNeverTaken(t, n) == n \notin Nat

NumberTaken(t, n) == \E v \in VersionsOf(t) : version[v].number = n

\* INSERT INTO template_versions, under the unique index on the number; ids
\* that were never used are all alike, so the least is taken.
InsertVersion(r) ==
    /\ At(r, "insert")
    /\ ~NumberTaken(req[r].tpl, req[r].number)
    /\ \E v \in VersionIds :
          /\ ~Exists(v)
          /\ \A u \in 1 .. v - 1 : Exists(u)
          /\ version' = [version EXCEPT ![v] =
                           [AbsentVersion EXCEPT !.owner = req[r].tpl,
                                                 !.number = req[r].number,
                                                 !.schema = req[r].schema]]
    /\ Return(r)
    /\ UNCHANGED <<template, pinned>>

\* Another draft took the number: the insert throws.
InsertRefused(r) ==
    /\ At(r, "insert")
    /\ NumberTaken(req[r].tpl, req[r].number)
    /\ Return(r)
    /\ UNCHANGED <<template, version, pinned>>

-----------------------------------------------------------------------------
(* updateDraft.                                                            *)

Editable(v) == Exists(v) /\ ~version[v].published

UpdateRead(r) ==
    /\ At(r, "idle")
    /\ \E v \in VersionIds, s \in Schemas :
          /\ Editable(v)
          /\ req' = [req EXCEPT ![r] = [Idle EXCEPT !.pc = "update", !.ver = v,
                                                    !.schema = s]]
    /\ UNCHANGED <<template, version, pinned>>

\* By id alone: the row may have been published since.
UpdateWrite(r) ==
    /\ At(r, "update")
    /\ version' = [version EXCEPT ![req[r].ver].schema = req[r].schema]
    /\ Return(r)
    /\ UNCHANGED <<template, pinned>>

-----------------------------------------------------------------------------
(* publishVersion.                                                         *)

\* Mutant: an archived template may be published.
PublishCheckAny(r) ==
    /\ At(r, "idle")
    /\ \E t \in Templates :
          /\ template[t].status # "none"
          /\ req' = [req EXCEPT ![r] =
                       [Idle EXCEPT !.pc = "publish_read", !.tpl = t]]
    /\ UNCHANGED <<template, version, pinned>>

\* The template is read: it exists and is not archived.
PublishCheck(r) ==
    /\ At(r, "idle")
    /\ \E t \in Templates :
          /\ template[t].status \in {"draft", "published"}
          /\ req' = [req EXCEPT ![r] =
                       [Idle EXCEPT !.pc = "publish_read", !.tpl = t]]
    /\ UNCHANGED <<template, version, pinned>>

\* A version of that template is read, validated and hashed.
PublishRead(r) ==
    /\ At(r, "publish_read")
    /\ \E v \in VersionsOf(req[r].tpl) :
          /\ version[v].schema \in ValidSchemas
          /\ req' = [req EXCEPT ![r].pc = "publish_write", ![r].ver = v,
                                ![r].schema = version[v].schema]
    /\ UNCHANGED <<template, version, pinned>>

\* Mutant: the source hash is not written.
PublishUnhashed(r) ==
    LET v == req[r].ver
    IN  /\ At(r, "publish_write")
        /\ ~version[v].published
        /\ version' = [version EXCEPT ![v].published = TRUE]
        /\ Goto(r, "publish_point")
        /\ UNCHANGED <<template, pinned>>

\* Frozen, with the hash of the copy, unless somebody published it before.
PublishWrite(r) ==
    LET v == req[r].ver
    IN  /\ At(r, "publish_write")
        /\ ~version[v].published
        /\ version' = [version EXCEPT ![v].published = TRUE,
                                      ![v].hash = req[r].schema]
        /\ Goto(r, "publish_point")
        /\ UNCHANGED <<template, pinned>>

PublishRefused(r) ==
    /\ At(r, "publish_write")
    /\ version[req[r].ver].published
    /\ Return(r)
    /\ UNCHANGED <<template, version, pinned>>

\* The template is pointed at the version, whatever its status is by now.
PublishPoint(r) ==
    /\ At(r, "publish_point")
    /\ template' = [template EXCEPT ![req[r].tpl] =
                      [status |-> "published", current |-> req[r].ver]]
    /\ Return(r)
    /\ UNCHANGED <<version, pinned>>

Archive(t) ==
    /\ template[t].status # "none"
    /\ template' = [template EXCEPT ![t].status = "archived"]
    /\ UNCHANGED <<version, pinned, req>>

-----------------------------------------------------------------------------
(* createSession reads the template and pins its current version.          *)

\* Mutant: the status of the template is not looked at, only its versions.
PinnableDraft(t, v) == v \in VersionsOf(t)

Pinnable(t, v) ==
    /\ template[t].status = "published"
    /\ template[t].current = v
    /\ v # NoVersion

PinRead(r) ==
    /\ At(r, "idle")
    /\ \E t \in Templates, v \in VersionIds :
          /\ Pinnable(t, v)
          /\ req' = [req EXCEPT ![r] = [Idle EXCEPT !.pc = "pin", !.ver = v]]
    /\ UNCHANGED <<template, version, pinned>>

PinInsert(r) ==
    /\ At(r, "pin")
    /\ pinned' = pinned \cup {req[r].ver}
    /\ Return(r)
    /\ UNCHANGED <<template, version>>

\* A handler dies between two steps.
Abort(r) ==
    /\ ~At(r, "idle")
    /\ Return(r)
    /\ UNCHANGED <<template, version, pinned>>

-----------------------------------------------------------------------------

DraftStep(r) ==
    \/ CreateTemplate(r) \/ DraftStart(r) \/ DraftCheck(r) \/ DraftNumber(r)
    \/ InsertVersion(r) \/ InsertRefused(r) \/ UpdateRead(r) \/ UpdateWrite(r)

PublishStep(r) ==
    \/ PublishCheck(r) \/ PublishRead(r) \/ PublishWrite(r)
    \/ PublishRefused(r) \/ PublishPoint(r)

PinStep(r) == PinRead(r) \/ PinInsert(r)

TemplatesNext ==
    \/ \E r \in Slots : DraftStep(r) \/ PublishStep(r) \/ PinStep(r) \/ Abort(r)
    \/ \E t \in Templates : Archive(t)

TemplatesSpec == TemplatesInit /\ [][TemplatesNext]_templateVars

-----------------------------------------------------------------------------
(* Properties.                                                             *)

\* The version a template points at is one of its own and is published, and
\* a published template points at one: publishVersion freezes first and
\* points afterwards.
CurrentIsPublished ==
    \A t \in Templates :
        LET v == template[t].current
        IN  /\ template[t].status = "published" => v # NoVersion
            /\ v # NoVersion => version[v].owner = t /\ version[v].published

\* A signing session refers to a published version with an agreement hash,
\* even when the template was archived or republished under its feet.
SessionsPinPublished ==
    \A v \in pinned : version[v].published /\ version[v].hash # NoSchema

\* Both: whatever refers to a version refers to a published one.
ReferencesArePublished == CurrentIsPublished /\ SessionsPinPublished

\* The versions of a template are numbered 1, 2, ..., n without a gap and
\* without a duplicate, although the maximum may be stale when it is used.
VersionsAreDense ==
    \A t \in Templates :
        /\ \A u, v \in VersionsOf(t) :
              version[u].number = version[v].number => u = v
        /\ \A v \in VersionsOf(t) : \A n \in 1 .. version[v].number :
              \E u \in VersionsOf(t) : version[u].number = n

Editors(v) == {r \in Slots : At(r, "update") /\ req[r].ver = v}

\* A published version never changes again, and nobody starts to edit it,
\* once the edits that were in flight when it was published are over.
KeepsPublished ==
    \A v \in VersionIds :
        version[v].published /\ Editors(v) = {}
            => version'[v] = version[v] /\ Editors(v)' = {}

PublishedIsFrozen == [][KeepsPublished]_templateVars

\* Nobody in flight holds a stale copy of v: editors of a draft, publishers
\* of the schema they have hashed.
AllCurrent(v) ==
    /\ version[v].published => Editors(v) = {}
    /\ \A r \in Slots : At(r, "publish_write") /\ req[r].ver = v
                            => req[r].schema = version[v].schema

Faithful(v) == version[v].published => version[v].hash = version[v].schema

\* The hash of a published version is that of its schema, unless a handler
\* wrote from a stale copy.
HashesMatchUnlessRaced ==
    [][\A v \in VersionIds : AllCurrent(v) /\ Faithful(v) => Faithful(v)']_templateVars

Publishers(t) == {r \in Slots : /\ req[r].tpl = t
                                /\ req[r].pc \in {"publish_read",
                                                  "publish_write",
                                                  "publish_point"}}

\* An archived template stays archived once the publications that were in
\* flight when it was archived are over.
KeepsArchived ==
    \A t \in Templates :
        template[t].status = "archived" /\ Publishers(t) = {}
            => template'[t] = template[t] /\ Publishers(t)' = {}

ArchivedIsFinal == [][KeepsArchived]_templateVars

\* Both: only what was in flight undoes a publication or an archiving.
OnlyRacesUndo == [][KeepsPublished /\ KeepsArchived]_templateVars
=============================================================================
