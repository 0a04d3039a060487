----------------------- MODULE TemplateVersions_proofs -----------------------
(***************************************************************************)
(* Proofs about TemplateVersions, for any number of templates, schemas,    *)
(* concurrent handlers and versions, and about the form a version holds,   *)
(* SignerForm, for every schema.                                           *)
(***************************************************************************)
EXTENDS TemplateVersions, SignerForm, TLAPS

Template == [status : {"none", "draft", "published", "archived"},
             current : VersionIds \cup {NoVersion}]
Version == [owner : Templates \cup {NoTemplate}, number : Nat,
            schema : Schemas \cup {NoSchema}, published : BOOLEAN,
            hash : Schemas \cup {NoSchema}]
Request == [pc : Pcs, tpl : Templates \cup {NoTemplate},
            ver : VersionIds \cup {NoVersion},
            schema : Schemas \cup {NoSchema}, number : Nat]

LEMMA TypeParts ==
    TemplatesTypeOK <=> /\ template \in [Templates -> Template]
                        /\ version \in [VersionIds -> Version]
                        /\ pinned \subseteq VersionIds
                        /\ req \in [Slots -> Request]
  BY DEF TemplatesTypeOK, Template, Version, Request

LEMMA IdleType == Idle \in Request
  BY DEF Idle, Request, Pcs

-----------------------------------------------------------------------------
(* Types, action by action.                                                *)

LEMMA DraftTypes ==
    ASSUME TemplatesTypeOK, NEW r \in Slots, DraftStep(r)
    PROVE  TemplatesTypeOK'
<1> USE TypeParts
<1>h. req[r] \in Request
  OBVIOUS
<1>1. CASE CreateTemplate(r)
  <2>1. PICK t \in Templates, s \in Schemas :
          /\ template' = [template EXCEPT ![t].status = "draft"]
          /\ req' = [req EXCEPT ![r] =
                       [Idle EXCEPT !.pc = "check", !.tpl = t, !.schema = s,
                                    !.number = 1]]
    BY <1>1 DEF CreateTemplate
  <2>2. [Idle EXCEPT !.pc = "check", !.tpl = t, !.schema = s, !.number = 1]
          \in Request
    BY DEF Idle, Request, Pcs
  <2>3. req' \in [Slots -> Request]
    BY <2>1, <2>2
  <2>4. template' \in [Templates -> Template]
    BY <2>1 DEF Template
  <2> QED
    BY <1>1, <2>3, <2>4 DEF CreateTemplate,
       TemplatesTypeOK, Template, Version, Request
<1>2. CASE DraftStart(r)
  <2>1. PICK t \in Templates, s \in Schemas :
          req' = [req EXCEPT ![r] =
                    [Idle EXCEPT !.pc = "number", !.tpl = t, !.schema = s]]
    BY <1>2 DEF DraftStart
  <2>2. [Idle EXCEPT !.pc = "number", !.tpl = t, !.schema = s] \in Request
    BY DEF Idle, Request, Pcs
  <2>3. req' \in [Slots -> Request]
    BY <2>1, <2>2
  <2> QED
    BY <1>2, <2>3 DEF DraftStart,
       TemplatesTypeOK, Template, Version, Request
<1>3. CASE DraftCheck(r)
  <2>1. [req[r] EXCEPT !.pc = "number"] \in Request
    BY <1>h DEF Request, Pcs
  <2>2. req' \in [Slots -> Request]
    BY <1>3, <2>1, IdleType DEF DraftCheck, Goto, Return
  <2> QED
    BY <1>3, <2>2 DEF DraftCheck,
       TemplatesTypeOK, Template, Version, Request
<1>4. CASE DraftNumber(r)
  <2>1. PICK n \in 1 .. MaxVersions + 1 :
          req' = [req EXCEPT ![r].pc = "insert", ![r].number = n]
    BY <1>4 DEF DraftNumber
  <2>n. n \in Nat
    BY TemplateAssumption
  <2>2. [req[r] EXCEPT !.pc = "insert", !.number = n] \in Request
    BY <1>h, <2>n DEF Request, Pcs
  <2>3. req' \in [Slots -> Request]
    BY <2>1, <2>2
  <2> QED
    BY <1>4, <2>3 DEF DraftNumber,
       TemplatesTypeOK, Template, Version, Request
<1>5. CASE InsertVersion(r)
  <2>1. PICK v \in VersionIds :
          version' = [version EXCEPT ![v] =
                        [AbsentVersion EXCEPT !.owner = req[r].tpl,
                                              !.number = req[r].number,
                                              !.schema = req[r].schema]]
    BY <1>5 DEF InsertVersion
  <2>2. [AbsentVersion EXCEPT !.owner = req[r].tpl, !.number = req[r].number,
                              !.schema = req[r].schema] \in Version
    BY <1>h DEF AbsentVersion, Version, Request
  <2>3. version' \in [VersionIds -> Version]
    BY <2>1, <2>2
  <2>4. req' \in [Slots -> Request]
    BY <1>5, IdleType DEF InsertVersion, Return
  <2> QED
    BY <1>5, <2>3, <2>4 DEF InsertVersion,
       TemplatesTypeOK, Template, Version, Request
<1>6. CASE InsertRefused(r)
  BY <1>6, IdleType DEF InsertRefused, Return,
     TemplatesTypeOK, Template, Version, Request
<1>7. CASE UpdateRead(r)
  <2>1. PICK v \in VersionIds, s \in Schemas :
          req' = [req EXCEPT ![r] = [Idle EXCEPT !.pc = "update", !.ver = v,
                                                 !.schema = s]]
    BY <1>7 DEF UpdateRead
  <2>2. [Idle EXCEPT !.pc = "update", !.ver = v, !.schema = s] \in Request
    BY DEF Idle, Request, Pcs
  <2>3. req' \in [Slots -> Request]
    BY <2>1, <2>2
  <2> QED
    BY <1>7, <2>3 DEF UpdateRead,
       TemplatesTypeOK, Template, Version, Request
<1>8. CASE UpdateWrite(r)
  <2>1. version' \in [VersionIds -> Version]
    <3>1. version \in [VersionIds -> Version] /\ req[r].schema \in Schemas \cup {NoSchema}
      BY <1>h DEF Version, Request
    <3>2. ASSUME NEW v \in VersionIds
          PROVE  [version[v] EXCEPT !.schema = req[r].schema] \in Version
      BY <3>1 DEF Version
    <3>3. version' = [version EXCEPT ![req[r].ver] =
                        [version[req[r].ver] EXCEPT !.schema = req[r].schema]]
      BY <1>8 DEF UpdateWrite
    <3> QED
      BY <3>1, <3>2, <3>3
  <2>2. req' \in [Slots -> Request]
    BY <1>8, IdleType DEF UpdateWrite, Return
  <2> QED
    BY <1>8, <2>1, <2>2 DEF UpdateWrite,
       TemplatesTypeOK, Template, Version, Request
<1> QED
  BY <1>1, <1>2, <1>3, <1>4, <1>5, <1>6, <1>7, <1>8 DEF DraftStep

LEMMA PublishTypes ==
    ASSUME TemplatesTypeOK, NEW r \in Slots, PublishStep(r)
    PROVE  TemplatesTypeOK'
<1> USE TypeParts
<1>h. req[r] \in Request
  OBVIOUS
<1>1. CASE PublishCheck(r)
  <2>1. PICK t \in Templates :
          req' = [req EXCEPT ![r] =
                    [Idle EXCEPT !.pc = "publish_read", !.tpl = t]]
    BY <1>1 DEF PublishCheck
  <2>2. [Idle EXCEPT !.pc = "publish_read", !.tpl = t] \in Request
    BY DEF Idle, Request, Pcs
  <2>3. req' \in [Slots -> Request]
    BY <2>1, <2>2
  <2> QED
    BY <1>1, <2>3 DEF PublishCheck,
       TemplatesTypeOK, Template, Version, Request
<1>2. CASE PublishRead(r)
  <2>1. PICK v \in VersionIds :
          req' = [req EXCEPT ![r].pc = "publish_write", ![r].ver = v,
                             ![r].schema = version[v].schema]
    BY <1>2 DEF PublishRead, VersionsOf
  <2>2. [req[r] EXCEPT !.pc = "publish_write", !.ver = v,
                       !.schema = version[v].schema] \in Request
    BY <1>h DEF Request, Pcs, Version
  <2>3. req' \in [Slots -> Request]
    BY <2>1, <2>2
  <2> QED
    BY <1>2, <2>3 DEF PublishRead,
       TemplatesTypeOK, Template, Version, Request
<1>3. CASE PublishWrite(r)
  <2>v. ASSUME NEW v \in VersionIds, NEW s \in Schemas \cup {NoSchema}
        PROVE  [version[v] EXCEPT !.published = TRUE, !.hash = s] \in Version
    BY DEF Version
  <2>1. version' \in [VersionIds -> Version]
    <3>1. req[r].schema \in Schemas \cup {NoSchema}
      BY <1>h DEF Request
    <3>2. version' = [version EXCEPT ![req[r].ver] =
                        [version[req[r].ver] EXCEPT !.published = TRUE,
                                                    !.hash = req[r].schema]]
      BY <1>3 DEF PublishWrite
    <3> QED
      BY <2>v, <3>1, <3>2
  <2>2. [req[r] EXCEPT !.pc = "publish_point"] \in Request
    BY <1>h DEF Request, Pcs
  <2>3. req' \in [Slots -> Request]
    BY <1>3, <2>2 DEF PublishWrite, Goto
  <2> QED
    BY <1>3, <2>1, <2>3 DEF PublishWrite,
       TemplatesTypeOK, Template, Version, Request
<1>4. CASE PublishRefused(r)
  BY <1>4, IdleType DEF PublishRefused, Return,
     TemplatesTypeOK, Template, Version, Request
<1>5. CASE PublishPoint(r)
  <2>1. [status |-> "published", current |-> req[r].ver] \in Template
    BY <1>h DEF Template, Request
  <2>2. template' \in [Templates -> Template]
    BY <1>5, <2>1 DEF PublishPoint
  <2>3. req' \in [Slots -> Request]
    BY <1>5, IdleType DEF PublishPoint, Return
  <2> QED
    BY <1>5, <2>2, <2>3 DEF PublishPoint,
       TemplatesTypeOK, Template, Version, Request
<1> QED
  BY <1>1, <1>2, <1>3, <1>4, <1>5 DEF PublishStep


\* A handler that pins holds the id of a version; that is all the last line of
\* the type invariant needs beyond itself.
PinInv == \A r \in Slots : At(r, "pin") => req[r].ver \in VersionIds

LEMMA PinTypes ==
    ASSUME TemplatesTypeOK, PinInv, NEW r \in Slots, PinStep(r)
    PROVE  TemplatesTypeOK'
<1> USE TypeParts
<1>1. CASE PinRead(r)
  <2>1. PICK v \in VersionIds :
          req' = [req EXCEPT ![r] = [Idle EXCEPT !.pc = "pin", !.ver = v]]
    BY <1>1 DEF PinRead
  <2>2. [Idle EXCEPT !.pc = "pin", !.ver = v] \in Request
    BY DEF Idle, Request, Pcs
  <2>3. req' \in [Slots -> Request]
    BY <2>1, <2>2
  <2> QED
    BY <1>1, <2>3 DEF PinRead, TemplatesTypeOK, Template, Version, Request
<1>2. CASE PinInsert(r)
  <2>1. pinned' \subseteq VersionIds
    BY <1>2 DEF PinInsert, PinInv
  <2>2. req' \in [Slots -> Request]
    BY <1>2, IdleType DEF PinInsert, Return
  <2> QED
    BY <1>2, <2>1, <2>2
    DEF PinInsert, TemplatesTypeOK, Template, Version, Request
<1> QED
  BY <1>1, <1>2 DEF PinStep

\* A slot that did nothing is as it was; one that acted has a single step.
LEMMA OthersStay ==
    ASSUME TemplatesTypeOK, NEW r \in Slots, NEW q \in Slots, q # r,
           DraftStep(r) \/ PublishStep(r) \/ PinStep(r) \/ Abort(r)
    PROVE  req'[q] = req[q]
<1> USE DEF TemplatesTypeOK, Goto, Return
<1>1. CASE DraftStep(r)
  BY <1>1 DEF DraftStep, CreateTemplate, DraftStart, DraftCheck, DraftNumber,
              InsertVersion, InsertRefused, UpdateRead, UpdateWrite
<1>2. CASE PublishStep(r)
  BY <1>2 DEF PublishStep, PublishCheck, PublishRead, PublishWrite,
              PublishRefused, PublishPoint
<1>3. CASE PinStep(r) \/ Abort(r)
  BY <1>3 DEF PinStep, PinRead, PinInsert, Abort
<1> QED
  BY <1>1, <1>2, <1>3

-----------------------------------------------------------------------------
(* What never changes about a version.                                     *)

LEMMA VersionsKept ==
    ASSUME TemplatesTypeOK, [TemplatesNext]_templateVars, NEW v \in VersionIds, Exists(v)
    PROVE  /\ version'[v].owner = version[v].owner
           /\ version'[v].number = version[v].number
           /\ version[v].published => /\ version'[v].published
                                      /\ version'[v].hash = version[v].hash
<1>v. version \in [VersionIds -> Version] /\ version[v] \in Version
  BY TypeParts
<1>1. ASSUME NEW r \in Slots, DraftStep(r)
      PROVE  version'[v] = version[v]
             \/ \E s \in Schemas \cup {NoSchema} :
                   version'[v] = [version[v] EXCEPT !.schema = s]
  <2>1. CASE InsertVersion(r)
    BY <1>v, <2>1 DEF InsertVersion
  <2>2. CASE UpdateWrite(r)
    <3>1. req[r].schema \in Schemas \cup {NoSchema}
      BY TypeParts DEF Request
    <3> QED
      BY <1>v, <2>2, <3>1 DEF UpdateWrite
  <2> QED
    BY <1>1, <2>1, <2>2
    DEF DraftStep, CreateTemplate, DraftStart, DraftCheck, DraftNumber,
        InsertRefused, UpdateRead
<1>2. ASSUME NEW r \in Slots, PublishStep(r)
      PROVE  version'[v] = version[v]
             \/ /\ ~version[v].published
                /\ version'[v] = [version[v] EXCEPT !.published = TRUE,
                                                    !.hash = req[r].schema]
  BY <1>2, <1>v
  DEF PublishStep, PublishCheck, PublishRead, PublishWrite, PublishRefused,
      PublishPoint
<1>3. ASSUME NEW r \in Slots, PinStep(r) \/ Abort(r)
      PROVE  version'[v] = version[v]
  BY <1>3 DEF PinStep, PinRead, PinInsert, Abort
<1>4. ASSUME NEW t \in Templates, Archive(t)
      PROVE  version'[v] = version[v]
  BY <1>4 DEF Archive
<1> QED
  BY <1>1, <1>2, <1>3, <1>4, <1>v DEF TemplatesNext, templateVars, Version

\* Some version of t has number n.
HasNumber(t, n) == \E v \in VersionsOf(t) : version[v].number = n

LEMMA NumbersKept ==
    ASSUME TemplatesTypeOK, [TemplatesNext]_templateVars, NEW t \in Templates, NEW n,
           HasNumber(t, n)
    PROVE  HasNumber(t, n)'
<1>1. PICK v \in VersionIds : version[v].owner = t /\ version[v].number = n
  BY DEF HasNumber, VersionsOf
<1>2. Exists(v)
  BY <1>1, TemplateAssumption DEF Exists
<1> QED
  BY <1>1, <1>2, VersionsKept DEF HasNumber, VersionsOf

-----------------------------------------------------------------------------
(* The inductive invariant.                                                *)
(*                                                                         *)
(* Neither VersionsAreDense nor CurrentIsPublished is inductive: the       *)
(* number a draft is about to take, and the version a template is about to *)
(* point at, are in the hands of a handler.  HandlerInv says what its      *)
(* program counter promises; nothing in it can be taken away by others,    *)
(* because versions keep their owner, number and publication.              *)

HandlerInv(r) ==
    LET h == req[r]
    IN  /\ h.pc \in {"check", "number", "insert", "publish_read",
                     "publish_write", "publish_point"} => h.tpl \in Templates
        /\ h.pc \in {"check", "number"} => h.number \in {0, 1}
        /\ h.pc = "insert" => /\ h.number # 0
                              /\ \A n \in 1 .. h.number - 1 : HasNumber(h.tpl, n)
        /\ h.pc \in {"update", "publish_write", "publish_point", "pin"}
              => h.ver \in VersionIds /\ Exists(h.ver)
        /\ h.pc \in {"publish_write", "publish_point"}
              => version[h.ver].owner = h.tpl
        /\ h.pc = "publish_write" => h.schema \in Schemas
        /\ h.pc \in {"publish_point", "pin"} => version[h.ver].published

\* A published version exists and has a hash.
VersionInv(v) == version[v].published => Exists(v) /\ version[v].hash # NoSchema

TemplatesInv ==
    /\ TemplatesTypeOK
    /\ \A r \in Slots : HandlerInv(r)
    /\ \A v \in VersionIds : VersionInv(v)
    /\ CurrentIsPublished
    /\ \A v \in pinned : version[v].published
    /\ VersionsAreDense

LEMMA HandlerStays ==
    ASSUME TemplatesTypeOK, [TemplatesNext]_templateVars, NEW r \in Slots, HandlerInv(r),
           req'[r] = req[r]
    PROVE  HandlerInv(r)'
<1>1. req[r].pc = "insert" =>
        \A n \in 1 .. req[r].number - 1 : HasNumber(req[r].tpl, n)'
  BY NumbersKept DEF HandlerInv
<1>2. ASSUME req[r].ver \in VersionIds, Exists(req[r].ver)
      PROVE  /\ Exists(req[r].ver)'
             /\ version'[req[r].ver].owner = version[req[r].ver].owner
             /\ version[req[r].ver].published
                  => version'[req[r].ver].published
  BY <1>2, VersionsKept DEF Exists
<1> QED
  BY <1>1, <1>2 DEF HandlerInv, HasNumber, VersionsOf

LEMMA IdleInv ==
    ASSUME TemplatesTypeOK, NEW r \in Slots, Return(r)
    PROVE  HandlerInv(r)'
  BY DEF Return, Idle, HandlerInv, TemplatesTypeOK

LEMMA DraftHandler ==
    ASSUME TemplatesInv, [TemplatesNext]_templateVars, NEW r \in Slots, DraftStep(r)
    PROVE  HandlerInv(r)'
<1> USE DEF TemplatesInv
<1>h. HandlerInv(r) /\ req \in [Slots -> Request]
  BY TypeParts
<1>1. CASE CreateTemplate(r)
  BY <1>1, <1>h DEF CreateTemplate, HandlerInv, Idle
<1>2. CASE DraftStart(r)
  BY <1>2, <1>h DEF DraftStart, HandlerInv, Idle
<1>3. CASE DraftCheck(r)
  <2>1. CASE Return(r)
    BY <2>1, IdleInv
  <2>2. CASE Goto(r, "number")
    BY <1>3, <1>h, <2>2 DEF DraftCheck, Goto, At, HandlerInv
  <2> QED
    BY <1>3, <2>1, <2>2 DEF DraftCheck
<1>4. CASE DraftNumber(r)
  <2>1. PICK n \in 1 .. MaxVersions + 1 :
          /\ IF req[r].number # 0 THEN n = req[r].number
                                  ELSE IsNextNumber(req[r].tpl, n)
          /\ req' = [req EXCEPT ![r].pc = "insert", ![r].number = n]
    BY <1>4 DEF DraftNumber
  <2>2. n \in Nat \ {0}
    BY TemplateAssumption
  <2>3. req[r].tpl \in Templates /\ req[r].number \in {0, 1}
    BY <1>4, <1>h DEF DraftNumber, At, HandlerInv
  <2>4. ASSUME NEW m \in 1 .. n - 1
        PROVE  HasNumber(req[r].tpl, m)
    <3>1. IsNextNumber(req[r].tpl, n) /\ n # 1
      BY <2>1, <2>2, <2>3, <2>4
    <3>2. PICK v \in VersionsOf(req[r].tpl) : version[v].number = n - 1
      BY <3>1 DEF IsNextNumber
    <3>3. m \in 1 .. version[v].number
      BY <2>2, <2>4, <3>2
    <3> QED
      BY <2>3, <3>2, <3>3 DEF VersionsAreDense, HasNumber
  <2>5. UNCHANGED version
    BY <1>4 DEF DraftNumber
  <2>6. /\ req'[r].pc = "insert"
        /\ req'[r].tpl = req[r].tpl
        /\ req'[r].number = n
    BY <1>h, <2>1 DEF Request
  <2>7. ASSUME NEW m \in 1 .. n - 1
        PROVE  HasNumber(req[r].tpl, m)'
    BY <2>4, <2>5, <2>6, <2>7 DEF HasNumber, VersionsOf
  <2> QED
    BY <2>2, <2>3, <2>4, <2>5, <2>6 DEF HandlerInv, HasNumber, VersionsOf
<1>5. CASE InsertVersion(r)
  BY <1>5, IdleInv DEF InsertVersion
<1>6. CASE InsertRefused(r)
  BY <1>6, IdleInv DEF InsertRefused
<1>7. CASE UpdateRead(r)
  BY <1>7, <1>h DEF UpdateRead, Editable, Exists, HandlerInv, Idle
<1>8. CASE UpdateWrite(r)
  BY <1>8, IdleInv DEF UpdateWrite
<1> QED
  BY <1>1, <1>2, <1>3, <1>4, <1>5, <1>6, <1>7, <1>8 DEF DraftStep

LEMMA PublishHandler ==
    ASSUME TemplatesInv, [TemplatesNext]_templateVars, NEW r \in Slots,
           PublishStep(r) \/ PinStep(r) \/ Abort(r)
    PROVE  HandlerInv(r)'
<1> USE DEF TemplatesInv
<1>h. HandlerInv(r) /\ req \in [Slots -> Request]
  BY TypeParts
<1>1. CASE PublishCheck(r)
  BY <1>1, <1>h DEF PublishCheck, HandlerInv, Idle
<1>2. CASE PublishRead(r)
  <2>1. PICK v \in VersionsOf(req[r].tpl) :
          /\ version[v].schema \in ValidSchemas
          /\ req' = [req EXCEPT ![r].pc = "publish_write", ![r].ver = v,
                                ![r].schema = version[v].schema]
    BY <1>2 DEF PublishRead
  <2>2. /\ req'[r].pc = "publish_write"
        /\ req'[r].ver = v
        /\ req'[r].schema = version[v].schema
        /\ req'[r].tpl = req[r].tpl
    BY <1>h, <2>1 DEF Request
  <2>3. req[r].tpl \in Templates
    BY <1>2, <1>h DEF PublishRead, At, HandlerInv
  <2>4. v \in VersionIds /\ version[v].owner = req[r].tpl /\ Exists(v)
    BY <2>1, <2>3, TemplateAssumption DEF VersionsOf, Exists
  <2>5. UNCHANGED version
    BY <1>2 DEF PublishRead
  <2> QED
    BY <2>1, <2>2, <2>3, <2>4, <2>5, TemplateAssumption DEF HandlerInv, Exists
<1>3. CASE PublishWrite(r)
  <2>1. /\ req'[r].pc = "publish_point"
        /\ req'[r].ver = req[r].ver
        /\ req'[r].tpl = req[r].tpl
    BY <1>3, <1>h DEF PublishWrite, Goto, Request
  <2>2. /\ req[r].tpl \in Templates
        /\ req[r].ver \in VersionIds
        /\ Exists(req[r].ver)
        /\ version[req[r].ver].owner = req[r].tpl
    BY <1>3, <1>h DEF PublishWrite, At, HandlerInv
  <2>3. version'[req[r].ver].published
    BY <1>3, <2>2, TypeParts DEF PublishWrite, Version
  <2>4. version'[req[r].ver].owner = version[req[r].ver].owner
    BY <2>2, VersionsKept
  <2> QED
    BY <2>1, <2>2, <2>3, <2>4 DEF HandlerInv, Exists
<1>4. CASE PublishRefused(r)
  BY <1>4, IdleInv DEF PublishRefused
<1>5. CASE PublishPoint(r)
  BY <1>5, IdleInv DEF PublishPoint
<1>6. CASE PinRead(r)
  <2>1. PICK t \in Templates, v \in VersionIds :
          /\ Pinnable(t, v)
          /\ req' = [req EXCEPT ![r] = [Idle EXCEPT !.pc = "pin", !.ver = v]]
    BY <1>6 DEF PinRead
  <2>2. version[v].owner = t /\ version[v].published
    BY <2>1 DEF Pinnable, CurrentIsPublished
  <2>3. UNCHANGED version
    BY <1>6 DEF PinRead
  <2> QED
    BY <1>h, <2>1, <2>2, <2>3, TemplateAssumption DEF HandlerInv, Exists, Idle
<1>7. CASE PinInsert(r)
  BY <1>7, IdleInv DEF PinInsert
<1>8. CASE Abort(r)
  BY <1>8, IdleInv DEF Abort
<1> QED
  BY <1>1, <1>2, <1>3, <1>4, <1>5, <1>6, <1>7, <1>8 DEF PublishStep, PinStep

\* Where a version changes its publication, and where it appears.
LEMMA VersionWrites ==
    ASSUME TemplatesInv, [TemplatesNext]_templateVars, NEW v \in VersionIds
    PROVE  \/ version'[v] = version[v]
           \/ \E r \in Slots : /\ InsertVersion(r)
                               /\ ~Exists(v)
                               /\ version'[v] =
                                    [AbsentVersion EXCEPT !.owner = req[r].tpl,
                                                          !.number = req[r].number,
                                                          !.schema = req[r].schema]
                               /\ \A u \in VersionIds \ {v} : version'[u] = version[u]
           \/ \E r \in Slots : /\ UpdateWrite(r) /\ req[r].ver = v
                               /\ version'[v] =
                                    [version[v] EXCEPT !.schema = req[r].schema]
           \/ \E r \in Slots : /\ PublishWrite(r) /\ req[r].ver = v
                               /\ version'[v] =
                                    [version[v] EXCEPT !.published = TRUE,
                                                       !.hash = req[r].schema]
<1>v. version \in [VersionIds -> Version]
  BY TypeParts DEF TemplatesInv
<1>1. ASSUME NEW r \in Slots, DraftStep(r)
      PROVE  \/ version' = version
             \/ InsertVersion(r)
             \/ UpdateWrite(r)
  BY <1>1 DEF DraftStep, CreateTemplate, DraftStart, DraftCheck, DraftNumber,
              InsertRefused, UpdateRead
<1>2. ASSUME NEW r \in Slots, PublishStep(r) \/ PinStep(r) \/ Abort(r)
      PROVE  version' = version \/ PublishWrite(r)
  BY <1>2 DEF PublishStep, PublishCheck, PublishRead, PublishRefused,
              PublishPoint, PinStep, PinRead, PinInsert, Abort
<1>3. \/ version' = version
      \/ \E r \in Slots : InsertVersion(r) \/ UpdateWrite(r) \/ PublishWrite(r)
  BY <1>1, <1>2 DEF TemplatesNext, templateVars, Archive
<1>4. ASSUME NEW r \in Slots, InsertVersion(r), version'[v] # version[v]
      PROVE  /\ ~Exists(v)
             /\ version'[v] = [AbsentVersion EXCEPT !.owner = req[r].tpl,
                                                    !.number = req[r].number,
                                                    !.schema = req[r].schema]
             /\ \A u \in VersionIds \ {v} : version'[u] = version[u]
  BY <1>v, <1>4 DEF InsertVersion
<1>5. ASSUME NEW r \in Slots, UpdateWrite(r), version'[v] # version[v]
      PROVE  /\ req[r].ver = v
             /\ version'[v] = [version[v] EXCEPT !.schema = req[r].schema]
  BY <1>v, <1>5 DEF UpdateWrite
<1>6. ASSUME NEW r \in Slots, PublishWrite(r), version'[v] # version[v]
      PROVE  /\ req[r].ver = v
             /\ version'[v] = [version[v] EXCEPT !.published = TRUE,
                                                 !.hash = req[r].schema]
  BY <1>v, <1>6 DEF PublishWrite
<1> QED
  BY <1>3, <1>4, <1>5, <1>6

LEMMA VersionStep ==
    ASSUME TemplatesInv, [TemplatesNext]_templateVars, NEW v \in VersionIds
    PROVE  VersionInv(v)'
<1>v. version[v] \in Version /\ VersionInv(v)
  BY TypeParts DEF TemplatesInv
<1>1. CASE version'[v] = version[v]
  BY <1>v, <1>1 DEF VersionInv, Exists
<1>2. ASSUME NEW r \in Slots, version'[v] =
               [AbsentVersion EXCEPT !.owner = req[r].tpl,
                                     !.number = req[r].number,
                                     !.schema = req[r].schema]
      PROVE  VersionInv(v)'
  BY <1>2 DEF VersionInv, AbsentVersion
<1>3. ASSUME NEW r \in Slots,
             version'[v] = [version[v] EXCEPT !.schema = req[r].schema]
      PROVE  VersionInv(v)'
  BY <1>v, <1>3 DEF VersionInv, Version, Exists
<1>4. ASSUME NEW r \in Slots, PublishWrite(r), req[r].ver = v,
             version'[v] = [version[v] EXCEPT !.published = TRUE,
                                              !.hash = req[r].schema]
      PROVE  VersionInv(v)'
  <2>1. req[r].schema \in Schemas /\ Exists(v)
    BY <1>4 DEF TemplatesInv, HandlerInv, PublishWrite, At
  <2> QED
    BY <1>v, <1>4, <2>1, TemplateAssumption DEF VersionInv, Version, Exists
<1> QED
  BY <1>1, <1>2, <1>3, <1>4, VersionWrites

LEMMA CurrentStep ==
    ASSUME TemplatesInv, [TemplatesNext]_templateVars
    PROVE  CurrentIsPublished'
<1>k. ASSUME NEW v \in VersionIds, NEW t \in Templates,
             version[v].owner = t, version[v].published
      PROVE  version'[v].owner = t /\ version'[v].published
  BY <1>k, VersionsKept, TemplateAssumption DEF TemplatesInv, Exists
<1>t. template \in [Templates -> Template]
  BY TypeParts DEF TemplatesInv
<1> SUFFICES ASSUME NEW t \in Templates
             PROVE  LET v == template'[t].current
                    IN  /\ template'[t].status = "published" => v # NoVersion
                        /\ v # NoVersion => /\ version'[v].owner = t
                                            /\ version'[v].published
  BY DEF CurrentIsPublished
<1>c. /\ template[t].status = "published" => template[t].current # NoVersion
      /\ template[t].current # NoVersion
            => /\ template[t].current \in VersionIds
               /\ version[template[t].current].owner = t
               /\ version[template[t].current].published
  BY <1>t DEF TemplatesInv, CurrentIsPublished, Template
<1>1. CASE template'[t] = template[t]
  BY <1>1, <1>c, <1>k
<1>2. ASSUME NEW r \in Slots, CreateTemplate(r), template'[t] # template[t]
      PROVE  template'[t].status = "draft"
             /\ template'[t].current = template[t].current
  BY <1>t, <1>2 DEF CreateTemplate, Template
<1>3. ASSUME NEW u \in Templates, Archive(u), template'[t] # template[t]
      PROVE  template'[t].status = "archived"
             /\ template'[t].current = template[t].current
  BY <1>t, <1>3 DEF Archive, Template
<1>4. ASSUME NEW r \in Slots, PublishPoint(r), template'[t] # template[t]
      PROVE  /\ template'[t].current \in VersionIds
             /\ template'[t].current # NoVersion
             /\ version[template'[t].current].owner = t
             /\ version[template'[t].current].published
  <2>1. req[r].tpl = t /\ template'[t].current = req[r].ver
    BY <1>t, <1>4 DEF PublishPoint
  <2>2. /\ req[r].ver \in VersionIds
        /\ version[req[r].ver].owner = t
        /\ version[req[r].ver].published
    BY <1>4, <2>1 DEF TemplatesInv, HandlerInv, PublishPoint, At
  <2>3. req[r].ver # NoVersion
    BY <2>2, TemplateAssumption DEF VersionIds, NoVersion
  <2> QED
    BY <2>1, <2>2, <2>3
<1>5. \/ template' = template
      \/ \E r \in Slots : CreateTemplate(r) \/ PublishPoint(r)
      \/ \E u \in Templates : Archive(u)
  BY DEF TemplatesNext, templateVars, DraftStep, DraftStart, DraftCheck, DraftNumber,
         InsertVersion, InsertRefused, UpdateRead, UpdateWrite, PublishStep,
         PublishCheck, PublishRead, PublishWrite, PublishRefused, PinStep,
         PinRead, PinInsert, Abort
<1> QED
  BY <1>1, <1>2, <1>3, <1>4, <1>5, <1>c, <1>k

LEMMA PinnedStep ==
    ASSUME TemplatesInv, [TemplatesNext]_templateVars, NEW v \in pinned'
    PROVE  version'[v].published
<1>1. CASE v \in pinned
  <2>1. v \in VersionIds /\ version[v].published /\ Exists(v)
    BY <1>1 DEF TemplatesInv, TemplatesTypeOK, VersionInv
  <2> QED
    BY <2>1, VersionsKept DEF TemplatesInv
<1>2. CASE v \notin pinned
  <2>1. PICK r \in Slots : PinInsert(r) /\ v = req[r].ver
    BY <1>2 DEF TemplatesNext, templateVars, DraftStep, CreateTemplate, DraftStart, DraftCheck,
                DraftNumber, InsertVersion, InsertRefused, UpdateRead,
                UpdateWrite, PublishStep, PublishCheck, PublishRead,
                PublishWrite, PublishRefused, PublishPoint, PinStep, PinRead,
                PinInsert, Abort, Archive
  <2>2. version[v].published
    BY <2>1 DEF TemplatesInv, HandlerInv, PinInsert, At
  <2> QED
    BY <2>1, <2>2 DEF PinInsert
<1> QED
  BY <1>1, <1>2

LEMMA DenseStep ==
    ASSUME TemplatesInv, [TemplatesNext]_templateVars
    PROVE  VersionsAreDense'
<1>w. TemplatesTypeOK /\ version \in [VersionIds -> Version]
  BY TypeParts DEF TemplatesInv
<1> SUFFICES ASSUME NEW t \in Templates
             PROVE  /\ \A u, v \in VersionsOf(t)' :
                          version'[u].number = version'[v].number => u = v
                    /\ \A v \in VersionsOf(t)' :
                          \A n \in 1 .. version'[v].number : HasNumber(t, n)'
  BY DEF VersionsAreDense, HasNumber
<1>d. /\ \A u, v \in VersionsOf(t) :
            version[u].number = version[v].number => u = v
      /\ \A v \in VersionsOf(t) :
            \A n \in 1 .. version[v].number : HasNumber(t, n)
  BY DEF TemplatesInv, VersionsAreDense, HasNumber
<1>1. ASSUME NEW v \in VersionsOf(t)'
      PROVE  \/ v \in VersionsOf(t) /\ version'[v].number = version[v].number
             \/ \E r \in Slots : /\ InsertVersion(r)
                                 /\ ~Exists(v)
                                 /\ req[r].tpl = t
                                 /\ version'[v].number = req[r].number
                                 /\ \A u \in VersionIds \ {v} :
                                       version'[u] = version[u]
  <2>1. v \in VersionIds /\ version'[v].owner = t
    BY DEF VersionsOf
  <2>2. CASE Exists(v)
    BY <1>w, <2>1, <2>2, VersionsKept DEF VersionsOf
  <2>3. CASE ~Exists(v)
    <3>1. version[v].owner = NoTemplate
      BY <2>3 DEF Exists
    <3>2. version'[v] # version[v]
      BY <2>1, <3>1, TemplateAssumption
    <3>3. ASSUME NEW r \in Slots, UpdateWrite(r) \/ PublishWrite(r),
                 req[r].ver = v
          PROVE  Exists(v)
      BY <3>3 DEF TemplatesInv, HandlerInv, UpdateWrite, PublishWrite, At
    <3>4. PICK r \in Slots :
            /\ InsertVersion(r)
            /\ version'[v] = [AbsentVersion EXCEPT !.owner = req[r].tpl,
                                                   !.number = req[r].number,
                                                   !.schema = req[r].schema]
            /\ \A u \in VersionIds \ {v} : version'[u] = version[u]
      BY <2>1, <2>3, <3>2, <3>3, VersionWrites
    <3>5. version'[v].owner = req[r].tpl /\ version'[v].number = req[r].number
      BY <3>4 DEF AbsentVersion
    <3> QED
      BY <2>1, <2>3, <3>4, <3>5
  <2> QED
    BY <2>2, <2>3
<1>2. ASSUME NEW v \in VersionsOf(t)', NEW r \in Slots, InsertVersion(r),
             ~Exists(v), req[r].tpl = t, version'[v].number = req[r].number,
             \A u \in VersionIds \ {v} : version'[u] = version[u]
      PROVE  /\ \A u \in VersionsOf(t)' \ {v} :
                   version'[u].number # version'[v].number
             /\ \A n \in 1 .. version'[v].number : HasNumber(t, n)'
  <2>1. ~NumberTaken(t, req[r].number)
    BY <1>2 DEF InsertVersion
  <2>2. ASSUME NEW u \in VersionsOf(t)', u # v
        PROVE  version'[u].number # version'[v].number
    <3>1. u \in VersionsOf(t) /\ version'[u] = version[u]
      BY <1>2, <2>2 DEF VersionsOf
    <3> QED
      BY <1>2, <2>1, <3>1 DEF NumberTaken
  <2>3. /\ req[r].number \in Nat
        /\ \A n \in 1 .. req[r].number - 1 : HasNumber(t, n)
    BY <1>2, TypeParts DEF TemplatesInv, HandlerInv, InsertVersion, At, Request
  <2>4. ASSUME NEW n \in 1 .. version'[v].number
        PROVE  HasNumber(t, n)'
    <3>1. CASE n = version'[v].number
      BY <3>1 DEF HasNumber
    <3>2. CASE n # version'[v].number
      <4>1. n \in 1 .. req[r].number - 1
        BY <1>2, <2>3, <2>4, <3>2
      <4>2. HasNumber(t, n)
        BY <2>3, <4>1
      <4> QED
        BY <1>w, <4>2, NumbersKept
    <3> QED
      BY <3>1, <3>2
  <2> QED
    BY <2>2, <2>4
<1>3. ASSUME NEW v \in VersionsOf(t), version'[v].number = version[v].number,
             NEW n \in 1 .. version'[v].number
      PROVE  HasNumber(t, n)'
  <2>1. HasNumber(t, n)
    BY <1>d, <1>3
  <2> QED
    BY <1>w, <2>1, NumbersKept
<1>4. ASSUME NEW u \in VersionsOf(t)', NEW v \in VersionsOf(t)',
             version'[u].number = version'[v].number
      PROVE  u = v
  <2>1. CASE /\ u \in VersionsOf(t) /\ version'[u].number = version[u].number
             /\ v \in VersionsOf(t) /\ version'[v].number = version[v].number
    BY <1>4, <1>d, <2>1
  <2> QED
    BY <1>1, <1>2, <1>4, <2>1
<1> QED
  BY <1>1, <1>2, <1>3, <1>4

-----------------------------------------------------------------------------
(* Every step keeps the invariant.                                         *)

LEMMA TemplatesInvInit == TemplatesInit => TemplatesInv
<1> SUFFICES ASSUME TemplatesInit
             PROVE  TemplatesInv
  OBVIOUS
<1> USE DEF TemplatesInit
<1>1. TemplatesTypeOK
  BY IdleType DEF TemplatesTypeOK, AbsentTemplate, AbsentVersion, Request
<1>2. ASSUME NEW r \in Slots
      PROVE  HandlerInv(r)
  BY DEF HandlerInv, Idle
<1>3. ASSUME NEW v \in VersionIds
      PROVE  VersionInv(v)
  BY DEF VersionInv, AbsentVersion
<1>4. CurrentIsPublished
  BY DEF CurrentIsPublished, AbsentTemplate
<1>5. VersionsAreDense
  <2>1. \A t \in Templates : VersionsOf(t) = {}
    BY TemplateAssumption DEF VersionsOf, AbsentVersion
  <2> QED
    BY <2>1 DEF VersionsAreDense
<1> QED
  BY <1>1, <1>2, <1>3, <1>4, <1>5 DEF TemplatesInv

LEMMA TypesStep ==
    ASSUME TemplatesInv, [TemplatesNext]_templateVars
    PROVE  TemplatesTypeOK'
<1>t. TemplatesTypeOK /\ PinInv
  BY DEF TemplatesInv, HandlerInv, PinInv, At
<1>1. ASSUME NEW r \in Slots, DraftStep(r) \/ PublishStep(r) \/ PinStep(r)
      PROVE  TemplatesTypeOK'
  BY <1>1, <1>t, DraftTypes, PublishTypes, PinTypes
<1>2. ASSUME NEW r \in Slots, Abort(r)
      PROVE  TemplatesTypeOK'
  BY <1>2, <1>t, IdleType DEF Abort, Return, TemplatesTypeOK, Request
<1>3. ASSUME NEW t \in Templates, Archive(t)
      PROVE  TemplatesTypeOK'
  <2>1. template' \in [Templates -> Template]
    BY <1>3, <1>t, TypeParts DEF Archive, Template
  <2> QED
    BY <1>3, <1>t, <2>1 DEF Archive, TemplatesTypeOK, Template
<1>4. CASE UNCHANGED templateVars
  BY <1>4, <1>t DEF templateVars, TemplatesTypeOK
<1> QED
  BY <1>1, <1>2, <1>3, <1>4 DEF TemplatesNext

LEMMA HandlersStep ==
    ASSUME TemplatesInv, [TemplatesNext]_templateVars, NEW r \in Slots
    PROVE  HandlerInv(r)'
<1>t. TemplatesTypeOK /\ HandlerInv(r)
  BY DEF TemplatesInv
<1>1. ASSUME NEW q \in Slots,
             DraftStep(q) \/ PublishStep(q) \/ PinStep(q) \/ Abort(q)
      PROVE  HandlerInv(r)'
  <2>1. CASE q = r
    BY <1>1, <2>1, DraftHandler, PublishHandler
  <2>2. CASE q # r
    BY <1>1, <1>t, <2>2, OthersStay, HandlerStays
  <2> QED
    BY <2>1, <2>2
<1>2. CASE UNCHANGED req
  BY <1>2, <1>t, HandlerStays
<1>3. ASSUME NEW t \in Templates, Archive(t)
      PROVE  UNCHANGED req
  BY <1>3 DEF Archive
<1> QED
  BY <1>1, <1>2, <1>3 DEF TemplatesNext, templateVars

LEMMA TemplatesInvNext == TemplatesInv /\ [TemplatesNext]_templateVars => TemplatesInv'
<1> SUFFICES ASSUME TemplatesInv, [TemplatesNext]_templateVars
             PROVE  TemplatesInv'
  OBVIOUS
<1>1. \A r \in Slots : HandlerInv(r)'
  BY HandlersStep
<1>2. \A v \in VersionIds : VersionInv(v)'
  BY VersionStep
<1>3. \A v \in pinned' : version'[v].published
  BY PinnedStep
<1> QED
  BY <1>1, <1>2, <1>3, TypesStep, CurrentStep, DenseStep
  DEF TemplatesInv, VersionIds

LEMMA TemplatesInductive == TemplatesSpec => []TemplatesInv
  BY TemplatesInvInit, TemplatesInvNext, PTL DEF TemplatesSpec

-----------------------------------------------------------------------------
(* The safety properties of the module.                                    *)

\* The tables and the handlers' locals keep their types.
THEOREM TemplatesTypeCorrect == TemplatesSpec => []TemplatesTypeOK
<1>1. TemplatesInv => TemplatesTypeOK
  BY DEF TemplatesInv
<1> QED
  BY <1>1, TemplatesInductive, PTL

\* A template points at a published version of its own, and a published
\* template does point at one: publishVersion freezes, then points.
THEOREM PointersPublished == TemplatesSpec => []CurrentIsPublished
<1>1. TemplatesInv => CurrentIsPublished
  BY DEF TemplatesInv
<1> QED
  BY <1>1, TemplatesInductive, PTL

\* What createSession pins is published and carries an agreement hash, and
\* remains so whatever becomes of the template afterwards.
THEOREM PinsPublished == TemplatesSpec => []SessionsPinPublished
<1>1. TemplatesInv => SessionsPinPublished
  BY DEF TemplatesInv, TemplatesTypeOK, VersionInv, SessionsPinPublished
<1> QED
  BY <1>1, TemplatesInductive, PTL

\* Templates and sessions refer to published versions only.
THEOREM ReferencesPublished == TemplatesSpec => []ReferencesArePublished
BY PointersPublished, PinsPublished, PTL DEF ReferencesArePublished

\* Version numbers have neither gaps nor duplicates, though createDraftVersion
\* reads the maximum in one step and inserts in another: only the unique
\* index stands between two drafts with the same number.
THEOREM NumbersDense == TemplatesSpec => []VersionsAreDense
<1>1. TemplatesInv => VersionsAreDense
  BY DEF TemplatesInv
<1> QED
  BY <1>1, TemplatesInductive, PTL

-----------------------------------------------------------------------------
(* What a step may not do.                                                 *)

\* Where the steps of a handler lead it.
LEMMA DraftLeads ==
    ASSUME TemplatesTypeOK, NEW r \in Slots, DraftStep(r)
    PROVE  UpdateRead(r) \/ req'[r].pc \in {"idle", "check", "number", "insert"}
<1>t. req \in [Slots -> Request]
  BY TypeParts
<1>1. CASE CreateTemplate(r) \/ DraftStart(r)
  BY <1>1, <1>t DEF CreateTemplate, DraftStart, Idle
<1>2. CASE DraftCheck(r)
  BY <1>2, <1>t DEF DraftCheck, Goto, Return, Idle, Request
<1>3. CASE DraftNumber(r)
  BY <1>3, <1>t DEF DraftNumber, Request
<1>4. CASE InsertVersion(r) \/ InsertRefused(r) \/ UpdateWrite(r)
  BY <1>4, <1>t DEF InsertVersion, InsertRefused, UpdateWrite, Return, Idle
<1> QED
  BY <1>1, <1>2, <1>3, <1>4 DEF DraftStep

LEMMA PublishLeads ==
    ASSUME TemplatesTypeOK, NEW r \in Slots, PublishStep(r)
    PROVE  \/ req'[r].pc = "idle"
           \/ /\ PublishCheck(r) \/ PublishRead(r) \/ PublishWrite(r)
              /\ req'[r].pc \in {"publish_read", "publish_write",
                                 "publish_point"}
<1>t. req \in [Slots -> Request]
  BY TypeParts
<1>1. CASE PublishCheck(r)
  BY <1>1, <1>t DEF PublishCheck, Idle
<1>2. CASE PublishRead(r)
  BY <1>2, <1>t DEF PublishRead, Request
<1>3. CASE PublishWrite(r)
  BY <1>3, <1>t DEF PublishWrite, Goto, Request
<1>4. CASE PublishRefused(r) \/ PublishPoint(r)
  BY <1>4, <1>t DEF PublishRefused, PublishPoint, Return, Idle
<1> QED
  BY <1>1, <1>2, <1>3, <1>4 DEF PublishStep

LEMMA PinLeads ==
    ASSUME TemplatesTypeOK, NEW r \in Slots, PinStep(r) \/ Abort(r)
    PROVE  req'[r].pc \in {"idle", "pin"}
<1>t. req \in [Slots -> Request]
  BY TypeParts
<1>1. CASE PinRead(r)
  BY <1>1, <1>t DEF PinRead, Idle
<1>2. CASE PinInsert(r) \/ Abort(r)
  BY <1>2, <1>t DEF PinInsert, Abort, Return, Idle
<1> QED
  BY <1>1, <1>2 DEF PinStep

\* An editor that was not one before has just found a draft.
LEMMA EditorsAppear ==
    ASSUME TemplatesInv, [TemplatesNext]_templateVars, NEW v \in VersionIds,
           NEW r \in Editors(v)', r \notin Editors(v)
    PROVE  ~version[v].published
<1>t. TemplatesTypeOK /\ req \in [Slots -> Request]
  BY TypeParts DEF TemplatesInv
<1>r. /\ r \in Slots
      /\ req'[r].pc = "update"
      /\ req'[r].ver = v
      /\ req'[r] # req[r]
  BY DEF Editors, At
<1>1. \/ DraftStep(r) \/ PublishStep(r) \/ PinStep(r) \/ Abort(r)
  BY <1>t, <1>r, OthersStay DEF TemplatesNext, templateVars, Archive
<1>2. UpdateRead(r)
  BY <1>1, <1>t, <1>r, DraftLeads, PublishLeads, PinLeads
<1>3. PICK u \in VersionIds, s \in Schemas :
         /\ Editable(u)
         /\ req' = [req EXCEPT ![r] = [Idle EXCEPT !.pc = "update", !.ver = u,
                                                  !.schema = s]]
  BY <1>2 DEF UpdateRead
<1>4. u = v
  BY <1>t, <1>r, <1>3 DEF Idle
<1> QED
  BY <1>3, <1>4 DEF Editable

LEMMA FrozenStep ==
    ASSUME TemplatesInv, [TemplatesNext]_templateVars, NEW v \in VersionIds,
           version[v].published, Editors(v) = {}
    PROVE  version'[v] = version[v] /\ Editors(v)' = {}
<1>1. Exists(v)
  BY DEF TemplatesInv, VersionInv
<1>2. ASSUME NEW r \in Slots
      PROVE  ~(UpdateWrite(r) /\ req[r].ver = v)
  BY DEF UpdateWrite, Editors
<1>3. ASSUME NEW r \in Slots
      PROVE  ~(PublishWrite(r) /\ req[r].ver = v)
  BY DEF PublishWrite
<1>4. version'[v] = version[v]
  BY <1>1, <1>2, <1>3, VersionWrites
<1>5. Editors(v)' = {}
  BY EditorsAppear
<1> QED
  BY <1>4, <1>5

\* Once the edits in flight at publication are over, a published version
\* neither changes nor is opened for editing again.
THEOREM PublishedFrozen == TemplatesSpec => PublishedIsFrozen
<1>1. TemplatesInv /\ [TemplatesNext]_templateVars
        => [KeepsPublished]_templateVars
  BY FrozenStep DEF KeepsPublished
<1> QED
  BY <1>1, TemplatesInductive, PTL DEF TemplatesSpec, PublishedIsFrozen

LEMMA FaithfulStep ==
    ASSUME TemplatesInv, [TemplatesNext]_templateVars, NEW v \in VersionIds, AllCurrent(v),
           Faithful(v)
    PROVE  Faithful(v)'
<1>v. version[v] \in Version
  BY TypeParts DEF TemplatesInv
<1>1. CASE version'[v] = version[v]
  BY <1>1 DEF Faithful
<1>2. ASSUME NEW r \in Slots,
             version'[v] = [AbsentVersion EXCEPT !.owner = req[r].tpl,
                                                 !.number = req[r].number,
                                                 !.schema = req[r].schema]
      PROVE  Faithful(v)'
  BY <1>2 DEF Faithful, AbsentVersion
<1>3. ASSUME NEW r \in Slots, UpdateWrite(r), req[r].ver = v,
             version'[v] = [version[v] EXCEPT !.schema = req[r].schema]
      PROVE  Faithful(v)'
  <2>1. ~version[v].published
    BY <1>3 DEF UpdateWrite, AllCurrent, Editors
  <2> QED
    BY <1>v, <1>3, <2>1 DEF Faithful, Version
<1>4. ASSUME NEW r \in Slots, PublishWrite(r), req[r].ver = v,
             version'[v] = [version[v] EXCEPT !.published = TRUE,
                                              !.hash = req[r].schema]
      PROVE  Faithful(v)'
  <2>1. req[r].schema = version[v].schema
    BY <1>4 DEF PublishWrite, AllCurrent
  <2> QED
    BY <1>v, <1>4, <2>1 DEF Faithful, Version
<1> QED
  BY <1>1, <1>2, <1>3, <1>4, VersionWrites

\* The agreement hash of a published version can part from its schema only
\* through a handler that writes from a stale copy.
THEOREM HashesPartByRacesOnly == TemplatesSpec => HashesMatchUnlessRaced
<1>1. TemplatesInv /\ [TemplatesNext]_templateVars
        => [\A v \in VersionIds :
               AllCurrent(v) /\ Faithful(v) => Faithful(v)']_templateVars
  BY FaithfulStep
<1> QED
  BY <1>1, TemplatesInductive, PTL DEF TemplatesSpec, HashesMatchUnlessRaced

\* A publication that was not in flight before has just found the template
\* in a state that may be published.
LEMMA PublishersAppear ==
    ASSUME TemplatesInv, [TemplatesNext]_templateVars, NEW t \in Templates,
           NEW r \in Publishers(t)', r \notin Publishers(t)
    PROVE  template[t].status # "archived"
<1>t. TemplatesTypeOK /\ req \in [Slots -> Request]
  BY TypeParts DEF TemplatesInv
<1>r. /\ r \in Slots
      /\ req'[r].tpl = t
      /\ req'[r].pc \in {"publish_read", "publish_write", "publish_point"}
      /\ req'[r] # req[r]
  BY DEF Publishers
<1>1. \/ DraftStep(r) \/ PublishStep(r) \/ PinStep(r) \/ Abort(r)
  BY <1>t, <1>r, OthersStay DEF TemplatesNext, templateVars, Archive
<1>2. PublishCheck(r) \/ PublishRead(r) \/ PublishWrite(r)
  BY <1>1, <1>t, <1>r, DraftLeads, PublishLeads, PinLeads DEF UpdateRead, Idle
<1>3. CASE PublishCheck(r)
  BY <1>3, <1>t, <1>r DEF PublishCheck, Idle
<1>4. CASE PublishRead(r)
  BY <1>4, <1>t, <1>r DEF PublishRead, At, Publishers, Request
<1>5. CASE PublishWrite(r)
  BY <1>5, <1>t, <1>r DEF PublishWrite, Goto, At, Publishers, Request
<1> QED
  BY <1>2, <1>3, <1>4, <1>5

LEMMA ArchivedStep ==
    ASSUME TemplatesInv, [TemplatesNext]_templateVars, NEW t \in Templates,
           template[t].status = "archived", Publishers(t) = {}
    PROVE  template'[t] = template[t] /\ Publishers(t)' = {}
<1>t. template \in [Templates -> Template]
  BY TypeParts DEF TemplatesInv
<1>1. ASSUME NEW r \in Slots, CreateTemplate(r)
      PROVE  template'[t] = template[t]
  BY <1>1, <1>t DEF CreateTemplate
<1>2. ASSUME NEW r \in Slots, PublishPoint(r)
      PROVE  template'[t] = template[t]
  BY <1>2, <1>t DEF PublishPoint, Publishers, At
<1>3. ASSUME NEW u \in Templates, Archive(u)
      PROVE  template'[t] = template[t]
  BY <1>3, <1>t DEF Archive, Template
<1>4. \/ template' = template
      \/ \E r \in Slots : CreateTemplate(r) \/ PublishPoint(r)
      \/ \E u \in Templates : Archive(u)
  BY DEF TemplatesNext, templateVars, DraftStep, DraftStart, DraftCheck, DraftNumber,
         InsertVersion, InsertRefused, UpdateRead, UpdateWrite, PublishStep,
         PublishCheck, PublishRead, PublishWrite, PublishRefused, PinStep,
         PinRead, PinInsert, Abort
<1>5. Publishers(t)' = {}
  BY PublishersAppear
<1> QED
  BY <1>1, <1>2, <1>3, <1>4, <1>5

\* An archived template is final once the publications that were in flight
\* when it was archived are over: publishVersion checks before it points.
THEOREM ArchiveFinal == TemplatesSpec => ArchivedIsFinal
<1>1. TemplatesInv /\ [TemplatesNext]_templateVars
        => [KeepsArchived]_templateVars
  BY ArchivedStep DEF KeepsArchived
<1> QED
  BY <1>1, TemplatesInductive, PTL DEF TemplatesSpec, ArchivedIsFinal

\* Publications and archivings are final but for the handlers in flight.
THEOREM RacesUndo == TemplatesSpec => OnlyRacesUndo
<1>1. [KeepsPublished]_templateVars /\ [KeepsArchived]_templateVars
        => [KeepsPublished /\ KeepsArchived]_templateVars
  OBVIOUS
<1> QED
  BY <1>1, PublishedFrozen, ArchiveFinal, PTL
     DEF OnlyRacesUndo, PublishedIsFrozen, ArchivedIsFinal

-----------------------------------------------------------------------------
(* The signer's form.                                                      *)

LEMMA LeafFields ==
    ASSUME NEW f \in Form, NEW l \in f.leaves
    PROVE  /\ l.key \in Keys
           /\ l.type \in {"text", "check", "pattern", "choice", "signature"}
           /\ l.required \in BOOLEAN
           /\ l.options \subseteq Entries
           /\ l.under \in Seq(Condition)
<1>1. l \in Leaf
  BY DEF Form
<1> QED
  BY <1>1 DEF Leaf

\* A leaf below a section stands below one of the form's.
LEMMA UnderIsSection ==
    ASSUME NEW f \in Form, NEW l \in f.leaves, l.under # <<>>
    PROVE  l.under \in Sections(f) /\ Len(l.under) \in Nat \ {0}
<1>1. l.under \in Seq(Condition) /\ Len(l.under) \in Nat \ {0}
  BY LeafFields
<1>2. SubSeq(l.under, 1, Len(l.under)) = l.under /\ Len(l.under) \in 1 .. Len(l.under)
  BY <1>1
<1> QED
  BY <1>1, <1>2 DEF Sections

\* What the page shows of fields, the server counts in: it knows each section
\* the page knows, and asks of it no more than the page does.
LEMMA DisplayedIsEffective ==
    ASSUME NEW f \in Form, NEW v, NEW l \in f.leaves, Displayed(l, v)
    PROVE  l \in Effective(f, v)
<1>1. CASE l.under = <<>>
  BY <1>1 DEF Effective
<1>2. CASE l.under # <<>>
  <2>1. l.under \in Sections(f) /\ Len(l.under) \in Nat \ {0}
    BY <1>2, UnderIsSection
  <2>2. Len(l.under) = 1 /\ Holds(l.under[1], v)
    <3>1. Len(l.under) <= 1
      BY DEF Displayed
    <3>2. Holds(l.under[1], v)
      BY <1>2 DEF Displayed
    <3>3. \A n \in Nat \ {0} : n <= 1 => n = 1
      OBVIOUS
    <3>4. Len(l.under) = 1
      BY <2>1, <3>1, <3>3
    <3> QED
      BY <3>2, <3>4
  <2>3. Innermost(l.under).field \in ShownKeys(f, v)
    BY <2>1, <2>2 DEF ShownKeys, Innermost
  <2> QED
    BY <2>3 DEF Effective
<1> QED
  BY <1>1, <1>2

LEMMA InputsAreValues ==
    ASSUME NEW f \in Form, NEW l \in f.leaves
    PROVE  Inputs(l) \subseteq Values
<1>1. l.options \subseteq Entries
  BY LeafFields
<1>2. \A o \in Entries : Rendering[o] \in Strings \cup {Blank}
  BY FormAssumption
<1>3. l.type = "choice" => {Rendering[o] : o \in l.options} \subseteq Strings \cup {Blank}
  BY <1>1, <1>2
<1> QED
  BY <1>3, LeafFields DEF Inputs, Untouched, Values, Missing

FormInv ==
    /\ FormTypeOK
    /\ outcome = "accepted" => Blamed(form, answers) = {}

LEMMA FormHolds == FormSpec => []FormInv
<1>1. FormInit => FormInv
  BY DEF FormInit, FormInv, FormTypeOK, Values, Missing
<1>2. FormInv /\ [FormNext]_formVars => FormInv'
  <2> SUFFICES ASSUME FormInv, [FormNext]_formVars
               PROVE  FormInv'
    OBVIOUS
  <2>1. CASE Publish
    BY <2>1 DEF Publish, FormVerdict, FormInv, FormTypeOK, Blamed
  <2>2. ASSUME NEW k \in Keys, FillIn(k)
        PROVE  FormInv'
    <3>1. PICK l \in form.leaves : \E v \in Inputs(l) : answers' = [answers EXCEPT ![k] = v]
      BY <2>2 DEF FillIn, InputsOf
    <3>2. Inputs(l) \subseteq Values
      BY <3>1, FormAssumption, InputsAreValues DEF FormInv, FormTypeOK
    <3> QED
      BY <2>2, <3>1, <3>2 DEF FillIn, FormInv, FormTypeOK
  <2>3. CASE Submit
    BY <2>3 DEF Submit, FormInv, FormTypeOK
  <2>4. CASE OpenPage
    <3>1. answers' \in [Keys -> Missing] /\ Missing \subseteq Values
      BY <2>4 DEF OpenPage, Values
    <3>2. answers' \in [Keys -> Values]
      BY <3>1
    <3> QED
      BY <2>4, <3>2 DEF OpenPage, FormInv, FormTypeOK
  <2>5. CASE UNCHANGED formVars
    BY <2>5 DEF formVars, FormInv, FormTypeOK
  <2> QED
    BY <2>1, <2>2, <2>3, <2>4, <2>5 DEF FormNext
<1> QED
  BY <1>1, <1>2, PTL DEF FormSpec

\* Whatever form is published and whatever is typed into it, in which order: a
\* submission that complete takes answers all that the page demanded.
THEOREM AcceptedComplete == FormSpec => []AcceptedIsComplete
<1>1. FormInv => AcceptedIsComplete
  <2> SUFFICES ASSUME FormInv, outcome = "accepted", NEW l \in form.leaves,
                      Displayed(l, answers), l.required, l.type # "signature"
               PROVE  answers[l.key] \notin Missing /\ Fits(l, answers[l.key])
    BY DEF AcceptedIsComplete
  <2>1. form \in Form
    BY FormAssumption DEF FormInv, FormTypeOK
  <2>2. l \in Effective(form, answers)
    BY <2>1, DisplayedIsEffective
  <2>3. l \notin Blamed(form, answers)
    BY DEF FormInv
  <2> QED
    BY <2>2, <2>3 DEF Blamed
<1> QED
  BY <1>1, FormHolds, PTL

-----------------------------------------------------------------------------
(* A plain form has answers.                                               *)
(*                                                                         *)
(* Give every key the answer that fits its block, and answer only what has *)
(* to be answered: a required field of the top level, and one in a section *)
(* that the answers given so far open.  The least set of blocks that is    *)
(* closed under this is it: each of its answers stands in an input that is *)
(* shown, and nothing else that is shown has to be answered.               *)

\* An answer that fits a block.
Suits(l, value) == value \in Inputs(l) \ Missing /\ Fits(l, value)

\* What the form asks for, if the page shows it.
Asks(l) == l.required /\ l.type # "signature"

\* choice gives every key the form asks for an answer that fits its block.
Choice(f, choice) == \A l \in f.leaves : Asks(l) => Suits(l, choice[l.key])

\* Answering the blocks S opens the section a leaf stands in.
OpenedBy(S, choice, l) ==
    \/ l.under = <<>>
    \/ \E m \in S : m.key = l.under[1].field /\ choice[m.key] = l.under[1].equals

Demands(f, choice, S) ==
    {l \in f.leaves : Asks(l) /\ OpenedBy(S, choice, l)}

\* The blocks to answer.
Needed(f, choice) ==
    {l \in f.leaves : \A S \in SUBSET f.leaves : Demands(f, choice, S) \subseteq S => l \in S}

\* The page as it was opened, but for them.
Given(f, choice) ==
    [k \in Keys |-> IF \E l \in Needed(f, choice) : l.key = k THEN choice[k]
                    ELSE IF InputsOf(f, k) = {} THEN Unset
                    ELSE Untouched(CHOOSE l \in InputsOf(f, k) : TRUE)]

LEMMA NeededIsClosed ==
    ASSUME NEW f, NEW choice
    PROVE  Demands(f, choice, Needed(f, choice)) = Needed(f, choice)
<1> DEFINE N == Needed(f, choice)
           D(S) == Demands(f, choice, S)
<1>1. ASSUME NEW S, NEW T, S \subseteq T
      PROVE  D(S) \subseteq D(T)
  BY <1>1 DEF Demands, OpenedBy
<1>2. \A S : D(S) \in SUBSET f.leaves
  BY DEF Demands
<1>3. ASSUME NEW S \in SUBSET f.leaves, D(S) \subseteq S
      PROVE  N \subseteq S
  BY <1>3 DEF Needed
<1>4. D(N) \subseteq N
  <2>1. ASSUME NEW S \in SUBSET f.leaves, D(S) \subseteq S
        PROVE  D(N) \subseteq S
    <3>1. N \subseteq S
      BY <1>3, <2>1
    <3>2. D(N) \subseteq D(S)
      BY <1>1, <3>1
    <3> QED
      BY <2>1, <3>2
  <2>2. D(N) \subseteq f.leaves
    BY <1>2
  <2> QED
    BY <2>1, <2>2 DEF Needed
<1>5. D(D(N)) \subseteq D(N)
  BY <1>1, <1>4
<1>6. N \subseteq D(N)
  BY <1>2, <1>3, <1>5
<1> QED
  BY <1>4, <1>6

\* Some input of every block that a plain form asks for fits it.
LEMMA ChoiceExists ==
    ASSUME NEW f \in Form, Plain(f)
    PROVE  \E choice \in [Keys -> Values] : Choice(f, choice)
<1>1. ASSUME NEW l \in f.leaves, Asks(l)
      PROVE  \E value \in Values : Suits(l, value)
  <2>1. l.type \in {"text", "check", "pattern", "choice"}
    BY <1>1, LeafFields DEF Asks
  <2>2. CASE l.type = "check"
    BY <2>2, FormAssumption DEF Suits, Inputs, Fits, Values
  <2>3. CASE l.type = "choice"
    <3>1. PICK o \in l.options : Rendering[o] \in l.options \cap Strings
      BY <1>1, <2>3 DEF Plain, Asks
    <3>2. AsText(Rendering[o]) = Rendering[o] /\ Rendering[o] \notin Missing
      BY <3>1, FormAssumption DEF AsText
    <3>3. Rendering[o] \in Inputs(l)
      BY <2>3 DEF Inputs
    <3>4. Fits(l, Rendering[o])
      BY <2>3, <3>1, <3>2 DEF Fits
    <3> QED
      BY <3>1, <3>2, <3>3, <3>4 DEF Suits, Values
  <2>4. CASE l.type = "pattern"
    <3>1. PICK value : value \in Formatted
      BY FormAssumption
    <3> QED
      BY <2>4, <3>1, FormAssumption DEF Suits, Inputs, Fits, Values
  <2>5. CASE l.type = "text"
    <3>1. PICK value : value \in Strings \ TooLong
      BY FormAssumption
    <3> QED
      BY <2>5, <3>1, FormAssumption DEF Suits, Inputs, Fits, Values
  <2> QED
    BY <2>1, <2>2, <2>3, <2>4, <2>5
<1> DEFINE Best(k) == CHOOSE value \in Values :
                         \A l \in f.leaves : l.key = k /\ Asks(l) => Suits(l, value)
           choice == [k \in Keys |-> Best(k)]
<1>2. ASSUME NEW k \in Keys
      PROVE  \E value \in Values : \A l \in f.leaves : l.key = k /\ Asks(l) => Suits(l, value)
  <2>1. CASE \E l \in f.leaves : l.key = k /\ Asks(l)
    <3>1. PICK l \in f.leaves : l.key = k /\ Asks(l)
      BY <2>1
    <3>2. \A m \in f.leaves : m.key = k => m = l
      BY <3>1 DEF Plain
    <3> QED
      BY <1>1, <3>1, <3>2
  <2>2. CASE ~\E l \in f.leaves : l.key = k /\ Asks(l)
    BY <2>2 DEF Values
  <2> QED
    BY <2>1, <2>2
<1>3. \A k \in Keys : /\ Best(k) \in Values
                      /\ \A l \in f.leaves : l.key = k /\ Asks(l) => Suits(l, Best(k))
  BY <1>2
<1> HIDE DEF Best
<1>4. choice \in [Keys -> Values]
  BY <1>3
<1>5. Choice(f, choice)
  BY <1>3, LeafFields DEF Choice
<1> QED
  BY <1>4, <1>5

\* In a plain form the server counts in what the page shows, and no more.
LEMMA EffectiveIsDisplayed ==
    ASSUME NEW f \in Form, Plain(f), NEW v, NEW l \in Effective(f, v)
    PROVE  l.under = <<>> \/ (l.under \in Sections(f) /\ Len(l.under) = 1
                                /\ Holds(l.under[1], v))
<1> SUFFICES ASSUME l.under # <<>>
             PROVE  l.under \in Sections(f) /\ Len(l.under) = 1 /\ Holds(l.under[1], v)
  OBVIOUS
<1>1. l \in f.leaves /\ Innermost(l.under).field \in ShownKeys(f, v)
  BY DEF Effective
<1>2. l.under \in Sections(f) /\ Len(l.under) = 1
  BY <1>1, UnderIsSection DEF Plain
<1>3. PICK q \in Sections(f) : /\ Holds(Innermost(q), v)
                               /\ Innermost(q).field = Innermost(l.under).field
  BY <1>1 DEF ShownKeys
<1>4. Len(q) = 1 /\ Innermost(q) = q[1] /\ Innermost(l.under) = l.under[1]
  BY <1>2 DEF Plain, Innermost
<1>5. q = l.under
  BY <1>2, <1>3, <1>4 DEF Plain
<1> QED
  BY <1>2, <1>3, <1>4, <1>5

\* The answers to what is needed stand on the page, and satisfy complete.
LEMMA GivenIsAccepted ==
    ASSUME NEW f \in Form, Plain(f), NEW choice \in [Keys -> Values], Choice(f, choice)
    PROVE  /\ Given(f, choice) \in [Keys -> Values]
           /\ OnPage(f, Given(f, choice))
           /\ Blamed(f, Given(f, choice)) = {}
<1> DEFINE v == Given(f, choice)
           N == Needed(f, choice)
           First(k) == CHOOSE l \in InputsOf(f, k) : TRUE
<1>1. \A l : Untouched(l) \in Missing
  BY DEF Untouched, Missing
<1>2. v \in [Keys -> Values]
  <2>1. \A k \in Keys : v[k] \in {choice[k], Unset, Untouched(First(k))}
    BY DEF Given
  <2>2. Missing \subseteq Values /\ Unset \in Missing
    BY DEF Values, Missing
  <2>3. \A k \in Keys : v[k] \in Values
    BY <1>1, <2>1, <2>2
  <2>4. v = [k \in Keys |-> v[k]]
    BY DEF Given
  <2> HIDE DEF v
  <2> QED
    BY <2>3, <2>4
<1>3. N \subseteq f.leaves
  BY DEF Needed
<1>4. \A l \in f.leaves : l \in N <=> Asks(l) /\ OpenedBy(N, choice, l)
  BY NeededIsClosed DEF Demands
<1>5. \A l \in f.leaves :
         /\ l.key \in Keys
         /\ Asks(l) => /\ choice[l.key] \notin Missing /\ Fits(l, choice[l.key])
                       /\ choice[l.key] \in Inputs(l)
  BY LeafFields DEF Choice, Suits
<1>6. \A l \in N : v[l.key] = choice[l.key]
  BY <1>3, <1>5 DEF Given
<1>7. \A k \in Keys :
         \/ \E l \in N : l.key = k /\ v[k] = choice[k]
         \/ InputsOf(f, k) = {} /\ v[k] = Unset
         \/ InputsOf(f, k) # {} /\ v[k] = Untouched(First(k))
  BY DEF Given
<1>8. \A k \in Keys : v[k] \notin Missing => \E l \in N : l.key = k /\ v[k] = choice[k]
  BY <1>1, <1>7 DEF Missing
<1> HIDE DEF v, N
<1>9. ASSUME NEW l \in N
      PROVE  Displayed(l, v) /\ Rendered(l)
  <2>1. l \in f.leaves /\ l.type # "signature" /\ OpenedBy(N, choice, l)
    BY <1>3, <1>4 DEF Asks
  <2>2. CASE l.under = <<>>
    BY <2>1, <2>2 DEF Displayed, Rendered
  <2>3. CASE l.under # <<>>
    <3>1. Len(l.under) = 1
      BY <2>1, <2>3, UnderIsSection DEF Plain
    <3>2. PICK m \in N : m.key = l.under[1].field /\ choice[m.key] = l.under[1].equals
      BY <2>1, <2>3 DEF OpenedBy
    <3>3. Holds(l.under[1], v)
      BY <1>6, <3>2 DEF Holds
    <3> QED
      BY <2>3, <3>1, <3>3 DEF Displayed, Rendered
  <2> QED
    BY <2>2, <2>3
<1>10. OnPage(f, v)
  <2> SUFFICES ASSUME NEW k \in Keys
               PROVE  IF InputsOf(f, k) = {} THEN v[k] = Unset
                      ELSE \E l \in InputsOf(f, k) :
                              /\ v[k] \in Inputs(l)
                              /\ v[k] \notin Missing => Displayed(l, v)
    BY DEF OnPage
  <2>1. CASE \E l \in N : l.key = k /\ v[k] = choice[k]
    <3>1. PICK l \in N : l.key = k /\ v[k] = choice[k]
      BY <2>1
    <3>2. l \in InputsOf(f, k) /\ Displayed(l, v)
      BY <1>3, <1>9, <3>1 DEF InputsOf
    <3>3. v[k] \in Inputs(l)
      BY <1>3, <1>4, <1>5, <3>1
    <3> QED
      BY <3>2, <3>3
  <2>2. CASE InputsOf(f, k) = {} /\ v[k] = Unset
    BY <2>2
  <2>3. CASE InputsOf(f, k) # {} /\ v[k] = Untouched(First(k))
    <3>1. First(k) \in InputsOf(f, k)
      BY <2>3
    <3>2. v[k] \in Inputs(First(k)) /\ v[k] \in Missing
      BY <1>1, <2>3 DEF Inputs
    <3> QED
      BY <3>1, <3>2
  <2> QED
    BY <1>7, <2>1, <2>2, <2>3
<1>11. ASSUME NEW l \in Blamed(f, v)
       PROVE  FALSE
  <2>1. /\ l \in Effective(f, v)
        /\ l \in f.leaves
        /\ l.type # "signature"
        /\ IF v[l.key] \in Missing THEN l.required ELSE ~Fits(l, v[l.key])
    BY <1>11 DEF Blamed, Effective
  <2>2. CASE v[l.key] \notin Missing
    <3>1. PICK m \in N : m.key = l.key /\ v[l.key] = choice[l.key]
      BY <1>5, <1>8, <2>1, <2>2
    <3>2. m = l
      BY <1>3, <2>1, <3>1 DEF Plain
    <3>3. Fits(l, choice[l.key])
      BY <1>4, <1>5, <2>1, <3>1, <3>2
    <3> QED
      BY <2>1, <2>2, <3>1, <3>3
  <2>3. CASE v[l.key] \in Missing
    <3>1. OpenedBy(N, choice, l)
      <4>1. CASE l.under = <<>>
        BY <4>1 DEF OpenedBy
      <4>2. CASE l.under # <<>>
        <5>1. /\ l.under \in Seq(Condition)
              /\ l.under \in Sections(f)
              /\ Len(l.under) = 1
              /\ Holds(l.under[1], v)
          BY <2>1, <4>2, EffectiveIsDisplayed, LeafFields
        <5>2. l.under[1].field \in Keys /\ l.under[1].equals \notin Missing
          <6>1. l.under[1] \in Condition
            BY <5>1
          <6>2. l.under[1].equals \notin Missing
            BY <5>1 DEF Plain
          <6> QED
            BY <6>1, <6>2 DEF Condition
        <5>3. PICK m \in N : /\ m.key = l.under[1].field
                             /\ v[m.key] = choice[m.key]
          BY <1>8, <5>1, <5>2 DEF Holds
        <5> QED
          BY <5>1, <5>3 DEF Holds, OpenedBy
      <4> QED
        BY <4>1, <4>2
    <3>2. l \in N /\ Asks(l)
      BY <1>4, <2>1, <2>3, <3>1 DEF Asks
    <3> QED
      BY <1>5, <1>6, <2>1, <2>3, <3>2
  <2> QED
    BY <2>2, <2>3
<1> QED
  BY <1>2, <1>10, <1>11 DEF v

\* Whatever plain form is published: some answers the page can hold are
\* accepted, so no signer is stuck in front of it.
THEOREM PlainFormsSubmit == FormSpec => []PlainFormsCanBeSubmitted
<1>1. FormInv => PlainFormsCanBeSubmitted
  <2> SUFFICES ASSUME FormInv, Plain(form)
               PROVE  \E v \in [Keys -> Values] : OnPage(form, v) /\ Blamed(form, v) = {}
    BY DEF PlainFormsCanBeSubmitted
  <2>1. form \in Form
    BY FormAssumption DEF FormInv, FormTypeOK
  <2>2. PICK choice \in [Keys -> Values] : Choice(form, choice)
    BY <2>1, ChoiceExists
  <2> QED
    BY <2>1, <2>2, GivenIsAccepted
<1> QED
  BY <1>1, FormHolds, PTL
=============================================================================
