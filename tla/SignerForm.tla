----------------------------- MODULE SignerForm -----------------------------
(***************************************************************************)
(* A document's form from the draft to the submission: what               *)
(* validateDocumentSchema lets through (packages/templates/src/schema.ts), *)
(* what the signer page shows of it (apps/api/src/routes/signer-page.ts),  *)
(* and what complete demands (packages/signing/src/fields.ts).             *)
(*                                                                         *)
(* The tree of blocks is represented by its leaves: a field, initials or   *)
(* signature block carries the conditions of the sections around it, the   *)
(* outermost first.  A section that holds only text is a path without a    *)
(* leaf.  Two blocks that say the same are one.                            *)
(***************************************************************************)
EXTENDS Naturals, Sequences

CONSTANTS
    Keys,       \* field keys
    Unset,      \* undefined: nothing has been entered or rendered
    Blank,      \* null: an empty input
    Unticked,   \* false
    Ticked,     \* true
    TickedText, \* what String makes of true
    Strings,    \* texts a signer may enter or choose, none of them empty
    Formatted,  \* those that pass the patterns of email, phone and dob
    TooLong,    \* those of more than 5000 characters
    Odd,        \* what else a schema may hold in place of a text: the empty
                \* one, numbers, objects
    Rendering,  \* per entry of an option list, the value of its <option>
    Forms       \* the schemas an author may write

Missing == {Unset, Blank, Unticked}
Values == Strings \cup Missing \cup {Ticked}
Condition == [field : Keys, equals : Values \cup Odd]

\* An option list is an array of anything.
Entries == Strings \cup {Blank, Unticked, Ticked} \cup Odd

\* "check" stands for checkbox and initials, "pattern" for email, phone and
\* dob, "choice" for radio and select.
Leaf == [key : Keys, type : {"text", "check", "pattern", "choice", "signature"},
         required : BOOLEAN, options : SUBSET Entries, under : Seq(Condition)]

\* A block with an empty text or label, an unknown type or role, or without
\* its options is "reported"; so is a section without condition or blocks,
\* or a block that is null, but the walk over the references trips over it.
Form == [leaves : SUBSET Leaf, sections : SUBSET Seq(Condition),
         flaw : {"none", "reported", "unwalkable"}]

\* Addresses, numbers and dates that pass the patterns exist, and so do texts
\* that are not too long.  An entry is rendered as a text; an empty one counts
\* as an empty input.
ASSUME FormAssumption ==
    /\ Forms \subseteq Form
    /\ Ticked \notin Missing
    /\ Strings \cap (Missing \cup {Ticked} \cup Odd) = {}
    /\ Odd \cap (Missing \cup {Ticked}) = {}
    /\ TickedText \in Strings
    /\ Formatted \subseteq Strings
    /\ Formatted # {}
    /\ TooLong \subseteq Strings /\ Strings \ TooLong # {}
    /\ Rendering \in [Entries -> Strings \cup {Blank}]

VARIABLES
    form,     \* the schema
    stage,    \* what publishVersion made of it, and whether the page is open
    answers,  \* the signer page's values
    outcome   \* of the last submission

formVars == <<form, stage, answers, outcome>>

\* The type invariant of a form and of its submission.
FormTypeOK ==
    /\ form \in Forms
    /\ stage \in {"draft", "published", "refused", "broken", "opened"}
    /\ answers \in [Keys -> Values]
    /\ outcome \in {"none", "rejected", "accepted"}

FormInit ==
    /\ form \in Forms
    /\ stage = "draft"
    /\ answers = [k \in Keys |-> Unset]
    /\ outcome = "none"

Innermost(path) == path[Len(path)]

\* Every section of the schema, as the path to it.
Sections(f) ==
    UNION {{SubSeq(p, 1, n) : n \in 1 .. Len(p)} :
               p \in f.sections \cup {l.under : l \in f.leaves}}

-----------------------------------------------------------------------------
(* validateDocumentSchema.                                                 *)

\* A condition names a field that no block defines.
Dangling(f) ==
    \E p \in Sections(f) :
        Innermost(p).field \notin {l.key : l \in f.leaves}

Empty(f) == f.leaves = {} /\ f.sections = {}

FormVerdict(f) ==
    IF f.flaw = "unwalkable" THEN "broken"
    ELSE IF f.flaw = "reported" \/ Empty(f) \/ Dangling(f) THEN "refused"
    ELSE "published"

Publish ==
    /\ stage = "draft"
    /\ stage' = FormVerdict(form)
    /\ UNCHANGED <<form, answers, outcome>>

-----------------------------------------------------------------------------
(* The signer page.                                                        *)

Holds(c, v) == v[c.field] = c.equals

\* A section of the top level is a card, hidden while its condition fails;
\* sections inside it are not rendered, nor are signatures outside of one.
Displayed(l, v) ==
    /\ Len(l.under) <= 1
    /\ IF l.under = <<>> THEN l.type # "signature" ELSE Holds(l.under[1], v)

Rendered(l) == Len(l.under) <= 1 /\ (l.under = <<>> => l.type # "signature")

\* What an input says that nobody has touched.
Untouched(l) == IF l.type \in {"check", "signature"} THEN Unticked ELSE Blank

\* What the input of a leaf can say; the first option of a choice is empty.
Inputs(l) ==
    {Untouched(l)} \cup
        CASE l.type \in {"check", "signature"} -> {Ticked}
          [] l.type = "choice" -> {Rendering[o] : o \in l.options}
          [] OTHER -> Strings

InputsOf(f, k) == {l \in f.leaves : l.key = k /\ Rendered(l)}

\* The page is loaded: every input, hidden or not, enters what it says; of
\* two for one key the later one wins.
OpenPage ==
    /\ stage \in {"published", "opened"}
    /\ outcome # "accepted"
    /\ stage' = "opened"
    /\ answers' \in {v \in [Keys -> Missing] : \A k \in Keys :
           IF InputsOf(form, k) = {} THEN v[k] = Unset
           ELSE v[k] \in {Untouched(l) : l \in InputsOf(form, k)}}
    /\ outcome' = "none"
    /\ UNCHANGED form

\* An input is changed; what was typed into inputs hidden by now is kept.
FillIn(k) ==
    /\ stage = "opened"
    /\ outcome # "accepted"
    /\ \E l \in InputsOf(form, k) :
          /\ Displayed(l, answers)
          /\ \E v \in Inputs(l) : answers' = [answers EXCEPT ![k] = v]
    /\ outcome' = "none"
    /\ UNCHANGED <<form, stage>>

-----------------------------------------------------------------------------
(* validateSubmittedFields.                                                *)

\* Mutant: conditional fields are always counted in.
ShownAlways(f, v) == {Innermost(p).field : p \in Sections(f)}

\* The keys of the conditions that hold; which section a condition belongs
\* to is forgotten.
ShownKeys(f, v) ==
    {Innermost(p).field : p \in {q \in Sections(f) : Holds(Innermost(q), v)}}

\* Mutant: only what is outside of any section counts.
EffectiveOutside(f, v) == {l \in f.leaves : l.under = <<>>}

Effective(f, v) ==
    {l \in f.leaves : \/ l.under = <<>>
                      \/ Innermost(l.under).field \in ShownKeys(f, v)}

\* String(value).
AsText(value) == IF value = Ticked THEN TickedText ELSE value

\* Only an option that is a text can be equal to one.
Fits(l, value) ==
    CASE l.type = "pattern" -> value \in Formatted
      [] l.type = "choice" -> AsText(value) \in l.options
      [] OTHER -> value \notin TooLong

\* The leaves an error is reported for.  Signatures are checked elsewhere.
Blamed(f, v) ==
    {l \in Effective(f, v) :
        /\ l.type # "signature"
        /\ IF v[l.key] \in Missing THEN l.required ELSE ~Fits(l, v[l.key])}

Submit ==
    /\ stage = "opened"
    /\ outcome = "none"
    /\ outcome' = IF Blamed(form, answers) = {} THEN "accepted" ELSE "rejected"
    /\ UNCHANGED <<form, stage, answers>>

FormNext == Publish \/ OpenPage \/ (\E k \in Keys : FillIn(k)) \/ Submit

FormSpec == FormInit /\ [][FormNext]_formVars

-----------------------------------------------------------------------------
(* Properties.                                                             *)

\* A submission that complete takes has a fitting answer for every required
\* field the page was showing, in a section or not: the page's idea of what
\* is visible and the server's never part in the signer's favour.
AcceptedIsComplete ==
    outcome = "accepted" =>
        \A l \in form.leaves :
            Displayed(l, answers) /\ l.required /\ l.type # "signature"
                => answers[l.key] \notin Missing /\ Fits(l, answers[l.key])

\* Forms without what the page and the walk disagree about: a section in a
\* section, two sections on different values of one field, a section shown
\* for want of an answer, one key for two blocks, and a required choice of
\* which no option comes back from the page as it was written: an option that
\* is a number, say, or the empty text.
Plain(f) ==
    /\ \A p \in Sections(f) : Len(p) = 1 /\ p[1].equals \notin Missing
    /\ \A p, q \in Sections(f) : p[1].field = q[1].field => p = q
    /\ \A l, m \in f.leaves : l.key = m.key => l = m
    /\ \A l \in f.leaves : l.type = "choice" /\ l.required =>
          \E o \in l.options : Rendering[o] \in l.options \cap Strings

\* v can stand on the page: each key says what one of its inputs can say, and
\* an answer is given in an input that is shown.
OnPage(f, v) ==
    \A k \in Keys :
        IF InputsOf(f, k) = {} THEN v[k] = Unset
        ELSE \E l \in InputsOf(f, k) :
                /\ v[k] \in Inputs(l)
                /\ v[k] \notin Missing => Displayed(l, v)

\* Nobody is stuck in front of a plain form that was published: some answers
\* the page can produce are accepted.
PlainFormsCanBeSubmitted ==
    stage \in {"published", "opened"} /\ Plain(form) =>
        \E v \in [Keys -> Values] : OnPage(form, v) /\ Blamed(form, v) = {}

\* What fields.ts says of walkSchema: a field is only asked for at the top
\* level or inside a section that is shown.
OnlyShownIsRequired ==
    outcome = "rejected" =>
        \A l \in Blamed(form, answers) :
            \A n \in 1 .. Len(l.under) : Holds(l.under[n], answers)
=============================================================================
