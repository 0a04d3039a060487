---------------------------- MODULE MCSignerForm ----------------------------
(***************************************************************************)
(* Instances of SignerForm for TLC: a question and, somewhere below it, a  *)
(* second field that may depend on the answer.                             *)
(***************************************************************************)
EXTENDS SignerForm

CONSTANTS one, empty  \* entries that are no text, or an empty one

\* The number 1 is rendered as "b", the empty text as none.
MCRendering ==
    [o \in Entries |-> CASE o \in Strings -> o
                         [] o = one -> "b"
                         [] o = Ticked -> TickedText
                         [] OTHER -> Blank]

If(k, value) == [field |-> k, equals |-> value]

Field(k, type, required, options, under) ==
    [key |-> k, type |-> type, required |-> required, options |-> options,
     under |-> under]

Questions ==
    {Field("k1", "choice", TRUE, options, <<>>) :
        options \in {{"a", "b"}, {"a", one}, {one}, {empty}, {}}}
    \cup {Field("k1", "text", FALSE, {}, <<>>),
          Field("k1", "text", TRUE, {}, <<>>),
          Field("k1", "pattern", TRUE, {}, <<>>),
          Field("k1", "check", FALSE, {}, <<>>)}

FollowUps ==
    {Field("k2", type, required, {}, under) :
        type \in {"check", "pattern", "signature"}, required \in BOOLEAN,
        under \in {<<>>, <<If("k1", "a")>>, <<If("k1", "a"), If("k1", "b")>>,
                   <<If("k1", "b"), If("k2", Ticked)>>, <<If("k1", Ticked)>>,
                   <<If("k1", Blank)>>, <<If("k1", one)>>}}

MCForms ==
    [leaves : {{q, s} : q \in Questions, s \in FollowUps}
                  \cup {{s} : s \in FollowUps}
                  \cup {{q, r} : q, r \in Questions} \cup {{}},
     sections : {{}, {<<If("k1", "b")>>}, {<<If("k1", "a"), If("k2", Ticked)>>}},
     flaw : {"none"}]
    \cup [leaves : {{q} : q \in Questions}, sections : {{}},
          flaw : {"reported", "unwalkable"}]
=============================================================================
