---------------------------- MODULE MCBackOffice ----------------------------
(***************************************************************************)
(* Instances of the services of BackOffice for TLC.                        *)
(***************************************************************************)
EXTENDS BackOffice, MCSignerForm, TLC

\* A subscription of one customer, two purchases, and an event of no concern.
PaddleEvent(kind, id, item, custom, owner) ==
    [kind |-> kind, id |-> id, customer |-> "c1", item |-> item,
     custom |-> custom, owner |-> owner]

MCPaddleEvents ==
    {PaddleEvent("activated", "s1", "pro", Absent, "o1"),
     PaddleEvent("canceled", "s1", "pro", Absent, Absent),
     PaddleEvent("past_due", "s1", Absent, "pro", "o1"),
     PaddleEvent("completed", "t1", "pro", "range", "o1"),
     PaddleEvent("completed", "t2", Absent, Absent, "o1"),
     PaddleEvent("other", "s1", "pro", Absent, "o1")}

MCEmail == [s \in Spellings |-> IF s = "Ann" THEN "ann" ELSE s]

MCNormalized ==
    [a \in Addresses |-> CASE a = "A" -> "a" [] a = "b" -> "b" [] OTHER -> NoAddress]

MCRelatable == {<<1, 2>>}

MCImportFiles == {<<"b", "?", "A">>, <<"A", "A">>}

\* The handlers of every service go by the same names, and so do templates,
\* organizations, passwords, checksums, reasons and visits.
Interchangeable == Permutations(Slots) \cup Permutations(Templates)
=============================================================================
