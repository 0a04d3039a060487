--------------------------- MODULE SigningStatus ---------------------------
(***************************************************************************)
(* The status vocabulary of a signing session and the transition table     *)
(* that packages/core consults (packages/core/src/signing/status.ts).      *)
(***************************************************************************)

\* Every value of SigningSessionStatus.
Status ==
    {"created", "sent", "viewed", "in_progress", "processing", "completed",
     "declined", "cancelled", "expired", "failed"}

\* TRANSITIONS as a set of <<from, to>> pairs.
Transitions ==
    UNION { {"created"} \X {"sent", "cancelled", "expired"},
            {"sent"} \X {"viewed", "cancelled", "expired"},
            {"viewed"} \X {"in_progress", "declined", "expired", "cancelled"},
            {"in_progress"} \X {"processing", "declined", "cancelled"},
            {"processing"} \X {"completed", "failed"},
            {"failed"} \X {"processing"} }

\* canTransition: what assertTransition tests before it throws.
CanTransition(from, to) == <<from, to>> \in Transitions

\* TERMINAL_STATUSES: the statuses with no way out.
Terminal == {st \in Status : \A to \in Status : ~CanTransition(st, to)}

\* The statuses in which a link past its deadline is expired; resolveByToken
\* and expireOverdue spell out the same list.
Open == {"created", "sent", "viewed", "in_progress"}
=============================================================================
