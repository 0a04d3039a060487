-------------------------- MODULE SigningLifecycle --------------------------
(***************************************************************************)
(* What a signing session promises, with no handlers in sight: it moves    *)
(* from created towards viewed, collects signatures while it is being      *)
(* filled in, is submitted only when everybody who has to sign has signed, *)
(* and is either completed or withdrawn, which kills its link.             *)
(***************************************************************************)
CONSTANT Sessions

VARIABLES
    phase,     \* where the session stands
    needed,    \* who has to sign
    signed,    \* who has signed
    linkDead   \* the signer's link no longer works

lifecycleVars == <<phase, needed, signed, linkDead>>

Init ==
    /\ phase = [s \in Sessions |-> "none"]
    /\ needed \in [Sessions -> {{"signer"}, {"signer", "guardian"}}]
    /\ signed = [s \in Sessions |-> {}]
    /\ linkDead = [s \in Sessions |-> FALSE]

Move(s, from, to) ==
    /\ phase[s] \in from
    /\ phase' = [phase EXCEPT ![s] = to]
    /\ UNCHANGED <<needed, signed, linkDead>>

Create(s) == Move(s, {"none"}, "created")
Send(s) == Move(s, {"created"}, "sent")
View(s) == Move(s, {"created", "sent"}, "viewed")
Progress(s) == Move(s, {"viewed"}, "in_progress")
Complete(s) == Move(s, {"processing"}, "completed")

Submit(s) ==
    /\ needed[s] \subseteq signed[s]
    /\ Move(s, {"viewed", "in_progress"}, "processing")

\* Signatures arrive only while the session is being filled in, and are
\* never taken back.
Sign(s) ==
    /\ phase[s] \in {"viewed", "in_progress"}
    /\ \E p \in needed[s] \ signed[s] :
          signed' = [signed EXCEPT ![s] = @ \cup {p}]
    /\ UNCHANGED <<phase, needed, linkDead>>

\* Cancelled, declined or expired: possible until the session is submitted,
\* and the link dies with it.
Withdraw(s, to) ==
    /\ phase[s] \in IF to = "declined" THEN {"viewed", "in_progress"}
                    ELSE {"created", "sent", "viewed", "in_progress"}
    /\ phase' = [phase EXCEPT ![s] = to]
    /\ linkDead' = [linkDead EXCEPT ![s] = TRUE]
    /\ UNCHANGED <<needed, signed>>

Next ==
    \E s \in Sessions :
        \/ Create(s) \/ Send(s) \/ View(s) \/ Progress(s)
        \/ Sign(s) \/ Submit(s) \/ Complete(s)
        \/ \E to \in {"cancelled", "declined", "expired"} : Withdraw(s, to)

Spec == Init /\ [][Next]_lifecycleVars
=============================================================================
