----------------------------- MODULE Retention -----------------------------
(***************************************************************************)
(* Which sessions the retention job (expireOverdue) gets rid of.  It is    *)
(* the last job of a tick of the worker (apps/worker/src/index.ts), behind *)
(* the deliveries, and a row it cannot expire ends it: both stand between  *)
(* a lapsed session and its expiry.  The order in which a run works        *)
(* through its rows is the database's.                                     *)
(***************************************************************************)
EXTENDS SigningSerial

\* A delivery to an endpoint whose secret cannot be decrypted is due: the
\* tick throws before it gets to the sweep (see DeliveryQueue).
VARIABLE jammed

retentionVars == <<vars, jammed>>

\* Bound: at most one of the sessions needs a guardian.
RetentionInit ==
    /\ Init
    /\ \A s, t \in Sessions : minor[s] /\ minor[t] => s = t
    /\ jammed = FALSE

\* Such a delivery comes due, or its endpoint is removed.
Jam ==
    /\ jammed' = ~jammed
    /\ UNCHANGED vars

\* One step of the job; a tick that is jammed never starts it.
RetentionStep(w) ==
    /\ SweepStep(w)
    /\ SweepRead(w) => ~jammed
    /\ OneAtATime'
    /\ UNCHANGED jammed

\* The worker is killed in a run that would not have thrown.
RetentionKilled(w) ==
    /\ SweepAbort(w)
    /\ ~SweepThrow(w)
    /\ OneAtATime'
    /\ UNCHANGED jammed

\* A request is taken, runs on, or dies.
RequestStep(r) ==
    /\ StaffStep(r) \/ SignerStep(r) \/ FinalizeStep(r) \/ Abort(r)
    /\ OneAtATime'
    /\ UNCHANGED jammed

RetentionNext ==
    \/ \E w \in Sweepers : RetentionStep(w) \/ RetentionKilled(w)
    \/ \E r \in Slots : RequestStep(r)
    \/ \E s \in Sessions : Elapse(s) /\ OneAtATime' /\ UNCHANGED jammed
    \/ Jam

\* Ticks are started for ever and get a turn among the requests; from some
\* time on they are not killed any more.  What a run does with its rows is
\* its own affair: it may throw each time.
RetentionFairness ==
    \A w \in Sweepers : /\ SF_retentionVars(RetentionStep(w))
                        /\ <>[][~RetentionKilled(w)]_retentionVars

\* A request that has been taken runs on, or dies; nothing obliges a signer
\* or a member of staff to make one.
RequestFairness ==
    \A r \in Slots : WF_retentionVars(~At(r, "idle") /\ RequestStep(r))

RetentionSpec ==
    /\ RetentionInit
    /\ [][RetentionNext]_retentionVars
    /\ RetentionFairness
    /\ RequestFairness

-----------------------------------------------------------------------------
(* Properties.                                                             *)

Unstarted(s) == overdue[s] /\ status[s] \in {"created", "sent", "viewed"}

\* What can keep the job from a row: deliveries that throw before it, and an
\* overdue row in progress, which the transition table does not let expire.
Obstructed ==
    jammed \/ \E s \in Sessions : overdue[s] /\ status[s] = "in_progress"

\* A session nobody has started to fill in is retired after its deadline
\* unless one of the two comes in between; nothing else keeps it, neither
\* stale rows of a run, nor kills, nor other lapsed sessions.
UnstartedIsRetired ==
    \A s \in Sessions : Unstarted(s) ~> ~Unstarted(s) \/ Obstructed

\* What the comment on expireOverdue promises: every session that is past its
\* deadline and not finalized is expired, if only the job gets to run.
OverdueIsRetired ==
    \A s \in Sessions : Lapsed(s) ~> ~Lapsed(s) \/ jammed
=============================================================================
