------------------------------ MODULE CheckIns ------------------------------
(***************************************************************************)
(* Visits and QR codes (checkIn of packages/customers/src/checkin.ts and   *)
(* apps/api/src/routes/checkin.ts).                                        *)
(*                                                                         *)
(* checkIn looks for the day's visit and inserts one if there is none; a   *)
(* unique index over customer and day settles what two desks do at once,   *)
(* and a desk that got no answer may try again.  One customer, and one     *)
(* template for the codes to lead to.  The status card of the answer is    *)
(* the subject of StatusCard, but for its last visit.                      *)
(***************************************************************************)
EXTENDS Naturals

CONSTANTS
    Desks,      \* handlers that may be in progress
    LastDay,    \* bound on the days that pass
    VisitIds,   \* ids of checkins rows
    NoVisit     \* no row

ASSUME CheckInAssumption ==
    /\ LastDay \in Nat \ {0}
    /\ NoVisit \notin VisitIds

VARIABLES
    today,
    visits,  \* the checkins table by day
    given,   \* history: the answers to check-ins
    shelf,   \* the template's status
    codes,   \* there is a QR code for the template
    desk     \* what each handler is doing

deskVars == <<today, visits, given, shelf, codes, desk>>

Days == 1 .. LastDay
Away == [pc |-> "idle", day |-> 0, visit |-> NoVisit, duplicate |-> FALSE,
         shut |-> FALSE]

DeskState ==
    [pc : {"idle", "lookup", "insert", "card", "start", "startable", "closed",
           "publish"},
     day : Days \cup {0}, visit : VisitIds \cup {NoVisit},
     duplicate : BOOLEAN, shut : BOOLEAN]
DeskAnswer ==
    [day : Days, visit : VisitIds, last : Days, duplicate : BOOLEAN, desk : Desks]

\* The type invariant of the desks.
DeskTypeOK ==
    /\ today \in Days
    /\ visits \in [Days -> VisitIds \cup {NoVisit}]
    /\ given \subseteq DeskAnswer
    /\ shelf \in {"draft", "published", "archived"}
    /\ codes \in BOOLEAN
    /\ desk \in [Desks -> DeskState]

DeskInit ==
    /\ today = 1
    /\ visits = [d \in Days |-> NoVisit]
    /\ given = {}
    /\ shelf = "draft"
    /\ codes = FALSE
    /\ desk = [h \in Desks |-> Away]

AtDesk(h, pc) == desk[h].pc = pc
Vacate(h) == desk' = [desk EXCEPT ![h] = Away]

Midnight ==
    /\ today < LastDay
    /\ today' = today + 1
    /\ UNCHANGED <<visits, given, shelf, codes, desk>>

-----------------------------------------------------------------------------
(* checkIn.                                                                *)

\* The day is taken from the clock before the visit is looked for.
CheckIn(h) ==
    /\ AtDesk(h, "idle")
    /\ desk' = [desk EXCEPT ![h] = [Away EXCEPT !.pc = "lookup", !.day = today]]
    /\ UNCHANGED <<today, visits, given, shelf, codes>>

VisitLookup(h) ==
    LET visit == visits[desk[h].day]
    IN /\ AtDesk(h, "lookup")
       /\ desk' = [desk EXCEPT
              ![h].pc = IF visit = NoVisit THEN "insert" ELSE "card",
              ![h].visit = visit,
              ![h].duplicate = (visit # NoVisit)]
       /\ UNCHANGED <<today, visits, given, shelf, codes>>

UnusedVisit(v) == \A d \in Days : visits[d] # v

\* Mutant: no unique index stands behind the lookup.
VisitInsertAnyway(h, v) ==
    LET d == desk[h].day
    IN /\ AtDesk(h, "insert")
       /\ UnusedVisit(v)
       /\ visits' = [visits EXCEPT ![d] = v]
       /\ desk' = [desk EXCEPT ![h].pc = "card", ![h].visit = v]
       /\ UNCHANGED <<today, given, shelf, codes>>

\* The slower of two is refused by the unique index and answers an error.
VisitInsert(h, v) ==
    LET d == desk[h].day
    IN /\ AtDesk(h, "insert")
       /\ UnusedVisit(v)
       /\ IF visits[d] = NoVisit
          THEN /\ visits' = [visits EXCEPT ![d] = v]
               /\ desk' = [desk EXCEPT ![h].pc = "card", ![h].visit = v]
          ELSE Vacate(h) /\ UNCHANGED visits
       /\ UNCHANGED <<today, given, shelf, codes>>

\* The day of the last visit.
LastVisit(d) ==
    /\ visits[d] # NoVisit
    /\ \A e \in Days : visits[e] # NoVisit => e <= d

\* The card with the last visit, and the answer.
AnswerCheckIn(h, last) ==
    LET k == desk[h]
    IN /\ AtDesk(h, "card")
       /\ LastVisit(last)
       /\ given' = given \cup {[day |-> k.day, visit |-> k.visit, last |-> last,
                               duplicate |-> k.duplicate, desk |-> h]}
       /\ Vacate(h)
       /\ UNCHANGED <<today, visits, shelf, codes>>

-----------------------------------------------------------------------------
(* QR codes.                                                               *)

\* publishVersion as far as it concerns the template: its status is looked
\* at, ...
ReleaseCheck(h) ==
    /\ AtDesk(h, "idle")
    /\ shelf # "archived"
    /\ desk' = [desk EXCEPT ![h] = [Away EXCEPT !.pc = "publish"]]
    /\ UNCHANGED <<today, visits, given, shelf, codes>>

\* ... and after the version it is written, whatever it is by then.
ReleaseWrite(h) ==
    /\ AtDesk(h, "publish")
    /\ shelf' = "published"
    /\ Vacate(h)
    /\ UNCHANGED <<today, visits, given, codes>>

\* archive: of a template of any status.
Shelve ==
    /\ shelf' = "archived"
    /\ UNCHANGED <<today, visits, given, codes, desk>>

\* A template of any status may be given a code.
CreateCode ==
    /\ codes' = TRUE
    /\ UNCHANGED <<today, visits, given, shelf, desk>>

\* GET /start: the code is found, then its template is looked at.  Whether
\* it was archived by then, and nobody was about to bring it back, is kept for
\* the property.
ScanCode(h) ==
    /\ AtDesk(h, "idle")
    /\ codes
    /\ desk' = [desk EXCEPT ![h] =
           [Away EXCEPT !.pc = "start", !.shut =
               shelf = "archived" /\ \A k \in Desks : ~AtDesk(k, "publish")]]
    /\ UNCHANGED <<today, visits, given, shelf, codes>>

\* Only a published template can be started.
StartPage(h) ==
    /\ AtDesk(h, "start")
    /\ desk' = [desk EXCEPT ![h].pc =
           IF shelf = "published" THEN "startable" ELSE "closed"]
    /\ UNCHANGED <<today, visits, given, shelf, codes>>

-----------------------------------------------------------------------------

\* The page has been read, or the handler fails or dies.
LeaveDesk(h) ==
    /\ ~AtDesk(h, "idle")
    /\ Vacate(h)
    /\ UNCHANGED <<today, visits, given, shelf, codes>>

DeskNext ==
    \/ Midnight
    \/ Shelve
    \/ CreateCode
    \/ \E h \in Desks :
          \/ CheckIn(h)
          \/ VisitLookup(h)
          \/ \E v \in VisitIds : VisitInsert(h, v)
          \/ \E d \in Days : AnswerCheckIn(h, d)
          \/ ReleaseCheck(h)
          \/ ReleaseWrite(h)
          \/ ScanCode(h)
          \/ StartPage(h)
          \/ LeaveDesk(h)

DeskSpec == DeskInit /\ [][DeskNext]_deskVars

-----------------------------------------------------------------------------
(* Properties.                                                             *)

\* However many desks check a customer in, around midnight or not, whatever
\* is tried again and whoever dies: all who are told of a day's visit are
\* told of the same row, it is in the table, exactly one of them may be told
\* that it is new, and the card with it knows of a visit no earlier.
VisitAnswersAgree ==
    /\ \A g \in given : g.visit = visits[g.day] /\ g.day <= g.last
    /\ \A g, k \in given : g.day = k.day /\ ~g.duplicate /\ ~k.duplicate =>
          g.desk = k.desk /\ g.last = k.last

\* A start page does not offer a template that had been archived when its
\* code was scanned, unless somebody was just publishing a version of it: a
\* publication past its check brings the template back.
StartsAreLive ==
    \A h \in Desks : AtDesk(h, "startable") => ~desk[h].shut

\* Both.
DeskAnswersHold == VisitAnswersAgree /\ StartsAreLive
=============================================================================
