------------------------------ MODULE Accounts ------------------------------
(***************************************************************************)
(* Dashboard accounts (apps/api/src/routes/auth.ts) and the sites of an    *)
(* organization (routes/sites.ts, packages/tenancy/src/repositories.ts).   *)
(*                                                                         *)
(* A sign-up is a look at the users table and then an organization, a      *)
(* user, a root key and an audit event, each a statement of its own with   *)
(* no transaction around them; the unique index on the e-mail address is   *)
(* all that settles a race.  A handler may fail or die before any of them: *)
(* a slug that is taken, a lost connection, a killed process.              *)
(***************************************************************************)
EXTENDS Naturals

CONSTANTS
    Spellings,     \* e-mail addresses as they are typed
    Email,         \* trimmed and in lower case
    Passwords,     \* pairwise different under the hash, long enough
    OrgIds,        \* ids of organizations
    SiteIds,       \* ids of sites
    Nobody,        \* no user, organization, site or password
    Callers        \* handlers that may be in progress

Emails == {Email[s] : s \in Spellings}

ASSUME AccountsAssumption ==
    /\ DOMAIN Email = Spellings
    /\ Nobody \notin Passwords \cup OrgIds \cup SiteIds \cup Emails

VARIABLES
    organizations,  \* ids in the organizations table
    users,          \* dashboard_users by e-mail
    keyed,          \* organizations with a root key
    sites,          \* the organization and the status of each site
    trail,          \* audit events: the organization and the type
    welcomed,       \* history: what the successful sign-ups were told
    errand          \* what each handler is doing

accountVars == <<organizations, users, keyed, sites, trail, welcomed, errand>>

NoUser == [org |-> Nobody, password |-> Nobody]
NoSite == [org |-> Nobody, status |-> "active"]
NoErrand == [pc |-> "idle", email |-> Nobody, password |-> Nobody,
             org |-> Nobody]

User == [org : OrgIds, password : Passwords] \cup {NoUser}
Site == [org : OrgIds \cup {Nobody}, status : {"active", "inactive"}]
Welcome == [email : Emails, password : Passwords, org : OrgIds]
TrailEvent == [org : OrgIds, type : {"organization.created", "auth.login", "site"}]
Errand == [pc : {"idle", "organization", "user", "key", "created",
                 "login_key", "login", "site"},
           email : Emails \cup {Nobody}, password : Passwords \cup {Nobody},
           org : OrgIds \cup {Nobody}]

\* The type invariant of accounts and sites.
AccountsTypeOK ==
    /\ organizations \subseteq OrgIds
    /\ users \in [Emails -> User]
    /\ keyed \subseteq OrgIds
    /\ sites \in [SiteIds -> Site]
    /\ trail \subseteq TrailEvent
    /\ welcomed \subseteq Welcome
    /\ errand \in [Callers -> Errand]

AccountsInit ==
    /\ organizations = {}
    /\ users = [e \in Emails |-> NoUser]
    /\ keyed = {}
    /\ sites = [s \in SiteIds |-> NoSite]
    /\ trail = {}
    /\ welcomed = {}
    /\ errand = [h \in Callers |-> NoErrand]

Busy(h, pc) == errand[h].pc = pc
Proceed(h, pc) == errand' = [errand EXCEPT ![h].pc = pc]
Leave(h) == errand' = [errand EXCEPT ![h] = NoErrand]

-----------------------------------------------------------------------------
(* POST /auth/signup.                                                      *)

\* An address that is taken is told so; else the handler goes on.
SignupCheck(h, s, p) ==
    /\ Busy(h, "idle")
    /\ users[Email[s]] = NoUser
    /\ errand' = [errand EXCEPT ![h] = [NoErrand EXCEPT
           !.pc = "organization", !.email = Email[s], !.password = p]]
    /\ UNCHANGED <<organizations, users, keyed, sites, trail, welcomed>>

SignupOrganization(h, o) ==
    /\ Busy(h, "organization")
    /\ o \notin organizations
    /\ organizations' = organizations \cup {o}
    /\ errand' = [errand EXCEPT ![h].pc = "user", ![h].org = o]
    /\ UNCHANGED <<users, keyed, sites, trail, welcomed>>

\* Mutant: the insert of a user replaces the one that is there.
SignupUserReplaces(h) ==
    LET v == errand[h]
    IN /\ Busy(h, "user")
       /\ users' = [users EXCEPT ![v.email] =
              [org |-> v.org, password |-> v.password]]
       /\ Proceed(h, "key")
       /\ UNCHANGED <<organizations, keyed, sites, trail, welcomed>>

\* Mutant: a user that is there already does not stop the handler.
SignupUserIgnores(h) ==
    LET v == errand[h]
    IN /\ Busy(h, "user")
       /\ users' = IF users[v.email] # NoUser THEN users
                   ELSE [users EXCEPT ![v.email] =
                            [org |-> v.org, password |-> v.password]]
       /\ Proceed(h, "key")
       /\ UNCHANGED <<organizations, keyed, sites, trail, welcomed>>

\* The owner, refused by the index when somebody was faster.
SignupUser(h) ==
    LET v == errand[h]
    IN /\ Busy(h, "user")
       /\ IF users[v.email] = NoUser
          THEN /\ users' = [users EXCEPT ![v.email] =
                      [org |-> v.org, password |-> v.password]]
               /\ Proceed(h, "key")
          ELSE Leave(h) /\ UNCHANGED users
       /\ UNCHANGED <<organizations, keyed, sites, trail, welcomed>>

\* mintRootKey, of a sign-up or of a login.
MintRootKey(h) ==
    /\ \/ Busy(h, "key") /\ Proceed(h, "created")
       \/ Busy(h, "login_key") /\ Proceed(h, "login")
    /\ keyed' = keyed \cup {errand[h].org}
    /\ UNCHANGED <<organizations, users, sites, trail, welcomed>>

\* The audit event, and the answer with the organization and its key.
SignupDone(h) ==
    LET v == errand[h]
    IN /\ Busy(h, "created")
       /\ trail' = trail \cup {[org |-> v.org, type |-> "organization.created"]}
       /\ welcomed' = welcomed \cup
              {[email |-> v.email, password |-> v.password, org |-> v.org]}
       /\ Leave(h)
       /\ UNCHANGED <<organizations, users, keyed, sites>>

-----------------------------------------------------------------------------
(* POST /auth/login.                                                       *)

\* A wrong address and a wrong password are answered alike.
Login(h, s, p) ==
    LET user == users[Email[s]]
    IN /\ Busy(h, "idle")
       /\ user # NoUser
       /\ user.password = p
       /\ errand' = [errand EXCEPT ![h] = [NoErrand EXCEPT
              !.pc = "login_key", !.org = user.org]]
       /\ UNCHANGED <<organizations, users, keyed, sites, trail, welcomed>>

LoginDone(h) ==
    /\ Busy(h, "login")
    /\ trail' = trail \cup {[org |-> errand[h].org, type |-> "auth.login"]}
    /\ Leave(h)
    /\ UNCHANGED <<organizations, users, keyed, sites, welcomed>>

-----------------------------------------------------------------------------
(* Sites, for whoever shows a key of the organization.                     *)

CreateSite(h, o, s) ==
    /\ Busy(h, "idle")
    /\ o \in keyed
    /\ sites[s] = NoSite
    /\ sites' = [sites EXCEPT ![s].org = o]
    /\ errand' = [errand EXCEPT ![h] = [NoErrand EXCEPT !.pc = "site", !.org = o]]
    /\ UNCHANGED <<organizations, users, keyed, trail, welcomed>>

\* The update is restricted to the key's organization; a site of another one
\* is not found.
UpdateSite(h, o, s) ==
    /\ Busy(h, "idle")
    /\ o \in keyed
    /\ sites[s].org = o
    /\ \E status \in {"active", "inactive"} :
          sites' = [sites EXCEPT ![s].status = status]
    /\ errand' = [errand EXCEPT ![h] = [NoErrand EXCEPT !.pc = "site", !.org = o]]
    /\ UNCHANGED <<organizations, users, keyed, trail, welcomed>>

SiteDone(h) ==
    /\ Busy(h, "site")
    /\ trail' = trail \cup {[org |-> errand[h].org, type |-> "site"]}
    /\ Leave(h)
    /\ UNCHANGED <<organizations, users, keyed, sites, welcomed>>

-----------------------------------------------------------------------------

\* The handler fails or dies; what it has written stays.
BreakOff(h) ==
    /\ ~Busy(h, "idle")
    /\ Leave(h)
    /\ UNCHANGED <<organizations, users, keyed, sites, trail, welcomed>>

AccountsNext ==
    \E h \in Callers :
        \/ \E s \in Spellings, p \in Passwords :
              SignupCheck(h, s, p) \/ Login(h, s, p)
        \/ \E o \in OrgIds : SignupOrganization(h, o)
        \/ SignupUser(h)
        \/ MintRootKey(h)
        \/ SignupDone(h)
        \/ LoginDone(h)
        \/ \E o \in OrgIds, s \in SiteIds : CreateSite(h, o, s) \/ UpdateSite(h, o, s)
        \/ SiteDone(h)
        \/ BreakOff(h)

AccountsSpec == AccountsInit /\ [][AccountsNext]_accountVars

-----------------------------------------------------------------------------
(* Properties.                                                             *)

\* A sign-up that was answered holds: the address logs in to that very
\* organization with that very password, which no other sign-up was given,
\* and the organization has its key and its first audit event.
WelcomedCanLogIn ==
    /\ \A w \in welcomed :
          /\ users[w.email] = [org |-> w.org, password |-> w.password]
          /\ w.org \in organizations \cap keyed
          /\ [org |-> w.org, type |-> "organization.created"] \in trail
    /\ \A w, x \in welcomed : w.email = x.email \/ w.org = x.org => w = x

\* An organization that lost its sign-up half way, to a crash or to a faster
\* one for the same address, stays an empty shell: whatever has a key, a
\* site or an audit event has an owner who can log in.
ShellsStayEmpty ==
    \A o \in keyed \cup {sites[s].org : s \in SiteIds} \cup {t.org : t \in trail} :
        o # Nobody =>
            o \in organizations /\ \E e \in Emails : users[e].org = o

=============================================================================
