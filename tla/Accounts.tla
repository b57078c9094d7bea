------------------------------ MODULE Accounts ------------------------------
(***************************************************************************)
(* Accounts and their sessions (services/auth.py, password_reset.py,       *)
(* users.py and gdpr.py).  A login and a refresh read the user, then the   *)
(* role, and commit a session whose token carries them; every change of an *)
(* account lists its live sessions and revokes those.  A session that is   *)
(* opened while a change is under way may be read before the change and    *)
(* listed by nobody.  The queue of anonymisation requests is left out: one *)
(* may be executed at any time.  So are personal tokens, whose role is     *)
(* looked up at each use, capability roles, which ROLE_LEVEL does not      *)
(* rank, and expiry: an expired session goes as one that was logged out.   *)
(***************************************************************************)
EXTENDS Integers, FiniteSets

CONSTANTS
  Members,     \* users
  Levels,      \* roles that may be granted, by their level in ROLE_LEVEL, which
               \* Designer and Editor share
  Calls,       \* requests, as they arrive
  Links,       \* password reset links a user may be sent
  NoGrant,
  NoSession

ASSUME AccountsAssumption == Levels \subseteq 1..4 /\ Calls \subseteq Nat \ {0}

VARIABLES
  account,     \* users
  role,        \* user_roles: the grant each user has of each role
  session,     \* sessions, which go by the request that opened them
  mailed,      \* password_reset_tokens
  call         \* the requests

accountVars == <<account, role, session, mailed, call>>

-----------------------------------------------------------------------------
\* A password goes by the request that set it, and so does a grant; 0 are
\* those the user began with.
Passwords == Calls \cup {0}
Grants == Calls \cup {0, NoGrant}

Account == [active : BOOLEAN, deleted : BOOLEAN, password : Passwords]

UserLevel == 1

\* level is the role in the token.  password and crossed are history: the
\* password the session comes from, and whether it, or one it was refreshed
\* from, was opened while its account was being changed.
SessionRow == [of : Members, level : Levels \cup {UserLevel}, live : BOOLEAN,
               password : Passwords, crossed : BOOLEAN]

ASSUME NoSessionAssumption == NoSession \notin SessionRow \cup Calls

\* What a change does: columns set, a grant added or taken, a link used.
Kinds == {"password", "reset", "assign", "revoke", "activate", "deactivate",
          "delete", "anonymise"}

CallPlaces == {"none", "user", "role", "open", "list", "apply", "end"}

\* from is the session a refresh has read, row the grant a revocation has;
\* idle says that the account was not active when it was loaded; met is
\* history, as crossed.
Call == [at : CallPlaces, of : Members \cup {NoSession}, from : Calls \cup {NoSession},
         password : Passwords, level : Levels \cup {UserLevel},
         kind : Kinds \cup {"session"}, row : Grants, links : SUBSET Links,
         idle : BOOLEAN, listed : SUBSET Calls, met : BOOLEAN]

NoCall == [at |-> "none", of |-> NoSession, from |-> NoSession, password |-> 0,
           level |-> UserLevel, kind |-> "session", row |-> NoGrant,
           links |-> {}, idle |-> FALSE, listed |-> {}, met |-> FALSE]

AccountsTypeOK ==
  /\ account \in [Members -> Account]
  /\ role \in [Members -> [Levels -> Grants]]
  /\ session \in [Calls -> SessionRow \cup {NoSession}]
  /\ mailed \in [Members -> [Links -> {"unsent", "open", "used"}]]
  /\ call \in [Calls -> Call]

-----------------------------------------------------------------------------
IsOpenAccount(m) == account[m].active /\ ~account[m].deleted

\* get_active_role: the highest, or User.
Held(m) == {l \in Levels : role[m][l] # NoGrant} \cup {UserLevel}
ActiveRole(m) == CHOOSE l \in Held(m) : \A k \in Held(m) : k <= l

LiveSessions(m) == {s \in Calls :
  session[s] # NoSession /\ session[s].of = m /\ session[s].live}

ComesNext(c) == call[c].at = "none" /\ \A d \in Calls : d < c => call[d].at # "none"

Changing(m) == \E c \in Calls :
  call[c].of = m /\ call[c].kind # "session" /\ call[c].at # "end"

EndCall(c) == call' = [call EXCEPT ![c] = [NoCall EXCEPT !.at = "end"]]

(* Logins and refreshes *)

\* The password is the right one.
BeginLogin(c) == \E m \in Members :
  /\ ComesNext(c) /\ IsOpenAccount(m)
  /\ call' = [call EXCEPT ![c] = [NoCall EXCEPT !.at = "role", !.of = m,
                !.password = account[m].password, !.met = Changing(m)]]
  /\ UNCHANGED <<account, role, session, mailed>>

BeginRotation(c) == \E s \in Calls :
  /\ ComesNext(c) /\ session[s] # NoSession /\ session[s].live
  /\ call' = [call EXCEPT ![c] = [NoCall EXCEPT !.at = "user",
                !.of = session[s].of, !.from = s, !.password = session[s].password,
                !.met = session[s].crossed \/ Changing(session[s].of)]]
  /\ UNCHANGED <<account, role, session, mailed>>

LoadUser(c) ==
  /\ call[c].at = "user"
  /\ IF IsOpenAccount(call[c].of) THEN call' = [call EXCEPT ![c].at = "role"]
     ELSE EndCall(c)
  /\ UNCHANGED <<account, role, session, mailed>>

LoadRole(c) ==
  /\ call[c].at = "role"
  /\ call' = [call EXCEPT ![c].at = "open", ![c].level = ActiveRole(call[c].of)]
  /\ UNCHANGED <<account, role, session, mailed>>

\* create_session; a refresh has marked the session it came with as rotated.
OpenSession(c) ==
  /\ call[c].at = "open"
  /\ session' = [s \in Calls |->
       IF s = c THEN [of |-> call[c].of, level |-> call[c].level, live |-> TRUE,
                      password |-> call[c].password, crossed |-> call[c].met]
       ELSE IF s = call[c].from THEN [session[s] EXCEPT !.live = FALSE]
       ELSE session[s]]
  /\ EndCall(c)
  /\ UNCHANGED <<account, role, mailed>>

Logout(s) ==
  /\ session[s] # NoSession /\ session[s].live
  /\ session' = [session EXCEPT ![s].live = FALSE]
  /\ UNCHANGED <<account, role, mailed, call>>

(* Changes of an account *)

\* Mails a link to an active user, deleted or not.
RequestReset == \E m \in Members, l \in Links :
  /\ account[m].active /\ mailed[m][l] = "unsent"
  /\ mailed' = [mailed EXCEPT ![m][l] = "open"]
  /\ UNCHANGED <<account, role, session, call>>

\* A link is good for a day.
ExpireLink == \E m \in Members, l \in Links :
  /\ mailed[m][l] = "open"
  /\ mailed' = [mailed EXCEPT ![m][l] = "used"]
  /\ UNCHANGED <<account, role, session, call>>

\* The request has its checks behind it, on the rows as it loaded them.
Loads(c, m, kind, level, row, links) ==
  /\ ComesNext(c)
  /\ call' = [d \in Calls |->
       IF d = c THEN [NoCall EXCEPT !.of = m, !.kind = kind, !.level = level,
                        !.row = row, !.links = links, !.idle = ~account[m].active,
                        !.at = IF kind = "activate" THEN "apply" ELSE "list"]
       ELSE [call[d] EXCEPT !.met = @ \/ call[d].of = m]]
  /\ UNCHANGED <<account, role, session, mailed>>

\* Through a session or a personal token, by one who knows the password.
ChangePassword(c) == \E m \in Members :
  IsOpenAccount(m) /\ Loads(c, m, "password", UserLevel, NoGrant, {})

ConfirmReset(c) == \E m \in Members, l \in Links :
  /\ mailed[m][l] = "open" /\ account[m].active
  /\ Loads(c, m, "reset", UserLevel, NoGrant, {l})

AssignRole(c) == \E m \in Members, l \in Levels :
  /\ role[m][l] = NoGrant
  /\ Loads(c, m, "assign", l, NoGrant, {})

RevokeRole(c) == \E m \in Members, l \in Levels :
  /\ role[m][l] # NoGrant
  /\ Loads(c, m, "revoke", l, role[m][l], {})

\* update_user; one that finds is_active as it is to be leaves the sessions.
SetActive(c) == \E m \in Members :
  Loads(c, m, IF account[m].active THEN "deactivate" ELSE "activate", UserLevel,
        NoGrant, {})

SoftDelete(c) == \E m \in Members :
  ~account[m].deleted /\ Loads(c, m, "delete", UserLevel, NoGrant, {})

Anonymise(c) == \E m \in Members :
  Loads(c, m, "anonymise", UserLevel, NoGrant, {})

\* Mutant: a role that is taken away leaves the sessions.
ToRevokeUnlessRole(c) ==
  IF call[c].kind = "revoke" THEN {} ELSE LiveSessions(call[c].of)

ToRevoke(c) == LiveSessions(call[c].of)

\* An anonymisation deletes the links there are, too.
ListSessions(c) ==
  /\ call[c].at = "list"
  /\ call' = [call EXCEPT ![c].listed = ToRevoke(c), ![c].at = "apply",
       ![c].links = IF call[c].kind # "anonymise" THEN @
                    ELSE {l \in Links : mailed[call[c].of][l] = "open"}]
  /\ UNCHANGED <<account, role, session, mailed>>

\* The columns the session wrote: is_active only if it was another when loaded.
Changed(c, a) ==
  LET k == call[c].kind IN
  [active |-> IF k \in {"deactivate", "delete", "anonymise"} /\ ~call[c].idle
                THEN FALSE ELSE a.active \/ k = "activate",
   deleted |-> a.deleted \/ k \in {"delete", "anonymise"},
   password |-> IF k \in {"password", "reset"} THEN c ELSE a.password]

\* A grant is added under the unique key, or the one that was loaded is taken.
Regranted(c, r) == [l \in Levels |->
  IF l # call[c].level THEN r[l]
  ELSE IF call[c].kind = "assign" THEN c
  ELSE IF call[c].kind = "revoke" /\ r[l] = call[c].row THEN NoGrant
  ELSE r[l]]

Spent(c, k) == [l \in Links |-> IF l \in call[c].links THEN "used" ELSE k[l]]

GrantTaken(c) ==
  call[c].kind = "assign" /\ role[call[c].of][call[c].level] # NoGrant

CommitChange(c) ==
  /\ call[c].at = "apply" /\ ~GrantTaken(c)
  /\ LET m == call[c].of IN
     /\ account' = [account EXCEPT ![m] = Changed(c, @)]
     /\ role' = [role EXCEPT ![m] = Regranted(c, @)]
     /\ mailed' = [mailed EXCEPT ![m] = Spent(c, @)]
  /\ session' = [s \in Calls |->
       IF s \in call[c].listed THEN [session[s] EXCEPT !.live = FALSE]
       ELSE session[s]]
  /\ EndCall(c)

\* An exception, or a grant that another request has made meanwhile: nothing
\* is committed.
FailCall(c) ==
  /\ call[c].at \notin {"none", "end"}
  /\ EndCall(c)
  /\ UNCHANGED <<account, role, session, mailed>>

AccountsInit ==
  /\ account = [m \in Members |->
                  [active |-> TRUE, deleted |-> FALSE, password |-> 0]]
  /\ role \in [Members -> [Levels -> {0, NoGrant}]]
  /\ session = [s \in Calls |-> NoSession]
  /\ mailed = [m \in Members |-> [l \in Links |-> "unsent"]]
  /\ call = [c \in Calls |-> NoCall]

AccountsNext ==
  \/ \E c \in Calls :
       \/ BeginLogin(c) \/ BeginRotation(c) \/ LoadUser(c) \/ LoadRole(c)
       \/ OpenSession(c) \/ Logout(c) \/ ChangePassword(c) \/ ConfirmReset(c)
       \/ AssignRole(c) \/ RevokeRole(c) \/ SetActive(c) \/ SoftDelete(c)
       \/ Anonymise(c) \/ ListSessions(c) \/ CommitChange(c) \/ FailCall(c)
  \/ RequestReset \/ ExpireLink

AccountsSpec == AccountsInit /\ [][AccountsNext]_accountVars

-----------------------------------------------------------------------------
(* Properties *)

\* A live session is of an account that is open, carries the role the account
\* has now, and comes from its present password, whichever of the handlers that
\* change these was last, and in whatever order they overlapped one another.  It
\* is not promised for a session opened while its account was being changed.
LiveSessionsAreCurrent == \A s \in Calls :
  session[s] # NoSession /\ session[s].live /\ ~session[s].crossed =>
    LET m == session[s].of IN
    /\ IsOpenAccount(m)
    /\ session[s].level = ActiveRole(m)
    /\ session[s].password = account[m].password
=============================================================================
