------------------------------ MODULE Accounts -----------------------------
(***************************************************************************)
(* Accounts, their one-time tokens and their sessions (auth.repository.ts, *)
(* admin.repository.ts, auth.middleware.ts, session.store.ts).  Applicants *)
(* register themselves and verify their e-mail; internal users are invited *)
(* by an admin and set a password; admins disable and activate internal    *)
(* users.  A handler that reads without a lock and writes later is two     *)
(* steps, between which it is a member of inFlight; a transaction is one.  *)
(***************************************************************************)
EXTENDS Naturals, FiniteSets

CONSTANTS
  Applicants, Admins, Staff,  \* e-mail addresses; Staff are reviewers and approvers
  TokenIds,                   \* random tokens
  SessionIds,                 \* random session ids
  Clients,                    \* requests that may be in flight at the same time
  None

Internal == Admins \cup Staff
Users == Applicants \cup Internal

ASSUME UsersAssumption ==
  /\ Applicants \cap Internal = {}
  /\ Admins \cap Staff = {}
  /\ None \notin Users

(* The seed inserts an admin; every later one is invited by an admin.      *)
ASSUME AdminsAssumption == Admins # {}

UserStatus ==
  {"PENDING_EMAIL_VERIFICATION", "PENDING_PASSWORD_SETUP", "ACTIVE", "DISABLED"}

AuthTokenTypes == {"EMAIL_VERIFICATION", "PASSWORD_SETUP"}

AuthTokens ==
  [user : Users, type : AuthTokenTypes, consumed : BOOLEAN, expired : BOOLEAN]

(* What a handler knows between its two steps.                             *)
Handlers ==
  [kind : {"verifyEmail", "setPassword"}, token : TokenIds]
    \cup [kind : {"inviteInternalUser", "requestPasswordSetup",
                  "createAuthSession"}, user : Users]
    \cup [kind : {"updateInternalUserStatus"}, admin : Admins, user : Users,
          read : UserStatus, status : {"ACTIVE", "DISABLED"}]
    \cup [kind : {"request", "touch"}, sid : SessionIds, user : Users]

ASSUME NoneAssumption == None \notin Handlers \cup AuthTokens \cup UserStatus

VARIABLES
  status,     \* status[u]: users.status, None when there is no such row
  password,   \* password[u]: "random" or "chosen" by the user
  verified,   \* users with email_verified_at
  tokens,     \* tokens[t]: the row of auth_tokens, or None
  sessions,   \* sessions[s]: the user of the row of sessions, or None
  ended,      \* session ids that were logged out, expired or replaced
  inFlight,   \* inFlight[c]: the handler of client c, or None
  staleAdmin  \* a status was written for an admin disabled after being authorised

userRows == <<status, password, verified>>
vars == <<userRows, tokens, sessions, ended, inFlight, staleAdmin>>

TypeOK ==
  /\ status \in [Users -> UserStatus \cup {None}]
  /\ password \in [Users -> {"random", "chosen"}]
  /\ verified \subseteq Users
  /\ tokens \in [TokenIds -> AuthTokens \cup {None}]
  /\ sessions \in [SessionIds -> Users \cup {None}]
  /\ ended \subseteq SessionIds
  /\ inFlight \in [Clients -> Handlers \cup {None}]
  /\ staleAdmin \in BOOLEAN
  /\ \A t \in TokenIds : tokens[t] # None => status[tokens[t].user] # None
  /\ \A s \in SessionIds : sessions[s] # None => status[sessions[s]] # None

(* The seeded database: admins with a password and nobody else.            *)
Init ==
  /\ status = [u \in Users |-> IF u \in Admins THEN "ACTIVE" ELSE None]
  /\ password = [u \in Users |-> IF u \in Admins THEN "chosen" ELSE "random"]
  /\ verified = {}
  /\ tokens = [t \in TokenIds |-> None]
  /\ sessions = [s \in SessionIds |-> None]
  /\ ended = {}
  /\ inFlight = [c \in Clients |-> None]
  /\ staleAdmin = FALSE

Begin(c, handler) ==
  /\ inFlight[c] = None
  /\ inFlight' = [inFlight EXCEPT ![c] = handler]

Continue(c, handler) == inFlight' = [inFlight EXCEPT ![c] = handler]

End(c) == Continue(c, None)

Handling(c, kind) == inFlight[c] # None /\ inFlight[c].kind = kind

(* A token never given out before.                                         *)
CreateToken(u, type) ==
  \E t \in TokenIds :
    /\ tokens[t] = None
    /\ tokens' = [tokens EXCEPT ![t] =
                    [user |-> u, type |-> type, consumed |-> FALSE, expired |-> FALSE]]

Usable(t, type) ==
  /\ tokens[t] # None
  /\ tokens[t].type = type
  /\ ~tokens[t].consumed
  /\ ~tokens[t].expired

(* isAuth: some session of the user is presented and the user is ACTIVE.   *)
isAuth(u) ==
  /\ \E s \in SessionIds : sessions[s] = u
  /\ status[u] = "ACTIVE"

-----------------------------------------------------------------------------

(* The unique e-mail makes a registration that lost a race fail as a whole.*)
register(u) ==
  /\ u \in Applicants
  /\ status[u] = None
  /\ status' = [status EXCEPT ![u] = "PENDING_EMAIL_VERIFICATION"]
  /\ password' = [password EXCEPT ![u] = "chosen"]
  /\ CreateToken(u, "EMAIL_VERIFICATION")
  /\ UNCHANGED <<verified, sessions, ended, inFlight, staleAdmin>>

beginInviteInternalUser(c, a, u) ==
  /\ isAuth(a)
  /\ u \in Internal
  /\ Begin(c, [kind |-> "inviteInternalUser", user |-> u])
  /\ UNCHANGED <<userRows, tokens, sessions, ended, staleAdmin>>

(* The e-mail exists already: 400, or the unique key, and nothing changes. *)
inviteInternalUser(c) ==
  /\ Handling(c, "inviteInternalUser")
  /\ LET u == inFlight[c].user IN
     IF status[u] # None
     THEN UNCHANGED <<status, tokens>>
     ELSE /\ status' = [status EXCEPT ![u] = "PENDING_PASSWORD_SETUP"]
          /\ CreateToken(u, "PASSWORD_SETUP")
  /\ End(c)
  /\ UNCHANGED <<password, verified, sessions, ended, staleAdmin>>

(* Mutant: unknown accounts are not refused.                               *)
PasswordSetupAllowed_Unknown(u) ==
  u \in Internal /\ status[u] \in {"PENDING_PASSWORD_SETUP", None}

PasswordSetupAllowed(u) == u \in Internal /\ status[u] = "PENDING_PASSWORD_SETUP"

beginRequestPasswordSetup(c, u) ==
  /\ PasswordSetupAllowed(u)
  /\ Begin(c, [kind |-> "requestPasswordSetup", user |-> u])
  /\ UNCHANGED <<userRows, tokens, sessions, ended, staleAdmin>>

(* Earlier tokens of the user stay usable.                                 *)
requestPasswordSetup(c) ==
  /\ Handling(c, "requestPasswordSetup")
  /\ CreateToken(inFlight[c].user, "PASSWORD_SETUP")
  /\ End(c)
  /\ UNCHANGED <<userRows, sessions, ended, staleAdmin>>

(* The token is read without a lock ...                                    *)
beginSetPassword(c, t) ==
  /\ Usable(t, "PASSWORD_SETUP")
  /\ Begin(c, [kind |-> "setPassword", token |-> t])
  /\ UNCHANGED <<userRows, tokens, sessions, ended, staleAdmin>>

(* ... and the transaction looks neither at it nor at the user again.      *)
setPassword(c) ==
  /\ Handling(c, "setPassword")
  /\ LET t == inFlight[c].token
         u == tokens[t].user
     IN /\ status' = [status EXCEPT ![u] = "ACTIVE"]
        /\ password' = [password EXCEPT ![u] = "chosen"]
        /\ tokens' = [tokens EXCEPT ![t].consumed = TRUE]
  /\ End(c)
  /\ UNCHANGED <<verified, sessions, ended, staleAdmin>>

(* Mutant: the token is consumed before the transaction.                   *)
beginVerifyEmail_Consuming(c, t) ==
  /\ Usable(t, "EMAIL_VERIFICATION")
  /\ Begin(c, [kind |-> "verifyEmail", token |-> t])
  /\ tokens' = [tokens EXCEPT ![t].consumed = TRUE]
  /\ UNCHANGED <<userRows, sessions, ended, staleAdmin>>

beginVerifyEmail(c, t) ==
  /\ Usable(t, "EMAIL_VERIFICATION")
  /\ Begin(c, [kind |-> "verifyEmail", token |-> t])
  /\ UNCHANGED <<userRows, tokens, sessions, ended, staleAdmin>>

(* The verified user is logged in next.                                    *)
verifyEmail(c) ==
  /\ Handling(c, "verifyEmail")
  /\ LET t == inFlight[c].token
         u == tokens[t].user
     IN /\ status' = [status EXCEPT ![u] = "ACTIVE"]
        /\ verified' = verified \cup {u}
        /\ tokens' = [tokens EXCEPT ![t].consumed = TRUE]
        /\ Continue(c, [kind |-> "createAuthSession", user |-> u])
  /\ UNCHANGED <<password, sessions, ended, staleAdmin>>

(* Mutant: the status is not looked at.                                    *)
MayLogin_AnyStatus(u) == status[u] # None /\ password[u] = "chosen"

(* Only the user knows a chosen password, and nobody a random one.         *)
MayLogin(u) == status[u] = "ACTIVE" /\ password[u] = "chosen"

login(c, u) ==
  /\ MayLogin(u)
  /\ Begin(c, [kind |-> "createAuthSession", user |-> u])
  /\ UNCHANGED <<userRows, tokens, sessions, ended, staleAdmin>>

(* regenerate: a session under a fresh id; the client's old one, if any,   *)
(* is destroyed.                                                           *)
createAuthSession(c) ==
  /\ Handling(c, "createAuthSession")
  /\ \E new \in SessionIds :
       /\ sessions[new] = None /\ new \notin ended
       /\ \/ /\ sessions' = [sessions EXCEPT ![new] = inFlight[c].user]
             /\ UNCHANGED ended
          \/ \E old \in SessionIds :
               /\ sessions[old] # None
               /\ sessions' = [sessions EXCEPT ![new] = inFlight[c].user, ![old] = None]
               /\ ended' = ended \cup {old}
  /\ End(c)
  /\ UNCHANGED <<userRows, tokens, staleAdmin>>

logout(s) ==
  /\ sessions[s] # None
  /\ status[sessions[s]] = "ACTIVE"
  /\ sessions' = [sessions EXCEPT ![s] = None]
  /\ ended' = ended \cup {s}
  /\ UNCHANGED <<userRows, tokens, inFlight, staleAdmin>>

(* store.get destroys a session found expired.                             *)
sessionExpires(s) ==
  /\ sessions[s] # None
  /\ sessions' = [sessions EXCEPT ![s] = None]
  /\ ended' = ended \cup {s}
  /\ UNCHANGED <<userRows, tokens, inFlight, staleAdmin>>

tokenExpires(t) ==
  /\ tokens[t] # None /\ ~tokens[t].expired
  /\ tokens' = [tokens EXCEPT ![t].expired = TRUE]
  /\ UNCHANGED <<userRows, sessions, ended, inFlight, staleAdmin>>

(* Any request with a session: store.get loads it, and when the answer is  *)
(* sent express-session touches it.                                        *)
beginRequest(c, s) ==
  /\ sessions[s] # None
  /\ Begin(c, [kind |-> "request", sid |-> s, user |-> sessions[s]])
  /\ UNCHANGED <<userRows, tokens, sessions, ended, staleAdmin>>

(* touch reads the row; without one it is done.                            *)
beginTouch(c) ==
  /\ Handling(c, "request")
  /\ IF sessions[inFlight[c].sid] # None
     THEN Continue(c, [inFlight[c] EXCEPT !.kind = "touch"])
     ELSE End(c)
  /\ UNCHANGED <<userRows, tokens, sessions, ended, staleAdmin>>

(* Mutant: an upsert instead of an update.                                 *)
Touched_Upsert(handler) == [sessions EXCEPT ![handler.sid] = handler.user]

(* UPDATE of a row that may be gone by now.                                *)
Touched(handler) ==
  [sessions EXCEPT ![handler.sid] = IF @ = None THEN None ELSE handler.user]

touch(c) ==
  /\ Handling(c, "touch")
  /\ sessions' = Touched(inFlight[c])
  /\ End(c)
  /\ UNCHANGED <<userRows, tokens, ended, staleAdmin>>

(* Mutant: admins may change their own status.                             *)
ManagedBy_Self(a) == {u \in Internal : status[u] # None}

(* "You cannot change your own account status"                             *)
ManagedBy(a) == {u \in Internal \ {a} : status[u] # None}

beginUpdateInternalUserStatus(c, a, u, new) ==
  /\ isAuth(a)
  /\ u \in ManagedBy(a)
  /\ Begin(c, [kind |-> "updateInternalUserStatus", admin |-> a, user |-> u,
               read |-> status[u], status |-> new])
  /\ UNCHANGED <<userRows, tokens, sessions, ended, staleAdmin>>

(* save() writes nothing when the row read had that status already.        *)
updateInternalUserStatus(c) ==
  /\ Handling(c, "updateInternalUserStatus")
  /\ LET update == inFlight[c] IN
     IF update.read = update.status
     THEN UNCHANGED <<status, staleAdmin>>
     ELSE /\ status' = [status EXCEPT ![update.user] = update.status]
          /\ staleAdmin' = (staleAdmin \/ status[update.admin] # "ACTIVE")
  /\ End(c)
  /\ UNCHANGED <<password, verified, tokens, sessions, ended>>

(* An error or a stop of the process before the handler's second step.     *)
fail(c) ==
  /\ inFlight[c] # None
  /\ End(c)
  /\ UNCHANGED <<userRows, tokens, sessions, ended, staleAdmin>>

Next ==
  \/ \E u \in Users : register(u)
  \/ \E c \in Clients, a \in Admins, u \in Users :
       \/ beginInviteInternalUser(c, a, u)
       \/ \E new \in {"ACTIVE", "DISABLED"} :
            beginUpdateInternalUserStatus(c, a, u, new)
  \/ \E c \in Clients, u \in Users : login(c, u) \/ beginRequestPasswordSetup(c, u)
  \/ \E c \in Clients, t \in TokenIds : beginSetPassword(c, t) \/ beginVerifyEmail(c, t)
  \/ \E c \in Clients, s \in SessionIds : beginRequest(c, s)
  \/ \E c \in Clients :
       \/ inviteInternalUser(c)
       \/ requestPasswordSetup(c)
       \/ setPassword(c)
       \/ verifyEmail(c)
       \/ createAuthSession(c)
       \/ beginTouch(c)
       \/ touch(c)
       \/ updateInternalUserStatus(c)
       \/ fail(c)
  \/ \E s \in SessionIds : logout(s) \/ sessionExpires(s)
  \/ \E t \in TokenIds : tokenExpires(t)

Spec == Init /\ [][Next]_vars

-----------------------------------------------------------------------------

(* Whoever has a session has proved who they are: with a password of their *)
(* own choice, and an applicant also with the token sent to the e-mail.    *)
SessionsAreEarned ==
  \A s \in SessionIds : sessions[s] # None =>
    /\ password[sessions[s]] = "chosen"
    /\ sessions[s] \in Applicants => sessions[s] \in verified

(* A session that was logged out or expired never comes back, whatever     *)
(* requests that had loaded it still do (session.store.ts:95).             *)
EndedSessionsStayEnded == \A s \in ended : sessions[s] = None

(* Since nobody changes their own status, some admin stays active, unless  *)
(* a change was carried out for an admin disabled after it was authorised. *)
AdminsRemain == (\E a \in Admins : status[a] = "ACTIVE") \/ staleAdmin

(* No failed request uses up a link: whoever has still to verify the e-mail*)
(* or set a password has a token for it nobody has consumed, so that only  *)
(* its expiry strands the account (the transactions of verifyEmail and     *)
(* setPassword consume the token together with the change of status).      *)
PendingKeepsLink ==
  \A u \in Users :
    status[u] \in {"PENDING_EMAIL_VERIFICATION", "PENDING_PASSWORD_SETUP"} =>
      \E t \in TokenIds :
        /\ tokens[t] # None
        /\ tokens[t].user = u
        /\ ~tokens[t].consumed
        /\ tokens[t].type = IF status[u] = "PENDING_PASSWORD_SETUP"
                            THEN "PASSWORD_SETUP" ELSE "EMAIL_VERIFICATION"

(* "Account is disabled, please contact support" (auth.repository.ts:739): *)
(* a disabled user becomes active only by an admin.                        *)
DisabledUntilActivated ==
  [][\A u \in Users : status[u] = "DISABLED" /\ status'[u] = "ACTIVE" =>
       \E c \in Clients : updateInternalUserStatus(c)]_vars

=============================================================================
