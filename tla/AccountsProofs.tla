--------------------------- MODULE AccountsProofs --------------------------
(***************************************************************************)
(* Accounts, tokens and sessions, for every set of users, tokens, session  *)
(* ids and clients: sessions are earned, ended sessions stay ended, some   *)
(* admin stays active, and whoever is pending keeps a link.  A handler     *)
(* reads without a lock and writes later, so the proof rests on what stays *)
(* true between its two steps (Knows) because rows only ever grow (Grows). *)
(***************************************************************************)
EXTENDS Accounts, TLAPS

(* What a handler in flight can still rely on when it goes on.             *)
Knows(h) ==
  /\ h.kind = "verifyEmail" =>
       tokens[h.token] # None /\ tokens[h.token].type = "EMAIL_VERIFICATION"
  /\ h.kind = "setPassword" =>
       tokens[h.token] # None /\ tokens[h.token].type = "PASSWORD_SETUP"
  /\ h.kind = "inviteInternalUser" => h.user \in Internal
  /\ h.kind = "requestPasswordSetup" => h.user \in Internal /\ status[h.user] # None
  /\ h.kind = "createAuthSession" =>
       /\ status[h.user] # None
       /\ password[h.user] = "chosen"
       /\ h.user \in Applicants => h.user \in verified
  /\ h.kind = "updateInternalUserStatus" =>
       h.user \in Internal \ {h.admin} /\ status[h.user] # None
  /\ h.kind \in {"request", "touch"} =>
       \/ sessions[h.sid] = h.user
       \/ sessions[h.sid] = None /\ h.sid \in ended

(* Only applicants verify an e-mail, only internal users set a password.   *)
TokensMatch ==
  \A t \in TokenIds : tokens[t] # None =>
    tokens[t].user \in IF tokens[t].type = "PASSWORD_SETUP" THEN Internal ELSE Applicants

(* An applicant has chosen a password, and is active only once verified.   *)
ApplicantsMatch ==
  \A u \in Applicants :
    /\ status[u] # None => password[u] = "chosen"
    /\ status[u] = "ACTIVE" => u \in verified

RowsInv ==
  /\ TypeOK
  /\ TokensMatch
  /\ ApplicantsMatch
  /\ SessionsAreEarned
  /\ EndedSessionsStayEnded
  /\ AdminsRemain
  /\ PendingKeepsLink

HandlersKnow == \A c \in Clients : inFlight[c] # None => Knows(inFlight[c])

AccountsInv == RowsInv /\ HandlersKnow

-----------------------------------------------------------------------------
(* The handlers that can be in flight.                                     *)

LEMMA HandlerShapes ==
  ASSUME NEW h \in Handlers
  PROVE  /\ h # None
         /\ h.kind \in {"verifyEmail", "setPassword"} => h.token \in TokenIds
         /\ h.kind \in {"inviteInternalUser", "requestPasswordSetup",
                        "createAuthSession"} => h.user \in Users
         /\ h.kind = "updateInternalUserStatus" =>
              /\ h.admin \in Admins /\ h.user \in Users
              /\ h.read \in UserStatus /\ h.status \in {"ACTIVE", "DISABLED"}
         /\ h.kind \in {"request", "touch"} => h.sid \in SessionIds /\ h.user \in Users
<1>1. h # None
  BY NoneAssumption DEF NoneAssumption
<1>2. CASE h \in [kind : {"verifyEmail", "setPassword"}, token : TokenIds]
  BY <1>1, <1>2
<1>3. CASE h \in [kind : {"inviteInternalUser", "requestPasswordSetup",
                          "createAuthSession"}, user : Users]
  BY <1>1, <1>3
<1>4. CASE h \in [kind : {"updateInternalUserStatus"}, admin : Admins, user : Users,
                  read : UserStatus, status : {"ACTIVE", "DISABLED"}]
  BY <1>1, <1>4
<1>5. CASE h \in [kind : {"request", "touch"}, sid : SessionIds, user : Users]
  BY <1>1, <1>5
<1> QED
  BY <1>2, <1>3, <1>4, <1>5 DEF Handlers

LEMMA TokenShapes ==
  ASSUME TypeOK, NEW t \in TokenIds, tokens[t] # None
  PROVE  /\ tokens[t] \in AuthTokens
         /\ tokens[t].user \in Users /\ tokens[t].user # None
         /\ tokens[t].type \in AuthTokenTypes
         /\ tokens[t].consumed \in BOOLEAN /\ tokens[t].expired \in BOOLEAN
  BY UsersAssumption DEF TypeOK, AuthTokens, UsersAssumption

(* Rows are only added, or changed in the direction of their use.          *)
Grows ==
  /\ \A u \in Users : status[u] # None => status'[u] # None
  /\ \A u \in Users : password[u] = "chosen" => password'[u] = "chosen"
  /\ verified \subseteq verified'
  /\ \A t \in TokenIds : tokens[t] # None =>
       /\ tokens'[t] # None
       /\ tokens'[t].user = tokens[t].user /\ tokens'[t].type = tokens[t].type
  /\ \A s \in SessionIds :
       \/ sessions[s] = None /\ s \notin ended
       \/ sessions'[s] = sessions[s] /\ (s \in ended => s \in ended')
       \/ sessions'[s] = None /\ s \in ended'

LEMMA KnowsStays ==
  ASSUME NEW h \in Handlers, Knows(h), Grows
  PROVE  Knows(h)'
<1>1. /\ h.kind \in {"verifyEmail", "setPassword"} => h.token \in TokenIds
      /\ h.kind \in {"inviteInternalUser", "requestPasswordSetup",
                     "createAuthSession", "updateInternalUserStatus"} => h.user \in Users
      /\ h.kind \in {"request", "touch"} => h.sid \in SessionIds /\ h.user \in Users
  BY HandlerShapes
<1>2. h.kind \in {"request", "touch"} => h.user # None
  BY <1>1, UsersAssumption DEF UsersAssumption
<1>3. h.kind \in {"request", "touch"} =>
        \/ sessions'[h.sid] = h.user
        \/ sessions'[h.sid] = None /\ h.sid \in ended'
  BY <1>1, <1>2 DEF Knows, Grows
<1> QED
  BY <1>1, <1>3 DEF Knows, Grows

(* One client goes on; what the others know stays true.                    *)
LEMMA HandlersKeep ==
  ASSUME TypeOK, HandlersKnow, Grows, NEW c \in Clients, NEW h \in Handlers \cup {None},
         inFlight' = [inFlight EXCEPT ![c] = h], h # None => Knows(h)'
  PROVE  HandlersKnow'
<1>1. ASSUME NEW d \in Clients, inFlight'[d] # None
      PROVE  Knows(inFlight[d])'
  <2>1. CASE d = c
    <3>1. inFlight'[d] = h /\ h # None
      BY <1>1, <2>1 DEF TypeOK
    <3> QED
      BY <3>1 DEF Knows
  <2>2. CASE d # c
    <3>1. /\ inFlight'[d] = inFlight[d]
          /\ inFlight[d] \in Handlers /\ Knows(inFlight[d])
      BY <1>1, <2>2 DEF TypeOK, HandlersKnow
    <3>2. PICK g \in Handlers : g = inFlight[d]
      BY <3>1
    <3>3. Knows(g)'
      BY <3>1, <3>2, KnowsStays
    <3> QED
      BY <3>1, <3>2, <3>3 DEF Knows
  <2> QED
    BY <2>1, <2>2
<1> QED
  BY <1>1 DEF HandlersKnow

(* No client goes on.                                                      *)
LEMMA HandlersRest ==
  ASSUME TypeOK, HandlersKnow, Grows, inFlight' = inFlight
  PROVE  HandlersKnow'
<1>1. ASSUME NEW d \in Clients, inFlight[d] # None
      PROVE  Knows(inFlight[d])'
  <2>1. inFlight[d] \in Handlers /\ Knows(inFlight[d])
    BY <1>1 DEF TypeOK, HandlersKnow
  <2>2. PICK g \in Handlers : g = inFlight[d]
    BY <2>1
  <2>3. Knows(g)'
    BY <2>1, <2>2, KnowsStays
  <2> QED
    BY <2>2, <2>3 DEF Knows
<1> QED
  BY <1>1 DEF HandlersKnow

-----------------------------------------------------------------------------
(* Steps that read, and change no row.                                     *)

LEMMA ReadingKeeps ==
  ASSUME AccountsInv, NEW c \in Clients, NEW h \in Handlers \cup {None},
         inFlight' = [inFlight EXCEPT ![c] = h], h # None => Knows(h),
         UNCHANGED <<userRows, tokens, sessions, ended, staleAdmin>>
  PROVE  AccountsInv'
<1>1. /\ UNCHANGED <<status, password, verified, tokens, sessions, ended, staleAdmin>>
      /\ TypeOK /\ HandlersKnow
  BY DEF AccountsInv, RowsInv, userRows
<1>2. RowsInv'
  BY <1>1 DEF AccountsInv, RowsInv, TypeOK, TokensMatch, ApplicantsMatch,
              SessionsAreEarned, EndedSessionsStayEnded, AdminsRemain, PendingKeepsLink
<1>3. Grows
  BY <1>1 DEF Grows
<1>4. h # None => Knows(h)'
  BY <1>1 DEF Knows
<1>5. HandlersKnow'
  BY <1>1, <1>3, <1>4, HandlersKeep
<1> QED
  BY <1>2, <1>5 DEF AccountsInv

LEMMA BeginInviteKeeps ==
  ASSUME AccountsInv, NEW c \in Clients, NEW a \in Admins, NEW u \in Users,
         beginInviteInternalUser(c, a, u)
  PROVE  AccountsInv'
<1> DEFINE h == [kind |-> "inviteInternalUser", user |-> u]
<1>1. h \in Handlers /\ Knows(h)
  BY DEF beginInviteInternalUser, Handlers, Knows
<1> QED
  BY <1>1, ReadingKeeps DEF beginInviteInternalUser, Begin

LEMMA BeginUpdateKeeps ==
  ASSUME AccountsInv, NEW c \in Clients, NEW a \in Admins, NEW u \in Users,
         NEW new \in {"ACTIVE", "DISABLED"}, beginUpdateInternalUserStatus(c, a, u, new)
  PROVE  AccountsInv'
<1> DEFINE h == [kind |-> "updateInternalUserStatus", admin |-> a, user |-> u,
                 read |-> status[u], status |-> new]
<1>1. u \in Internal \ {a} /\ status[u] # None /\ status[u] \in UserStatus
  BY DEF beginUpdateInternalUserStatus, ManagedBy, AccountsInv, RowsInv, TypeOK
<1>2. h \in Handlers /\ Knows(h)
  BY <1>1 DEF Handlers, Knows
<1> QED
  BY <1>2, ReadingKeeps DEF beginUpdateInternalUserStatus, Begin

LEMMA LoginKeeps ==
  ASSUME AccountsInv, NEW c \in Clients, NEW u \in Users, login(c, u)
  PROVE  AccountsInv'
<1> DEFINE h == [kind |-> "createAuthSession", user |-> u]
<1>1. status[u] = "ACTIVE" /\ password[u] = "chosen" /\ ApplicantsMatch
  BY DEF login, MayLogin, AccountsInv, RowsInv
<1>2. status[u] # None
  BY <1>1, NoneAssumption DEF NoneAssumption, UserStatus
<1>3. h \in Handlers /\ Knows(h)
  BY <1>1, <1>2 DEF Handlers, Knows, ApplicantsMatch
<1> QED
  BY <1>3, ReadingKeeps DEF login, Begin

LEMMA BeginRequestPasswordSetupKeeps ==
  ASSUME AccountsInv, NEW c \in Clients, NEW u \in Users, beginRequestPasswordSetup(c, u)
  PROVE  AccountsInv'
<1> DEFINE h == [kind |-> "requestPasswordSetup", user |-> u]
<1>1. u \in Internal /\ status[u] # None
  BY NoneAssumption
     DEF beginRequestPasswordSetup, PasswordSetupAllowed, NoneAssumption, UserStatus
<1>2. h \in Handlers /\ Knows(h)
  BY <1>1 DEF Handlers, Knows
<1> QED
  BY <1>2, ReadingKeeps DEF beginRequestPasswordSetup, Begin

LEMMA BeginSetPasswordKeeps ==
  ASSUME AccountsInv, NEW c \in Clients, NEW t \in TokenIds, beginSetPassword(c, t)
  PROVE  AccountsInv'
<1> DEFINE h == [kind |-> "setPassword", token |-> t]
<1>1. tokens[t] # None /\ tokens[t].type = "PASSWORD_SETUP"
  BY DEF beginSetPassword, Usable
<1>2. h \in Handlers /\ Knows(h)
  BY <1>1 DEF Handlers, Knows
<1> QED
  BY <1>2, ReadingKeeps DEF beginSetPassword, Begin

LEMMA BeginVerifyEmailKeeps ==
  ASSUME AccountsInv, NEW c \in Clients, NEW t \in TokenIds, beginVerifyEmail(c, t)
  PROVE  AccountsInv'
<1> DEFINE h == [kind |-> "verifyEmail", token |-> t]
<1>1. tokens[t] # None /\ tokens[t].type = "EMAIL_VERIFICATION"
  BY DEF beginVerifyEmail, Usable
<1>2. h \in Handlers /\ Knows(h)
  BY <1>1 DEF Handlers, Knows
<1> QED
  BY <1>2, ReadingKeeps DEF beginVerifyEmail, Begin

LEMMA BeginRequestKeeps ==
  ASSUME AccountsInv, NEW c \in Clients, NEW s \in SessionIds, beginRequest(c, s)
  PROVE  AccountsInv'
<1> DEFINE h == [kind |-> "request", sid |-> s, user |-> sessions[s]]
<1>1. sessions[s] \in Users
  BY DEF beginRequest, AccountsInv, RowsInv, TypeOK
<1>2. h \in Handlers /\ Knows(h)
  BY <1>1 DEF Handlers, Knows
<1> QED
  BY <1>2, ReadingKeeps DEF beginRequest, Begin

LEMMA HandlingIs ==
  ASSUME AccountsInv, NEW c \in Clients, NEW k, Handling(c, k)
  PROVE  inFlight[c] \in Handlers /\ inFlight[c].kind = k /\ Knows(inFlight[c])
  BY DEF AccountsInv, RowsInv, TypeOK, HandlersKnow, Handling

LEMMA BeginTouchKeeps ==
  ASSUME AccountsInv, NEW c \in Clients, beginTouch(c)
  PROVE  AccountsInv'
<1>1. inFlight[c] \in Handlers /\ inFlight[c].kind = "request" /\ Knows(inFlight[c])
  BY HandlingIs DEF beginTouch
<1>2. inFlight[c] \in [kind : {"request", "touch"}, sid : SessionIds, user : Users]
  BY <1>1 DEF Handlers
<1> DEFINE h == [inFlight[c] EXCEPT !.kind = "touch"]
<1>3. CASE sessions[inFlight[c].sid] # None
  <2>1. /\ h \in Handlers
        /\ h.kind = "touch" /\ h.sid = inFlight[c].sid /\ h.user = inFlight[c].user
    BY <1>2 DEF Handlers
  <2> HIDE DEF h
  <2>2. Knows(h)
    BY <1>1, <2>1 DEF Knows
  <2>3. inFlight' = [inFlight EXCEPT ![c] = h]
    BY <1>3 DEF beginTouch, Continue, h
  <2> QED
    BY <2>1, <2>2, <2>3, ReadingKeeps DEF beginTouch
<1>4. CASE sessions[inFlight[c].sid] = None
  BY <1>4, ReadingKeeps DEF beginTouch, End, Continue
<1> QED
  BY <1>3, <1>4

LEMMA FailKeeps ==
  ASSUME AccountsInv, NEW c \in Clients, fail(c)
  PROVE  AccountsInv'
  BY ReadingKeeps DEF fail, End, Continue

-----------------------------------------------------------------------------
(* Steps that change sessions only.                                        *)

LEMMA SessionEndsKeeps ==
  ASSUME AccountsInv, NEW s \in SessionIds,
         sessions' = [sessions EXCEPT ![s] = None], ended' = ended \cup {s},
         UNCHANGED <<userRows, tokens, inFlight, staleAdmin>>
  PROVE  AccountsInv'
<1>1. /\ TypeOK /\ TokensMatch /\ ApplicantsMatch /\ SessionsAreEarned
      /\ EndedSessionsStayEnded /\ AdminsRemain /\ PendingKeepsLink /\ HandlersKnow
      /\ UNCHANGED <<status, password, verified, tokens, inFlight, staleAdmin>>
  BY DEF AccountsInv, RowsInv, userRows
<1>2. /\ sessions'[s] = None
      /\ \A r \in SessionIds : r # s => sessions'[r] = sessions[r]
  BY <1>1 DEF TypeOK
<1>3. TypeOK'
  BY <1>1, <1>2 DEF TypeOK
<1>4. TokensMatch' /\ ApplicantsMatch' /\ AdminsRemain' /\ PendingKeepsLink'
  BY <1>1 DEF TokensMatch, ApplicantsMatch, AdminsRemain, PendingKeepsLink
<1>5. SessionsAreEarned' /\ EndedSessionsStayEnded'
  BY <1>1, <1>2 DEF TypeOK, SessionsAreEarned, EndedSessionsStayEnded
<1>6. Grows
  BY <1>1, <1>2 DEF Grows
<1>7. HandlersKnow'
  BY <1>1, <1>6, HandlersRest
<1> QED
  BY <1>3, <1>4, <1>5, <1>7 DEF AccountsInv, RowsInv

LEMMA LogoutKeeps ==
  ASSUME AccountsInv, NEW s \in SessionIds, logout(s)
  PROVE  AccountsInv'
  BY SessionEndsKeeps DEF logout

LEMMA SessionExpiresKeeps ==
  ASSUME AccountsInv, NEW s \in SessionIds, sessionExpires(s)
  PROVE  AccountsInv'
  BY SessionEndsKeeps DEF sessionExpires

(* A touch finds the session as the request had loaded it, or ended: it    *)
(* changes nothing.                                                        *)
LEMMA TouchKeeps ==
  ASSUME AccountsInv, NEW c \in Clients, touch(c)
  PROVE  AccountsInv'
<1>1. inFlight[c] \in Handlers /\ inFlight[c].kind = "touch" /\ Knows(inFlight[c])
  BY HandlingIs DEF touch
<1> DEFINE sid == inFlight[c].sid
<1>2. sid \in SessionIds /\ inFlight[c].user # None
  BY <1>1, HandlerShapes, UsersAssumption DEF UsersAssumption
<1>3. sessions[sid] \in {None, inFlight[c].user}
  BY <1>1 DEF Knows
<1>4. sessions' = [sessions EXCEPT ![sid] = IF sessions[sid] = None THEN None
                                            ELSE inFlight[c].user]
  BY DEF touch, Touched
<1>5. sessions' = sessions
  BY <1>2, <1>3, <1>4 DEF AccountsInv, RowsInv, TypeOK
<1> QED
  BY <1>5, ReadingKeeps DEF touch, End, Continue

LEMMA CreateAuthSessionKeeps ==
  ASSUME AccountsInv, NEW c \in Clients, createAuthSession(c)
  PROVE  AccountsInv'
<1> DEFINE u == inFlight[c].user
<1>1. /\ TypeOK /\ TokensMatch /\ ApplicantsMatch /\ SessionsAreEarned
      /\ EndedSessionsStayEnded /\ AdminsRemain /\ PendingKeepsLink /\ HandlersKnow
      /\ UNCHANGED <<status, password, verified, tokens, staleAdmin>>
      /\ inFlight' = [inFlight EXCEPT ![c] = None]
  BY DEF AccountsInv, RowsInv, userRows, createAuthSession, End, Continue
<1>2. inFlight[c] \in Handlers /\ inFlight[c].kind = "createAuthSession" /\ Knows(inFlight[c])
  BY HandlingIs DEF createAuthSession
<1>3. /\ u \in Users /\ status[u] # None /\ password[u] = "chosen"
      /\ u \in Applicants => u \in verified
  BY <1>2, HandlerShapes DEF Knows
<1>4. PICK new \in SessionIds :
        /\ sessions[new] = None /\ new \notin ended
        /\ \/ /\ sessions' = [sessions EXCEPT ![new] = u]
              /\ UNCHANGED ended
           \/ \E old \in SessionIds :
                /\ sessions[old] # None
                /\ sessions' = [sessions EXCEPT ![new] = u, ![old] = None]
                /\ ended' = ended \cup {old}
  BY DEF createAuthSession
<1> HIDE DEF u
<1>5. /\ sessions' \in [SessionIds -> Users \cup {None}] /\ ended' \subseteq SessionIds
      /\ sessions'[new] = u /\ new \notin ended'
      /\ \A s \in SessionIds \ {new} :
           \/ sessions'[s] = sessions[s] /\ (s \in ended' <=> s \in ended)
           \/ sessions'[s] = None /\ s \in ended'
  <2>1. CASE sessions' = [sessions EXCEPT ![new] = u] /\ UNCHANGED ended
    BY <1>1, <1>3, <1>4, <2>1 DEF TypeOK
  <2>2. ASSUME NEW old \in SessionIds, sessions[old] # None,
               sessions' = [sessions EXCEPT ![new] = u, ![old] = None],
               ended' = ended \cup {old}
        PROVE  <1>5!1
    <3>1. old # new
      BY <1>4, <2>2
    <3>2. /\ sessions'[new] = u /\ sessions'[old] = None
          /\ \A s \in SessionIds \ {new, old} : sessions'[s] = sessions[s]
          /\ sessions' \in [SessionIds -> Users \cup {None}]
      BY <1>1, <1>3, <2>2, <3>1 DEF TypeOK
    <3> QED
      BY <1>1, <1>4, <2>2, <3>1, <3>2 DEF TypeOK
  <2> QED
    BY <1>4, <2>1, <2>2
<1>6. TypeOK'
  BY <1>1, <1>3, <1>5 DEF TypeOK
<1>7. TokensMatch' /\ ApplicantsMatch' /\ AdminsRemain' /\ PendingKeepsLink'
  BY <1>1 DEF TokensMatch, ApplicantsMatch, AdminsRemain, PendingKeepsLink
<1>8. SessionsAreEarned' /\ EndedSessionsStayEnded'
  BY <1>1, <1>3, <1>5 DEF TypeOK, SessionsAreEarned, EndedSessionsStayEnded
<1>9. Grows
  BY <1>1, <1>4, <1>5 DEF Grows
<1>10. HandlersKnow'
  BY <1>1, <1>9, HandlersKeep
<1> QED
  BY <1>6, <1>7, <1>8, <1>10 DEF AccountsInv, RowsInv

-----------------------------------------------------------------------------
(* Steps that change tokens and statuses.                                  *)

Fresh(u, type) == [user |-> u, type |-> type, consumed |-> FALSE, expired |-> FALSE]

LEMMA FreshIsToken ==
  ASSUME NEW u \in Users, NEW type \in AuthTokenTypes
  PROVE  Fresh(u, type) \in AuthTokens /\ Fresh(u, type) # None
<1>1. Fresh(u, type) \in AuthTokens
  BY DEF Fresh, AuthTokens
<1> QED
  BY <1>1, NoneAssumption DEF NoneAssumption

(* What a token created or a token used up means for pending accounts.     *)
LEMMA TokenCreated ==
  ASSUME TypeOK, NEW u \in Users, NEW type \in AuthTokenTypes, CreateToken(u, type)
  PROVE  \E t \in TokenIds :
           /\ tokens[t] = None
           /\ tokens' = [tokens EXCEPT ![t] = Fresh(u, type)]
           /\ tokens'[t] = Fresh(u, type) /\ tokens'[t] # None
           /\ \A r \in TokenIds : tokens[r] # None => tokens'[r] = tokens[r]
           /\ \A r \in TokenIds \ {t} : tokens'[r] = tokens[r]
           /\ tokens' \in [TokenIds -> AuthTokens \cup {None}]
<1>1. PICK t \in TokenIds :
        tokens[t] = None /\ tokens' = [tokens EXCEPT ![t] = Fresh(u, type)]
  BY DEF CreateToken, Fresh
<1>2. Fresh(u, type) \in AuthTokens /\ Fresh(u, type) # None
  BY FreshIsToken
<1> QED
  BY <1>1, <1>2 DEF TypeOK

LEMMA TokenExpiresKeeps ==
  ASSUME AccountsInv, NEW t \in TokenIds, tokenExpires(t)
  PROVE  AccountsInv'
<1>1. /\ TypeOK /\ TokensMatch /\ ApplicantsMatch /\ SessionsAreEarned
      /\ EndedSessionsStayEnded /\ AdminsRemain /\ PendingKeepsLink /\ HandlersKnow
      /\ UNCHANGED <<status, password, verified, sessions, ended, inFlight, staleAdmin>>
      /\ tokens[t] # None
      /\ tokens' = [tokens EXCEPT ![t] = [tokens[t] EXCEPT !.expired = TRUE]]
  BY DEF AccountsInv, RowsInv, userRows, tokenExpires
<1> DEFINE token == [tokens[t] EXCEPT !.expired = TRUE]
<1>2. /\ token \in AuthTokens /\ token # None
      /\ token.user = tokens[t].user /\ token.type = tokens[t].type
      /\ token.consumed = tokens[t].consumed
  <2>1. tokens[t] \in AuthTokens
    BY <1>1, TokenShapes
  <2>2. token \in AuthTokens
    BY <2>1 DEF AuthTokens
  <2> QED
    BY <2>1, <2>2, NoneAssumption DEF AuthTokens, NoneAssumption
<1>3. tokens' = [tokens EXCEPT ![t] = token]
  BY <1>1
<1> HIDE DEF token
<1>4. /\ tokens'[t] = token /\ \A r \in TokenIds \ {t} : tokens'[r] = tokens[r]
      /\ tokens' \in [TokenIds -> AuthTokens \cup {None}]
  BY <1>1, <1>2, <1>3 DEF TypeOK
<1>5. TypeOK'
  BY <1>1, <1>2, <1>4 DEF TypeOK
<1>6. TokensMatch' /\ PendingKeepsLink'
  <2>1. \A r \in TokenIds : tokens[r] # None =>
          /\ tokens'[r] # None
          /\ tokens'[r].user = tokens[r].user /\ tokens'[r].type = tokens[r].type
          /\ tokens'[r].consumed = tokens[r].consumed
    BY <1>2, <1>4
  <2>2. \A r \in TokenIds : tokens'[r] # None => tokens[r] # None
    BY <1>1, <1>4
  <2>3. TokensMatch'
    BY <1>1, <2>1, <2>2 DEF TokensMatch
  <2>4. PendingKeepsLink'
    BY <1>1, <2>1 DEF PendingKeepsLink
  <2> QED
    BY <2>3, <2>4
<1>7. ApplicantsMatch' /\ AdminsRemain' /\ SessionsAreEarned' /\ EndedSessionsStayEnded'
  BY <1>1 DEF ApplicantsMatch, AdminsRemain, SessionsAreEarned, EndedSessionsStayEnded
<1>8. Grows
  BY <1>1, <1>2, <1>4 DEF Grows
<1>9. HandlersKnow'
  BY <1>1, <1>8, HandlersRest
<1> QED
  BY <1>5, <1>6, <1>7, <1>9 DEF AccountsInv, RowsInv

LEMMA RequestPasswordSetupKeeps ==
  ASSUME AccountsInv, NEW c \in Clients, requestPasswordSetup(c)
  PROVE  AccountsInv'
<1> DEFINE u == inFlight[c].user
<1>1. /\ TypeOK /\ TokensMatch /\ ApplicantsMatch /\ SessionsAreEarned
      /\ EndedSessionsStayEnded /\ AdminsRemain /\ PendingKeepsLink /\ HandlersKnow
      /\ UNCHANGED <<status, password, verified, sessions, ended, staleAdmin>>
      /\ inFlight' = [inFlight EXCEPT ![c] = None]
      /\ CreateToken(u, "PASSWORD_SETUP")
  BY DEF AccountsInv, RowsInv, userRows, requestPasswordSetup, End, Continue
<1>2. u \in Users /\ u \in Internal /\ status[u] # None
  BY HandlingIs, HandlerShapes DEF requestPasswordSetup, Knows
<1> HIDE DEF u
<1>3. PICK t \in TokenIds :
        /\ tokens[t] = None
        /\ tokens'[t] = Fresh(u, "PASSWORD_SETUP") /\ tokens'[t] # None
        /\ \A r \in TokenIds \ {t} : tokens'[r] = tokens[r]
        /\ tokens' \in [TokenIds -> AuthTokens \cup {None}]
  BY <1>1, <1>2, TokenCreated DEF AuthTokenTypes
<1>4. TypeOK'
  BY <1>1, <1>2, <1>3 DEF TypeOK, Fresh
<1>5. TokensMatch' /\ PendingKeepsLink'
  BY <1>1, <1>2, <1>3 DEF TokensMatch, PendingKeepsLink, Fresh
<1>6. ApplicantsMatch' /\ AdminsRemain' /\ SessionsAreEarned' /\ EndedSessionsStayEnded'
  BY <1>1 DEF ApplicantsMatch, AdminsRemain, SessionsAreEarned, EndedSessionsStayEnded
<1>7. Grows
  BY <1>1, <1>3 DEF Grows
<1>8. HandlersKnow'
  BY <1>1, <1>7, HandlersKeep
<1> QED
  BY <1>4, <1>5, <1>6, <1>8 DEF AccountsInv, RowsInv

LEMMA RegisterKeeps ==
  ASSUME AccountsInv, NEW u \in Users, register(u)
  PROVE  AccountsInv'
<1>1. /\ TypeOK /\ TokensMatch /\ ApplicantsMatch /\ SessionsAreEarned
      /\ EndedSessionsStayEnded /\ AdminsRemain /\ PendingKeepsLink /\ HandlersKnow
      /\ UNCHANGED <<verified, sessions, ended, inFlight, staleAdmin>>
      /\ u \in Applicants /\ status[u] = None
      /\ status' = [status EXCEPT ![u] = "PENDING_EMAIL_VERIFICATION"]
      /\ password' = [password EXCEPT ![u] = "chosen"]
      /\ CreateToken(u, "EMAIL_VERIFICATION")
  BY DEF AccountsInv, RowsInv, register
<1>2. PICK t \in TokenIds :
        /\ tokens[t] = None
        /\ tokens'[t] = Fresh(u, "EMAIL_VERIFICATION") /\ tokens'[t] # None
        /\ \A r \in TokenIds \ {t} : tokens'[r] = tokens[r]
        /\ tokens' \in [TokenIds -> AuthTokens \cup {None}]
  BY <1>1, TokenCreated DEF AuthTokenTypes
<1>3. /\ status'[u] = "PENDING_EMAIL_VERIFICATION" /\ password'[u] = "chosen"
      /\ status'[u] # None
      /\ status' \in [Users -> UserStatus \cup {None}]
      /\ password' \in [Users -> {"random", "chosen"}]
      /\ \A w \in Users \ {u} : status'[w] = status[w] /\ password'[w] = password[w]
  BY <1>1, NoneAssumption DEF TypeOK, UserStatus, NoneAssumption
<1>4. u \notin Admins /\ Applicants \subseteq Users
  BY <1>1, UsersAssumption DEF UsersAssumption, Internal, Users
<1>5. TypeOK'
  <2>1. \A r \in TokenIds : tokens'[r] # None => status'[tokens'[r].user] # None
    BY <1>1, <1>2, <1>3, TokenShapes DEF TypeOK, Fresh
  <2>2. \A s \in SessionIds : sessions'[s] # None => status'[sessions'[s]] # None
    BY <1>1, <1>3 DEF TypeOK
  <2> QED
    BY <1>1, <1>2, <1>3, <2>1, <2>2 DEF TypeOK
<1>6. TokensMatch'
  BY <1>1, <1>2 DEF TokensMatch, Fresh
<1>7. PendingKeepsLink'
  BY <1>1, <1>2, <1>3 DEF PendingKeepsLink, Fresh
<1>8. ApplicantsMatch'
  BY <1>1, <1>3, <1>4 DEF ApplicantsMatch
<1>9. AdminsRemain'
  BY <1>1, <1>3, <1>4 DEF AdminsRemain, Users, Internal
<1>10. SessionsAreEarned' /\ EndedSessionsStayEnded'
  BY <1>1, <1>3 DEF SessionsAreEarned, EndedSessionsStayEnded, TypeOK
<1>11. Grows
  BY <1>1, <1>2, <1>3 DEF Grows
<1>12. HandlersKnow'
  BY <1>1, <1>11, HandlersRest
<1> QED
  BY <1>5, <1>6, <1>7, <1>8, <1>9, <1>10, <1>12 DEF AccountsInv, RowsInv

LEMMA InviteKeeps ==
  ASSUME AccountsInv, NEW c \in Clients, inviteInternalUser(c)
  PROVE  AccountsInv'
<1> DEFINE u == inFlight[c].user
<1>1. /\ TypeOK /\ TokensMatch /\ ApplicantsMatch /\ SessionsAreEarned
      /\ EndedSessionsStayEnded /\ AdminsRemain /\ PendingKeepsLink /\ HandlersKnow
      /\ UNCHANGED <<password, verified, sessions, ended, staleAdmin>>
      /\ inFlight' = [inFlight EXCEPT ![c] = None]
  BY DEF AccountsInv, RowsInv, inviteInternalUser, End, Continue
<1>2. u \in Users /\ u \in Internal
  BY HandlingIs, HandlerShapes DEF inviteInternalUser, Knows
<1>3. CASE status[u] # None
  BY <1>1, <1>3, ReadingKeeps DEF inviteInternalUser, userRows
<1>4. CASE status[u] = None
  <2>1. /\ status' = [status EXCEPT ![u] = "PENDING_PASSWORD_SETUP"]
        /\ CreateToken(u, "PASSWORD_SETUP")
    BY <1>4 DEF inviteInternalUser
  <2> HIDE DEF u
  <2>2. PICK t \in TokenIds :
          /\ tokens[t] = None
          /\ tokens'[t] = Fresh(u, "PASSWORD_SETUP") /\ tokens'[t] # None
          /\ \A r \in TokenIds \ {t} : tokens'[r] = tokens[r]
          /\ tokens' \in [TokenIds -> AuthTokens \cup {None}]
    BY <1>1, <1>2, <2>1, TokenCreated DEF AuthTokenTypes
  <2>3. /\ status'[u] = "PENDING_PASSWORD_SETUP" /\ status'[u] # None
        /\ status' \in [Users -> UserStatus \cup {None}]
        /\ \A w \in Users \ {u} : status'[w] = status[w]
    BY <1>1, <1>2, <2>1, NoneAssumption DEF TypeOK, UserStatus, NoneAssumption
  <2>4. u \notin Applicants /\ Applicants \subseteq Users /\ Admins \subseteq Users
    BY <1>2, UsersAssumption DEF UsersAssumption, Internal, Users
  <2>5. TypeOK'
    <3>1. \A r \in TokenIds : tokens'[r] # None => status'[tokens'[r].user] # None
      BY <1>1, <2>2, <2>3, TokenShapes DEF TypeOK, Fresh
    <3>2. \A s \in SessionIds : sessions'[s] # None => status'[sessions'[s]] # None
      BY <1>1, <2>3 DEF TypeOK
    <3> QED
      BY <1>1, <2>2, <2>3, <3>1, <3>2 DEF TypeOK
  <2>6. TokensMatch'
    BY <1>1, <1>2, <2>2 DEF TokensMatch, Fresh
  <2>7. PendingKeepsLink'
    BY <1>1, <1>2, <2>2, <2>3 DEF PendingKeepsLink, Fresh
  <2>8. ApplicantsMatch'
    BY <1>1, <2>3, <2>4 DEF ApplicantsMatch
  <2>9. AdminsRemain'
    <3>1. ASSUME NEW a \in Admins, status[a] = "ACTIVE" PROVE status'[a] = "ACTIVE"
      BY <1>4, <2>3, <2>4, <3>1, NoneAssumption DEF UserStatus, NoneAssumption
    <3> QED
      BY <1>1, <3>1 DEF AdminsRemain
  <2>10. SessionsAreEarned' /\ EndedSessionsStayEnded'
    BY <1>1 DEF SessionsAreEarned, EndedSessionsStayEnded
  <2>11. Grows
    BY <1>1, <2>2, <2>3 DEF Grows
  <2>12. HandlersKnow'
    BY <1>1, <2>11, HandlersKeep
  <2> QED
    BY <2>5, <2>6, <2>7, <2>8, <2>9, <2>10, <2>12 DEF AccountsInv, RowsInv
<1> QED
  BY <1>3, <1>4

(* A link is used: its token is consumed and its user becomes active, in   *)
(* one transaction.                                                        *)
LinkUsed(t) ==
  /\ tokens[t] # None
  /\ tokens' = [tokens EXCEPT ![t] = [tokens[t] EXCEPT !.consumed = TRUE]]
  /\ status' = [status EXCEPT ![tokens[t].user] = "ACTIVE"]
  /\ \A w \in Users : password[w] = "chosen" => password'[w] = "chosen"
  /\ password' \in [Users -> {"random", "chosen"}]
  /\ verified \subseteq verified' /\ verified' \subseteq Users
  /\ tokens[t].user \in Applicants => tokens[t].user \in verified'
  /\ UNCHANGED <<sessions, ended, staleAdmin>>

LEMMA LinkUsedKeeps ==
  ASSUME RowsInv, NEW t \in TokenIds, LinkUsed(t),
         inFlight' \in [Clients -> Handlers \cup {None}]
  PROVE  RowsInv' /\ Grows
<1> DEFINE token == [tokens[t] EXCEPT !.consumed = TRUE]
           u == tokens[t].user
<1>1. /\ TypeOK /\ TokensMatch /\ ApplicantsMatch /\ SessionsAreEarned
      /\ EndedSessionsStayEnded /\ AdminsRemain /\ PendingKeepsLink
      /\ UNCHANGED <<sessions, ended, staleAdmin>>
  BY DEF RowsInv, LinkUsed
<1>2. /\ token \in AuthTokens /\ token # None
      /\ token.user = u /\ token.type = tokens[t].type
      /\ tokens[t] # None /\ u \in Users /\ status[u] # None
  <2>1. tokens[t] \in AuthTokens /\ tokens[t] # None /\ u \in Users
    BY <1>1, TokenShapes DEF LinkUsed
  <2>2. token \in AuthTokens
    BY <2>1 DEF AuthTokens
  <2>3. status[u] # None
    BY <1>1, <2>1 DEF TypeOK
  <2> QED
    BY <2>1, <2>2, <2>3, NoneAssumption DEF AuthTokens, NoneAssumption
<1>3. tokens' = [tokens EXCEPT ![t] = token] /\ status' = [status EXCEPT ![u] = "ACTIVE"]
  BY DEF LinkUsed
<1> HIDE DEF token
<1>4. /\ tokens'[t] = token /\ \A r \in TokenIds \ {t} : tokens'[r] = tokens[r]
      /\ tokens' \in [TokenIds -> AuthTokens \cup {None}]
  BY <1>1, <1>2, <1>3 DEF TypeOK
<1>5. /\ status'[u] = "ACTIVE" /\ status'[u] # None
      /\ \A w \in Users \ {u} : status'[w] = status[w]
      /\ status' \in [Users -> UserStatus \cup {None}]
  BY <1>1, <1>2, <1>3, NoneAssumption DEF TypeOK, UserStatus, NoneAssumption
<1>6. /\ \A r \in TokenIds : tokens[r] # None =>
           /\ tokens'[r] # None
           /\ tokens'[r].user = tokens[r].user /\ tokens'[r].type = tokens[r].type
      /\ \A r \in TokenIds : tokens'[r] # None => tokens[r] # None
      /\ \A w \in Users : status[w] # None => status'[w] # None
  BY <1>2, <1>4, <1>5
<1>7. TypeOK'
  <2>1. \A r \in TokenIds : tokens'[r] # None => status'[tokens'[r].user] # None
    BY <1>1, <1>6, TokenShapes DEF TypeOK
  <2>2. \A s \in SessionIds : sessions'[s] # None => status'[sessions'[s]] # None
    BY <1>1, <1>6 DEF TypeOK
  <2> QED
    BY <1>1, <1>4, <1>5, <2>1, <2>2 DEF TypeOK, LinkUsed
<1>8. TokensMatch'
  BY <1>1, <1>6 DEF TokensMatch
<1>9. ApplicantsMatch'
  BY <1>1, <1>2, <1>5 DEF ApplicantsMatch, LinkUsed, Users
<1>10. SessionsAreEarned' /\ EndedSessionsStayEnded'
  BY <1>1 DEF SessionsAreEarned, EndedSessionsStayEnded, LinkUsed, TypeOK
<1>11. AdminsRemain'
  BY <1>1, <1>5 DEF AdminsRemain, Users, Internal
<1>12. PendingKeepsLink'
  <2>1. ASSUME NEW w \in Users,
               status'[w] \in {"PENDING_EMAIL_VERIFICATION", "PENDING_PASSWORD_SETUP"}
        PROVE  w # u /\ status'[w] = status[w]
    BY <1>5, <2>1
  <2>2. ASSUME NEW w \in Users \ {u}, NEW r \in TokenIds,
               tokens[r] # None, tokens[r].user = w
        PROVE  tokens'[r] = tokens[r]
    BY <1>4, <2>2
  <2> QED
    BY <1>1, <2>1, <2>2 DEF PendingKeepsLink
<1>13. Grows
  BY <1>1, <1>6 DEF Grows, LinkUsed
<1> QED
  BY <1>7, <1>8, <1>9, <1>10, <1>11, <1>12, <1>13 DEF RowsInv

LEMMA SetPasswordKeeps ==
  ASSUME AccountsInv, NEW c \in Clients, setPassword(c)
  PROVE  AccountsInv'
<1> DEFINE t == inFlight[c].token
           u == tokens[t].user
<1>1. TypeOK /\ TokensMatch /\ HandlersKnow /\ RowsInv
  BY DEF AccountsInv, RowsInv
<1>2. t \in TokenIds /\ tokens[t] # None /\ tokens[t].type = "PASSWORD_SETUP"
  BY HandlingIs, HandlerShapes DEF setPassword, Knows
<1>3. inFlight' = [inFlight EXCEPT ![c] = None]
  BY DEF setPassword, End, Continue
<1>4. u \notin Applicants
  BY <1>1, <1>2, UsersAssumption DEF TokensMatch, UsersAssumption
<1>5. /\ tokens' = [tokens EXCEPT ![t] = [tokens[t] EXCEPT !.consumed = TRUE]]
      /\ status' = [status EXCEPT ![u] = "ACTIVE"]
      /\ password' = [password EXCEPT ![u] = "chosen"]
      /\ UNCHANGED <<verified, sessions, ended, staleAdmin>>
  BY DEF setPassword
<1>6. /\ \A w \in Users : password[w] = "chosen" => password'[w] = "chosen"
      /\ password' \in [Users -> {"random", "chosen"}]
  BY <1>1, <1>5 DEF TypeOK
<1>7. LinkUsed(t)
  BY <1>1, <1>2, <1>4, <1>5, <1>6 DEF LinkUsed, TypeOK
<1>8. inFlight' \in [Clients -> Handlers \cup {None}]
  BY <1>1, <1>3 DEF TypeOK
<1>9. RowsInv' /\ Grows
  BY <1>1, <1>2, <1>7, <1>8, LinkUsedKeeps
<1>10. HandlersKnow'
  BY <1>1, <1>3, <1>9, HandlersKeep
<1> QED
  BY <1>9, <1>10 DEF AccountsInv

LEMMA VerifyEmailKeeps ==
  ASSUME AccountsInv, NEW c \in Clients, verifyEmail(c)
  PROVE  AccountsInv'
<1> DEFINE t == inFlight[c].token
           u == tokens[t].user
           h == [kind |-> "createAuthSession", user |-> u]
<1>1. TypeOK /\ TokensMatch /\ ApplicantsMatch /\ HandlersKnow /\ RowsInv
  BY DEF AccountsInv, RowsInv
<1>2. t \in TokenIds /\ tokens[t] # None /\ tokens[t].type = "EMAIL_VERIFICATION"
  BY HandlingIs, HandlerShapes DEF verifyEmail, Knows
<1>3. u \in Users /\ u \in Applicants /\ password[u] = "chosen"
  BY <1>1, <1>2, TokenShapes DEF TokensMatch, ApplicantsMatch, TypeOK
<1>4. /\ tokens' = [tokens EXCEPT ![t] = [tokens[t] EXCEPT !.consumed = TRUE]]
      /\ status' = [status EXCEPT ![u] = "ACTIVE"]
      /\ verified' = verified \cup {u}
      /\ inFlight' = [inFlight EXCEPT ![c] = h]
      /\ UNCHANGED <<password, sessions, ended, staleAdmin>>
  BY DEF verifyEmail, Continue
<1>5. h \in Handlers
  BY <1>3 DEF Handlers
<1>6. LinkUsed(t)
  BY <1>1, <1>2, <1>3, <1>4 DEF LinkUsed, TypeOK
<1>7. inFlight' \in [Clients -> Handlers \cup {None}]
  BY <1>1, <1>4, <1>5 DEF TypeOK
<1>8. RowsInv' /\ Grows
  BY <1>1, <1>2, <1>6, <1>7, LinkUsedKeeps
<1>9. status'[u] # None /\ password'[u] = "chosen" /\ u \in verified'
  BY <1>1, <1>3, <1>4, NoneAssumption DEF TypeOK, UserStatus, NoneAssumption
<1>10. HandlersKnow'
  <2>1. PICK g \in Handlers : g = h
    BY <1>5
  <2>2. Knows(g)'
    BY <1>9, <2>1 DEF Knows
  <2>3. inFlight' = [inFlight EXCEPT ![c] = g]
    BY <1>4, <2>1
  <2> QED
    BY <1>1, <1>8, <2>2, <2>3, HandlersKeep
<1> QED
  BY <1>8, <1>10 DEF AccountsInv

LEMMA UpdateKeeps ==
  ASSUME AccountsInv, NEW c \in Clients, updateInternalUserStatus(c)
  PROVE  AccountsInv'
<1> DEFINE u == inFlight[c].user
           a == inFlight[c].admin
           new == inFlight[c].status
<1>1. /\ TypeOK /\ TokensMatch /\ ApplicantsMatch /\ SessionsAreEarned
      /\ EndedSessionsStayEnded /\ AdminsRemain /\ PendingKeepsLink /\ HandlersKnow
      /\ UNCHANGED <<password, verified, tokens, sessions, ended>>
      /\ inFlight' = [inFlight EXCEPT ![c] = None]
  BY DEF AccountsInv, RowsInv, updateInternalUserStatus, End, Continue
<1>2. /\ u \in Users /\ u \in Internal \ {a} /\ a \in Admins
      /\ new \in {"ACTIVE", "DISABLED"} /\ status[u] # None
  BY HandlingIs, HandlerShapes DEF updateInternalUserStatus, Knows
<1>3. CASE inFlight[c].read = new
  BY <1>1, <1>3, ReadingKeeps DEF updateInternalUserStatus, userRows
<1>4. CASE inFlight[c].read # new
  <2>1. /\ status' = [status EXCEPT ![u] = new]
        /\ staleAdmin' = (staleAdmin \/ status[a] # "ACTIVE")
    BY <1>4 DEF updateInternalUserStatus
  <2> HIDE DEF u, a, new
  <2>2. /\ status'[u] = new /\ status'[u] # None
        /\ status' \in [Users -> UserStatus \cup {None}]
        /\ \A w \in Users \ {u} : status'[w] = status[w]
    BY <1>1, <1>2, <2>1, NoneAssumption DEF TypeOK, UserStatus, NoneAssumption
  <2>3. u \notin Applicants /\ Applicants \subseteq Users /\ Admins \subseteq Users
    BY <1>2, UsersAssumption DEF UsersAssumption, Internal, Users
  <2>4. staleAdmin' \in BOOLEAN
    BY <2>1
  <2>5. TypeOK'
    <3>1. \A r \in TokenIds : tokens'[r] # None => status'[tokens'[r].user] # None
      BY <1>1, <2>2, TokenShapes DEF TypeOK
    <3>2. \A s \in SessionIds : sessions'[s] # None => status'[sessions'[s]] # None
      BY <1>1, <2>2 DEF TypeOK
    <3> QED
      BY <1>1, <2>2, <2>4, <3>1, <3>2 DEF TypeOK
  <2>6. TokensMatch'
    BY <1>1 DEF TokensMatch
  <2>7. PendingKeepsLink'
    BY <1>1, <1>2, <2>2 DEF PendingKeepsLink
  <2>8. ApplicantsMatch'
    BY <1>1, <2>2, <2>3 DEF ApplicantsMatch
  <2>9. AdminsRemain'
    <3>1. CASE status[a] = "ACTIVE"
      <4>1. a # u
        BY <1>2
      <4> QED
        BY <1>2, <2>2, <2>3, <3>1, <4>1 DEF AdminsRemain
    <3>2. CASE status[a] # "ACTIVE"
      BY <2>1, <3>2 DEF AdminsRemain
    <3> QED
      BY <3>1, <3>2
  <2>10. SessionsAreEarned' /\ EndedSessionsStayEnded'
    BY <1>1 DEF SessionsAreEarned, EndedSessionsStayEnded
  <2>11. Grows
    BY <1>1, <2>2 DEF Grows
  <2>12. HandlersKnow'
    BY <1>1, <2>11, HandlersKeep
  <2> QED
    BY <2>5, <2>6, <2>7, <2>8, <2>9, <2>10, <2>12 DEF AccountsInv, RowsInv
<1> QED
  BY <1>3, <1>4

-----------------------------------------------------------------------------
(* The initial state and every step.                                       *)

LEMMA AccountsInvInit == Init => AccountsInv
<1> SUFFICES ASSUME Init PROVE AccountsInv
  OBVIOUS
<1>1. /\ status = [u \in Users |-> IF u \in Admins THEN "ACTIVE" ELSE None]
      /\ password = [u \in Users |-> IF u \in Admins THEN "chosen" ELSE "random"]
      /\ verified = {} /\ ended = {} /\ staleAdmin = FALSE
      /\ \A t \in TokenIds : tokens[t] = None
      /\ \A s \in SessionIds : sessions[s] = None
      /\ \A c \in Clients : inFlight[c] = None
  BY DEF Init
<1>2. TypeOK
  BY <1>1 DEF Init, TypeOK, UserStatus
<1>3. Applicants \subseteq Users /\ Admins \subseteq Users /\ Applicants \cap Admins = {}
  BY UsersAssumption DEF UsersAssumption, Users, Internal
<1>4. \A u \in Applicants : status[u] = None
  BY <1>1, <1>3
<1>5. None # "ACTIVE" /\ None # "PENDING_EMAIL_VERIFICATION"
      /\ None # "PENDING_PASSWORD_SETUP"
  BY NoneAssumption DEF NoneAssumption, UserStatus
<1>6. ApplicantsMatch /\ TokensMatch /\ SessionsAreEarned /\ EndedSessionsStayEnded
  BY <1>1, <1>4, <1>5
     DEF ApplicantsMatch, TokensMatch, SessionsAreEarned, EndedSessionsStayEnded
<1>7. AdminsRemain
  BY <1>1, <1>3, AdminsAssumption DEF AdminsRemain, AdminsAssumption
<1>8. PendingKeepsLink
  BY <1>1, <1>5 DEF PendingKeepsLink
<1>9. HandlersKnow
  BY <1>1 DEF HandlersKnow
<1> QED
  BY <1>2, <1>6, <1>7, <1>8, <1>9 DEF AccountsInv, RowsInv

LEMMA AccountsInvStep == AccountsInv /\ [Next]_vars => AccountsInv'
<1> SUFFICES ASSUME AccountsInv, [Next]_vars PROVE AccountsInv'
  OBVIOUS
<1>1. CASE \E u \in Users : register(u)
  BY <1>1, RegisterKeeps
<1>2. CASE \E c \in Clients, a \in Admins, u \in Users :
             \/ beginInviteInternalUser(c, a, u)
             \/ \E new \in {"ACTIVE", "DISABLED"} :
                  beginUpdateInternalUserStatus(c, a, u, new)
  BY <1>2, BeginInviteKeeps, BeginUpdateKeeps
<1>3. CASE \E c \in Clients, u \in Users : login(c, u) \/ beginRequestPasswordSetup(c, u)
  BY <1>3, LoginKeeps, BeginRequestPasswordSetupKeeps
<1>4. CASE \E c \in Clients, t \in TokenIds : beginSetPassword(c, t) \/ beginVerifyEmail(c, t)
  BY <1>4, BeginSetPasswordKeeps, BeginVerifyEmailKeeps
<1>5. CASE \E c \in Clients, s \in SessionIds : beginRequest(c, s)
  BY <1>5, BeginRequestKeeps
<1>6. ASSUME NEW c \in Clients,
             \/ inviteInternalUser(c)
             \/ requestPasswordSetup(c)
             \/ setPassword(c)
             \/ verifyEmail(c)
             \/ createAuthSession(c)
             \/ beginTouch(c)
             \/ touch(c)
             \/ updateInternalUserStatus(c)
             \/ fail(c)
      PROVE  AccountsInv'
  BY <1>6, InviteKeeps, RequestPasswordSetupKeeps, SetPasswordKeeps, VerifyEmailKeeps,
     CreateAuthSessionKeeps, BeginTouchKeeps, TouchKeeps, UpdateKeeps, FailKeeps
<1>7. CASE \E s \in SessionIds : logout(s) \/ sessionExpires(s)
  BY <1>7, LogoutKeeps, SessionExpiresKeeps
<1>8. CASE \E t \in TokenIds : tokenExpires(t)
  BY <1>8, TokenExpiresKeeps
<1>9. CASE UNCHANGED vars
  <2>1. UNCHANGED <<status, password, verified, tokens, sessions, ended, inFlight, staleAdmin>>
    BY <1>9 DEF vars, userRows
  <2> QED
    BY <2>1 DEF AccountsInv, RowsInv, TypeOK, TokensMatch, ApplicantsMatch,
                SessionsAreEarned, EndedSessionsStayEnded, AdminsRemain,
                PendingKeepsLink, HandlersKnow, Knows
<1> QED
  BY <1>1, <1>2, <1>3, <1>4, <1>5, <1>6, <1>7, <1>8, <1>9 DEF Next

LEMMA AccountsInvAlways == Spec => []AccountsInv
<1> QED
  BY AccountsInvInit, AccountsInvStep, PTL DEF Spec

-----------------------------------------------------------------------------

(* Users, tokens and sessions keep their types, and no token and no        *)
(* session belongs to a user who does not exist (auth.repository.ts).      *)
THEOREM AccountTypes == Spec => []TypeOK
<1>1. AccountsInv => TypeOK
  BY DEF AccountsInv, RowsInv
<1> QED
  BY <1>1, AccountsInvAlways, PTL

(* Only users who chose a password, and applicants only after verifying    *)
(* their e-mail, hold a session, however logins, invitations and changes   *)
(* of status interleave (auth.repository.ts:545-618, 940-963).             *)
THEOREM SessionsEarned == Spec => []SessionsAreEarned
<1>1. AccountsInv => SessionsAreEarned
  BY DEF AccountsInv, RowsInv
<1> QED
  BY <1>1, AccountsInvAlways, PTL

(* A request that is still running cannot bring back a session that was    *)
(* logged out in the meantime (session.store.ts:95-121).                   *)
THEOREM SessionsStayEnded == Spec => []EndedSessionsStayEnded
<1>1. AccountsInv => EndedSessionsStayEnded
  BY DEF AccountsInv, RowsInv
<1> QED
  BY <1>1, AccountsInvAlways, PTL

(* The last active admin can be disabled only by somebody who was disabled *)
(* after being authorised (admin.repository.ts:129-216).                   *)
THEOREM SomeAdminRemains == Spec => []AdminsRemain
<1>1. AccountsInv => AdminsRemain
  BY DEF AccountsInv, RowsInv
<1> QED
  BY <1>1, AccountsInvAlways, PTL

(* No interleaving of setPassword, verifyEmail and their retries strands a *)
(* pending account without an unconsumed token (auth.repository.ts:864-898).*)
THEOREM PendingAccountsKeepLink == Spec => []PendingKeepsLink
<1>1. AccountsInv => PendingKeepsLink
  BY DEF AccountsInv, RowsInv
<1> QED
  BY <1>1, AccountsInvAlways, PTL

=============================================================================
