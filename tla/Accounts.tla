------------------------------ MODULE Accounts ------------------------------
(***************************************************************************)
(* Users, linked provider accounts and sessions (apps/api/src/auth.ts,     *)
(* auth-routes.ts, and the queries of db.ts they await).  Every await of a *)
(* route is a step, so that the requests interleave and the API can end    *)
(* between any two of them; nothing here is in a transaction.              *)
(*                                                                         *)
(* A user is named by the request that inserted the row, a session by the  *)
(* request that opened it.  A mail is an address and its spelling: the     *)
(* column is UNIQUE on the exact text, the look-up compares lower(email).  *)
(***************************************************************************)
EXTENDS Naturals, FiniteSets

CONSTANTS
    Calls,      \* requests: each is a registration, a login, or an OAuth flow
    Browsers,
    Accounts,   \* accounts at a provider: (provider, provider_account_id)
    Addresses,
    MailsOf,    \* account -> the mails its provider may answer
    MaxSecrets, \* bound: how many values AUTH_SECRET takes
    NoUser

Mails == [address : Addresses, spelling : {"lower", "mixed"}]

ASSUME AccountsAssumption ==
    /\ NoUser \notin Calls
    /\ MailsOf \in [Accounts -> SUBSET Mails]
    /\ MaxSecrets \in Nat \ {0}

VARIABLES
    users,      \* users, by id: a row, or NoUser
    links,      \* oauth_accounts, UNIQUE(provider, provider_account_id)
    tokens,     \* oauth_accounts.access_token: the secret it is encrypted with
    sessions,   \* sessions, by id: the user
    stateCookie,\* browser -> its cookie nexus_oauth_state: the flow it names
    cookieEnded,\* browsers whose state cookie has run out (history)
    secret,     \* the secret the API has been started with
    call,       \* request -> where it is and what it knows
    raced       \* requests one of whose look-ups was overtaken (history)
accountVars ==
    <<users, links, tokens, sessions, stateCookie, cookieEnded, secret, call, raced>>

NoMail == [address |-> "none", spelling |-> "none"]
Idle == [kind |-> "none", at |-> "idle", browser |-> "none", account |-> "none",
         mail |-> NoMail, user |-> NoUser, key |-> 0]

\* Where a request that has been answered is: with a session, refused by a check,
\* failed with an error 500, or lost with the process.
Answered == {"done", "taken", "unauthorized", "refused", "failed", "lost"}

AccountsInit ==
    /\ users = [u \in Calls |-> NoUser]
    /\ links = [a \in Accounts |-> NoUser]
    /\ tokens = [a \in Accounts |-> 0]
    /\ sessions = [s \in Calls |-> NoUser]
    /\ stateCookie = [b \in Browsers |-> "none"]
    /\ cookieEnded = {}
    /\ secret = 1
    /\ call = [c \in Calls |-> Idle]
    /\ raced = {}

Users == {u \in Calls : users[u] # NoUser}

\* Mutant of getUserByEmail: the exact text is compared.
getUserByExactEmail(mail) == {u \in Users : users[u].mail = mail}

\* getUserByEmail; LIMIT 1 without an order, so any of the rows.
getUserByEmail(mail) == {u \in Users : users[u].mail.address = mail.address}

\* The UNIQUE constraint of users.email.
MailTaken(mail) == \E u \in Users : users[u].mail = mail

-----------------------------------------------------------------------------
(* Mail and password *)

\* POST /api/auth/register up to the look-up; it lowers the mail first.
Register(c, address) ==
    LET mail == [address |-> address, spelling |-> "lower"]
    IN  /\ call[c].at = "idle"
        /\ call' = [call EXCEPT
              ![c].kind = "register",
              ![c].mail = mail,
              ![c].at = IF getUserByEmail(mail) # {} THEN "taken" ELSE "insertUser"]
        /\ UNCHANGED <<users, links, tokens, sessions, stateCookie, cookieEnded,
                       secret, raced>>

\* POST /api/auth/login with the password the user has registered, up to the answer of
\* the look-up.
Login(c, address) ==
    LET found == {u \in Users : users[u].mail.address = address}
    IN  /\ call[c].at = "idle"
        /\ \/ /\ found = {}
              /\ call' = [call EXCEPT ![c].kind = "login", ![c].at = "unauthorized"]
           \/ \E u \in found :
                call' = [call EXCEPT
                    ![c].kind = "login",
                    ![c].user = u,
                    ![c].at = IF users[u].password THEN "openSession"
                                                   ELSE "unauthorized"]
        /\ UNCHANGED <<users, links, tokens, sessions, stateCookie, cookieEnded,
                       secret, raced>>

\* createUser, for a registration or for the first login of a provider account.
InsertUser(c) ==
    /\ call[c].at = "insertUser"
    /\ IF MailTaken(call[c].mail)
       THEN /\ call' = [call EXCEPT ![c].at = "failed"]
            /\ UNCHANGED <<users, raced>>
       ELSE /\ users' = [users EXCEPT ![c] =
                  [mail |-> call[c].mail, password |-> call[c].kind = "register"]]
            /\ call' = [call EXCEPT
                  ![c].user = c,
                  ![c].at = IF call[c].kind = "register" THEN "openSession"
                                                         ELSE "insertLink"]
            /\ raced' = raced \cup
                  {d \in Calls \ {c} :
                      /\ call[d].at = "insertUser"
                      /\ call[d].mail.address = call[c].mail.address}
    /\ UNCHANGED <<links, tokens, sessions, stateCookie, cookieEnded, secret>>

\* setLogin: startSession and the cookie.
OpenSession(c) ==
    /\ call[c].at = "openSession"
    /\ sessions' = [sessions EXCEPT ![c] = call[c].user]
    /\ call' = [call EXCEPT ![c].at = "done"]
    /\ UNCHANGED <<users, links, tokens, stateCookie, cookieEnded, secret, raced>>

\* endSession; to getUserBySession an expired session is none either.
EndSession(s) ==
    /\ sessions[s] # NoUser
    /\ sessions' = [sessions EXCEPT ![s] = NoUser]
    /\ UNCHANGED <<users, links, tokens, stateCookie, cookieEnded, secret, call, raced>>

-----------------------------------------------------------------------------
(* Login at a provider *)

\* GET /api/auth/github/start and google/start: one cookie for both providers.
OAuthStart(c, b, a) ==
    /\ call[c].at = "idle"
    /\ call' = [call EXCEPT ![c].kind = "oauth", ![c].at = "away",
                            ![c].browser = b, ![c].account = a, ![c].key = secret]
    /\ stateCookie' = [stateCookie EXCEPT ![b] = c]
    /\ UNCHANGED <<users, links, tokens, sessions, cookieEnded, secret, raced>>

\* The cookie's Max-Age of 600 seconds.
CookieEnds(b) ==
    /\ stateCookie[b] # "none"
    /\ stateCookie' = [stateCookie EXCEPT ![b] = "none"]
    /\ cookieEnded' = cookieEnded \cup {b}
    /\ UNCHANGED <<users, links, tokens, sessions, secret, call, raced>>

\* validState and the comparison with the cookie; the state is signed with the secret.
validState(c) == stateCookie[call[c].browser] = c /\ call[c].key = secret

\* The callback: refused for its state, given up because of the provider's answers, or
\* on with one of the mails the provider has for the account.
OAuthCallback(c) ==
    /\ call[c].at = "away"
    /\ \/ /\ ~validState(c)
          /\ call' = [call EXCEPT ![c].at = "refused"]
       \/ /\ validState(c)
          /\ \/ call' = [call EXCEPT ![c].at = "unauthorized"]
             \/ \E m \in MailsOf[call[c].account] :
                  call' = [call EXCEPT ![c].mail = m, ![c].at = "selectLink"]
    /\ UNCHANGED <<users, links, tokens, sessions, stateCookie, cookieEnded,
                   secret, raced>>

\* upsertOAuthAccount, first query.
SelectLink(c) ==
    /\ call[c].at = "selectLink"
    /\ call' = IF links[call[c].account] # NoUser
               THEN [call EXCEPT ![c].user = links[call[c].account], ![c].at = "refresh"]
               ELSE [call EXCEPT ![c].at = "selectUser"]
    /\ UNCHANGED <<users, links, tokens, sessions, stateCookie, cookieEnded,
                   secret, raced>>

\* Mutant of SelectUser: every new account gets a user of its own.
SelectNoUser(c) ==
    /\ call[c].at = "selectUser"
    /\ call' = [call EXCEPT ![c].at = "insertUser"]
    /\ UNCHANGED <<users, links, tokens, sessions, stateCookie, cookieEnded,
                   secret, raced>>

\* upsertOAuthAccount: an account that is new is linked to the user of its mail.
SelectUser(c) ==
    /\ call[c].at = "selectUser"
    /\ \/ /\ getUserByEmail(call[c].mail) = {}
          /\ call' = [call EXCEPT ![c].at = "insertUser"]
       \/ \E u \in getUserByEmail(call[c].mail) :
            call' = [call EXCEPT ![c].user = u, ![c].at = "insertLink"]
    /\ UNCHANGED <<users, links, tokens, sessions, stateCookie, cookieEnded,
                   secret, raced>>

InsertLink(c) ==
    /\ call[c].at = "insertLink"
    /\ IF links[call[c].account] # NoUser
       THEN /\ call' = [call EXCEPT ![c].at = "failed"]
            /\ UNCHANGED <<links, tokens, raced>>
       ELSE /\ links' = [links EXCEPT ![call[c].account] = call[c].user]
            /\ tokens' = [tokens EXCEPT ![call[c].account] = secret]
            /\ call' = [call EXCEPT ![c].at = "openSession"]
            /\ raced' = raced \cup
                  {d \in Calls \ {c} :
                      /\ call[d].at \in {"selectUser", "insertUser", "insertLink"}
                      /\ call[d].account = call[c].account}
    /\ UNCHANGED <<users, sessions, stateCookie, cookieEnded, secret>>

\* Mutant of Refresh: a known account keeps the token it has.
RefreshNothing(c) ==
    /\ call[c].at = "refresh"
    /\ call' = [call EXCEPT ![c].at = "openSession"]
    /\ UNCHANGED <<users, links, tokens, sessions, stateCookie, cookieEnded,
                   secret, raced>>

\* upsertOAuthAccount for a known account: the token, and the name and the picture.
Refresh(c) ==
    /\ call[c].at = "refresh"
    /\ tokens' = [tokens EXCEPT ![call[c].account] = secret]
    /\ call' = [call EXCEPT ![c].at = "openSession"]
    /\ UNCHANGED <<users, links, sessions, stateCookie, cookieEnded, secret, raced>>

\* The API ends, with every request it has in its hands, and is started again, perhaps
\* with another AUTH_SECRET.  A flow that is away at its provider is in the browser.
Restart ==
    /\ secret' \in {secret, secret + 1} \cap (1 .. MaxSecrets)
    /\ call' = [c \in Calls |->
          IF call[c].at \in Answered \cup {"idle", "away"} THEN call[c]
          ELSE [call[c] EXCEPT !.at = "lost"]]
    /\ UNCHANGED <<users, links, tokens, sessions, stateCookie, cookieEnded, raced>>

CallStep(c) ==
    \/ InsertUser(c) \/ OpenSession(c) \/ OAuthCallback(c)
    \/ SelectLink(c) \/ SelectUser(c) \/ InsertLink(c) \/ Refresh(c)

AccountsNext ==
    \/ \E c \in Calls :
        \/ \E address \in Addresses : Register(c, address) \/ Login(c, address)
        \/ \E b \in Browsers, a \in Accounts : OAuthStart(c, b, a)
        \/ CallStep(c)
        \/ EndSession(c)
    \/ \E b \in Browsers : CookieEnds(b)
    \/ Restart

AccountsSpec == AccountsInit /\ [][AccountsNext]_accountVars

(***************************************************************************)
(* Properties                                                              *)
(***************************************************************************)

Steps == {"idle", "insertUser", "openSession", "away", "selectLink", "selectUser",
          "insertLink", "refresh"} \cup Answered

AccountsTypeOK ==
    /\ users \in [Calls -> [mail : Mails, password : BOOLEAN] \cup {NoUser}]
    /\ links \in [Accounts -> Calls \cup {NoUser}]
    /\ tokens \in [Accounts -> 0 .. MaxSecrets]
    /\ sessions \in [Calls -> Calls \cup {NoUser}]
    /\ stateCookie \in [Browsers -> Calls \cup {"none"}]
    /\ cookieEnded \subseteq Browsers
    /\ secret \in 1 .. MaxSecrets
    /\ call \in [Calls -> [kind : {"none", "register", "login", "oauth"}, at : Steps,
                           browser : Browsers \cup {"none"},
                           account : Accounts \cup {"none"},
                           mail : Mails \cup {NoMail}, user : Calls \cup {NoUser},
                           key : 0 .. MaxSecrets]]
    /\ raced \subseteq Calls

\* A unique constraint of users or oauth_accounts answers 500 only to a request whose
\* look-up was overtaken by another one (db.ts:7,10; auth-routes.ts:54).
OnlyRacesFail == \A c \in Calls : call[c].at = "failed" => c \in raced

\* Two users share a mail address only if the look-up of one of them was overtaken,
\* although the constraint compares the spelling and the look-ups do not (db.ts:9).
OneUserPerAddress ==
    \A u, v \in Users :
        u # v /\ users[u].mail.address = users[v].mail.address =>
            u \in raced \/ v \in raced

\* Who has logged in at a provider is in the session of the user the account is linked
\* to, and the token of the account can be read as long as the secret stays: what
\* GET /api/auth/github/repos relies on (auth-routes.ts:107-109).
LoginConnects ==
    \A c \in Calls :
        call[c].at = "done" /\ call[c].kind = "oauth" =>
            /\ sessions[c] \in {links[call[c].account], NoUser}
            /\ links[call[c].account] = call[c].user
            /\ call[c].key = secret => tokens[call[c].account] = secret

\* A login at a provider is refused for its state only if the browser has begun another
\* one, the cookie has run out, or the secret has changed (auth-routes.ts:69,95).
StateRefusals ==
    \A c \in Calls :
        call[c].at = "refused" =>
            \/ \E d \in Calls \ {c} : call[d].browser = call[c].browser
            \/ call[c].browser \in cookieEnded
            \/ call[c].key # secret

\* Whoever is turned away has been overtaken, has begun twice, or has waited too long.
RefusalsExplained == OnlyRacesFail /\ StateRefusals
=============================================================================
