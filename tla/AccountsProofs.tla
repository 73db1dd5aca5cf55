---------------------------- MODULE AccountsProofs ----------------------------
(***************************************************************************)
(* However the requests of browsers and the restarts of the API interleave,*)
(* who logs in at a provider is connected with the user of the account,    *)
(* and an address is doubled, or a request fails, only where a look-up was *)
(* overtaken before the row it decided on was there.                       *)
(***************************************************************************)
EXTENDS Accounts, TLAPS

Call == [kind : {"none", "register", "login", "oauth"}, at : Steps,
         browser : Browsers \cup {"none"}, account : Accounts \cup {"none"},
         mail : Mails \cup {NoMail}, user : Calls \cup {NoUser}, key : 0 .. MaxSecrets]

\* What a request's look-ups have told it still holds, unless it was overtaken.
LookupsHold(c) ==
    /\ call[c].at \in {"selectLink", "selectUser", "insertUser"} => call[c].mail \in Mails
    /\ call[c].at = "insertUser" =>
          /\ call[c].kind \in {"register", "oauth"}
          /\ c \in raced \/ getUserByEmail(call[c].mail) = {}
    /\ call[c].kind = "oauth" /\ call[c].at \in {"selectUser", "insertUser", "insertLink"} =>
          c \in raced \/ links[call[c].account] = NoUser
    /\ call[c].at = "failed" => c \in raced

\* A login at a provider has an account; once it has found or linked it, the account is
\* the user's, and the token is there for as long as the secret of the login.
LoginHolds(c) ==
    /\ call[c].at \in {"away", "selectLink", "selectUser", "insertLink", "refresh"} =>
          call[c].kind = "oauth"
    /\ call[c].kind = "oauth" => call[c].account \in Accounts /\ call[c].at # "idle"
    /\ call[c].at = "insertLink" => call[c].user \in Calls
    /\ call[c].kind = "oauth" /\ call[c].at \in {"refresh", "openSession", "done"} =>
          call[c].user \in Calls /\ links[call[c].account] = call[c].user
    /\ call[c].kind = "oauth" /\ call[c].at \in {"openSession", "done"} =>
          (call[c].key = secret => tokens[call[c].account] = secret)
    /\ call[c].at = "done" => sessions[c] \in {call[c].user, NoUser}

\* Another flow of the same browser has begun.
Another(c) == \E d \in Calls \ {c} : call[d].at # "idle" /\ call[d].browser = call[c].browser

\* The cookie of a flow that is away is its own, or there is a reason why not; and a
\* secret that has been given up does not come back.
StateHolds(c) ==
    /\ call[c].key <= secret
    /\ call[c].at = "away" => call[c].browser \in Browsers
    /\ call[c].at = "away" =>
          \/ stateCookie[call[c].browser] = c
          \/ Another(c)
          \/ call[c].browser \in cookieEnded
    /\ call[c].at = "refused" =>
          \/ Another(c)
          \/ call[c].browser \in cookieEnded
          \/ call[c].key # secret

CallInv(c) == LookupsHold(c) /\ LoginHolds(c) /\ StateHolds(c)

AccountsInv ==
    /\ AccountsTypeOK
    /\ OneUserPerAddress
    /\ \A c \in Calls : CallInv(c)

\* A request becomes what `new` says, and a browser stays with the flow it has begun.
Becomes(c, new) ==
    /\ call' = [call EXCEPT ![c] = new]
    /\ call[c].at # "idle" => new.at # "idle" /\ new.browser = call[c].browser

LEMMA BecomesEffect ==
  ASSUME AccountsTypeOK, NEW c \in Calls, NEW new \in Call, Becomes(c, new)
  PROVE  /\ call'[c] = new
         /\ \A d \in Calls \ {c} : call'[d] = call[d]
         /\ call' \in [Calls -> Call]
         /\ \A d \in Calls : Another(d) /\ d # c => Another(d)'
         /\ Another(c) /\ new.browser = call[c].browser => Another(c)'
BY DEF AccountsTypeOK, Becomes, Call, Another

\* A step of a request that reads the tables and writes none.
LEMMA ReadStep ==
  ASSUME AccountsInv, NEW c \in Calls, NEW new \in Call, Becomes(c, new),
         UNCHANGED <<users, links, tokens, sessions, stateCookie, cookieEnded, secret, raced>>,
         CallInv(c)'
  PROVE  AccountsInv'
<1>1. /\ \A d \in Calls \ {c} : call'[d] = call[d]
      /\ call' \in [Calls -> Call]
      /\ \A d \in Calls : Another(d) /\ d # c => Another(d)'
  BY BecomesEffect DEF AccountsInv
<1>2. AccountsTypeOK'
  BY <1>1 DEF AccountsInv, AccountsTypeOK, Call
<1>3. OneUserPerAddress'
  BY DEF AccountsInv, OneUserPerAddress, Users
<1>4. ASSUME NEW d \in Calls, d # c PROVE CallInv(d)'
  <2>1. call'[d] = call[d] /\ CallInv(d) /\ (Another(d) => Another(d)')
    BY <1>1, <1>4 DEF AccountsInv
  <2>2. LookupsHold(d)'
    BY <2>1 DEF CallInv, LookupsHold, getUserByEmail, Users
  <2>3. LoginHolds(d)'
    BY <2>1 DEF CallInv, LoginHolds
  <2>4. StateHolds(d)'
    BY <2>1 DEF CallInv, StateHolds
  <2> QED  BY <2>2, <2>3, <2>4 DEF CallInv
<1> QED  BY <1>2, <1>3, <1>4 DEF AccountsInv

-----------------------------------------------------------------------------
(* Mail and password *)

LEMMA RegisterStep ==
  ASSUME AccountsInv, NEW c \in Calls, NEW address \in Addresses, Register(c, address)
  PROVE  AccountsInv'
<1> DEFINE mail == [address |-> address, spelling |-> "lower"]
<1>1. PICK at \in {"taken", "insertUser"} :
        /\ call' = [call EXCEPT ![c].kind = "register", ![c].mail = mail, ![c].at = at]
        /\ at = "insertUser" => getUserByEmail(mail) = {}
  BY DEF Register
<1> DEFINE new == [call[c] EXCEPT !.kind = "register", !.mail = mail, !.at = at]
<1>2. /\ call[c].at = "idle" /\ call \in [Calls -> Call] /\ call[c] \in Call
      /\ UNCHANGED <<users, links, tokens, sessions, stateCookie, cookieEnded, secret, raced>>
  BY DEF Register, AccountsInv, AccountsTypeOK, Call
<1>3. new \in Call /\ new.kind = "register" /\ new.at = at /\ new.mail = mail
      /\ new.key = call[c].key
  BY <1>2 DEF Call, Mails, Steps, Answered
<1>4. Becomes(c, new)
  BY <1>1, <1>2 DEF Becomes, Call
<1> HIDE DEF new, mail
<1>5. call'[c] = new
  BY <1>3, <1>4, BecomesEffect DEF AccountsInv
<1>6. LookupsHold(c)'
  <2>1. at = "insertUser" => getUserByEmail(mail)' = {}
    BY <1>1, <1>2 DEF getUserByEmail, Users
  <2>2. mail \in Mails
    BY DEF mail, Mails
  <2> QED  BY <1>3, <1>5, <2>1, <2>2 DEF LookupsHold
<1>7. LoginHolds(c)'
  BY <1>3, <1>5 DEF LoginHolds
<1>8. StateHolds(c)'
  <2>1. call[c].key <= secret
    BY DEF AccountsInv, CallInv, StateHolds
  <2> QED  BY <1>1, <1>2, <1>3, <1>5, <2>1 DEF StateHolds
<1> QED  BY <1>2, <1>3, <1>4, <1>6, <1>7, <1>8, ReadStep DEF CallInv

LEMMA LoginStep ==
  ASSUME AccountsInv, NEW c \in Calls, NEW address \in Addresses, Login(c, address)
  PROVE  AccountsInv'
<1>1. PICK new \in Call :
        /\ Becomes(c, new)
        /\ new.kind = "login" /\ new.at \in {"unauthorized", "openSession"}
        /\ new.key = call[c].key
  <2>1. call[c].at = "idle" /\ call \in [Calls -> Call] /\ call[c] \in Call
    BY DEF Login, AccountsInv, AccountsTypeOK, Call
  <2>2. CASE call' = [call EXCEPT ![c].kind = "login", ![c].at = "unauthorized"]
    <3> DEFINE new == [call[c] EXCEPT !.kind = "login", !.at = "unauthorized"]
    <3>1. new \in Call /\ call' = [call EXCEPT ![c] = new]
      BY <2>1, <2>2 DEF Call, Steps, Answered
    <3> QED  BY <2>1, <3>1 DEF Becomes, Call
  <2>3. ASSUME NEW u \in Users, NEW at \in {"unauthorized", "openSession"},
               call' = [call EXCEPT ![c].kind = "login", ![c].user = u, ![c].at = at]
        PROVE  \E new \in Call :
                 /\ Becomes(c, new)
                 /\ new.kind = "login" /\ new.at \in {"unauthorized", "openSession"}
                 /\ new.key = call[c].key
    <3> DEFINE new == [call[c] EXCEPT !.kind = "login", !.user = u, !.at = at]
    <3>1. new \in Call /\ call' = [call EXCEPT ![c] = new]
      BY <2>1, <2>3 DEF Call, Steps, Answered, Users
    <3> QED  BY <2>1, <3>1 DEF Becomes, Call
  <2> QED  BY <2>2, <2>3 DEF Login
<1>2. UNCHANGED <<users, links, tokens, sessions, stateCookie, cookieEnded, secret, raced>>
  BY DEF Login
<1>3. call'[c] = new
  BY <1>1, BecomesEffect DEF AccountsInv
<1>4. LookupsHold(c)' /\ LoginHolds(c)'
  BY <1>1, <1>3 DEF LookupsHold, LoginHolds
<1>5. StateHolds(c)'
  <2>1. call[c].key <= secret
    BY DEF AccountsInv, CallInv, StateHolds
  <2> QED  BY <1>1, <1>2, <1>3, <2>1 DEF StateHolds
<1> QED  BY <1>1, <1>2, <1>4, <1>5, ReadStep DEF CallInv

-----------------------------------------------------------------------------
(* Login at a provider: what only reads *)

\* All but its place and its user stays as it is.
Moved(c, new, user, at) ==
    /\ new.at = at /\ new.user = user
    /\ new.kind = call[c].kind /\ new.browser = call[c].browser
    /\ new.account = call[c].account /\ new.mail = call[c].mail /\ new.key = call[c].key

LEMMA PlaceMoves ==
  ASSUME AccountsTypeOK, NEW c \in Calls, NEW at \in Steps \ {"idle"},
         call' = [call EXCEPT ![c].at = at]
  PROVE  \E new \in Call : Becomes(c, new) /\ Moved(c, new, call[c].user, at)
<1> DEFINE new == [call[c] EXCEPT !.at = at]
<1>1. call \in [Calls -> Call] /\ call[c] \in Call
  BY DEF AccountsTypeOK, Call
<1>2. new \in Call /\ call' = [call EXCEPT ![c] = new] /\ Moved(c, new, call[c].user, at)
  BY <1>1 DEF Call, Moved
<1> HIDE DEF new
<1> QED  BY <1>2 DEF Becomes, Moved

LEMMA UserMoves ==
  ASSUME AccountsTypeOK, NEW c \in Calls, NEW at \in Steps \ {"idle"}, NEW u \in Calls,
         call' = [call EXCEPT ![c].user = u, ![c].at = at]
  PROVE  \E new \in Call : Becomes(c, new) /\ Moved(c, new, u, at)
<1> DEFINE new == [call[c] EXCEPT !.user = u, !.at = at]
<1>1. call \in [Calls -> Call] /\ call[c] \in Call
  BY DEF AccountsTypeOK, Call
<1>2. new \in Call /\ call' = [call EXCEPT ![c] = new] /\ Moved(c, new, u, at)
  BY <1>1 DEF Call, Moved
<1> HIDE DEF new
<1> QED  BY <1>2 DEF Becomes, Moved

LEMMA CallbackStep ==
  ASSUME AccountsInv, NEW c \in Calls, OAuthCallback(c)
  PROVE  AccountsInv'
<1>1. /\ call[c].at = "away" /\ call[c].kind = "oauth" /\ call[c].account \in Accounts
      /\ call[c].key <= secret /\ call \in [Calls -> Call] /\ call[c] \in Call
      /\ UNCHANGED <<users, links, tokens, sessions, stateCookie, cookieEnded, secret, raced>>
  BY DEF OAuthCallback, AccountsInv, CallInv, LoginHolds, StateHolds, AccountsTypeOK, Call
<1>2. CASE call' = [call EXCEPT ![c].at = "refused"] /\ ~validState(c)
  <2>1. PICK new \in Call : Becomes(c, new) /\ Moved(c, new, call[c].user, "refused")
    BY <1>2, PlaceMoves DEF AccountsInv, Steps, Answered
  <2>2. call'[c] = new /\ (Another(c) => Another(c)')
    BY <2>1, BecomesEffect DEF AccountsInv, Moved
  <2>3. LookupsHold(c)' /\ LoginHolds(c)'
    BY <1>1, <2>1, <2>2 DEF LookupsHold, LoginHolds, Moved
  <2>4. \/ Another(c) \/ call[c].browser \in cookieEnded \/ call[c].key # secret
    BY <1>1, <1>2 DEF AccountsInv, CallInv, StateHolds, validState
  <2>5. StateHolds(c)'
    BY <1>1, <2>1, <2>2, <2>4 DEF StateHolds, Moved
  <2> QED  BY <1>1, <2>1, <2>3, <2>5, ReadStep DEF CallInv
<1>3. CASE call' = [call EXCEPT ![c].at = "unauthorized"]
  <2>1. PICK new \in Call : Becomes(c, new) /\ Moved(c, new, call[c].user, "unauthorized")
    BY <1>3, PlaceMoves DEF AccountsInv, Steps, Answered
  <2>2. call'[c] = new
    BY <2>1, BecomesEffect DEF AccountsInv
  <2>3. LookupsHold(c)' /\ LoginHolds(c)' /\ StateHolds(c)'
    BY <1>1, <2>1, <2>2 DEF LookupsHold, LoginHolds, StateHolds, Moved
  <2> QED  BY <1>1, <2>1, <2>3, ReadStep DEF CallInv
<1>4. ASSUME NEW m \in MailsOf[call[c].account],
             call' = [call EXCEPT ![c].mail = m, ![c].at = "selectLink"]
      PROVE  AccountsInv'
  <2> DEFINE new == [call[c] EXCEPT !.mail = m, !.at = "selectLink"]
  <2>1. m \in Mails
    BY <1>1, AccountsAssumption
  <2>2. /\ new \in Call /\ call' = [call EXCEPT ![c] = new]
        /\ new.at = "selectLink" /\ new.mail = m /\ new.kind = "oauth"
        /\ new.account \in Accounts /\ new.key = call[c].key
        /\ new.browser = call[c].browser
    BY <1>1, <1>4, <2>1 DEF Call, Steps
  <2> HIDE DEF new
  <2>3. Becomes(c, new)
    BY <2>2 DEF Becomes
  <2>4. call'[c] = new
    BY <2>2, <2>3, BecomesEffect DEF AccountsInv
  <2>5. LookupsHold(c)' /\ LoginHolds(c)' /\ StateHolds(c)'
    BY <1>1, <2>1, <2>2, <2>4 DEF LookupsHold, LoginHolds, StateHolds
  <2> QED  BY <1>1, <2>2, <2>3, <2>5, ReadStep DEF CallInv
<1> QED  BY <1>2, <1>3, <1>4 DEF OAuthCallback

\* The look-ups of a login.
LEMMA FindUserStep ==
  ASSUME AccountsInv, NEW c \in Calls, SelectLink(c) \/ SelectUser(c)
  PROVE  AccountsInv'
<1>1. /\ call[c].at \in {"selectLink", "selectUser"} /\ call[c].kind = "oauth"
      /\ call[c].account \in Accounts /\ call[c].mail \in Mails
      /\ call[c].key <= secret
      /\ links \in [Accounts -> Calls \cup {NoUser}]
      /\ UNCHANGED <<users, links, tokens, sessions, stateCookie, cookieEnded, secret, raced>>
  BY DEF SelectLink, SelectUser, AccountsInv, CallInv, LookupsHold, LoginHolds, StateHolds,
         AccountsTypeOK
<1>2. PICK new \in Call, u \in Calls \cup {NoUser} :
        /\ Becomes(c, new)
        /\ \/ /\ Moved(c, new, u, "refresh")
              /\ u \in Calls /\ links[call[c].account] = u
           \/ /\ Moved(c, new, u, "selectUser")
              /\ links[call[c].account] = NoUser
           \/ /\ Moved(c, new, u, "insertUser")
              /\ call[c].at = "selectUser" /\ getUserByEmail(call[c].mail) = {}
           \/ /\ Moved(c, new, u, "insertLink")
              /\ call[c].at = "selectUser" /\ u \in Calls
  <2>1. call[c].user \in Calls \cup {NoUser}
    BY DEF AccountsInv, AccountsTypeOK
  <2>2. CASE SelectLink(c) /\ links[call[c].account] # NoUser
    <3>1. /\ call' = [call EXCEPT ![c].user = links[call[c].account], ![c].at = "refresh"]
          /\ links[call[c].account] \in Calls
      BY <1>1, <2>2 DEF SelectLink
    <3> QED  BY <3>1, UserMoves DEF AccountsInv, Steps
  <2>3. CASE SelectLink(c) /\ links[call[c].account] = NoUser
    <3>1. call' = [call EXCEPT ![c].at = "selectUser"]
      BY <2>3 DEF SelectLink
    <3> QED  BY <2>1, <2>3, <3>1, PlaceMoves DEF AccountsInv, Steps
  <2>4. CASE SelectUser(c) /\ call' = [call EXCEPT ![c].at = "insertUser"]
             /\ getUserByEmail(call[c].mail) = {}
    <3>1. call[c].at = "selectUser"
      BY <2>4 DEF SelectUser
    <3> QED  BY <2>1, <2>4, <3>1, PlaceMoves DEF AccountsInv, Steps
  <2>5. ASSUME SelectUser(c), NEW u \in getUserByEmail(call[c].mail),
               call' = [call EXCEPT ![c].user = u, ![c].at = "insertLink"]
        PROVE  \E new \in Call : /\ Becomes(c, new)
                                 /\ Moved(c, new, u, "insertLink")
                                 /\ call[c].at = "selectUser" /\ u \in Calls
    <3>1. call[c].at = "selectUser" /\ u \in Calls
      BY <2>5 DEF SelectUser, getUserByEmail, Users
    <3> QED  BY <2>5, <3>1, UserMoves DEF AccountsInv, Steps
  <2> QED  BY <2>2, <2>3, <2>4, <2>5 DEF SelectUser
<1>3. call'[c] = new
  BY <1>2, BecomesEffect DEF AccountsInv
<1>4. call[c].at = "selectUser" => c \in raced \/ links[call[c].account] = NoUser
  BY <1>1 DEF AccountsInv, CallInv, LookupsHold
<1>5. getUserByEmail(call[c].mail) = {} => getUserByEmail(new.mail)' = {}
  BY <1>1, <1>2 DEF getUserByEmail, Users, Moved
<1>6. LookupsHold(c)'
  BY <1>1, <1>2, <1>3, <1>4, <1>5 DEF LookupsHold, Moved
<1>7. LoginHolds(c)'
  BY <1>1, <1>2, <1>3 DEF LoginHolds, Moved
<1>8. StateHolds(c)'
  BY <1>1, <1>2, <1>3 DEF StateHolds, Moved
<1> QED  BY <1>1, <1>2, <1>6, <1>7, <1>8, ReadStep DEF CallInv

\* A unique constraint answers a request that was overtaken.
LEMMA FailStep ==
  ASSUME AccountsInv, NEW c \in Calls,
         \/ InsertUser(c) /\ MailTaken(call[c].mail)
         \/ InsertLink(c) /\ links[call[c].account] # NoUser
  PROVE  AccountsInv'
<1>1. /\ call' = [call EXCEPT ![c].at = "failed"]
      /\ call[c].at \in {"insertUser", "insertLink"} /\ call[c].key <= secret
      /\ UNCHANGED <<users, links, tokens, sessions, stateCookie, cookieEnded, secret, raced>>
  BY DEF InsertUser, InsertLink, AccountsInv, CallInv, StateHolds
<1>2. PICK new \in Call : Becomes(c, new) /\ Moved(c, new, call[c].user, "failed")
  BY <1>1, PlaceMoves DEF AccountsInv, Steps, Answered
<1>3. call'[c] = new
  BY <1>2, BecomesEffect DEF AccountsInv
<1>4. c \in raced
  <2>1. CASE InsertUser(c) /\ MailTaken(call[c].mail)
    <3>1. getUserByEmail(call[c].mail) # {}
      BY <2>1 DEF MailTaken, getUserByEmail
    <3> QED  BY <2>1, <3>1 DEF InsertUser, AccountsInv, CallInv, LookupsHold
  <2>2. CASE InsertLink(c) /\ links[call[c].account] # NoUser
    BY <2>2 DEF InsertLink, AccountsInv, CallInv, LookupsHold, LoginHolds
  <2> QED  BY <2>1, <2>2
<1>5. call[c].kind = "oauth" => call[c].account \in Accounts
  BY DEF AccountsInv, CallInv, LoginHolds
<1>6. LookupsHold(c)' /\ LoginHolds(c)' /\ StateHolds(c)'
  BY <1>1, <1>2, <1>3, <1>4, <1>5 DEF LookupsHold, LoginHolds, StateHolds, Moved
<1> QED  BY <1>1, <1>2, <1>6, ReadStep DEF CallInv

-----------------------------------------------------------------------------
(* Steps that write *)

\* What a request has been told by the tables and is about to act on.
InSelect(d) == call[d].at \in {"selectUser", "insertUser", "insertLink"}

\* What another request relies on is not taken from it: links stay, a token becomes only
\* newer, and whose look-up is overtaken is marked.
LEMMA OthersKept ==
  ASSUME NEW d \in Calls, CallInv(d), call'[d] = call[d], Another(d) => Another(d)',
         raced \subseteq raced', cookieEnded \subseteq cookieEnded', secret' = secret,
         call[d].at = "insertUser" =>
             \/ d \in raced'
             \/ getUserByEmail(call[d].mail) = {} => getUserByEmail(call[d].mail)' = {},
         \A a \in Accounts : links[a] \in Calls => links'[a] = links[a],
         \A a \in Accounts :
             \/ links'[a] = links[a]
             \/ InSelect(d) /\ call[d].account = a => d \in raced',
         \A a \in Accounts : tokens'[a] \in {tokens[a], secret},
         sessions'[d] \in {sessions[d], NoUser},
         \/ stateCookie'[call[d].browser] = stateCookie[call[d].browser]
         \/ call[d].at = "away" => Another(d)' \/ call[d].browser \in cookieEnded'
  PROVE  CallInv(d)'
<1>1. LookupsHold(d)'
  <2>1. call[d].at = "insertUser" => d \in raced' \/ getUserByEmail(call[d].mail)' = {}
    BY DEF CallInv, LookupsHold
  <2> QED  BY <2>1 DEF CallInv, LookupsHold, LoginHolds, InSelect
<1>2. LoginHolds(d)'
  BY DEF CallInv, LoginHolds
<1>3. StateHolds(d)'
  BY DEF CallInv, StateHolds
<1> QED  BY <1>1, <1>2, <1>3 DEF CallInv

\* A new user is the only one of the address, unless the request was overtaken; the
\* requests that have found nobody are overtaken now.
LEMMA InsertUserStep ==
  ASSUME AccountsInv, NEW c \in Calls, InsertUser(c), ~MailTaken(call[c].mail)
  PROVE  AccountsInv'
<1> DEFINE row == [mail |-> call[c].mail, password |-> call[c].kind = "register"]
           mine == {d \in Calls \ {c} : /\ call[d].at = "insertUser"
                                        /\ call[d].mail.address = call[c].mail.address}
<1>1. PICK at \in {"openSession", "insertLink"} :
        /\ call' = [call EXCEPT ![c].user = c, ![c].at = at]
        /\ call[c].kind = "register" => at = "openSession"
        /\ call[c].kind # "register" => at = "insertLink"
  BY DEF InsertUser
<1>2. /\ call[c].at = "insertUser" /\ call[c].kind \in {"register", "oauth"}
      /\ call[c].mail \in Mails /\ call[c].key <= secret
      /\ c \in raced \/ getUserByEmail(call[c].mail) = {}
      /\ call[c].kind = "oauth" =>
            /\ call[c].account \in Accounts
            /\ c \in raced \/ links[call[c].account] = NoUser
  BY DEF InsertUser, AccountsInv, CallInv, LookupsHold, LoginHolds, StateHolds
<1>3. /\ users' = [users EXCEPT ![c] = row] /\ raced' = raced \cup mine
      /\ UNCHANGED <<links, tokens, sessions, stateCookie, cookieEnded, secret>>
      /\ users \in [Calls -> [mail : Mails, password : BOOLEAN] \cup {NoUser}]
  BY DEF InsertUser, AccountsInv, AccountsTypeOK
<1>4. PICK new \in Call : Becomes(c, new) /\ Moved(c, new, c, at)
  BY <1>1, UserMoves DEF AccountsInv, Steps
<1>5. /\ call'[c] = new
      /\ \A d \in Calls \ {c} : call'[d] = call[d]
      /\ call' \in [Calls -> Call]
      /\ \A d \in Calls : Another(d) /\ d # c => Another(d)'
  BY <1>4, BecomesEffect DEF AccountsInv
<1>6. /\ users'[c] = row /\ \A u \in Calls \ {c} : users'[u] = users[u]
      /\ row \in [mail : Mails, password : BOOLEAN]
      /\ row.mail = call[c].mail
  <2>1. row \in [mail : Mails, password : BOOLEAN]
    BY <1>2
  <2> QED  BY <1>3, <2>1
<1> HIDE DEF row
<1>7. AccountsTypeOK'
  <2>1. users' \in [Calls -> [mail : Mails, password : BOOLEAN] \cup {NoUser}]
    BY <1>3, <1>6
  <2>2. raced' \subseteq Calls
    BY <1>3 DEF AccountsInv, AccountsTypeOK
  <2> QED  BY <1>3, <1>5, <2>1, <2>2 DEF AccountsInv, AccountsTypeOK, Call
<1>8. OneUserPerAddress'
  <2> SUFFICES ASSUME NEW u \in Users', NEW v \in Users', u # v,
                      users'[u].mail.address = users'[v].mail.address
               PROVE  u \in raced' \/ v \in raced'
    BY DEF OneUserPerAddress
  <2>1. u \in Calls /\ v \in Calls /\ (u # c => u \in Users) /\ (v # c => v \in Users)
    BY <1>6 DEF Users
  <2>2. CASE u # c /\ v # c
    BY <1>3, <1>6, <2>1, <2>2 DEF AccountsInv, OneUserPerAddress
  <2>3. ASSUME NEW w \in Users, w # c, users'[w].mail.address = call[c].mail.address
        PROVE  c \in raced
    BY <1>2, <1>6, <2>3 DEF getUserByEmail, Users
  <2>4. CASE u = c
    BY <1>3, <1>6, <2>1, <2>3, <2>4
  <2>5. CASE v = c
    BY <1>3, <1>6, <2>1, <2>3, <2>5
  <2> QED  BY <2>2, <2>4, <2>5
<1>9. CallInv(c)'
  <2>1. LookupsHold(c)'
    BY <1>1, <1>2, <1>3, <1>4, <1>5 DEF LookupsHold, Moved
  <2>2. LoginHolds(c)'
    BY <1>1, <1>2, <1>4, <1>5 DEF LoginHolds, Moved
  <2>3. StateHolds(c)'
    BY <1>1, <1>2, <1>3, <1>4, <1>5 DEF StateHolds, Moved
  <2> QED  BY <2>1, <2>2, <2>3 DEF CallInv
<1>10. ASSUME NEW d \in Calls, d # c PROVE CallInv(d)'
  <2>1. ASSUME call[d].at = "insertUser", d \notin raced',
               getUserByEmail(call[d].mail) = {}
        PROVE  getUserByEmail(call[d].mail)' = {}
    <3>1. call[d].mail.address # call[c].mail.address
      BY <1>3, <1>10, <2>1
    <3>2. call'[d].mail = call[d].mail
      BY <1>5, <1>10
    <3>3. ASSUME NEW u \in Users' PROVE users'[u].mail.address # call'[d].mail.address
      <4>1. CASE u = c
        BY <1>6, <3>1, <3>2, <4>1
      <4>2. CASE u # c
        BY <1>6, <2>1, <3>2, <3>3, <4>2 DEF getUserByEmail, Users
      <4> QED  BY <4>1, <4>2
    <3> QED  BY <3>3 DEF getUserByEmail
  <2>2. call'[d] = call[d] /\ (Another(d) => Another(d)') /\ CallInv(d)
    BY <1>5, <1>10 DEF AccountsInv
  <2> QED  BY <1>3, <2>1, <2>2, OthersKept
<1> QED  BY <1>7, <1>8, <1>9, <1>10 DEF AccountsInv

\* A session is opened for the user the request has found, and may end at any time.
LEMMA SessionStep ==
  ASSUME AccountsInv, NEW c \in Calls, OpenSession(c) \/ EndSession(c)
  PROVE  AccountsInv'
<1>1. /\ UNCHANGED <<users, links, tokens, stateCookie, cookieEnded, secret, raced>>
      /\ sessions \in [Calls -> Calls \cup {NoUser}] /\ call \in [Calls -> Call]
      /\ call[c].key <= secret
  BY DEF OpenSession, EndSession, AccountsInv, CallInv, StateHolds, AccountsTypeOK, Call
<1>2. OneUserPerAddress'
  BY <1>1 DEF AccountsInv, OneUserPerAddress, Users
<1>3. \A d \in Calls :
         getUserByEmail(call[d].mail) = {} /\ call'[d] = call[d]
            => getUserByEmail(call[d].mail)' = {}
  BY <1>1 DEF getUserByEmail, Users
<1>4. CASE OpenSession(c)
  <2>1. PICK new \in Call : Becomes(c, new) /\ Moved(c, new, call[c].user, "done")
    BY <1>4, PlaceMoves DEF OpenSession, AccountsInv, Steps, Answered
  <2>2. /\ call'[c] = new /\ call[c].at = "openSession"
        /\ \A d \in Calls \ {c} : call'[d] = call[d]
        /\ call' \in [Calls -> Call]
        /\ \A d \in Calls : Another(d) /\ d # c => Another(d)'
    BY <1>4, <2>1, BecomesEffect DEF AccountsInv, OpenSession
  <2>3. /\ sessions'[c] = call[c].user /\ \A d \in Calls \ {c} : sessions'[d] = sessions[d]
        /\ sessions' \in [Calls -> Calls \cup {NoUser}]
    BY <1>1, <1>4 DEF OpenSession, Call
  <2>4. AccountsTypeOK'
    BY <1>1, <2>2, <2>3 DEF AccountsInv, AccountsTypeOK, Call
  <2>5. LookupsHold(c)'
    BY <2>1, <2>2 DEF LookupsHold, Moved
  <2>6. LoginHolds(c)'
    BY <1>1, <2>1, <2>2, <2>3 DEF AccountsInv, CallInv, LoginHolds, Moved
  <2>7. StateHolds(c)'
    BY <1>1, <2>1, <2>2 DEF StateHolds, Moved
  <2>8. ASSUME NEW d \in Calls, d # c PROVE CallInv(d)'
    BY <1>1, <1>3, <2>2, <2>3, <2>8, OthersKept DEF AccountsInv
  <2> QED  BY <1>2, <2>4, <2>5, <2>6, <2>7, <2>8 DEF AccountsInv, CallInv
<1>5. CASE EndSession(c)
  <2>1. /\ UNCHANGED call /\ \A d \in Calls : sessions'[d] \in {sessions[d], NoUser}
        /\ sessions' \in [Calls -> Calls \cup {NoUser}]
    BY <1>1, <1>5 DEF EndSession
  <2>2. AccountsTypeOK'
    BY <1>1, <2>1 DEF AccountsInv, AccountsTypeOK
  <2>3. ASSUME NEW d \in Calls PROVE CallInv(d)'
    <3>1. Another(d) => Another(d)'
      BY <2>1 DEF Another
    <3> QED  BY <1>1, <1>3, <2>1, <3>1, OthersKept DEF AccountsInv
  <2> QED  BY <1>2, <2>2, <2>3 DEF AccountsInv
<1> QED  BY <1>4, <1>5

\* A flow that begins takes the browser's cookie, and a cookie may run out.
LEMMA CookieStep ==
  ASSUME AccountsInv,
         \/ \E b \in Browsers : CookieEnds(b)
         \/ \E c \in Calls, b \in Browsers, a \in Accounts : OAuthStart(c, b, a)
  PROVE  AccountsInv'
<1>1. /\ UNCHANGED <<users, links, tokens, sessions, secret, raced>>
      /\ stateCookie \in [Browsers -> Calls \cup {"none"}] /\ cookieEnded \subseteq Browsers
      /\ call \in [Calls -> Call]
  BY DEF CookieEnds, OAuthStart, AccountsInv, AccountsTypeOK, Call
<1>2. OneUserPerAddress'
  BY <1>1 DEF AccountsInv, OneUserPerAddress, Users
<1>3. \A d \in Calls :
         getUserByEmail(call[d].mail) = {} /\ call'[d] = call[d]
            => getUserByEmail(call[d].mail)' = {}
  BY <1>1 DEF getUserByEmail, Users
<1>4. ASSUME NEW b \in Browsers, CookieEnds(b) PROVE AccountsInv'
  <2>1. /\ UNCHANGED call /\ cookieEnded' = cookieEnded \cup {b}
        /\ stateCookie' = [stateCookie EXCEPT ![b] = "none"]
    BY <1>4 DEF CookieEnds
  <2>2. AccountsTypeOK'
    BY <1>1, <2>1 DEF AccountsInv, AccountsTypeOK
  <2>3. ASSUME NEW d \in Calls PROVE CallInv(d)'
    <3>1. Another(d) => Another(d)'
      BY <2>1 DEF Another
    <3>2. \/ stateCookie'[call[d].browser] = stateCookie[call[d].browser]
          \/ call[d].browser \in cookieEnded'
      BY <1>1, <2>1
    <3> QED  BY <1>1, <1>3, <2>1, <3>1, <3>2, OthersKept DEF AccountsInv
  <2> QED  BY <1>2, <2>2, <2>3 DEF AccountsInv
<1>5. ASSUME NEW c \in Calls, NEW b \in Browsers, NEW a \in Accounts, OAuthStart(c, b, a)
      PROVE  AccountsInv'
  <2> DEFINE new == [call[c] EXCEPT !.kind = "oauth", !.at = "away", !.browser = b,
                                    !.account = a, !.key = secret]
  <2>1. /\ call[c].at = "idle" /\ call[c] \in Call /\ UNCHANGED cookieEnded
        /\ stateCookie' = [stateCookie EXCEPT ![b] = c]
        /\ call' = [call EXCEPT ![c].kind = "oauth", ![c].at = "away",
                                ![c].browser = b, ![c].account = a, ![c].key = secret]
        /\ secret \in 1 .. MaxSecrets /\ MaxSecrets \in Nat
    BY <1>1, <1>5, AccountsAssumption DEF OAuthStart, AccountsInv, AccountsTypeOK
  <2>2. /\ new \in Call /\ call' = [call EXCEPT ![c] = new]
        /\ new.kind = "oauth" /\ new.at = "away" /\ new.browser = b
        /\ new.account = a /\ new.key = secret
    BY <1>1, <2>1 DEF Call, Steps
  <2> HIDE DEF new
  <2>3. Becomes(c, new)
    BY <2>1, <2>2 DEF Becomes
  <2>4. /\ call'[c] = new
        /\ \A d \in Calls \ {c} : call'[d] = call[d]
        /\ call' \in [Calls -> Call]
        /\ \A d \in Calls : Another(d) /\ d # c => Another(d)'
    BY <2>2, <2>3, BecomesEffect DEF AccountsInv
  <2>5. /\ stateCookie'[b] = c
        /\ stateCookie' \in [Browsers -> Calls \cup {"none"}]
    BY <1>1, <2>1
  <2>6. AccountsTypeOK'
    BY <1>1, <2>1, <2>4, <2>5 DEF AccountsInv, AccountsTypeOK, Call
  <2>7. LookupsHold(c)' /\ LoginHolds(c)'
    BY <2>2, <2>4 DEF LookupsHold, LoginHolds
  <2>8. StateHolds(c)'
    BY <1>1, <2>1, <2>2, <2>4, <2>5 DEF StateHolds
  <2>9. ASSUME NEW d \in Calls, d # c PROVE CallInv(d)'
    <3>1. CASE call[d].browser = b
      <4>1. Another(d)'
        BY <2>2, <2>4, <2>9, <3>1 DEF Another
      <4> QED  BY <1>1, <1>3, <2>1, <2>4, <2>9, <4>1, OthersKept DEF AccountsInv
    <3>2. CASE call[d].browser # b /\ call[d].browser \in Browsers
      <4>1. stateCookie'[call[d].browser] = stateCookie[call[d].browser]
        BY <1>1, <2>1, <3>2
      <4> QED  BY <1>1, <1>3, <2>1, <2>4, <2>9, <4>1, OthersKept DEF AccountsInv
    <3>3. CASE call[d].browser \notin Browsers
      <4>1. call[d].at # "away"
        BY <3>3 DEF AccountsInv, CallInv, StateHolds
      <4> QED  BY <1>1, <1>3, <2>1, <2>4, <2>9, <4>1, OthersKept DEF AccountsInv
    <3> QED  BY <3>1, <3>2, <3>3
  <2> QED  BY <1>2, <2>6, <2>7, <2>8, <2>9 DEF AccountsInv, CallInv
<1> QED  BY <1>4, <1>5

\* An account is linked once; the logins that have not seen it are overtaken now.
LEMMA LinkStep ==
  ASSUME AccountsInv, NEW c \in Calls, InsertLink(c), links[call[c].account] = NoUser
  PROVE  AccountsInv'
<1> DEFINE a == call[c].account
<1>1. /\ call[c].at = "insertLink" /\ call[c].kind = "oauth" /\ a \in Accounts
      /\ call[c].user \in Calls /\ call[c].key <= secret
      /\ links \in [Accounts -> Calls \cup {NoUser}]
      /\ tokens \in [Accounts -> 0 .. MaxSecrets] /\ secret \in 1 .. MaxSecrets
      /\ MaxSecrets \in Nat
  BY AccountsAssumption
  DEF InsertLink, AccountsInv, CallInv, LoginHolds, StateHolds, AccountsTypeOK
<1>2. /\ call' = [call EXCEPT ![c].at = "openSession"]
      /\ links' = [links EXCEPT ![a] = call[c].user]
      /\ tokens' = [tokens EXCEPT ![a] = secret]
      /\ raced' = raced \cup {d \in Calls \ {c} : InSelect(d) /\ call[d].account = a}
      /\ UNCHANGED <<users, sessions, stateCookie, cookieEnded, secret>>
  BY DEF InsertLink, InSelect
<1>3. PICK new \in Call : Becomes(c, new) /\ Moved(c, new, call[c].user, "openSession")
  BY <1>2, PlaceMoves DEF AccountsInv, Steps
<1>4. /\ call'[c] = new
      /\ \A d \in Calls \ {c} : call'[d] = call[d]
      /\ call' \in [Calls -> Call]
      /\ \A d \in Calls : Another(d) /\ d # c => Another(d)'
  BY <1>3, BecomesEffect DEF AccountsInv
<1>5. /\ links'[a] = call[c].user /\ tokens'[a] = secret
      /\ \A x \in Accounts \ {a} : links'[x] = links[x] /\ tokens'[x] = tokens[x]
      /\ links' \in [Accounts -> Calls \cup {NoUser}]
      /\ tokens' \in [Accounts -> 0 .. MaxSecrets]
  BY <1>1, <1>2
<1>6. AccountsTypeOK'
  BY <1>2, <1>4, <1>5 DEF AccountsInv, AccountsTypeOK, Call
<1>7. OneUserPerAddress'
  BY <1>2 DEF AccountsInv, OneUserPerAddress, Users
<1>8. LookupsHold(c)'
  BY <1>1, <1>3, <1>4 DEF LookupsHold, Moved
<1>9. LoginHolds(c)'
  BY <1>1, <1>2, <1>3, <1>4, <1>5 DEF LoginHolds, Moved
<1>10. StateHolds(c)'
  BY <1>1, <1>2, <1>3, <1>4 DEF StateHolds, Moved
<1>11. ASSUME NEW d \in Calls, d # c PROVE CallInv(d)'
  <2>1. getUserByEmail(call[d].mail) = {} => getUserByEmail(call[d].mail)' = {}
    BY <1>2, <1>4, <1>11 DEF getUserByEmail, Users
  <2>2. \A x \in Accounts : links[x] \in Calls => links'[x] = links[x]
    BY <1>5, AccountsAssumption
  <2>3. \A x \in Accounts : \/ links'[x] = links[x]
                            \/ InSelect(d) /\ call[d].account = x => d \in raced'
    BY <1>2, <1>5, <1>11
  <2>4. \A x \in Accounts : tokens'[x] \in {tokens[x], secret}
    BY <1>5
  <2> QED  BY <1>2, <1>4, <1>11, <2>1, <2>2, <2>3, <2>4, OthersKept DEF AccountsInv
<1> QED  BY <1>6, <1>7, <1>8, <1>9, <1>10, <1>11 DEF AccountsInv, CallInv

\* A known account gets the token of this login.
LEMMA RefreshStep ==
  ASSUME AccountsInv, NEW c \in Calls, Refresh(c)
  PROVE  AccountsInv'
<1> DEFINE a == call[c].account
<1>1. /\ call[c].at = "refresh" /\ call[c].kind = "oauth" /\ a \in Accounts
      /\ call[c].user \in Calls /\ links[a] = call[c].user /\ call[c].key <= secret
      /\ tokens \in [Accounts -> 0 .. MaxSecrets] /\ secret \in 1 .. MaxSecrets
      /\ MaxSecrets \in Nat
  BY AccountsAssumption
  DEF Refresh, AccountsInv, CallInv, LoginHolds, StateHolds, AccountsTypeOK
<1>2. /\ call' = [call EXCEPT ![c].at = "openSession"]
      /\ tokens' = [tokens EXCEPT ![a] = secret]
      /\ UNCHANGED <<users, links, sessions, stateCookie, cookieEnded, secret, raced>>
  BY DEF Refresh
<1>3. PICK new \in Call : Becomes(c, new) /\ Moved(c, new, call[c].user, "openSession")
  BY <1>2, PlaceMoves DEF AccountsInv, Steps
<1>4. /\ call'[c] = new
      /\ \A d \in Calls \ {c} : call'[d] = call[d]
      /\ call' \in [Calls -> Call]
      /\ \A d \in Calls : Another(d) /\ d # c => Another(d)'
  BY <1>3, BecomesEffect DEF AccountsInv
<1>5. /\ tokens'[a] = secret
      /\ \A x \in Accounts \ {a} : tokens'[x] = tokens[x]
      /\ tokens' \in [Accounts -> 0 .. MaxSecrets]
  BY <1>1, <1>2
<1>6. AccountsTypeOK'
  BY <1>2, <1>4, <1>5 DEF AccountsInv, AccountsTypeOK, Call
<1>7. OneUserPerAddress'
  BY <1>2 DEF AccountsInv, OneUserPerAddress, Users
<1>8. LookupsHold(c)'
  BY <1>1, <1>3, <1>4 DEF LookupsHold, Moved
<1>9. LoginHolds(c)'
  BY <1>1, <1>2, <1>3, <1>4, <1>5 DEF LoginHolds, Moved
<1>10. StateHolds(c)'
  BY <1>1, <1>2, <1>3, <1>4 DEF StateHolds, Moved
<1>11. ASSUME NEW d \in Calls, d # c PROVE CallInv(d)'
  <2>1. getUserByEmail(call[d].mail) = {} => getUserByEmail(call[d].mail)' = {}
    BY <1>2, <1>4, <1>11 DEF getUserByEmail, Users
  <2>2. \A x \in Accounts : tokens'[x] \in {tokens[x], secret}
    BY <1>5
  <2> QED  BY <1>2, <1>4, <1>11, <2>1, <2>2, OthersKept DEF AccountsInv
<1> QED  BY <1>6, <1>7, <1>8, <1>9, <1>10, <1>11 DEF AccountsInv, CallInv

-----------------------------------------------------------------------------
(* Restarts, and the whole *)

\* A restart loses the requests the API has in its hands.  If it takes a new secret, no
\* login has had that one before.
LEMMA RestartStep ==
  ASSUME AccountsInv, Restart
  PROVE  AccountsInv'
<1>1. /\ secret' \in {secret, secret + 1} /\ secret' \in 1 .. MaxSecrets
      /\ UNCHANGED <<users, links, tokens, sessions, stateCookie, cookieEnded, raced>>
      /\ secret \in 1 .. MaxSecrets /\ MaxSecrets \in Nat
      /\ call \in [Calls -> Call]
  BY AccountsAssumption DEF Restart, AccountsInv, AccountsTypeOK, Call
<1>2. /\ call' \in [Calls -> Call]
      /\ \A d \in Calls :
            \/ call'[d] = call[d]
               /\ call[d].at \in Answered \cup {"idle", "away"}
            \/ /\ call'[d].at = "lost" /\ call[d].at \notin {"idle", "away"}
               /\ call'[d].kind = call[d].kind /\ call'[d].account = call[d].account
               /\ call'[d].browser = call[d].browser /\ call'[d].key = call[d].key
  <2>1. ASSUME NEW d \in Calls
        PROVE  /\ [call[d] EXCEPT !.at = "lost"] \in Call
               /\ [call[d] EXCEPT !.at = "lost"].at = "lost"
               /\ [call[d] EXCEPT !.at = "lost"].kind = call[d].kind
               /\ [call[d] EXCEPT !.at = "lost"].account = call[d].account
               /\ [call[d] EXCEPT !.at = "lost"].browser = call[d].browser
               /\ [call[d] EXCEPT !.at = "lost"].key = call[d].key
    BY <1>1, <2>1 DEF Call, Steps, Answered
  <2>2. \A d \in Calls :
          /\ call[d].at \in Answered \cup {"idle", "away"} => call'[d] = call[d]
          /\ call[d].at \notin Answered \cup {"idle", "away"} =>
                call'[d] = [call[d] EXCEPT !.at = "lost"]
    BY DEF Restart
  <2>3. call' = [d \in Calls |-> call'[d]]
    BY DEF Restart
  <2>4. \A d \in Calls : call'[d] \in Call
    BY <1>1, <2>1, <2>2
  <2>5. call' \in [Calls -> Call]
    BY <2>3, <2>4
  <2> QED  BY <2>1, <2>2, <2>5
<1>3. \A d \in Calls : Another(d) => Another(d)'
  BY <1>2 DEF Another
<1>4. AccountsTypeOK'
  BY <1>1, <1>2 DEF AccountsInv, AccountsTypeOK, Call
<1>5. OneUserPerAddress'
  BY <1>1 DEF AccountsInv, OneUserPerAddress, Users
<1>6. ASSUME NEW d \in Calls PROVE CallInv(d)'
  <2>1. /\ CallInv(d) /\ call[d].key \in 0 .. MaxSecrets /\ call[d].key <= secret
        /\ call'[d].key = call[d].key
    BY <1>1, <1>2 DEF AccountsInv, CallInv, StateHolds, Call
  <2>2. call'[d].key <= secret'
    BY <1>1, <2>1
  <2>3. call[d].key = secret' => secret' = secret
    BY <1>1, <2>1
  <2>4. CASE call'[d] = call[d] /\ call[d].at \in Answered \cup {"idle", "away"}
    <3>1. LookupsHold(d)'
      BY <1>1, <2>1, <2>4 DEF CallInv, LookupsHold, Answered
    <3>2. LoginHolds(d)'
      BY <1>1, <2>1, <2>3, <2>4 DEF CallInv, LoginHolds
    <3>3. StateHolds(d)'
      BY <1>1, <1>3, <2>1, <2>2, <2>3, <2>4 DEF CallInv, StateHolds
    <3> QED  BY <3>1, <3>2, <3>3 DEF CallInv
  <2>5. CASE /\ call'[d].at = "lost"
             /\ call'[d].kind = call[d].kind /\ call'[d].account = call[d].account
    BY <2>1, <2>2, <2>5 DEF CallInv, LookupsHold, LoginHolds, StateHolds
  <2> QED  BY <1>2, <2>4, <2>5
<1> QED  BY <1>4, <1>5, <1>6 DEF AccountsInv

LEMMA AccountsInvariance == AccountsSpec => []AccountsInv
<1>1. AccountsInit => AccountsInv
  <2> SUFFICES ASSUME AccountsInit PROVE AccountsInv
    OBVIOUS
  <2>1. AccountsTypeOK
    BY AccountsAssumption DEF AccountsInit, AccountsTypeOK, Idle, Steps, Answered
  <2>2. OneUserPerAddress
    BY DEF AccountsInit, OneUserPerAddress, Users
  <2>3. ASSUME NEW c \in Calls PROVE CallInv(c)
    <3>1. call[c] = Idle /\ secret = 1
      BY DEF AccountsInit
    <3> QED  BY <3>1 DEF CallInv, LookupsHold, LoginHolds, StateHolds, Idle
  <2> QED  BY <2>1, <2>2, <2>3 DEF AccountsInv
<1>2. AccountsInv /\ [AccountsNext]_accountVars => AccountsInv'
  <2> SUFFICES ASSUME AccountsInv, [AccountsNext]_accountVars PROVE AccountsInv'
    OBVIOUS
  <2>1. ASSUME UNCHANGED accountVars PROVE AccountsInv'
    BY <2>1 DEF accountVars, AccountsInv, AccountsTypeOK, OneUserPerAddress, CallInv, LookupsHold,
                LoginHolds, StateHolds, Another, Users, getUserByEmail
  <2>2. ASSUME NEW c \in Calls, CallStep(c) PROVE AccountsInv'
    BY <2>2, InsertUserStep, FailStep, SessionStep, CallbackStep, FindUserStep, LinkStep,
       RefreshStep
    DEF CallStep
  <2> QED
    BY <2>1, <2>2, RegisterStep, LoginStep, SessionStep, CookieStep, RestartStep
    DEF AccountsNext
<1> QED  BY <1>1, <1>2, PTL DEF AccountsSpec

\* Two users share a mail address only if the look-up of one of them was overtaken, for
\* any number of requests, browsers and accounts (db.ts:9).
THEOREM AddressesAreApart == AccountsSpec => []OneUserPerAddress
<1>1. AccountsInv => OneUserPerAddress
  BY DEF AccountsInv
<1> QED  BY <1>1, AccountsInvariance, PTL

\* A unique constraint answers 500 only to a request that was overtaken, and a login is
\* refused for its state only for a second one in the browser, a cookie that has run out,
\* or a new secret (db.ts:7,10; auth-routes.ts:54,69,95).
THEOREM WhoIsTurnedAway == AccountsSpec => []RefusalsExplained
<1>1. AccountsInv => RefusalsExplained
  <2> SUFFICES ASSUME AccountsInv PROVE OnlyRacesFail /\ StateRefusals
    BY DEF RefusalsExplained
  <2>1. OnlyRacesFail
    BY DEF AccountsInv, CallInv, LookupsHold, OnlyRacesFail
  <2>2. StateRefusals
    BY DEF AccountsInv, CallInv, StateHolds, Another, StateRefusals
  <2> QED  BY <2>1, <2>2
<1> QED  BY <1>1, AccountsInvariance, PTL

\* Who has logged in at a provider is in the session of the user the account is linked to,
\* with a token that can be read for as long as the secret stays (auth-routes.ts:107-109).
THEOREM WhoLogsIn == AccountsSpec => []LoginConnects
<1>1. AccountsInv => LoginConnects
  BY DEF AccountsInv, CallInv, LoginHolds, LoginConnects
<1> QED  BY <1>1, AccountsInvariance, PTL
=============================================================================
