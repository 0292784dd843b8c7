----------------------------- MODULE SessionGate -----------------------------
(***************************************************************************)
(* Who a request acts for.  An external identity server (Trailbase) keeps  *)
(* the accounts and signs tokens; login_post fetches one with the user's   *)
(* password and hands it out as a cookie, the auth middleware checks a     *)
(* request's token without asking the identity server again, and           *)
(* require_movie_admin believes the admin claim in it.  Nobody can take a  *)
(* token back: rights end when it expires.                                 *)
(*                                                                         *)
(* Tokens carry the time they have left, so no clock is needed.  One       *)
(* browser, with one cookie jar and one cinema page in front, makes        *)
(* requests; so do API clients, which send what headers they like.         *)
(***************************************************************************)
EXTENDS Configuration, Integers, Sequences, FiniteSetsExt

CONSTANTS
  Users,       \* accounts at the identity server, by subject
  Admins,      \* those who may be made admin there
  Requests,    \* bound: requests under way at once
  Life,        \* how long the identity server makes tokens last
  Leeway,      \* how much longer jsonwebtoken accepts them
  NoToken,     \* no token
  Guest,       \* the name on a page served without a session
  NoPage       \* no cinema page is open

VARIABLES
  account,     \* account[u]: "none", "user" or "admin" at the identity server
  signing,     \* the key it signs with
  server,      \* the running server's verifier and settings, or Down
  users,       \* the subjects with a row in table users
  jar,         \* the browser's session cookie
  page,        \* who the open page says its reader is
  joined,      \* history: who else was signed in since the page was asked for
  settled,     \* history: the page is a guest's, of the server now running, and was
               \* asked for with cookies that all have names
  reqs,        \* reqs[r]: where request r is
  since,       \* history: ticks since account u was last an admin's, up to Cap
  signedIn     \* history: the cookie was set by the server now running

identity == <<account, signing>>
view == <<page, joined, settled>>
browser == <<jar, view>>
history == <<since, signedIn>>
vars == <<identity, server, users, browser, reqs, history>>

ASSUME LifetimeAssumption == Life \in Nat /\ Leeway \in Nat
ASSUME NamesAssumption == Admins \subseteq Users /\ Guest \notin Users /\ NoPage \notin Users

Dead == -Leeway - 1
Cap == Life + Leeway + 1

Token ==
  [sub : Users, admin : BOOLEAN, key : Keys, type : {"auth", "other"}, left : Dead..Life]

ASSUME NoTokenAssumption == NoToken \notin Token

Down == [verifier |-> Unset, base_url |-> Unset]
Servers == [verifier : Keys \cup {Fixed, Unset}, base_url : {Given, Unset}]

Idle == [pc |-> "idle"]

\* A login between its awaits, an answer with Set-Cookie on its way, and the two
\* kinds of handlers behind the gate.
RequestStates ==
  {Idle}
    \cup [pc : {"login"}, sub : Users]
    \cup [pc : {"tokens", "verified"}, token : Token]
    \cup [pc : {"answer"}, cookie : Token \cup {NoToken}, own : BOOLEAN]
    \cup [pc : {"bookings"}, sub : Users]
    \cup [pc : {"movies"}, sub : Users, late : 0..Cap]

TypeOK ==
  /\ account \in [Users -> {"none", "user", "admin"}]
  /\ signing \in Keys
  /\ server \in Servers
  /\ users \subseteq Users
  /\ jar \in Token \cup {NoToken}
  /\ page \in Users \cup {Guest, NoPage}
  /\ joined \subseteq Users
  /\ settled \in BOOLEAN
  /\ reqs \in [Requests -> RequestStates]
  /\ since \in [Users -> 0..Cap]
  /\ signedIn \in BOOLEAN

Init ==
  /\ account \in [Users -> {"none", "user", "admin"}]
  /\ \A u \in Users \ Admins : account[u] # "admin"
  /\ signing \in Keys
  /\ server = Down
  /\ users = {}
  /\ jar = NoToken
  /\ page = NoPage
  /\ joined = {}
  /\ settled = FALSE
  /\ reqs = [r \in Requests |-> Idle]
  /\ since = [u \in Users |-> IF account[u] = "admin" THEN 0 ELSE Cap]
  /\ signedIn = FALSE

Up == server # Down
Becomes(r, state) == reqs' = [reqs EXCEPT ![r] = state]

-----------------------------------------------------------------------------
\* The token in a request.

\* A part of a Cookie header; one without "=" has no name to speak of.
Part(name, value) == [name |-> name, value |-> value]
Session(value) == Part("tb_access_token", value)
Other == Part("other", NoToken)
Nameless == Part("", NoToken)

\* The first session cookie with a value, unless a part without "=" comes
\* before it: split_once fails there, and with it the whole search.
session_jwt_from_cookie_header(cookies) ==
  LET found == {i \in DOMAIN cookies :
        /\ cookies[i].name = "tb_access_token"
        /\ cookies[i].value # NoToken
        /\ \A j \in 1..(i - 1) : cookies[j] # Nameless}
  IN IF found = {} THEN NoToken ELSE cookies[Min(found)].value

\* An Authorization header decides alone, well-formed or not; one that is no
\* text counts as none.
jwt_from_request(header) ==
  CASE header.authorization = "bearer" -> header.bearer
    [] header.authorization = "malformed" -> NoToken
    [] OTHER -> session_jwt_from_cookie_header(header.cookies)

Header(authorization, bearer, cookies) ==
  [authorization |-> authorization, bearer |-> bearer, cookies |-> cookies]

\* What else a browser may have for this host, in front of its session cookie: a
\* cookie stored without a name is sent without "=" as well.
OtherCookies == {<<>>, <<Other>>, <<Session(NoToken)>>, <<Nameless>>}
BrowserHeader(others) ==
  Header("none", NoToken, IF jar = NoToken THEN others ELSE Append(others, Session(jar)))

\* Mutant: the expiry is not looked at.
VerifiedForGood(token) ==
  Up /\ token # NoToken /\ token.key = server.verifier /\ token.type = "auth"

\* The signature is the verifier's, the expiry within the leeway, the type auth.
Verified(token) ==
  /\ Up
  /\ token # NoToken
  /\ token.key = server.verifier
  /\ token.left >= -Leeway
  /\ token.type = "auth"

\* The verified token, whose claims are the principal, or NoToken.
auth(header) ==
  LET token == jwt_from_request(header) IN IF Verified(token) THEN token ELSE NoToken

\* Mutant: the page looks at the first cookie only.
extract_optional_principalFirst(header) ==
  IF header.cookies # <<>> /\ Verified(header.cookies[1].value)
  THEN header.cookies[1].value ELSE NoToken

extract_optional_principal(header) == auth(header)

require_movie_admin(principal) == principal # NoToken /\ principal.admin

-----------------------------------------------------------------------------
\* Signing in and out.

\* login_post: without a base URL the answer is 503.
LoginPost(r, u) ==
  /\ reqs[r] = Idle
  /\ server.base_url # Unset
  /\ Becomes(r, [pc |-> "login", sub |-> u])
  /\ UNCHANGED <<identity, server, users, browser, history>>

\* The identity server accepts the password and makes a token.
Issue(u) ==
  [sub |-> u, admin |-> account[u] = "admin", key |-> signing, type |-> "auth", left |-> Life]

IdentityAccepts(r) ==
  /\ reqs[r].pc = "login"
  /\ account[reqs[r].sub] # "none"
  /\ Becomes(r, [pc |-> "tokens", token |-> Issue(reqs[r].sub)])
  /\ UNCHANGED <<identity, server, users, browser, history>>

\* Mutant: the token is taken as it comes.
LoginVerifyNothing(r) ==
  /\ reqs[r].pc = "tokens"
  /\ Becomes(r, [reqs[r] EXCEPT !.pc = "verified"])
  /\ UNCHANGED <<identity, server, users, browser, history>>

\* Its answer arrives, and the server checks the token itself.
LoginVerify(r) ==
  /\ reqs[r].pc = "tokens"
  /\ Verified(reqs[r].token)
  /\ Becomes(r, [reqs[r] EXCEPT !.pc = "verified"])
  /\ UNCHANGED <<identity, server, users, browser, history>>

\* upsert_for_auth_subject, and then the answer that sets the cookie.
LoginFinish(r) ==
  /\ reqs[r].pc = "verified"
  /\ users' = users \cup {reqs[r].token.sub}
  /\ Becomes(r, [pc |-> "answer", cookie |-> reqs[r].token, own |-> TRUE])
  /\ UNCHANGED <<identity, server, browser, history>>

\* Every other end is a redirect to /login without a cookie: wrong password, MFA, no
\* answer, a token this server does not accept, or an upsert that fails.
LoginFails(r) ==
  /\ reqs[r].pc \in {"login", "tokens", "verified"}
  /\ Becomes(r, Idle)
  /\ UNCHANGED <<identity, server, users, browser, history>>

\* The request is dropped behind the upsert: a row, and no cookie.
LoginDropped(r) ==
  /\ reqs[r].pc = "verified"
  /\ users' = users \cup {reqs[r].token.sub}
  /\ Becomes(r, Idle)
  /\ UNCHANGED <<identity, server, browser, history>>

\* logout_post asks for no session and takes none back; it only clears the cookie.
LogoutPost(r) ==
  /\ reqs[r] = Idle
  /\ Up
  /\ Becomes(r, [pc |-> "answer", cookie |-> NoToken, own |-> TRUE])
  /\ UNCHANGED <<identity, server, users, browser, history>>

ClosePage == page' = NoPage /\ joined' = {} /\ settled' = FALSE

\* An answer replaces the cookie; it may be lost.  It leads to another page where it
\* arrives, which is the tab with the cinema page or one beside it.
Deliver(r) ==
  /\ reqs[r].pc = "answer"
  /\ jar' = reqs[r].cookie
  /\ signedIn' = (reqs[r].own /\ reqs[r].cookie # NoToken)
  /\ \/ ClosePage
     \/ /\ page # NoPage
        /\ joined' = joined \cup {u \in Users \ {page} : jar' # NoToken /\ jar'.sub = u}
        /\ UNCHANGED <<page, settled>>
  /\ Becomes(r, Idle)
  /\ UNCHANGED <<identity, server, users, since>>

AnswerLost(r) ==
  /\ reqs[r].pc = "answer"
  /\ Becomes(r, Idle)
  /\ UNCHANGED <<identity, server, users, browser, history>>

\* signup_post passes the registration on: the account may be made whatever the
\* answer is, and no session comes of it.
SignupPost(u) ==
  /\ server.base_url # Unset
  /\ account[u] = "none"
  /\ account' = [account EXCEPT ![u] = "user"]
  /\ UNCHANGED <<signing, server, users, browser, reqs, history>>

-----------------------------------------------------------------------------
\* Pages and handlers.

\* Mutant: the reader's token is written into the page.
cinema_indexToken(others) ==
  /\ Up
  /\ LET principal == extract_optional_principal(BrowserHeader(others))
     IN page' = IF principal = NoToken THEN Guest ELSE principal
  /\ joined' = {}
  /\ settled' = FALSE
  /\ UNCHANGED <<identity, server, users, jar, reqs, history>>

\* GET /: the page is rendered for whom the header's token names, and counts as open
\* from the request on.
cinema_index(others) ==
  /\ Up
  /\ LET principal == extract_optional_principal(BrowserHeader(others))
     IN page' = IF principal = NoToken THEN Guest ELSE principal.sub
  /\ joined' = {}
  /\ settled' = (page' = Guest /\ others # <<Nameless>>)
  /\ UNCHANGED <<identity, server, users, jar, reqs, history>>

\* A click on the page: hold or checkout behind auth; a 401 sends it to /login.
PagePost(r, others) ==
  /\ reqs[r] = Idle
  /\ Up
  /\ page # NoPage
  /\ LET principal == auth(BrowserHeader(others))
     IN IF principal = NoToken
        THEN ClosePage /\ UNCHANGED reqs
        ELSE Becomes(r, [pc |-> "bookings", sub |-> principal.sub]) /\ UNCHANGED view
  /\ UNCHANGED <<identity, server, users, jar, history>>

\* A token an API client may send: the browser's, or one of another type that the
\* identity server signed.
ClientTokens == {jar} \cup {[Issue(u) EXCEPT !.type = "other"] : u \in Users}

ClientHeaders ==
  {Header("bearer", t, <<Session(jar)>>) : t \in ClientTokens}
    \cup {Header(a, NoToken, Append(others, Session(jar))) :
            a \in {"none", "opaque", "malformed"}, others \in OtherCookies}

ApiPost(r, header) ==
  /\ reqs[r] = Idle
  /\ auth(header) # NoToken
  /\ Becomes(r, [pc |-> "bookings", sub |-> auth(header).sub])
  /\ UNCHANGED <<identity, server, users, browser, history>>

\* POST, PUT and DELETE of movies: auth is the outer layer, the admin check the
\* inner one.
MovieWrite(r, header) ==
  /\ reqs[r] = Idle
  /\ require_movie_admin(auth(header))
  /\ LET sub == auth(header).sub
     IN Becomes(r, [pc |-> "movies", sub |-> sub, late |-> since[sub]])
  /\ UNCHANGED <<identity, server, users, browser, history>>

HandlerEnds(r) ==
  /\ reqs[r].pc \in {"bookings", "movies"}
  /\ Becomes(r, Idle)
  /\ UNCHANGED <<identity, server, users, browser, history>>

-----------------------------------------------------------------------------
\* The world around.

\* run: the key file is read once, at the start.
StartServer(boot) ==
  /\ server = Down
  /\ server' = [verifier |-> IF boot.verifier = KeyFile THEN signing ELSE boot.verifier,
                base_url |-> boot.base_url]
  /\ UNCHANGED <<identity, users, browser, reqs, history>>

\* Requests end with the server; answers it has sent may still arrive, and an open
\* page stays open.
StopServer ==
  /\ Up
  /\ server' = Down
  /\ reqs' = [r \in Requests |-> IF reqs[r].pc = "answer" THEN [reqs[r] EXCEPT !.own = FALSE] ELSE Idle]
  /\ signedIn' = FALSE
  /\ settled' = FALSE
  /\ UNCHANGED <<identity, users, jar, page, joined, since>>

\* The identity server's administrators.
Promote(u) ==
  /\ account[u] = "user"
  /\ account' = [account EXCEPT ![u] = "admin"]
  /\ since' = [since EXCEPT ![u] = 0]
  /\ UNCHANGED <<signing, server, users, browser, reqs, signedIn>>

Demote(u) ==
  /\ account[u] = "admin"
  /\ account' = [account EXCEPT ![u] = "user"]
  /\ UNCHANGED <<signing, server, users, browser, reqs, history>>

RotateKey(k) ==
  /\ k # signing
  /\ signing' = k
  /\ UNCHANGED <<account, server, users, browser, reqs, history>>

\* The cookie's own Max-Age, or a user who clears it.
CookieGone ==
  /\ jar # NoToken
  /\ jar' = NoToken
  /\ UNCHANGED <<identity, server, users, view, reqs, history>>

Aged(token) ==
  IF token = NoToken \/ token.left = Dead THEN token ELSE [token EXCEPT !.left = @ - 1]

AgedRequest(q) ==
  CASE q.pc \in {"tokens", "verified"} -> [q EXCEPT !.token = Aged(@)]
    [] q.pc = "answer" -> [q EXCEPT !.cookie = Aged(@)]
    [] OTHER -> q

Tick ==
  /\ jar' = Aged(jar)
  /\ reqs' = [r \in Requests |-> AgedRequest(reqs[r])]
  /\ since' = [u \in Users |->
       IF account[u] = "admin" THEN 0 ELSE IF since[u] = Cap THEN Cap ELSE since[u] + 1]
  /\ UNCHANGED <<identity, server, users, view, signedIn>>

Next ==
  \/ \E r \in Requests :
       \/ \E u \in Users : LoginPost(r, u)
       \/ IdentityAccepts(r)
       \/ LoginVerify(r)
       \/ LoginFinish(r)
       \/ LoginFails(r)
       \/ LoginDropped(r)
       \/ LogoutPost(r)
       \/ Deliver(r)
       \/ AnswerLost(r)
       \/ \E others \in OtherCookies : PagePost(r, others)
       \/ \E header \in ClientHeaders : ApiPost(r, header) \/ MovieWrite(r, header)
       \/ HandlerEnds(r)
  \/ \E u \in Users : SignupPost(u)
  \/ \E u \in Admins : Promote(u) \/ Demote(u)
  \/ \E others \in OtherCookies : cinema_index(others)
  \/ \E boot \in Boots : StartServer(boot)
  \/ StopServer
  \/ \E k \in Keys : RotateKey(k)
  \/ CookieGone
  \/ Tick

\* Time passes.
Fairness == WF_vars(Tick)

Spec == Init /\ [][Next]_vars /\ Fairness

-----------------------------------------------------------------------------
(***************************************************************************)
(* A movie is only changed for somebody who is an admin, or was one no     *)
(* longer ago than a token lasts: the claim is read from the token and the *)
(* identity server is never asked again, so expiry is all that ends it.    *)
(***************************************************************************)
AdminRightsEnd ==
  \A r \in Requests : reqs[r].pc = "movies" => reqs[r].late <= Life + Leeway

(***************************************************************************)
(* A login that succeeded is one: the user has a row, and as long as this  *)
(* server runs and the token lasts, the browser's requests are admitted,   *)
(* as that user, behind any other cookies that have names.  In between,    *)
(* the identity server may change its key, and the upsert may fail;        *)
(* neither a token this server cannot check nor one without a user may     *)
(* become a cookie.  Behind a cookie without a name the search for the     *)
(* session stops (auth.rs:82), and a user who is signed in gets a 401.     *)
(***************************************************************************)
LoginMeansSignedIn ==
  signedIn /\ jar # NoToken =>
    /\ jar.sub \in users
    /\ jar.left >= -Leeway =>
         \A others \in OtherCookies \ {<<Nameless>>} : auth(BrowserHeader(others)) = jar

(***************************************************************************)
(* A click acts for the user the page names, or for one who was signed in  *)
(* while it was open (in another tab): not for anybody whose cookie has    *)
(* since gone, and whatever servers, keys and tokens do in between.  A     *)
(* guest's page acts for nobody else either, unless the cookie it was not  *)
(* shown for has become good since: the server was started anew, with      *)
(* another key, or a cookie without a name, which hid it, has gone.        *)
(***************************************************************************)
ActsAsShown ==
  [][\A r \in Requests, others \in OtherCookies :
       PagePost(r, others) /\ reqs' # reqs =>
         \/ reqs'[r].sub \in joined \cup {page}
         \/ page = Guest /\ ~settled]_vars

(***************************************************************************)
(* A browser that is given no new token is signed out for good in the end, *)
(* whether or not anybody logs out, restarts the server or changes a key.  *)
(***************************************************************************)
EverySessionEnds ==
  <>[][\A r \in Requests : ~(Deliver(r) /\ jar' # NoToken)]_vars =>
    <>[](\A others \in OtherCookies : auth(BrowserHeader(others)) = NoToken)
=============================================================================
