-------------------------- MODULE SessionGateProofs --------------------------
(***************************************************************************)
(* Whatever users, requests, keys and lifetimes of tokens there are, admin *)
(* rights end with the token that gave them, a login that succeeded is     *)
(* accepted behind cookies that have names, and a click acts for whom its  *)
(* page shows or for who was signed in beside it.                          *)
(***************************************************************************)
EXTENDS SessionGate, TLAPS

\* A token's age and the time since its user was an admin go together.
Claims(token) ==
  token # NoToken /\ token.admin => since[token.sub] + token.left <= Life

AdminsAreNow == \A u \in Users : account[u] = "admin" => since[u] = 0

\* The server now running has checked the token, all but its expiry.
Checked(token) ==
  token # NoToken => Up /\ token.key = server.verifier /\ token.type = "auth"

\* The cookie's user is the one the page names or came later; an unnamed reader's
\* cookie is none that this server accepts.
PageIsOfJar ==
  /\ page \in Users /\ jar # NoToken => jar.sub \in joined \cup {page}
  /\ settled => page = Guest /\ Up /\ (Verified(jar) => jar.sub \in joined)

-----------------------------------------------------------------------------
LEMMA Lifetimes ==
  /\ Dead \in Int /\ Dead < -Leeway /\ Dead <= Life
  /\ Cap \in Nat /\ Cap + Dead = Life
  /\ Life \in Nat /\ Leeway \in Nat
BY LifetimeAssumption DEF Dead, Cap

LEMMA MinOfOne ==
  ASSUME NEW n \in Int
  PROVE  Min({n}) = n
BY DEF Min

\* The last cookie is the session, and no other has a value.
LEMMA FoundLast ==
  ASSUME NEW n \in Nat \ {0}, NEW cookies, NEW value,
         DOMAIN cookies = 1..n, cookies[n] = Session(value), value # NoToken,
         \A j \in 1..(n - 1) : cookies[j] \in {Other, Session(NoToken)}
  PROVE  session_jwt_from_cookie_header(cookies) = value
<1> DEFINE found == {i \in DOMAIN cookies :
                       /\ cookies[i].name = "tb_access_token"
                       /\ cookies[i].value # NoToken
                       /\ \A j \in 1..(i - 1) : cookies[j] # Nameless}
<1>1. \A c \in {Other, Session(NoToken)} : c.value = NoToken /\ c.name # ""
  <2>1. Other.value = NoToken /\ Session(NoToken).value = NoToken
    BY DEF Other, Session, Part
  <2>2. Other.name = "other" /\ Session(NoToken).name = "tb_access_token"
    BY DEF Other, Session, Part
  <2>4. QED
    BY <2>1, <2>2
<1>2. Nameless.name = ""
  BY DEF Nameless, Part
<1>3. \A j \in 1..(n - 1) : cookies[j].value = NoToken /\ cookies[j] # Nameless
  BY <1>1, <1>2
<1>4. cookies[n].value = value /\ cookies[n].name = "tb_access_token"
  BY DEF Session, Part
<1>5. found = {n}
  <2>1. n \in found
    BY <1>3, <1>4
  <2>2. ASSUME NEW i \in found PROVE i = n
    BY <1>3
  <2>3. QED
    BY <2>1, <2>2
<1>6. QED
  BY <1>4, <1>5, MinOfOne DEF session_jwt_from_cookie_header

\* No cookie has a value: no token.
LEMMA FoundNone ==
  ASSUME NEW cookies,
         \A j \in DOMAIN cookies : cookies[j].value = NoToken
  PROVE  session_jwt_from_cookie_header(cookies) = NoToken
BY DEF session_jwt_from_cookie_header

LEMMA OthersHaveNone ==
  \A c \in {Other, Nameless, Session(NoToken)} : c.value = NoToken
<1>1. Other.value = NoToken /\ Nameless.value = NoToken /\ Session(NoToken).value = NoToken
  BY DEF Other, Nameless, Session, Part
<1>2. QED
  BY <1>1

LEMMA Appended ==
  ASSUME NEW others \in OtherCookies, NEW c
  PROVE  \E n \in {1, 2} :
           /\ DOMAIN Append(others, c) = 1..n
           /\ Append(others, c)[n] = c
           /\ n = 1 => others = <<>>
           /\ n = 2 => others = <<Append(others, c)[1]>>
<1>1. CASE others = <<>>
  BY <1>1
<1>2. ASSUME NEW d, others = <<d>>
      PROVE  /\ DOMAIN Append(others, c) = 1..2
             /\ Append(others, c)[2] = c /\ Append(others, c)[1] = d
  BY <1>2
<1>3. QED
  BY <1>1, <1>2 DEF OtherCookies

(***************************************************************************)
(* What auth makes of a browser's request, and of a client's: the          *)
(* browser's token if it stands, or none, as behind a nameless cookie.     *)
(***************************************************************************)
LEMMA AuthOfBrowser ==
  ASSUME NEW others \in OtherCookies
  PROVE  auth(BrowserHeader(others)) =
           IF Verified(jar) /\ others # <<Nameless>> THEN jar ELSE NoToken
<1>1. ~Verified(NoToken)
  BY DEF Verified
<1>2. CASE jar = NoToken
  <2>1. \A j \in DOMAIN others : others[j].value = NoToken
    BY OthersHaveNone DEF OtherCookies
  <2>2. jwt_from_request(BrowserHeader(others)) = NoToken
    BY <1>2, <2>1, FoundNone DEF jwt_from_request, BrowserHeader, Header
  <2>3. QED
    BY <1>1, <1>2, <2>2 DEF auth
<1>3. CASE jar # NoToken /\ others # <<Nameless>>
  <2>1. PICK n \in {1, 2} :
          /\ DOMAIN Append(others, Session(jar)) = 1..n
          /\ Append(others, Session(jar))[n] = Session(jar)
          /\ n = 1 => others = <<>>
          /\ n = 2 => others = <<Append(others, Session(jar))[1]>>
    BY Appended
  <2>2. \A j \in 1..(n - 1) : Append(others, Session(jar))[j] \in {Other, Session(NoToken)}
    BY <1>3, <2>1 DEF OtherCookies
  <2>3. session_jwt_from_cookie_header(Append(others, Session(jar))) = jar
    <3>1. n \in Nat \ {0}
      OBVIOUS
    <3>2. QED
      BY <1>3, <2>1, <2>2, <3>1, FoundLast
  <2>4. jwt_from_request(BrowserHeader(others)) = jar
    BY <1>3, <2>3 DEF jwt_from_request, BrowserHeader, Header
  <2>5. QED
    BY <1>3, <2>4 DEF auth
<1>4. CASE jar # NoToken /\ others = <<Nameless>>
  <2> DEFINE cookies == Append(others, Session(jar))
  <2>1. DOMAIN cookies = 1..2 /\ cookies[1] = Nameless /\ Nameless.name # "tb_access_token"
    <3>1. PICK n \in {1, 2} :
            /\ DOMAIN cookies = 1..n
            /\ n = 1 => others = <<>>
            /\ n = 2 => others = <<cookies[1]>>
      BY Appended
    <3>2. <<Nameless>> # <<>>
      OBVIOUS
    <3>3. n = 2
      BY <1>4, <3>1, <3>2
    <3>4. <<cookies[1]>> = <<Nameless>>
      BY <1>4, <3>1, <3>3
    <3>5. cookies[1] = Nameless
      BY <3>4
    <3>6. Nameless.name # "tb_access_token"
      BY DEF Nameless, Part
    <3>7. QED
      BY <3>1, <3>3, <3>5, <3>6
  <2>2. {i \in DOMAIN cookies :
           /\ cookies[i].name = "tb_access_token"
           /\ cookies[i].value # NoToken
           /\ \A j \in 1..(i - 1) : cookies[j] # Nameless} = {}
    BY <2>1
  <2>3. session_jwt_from_cookie_header(cookies) = NoToken
    BY <2>2 DEF session_jwt_from_cookie_header
  <2>4. jwt_from_request(BrowserHeader(others)) = NoToken
    BY <1>4, <2>3 DEF jwt_from_request, BrowserHeader, Header
  <2>5. QED
    BY <1>1, <1>4, <2>4 DEF auth
<1>5. QED
  BY <1>2, <1>3, <1>4

LEMMA AuthOfClient ==
  ASSUME NEW header \in ClientHeaders, auth(header) # NoToken
  PROVE  auth(header) = jar /\ Verified(jar)
<1>1. jwt_from_request(header) = auth(header) /\ Verified(auth(header))
  BY DEF auth
<1>2. ~Verified(NoToken)
  BY DEF Verified
<1>3. ASSUME NEW t \in ClientTokens, header = Header("bearer", t, <<Session(jar)>>)
      PROVE  t = jar /\ auth(header) = jar
  <2>1. jwt_from_request(header) = t
    BY <1>3 DEF jwt_from_request, Header
  <2>2. ASSUME NEW u \in Users, t = [Issue(u) EXCEPT !.type = "other"]
        PROVE  FALSE
    <3>1. t.type = "other"
      BY <2>2 DEF Issue
    <3>2. QED
      BY <1>1, <2>1, <3>1 DEF Verified
  <2>3. QED
    BY <1>1, <2>1, <2>2 DEF ClientTokens
<1>4. ASSUME NEW a \in {"none", "opaque", "malformed"},
             NEW others \in OtherCookies,
             header = Header(a, NoToken, Append(others, Session(jar)))
      PROVE  auth(header) = jar
  <2> DEFINE cookies == Append(others, Session(jar))
  <2>1. PICK n \in {1, 2} :
          /\ DOMAIN cookies = 1..n
          /\ cookies[n] = Session(jar)
          /\ n = 1 => others = <<>>
          /\ n = 2 => others = <<cookies[1]>>
    BY Appended
  <2>2. jwt_from_request(header) = session_jwt_from_cookie_header(cookies)
    BY <1>1, <1>2, <1>4 DEF jwt_from_request, Header
  <2>3. \A j \in DOMAIN cookies : cookies[j].value \in {jar, NoToken}
    <3>1. cookies[n].value = jar
      BY <2>1 DEF Session, Part
    <3>2. n = 2 => cookies[1].value = NoToken
      BY <2>1, OthersHaveNone DEF OtherCookies
    <3>3. QED
      BY <2>1, <3>1, <3>2
  <2>4. session_jwt_from_cookie_header(cookies) \in {jar, NoToken}
    <3> DEFINE found == {i \in DOMAIN cookies :
                           /\ cookies[i].name = "tb_access_token"
                           /\ cookies[i].value # NoToken
                           /\ \A j \in 1..(i - 1) : cookies[j] # Nameless}
    <3>1. found \in {{}, {1}, {2}, {1, 2}}
      BY <2>1
    <3>2. Min({1}) = 1 /\ Min({2}) = 2 /\ Min({1, 2}) = 1
      BY MinOfOne DEF Min
    <3>3. found # {} => Min(found) \in found
      BY <3>1, <3>2
    <3>4. QED
      BY <2>3, <3>3 DEF session_jwt_from_cookie_header
  <2>5. QED
    BY <1>1, <1>2, <2>2, <2>4
<1>5. QED
  BY <1>1, <1>3, <1>4 DEF ClientHeaders

-----------------------------------------------------------------------------
(***************************************************************************)
(* A server that comes up checks tokens with a key or the fixed verifier.  *)
(***************************************************************************)
LEMMA BootsAreServers ==
  ASSUME NEW boot \in Boots
  PROVE  boot.verifier \in Keys \cup {Fixed, KeyFile} /\ boot.base_url \in {Given, Unset}
<1>1. PICK name \in Environments \cup {Unset}, variables \in Sources,
           found \in BOOLEAN, testHelpers \in BOOLEAN :
             boot = Boot(get_env(name), variables, found, testHelpers)
  BY DEF Boots
<1> DEFINE env == get_env(name)
           config == load_config(env, variables, found)
<1> HIDE DEF env
<1>2. /\ variables["jwt_public_key_path"] \in {KeyFile, Unset} \cup Keys
      /\ variables["jwt_public_key_pem"] \in {Unset} \cup Keys
      /\ variables["base_url"] \in {Given, Unset}
  BY DEF Sources
<1>3. ASSUME NEW s \in Settings
      PROVE  config[s] \in {variables[s], dotenv(env, found)[s], environment_toml(env)[s], Unset}
  BY <1>3 DEF load_config, Over, app_toml, Nothing
<1>4. /\ dotenv(env, found)["jwt_public_key_path"] = Unset
      /\ dotenv(env, found)["jwt_public_key_pem"] = Unset
      /\ dotenv(env, found)["base_url"] = Unset
  BY DEF dotenv, Nothing, Settings
<1>5. /\ environment_toml(env)["jwt_public_key_path"] \in {KeyFile, Unset}
      /\ environment_toml(env)["jwt_public_key_pem"] = Unset
      /\ environment_toml(env)["base_url"] \in {Given, Unset}
  BY DEF environment_toml, Nothing, Settings
<1>6. /\ config["jwt_public_key_path"] \in {KeyFile, Unset} \cup Keys
      /\ config["jwt_public_key_pem"] \in {Unset} \cup Keys
      /\ config["base_url"] \in {Given, Unset}
  BY <1>2, <1>3, <1>4, <1>5 DEF Settings
<1>7. /\ boot.verifier = build_access_token_verifier(env, config, testHelpers)
      /\ boot.base_url = config["base_url"]
  BY <1>1 DEF Boot, env
<1>8. boot.verifier # Unset
  BY DEF Boots
<1>9. QED
  BY <1>6, <1>7, <1>8 DEF build_access_token_verifier

\* Ageing keeps what a token says and how its age compares.
LEMMA AgedIsToken ==
  ASSUME NEW token \in Token \cup {NoToken}
  PROVE  /\ Aged(token) \in Token \cup {NoToken}
         /\ Aged(token) = NoToken <=> token = NoToken
         /\ token # NoToken =>
              /\ Aged(token).sub = token.sub /\ Aged(token).admin = token.admin
              /\ Aged(token).key = token.key /\ Aged(token).type = token.type
              /\ Aged(token).left = IF token.left = Dead THEN Dead ELSE token.left - 1
<1>1. CASE token = NoToken \/ token.left = Dead
  BY <1>1 DEF Aged
<1>2. CASE token # NoToken /\ token.left # Dead
  <2>1. Aged(token) = [token EXCEPT !.left = @ - 1]
    BY <1>2 DEF Aged
  <2>2. token.left - 1 \in Dead..Life
    BY <1>2, Lifetimes DEF Token
  <2>3. Aged(token) \in Token
    BY <1>2, <2>1, <2>2 DEF Token
  <2>4. QED
    BY <1>2, <2>1, <2>3, NoTokenAssumption DEF Token
<1>3. QED
  BY <1>1, <1>2

-----------------------------------------------------------------------------
(***************************************************************************)
(* What the invariant says of a request by itself; the rest of it speaks   *)
(* of the identity server, the browser and its page.                       *)
(***************************************************************************)
TokenOK(token) == token \in Token /\ Claims(token)
CookieOK(token) == token \in Token \cup {NoToken} /\ Claims(token)

RequestOK(q) ==
  \/ q = Idle
  \/ q.pc = "login" /\ q \in [pc : {"login"}, sub : Users]
  \/ /\ q.pc = "tokens" /\ q \in [pc : {"tokens"}, token : Token]
     /\ TokenOK(q.token)
  \/ /\ q.pc = "verified" /\ q \in [pc : {"verified"}, token : Token]
     /\ TokenOK(q.token) /\ Checked(q.token)
  \/ /\ q.pc = "answer"
     /\ q \in [pc : {"answer"}, cookie : Token \cup {NoToken}, own : BOOLEAN]
     /\ CookieOK(q.cookie)
     /\ q.own => Checked(q.cookie) /\ (q.cookie # NoToken => q.cookie.sub \in users)
  \/ q.pc = "bookings" /\ q \in [pc : {"bookings"}, sub : Users]
  \/ /\ q.pc = "movies" /\ q \in [pc : {"movies"}, sub : Users, late : 0..Cap]
     /\ q.late <= Life + Leeway

World ==
  /\ account \in [Users -> {"none", "user", "admin"}]
  /\ signing \in Keys
  /\ server \in Servers
  /\ users \subseteq Users
  /\ since \in [Users -> 0..Cap]
  /\ AdminsAreNow

Browser ==
  /\ CookieOK(jar)
  /\ signedIn \in BOOLEAN
  /\ signedIn => Checked(jar) /\ (jar # NoToken => jar.sub \in users)
  /\ page \in Users \cup {Guest, NoPage} /\ joined \subseteq Users /\ settled \in BOOLEAN
  /\ PageIsOfJar

\* reqs is a function, and each of its values is right.
AllRequests == reqs = [r \in Requests |-> reqs[r]] /\ \A r \in Requests : RequestOK(reqs[r])

Inv == World /\ Browser /\ AllRequests

-----------------------------------------------------------------------------
LEMMA IssueIsToken ==
  ASSUME World, NEW u \in Users
  PROVE  Issue(u) \in Token /\ Claims(Issue(u))
<1>1. Life \in Dead..Life
  BY Lifetimes
<1>2. Issue(u) \in Token
  BY <1>1 DEF Issue, Token, World
<1>3. Issue(u).admin => since[u] = 0
  BY DEF Issue, World, AdminsAreNow
<1>4. Issue(u).sub = u /\ Issue(u).left = Life
  BY DEF Issue
<1>5. QED
  BY <1>2, <1>3, <1>4, Lifetimes DEF Claims

LEMMA InvInit == Init => Inv
<1> SUFFICES ASSUME Init PROVE Inv
  OBVIOUS
<1>1. World
  <2>1. Down \in Servers
    BY DEF Down, Servers
  <2>2. QED
    BY <2>1, Lifetimes DEF Init, World, AdminsAreNow
<1>2. Browser
  BY NamesAssumption DEF Init, Browser, CookieOK, Claims, PageIsOfJar
<1>3. AllRequests
  BY DEF Init, AllRequests, RequestOK
<1>4. QED
  BY <1>1, <1>2, <1>3 DEF Inv

(***************************************************************************)
(* A request stays right while the identity server's history and the       *)
(* running server stay, and users are only added.                          *)
(***************************************************************************)
LEMMA OneRequest ==
  ASSUME AllRequests, NEW r \in Requests, NEW q, Becomes(r, q),
         UNCHANGED <<since, server>>, users \subseteq users',
         RequestOK(reqs[r])'
  PROVE  AllRequests'
<1>1. reqs' = [t \in Requests |-> IF t = r THEN q ELSE reqs[t]]
  BY DEF AllRequests, Becomes
<1>2. reqs' = [t \in Requests |-> reqs'[t]]
  BY <1>1
<1>3. ASSUME NEW t \in Requests \ {r} PROVE RequestOK(reqs[t])'
  <2>1. reqs'[t] = reqs[t] /\ RequestOK(reqs[t])
    BY <1>1 DEF AllRequests
  <2>2. QED
    BY <2>1 DEF RequestOK, TokenOK, CookieOK, Claims, Checked, Up
<1>4. QED
  BY <1>2, <1>3 DEF AllRequests

LEMMA NoRequest ==
  ASSUME AllRequests, UNCHANGED <<reqs, since, server>>, users \subseteq users'
  PROVE  AllRequests'
<1>1. reqs' = [t \in Requests |-> reqs'[t]]
  BY DEF AllRequests
<1>2. ASSUME NEW t \in Requests PROVE RequestOK(reqs[t])'
  <2>1. reqs'[t] = reqs[t] /\ RequestOK(reqs[t])
    BY DEF AllRequests
  <2>2. QED
    BY <2>1 DEF RequestOK, TokenOK, CookieOK, Claims, Checked, Up
<1>3. QED
  BY <1>1, <1>2 DEF AllRequests

LEMMA WorldStays ==
  ASSUME World, UNCHANGED <<account, signing, server, since>>, users' \subseteq Users
  PROVE  World'
BY DEF World, AdminsAreNow

LEMMA BrowserStays ==
  ASSUME Browser, UNCHANGED <<server, since, jar, view, signedIn>>, users \subseteq users'
  PROVE  Browser'
BY DEF Browser, CookieOK, Claims, Checked, Up, PageIsOfJar, Verified, view

\* The value a request is given.
LEMMA Became ==
  ASSUME AllRequests, NEW r \in Requests, NEW q, Becomes(r, q)
  PROVE  reqs'[r] = q
BY DEF AllRequests, Becomes

(***************************************************************************)
(* Steps of a login up to its answer, and of a logout: one request moves,  *)
(* and the browser has nothing of it yet.                                  *)
(***************************************************************************)
LEMMA RequestMoves ==
  ASSUME Inv, NEW r \in Requests, NEW q, Becomes(r, q),
         UNCHANGED <<account, signing, server, jar, view, since, signedIn>>,
         users \subseteq users', users' \subseteq Users, RequestOK(reqs[r])'
  PROVE  Inv'
<1>1. World' /\ Browser'
  BY WorldStays, BrowserStays DEF Inv
<1>2. AllRequests'
  BY OneRequest DEF Inv
<1>3. QED
  BY <1>1, <1>2 DEF Inv

LEMMA LoginSteps ==
  ASSUME Inv, NEW r \in Requests,
         \/ \E u \in Users : LoginPost(r, u)
         \/ IdentityAccepts(r)
         \/ LoginVerify(r)
         \/ LoginFinish(r)
         \/ LoginFails(r)
         \/ LoginDropped(r)
         \/ LogoutPost(r)
         \/ AnswerLost(r)
         \/ HandlerEnds(r)
  PROVE  Inv'
<1> USE DEF identity, view, browser, history
<1>0. users \subseteq Users /\ AllRequests /\ RequestOK(reqs[r])
  BY DEF Inv, World, AllRequests
<1>1. ASSUME NEW u \in Users, LoginPost(r, u) PROVE Inv'
  <2>1. Becomes(r, [pc |-> "login", sub |-> u])
    BY <1>1 DEF LoginPost
  <2>2. RequestOK(reqs[r])'
    BY <1>0, <2>1, Became DEF RequestOK
  <2>3. QED
    BY <1>0, <1>1, <2>1, <2>2, RequestMoves DEF LoginPost
<1>2. CASE IdentityAccepts(r)
  <2>1. reqs[r].sub \in Users
    BY <1>0, <1>2 DEF IdentityAccepts, RequestOK, Idle
  <2>2. Issue(reqs[r].sub) \in Token /\ Claims(Issue(reqs[r].sub))
    BY <2>1, IssueIsToken DEF Inv
  <2>3. Becomes(r, [pc |-> "tokens", token |-> Issue(reqs[r].sub)])
    BY <1>2 DEF IdentityAccepts
  <2>4. reqs'[r] = [pc |-> "tokens", token |-> Issue(reqs[r].sub)]
    BY <1>0, <2>3, Became
  <2>5. RequestOK(reqs[r])'
    BY <1>2, <2>2, <2>4 DEF RequestOK, TokenOK, Claims, IdentityAccepts
  <2>6. QED
    BY <1>0, <1>2, <2>3, <2>5, RequestMoves DEF IdentityAccepts
<1>3. CASE LoginVerify(r)
  <2>1. TokenOK(reqs[r].token) /\ Verified(reqs[r].token)
    BY <1>0, <1>3 DEF LoginVerify, RequestOK, Idle
  <2>2. Becomes(r, [pc |-> "verified", token |-> reqs[r].token])
    BY <1>0, <1>3 DEF LoginVerify, RequestOK, Idle
  <2>3. reqs'[r] = [pc |-> "verified", token |-> reqs[r].token]
    BY <1>0, <2>2, Became
  <2>4. RequestOK(reqs[r])'
    BY <1>3, <2>1, <2>3
       DEF RequestOK, TokenOK, Claims, Checked, Verified, Up, LoginVerify
  <2>5. QED
    BY <1>0, <1>3, <2>2, <2>4, RequestMoves DEF LoginVerify
<1>4. CASE LoginFinish(r)
  <2>1. TokenOK(reqs[r].token) /\ Checked(reqs[r].token)
    BY <1>0, <1>4 DEF LoginFinish, RequestOK, Idle
  <2>2. reqs[r].token.sub \in Users
    BY <2>1 DEF TokenOK, Token
  <2>3. Becomes(r, [pc |-> "answer", cookie |-> reqs[r].token, own |-> TRUE])
    BY <1>4 DEF LoginFinish
  <2>4. reqs'[r] = [pc |-> "answer", cookie |-> reqs[r].token, own |-> TRUE]
    BY <1>0, <2>3, Became
  <2>5. RequestOK(reqs[r])'
    BY <1>4, <2>1, <2>4
       DEF RequestOK, TokenOK, CookieOK, Claims, Checked, Up, LoginFinish
  <2>6. QED
    BY <1>0, <1>4, <2>2, <2>3, <2>5, RequestMoves DEF LoginFinish
<1>5. CASE LoginFails(r) \/ AnswerLost(r) \/ HandlerEnds(r)
  <2>1. Becomes(r, Idle)
    BY <1>5 DEF LoginFails, AnswerLost, HandlerEnds
  <2>2. RequestOK(reqs[r])'
    BY <1>0, <2>1, Became DEF RequestOK
  <2>3. QED
    BY <1>0, <1>5, <2>1, <2>2, RequestMoves DEF LoginFails, AnswerLost, HandlerEnds
<1>6. CASE LoginDropped(r)
  <2>1. reqs[r].token.sub \in Users
    BY <1>0, <1>6 DEF LoginDropped, RequestOK, TokenOK, Token, Idle
  <2>2. Becomes(r, Idle)
    BY <1>6 DEF LoginDropped
  <2>3. RequestOK(reqs[r])'
    BY <1>0, <2>2, Became DEF RequestOK
  <2>4. QED
    BY <1>0, <1>6, <2>1, <2>2, <2>3, RequestMoves DEF LoginDropped
<1>7. CASE LogoutPost(r)
  <2>1. Becomes(r, [pc |-> "answer", cookie |-> NoToken, own |-> TRUE])
    BY <1>7 DEF LogoutPost
  <2>2. reqs'[r] = [pc |-> "answer", cookie |-> NoToken, own |-> TRUE]
    BY <1>0, <2>1, Became
  <2>3. RequestOK(reqs[r])'
    BY <2>2 DEF RequestOK, CookieOK, Claims, Checked
  <2>4. QED
    BY <1>0, <1>7, <2>1, <2>3, RequestMoves DEF LogoutPost
<1>8. QED
  BY <1>1, <1>2, <1>3, <1>4, <1>5, <1>6, <1>7

(***************************************************************************)
(* Answers, pages and the handlers behind the gate.                        *)
(***************************************************************************)
LEMMA DeliverSteps ==
  ASSUME Inv, NEW r \in Requests, Deliver(r)
  PROVE  Inv'
<1> USE DEF identity, view, browser, history
<1>1. AllRequests /\ RequestOK(reqs[r]) /\ reqs[r].pc = "answer"
  BY DEF Inv, AllRequests, Deliver
<1>2. /\ reqs[r].cookie \in Token \cup {NoToken} /\ Claims(reqs[r].cookie)
      /\ reqs[r].own \in BOOLEAN
      /\ reqs[r].own => /\ Checked(reqs[r].cookie)
                        /\ reqs[r].cookie # NoToken => reqs[r].cookie.sub \in users
  BY <1>1 DEF RequestOK, CookieOK, Idle
<1>3. World'
  BY WorldStays DEF Inv, World, Deliver
<1>4. Browser'
  <2>1. jar' = reqs[r].cookie /\ CookieOK(jar)' /\ signedIn' \in BOOLEAN
    BY <1>2 DEF Deliver, CookieOK, Claims
  <2>2. signedIn' => Checked(jar)' /\ (jar' # NoToken => jar'.sub \in users')
    BY <1>2 DEF Deliver, Checked, Up
  <2>3. jar' # NoToken => jar'.sub \in Users
    BY <1>2, <2>1 DEF Token
  <2>4. CASE ClosePage
    BY <2>1, <2>2, <2>4, NamesAssumption DEF Browser, ClosePage, PageIsOfJar
  <2>5. CASE joined' = joined \cup {u \in Users \ {page} : jar' # NoToken /\ jar'.sub = u}
             /\ UNCHANGED <<page, settled>>
    <3>1. jar' # NoToken => jar'.sub \in joined' \cup {page'}
      BY <2>3, <2>5
    <3>2. Verified(jar)' => jar' # NoToken
      BY DEF Verified
    <3>3. settled' => page' = Guest /\ Up' /\ (jar' # NoToken => jar'.sub \in joined')
      BY <2>3, <2>5, NamesAssumption DEF Inv, Browser, PageIsOfJar, Deliver, Up
    <3>4. page' \in Users \cup {Guest, NoPage} /\ joined' \subseteq Users /\ settled' \in BOOLEAN
      BY <2>5 DEF Inv, Browser
    <3>5. QED
      BY <2>1, <2>2, <3>1, <3>2, <3>3, <3>4 DEF Browser, PageIsOfJar
  <2>6. QED
    BY <2>4, <2>5 DEF Deliver
<1>5. AllRequests'
  <2>1. Becomes(r, Idle)
    BY DEF Deliver
  <2>2. RequestOK(reqs[r])'
    BY <1>1, <2>1, Became DEF RequestOK
  <2>3. QED
    BY <1>1, <2>1, <2>2, OneRequest DEF Deliver
<1>6. QED
  BY <1>3, <1>4, <1>5 DEF Inv

LEMMA PageSteps ==
  ASSUME Inv, NEW others \in OtherCookies, cinema_index(others)
  PROVE  Inv'
<1> USE DEF identity, view, browser, history
<1>1. World' /\ AllRequests'
  BY WorldStays, NoRequest DEF Inv, World, cinema_index
<1>2. /\ Up
      /\ page' = IF Verified(jar) /\ others # <<Nameless>> THEN jar.sub ELSE Guest
  <2>1. ~Verified(NoToken)
    BY DEF Verified
  <2>2. QED
    BY <2>1, AuthOfBrowser DEF cinema_index, extract_optional_principal
<1>3. Browser'
  <2>1. Verified(jar) => jar.sub \in Users
    BY DEF Inv, Browser, CookieOK, Verified, Token
  <2>2. Verified(jar)' <=> Verified(jar)
    BY DEF cinema_index, Verified, Up
  <2>3. /\ page' \in Users \cup {Guest, NoPage} /\ joined' = {}
        /\ settled' \in BOOLEAN /\ PageIsOfJar'
    BY <1>2, <2>1, <2>2, NamesAssumption DEF cinema_index, PageIsOfJar, Up
  <2>4. QED
    BY <2>3 DEF Inv, Browser, CookieOK, Claims, Checked, Up, cinema_index
<1>4. QED
  BY <1>1, <1>3 DEF Inv

LEMMA PagePostSteps ==
  ASSUME Inv, NEW r \in Requests, NEW others \in OtherCookies, PagePost(r, others)
  PROVE  Inv'
<1> USE DEF identity, view, browser, history
<1>1. ~Verified(NoToken)
  BY DEF Verified
<1>2. CASE Verified(jar) /\ others # <<Nameless>>
  <2>1. auth(BrowserHeader(others)) = jar /\ jar # NoToken
    BY <1>1, <1>2, AuthOfBrowser
  <2>2. Becomes(r, [pc |-> "bookings", sub |-> jar.sub]) /\ view' = view
    BY <2>1 DEF PagePost
  <2>3. jar.sub \in Users
    BY <2>1 DEF Inv, Browser, CookieOK, Token
  <2>4. reqs'[r] = [pc |-> "bookings", sub |-> jar.sub]
    BY <2>2, Became DEF Inv
  <2>5. RequestOK(reqs[r])'
    BY <2>3, <2>4 DEF RequestOK
  <2>6. users' = users /\ users \subseteq Users
    BY DEF PagePost, Inv, World
  <2>7. QED
    BY <2>2, <2>5, <2>6, RequestMoves DEF PagePost
<1>3. CASE ~(Verified(jar) /\ others # <<Nameless>>)
  <2>1. ClosePage /\ reqs' = reqs
    BY <1>3, AuthOfBrowser DEF PagePost
  <2>2. World' /\ AllRequests'
    BY <2>1, WorldStays, NoRequest DEF Inv, World, PagePost
  <2>3. Browser'
    BY <2>1, NamesAssumption
       DEF Inv, Browser, CookieOK, Claims, Checked, Up, ClosePage, PageIsOfJar, PagePost
  <2>4. QED
    BY <2>2, <2>3 DEF Inv
<1>4. QED
  BY <1>2, <1>3

(***************************************************************************)
(* A verified admin claim is at most as old as a token gets: its subject   *)
(* was an admin when it was made.                                          *)
(***************************************************************************)
LEMMA ClientSteps ==
  ASSUME Inv, NEW r \in Requests, NEW header \in ClientHeaders,
         ApiPost(r, header) \/ MovieWrite(r, header)
  PROVE  Inv'
<1> USE DEF identity, view, browser, history
<1>1. auth(header) # NoToken
  BY DEF ApiPost, MovieWrite, require_movie_admin
<1>2. auth(header) = jar /\ Verified(jar) /\ jar # NoToken
  BY <1>1, AuthOfClient
<1>3. jar \in Token /\ Claims(jar) /\ jar.sub \in Users
  BY <1>2 DEF Inv, Browser, CookieOK, Token
<1>4. users' = users /\ users \subseteq Users
  BY DEF ApiPost, MovieWrite, Inv, World
<1>5. CASE ApiPost(r, header)
  <2>1. Becomes(r, [pc |-> "bookings", sub |-> jar.sub])
    BY <1>2, <1>5 DEF ApiPost
  <2>2. reqs'[r] = [pc |-> "bookings", sub |-> jar.sub]
    BY <2>1, Became DEF Inv
  <2>3. RequestOK(reqs[r])'
    BY <1>3, <2>2 DEF RequestOK
  <2>4. QED
    BY <1>4, <1>5, <2>1, <2>3, RequestMoves DEF ApiPost
<1>6. CASE MovieWrite(r, header)
  <2>1. Becomes(r, [pc |-> "movies", sub |-> jar.sub, late |-> since[jar.sub]])
    BY <1>2, <1>6 DEF MovieWrite
  <2>2. jar.admin
    BY <1>2, <1>6 DEF MovieWrite, require_movie_admin
  <2>3. since[jar.sub] + jar.left <= Life
    BY <1>2, <1>3, <2>2 DEF Claims
  <2>4. jar.left \in Int /\ jar.left >= -Leeway /\ since[jar.sub] \in 0..Cap
    BY <1>2, <1>3, Lifetimes DEF Verified, Token, Inv, World
  <2>5. since[jar.sub] <= Life + Leeway
    BY <2>3, <2>4, Lifetimes
  <2>6. reqs'[r] = [pc |-> "movies", sub |-> jar.sub, late |-> since[jar.sub]]
    BY <2>1, Became DEF Inv
  <2>7. RequestOK(reqs[r])'
    BY <1>3, <2>4, <2>5, <2>6 DEF RequestOK
  <2>8. QED
    BY <1>4, <1>6, <2>1, <2>7, RequestMoves DEF MovieWrite
<1>7. QED
  BY <1>5, <1>6

-----------------------------------------------------------------------------
(***************************************************************************)
(* The identity server's own steps: nothing it does reaches a token that   *)
(* is out, and a promotion only starts the count again.                    *)
(***************************************************************************)
LEMMA IdentitySteps ==
  ASSUME Inv,
         \/ \E u \in Users : SignupPost(u)
         \/ \E u \in Admins : Promote(u) \/ Demote(u)
         \/ \E k \in Keys : RotateKey(k)
  PROVE  Inv'
<1> USE DEF identity, view, browser, history
<1>1. users' = users /\ UNCHANGED <<server, jar, view, reqs, signedIn>>
  BY DEF SignupPost, Promote, Demote, RotateKey
<1>2. \A u \in Users : since[u] \in 0..Cap /\ since'[u] \in 0..Cap /\ since'[u] <= since[u]
  <2>1. CASE since' = since
    BY <2>1, Lifetimes DEF Inv, World
  <2>2. ASSUME NEW v \in Admins, Promote(v), NEW u \in Users
        PROVE  since[u] \in 0..Cap /\ since'[u] \in 0..Cap /\ since'[u] <= since[u]
    BY <2>2, Lifetimes DEF Inv, World, Promote
  <2>3. QED
    BY <2>1, <2>2 DEF SignupPost, Demote, RotateKey
<1>3. World'
  <2>1. CASE since' = since /\ account' = account /\ signing' \in Keys
    BY <1>1, <2>1 DEF Inv, World, AdminsAreNow
  <2>2. ASSUME NEW u \in Users, account' = [account EXCEPT ![u] = "user"],
               since' = since, signing' = signing
        PROVE  World'
    BY <1>1, <2>2 DEF Inv, World, AdminsAreNow
  <2>3. ASSUME NEW u \in Admins, Promote(u) PROVE World'
    BY <1>1, <2>3, NamesAssumption, Lifetimes DEF Inv, World, AdminsAreNow, Promote
  <2>4. QED
    BY <2>1, <2>2, <2>3, NamesAssumption DEF SignupPost, Demote, RotateKey, Inv, World
<1>4. ASSUME NEW token \in Token \cup {NoToken}, Claims(token) PROVE Claims(token)'
  <2>1. CASE token = NoToken
    BY <2>1 DEF Claims
  <2>2. CASE token \in Token
    <3>1. token.sub \in Users /\ token.left \in Int
      BY <2>2, Lifetimes DEF Token
    <3>2. QED
      BY <1>2, <1>4, <3>1, Lifetimes DEF Claims
  <2>3. QED
    BY <2>1, <2>2
<1>5. Browser'
  BY <1>1, <1>4 DEF Inv, Browser, CookieOK, Checked, Up, PageIsOfJar, Verified
<1>6. AllRequests'
  <2>1. reqs' = [t \in Requests |-> reqs'[t]]
    BY <1>1 DEF Inv, AllRequests
  <2>2. ASSUME NEW t \in Requests PROVE RequestOK(reqs[t])'
    <3>1. reqs'[t] = reqs[t] /\ RequestOK(reqs[t])
      BY <1>1 DEF Inv, AllRequests
    <3>2. QED
      BY <1>1, <1>4, <3>1 DEF RequestOK, TokenOK, CookieOK, Checked, Up
  <2>3. QED
    BY <2>1, <2>2 DEF AllRequests
<1>7. QED
  BY <1>3, <1>5, <1>6 DEF Inv

\* Before a server starts nothing is checked and no page is of its rendering.
LEMMA StartSteps ==
  ASSUME Inv, NEW boot \in Boots, StartServer(boot)
  PROVE  Inv'
<1> USE DEF identity, view, browser, history
<1>1. ~Up /\ users' = users /\ UNCHANGED <<account, signing, jar, view, reqs, since, signedIn>>
  BY DEF StartServer, Up
<1>2. server' \in Servers
  BY BootsAreServers DEF StartServer, Servers, Inv, World
<1>3. World'
  BY <1>1, <1>2 DEF Inv, World, AdminsAreNow
<1>4. Browser'
  BY <1>1 DEF Inv, Browser, CookieOK, Claims, Checked, PageIsOfJar
<1>5. AllRequests'
  <2>1. reqs' = [t \in Requests |-> reqs'[t]]
    BY <1>1 DEF Inv, AllRequests
  <2>2. ASSUME NEW t \in Requests PROVE RequestOK(reqs[t])'
    <3>1. reqs'[t] = reqs[t] /\ RequestOK(reqs[t])
      BY <1>1 DEF Inv, AllRequests
    <3>2. QED
      BY <1>1, <3>1 DEF RequestOK, TokenOK, CookieOK, Claims, Checked
  <2>3. QED
    BY <2>1, <2>2 DEF AllRequests
<1>6. QED
  BY <1>3, <1>4, <1>5 DEF Inv

LEMMA StopSteps ==
  ASSUME Inv, StopServer
  PROVE  Inv'
<1> USE DEF identity, view, browser, history
<1>1. World'
  BY DEF StopServer, Inv, World, AdminsAreNow, Servers, Down
<1>2. Browser'
  BY DEF StopServer, Inv, Browser, CookieOK, Claims, PageIsOfJar
<1>3. ASSUME NEW t \in Requests PROVE RequestOK(reqs[t])'
  <2>1. RequestOK(reqs[t])
    BY DEF Inv, AllRequests
  <2>2. CASE reqs[t].pc = "answer"
    <3>1. /\ reqs'[t] = [reqs[t] EXCEPT !.own = FALSE]
          /\ reqs[t] \in [pc : {"answer"}, cookie : Token \cup {NoToken}, own : BOOLEAN]
          /\ CookieOK(reqs[t].cookie)
      BY <2>1, <2>2 DEF StopServer, RequestOK, Idle
    <3>2. /\ reqs'[t].pc = "answer" /\ reqs'[t].own = FALSE
          /\ reqs'[t].cookie = reqs[t].cookie
          /\ reqs'[t] \in [pc : {"answer"}, cookie : Token \cup {NoToken}, own : BOOLEAN]
      BY <3>1
    <3>3. CookieOK(reqs[t].cookie)'
      BY <3>1, <3>2 DEF CookieOK, Claims, StopServer
    <3>4. QED
      BY <3>2, <3>3 DEF RequestOK
  <2>3. CASE reqs[t].pc # "answer"
    BY <2>3 DEF StopServer, RequestOK
  <2>4. QED
    BY <2>2, <2>3
<1>4. AllRequests'
  BY <1>3 DEF AllRequests, StopServer
<1>5. QED
  BY <1>1, <1>2, <1>4 DEF Inv

LEMMA CookieGoneSteps ==
  ASSUME Inv, CookieGone
  PROVE  Inv'
<1> USE DEF identity, view, browser, history
<1>1. World' /\ AllRequests'
  BY WorldStays, NoRequest DEF Inv, World, CookieGone
<1>2. Browser'
  BY DEF CookieGone, Inv, Browser, CookieOK, Claims, Checked, Up, PageIsOfJar, Verified
<1>3. QED
  BY <1>1, <1>2 DEF Inv

(***************************************************************************)
(* Time passes: each token has one tick less, and whoever is no admin has  *)
(* been none for one more.                                                 *)
(***************************************************************************)
LEMMA ClaimsAge ==
  ASSUME World, Tick, NEW token \in Token \cup {NoToken}, Claims(token)
  PROVE  /\ CookieOK(Aged(token))'
         /\ Checked(token) => Checked(Aged(token))'
<1> USE DEF identity, view, browser, history
<1>1. CASE token = NoToken
  BY <1>1, AgedIsToken DEF CookieOK, Claims, Checked
<1>2. CASE token \in Token
  <2>1. /\ Aged(token) \in Token
        /\ Aged(token).sub = token.sub /\ Aged(token).admin = token.admin
        /\ Aged(token).key = token.key /\ Aged(token).type = token.type
        /\ Aged(token).left = IF token.left = Dead THEN Dead ELSE token.left - 1
    BY <1>2, AgedIsToken, NoTokenAssumption
  <2>2. token.sub \in Users /\ token.left \in Dead..Life
    BY <1>2 DEF Token
  <2>3. /\ since[token.sub] \in 0..Cap
        /\ since'[token.sub] \in 0..Cap
        /\ since'[token.sub] <= since[token.sub] + 1
    BY <2>2, Lifetimes DEF World, Tick
  <2>4. token.admin => since'[token.sub] + Aged(token).left <= Life
    <3>1. CASE token.left = Dead
      BY <2>1, <2>3, <3>1, Lifetimes
    <3>2. CASE token.left # Dead /\ token.admin
      <4>1. since[token.sub] + token.left <= Life
        BY <1>2, <3>2, NoTokenAssumption DEF Claims
      <4>2. QED
        BY <2>1, <2>2, <2>3, <3>2, <4>1, Lifetimes
    <3>3. QED
      BY <3>1, <3>2
  <2>5. Claims(Aged(token))'
    BY <2>1, <2>4 DEF Claims, Aged
  <2>6. CookieOK(Aged(token))'
    BY <2>1, <2>5 DEF CookieOK, Aged
  <2>7. Checked(token) => Checked(Aged(token))'
    BY <1>2, <2>1, NoTokenAssumption DEF Checked, Up, Tick, Aged
  <2>8. QED
    BY <2>6, <2>7
<1>3. QED
  BY <1>1, <1>2

LEMMA TickSteps ==
  ASSUME Inv, Tick
  PROVE  Inv'
<1> USE DEF identity, view, browser, history
<1>1. World'
  BY Lifetimes DEF Tick, Inv, World, AdminsAreNow
<1>2. jar \in Token \cup {NoToken} /\ Claims(jar) /\ jar' = Aged(jar)
  BY DEF Inv, Browser, CookieOK, Tick
<1>3. Browser'
  <2>1. CookieOK(jar)' /\ (Checked(jar) => Checked(jar)')
    BY <1>2, ClaimsAge DEF Inv, CookieOK, Checked, Claims, Up
  <2>2. jar' # NoToken => jar # NoToken /\ jar'.sub = jar.sub
    BY <1>2, AgedIsToken
  <2>3. Verified(jar)' => Verified(jar)
    <3>1. CASE jar = NoToken
      BY <2>2, <3>1 DEF Verified
    <3>2. CASE jar \in Token
      <4>1. /\ jar'.key = jar.key /\ jar'.type = jar.type
            /\ jar'.left = IF jar.left = Dead THEN Dead ELSE jar.left - 1
        BY <1>2, <3>2, AgedIsToken, NoTokenAssumption
      <4>2. jar.left \in Int
        BY <3>2, Lifetimes DEF Token
      <4>3. QED
        BY <3>2, <4>1, <4>2, NoTokenAssumption, Lifetimes DEF Verified, Up, Tick
    <3>3. QED
      BY <1>2, <3>1, <3>2
  <2>4. signedIn' => Checked(jar)' /\ (jar' # NoToken => jar'.sub \in users')
    BY <2>1, <2>2 DEF Inv, Browser, Tick
  <2>5. PageIsOfJar'
    <3>1. ~Verified(NoToken)
      BY DEF Verified
    <3>2. QED
      BY <2>2, <2>3, <3>1 DEF Inv, Browser, PageIsOfJar, Tick, Up, Verified
  <2>6. QED
    BY <2>1, <2>4, <2>5 DEF Inv, Browser, Tick
<1>4. ASSUME NEW t \in Requests PROVE RequestOK(reqs[t])'
  <2>1. RequestOK(reqs[t]) /\ reqs'[t] = AgedRequest(reqs[t])
    BY DEF Inv, AllRequests, Tick
  <2>2. ASSUME NEW pc \in {"tokens", "verified"}, NEW token \in Token,
               reqs[t] = [pc |-> pc, token |-> token],
               Claims(token), pc = "verified" => Checked(token)
        PROVE  RequestOK(reqs[t])'
    <3>1. reqs'[t] = [pc |-> pc, token |-> Aged(token)]
      BY <2>1, <2>2 DEF AgedRequest
    <3>2. CookieOK(Aged(token))' /\ (Checked(token) => Checked(Aged(token))')
      BY <2>2, ClaimsAge DEF Inv
    <3>3. Aged(token) \in Token
      BY AgedIsToken, NoTokenAssumption
    <3>4. QED
      BY <2>2, <3>1, <3>2, <3>3
         DEF RequestOK, TokenOK, CookieOK, Claims, Checked, Up
  <2>3. ASSUME NEW cookie \in Token \cup {NoToken}, NEW own \in BOOLEAN,
               reqs[t] = [pc |-> "answer", cookie |-> cookie, own |-> own],
               Claims(cookie), own => Checked(cookie) /\ (cookie # NoToken => cookie.sub \in users)
        PROVE  RequestOK(reqs[t])'
    <3>1. reqs'[t] = [pc |-> "answer", cookie |-> Aged(cookie), own |-> own]
      BY <2>1, <2>3 DEF AgedRequest
    <3>2. CookieOK(Aged(cookie))' /\ (Checked(cookie) => Checked(Aged(cookie))')
      BY <2>3, ClaimsAge DEF Inv
    <3>3. /\ Aged(cookie) \in Token \cup {NoToken}
          /\ Aged(cookie) # NoToken => cookie # NoToken /\ Aged(cookie).sub = cookie.sub
      BY AgedIsToken
    <3>4. own => /\ Checked(Aged(cookie))'
                 /\ Aged(cookie) # NoToken => Aged(cookie).sub \in users'
      BY <2>3, <3>2, <3>3 DEF Tick
    <3>5. QED
      BY <2>3, <3>1, <3>2, <3>3, <3>4 DEF RequestOK, CookieOK, Claims, Checked, Up
  <2>4. CASE reqs[t].pc \notin {"tokens", "verified", "answer"}
    <3>1. reqs'[t] = reqs[t]
      BY <2>1, <2>4 DEF AgedRequest
    <3>2. QED
      BY <2>1, <2>4, <3>1 DEF RequestOK
  <2>5. CASE reqs[t].pc \in {"tokens", "verified"}
    <3>1. /\ reqs[t].token \in Token
          /\ reqs[t] = [pc |-> reqs[t].pc, token |-> reqs[t].token]
          /\ Claims(reqs[t].token)
          /\ reqs[t].pc = "verified" => Checked(reqs[t].token)
      BY <2>1, <2>5 DEF RequestOK, TokenOK, Idle
    <3>2. QED
      BY <2>2, <2>5, <3>1
  <2>6. CASE reqs[t].pc = "answer"
    <3>1. /\ reqs[t].cookie \in Token \cup {NoToken} /\ reqs[t].own \in BOOLEAN
          /\ reqs[t] = [pc |-> "answer", cookie |-> reqs[t].cookie, own |-> reqs[t].own]
          /\ Claims(reqs[t].cookie)
          /\ reqs[t].own => /\ Checked(reqs[t].cookie)
                            /\ reqs[t].cookie # NoToken => reqs[t].cookie.sub \in users
      BY <2>1, <2>6 DEF RequestOK, CookieOK, Idle
    <3>2. QED
      BY <2>3, <3>1
  <2>7. QED
    BY <2>4, <2>5, <2>6
<1>5. AllRequests'
  BY <1>4 DEF AllRequests, Tick
<1>6. QED
  BY <1>1, <1>3, <1>5 DEF Inv

-----------------------------------------------------------------------------
LEMMA InvStep == Inv /\ [Next]_vars => Inv'
<1> SUFFICES ASSUME Inv, [Next]_vars PROVE Inv'
  OBVIOUS
<1>1. ASSUME NEW r \in Requests,
             \/ \E u \in Users : LoginPost(r, u)
             \/ IdentityAccepts(r)
             \/ LoginVerify(r)
             \/ LoginFinish(r)
             \/ LoginFails(r)
             \/ LoginDropped(r)
             \/ LogoutPost(r)
             \/ AnswerLost(r)
             \/ HandlerEnds(r)
      PROVE  Inv'
  BY <1>1, LoginSteps
<1>2. ASSUME NEW r \in Requests,
             \/ Deliver(r)
             \/ \E others \in OtherCookies : PagePost(r, others)
             \/ \E header \in ClientHeaders : ApiPost(r, header) \/ MovieWrite(r, header)
      PROVE  Inv'
  BY <1>2, DeliverSteps, PagePostSteps, ClientSteps
<1>3. ASSUME NEW others \in OtherCookies, cinema_index(others) PROVE Inv'
  BY <1>3, PageSteps
<1>4. CASE \/ \E u \in Users : SignupPost(u)
           \/ \E u \in Admins : Promote(u) \/ Demote(u)
           \/ \E k \in Keys : RotateKey(k)
  BY <1>4, IdentitySteps
<1>5. CASE \/ \E boot \in Boots : StartServer(boot)
           \/ StopServer
           \/ CookieGone
           \/ Tick
  BY <1>5, StartSteps, StopSteps, CookieGoneSteps, TickSteps
<1>6. CASE UNCHANGED vars
  <2>1. UNCHANGED <<account, signing, server, users, jar, view, reqs, since, signedIn>>
    BY <1>6 DEF vars, identity, browser, history
  <2>2. QED
    BY <2>1, WorldStays, BrowserStays, NoRequest DEF Inv, World
<1>7. QED
  BY <1>1, <1>2, <1>3, <1>4, <1>5, <1>6 DEF Next

LEMMA SpecInv == Spec => []Inv
<1>1. QED
  BY InvInit, InvStep, PTL DEF Spec

(***************************************************************************)
(* Every variable keeps its type.                                          *)
(***************************************************************************)
THEOREM TypeCorrect == Spec => []TypeOK
<1>1. Inv => TypeOK
  <2> SUFFICES ASSUME Inv PROVE TypeOK
    OBVIOUS
  <2>1. ASSUME NEW r \in Requests PROVE reqs[r] \in RequestStates
    <3>1. RequestOK(reqs[r])
      BY DEF Inv, AllRequests
    <3>2. QED
      BY <3>1 DEF RequestOK, RequestStates
  <2>2. reqs \in [Requests -> RequestStates]
    BY <2>1 DEF Inv, AllRequests
  <2>3. QED
    BY <2>2 DEF Inv, World, Browser, CookieOK, TypeOK
<1>2. QED
  BY <1>1, SpecInv, PTL

(***************************************************************************)
(* Whoever changes a movie is an admin or was one at most a token's        *)
(* lifetime and the leeway ago, though require_movie_admin looks only at   *)
(* the token.                                                              *)
(***************************************************************************)
THEOREM AdminsExpire == Spec => []AdminRightsEnd
<1>1. Inv => AdminRightsEnd
  BY DEF Inv, AllRequests, RequestOK, Idle, AdminRightsEnd
<1>2. QED
  BY <1>1, SpecInv, PTL

(***************************************************************************)
(* A cookie that login_post of this server set is accepted by auth until   *)
(* it expires, behind other cookies that have names, and its user has a    *)
(* row.                                                                    *)
(***************************************************************************)
THEOREM LoginCorrect == Spec => []LoginMeansSignedIn
<1>1. Inv => LoginMeansSignedIn
  <2> SUFFICES ASSUME Inv, signedIn, jar # NoToken
               PROVE  /\ jar.sub \in users
                      /\ jar.left >= -Leeway =>
                           \A others \in OtherCookies \ {<<Nameless>>} :
                             auth(BrowserHeader(others)) = jar
    BY DEF LoginMeansSignedIn
  <2>1. Checked(jar) /\ jar.sub \in users
    BY DEF Inv, Browser
  <2>2. jar.left >= -Leeway => Verified(jar)
    BY <2>1 DEF Checked, Verified
  <2>3. QED
    BY <2>1, <2>2, AuthOfBrowser
<1>2. QED
  BY <1>1, SpecInv, PTL

LEMMA ClickIsOfReader ==
  ASSUME Inv, NEW r \in Requests, NEW others \in OtherCookies,
         PagePost(r, others), reqs' # reqs
  PROVE  \/ reqs'[r].sub \in joined \cup {page}
         \/ page = Guest /\ ~settled
<1>1. ~Verified(NoToken)
  BY DEF Verified
<1>2. auth(BrowserHeader(others)) # NoToken
  BY DEF PagePost
<1>3. Verified(jar) /\ auth(BrowserHeader(others)) = jar /\ jar # NoToken
  BY <1>1, <1>2, AuthOfBrowser
<1>4. Becomes(r, [pc |-> "bookings", sub |-> jar.sub])
  BY <1>3 DEF PagePost
<1>5. reqs'[r].sub = jar.sub
  BY <1>4, Became DEF Inv
<1>6. page \in Users \/ page = Guest
  BY DEF PagePost, Inv, Browser
<1>7. QED
  BY <1>3, <1>5, <1>6 DEF Inv, Browser, PageIsOfJar

(***************************************************************************)
(* A click acts for the user its page names or for one signed in while it  *)
(* was open, through restarts, new keys, ageing and logouts; a guest's     *)
(* page acts for nobody else until a restart, if cookies have names.       *)
(***************************************************************************)
THEOREM ClicksCorrect == Spec => ActsAsShown
<1>1. Inv /\ [Next]_vars =>
        [\A r \in Requests, others \in OtherCookies :
           PagePost(r, others) /\ reqs' # reqs =>
             \/ reqs'[r].sub \in joined \cup {page}
             \/ page = Guest /\ ~settled]_vars
  BY ClickIsOfReader
<1>2. QED
  BY <1>1, SpecInv, PTL DEF Spec, ActsAsShown

-----------------------------------------------------------------------------
(***************************************************************************)
(* How long the browser's session can still last, which is what has to run *)
(* out for EverySessionEnds.                                               *)
(***************************************************************************)
TimeLeft == IF jar = NoToken THEN Dead ELSE jar.left

GivesToken == \E r \in Requests : Deliver(r) /\ jar' # NoToken

SignedOut == \A others \in OtherCookies : auth(BrowserHeader(others)) = NoToken

RunsDown == TimeLeft' <= TimeLeft /\ (Tick => TimeLeft' < TimeLeft \/ TimeLeft = Dead)

LEMMA NoTokenNoTime == ASSUME TypeOK PROVE TimeLeft \in Int /\ TimeLeft >= Dead
BY Lifetimes DEF TypeOK, TimeLeft, Token

LEMMA SessionRunsDown ==
  ASSUME TypeOK, TypeOK', [Next]_vars, ~GivesToken
  PROVE  RunsDown
<1> USE DEF identity, view, browser, history
<1>1. /\ TimeLeft \in Int /\ TimeLeft >= Dead
      /\ TimeLeft' \in Int /\ TimeLeft' >= Dead
  BY NoTokenNoTime, Lifetimes DEF TypeOK, TimeLeft, Token
<1>2. ASSUME jar' = NoToken PROVE RunsDown
  BY <1>1, <1>2, Lifetimes DEF RunsDown, TimeLeft
<1>3. CASE Tick
  <2>1. jar' = Aged(jar) /\ jar \in Token \cup {NoToken}
    BY <1>3 DEF Tick, TypeOK
  <2>2. CASE jar = NoToken
    BY <1>2, <2>1, <2>2 DEF Aged
  <2>3. CASE jar \in Token
    <3>1. jar # NoToken /\ jar' # NoToken
      BY <2>1, <2>3, AgedIsToken, NoTokenAssumption
    <3>2. jar'.left = IF jar.left = Dead THEN Dead ELSE jar.left - 1
      BY <2>1, <2>3, AgedIsToken, NoTokenAssumption
    <3>3. QED
      BY <1>1, <3>1, <3>2 DEF RunsDown, TimeLeft
  <2>4. QED
    BY <2>1, <2>2, <2>3
<1>4. CASE ~Tick /\ jar' = jar
  BY <1>1, <1>4 DEF RunsDown, TimeLeft
<1>5. ~Tick => jar' = jar \/ jar' = NoToken
  <2>1. CASE UNCHANGED vars
    BY <2>1 DEF vars
  <2>2. ASSUME NEW r \in Requests, Deliver(r) PROVE jar' = NoToken
    BY <2>2 DEF GivesToken
  <2>3. CASE Next
    BY <2>2, <2>3 DEF Next, LoginPost, IdentityAccepts, LoginVerify, LoginFinish,
       LoginFails, LoginDropped, LogoutPost, AnswerLost, PagePost, ApiPost,
       MovieWrite, HandlerEnds, SignupPost, Promote, Demote, cinema_index,
       StartServer, StopServer, RotateKey, CookieGone
  <2>4. QED
    BY <2>1, <2>3
<1>6. QED
  BY <1>2, <1>3, <1>4, <1>5

(***************************************************************************)
(* Without a further token, no logout needed: nothing prolongs a session,  *)
(* every tick shortens it, and when no time is left no request of the      *)
(* browser is admitted, whatever the server's key.                         *)
(***************************************************************************)
THEOREM SessionsRunOut ==
  Spec => /\ [][~GivesToken => RunsDown]_vars
          /\ [](TimeLeft = Dead => SignedOut)
<1>1. TypeOK /\ TypeOK' /\ [Next]_vars => [~GivesToken => RunsDown]_vars
  BY SessionRunsDown
<1>2. TimeLeft = Dead => SignedOut
  <2>1. ~Verified(NoToken)
    BY DEF Verified
  <2>2. TimeLeft = Dead => ~Verified(jar)
    BY <2>1, Lifetimes DEF TimeLeft, Verified, Dead
  <2>3. QED
    BY <2>2, AuthOfBrowser DEF SignedOut
<1>3. QED
  BY <1>1, <1>2, TypeCorrect, PTL DEF Spec
=============================================================================
