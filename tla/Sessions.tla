------------------------------ MODULE Sessions ------------------------------
(***************************************************************************)
(* One user's sessions: AuthService and its table of refresh tokens, the   *)
(* web application's middleware and auth actions, and the browser that     *)
(* keeps the cookies.  Tabs send requests at the same time.                *)
(*                                                                         *)
(* A request carries the cookies as they are when it is sent.  The         *)
(* middleware refreshes an access token that is about to expire: the API   *)
(* reads the refresh token, revokes it and reads the role in one           *)
(* transaction, and issues the next pair in another.  New cookies are      *)
(* seen by the page or action behind the middleware (Next merges them into *)
(* the request) and by the browser when the answer arrives.                *)
(*                                                                         *)
(* A cookie that the browser drops at its maxAge and one that carries an   *)
(* expired token are the same to every step, so cookies stay.              *)
(*                                                                         *)
(* An access token is a record of its expiry and of the version of the     *)
(* role's permissions it carries; the API verifies no more than the former.*)
(***************************************************************************)
EXTENDS Integers, FiniteSets

CONSTANTS
    Calls,          \* requests that may be in flight at one time
    AccessTtl,      \* ACCESS_TOKEN_TTL
    RefreshTtl,     \* REFRESH_TOKEN_TTL
    Margin,         \* the middleware refreshes what expires within this time
    Slow,           \* how long a request may take at most
    MaxTokens,      \* bound: refresh tokens ever issued
    MaxRole,        \* bound: changes of the role's permissions
    MaxTime         \* bound: the clock stops there

\* A browser has finitely many tabs.
ASSUME CallsAssumption == IsFiniteSet(Calls)
ASSUME BoundsAssumption == {MaxTokens, MaxRole, MaxTime} \subseteq Nat
\* 15 minutes, 7 days, 60 seconds; a transaction may take 30.
ASSUME TimesAssumption ==
    /\ {AccessTtl, RefreshTtl, Margin, Slow} \subseteq Nat
    /\ Slow < Margin /\ Margin <= AccessTtl /\ AccessTtl < RefreshTtl

VARIABLES
    now,        \* the clock
    role,       \* version of the role's permissions
    changed,    \* version -> when it became the current one
    token,      \* RefreshToken rows
    jar,        \* the browser's cookies
    call,       \* what each request in flight carries, and where it is
    calm,       \* history: no two requests have overlapped
    lost        \* history: a failure has cost the browser its session

vars == <<now, role, changed, token, jar, call, calm, lost>>

Tokens == 1 .. MaxTokens
NoToken == 0
NoAccess == [exp |-> 0, role |-> 0]
\* `session' is the token that the session's login issued.
NoRow == [state |-> "NONE", exp |-> 0, session |-> NoToken]
Cookies == [access : [exp : Nat, role : Nat], refresh : Tokens \cup {NoToken}]
SignedOut == [access |-> NoAccess, refresh |-> NoToken]

\* `has' are the cookies as the page or action sees them, `sets' what the
\* answer makes of the browser's.
Done == [kind |-> "none", at |-> "none", sent |-> 0, has |-> SignedOut, sets |-> {}]

InFlight == {c \in Calls : call[c].at # "none"}
Unused == {k \in Tokens : token[k].state = "NONE"}
Usable(k) == k # NoToken /\ token[k].state = "LIVE" /\ token[k].exp >= now
Moves(c, at) == call' = [call EXCEPT ![c].at = at]

-----------------------------------------------------------------------------
(* The middleware, and AuthService.refresh.                                *)

\* Mutant: a token is refreshed once it has expired.
ExpiredOnly(access) == access.exp < now

\* No token at all is about to expire too.
ExpiringSoon(access) == access.exp < now + Margin

\* A page load, a server action (both "load") or the logout action is sent.
\* One without a usable cookie is redirected to /login at once.
Send(c, kind) ==
    LET refreshes == ExpiringSoon(jar.access) /\ jar.refresh # NoToken
    IN  /\ c \notin InFlight
        /\ Cardinality(Unused) > Cardinality(InFlight)
        /\ refreshes \/ jar.access # NoAccess
        /\ call' = [call EXCEPT ![c] =
               [kind |-> kind, at |-> IF refreshes THEN "refresh" ELSE "serve",
                sent |-> now, has |-> jar, sets |-> {}]]
        /\ calm' = (calm /\ InFlight = {})
        /\ UNCHANGED <<now, role, changed, token, jar, lost>>

\* refresh reads the token.  A denied request is redirected to /login and
\* leaves the cookies alone.
RefreshRead(c) ==
    /\ call[c].at = "refresh"
    /\ Moves(c, IF Usable(call[c].has.refresh) THEN "consume" ELSE "denied")
    /\ UNCHANGED <<now, role, changed, token, jar, calm, lost>>

\* Mutant: the new token inherits the permissions of the old one.
ConsumeKeepsRole(c) ==
    /\ call[c].at = "consume"
    /\ token' = [token EXCEPT ![call[c].has.refresh].state = "REVOKED"]
    /\ call' = [call EXCEPT ![c].at = "issue"]
    /\ UNCHANGED <<now, role, changed, jar, calm, lost>>

\* Mutant: the old token is left as it is.
ConsumeNothing(c) ==
    /\ call[c].at = "consume"
    /\ call' = [call EXCEPT ![c].at = "issue", ![c].has.access.role = role]
    /\ UNCHANGED <<now, role, changed, token, jar, calm, lost>>

\* The update does not ask whether the token has been revoked since; the
\* user and the role are read in the same transaction.
Consume(c) ==
    /\ call[c].at = "consume"
    /\ token' = [token EXCEPT ![call[c].has.refresh].state = "REVOKED"]
    /\ call' = [call EXCEPT ![c].at = "issue", ![c].has.access.role = role]
    /\ UNCHANGED <<now, role, changed, jar, calm, lost>>

NextToken == CHOOSE k \in Unused : \A j \in Unused : k <= j

\* Mutant: the two lifetimes are confused.
PairOfLongLife(version) ==
    [access |-> [exp |-> now + RefreshTtl, role |-> version], refresh |-> NextToken]

\* issueTokens: the pair that a login or a refresh answers.
Pair(version) == [access |-> [exp |-> now + AccessTtl, role |-> version], refresh |-> NextToken]
Stored(session) ==
    [token EXCEPT ![NextToken] = [state |-> "LIVE", exp |-> now + RefreshTtl, session |-> session]]

\* Mutant: the middleware sets the access token's cookie only.
IssueAccessOnly(c) ==
    LET has == call[c].has
        pair == Pair(has.access.role)
    IN  /\ call[c].at = "issue"
        /\ token' = Stored(token[has.refresh].session)
        /\ call' = [call EXCEPT ![c].at = "serve", ![c].has = pair,
                                ![c].sets = {[pair EXCEPT !.refresh = has.refresh]}]
        /\ UNCHANGED <<now, role, changed, jar, calm, lost>>

\* The new token is stored; the middleware sets both cookies.
Issue(c) ==
    LET has == call[c].has
        pair == Pair(has.access.role)
    IN  /\ call[c].at = "issue"
        /\ token' = Stored(token[has.refresh].session)
        /\ call' = [call EXCEPT ![c].at = "serve", ![c].has = pair, ![c].sets = {pair}]
        /\ UNCHANGED <<now, role, changed, jar, calm, lost>>

\* fetch throws, or the API answers with an error: the middleware redirects
\* to /login.  If the token has been consumed, the session is gone.
RefreshFails(c) ==
    /\ \/ call[c].at \in {"refresh", "consume", "issue"}
       \/ call[c].at = "serve" /\ call[c].sets # {}
    /\ call' = [call EXCEPT ![c].at = "denied", ![c].sets = {}]
    /\ lost' = (lost \/ call[c].at \in {"issue", "serve"})
    /\ UNCHANGED <<now, role, changed, token, jar, calm>>

-----------------------------------------------------------------------------
(* Pages, logout and login, and the browser.                               *)

Accepted(access) == now < access.exp

\* The page's calls of the API: all accepted, or the page is an error.
Serve(c) ==
    /\ call[c].kind = "load" /\ call[c].at = "serve"
    /\ Moves(c, IF Accepted(call[c].has.access) THEN "answer" ELSE "refused")
    /\ UNCHANGED <<now, role, changed, token, jar, calm, lost>>

Revoked(k) ==
    [j \in Tokens |-> IF j = k /\ token[j].state = "LIVE"
                      THEN [token[j] EXCEPT !.state = "REVOKED"] ELSE token[j]]

\* Mutant: the token revoked is the one the browser has, not the refreshed one.
LogoutOfSent(c) ==
    /\ call[c].kind = "logout" /\ call[c].at = "serve"
    /\ token' = Revoked(jar.refresh)
    /\ call' = [call EXCEPT ![c].at = "answer", ![c].sets = {SignedOut}]
    /\ UNCHANGED <<now, role, changed, jar, calm, lost>>

\* logoutAction revokes the refresh token it sees, and deletes the cookies.
Logout(c) ==
    /\ call[c].kind = "logout" /\ call[c].at = "serve"
    /\ token' = Revoked(call[c].has.refresh)
    /\ call' = [call EXCEPT ![c].at = "answer", ![c].sets = {SignedOut}]
    /\ UNCHANGED <<now, role, changed, jar, calm, lost>>

\* The API cannot be reached: the cookies go all the same.
LogoutUnheard(c) ==
    /\ call[c].kind = "logout" /\ call[c].at = "serve"
    /\ call' = [call EXCEPT ![c].at = "answer", ![c].sets = {SignedOut}]
    /\ lost' = TRUE
    /\ UNCHANGED <<now, role, changed, token, jar, calm>>

\* loginAction, with the right password; old cookies are not looked at, nor
\* is a session that is still open ended.
Login(c) ==
    /\ c \notin InFlight
    /\ Cardinality(Unused) > Cardinality(InFlight)
    /\ token' = Stored(NextToken)
    /\ call' = [call EXCEPT ![c] = [kind |-> "login", at |-> "answer", sent |-> now,
                                    has |-> Pair(role), sets |-> {Pair(role)}]]
    /\ calm' = (calm /\ InFlight = {})
    /\ UNCHANGED <<now, role, changed, jar, lost>>

\* The answer reaches the browser, which applies its cookies.
Answer(c) ==
    /\ call[c].at \in {"answer", "refused", "denied"}
    /\ jar' = IF call[c].sets = {} THEN jar ELSE CHOOSE s \in call[c].sets : TRUE
    /\ call' = [call EXCEPT ![c] = Done]
    /\ UNCHANGED <<now, role, changed, token, calm, lost>>

\* It never does.
AnswerLost(c) ==
    /\ call[c].at \in {"answer", "refused", "denied"}
    /\ call' = [call EXCEPT ![c] = Done]
    /\ lost' = (lost \/ call[c].sets # {})
    /\ UNCHANGED <<now, role, changed, token, jar, calm>>

\* An administrator changes the permissions of the user's role.
ChangeRole ==
    /\ role < MaxRole
    /\ role' = role + 1
    /\ changed' = [changed EXCEPT ![role + 1] = now]
    /\ UNCHANGED <<now, token, jar, call, calm, lost>>

\* No request is in flight for longer than Slow.
Tick ==
    /\ now < MaxTime
    /\ \A c \in InFlight : now - call[c].sent < Slow
    /\ now' = now + 1
    /\ UNCHANGED <<role, changed, token, jar, call, calm, lost>>

-----------------------------------------------------------------------------
Init ==
    /\ now = 0
    /\ role = 0
    /\ changed = [v \in 0 .. MaxRole |-> 0]
    /\ token = [k \in Tokens |-> NoRow]
    /\ jar = SignedOut
    /\ call = [c \in Calls |-> Done]
    /\ calm = TRUE
    /\ lost = FALSE

Next ==
    \/ Tick \/ ChangeRole
    \/ \E c \in Calls :
        \/ Send(c, "load") \/ Send(c, "logout") \/ Login(c)
        \/ RefreshRead(c) \/ Consume(c) \/ Issue(c) \/ RefreshFails(c)
        \/ Serve(c) \/ Logout(c) \/ LogoutUnheard(c)
        \/ Answer(c) \/ AnswerLost(c)

Spec == Init /\ [][Next]_vars

-----------------------------------------------------------------------------
TypeOK ==
    /\ now \in 0 .. MaxTime /\ role \in 0 .. MaxRole
    /\ changed \in [0 .. MaxRole -> 0 .. MaxTime]
    /\ \A k \in Tokens :
        /\ token[k].state \in {"NONE", "LIVE", "REVOKED"}
        /\ token[k].state # "NONE" => token[k].session \in 1 .. k
    /\ jar \in Cookies /\ jar.access.exp <= now + AccessTtl
    /\ \A c \in Calls :
        /\ call[c].kind \in {"none", "load", "logout", "login"}
        /\ call[c].at \in {"none", "refresh", "consume", "issue", "serve", "answer",
                           "denied", "refused"}
        /\ call[c].has \in Cookies
        /\ Cardinality(call[c].sets) <= 1 /\ call[c].sets \subseteq Cookies
    /\ {calm, lost} \subseteq BOOLEAN

\* However tabs race - two refreshes of one token, a refresh and a logout, a
\* login in another tab - the browser never ends up with a refresh token that
\* was revoked: only a failure half-way, or a lost answer, can leave it so.
JarIsLive ==
    (InFlight = {} /\ ~ lost /\ jar.refresh # NoToken) =>
        token[jar.refresh].state = "LIVE"

\* Tokens are single-use (authentication.md): as long as requests take turns a
\* login is continued by at most one token at a time, failures included.
OneTokenPerSession ==
    calm => \A s \in Tokens :
        Cardinality({k \in Tokens : token[k].session = s /\ token[k].state = "LIVE"}) <= 1

\* What the middleware lets through without a refresh, or with a new token,
\* lives until the page has made its calls: no page is an error because its
\* token expired on the way, whatever other tabs do.
PagesAreServed == \A c \in Calls : call[c].at # "refused"

\* A change of a role's permissions is in force once the access tokens issued
\* before it have expired (ADR 0001: "up to 15 minutes", and the time that a
\* refresh takes between reading the role and signing).
PermissionsCatchUp ==
    [][\A c \in Calls :
        LET v == call[c].has.access.role
        IN  (v < role /\ Serve(c) /\ call'[c].at = "answer") =>
                now < changed[v + 1] + AccessTtl + Slow]_vars

\* A logout that nothing overlaps with ends the session it belongs to, also
\* when the middleware has just rotated its token: nothing of it is left, in
\* the table or in the browser.
LogoutIsFinal ==
    [][\A c \in Calls :
        LET session == token[call[c].has.refresh].session
        IN  (call[c].kind = "logout" /\ call[c].at = "answer" /\ calm /\ ~ lost /\ Answer(c)) =>
                /\ jar' = SignedOut
                /\ \A k \in Tokens : token[k].session = session => token[k].state = "REVOKED"]_vars
=============================================================================
