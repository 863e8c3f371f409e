--------------------------- MODULE SessionsProofs ---------------------------
(***************************************************************************)
(* Proofs about Sessions: for any number of tabs, any lifetimes that       *)
(* respect the order of the ones in the code, any number of tokens and of  *)
(* changes of the role.                                                    *)
(*                                                                         *)
(* The argument is about who holds a token.  Tokens are issued in order,   *)
(* so the issued ones are 1 .. n.  An issued pair is in the hands of the   *)
(* one request that asked for it until its answer reaches the browser, and *)
(* a token leaves the browser's jar alive unless the request that revoked  *)
(* it is still on its way back with other cookies.                         *)
(***************************************************************************)
EXTENDS Sessions, FiniteSetTheorems, TLAPS

Used(k) == token[k].state # "NONE"
Alive(k) == token[k].state = "LIVE"

\* The requests a token is set aside for: they will issue one.
Refreshing == {c \in Calls : call[c].at \in {"refresh", "consume", "issue"}}

\* On its way back with cookies for the browser.
Returning(c) == call[c].sets # {}

Places == {"none", "refresh", "consume", "issue", "serve", "answer", "denied", "refused"}
Row == [state : {"NONE", "LIVE", "REVOKED"}, exp : Nat, session : Nat]
Request == [kind : {"none", "load", "logout", "login"}, at : Places, sent : Nat,
            has : Cookies, sets : SUBSET Cookies]

Types ==
    /\ now \in 0 .. MaxTime /\ role \in 0 .. MaxRole
    /\ changed \in [0 .. MaxRole -> 0 .. MaxTime]
    /\ token \in [Tokens -> Row]
    /\ jar \in Cookies
    /\ call \in [Calls -> Request]
    /\ calm \in BOOLEAN /\ lost \in BOOLEAN

\* The first n tokens have been issued, and there are enough left.
IssuedUpTo(n) ==
    /\ \A k \in Tokens : Used(k) <=> k <= n
    /\ Cardinality(Refreshing) <= MaxTokens - n

Issued == \E n \in 0 .. MaxTokens : IssuedUpTo(n)

\* A token belongs to a session that was opened no later.
SessionsOpened ==
    \A k \in Tokens : token[k].session \in IF Used(k) THEN 1 .. k ELSE {NoToken}

\* Cookies come in pairs, or there are none.
Paired(cookies) ==
    IF cookies.refresh = NoToken THEN cookies = SignedOut ELSE Used(cookies.refresh)

Pairs ==
    /\ Paired(jar)
    /\ \A c \in InFlight : Paired(call[c].has) /\ call[c].has.refresh # NoToken

\* Only a call that has its page's or action's answer to bring sets cookies:
\* the new pair, or none.
Answers ==
    \A c \in Calls :
        /\ call[c].sets \in {{}, {SignedOut}, {call[c].has}}
        /\ call[c].at \notin {"serve", "answer", "refused"} => call[c].sets = {}
        /\ call[c].at = "none" => call[c] = Done

\* Access tokens live AccessTtl from now at most; one that a page is about to
\* use was good for Margin when the page was asked for.
Timely(c) ==
    /\ call[c].sent <= now /\ now <= call[c].sent + Slow
    /\ call[c].has.access.exp <= now + AccessTtl
    /\ call[c].at = "serve" => call[c].has.access.exp >= call[c].sent + Margin
    /\ call[c].at # "refused"

Lifetimes == jar.access.exp <= now + AccessTtl /\ \A c \in InFlight : Timely(c)

\* Access tokens with older permissions than the current ones expire within
\* the time the change allows; one about to be signed was asked for before.
Expires(access) ==
    access.role < role => access.exp <= changed[access.role + 1] + AccessTtl + Slow

Catches(c) ==
    /\ Expires(call[c].has.access)
    /\ (call[c].at = "issue" /\ call[c].has.access.role < role) =>
           call[c].sent <= changed[call[c].has.access.role + 1]

CatchingUp == Expires(jar.access) /\ \A c \in InFlight : Catches(c)

\* The new pair that a call brings back is alive and nobody else's.
Owns(c) ==
    call[c].sets = {call[c].has} =>
        /\ Alive(call[c].has.refresh)
        /\ jar.refresh # call[c].has.refresh
        /\ \A d \in InFlight \ {c} : call[d].has.refresh # call[c].has.refresh

InOneHand == \A c \in Calls : Owns(c)

\* Whoever revokes the browser's token is on the way back with another.
Replaced ==
    lost \/ jar.refresh = NoToken \/ Alive(jar.refresh)
         \/ \E c \in Calls : call[c].at = "issue" \/ Returning(c)

Cut(k) == \A j \in Tokens : token[j].session = token[k].session => ~ Alive(j)

\* As long as requests take turns, a session has one token that lives, or the
\* request that will issue the next one.
OneAlive ==
    \A j, k \in Tokens :
        Alive(j) /\ Alive(k) /\ token[j].session = token[k].session => j = k

Turn(c) ==
    /\ call[c].at = "consume" => Alive(call[c].has.refresh)
    /\ call[c].at = "issue" => Cut(call[c].has.refresh)
    /\ call[c].at = "serve" /\ ~ lost => Alive(call[c].has.refresh)
    /\ call[c].at = "answer" /\ call[c].kind = "logout" /\ ~ lost =>
           Cut(call[c].has.refresh) /\ call[c].sets = {SignedOut}

TakingTurns ==
    calm => (\A c, d \in InFlight : c = d) /\ OneAlive /\ \A c \in InFlight : Turn(c)

Custody ==
    /\ Types /\ Issued /\ SessionsOpened /\ Pairs /\ Answers /\ Lifetimes
    /\ CatchingUp /\ InOneHand /\ Replaced /\ TakingTurns

-----------------------------------------------------------------------------
(* The chosen element of a set of one, and the next token.                 *)

\* The element of a set of one.
LEMMA ChooseOne == ASSUME NEW x PROVE (CHOOSE s \in {x} : TRUE) = x
OBVIOUS

\* Times, and versions, are natural numbers.
LEMMA Bounds ==
  /\ MaxTokens \in Nat /\ MaxRole \in Nat /\ MaxTime \in Nat
  /\ AccessTtl \in Nat /\ RefreshTtl \in Nat /\ Margin \in Nat /\ Slow \in Nat
  /\ Slow < Margin /\ Margin <= AccessTtl /\ AccessTtl < RefreshTtl
BY BoundsAssumption, TimesAssumption

\* The tokens that are left are the ones after the first n.
LEMMA TokensLeft ==
  ASSUME NEW n \in 0 .. MaxTokens, IssuedUpTo(n)
  PROVE  /\ Unused = n + 1 .. MaxTokens
         /\ Cardinality(Unused) = MaxTokens - n
<1>0. MaxTokens \in Nat
  BY Bounds
<1>1. Unused = n + 1 .. MaxTokens
  BY <1>0 DEF Unused, IssuedUpTo, Used, Tokens
<1>2. Cardinality(n + 1 .. MaxTokens) = IF n + 1 > MaxTokens THEN 0 ELSE MaxTokens - (n + 1) + 1
  BY <1>0, FS_Interval
<1>3. QED
  BY <1>0, <1>1, <1>2

\* The next token is the one after the last.
LEMMA NextTokenIs ==
  ASSUME NEW n \in 0 .. MaxTokens, IssuedUpTo(n), n # MaxTokens
  PROVE  NextToken = n + 1 /\ n + 1 \in Tokens /\ ~ Used(n + 1)
<1>0. MaxTokens \in Nat
  BY Bounds
<1>1. Unused = n + 1 .. MaxTokens
  BY TokensLeft
<1>2. n + 1 \in Unused /\ \A j \in Unused : n + 1 <= j
  BY <1>0, <1>1
<1>3. \A k \in Unused : (\A j \in Unused : k <= j) => k = n + 1
  BY <1>0, <1>1, <1>2
<1>4. NextToken = n + 1
  BY <1>2, <1>3 DEF NextToken
<1>5. QED
  BY <1>0, <1>2, <1>4 DEF Unused, Tokens, Used

\* Requests in flight are finitely many.
LEMMA FinitelyMany ==
  /\ IsFiniteSet(InFlight) /\ Cardinality(InFlight) \in Nat
  /\ IsFiniteSet(Refreshing) /\ Cardinality(Refreshing) \in Nat
  /\ Cardinality(Refreshing) <= Cardinality(InFlight)
<1>1. InFlight \in SUBSET Calls /\ Refreshing \in SUBSET InFlight
  BY DEF InFlight, Refreshing
<1>2. IsFiniteSet(InFlight)
  BY <1>1, CallsAssumption, FS_Subset
<1>3. IsFiniteSet(Refreshing) /\ Cardinality(Refreshing) <= Cardinality(InFlight)
  BY <1>1, <1>2, FS_Subset
<1>4. QED
  BY <1>2, <1>3, FS_CardinalityType

-----------------------------------------------------------------------------
(* What a step makes of the call it is about.                              *)

Becomes(c, r) == call' = [call EXCEPT ![c] = r]

\* A call replaced by another request; the others stay.
LEMMA Became ==
  ASSUME call \in [Calls -> Request], NEW c \in Calls, NEW r \in Request, Becomes(c, r)
  PROVE  /\ call' \in [Calls -> Request]
         /\ call'[c] = r
         /\ \A d \in Calls \ {c} : call'[d] = call[d]
BY DEF Becomes

\* The fields of a request.
LEMMA RequestFields ==
  ASSUME call \in [Calls -> Request], NEW c \in Calls
  PROVE  /\ call[c] \in Request
         /\ call[c].kind \in {"none", "load", "logout", "login"}
         /\ call[c].at \in Places
         /\ call[c].sent \in Nat
         /\ call[c].has \in Cookies
         /\ call[c].sets \in SUBSET Cookies
         /\ call[c] = [kind |-> call[c].kind, at |-> call[c].at, sent |-> call[c].sent,
                       has |-> call[c].has, sets |-> call[c].sets]
<1>1. call[c] \in Request
  OBVIOUS
<1>2. QED
  BY <1>1 DEF Request

\* The fields of a browser's cookies.
LEMMA CookieFields ==
  ASSUME NEW x \in Cookies
  PROVE  /\ x.access \in [exp : Nat, role : Nat]
         /\ x.access.exp \in Nat /\ x.access.role \in Nat
         /\ x.refresh \in Tokens \cup {NoToken}
         /\ x = [access |-> x.access, refresh |-> x.refresh]
         /\ x.access = [exp |-> x.access.exp, role |-> x.access.role]
BY DEF Cookies

\* No cookies at all.
LEMMA SignedOutFields ==
  /\ SignedOut \in Cookies /\ SignedOut.refresh = NoToken
  /\ SignedOut.access = NoAccess /\ NoAccess.exp = 0 /\ NoAccess.role = 0
BY DEF SignedOut, NoAccess, Cookies, NoToken

\* No request at all.
LEMMA DoneFields ==
  /\ Done \in Request /\ Done.kind = "none" /\ Done.at = "none" /\ Done.sent = 0
  /\ Done.has = SignedOut /\ Done.sets = {}
BY SignedOutFields DEF Done, Request, Places

MovesSetting(c, at, sets) == call' = [call EXCEPT ![c].at = at, ![c].sets = sets]

\* A step that only moves a call on, or also changes what it sets.
LEMMA MovesOn ==
  ASSUME call \in [Calls -> Request], NEW c \in Calls, NEW at \in Places,
         NEW sets \in SUBSET Cookies, MovesSetting(c, at, sets)
  PROVE  /\ call' \in [Calls -> Request]
         /\ call'[c].kind = call[c].kind /\ call'[c].at = at
         /\ call'[c].sent = call[c].sent /\ call'[c].has = call[c].has
         /\ call'[c].sets = sets
         /\ \A d \in Calls \ {c} : call'[d] = call[d]
<1> DEFINE r == [call[c] EXCEPT !.at = at, !.sets = sets]
<1>1. /\ r.kind = call[c].kind /\ r.at = at /\ r.sent = call[c].sent
      /\ r.has = call[c].has /\ r.sets = sets /\ r \in Request
  BY RequestFields DEF Request
<1>2. Becomes(c, r)
  BY DEF Becomes, MovesSetting
<1> HIDE DEF r
<1>3. QED
  BY <1>1, <1>2, Became

\* A step that only moves a call on.
LEMMA JustMoves ==
  ASSUME call \in [Calls -> Request], NEW c \in Calls, NEW at \in Places, Moves(c, at)
  PROVE  /\ call' \in [Calls -> Request]
         /\ call'[c].kind = call[c].kind /\ call'[c].at = at
         /\ call'[c].sent = call[c].sent /\ call'[c].has = call[c].has
         /\ call'[c].sets = call[c].sets
         /\ \A d \in Calls \ {c} : call'[d] = call[d]
<1> DEFINE r == [call[c] EXCEPT !.at = at]
<1>1. /\ r.kind = call[c].kind /\ r.at = at /\ r.sent = call[c].sent
      /\ r.has = call[c].has /\ r.sets = call[c].sets /\ r \in Request
  BY RequestFields DEF Request
<1>2. Becomes(c, r)
  BY DEF Becomes, Moves
<1> HIDE DEF r
<1>3. QED
  BY <1>1, <1>2, Became

-----------------------------------------------------------------------------
(* What each action changes.                                               *)

Others(c) == call' \in [Calls -> Request] /\ \A d \in Calls \ {c} : call'[d] = call[d]

\* Token k is revoked, if it was issued.
Revokes(k) ==
    /\ token' \in [Tokens -> Row]
    /\ \A j \in Tokens :
        /\ token'[j].session = token[j].session
        /\ token'[j].state = IF j = k /\ Used(j) THEN "REVOKED" ELSE token[j].state

\* Token k is stored.
Stores(k, session) ==
    /\ token' \in [Tokens -> Row]
    /\ token'[k].state = "LIVE" /\ token'[k].session = session
    /\ \A j \in Tokens \ {k} : token'[j] = token[j]

\* A request carries the browser's cookies, and none is sent without a refresh token.
LEMMA SendEffect ==
  ASSUME Types, Pairs, NEW c \in Calls, NEW kind \in {"load", "logout"}, Send(c, kind)
  PROVE  /\ c \notin InFlight /\ Cardinality(Unused) > Cardinality(InFlight)
         /\ Others(c)
         /\ call'[c].kind = kind /\ call'[c].at \in {"refresh", "serve"}
         /\ call'[c].sent = now /\ call'[c].has = jar /\ call'[c].sets = {}
         /\ jar.refresh # NoToken
         /\ call'[c].at = "serve" => jar.access.exp >= now + Margin
         /\ calm' = (calm /\ InFlight = {})
         /\ UNCHANGED <<now, role, changed, token, jar, lost>>
<1> DEFINE at == IF ExpiringSoon(jar.access) /\ jar.refresh # NoToken THEN "refresh" ELSE "serve"
           r == [kind |-> kind, at |-> at, sent |-> now, has |-> jar, sets |-> {}]
<1>1. jar \in Cookies /\ now \in Nat
  BY Bounds DEF Types
<1>2. r \in Request /\ at \in {"refresh", "serve"}
  BY <1>1 DEF Request, Places
<1>3. Becomes(c, r)
  BY DEF Send, Becomes
<1>4. /\ r.kind = kind /\ r.at = at /\ r.sent = now /\ r.has = jar /\ r.sets = {}
  OBVIOUS
<1>5. jar.refresh # NoToken
  BY SignedOutFields DEF Send, Pairs, Paired
<1>6. at = "serve" => jar.access.exp >= now + Margin
  <2>1. jar.access.exp \in Nat /\ Margin \in Nat
    BY <1>1, CookieFields, Bounds
  <2>2. at = "serve" => ~ ExpiringSoon(jar.access)
    BY <1>5
  <2>3. QED
    BY <1>1, <2>1, <2>2 DEF ExpiringSoon
<1>7. Others(c) /\ call'[c] = r
  <2> HIDE DEF r
  <2>1. QED
    BY <1>2, <1>3, Became DEF Types, Others
<1>8. QED
  BY <1>2, <1>4, <1>5, <1>6, <1>7 DEF Send

\* The refresh goes on only with a token that lives.
LEMMA RefreshReadEffect ==
  ASSUME Types, NEW c \in Calls, RefreshRead(c)
  PROVE  /\ call[c].at = "refresh" /\ Others(c)
         /\ call'[c].at \in {"consume", "denied"}
         /\ call'[c].at = "consume" => Alive(call[c].has.refresh)
         /\ call'[c].kind = call[c].kind /\ call'[c].sent = call[c].sent
         /\ call'[c].has = call[c].has /\ call'[c].sets = call[c].sets
         /\ UNCHANGED <<now, role, changed, token, jar, calm, lost>>
<1> DEFINE at == IF Usable(call[c].has.refresh) THEN "consume" ELSE "denied"
<1>1. at \in Places /\ Moves(c, at) /\ call \in [Calls -> Request]
  BY DEF RefreshRead, Places, Types
<1>2. Others(c) /\ call'[c].at = at /\ call'[c].kind = call[c].kind
      /\ call'[c].sent = call[c].sent /\ call'[c].has = call[c].has
      /\ call'[c].sets = call[c].sets
  <2> HIDE DEF at
  <2>1. QED
    BY <1>1, JustMoves DEF Others
<1>3. at \in {"consume", "denied"} /\ (at = "consume" => Alive(call[c].has.refresh))
  BY DEF Usable, Alive
<1>4. QED
  BY <1>2, <1>3 DEF RefreshRead

\* The token is revoked and the role read.
LEMMA ConsumeEffect ==
  ASSUME Types, Pairs, NEW c \in Calls, Consume(c)
  PROVE  /\ call[c].at = "consume" /\ Others(c)
         /\ call'[c].at = "issue"
         /\ call'[c].kind = call[c].kind /\ call'[c].sent = call[c].sent
         /\ call'[c].sets = call[c].sets
         /\ call'[c].has.refresh = call[c].has.refresh
         /\ call'[c].has.access.exp = call[c].has.access.exp
         /\ call'[c].has.access.role = role
         /\ call'[c].has \in Cookies
         /\ Revokes(call[c].has.refresh)
         /\ UNCHANGED <<now, role, changed, jar, calm, lost>>
<1> DEFINE old == call[c]
           h == [access |-> [exp |-> old.has.access.exp, role |-> role],
                 refresh |-> old.has.refresh]
           r == [kind |-> old.kind, at |-> "issue", sent |-> old.sent, has |-> h,
                 sets |-> old.sets]
           k == old.has.refresh
<1>1. old \in Request /\ old.has \in Cookies /\ old.sets \in SUBSET Cookies
      /\ old.kind \in {"none", "load", "logout", "login"} /\ old.sent \in Nat
  BY RequestFields DEF Types
<1>2. role \in Nat
  BY Bounds DEF Types
<1>3. h \in Cookies
  BY <1>1, <1>2, CookieFields DEF Cookies
<1>4. r \in Request
  BY <1>1, <1>3 DEF Request, Places
<1>5. [old EXCEPT !.at = "issue", !.has.access.role = role] = r
  <2>1. old = [kind |-> old.kind, at |-> old.at, sent |-> old.sent, has |-> old.has,
               sets |-> old.sets]
    BY RequestFields DEF Types
  <2>2. old.has = [access |-> [exp |-> old.has.access.exp, role |-> old.has.access.role],
                   refresh |-> old.has.refresh]
    BY <1>1, CookieFields
  <2>3. [old EXCEPT !.at = "issue", !.has.access.role = role]
          = [kind |-> old.kind, at |-> "issue", sent |-> old.sent,
             has |-> [old.has EXCEPT !.access.role = role], sets |-> old.sets]
    <3> DEFINE q == [old EXCEPT !.at = "issue"]
    <3>1. q = [kind |-> old.kind, at |-> "issue", sent |-> old.sent, has |-> old.has,
               sets |-> old.sets]
      BY <2>1
    <3>2. [old EXCEPT !.at = "issue", !.has.access.role = role]
            = [q EXCEPT !.has.access.role = role]
      OBVIOUS
    <3> HIDE DEF q
    <3>3. [q EXCEPT !.has.access.role = role]
            = [kind |-> old.kind, at |-> "issue", sent |-> old.sent,
               has |-> [old.has EXCEPT !.access.role = role], sets |-> old.sets]
      BY <3>1
    <3>4. QED
      BY <3>2, <3>3
  <2>4. [old.has EXCEPT !.access.role = role] = h
    BY <2>2
  <2>5. QED
    BY <2>3, <2>4
<1>6. Becomes(c, r)
  BY <1>5 DEF Becomes, Consume
<1>7. Others(c) /\ call'[c] = r
  <2> HIDE DEF r
  <2>1. QED
    BY <1>4, <1>6, Became DEF Types, Others
<1>8. call[c].at = "consume" /\ c \in InFlight
  BY DEF Consume, InFlight
<1>9. k \in Tokens /\ Used(k)
  BY <1>1, <1>8, CookieFields DEF Pairs, Paired
<1>10. token' = [token EXCEPT ![k].state = "REVOKED"] /\ token \in [Tokens -> Row]
  BY DEF Consume, Types
<1>11. Revokes(k)
  BY <1>9, <1>10 DEF Revokes, Row
<1>12. /\ h.refresh = k /\ h.access.exp = old.has.access.exp /\ h.access.role = role
       /\ r.kind = old.kind /\ r.at = "issue" /\ r.sent = old.sent /\ r.has = h
       /\ r.sets = old.sets
  OBVIOUS
<1>13. UNCHANGED <<now, role, changed, jar, calm, lost>>
  BY DEF Consume
<1> HIDE DEF r, h
<1>14. QED
  BY <1>3, <1>7, <1>8, <1>11, <1>12, <1>13

\* A request that will issue a pair finds a token left.
LEMMA OneLeft ==
  ASSUME NEW n \in 0 .. MaxTokens, IssuedUpTo(n), NEW c \in Refreshing
  PROVE  n # MaxTokens
<1>1. Cardinality(Refreshing) # 0 /\ Cardinality(Refreshing) \in Nat
  BY FinitelyMany, FS_EmptySet
<1>2. QED
  BY <1>1, Bounds DEF IssuedUpTo

\* The pair that is issued when n tokens have been.
LEMMA PairFields ==
  ASSUME Types, NEW n \in 0 .. MaxTokens, IssuedUpTo(n), n # MaxTokens,
         NEW version \in Nat
  PROVE  /\ Pair(version) \in Cookies
         /\ Pair(version).refresh = n + 1
         /\ Pair(version).access.exp = now + AccessTtl
         /\ Pair(version).access.role = version
<1>1. NextToken = n + 1 /\ n + 1 \in Tokens
  BY NextTokenIs
<1>2. now + AccessTtl \in Nat
  BY Bounds DEF Types
<1>3. QED
  BY <1>1, <1>2 DEF Pair, Cookies

\* The row of the next token.
LEMMA StoredToken ==
  ASSUME Types, NEW n \in 0 .. MaxTokens, IssuedUpTo(n), n # MaxTokens,
         NEW session \in Nat, token' = Stored(session)
  PROVE  n + 1 \in Tokens /\ ~ Used(n + 1) /\ Stores(n + 1, session)
<1>1. NextToken = n + 1 /\ n + 1 \in Tokens /\ ~ Used(n + 1)
  BY NextTokenIs
<1>2. now + RefreshTtl \in Nat
  BY Bounds DEF Types
<1>3. token \in [Tokens -> Row]
  BY DEF Types
<1>4. [state |-> "LIVE", exp |-> now + RefreshTtl, session |-> session] \in Row
  BY <1>2 DEF Row
<1>5. QED
  BY <1>1, <1>3, <1>4 DEF Stored, Stores

\* The new pair replaces what the request had, and is what it will bring back.
LEMMA IssueEffect ==
  ASSUME Types, Pairs, NEW n \in 0 .. MaxTokens, IssuedUpTo(n), NEW c \in Calls, Issue(c)
  PROVE  /\ call[c].at = "issue" /\ n + 1 \in Tokens /\ ~ Used(n + 1)
         /\ Others(c)
         /\ call'[c].at = "serve"
         /\ call'[c].kind = call[c].kind /\ call'[c].sent = call[c].sent
         /\ call'[c].has \in Cookies /\ call'[c].has.refresh = n + 1
         /\ call'[c].has.access.exp = now + AccessTtl
         /\ call'[c].has.access.role = call[c].has.access.role
         /\ call'[c].sets = {call'[c].has}
         /\ call[c].has.refresh \in Tokens
         /\ Stores(n + 1, token[call[c].has.refresh].session)
         /\ UNCHANGED <<now, role, changed, jar, calm, lost>>
<1> DEFINE old == call[c]
           pair == Pair(old.has.access.role)
           r == [kind |-> old.kind, at |-> "serve", sent |-> old.sent, has |-> pair,
                 sets |-> {pair}]
<1>1. /\ old \in Request /\ old.has \in Cookies /\ old.sent \in Nat
      /\ old.kind \in {"none", "load", "logout", "login"}
      /\ old = [kind |-> old.kind, at |-> old.at, sent |-> old.sent, has |-> old.has,
                sets |-> old.sets]
  BY RequestFields DEF Types
<1>2. old.at = "issue" /\ c \in Refreshing /\ c \in InFlight
  BY DEF Issue, Refreshing, InFlight
<1>3. n # MaxTokens
  BY <1>2, OneLeft
<1>4. old.has.access.role \in Nat /\ old.has.refresh \in Tokens
  BY <1>1, <1>2, CookieFields DEF Pairs
<1>5. token[old.has.refresh].session \in Nat
  BY <1>4 DEF Types, Row
<1>6. /\ pair \in Cookies /\ pair.refresh = n + 1 /\ pair.access.exp = now + AccessTtl
      /\ pair.access.role = old.has.access.role
  BY <1>3, <1>4, PairFields
<1>7. n + 1 \in Tokens /\ ~ Used(n + 1) /\ Stores(n + 1, token[old.has.refresh].session)
  BY <1>3, <1>5, StoredToken DEF Issue
<1>8. UNCHANGED <<now, role, changed, jar, calm, lost>>
  BY DEF Issue
<1>9. call' = [call EXCEPT ![c].at = "serve", ![c].has = pair, ![c].sets = {pair}]
  BY DEF Issue
<1> HIDE DEF pair
<1>10. Becomes(c, r)
  <2>1. [old EXCEPT !.at = "serve", !.has = pair, !.sets = {pair}] = r
    <3> DEFINE q == [old EXCEPT !.at = "serve"]
               p == [q EXCEPT !.has = pair]
    <3>1. [old EXCEPT !.at = "serve", !.has = pair, !.sets = {pair}] = [p EXCEPT !.sets = {pair}]
      OBVIOUS
    <3>2. q = [kind |-> old.kind, at |-> "serve", sent |-> old.sent, has |-> old.has,
               sets |-> old.sets]
      BY <1>1
    <3> HIDE DEF q
    <3>3. p = [kind |-> old.kind, at |-> "serve", sent |-> old.sent, has |-> pair,
               sets |-> old.sets]
      BY <3>2
    <3> HIDE DEF p
    <3>4. [p EXCEPT !.sets = {pair}] = r
      BY <3>3
    <3>5. QED
      BY <3>1, <3>4
  <2>2. call' = [call EXCEPT ![c] = [old EXCEPT !.at = "serve", !.has = pair, !.sets = {pair}]]
    BY <1>9
  <2> HIDE DEF r
  <2>3. QED
    BY <2>1, <2>2 DEF Becomes
<1>11. r \in Request
  BY <1>1, <1>6 DEF Request, Places
<1>12. r.kind = old.kind /\ r.at = "serve" /\ r.sent = old.sent /\ r.has = pair
       /\ r.sets = {pair}
  OBVIOUS
<1> HIDE DEF r
<1>13. Others(c) /\ call'[c] = r
  BY <1>10, <1>11, Became DEF Types, Others
<1>14. QED
  BY <1>2, <1>4, <1>6, <1>7, <1>8, <1>12, <1>13

\* A login brings back the first pair of a new session.
LEMMA LoginEffect ==
  ASSUME Types, NEW n \in 0 .. MaxTokens, IssuedUpTo(n), NEW c \in Calls, Login(c)
  PROVE  /\ c \notin InFlight /\ Cardinality(Unused) > Cardinality(InFlight)
         /\ n + 1 \in Tokens /\ ~ Used(n + 1)
         /\ Others(c)
         /\ call'[c].kind = "login" /\ call'[c].at = "answer" /\ call'[c].sent = now
         /\ call'[c].has \in Cookies /\ call'[c].has.refresh = n + 1
         /\ call'[c].has.access.exp = now + AccessTtl
         /\ call'[c].has.access.role = role
         /\ call'[c].sets = {call'[c].has}
         /\ Stores(n + 1, n + 1)
         /\ calm' = (calm /\ InFlight = {})
         /\ UNCHANGED <<now, role, changed, jar, lost>>
<1> DEFINE pair == Pair(role)
           r == [kind |-> "login", at |-> "answer", sent |-> now, has |-> pair, sets |-> {pair}]
<1>1. now \in Nat /\ role \in Nat
  BY Bounds DEF Types
<1>2. Cardinality(Unused) > Cardinality(InFlight) /\ c \notin InFlight
  BY DEF Login
<1>3. n # MaxTokens
  BY <1>2, TokensLeft, FinitelyMany, Bounds
<1>4. /\ pair \in Cookies /\ pair.refresh = n + 1 /\ pair.access.exp = now + AccessTtl
      /\ pair.access.role = role
  BY <1>1, <1>3, PairFields
<1>5. NextToken = n + 1
  BY <1>3, NextTokenIs
<1>6. n + 1 \in Tokens /\ ~ Used(n + 1) /\ Stores(n + 1, n + 1)
  BY <1>3, <1>5, StoredToken DEF Login
<1>7. UNCHANGED <<now, role, changed, jar, lost>> /\ calm' = (calm /\ InFlight = {})
  BY DEF Login
<1>8. Becomes(c, r)
  BY DEF Becomes, Login
<1> HIDE DEF pair
<1>9. r \in Request
  BY <1>1, <1>4 DEF Request, Places
<1>10. r.kind = "login" /\ r.at = "answer" /\ r.sent = now /\ r.has = pair /\ r.sets = {pair}
  OBVIOUS
<1> HIDE DEF r
<1>11. Others(c) /\ call'[c] = r
  BY <1>8, <1>9, Became DEF Types, Others
<1>12. QED
  BY <1>2, <1>4, <1>6, <1>7, <1>10, <1>11

\* A refresh that fails brings nothing back.
LEMMA RefreshFailsEffect ==
  ASSUME Types, NEW c \in Calls, RefreshFails(c)
  PROVE  /\ \/ call[c].at \in {"refresh", "consume", "issue"}
            \/ call[c].at = "serve" /\ call[c].sets # {}
         /\ Others(c)
         /\ call'[c].at = "denied" /\ call'[c].sets = {}
         /\ call'[c].kind = call[c].kind /\ call'[c].sent = call[c].sent
         /\ call'[c].has = call[c].has
         /\ lost' = (lost \/ call[c].at \in {"issue", "serve"})
         /\ UNCHANGED <<now, role, changed, token, jar, calm>>
<1> DEFINE new == {}
<1>1. call \in [Calls -> Request] /\ "denied" \in Places /\ new \in SUBSET Cookies
      /\ MovesSetting(c, "denied", new)
  BY SignedOutFields DEF RefreshFails, Types, Places, MovesSetting
<1> HIDE DEF new
<1>2. /\ Others(c)
      /\ call'[c].kind = call[c].kind /\ call'[c].at = "denied"
      /\ call'[c].sent = call[c].sent /\ call'[c].has = call[c].has
      /\ call'[c].sets = new
  BY <1>1, MovesOn DEF Others
<1>3. QED
  BY <1>2 DEF new, RefreshFails

\* The page's calls are accepted as long as the access token lives.
LEMMA ServeEffect ==
  ASSUME Types, NEW c \in Calls, Serve(c)
  PROVE  /\ call[c].at = "serve" /\ call[c].kind = "load" /\ Others(c)
         /\ call'[c].at = IF now < call[c].has.access.exp THEN "answer" ELSE "refused"
         /\ call'[c].kind = call[c].kind /\ call'[c].sent = call[c].sent
         /\ call'[c].has = call[c].has /\ call'[c].sets = call[c].sets
         /\ UNCHANGED <<now, role, changed, token, jar, calm, lost>>
<1> DEFINE at == IF now < call[c].has.access.exp THEN "answer" ELSE "refused"
<1>1. at \in Places /\ Moves(c, at) /\ call \in [Calls -> Request]
  BY DEF Serve, Accepted, Places, Types
<1>2. Others(c) /\ call'[c].at = at /\ call'[c].kind = call[c].kind
      /\ call'[c].sent = call[c].sent /\ call'[c].has = call[c].has
      /\ call'[c].sets = call[c].sets
  <2> HIDE DEF at
  <2>1. QED
    BY <1>1, JustMoves DEF Others
<1>3. QED
  BY <1>2 DEF Serve

\* A logout revokes the token it has and brings back no cookies.
LEMMA LogoutEffect ==
  ASSUME Types, Pairs, NEW c \in Calls, Logout(c)
  PROVE  /\ call[c].at = "serve" /\ call[c].kind = "logout" /\ Others(c)
         /\ call'[c].at = "answer" /\ call'[c].sets = {SignedOut}
         /\ call'[c].kind = call[c].kind /\ call'[c].sent = call[c].sent
         /\ call'[c].has = call[c].has
         /\ Revokes(call[c].has.refresh)
         /\ UNCHANGED <<now, role, changed, jar, calm, lost>>
<1>1. /\ Others(c) /\ call'[c].at = "answer" /\ call'[c].sets = {SignedOut}
      /\ call'[c].kind = call[c].kind /\ call'[c].sent = call[c].sent
      /\ call'[c].has = call[c].has
  <2> DEFINE new == {SignedOut}
  <2>1. call \in [Calls -> Request] /\ "answer" \in Places /\ new \in SUBSET Cookies
        /\ MovesSetting(c, "answer", new)
    BY SignedOutFields DEF Logout, Types, Places, MovesSetting
  <2> HIDE DEF new
  <2>2. /\ Others(c)
        /\ call'[c].kind = call[c].kind /\ call'[c].at = "answer"
        /\ call'[c].sent = call[c].sent /\ call'[c].has = call[c].has
        /\ call'[c].sets = new
    BY <2>1, MovesOn DEF Others
  <2>3. QED
    BY <2>2 DEF new
<1>2. Revokes(call[c].has.refresh)
  <2> DEFINE k == call[c].has.refresh
  <2>1. token' = Revoked(k) /\ token \in [Tokens -> Row]
    BY DEF Logout, Types
  <2> HIDE DEF k
  <2>2. \A j \in Tokens : token'[j] = IF j = k /\ token[j].state = "LIVE"
                                      THEN [token[j] EXCEPT !.state = "REVOKED"] ELSE token[j]
    BY <2>1 DEF Revoked
  <2>3. ASSUME NEW j \in Tokens
        PROVE  /\ token'[j] \in Row /\ token'[j].session = token[j].session
               /\ token'[j].state = IF j = k /\ Used(j) THEN "REVOKED" ELSE token[j].state
    BY <2>1, <2>2 DEF Row, Used
  <2>4. token' \in [Tokens -> Row]
    BY <2>1, <2>3 DEF Revoked
  <2>5. Revokes(k)
    BY <2>3, <2>4 DEF Revokes
  <2>6. QED
    BY <2>5 DEF k
<1>3. QED
  BY <1>1, <1>2 DEF Logout

\* A logout the API does not hear of only brings back no cookies.
LEMMA LogoutUnheardEffect ==
  ASSUME Types, NEW c \in Calls, LogoutUnheard(c)
  PROVE  /\ call[c].at = "serve" /\ call[c].kind = "logout" /\ Others(c)
         /\ call'[c].at = "answer" /\ call'[c].sets = {SignedOut}
         /\ call'[c].kind = call[c].kind /\ call'[c].sent = call[c].sent
         /\ call'[c].has = call[c].has
         /\ lost' = TRUE
         /\ UNCHANGED <<now, role, changed, token, jar, calm>>
<1> DEFINE new == {SignedOut}
<1>1. call \in [Calls -> Request] /\ "answer" \in Places /\ new \in SUBSET Cookies
      /\ MovesSetting(c, "answer", new)
  BY SignedOutFields DEF LogoutUnheard, Types, Places, MovesSetting
<1> HIDE DEF new
<1>2. /\ Others(c)
      /\ call'[c].kind = call[c].kind /\ call'[c].at = "answer"
      /\ call'[c].sent = call[c].sent /\ call'[c].has = call[c].has
      /\ call'[c].sets = new
  BY <1>1, MovesOn DEF Others
<1>3. QED
  BY <1>2 DEF new, LogoutUnheard

\* A request that is over.
LEMMA Gone ==
  ASSUME Types, NEW c \in Calls, call' = [call EXCEPT ![c] = Done]
  PROVE  Others(c) /\ call'[c] = Done
BY DoneFields, Became DEF Becomes, Others, Types

\* The browser takes what the request brings.
LEMMA AnswerEffect ==
  ASSUME Types, Answers, NEW c \in Calls, Answer(c)
  PROVE  /\ call[c].at \in {"answer", "refused", "denied"}
         /\ Others(c) /\ call'[c] = Done
         /\ \/ call[c].sets = {} /\ jar' = jar
            \/ call[c].sets = {SignedOut} /\ jar' = SignedOut
            \/ call[c].sets = {call[c].has} /\ jar' = call[c].has
         /\ UNCHANGED <<now, role, changed, token, calm, lost>>
<1>1. Others(c) /\ call'[c] = Done
  BY Gone DEF Answer
<1>2. \A s : call[c].sets = {s} => jar' = s
  BY ChooseOne DEF Answer
<1>3. call[c].sets \in {{}, {SignedOut}, {call[c].has}}
  BY DEF Answers
<1>4. QED
  BY <1>1, <1>2, <1>3 DEF Answer

\* The browser never gets it.
LEMMA AnswerLostEffect ==
  ASSUME Types, NEW c \in Calls, AnswerLost(c)
  PROVE  /\ call[c].at \in {"answer", "refused", "denied"}
         /\ Others(c) /\ call'[c] = Done
         /\ lost' = (lost \/ call[c].sets # {})
         /\ UNCHANGED <<now, role, changed, token, jar, calm>>
BY Gone DEF AnswerLost

\* In a state of the invariant the token that is issued is a later one than
\* all before.
LEMMA IssueStep ==
  ASSUME Custody, NEW c \in Calls, Issue(c)
  PROVE  LET k == call'[c].has.refresh
         IN  /\ call[c].at = "issue" /\ Others(c)
             /\ call'[c].at = "serve"
             /\ call'[c].kind = call[c].kind /\ call'[c].sent = call[c].sent
             /\ call'[c].has \in Cookies
             /\ call'[c].has.access.exp = now + AccessTtl
             /\ call'[c].has.access.role = call[c].has.access.role
             /\ call'[c].sets = {call'[c].has}
             /\ k \in Tokens /\ ~ Used(k) /\ \A j \in Tokens : Used(j) => j < k
             /\ call[c].has.refresh \in Tokens /\ Used(call[c].has.refresh)
             /\ Stores(k, token[call[c].has.refresh].session)
             /\ UNCHANGED <<now, role, changed, jar, calm, lost>>
<1>1. PICK n \in 0 .. MaxTokens : IssuedUpTo(n)
  BY DEF Custody, Issued
<1>2. n \in Nat /\ Tokens \subseteq Nat
  BY Bounds DEF Tokens
<1>3. \A j \in Tokens : Used(j) => j < n + 1
  BY <1>1, <1>2 DEF IssuedUpTo
<1>4. /\ call[c].at = "issue" /\ Others(c)
      /\ call'[c].at = "serve"
      /\ call'[c].kind = call[c].kind /\ call'[c].sent = call[c].sent
      /\ call'[c].has \in Cookies /\ call'[c].has.refresh = n + 1
      /\ call'[c].has.access.exp = now + AccessTtl
      /\ call'[c].has.access.role = call[c].has.access.role
      /\ call'[c].sets = {call'[c].has}
      /\ n + 1 \in Tokens /\ ~ Used(n + 1)
      /\ call[c].has.refresh \in Tokens
      /\ Stores(n + 1, token[call[c].has.refresh].session)
      /\ UNCHANGED <<now, role, changed, jar, calm, lost>>
  BY <1>1, IssueEffect DEF Custody
<1>5. c \in InFlight
  BY <1>4 DEF InFlight
<1>6. Used(call[c].has.refresh)
  BY <1>5 DEF Custody, Pairs, Paired
<1>7. QED
  BY <1>3, <1>4, <1>6

\* The same of a login.
LEMMA LoginStep ==
  ASSUME Custody, NEW c \in Calls, Login(c)
  PROVE  LET k == call'[c].has.refresh
         IN  /\ c \notin InFlight /\ Others(c)
             /\ call'[c].kind = "login" /\ call'[c].at = "answer" /\ call'[c].sent = now
             /\ call'[c].has \in Cookies
             /\ call'[c].has.access.exp = now + AccessTtl
             /\ call'[c].has.access.role = role
             /\ call'[c].sets = {call'[c].has}
             /\ k \in Tokens /\ ~ Used(k) /\ \A j \in Tokens : Used(j) => j < k
             /\ Stores(k, k)
             /\ calm' = (calm /\ InFlight = {})
             /\ UNCHANGED <<now, role, changed, jar, lost>>
<1>1. PICK n \in 0 .. MaxTokens : IssuedUpTo(n)
  BY DEF Custody, Issued
<1>2. n \in Nat /\ Tokens \subseteq Nat
  BY Bounds DEF Tokens
<1>3. \A j \in Tokens : Used(j) => j < n + 1
  BY <1>1, <1>2 DEF IssuedUpTo
<1>4. /\ c \notin InFlight /\ n + 1 \in Tokens /\ ~ Used(n + 1)
      /\ Others(c)
      /\ call'[c].kind = "login" /\ call'[c].at = "answer" /\ call'[c].sent = now
      /\ call'[c].has \in Cookies /\ call'[c].has.refresh = n + 1
      /\ call'[c].has.access.exp = now + AccessTtl
      /\ call'[c].has.access.role = role
      /\ call'[c].sets = {call'[c].has}
      /\ Stores(n + 1, n + 1)
      /\ calm' = (calm /\ InFlight = {})
      /\ UNCHANGED <<now, role, changed, jar, lost>>
  BY <1>1, LoginEffect DEF Custody
<1>5. QED
  BY <1>3, <1>4

-----------------------------------------------------------------------------
(* The invariant is kept, part by part.                                    *)

\* The parts of the invariant that say what is of which type, ...
LEMMA TypesKept ==
  ASSUME Custody, [Next]_vars
  PROVE  Types'
<1>1. ASSUME NEW c \in Calls, NEW kind \in {"load", "logout"}, Send(c, kind)
      PROVE  Types'
  BY <1>1, SendEffect DEF Custody, Types, Others, Stores, Revokes
<1>2. ASSUME NEW c \in Calls, Login(c)
      PROVE  Types'
  BY <1>2, LoginStep DEF Custody, Types, Others, Stores, Revokes
<1>3. ASSUME NEW c \in Calls, RefreshRead(c)
      PROVE  Types'
  BY <1>3, RefreshReadEffect DEF Custody, Types, Others, Stores, Revokes
<1>4. ASSUME NEW c \in Calls, Consume(c)
      PROVE  Types'
  BY <1>4, ConsumeEffect DEF Custody, Types, Others, Stores, Revokes
<1>5. ASSUME NEW c \in Calls, Issue(c)
      PROVE  Types'
  BY <1>5, IssueStep DEF Custody, Types, Others, Stores, Revokes
<1>6. ASSUME NEW c \in Calls, RefreshFails(c)
      PROVE  Types'
  BY <1>6, RefreshFailsEffect DEF Custody, Types, Others, Stores, Revokes
<1>7. ASSUME NEW c \in Calls, Serve(c)
      PROVE  Types'
  BY <1>7, ServeEffect DEF Custody, Types, Others, Stores, Revokes
<1>8. ASSUME NEW c \in Calls, Logout(c)
      PROVE  Types'
  BY <1>8, LogoutEffect DEF Custody, Types, Others, Stores, Revokes
<1>9. ASSUME NEW c \in Calls, LogoutUnheard(c)
      PROVE  Types'
  BY <1>9, LogoutUnheardEffect DEF Custody, Types, Others, Stores, Revokes
<1>10. ASSUME NEW c \in Calls, Answer(c)
      PROVE  Types'
  <2>1. jar' \in Cookies
    BY <1>10, AnswerEffect, SignedOutFields, RequestFields DEF Custody, Types
  <2>2. QED
    BY <1>10, <2>1, AnswerEffect DEF Custody, Types, Others
<1>11. ASSUME NEW c \in Calls, AnswerLost(c)
      PROVE  Types'
  BY <1>11, AnswerLostEffect DEF Custody, Types, Others, Stores, Revokes
<1>12. CASE ChangeRole
  BY <1>12, Bounds DEF ChangeRole, Custody, Types
<1>13. CASE Tick
  BY <1>13, Bounds DEF Tick, Custody, Types
<1>14. CASE UNCHANGED vars
  <2>1. Types
    BY DEF Custody
  <2>2. QED
    BY <1>14, <2>1 DEF vars, Types
<1>15. QED
  BY <1>1, <1>2, <1>3, <1>4, <1>5, <1>6, <1>7, <1>8, <1>9, <1>10, <1>11, <1>12, <1>13, <1>14 DEF Next

\* ... what an answer sets, ...
LEMMA AnswersKept ==
  ASSUME Custody, [Next]_vars
  PROVE  Answers'
<1>1. ASSUME NEW c \in Calls, NEW kind \in {"load", "logout"}, Send(c, kind)
      PROVE  Answers'
  <2>1. /\ Others(c) /\ call'[c].at \in {"refresh", "serve"} /\ call'[c].sets = {}
    BY <1>1, SendEffect DEF Custody
  <2>2. QED
    BY <2>1 DEF Custody, Answers, Others
<1>2. ASSUME NEW c \in Calls, Login(c)
      PROVE  Answers'
  BY <1>2, LoginStep DEF Custody, Answers, Others
<1>3. ASSUME NEW c \in Calls, RefreshRead(c)
      PROVE  Answers'
  BY <1>3, RefreshReadEffect DEF Custody, Answers, Others
<1>4. ASSUME NEW c \in Calls, Consume(c)
      PROVE  Answers'
  BY <1>4, ConsumeEffect DEF Custody, Answers, Others
<1>5. ASSUME NEW c \in Calls, Issue(c)
      PROVE  Answers'
  BY <1>5, IssueStep DEF Custody, Answers, Others
<1>6. ASSUME NEW c \in Calls, RefreshFails(c)
      PROVE  Answers'
  BY <1>6, RefreshFailsEffect DEF Custody, Answers, Others
<1>7. ASSUME NEW c \in Calls, Serve(c)
      PROVE  Answers'
  BY <1>7, ServeEffect DEF Custody, Answers, Others
<1>8. ASSUME NEW c \in Calls, Logout(c)
      PROVE  Answers'
  <2>1. /\ Others(c) /\ call'[c].at = "answer" /\ call'[c].sets = {SignedOut}
    BY <1>8, LogoutEffect DEF Custody
  <2>2. QED
    BY <2>1 DEF Custody, Answers, Others
<1>9. ASSUME NEW c \in Calls, LogoutUnheard(c)
      PROVE  Answers'
  <2>1. /\ Others(c) /\ call'[c].at = "answer" /\ call'[c].sets = {SignedOut}
    BY <1>9, LogoutUnheardEffect DEF Custody
  <2>2. QED
    BY <2>1 DEF Custody, Answers, Others
<1>10. ASSUME NEW c \in Calls, Answer(c)
      PROVE  Answers'
  BY <1>10, AnswerEffect, DoneFields DEF Custody, Answers, Others
<1>11. ASSUME NEW c \in Calls, AnswerLost(c)
      PROVE  Answers'
  BY <1>11, AnswerLostEffect, DoneFields DEF Custody, Answers, Others
<1>12. CASE ChangeRole
  BY <1>12 DEF ChangeRole, Custody, Answers
<1>13. CASE Tick
  BY <1>13 DEF Tick, Custody, Answers
<1>14. CASE UNCHANGED vars
  BY <1>14 DEF vars, Custody, Answers
<1>15. QED
  BY <1>1, <1>2, <1>3, <1>4, <1>5, <1>6, <1>7, <1>8, <1>9, <1>10, <1>11, <1>12, <1>13, <1>14 DEF Next

\* ... which session a token is of, ...
LEMMA SessionsKept ==
  ASSUME Custody, [Next]_vars
  PROVE  SessionsOpened'
<1>1. ASSUME NEW c \in Calls, NEW kind \in {"load", "logout"}, Send(c, kind)
      PROVE  SessionsOpened'
  BY <1>1 DEF Send, Custody, SessionsOpened, Used
<1>2. ASSUME NEW c \in Calls, Login(c)
      PROVE  SessionsOpened'
  BY <1>2, LoginStep DEF Custody, SessionsOpened, Stores, Revokes, Used, Tokens, NoToken
<1>3. ASSUME NEW c \in Calls, RefreshRead(c)
      PROVE  SessionsOpened'
  BY <1>3 DEF RefreshRead, Custody, SessionsOpened, Used
<1>4. ASSUME NEW c \in Calls, Consume(c)
      PROVE  SessionsOpened'
  BY <1>4, ConsumeEffect DEF Custody, SessionsOpened, Stores, Revokes, Used, Tokens, NoToken
<1>5. ASSUME NEW c \in Calls, Issue(c)
      PROVE  SessionsOpened'
  BY <1>5, IssueStep DEF Custody, SessionsOpened, Stores, Revokes, Used, Tokens, NoToken
<1>6. ASSUME NEW c \in Calls, RefreshFails(c)
      PROVE  SessionsOpened'
  BY <1>6 DEF RefreshFails, Custody, SessionsOpened, Used
<1>7. ASSUME NEW c \in Calls, Serve(c)
      PROVE  SessionsOpened'
  BY <1>7 DEF Serve, Custody, SessionsOpened, Used
<1>8. ASSUME NEW c \in Calls, Logout(c)
      PROVE  SessionsOpened'
  BY <1>8, LogoutEffect DEF Custody, SessionsOpened, Stores, Revokes, Used, Tokens, NoToken
<1>9. ASSUME NEW c \in Calls, LogoutUnheard(c)
      PROVE  SessionsOpened'
  BY <1>9 DEF LogoutUnheard, Custody, SessionsOpened, Used
<1>10. ASSUME NEW c \in Calls, Answer(c)
      PROVE  SessionsOpened'
  BY <1>10 DEF Answer, Custody, SessionsOpened, Used
<1>11. ASSUME NEW c \in Calls, AnswerLost(c)
      PROVE  SessionsOpened'
  BY <1>11 DEF AnswerLost, Custody, SessionsOpened, Used
<1>12. CASE ChangeRole
  BY <1>12 DEF ChangeRole, Custody, SessionsOpened, Used
<1>13. CASE Tick
  BY <1>13 DEF Tick, Custody, SessionsOpened, Used
<1>14. CASE UNCHANGED vars
  BY <1>14 DEF vars, Custody, SessionsOpened, Used
<1>15. QED
  BY <1>1, <1>2, <1>3, <1>4, <1>5, <1>6, <1>7, <1>8, <1>9, <1>10, <1>11, <1>12, <1>13, <1>14 DEF Next

\* Nothing is issued, and no request more will issue.
LEMMA SameIssued ==
  ASSUME Custody, \A k \in Tokens : Used(k)' <=> Used(k), Refreshing' \subseteq Refreshing
  PROVE  Issued'
<1>1. PICK n \in 0 .. MaxTokens : IssuedUpTo(n)
  BY DEF Custody, Issued
<1>2. IsFiniteSet(Refreshing) /\ Cardinality(Refreshing) \in Nat
  BY FinitelyMany
<1>3. Refreshing' \in SUBSET Refreshing
  OBVIOUS
<1>4. Cardinality(Refreshing') <= Cardinality(Refreshing) /\ Cardinality(Refreshing') \in Nat
  BY <1>2, <1>3, FS_Subset, FS_CardinalityType
<1>5. IssuedUpTo(n)'
  BY <1>1, <1>2, <1>4, Bounds DEF IssuedUpTo
<1>6. QED
  BY <1>5 DEF Issued

\* ... which tokens have been issued, ...
LEMMA IssuedKept ==
  ASSUME Custody, [Next]_vars
  PROVE  Issued'
<1>1. ASSUME NEW c \in Calls, NEW kind \in {"load", "logout"}, Send(c, kind)
      PROVE  Issued'
  <2>1. PICK n \in 0 .. MaxTokens : IssuedUpTo(n)
    BY DEF Custody, Issued
  <2>2. Cardinality(Unused) = MaxTokens - n
    BY <2>1, TokensLeft
  <2>3. Cardinality(Unused) > Cardinality(InFlight) /\ Others(c) /\ token' = token
    BY <1>1, SendEffect DEF Custody
  <2>4. Refreshing' \in SUBSET (Refreshing \cup {c})
    BY <2>3 DEF Refreshing, Others
  <2>5. /\ IsFiniteSet(Refreshing \cup {c})
        /\ Cardinality(Refreshing \cup {c}) <= Cardinality(Refreshing) + 1
    <3>1. IsFiniteSet(Refreshing) /\ Cardinality(Refreshing) \in Nat
      BY FinitelyMany
    <3>2. QED
      BY <3>1, FS_AddElement
  <2>6. /\ Cardinality(Refreshing') <= Cardinality(Refreshing \cup {c})
        /\ Cardinality(Refreshing') \in Nat /\ Cardinality(Refreshing \cup {c}) \in Nat
    BY <2>4, <2>5, FS_Subset, FS_CardinalityType
  <2>7. Cardinality(Refreshing') <= MaxTokens - n
    BY <2>2, <2>3, <2>5, <2>6, FinitelyMany, Bounds
  <2>8. IssuedUpTo(n)'
    BY <2>1, <2>3, <2>7 DEF IssuedUpTo, Used
  <2>9. QED
    BY <2>8 DEF Issued
<1>2. ASSUME NEW c \in Calls, Login(c)
      PROVE  Issued'
  <2>1. PICK n \in 0 .. MaxTokens : IssuedUpTo(n)
    BY DEF Custody, Issued
  <2>2. Cardinality(Unused) = MaxTokens - n
    BY <2>1, TokensLeft
  <2>3. /\ c \notin InFlight /\ call'[c].at = "answer" /\ Others(c) /\ n + 1 \in Tokens
        /\ Stores(n + 1, n + 1) /\ Cardinality(Unused) > Cardinality(InFlight)
    BY <1>2, <2>1, LoginEffect DEF Custody
  <2>4. Refreshing' = Refreshing
    BY <2>3 DEF Refreshing, Others, InFlight
  <2>5. Cardinality(Refreshing') <= MaxTokens - (n + 1)
    BY <2>2, <2>3, <2>4, FinitelyMany, Bounds
  <2>6. \A k \in Tokens : Used(k)' <=> k <= n + 1
    BY <2>1, <2>3, Bounds DEF IssuedUpTo, Stores, Used, Tokens
  <2>7. IssuedUpTo(n + 1)' /\ n + 1 \in 0 .. MaxTokens
    BY <2>3, <2>5, <2>6 DEF IssuedUpTo, Tokens
  <2>8. QED
    BY <2>7 DEF Issued
<1>3. ASSUME NEW c \in Calls, RefreshRead(c)
      PROVE  Issued'
  <2>1. \A k \in Tokens : Used(k)' <=> Used(k)
    BY <1>3, RefreshReadEffect DEF Custody, Used, Revokes
  <2>2. Refreshing' \subseteq Refreshing
    BY <1>3, RefreshReadEffect, DoneFields DEF Custody, Refreshing, Others
  <2>3. QED
    BY <2>1, <2>2, SameIssued
<1>4. ASSUME NEW c \in Calls, Consume(c)
      PROVE  Issued'
  <2>1. \A k \in Tokens : Used(k)' <=> Used(k)
    BY <1>4, ConsumeEffect DEF Custody, Used, Revokes
  <2>2. Refreshing' \subseteq Refreshing
    BY <1>4, ConsumeEffect, DoneFields DEF Custody, Refreshing, Others
  <2>3. QED
    BY <2>1, <2>2, SameIssued
<1>5. ASSUME NEW c \in Calls, Issue(c)
      PROVE  Issued'
  <2>1. PICK n \in 0 .. MaxTokens : IssuedUpTo(n)
    BY DEF Custody, Issued
  <2>2. /\ call[c].at = "issue" /\ call'[c].at = "serve" /\ Others(c) /\ n + 1 \in Tokens
        /\ Stores(n + 1, token[call[c].has.refresh].session)
    BY <1>5, <2>1, IssueEffect DEF Custody
  <2>3. Refreshing' = Refreshing \ {c} /\ c \in Refreshing
    BY <2>2 DEF Refreshing, Others
  <2>4. Cardinality(Refreshing') = Cardinality(Refreshing) - 1
    BY <2>3, FinitelyMany, FS_RemoveElement
  <2>5. Cardinality(Refreshing') <= MaxTokens - (n + 1)
    BY <2>1, <2>4, FinitelyMany, Bounds DEF IssuedUpTo
  <2>6. \A k \in Tokens : Used(k)' <=> k <= n + 1
    BY <2>1, <2>2, Bounds DEF IssuedUpTo, Stores, Used, Tokens
  <2>7. IssuedUpTo(n + 1)' /\ n + 1 \in 0 .. MaxTokens
    BY <2>2, <2>5, <2>6 DEF IssuedUpTo, Tokens
  <2>8. QED
    BY <2>7 DEF Issued
<1>6. ASSUME NEW c \in Calls, RefreshFails(c)
      PROVE  Issued'
  <2>1. \A k \in Tokens : Used(k)' <=> Used(k)
    BY <1>6, RefreshFailsEffect DEF Custody, Used, Revokes
  <2>2. Refreshing' \subseteq Refreshing
    BY <1>6, RefreshFailsEffect, DoneFields DEF Custody, Refreshing, Others
  <2>3. QED
    BY <2>1, <2>2, SameIssued
<1>7. ASSUME NEW c \in Calls, Serve(c)
      PROVE  Issued'
  <2>1. \A k \in Tokens : Used(k)' <=> Used(k)
    BY <1>7, ServeEffect DEF Custody, Used, Revokes
  <2>2. Refreshing' \subseteq Refreshing
    BY <1>7, ServeEffect, DoneFields DEF Custody, Refreshing, Others
  <2>3. QED
    BY <2>1, <2>2, SameIssued
<1>8. ASSUME NEW c \in Calls, Logout(c)
      PROVE  Issued'
  <2>1. \A k \in Tokens : Used(k)' <=> Used(k)
    BY <1>8, LogoutEffect DEF Custody, Used, Revokes
  <2>2. Refreshing' \subseteq Refreshing
    BY <1>8, LogoutEffect, DoneFields DEF Custody, Refreshing, Others
  <2>3. QED
    BY <2>1, <2>2, SameIssued
<1>9. ASSUME NEW c \in Calls, LogoutUnheard(c)
      PROVE  Issued'
  <2>1. \A k \in Tokens : Used(k)' <=> Used(k)
    BY <1>9, LogoutUnheardEffect DEF Custody, Used, Revokes
  <2>2. Refreshing' \subseteq Refreshing
    BY <1>9, LogoutUnheardEffect, DoneFields DEF Custody, Refreshing, Others
  <2>3. QED
    BY <2>1, <2>2, SameIssued
<1>10. ASSUME NEW c \in Calls, Answer(c)
      PROVE  Issued'
  <2>1. \A k \in Tokens : Used(k)' <=> Used(k)
    BY <1>10, AnswerEffect DEF Custody, Used, Revokes
  <2>2. Refreshing' \subseteq Refreshing
    BY <1>10, AnswerEffect, DoneFields DEF Custody, Refreshing, Others
  <2>3. QED
    BY <2>1, <2>2, SameIssued
<1>11. ASSUME NEW c \in Calls, AnswerLost(c)
      PROVE  Issued'
  <2>1. \A k \in Tokens : Used(k)' <=> Used(k)
    BY <1>11, AnswerLostEffect DEF Custody, Used, Revokes
  <2>2. Refreshing' \subseteq Refreshing
    BY <1>11, AnswerLostEffect, DoneFields DEF Custody, Refreshing, Others
  <2>3. QED
    BY <2>1, <2>2, SameIssued
<1>12. CASE ChangeRole
  <2>1. \A k \in Tokens : Used(k)' <=> Used(k)
    BY <1>12 DEF ChangeRole, Used
  <2>2. Refreshing' \subseteq Refreshing
    BY <1>12 DEF ChangeRole, Refreshing
  <2>3. QED
    BY <2>1, <2>2, SameIssued
<1>13. CASE Tick
  <2>1. \A k \in Tokens : Used(k)' <=> Used(k)
    BY <1>13 DEF Tick, Used
  <2>2. Refreshing' \subseteq Refreshing
    BY <1>13 DEF Tick, Refreshing
  <2>3. QED
    BY <2>1, <2>2, SameIssued
<1>14. CASE UNCHANGED vars
  <2>1. \A k \in Tokens : Used(k)' <=> Used(k)
    BY <1>14 DEF vars, Used
  <2>2. Refreshing' \subseteq Refreshing
    BY <1>14 DEF vars, Refreshing
  <2>3. QED
    BY <2>1, <2>2, SameIssued
<1>15. QED
  BY <1>1, <1>2, <1>3, <1>4, <1>5, <1>6, <1>7, <1>8, <1>9, <1>10, <1>11, <1>12, <1>13, <1>14 DEF Next

UsedStay == \A k \in Tokens : Used(k) => token'[k].state # "NONE"

\* What requests and the browser have stays a pair.
LEMMA HeldStays ==
  ASSUME Custody, UsedStay, NEW x \in Cookies, Paired(x)
  PROVE  IF x.refresh = NoToken THEN x = SignedOut ELSE token'[x.refresh].state # "NONE"
BY CookieFields DEF Paired, UsedStay, NoToken

\* A step of one call that leaves a pair with it, or nothing.
LEMMA PairsFrom ==
  ASSUME Custody, UsedStay, NEW c \in Calls, Others(c),
         \/ jar' = jar \/ jar' = SignedOut \/ (c \in InFlight /\ jar' = call[c].has),
         \/ call'[c].at = "none"
         \/ call'[c].has.refresh # NoToken /\ token'[call'[c].has.refresh].state # "NONE"
  PROVE  Pairs'
<1>1. \A d \in InFlight : /\ call[d].has \in Cookies /\ Paired(call[d].has)
                           /\ call[d].has.refresh # NoToken /\ d \in Calls
  BY RequestFields DEF Custody, Types, Pairs, InFlight
<1>2. \A d \in InFlight : token'[call[d].has.refresh].state # "NONE"
  BY <1>1, HeldStays
<1>3. Paired(jar)'
  <2>1. CASE jar' = jar
    <3>1. jar \in Cookies /\ Paired(jar)
      BY DEF Custody, Types, Pairs
    <3>2. QED
      BY <2>1, <3>1, HeldStays DEF Paired, Used
  <2>2. CASE jar' = SignedOut
    BY <2>2, SignedOutFields DEF Paired, Used
  <2>3. CASE c \in InFlight /\ jar' = call[c].has
    BY <1>1, <1>2, <2>3 DEF Paired, Used
  <2>4. QED
    BY <2>1, <2>2, <2>3
<1>4. ASSUME NEW d \in InFlight'
      PROVE  Paired(call[d].has)' /\ call'[d].has.refresh # NoToken
  <2>1. CASE d = c
    BY <2>1 DEF InFlight, Paired, Used
  <2>2. CASE d # c
    <3>1. d \in InFlight /\ call'[d] = call[d]
      BY <2>2 DEF InFlight, Others
    <3>2. QED
      BY <1>1, <1>2, <3>1 DEF Paired, Used
  <2>3. QED
    BY <2>1, <2>2
<1>5. QED
  BY <1>3, <1>4 DEF Pairs

\* The token of a request in flight, ...
LEMMA HasUsed ==
  ASSUME Custody, UsedStay, NEW c \in InFlight
  PROVE  /\ call[c].has.refresh \in Tokens /\ call[c].has.refresh # NoToken
         /\ Used(call[c].has.refresh) /\ token'[call[c].has.refresh].state # "NONE"
<1>1. c \in Calls /\ call[c].has \in Cookies
  BY RequestFields DEF Custody, Types, InFlight
<1>2. call[c].has.refresh # NoToken /\ Paired(call[c].has)
  BY DEF Custody, Pairs
<1>3. QED
  BY <1>1, <1>2, HeldStays, CookieFields DEF Paired

\* ... and the browser's, stay used.
LEMMA JarUsed ==
  ASSUME Custody, UsedStay, jar.refresh # NoToken
  PROVE  /\ jar.refresh \in Tokens /\ Used(jar.refresh)
         /\ token'[jar.refresh].state # "NONE"
<1>1. jar \in Cookies /\ Paired(jar)
  BY DEF Custody, Types, Pairs
<1>2. QED
  BY <1>1, HeldStays, CookieFields DEF Paired

\* ... that cookies come in pairs, ...
LEMMA PairsKept ==
  ASSUME Custody, [Next]_vars
  PROVE  Pairs'
<1>1. ASSUME NEW c \in Calls, NEW kind \in {"load", "logout"}, Send(c, kind)
      PROVE  Pairs'
  <2>1. Others(c) /\ UsedStay
    BY <1>1, SendEffect DEF Custody, UsedStay, Used, Revokes, Stores
  <2>2. \/ call'[c].at = "none"
        \/ call'[c].has.refresh # NoToken /\ token'[call'[c].has.refresh].state # "NONE"
    BY <1>1, <2>1, SendEffect, JarUsed DEF Custody, Pairs, InFlight, Stores, Tokens, NoToken
  <2>3. \/ jar' = jar \/ jar' = SignedOut \/ (c \in InFlight /\ jar' = call[c].has)
    BY <1>1, SendEffect DEF Custody, InFlight
  <2>4. QED
    BY <2>1, <2>2, <2>3, PairsFrom
<1>2. ASSUME NEW c \in Calls, Login(c)
      PROVE  Pairs'
  <2>1. Others(c) /\ UsedStay
    BY <1>2, LoginStep DEF Custody, UsedStay, Used, Revokes, Stores
  <2>2. \/ call'[c].at = "none"
        \/ call'[c].has.refresh # NoToken /\ token'[call'[c].has.refresh].state # "NONE"
    BY <1>2, <2>1, LoginStep, HasUsed DEF Custody, Pairs, InFlight, Stores, Tokens, NoToken
  <2>3. \/ jar' = jar \/ jar' = SignedOut \/ (c \in InFlight /\ jar' = call[c].has)
    BY <1>2, LoginStep DEF Custody, InFlight
  <2>4. QED
    BY <2>1, <2>2, <2>3, PairsFrom
<1>3. ASSUME NEW c \in Calls, RefreshRead(c)
      PROVE  Pairs'
  <2>1. Others(c) /\ UsedStay
    BY <1>3, RefreshReadEffect DEF Custody, UsedStay, Used, Revokes, Stores
  <2>2. \/ call'[c].at = "none"
        \/ call'[c].has.refresh # NoToken /\ token'[call'[c].has.refresh].state # "NONE"
    BY <1>3, <2>1, RefreshReadEffect, HasUsed DEF Custody, Pairs, InFlight, Stores, Tokens, NoToken
  <2>3. \/ jar' = jar \/ jar' = SignedOut \/ (c \in InFlight /\ jar' = call[c].has)
    BY <1>3, RefreshReadEffect DEF Custody, InFlight
  <2>4. QED
    BY <2>1, <2>2, <2>3, PairsFrom
<1>4. ASSUME NEW c \in Calls, Consume(c)
      PROVE  Pairs'
  <2>1. Others(c) /\ UsedStay
    BY <1>4, ConsumeEffect DEF Custody, UsedStay, Used, Revokes, Stores
  <2>2. \/ call'[c].at = "none"
        \/ call'[c].has.refresh # NoToken /\ token'[call'[c].has.refresh].state # "NONE"
    BY <1>4, <2>1, ConsumeEffect, HasUsed DEF Custody, Pairs, InFlight, Stores, Tokens, NoToken
  <2>3. \/ jar' = jar \/ jar' = SignedOut \/ (c \in InFlight /\ jar' = call[c].has)
    BY <1>4, ConsumeEffect DEF Custody, InFlight
  <2>4. QED
    BY <2>1, <2>2, <2>3, PairsFrom
<1>5. ASSUME NEW c \in Calls, Issue(c)
      PROVE  Pairs'
  <2>1. Others(c) /\ UsedStay
    BY <1>5, IssueStep DEF Custody, UsedStay, Used, Revokes, Stores
  <2>2. \/ call'[c].at = "none"
        \/ call'[c].has.refresh # NoToken /\ token'[call'[c].has.refresh].state # "NONE"
    BY <1>5, <2>1, IssueStep, HasUsed DEF Custody, Pairs, InFlight, Stores, Tokens, NoToken
  <2>3. \/ jar' = jar \/ jar' = SignedOut \/ (c \in InFlight /\ jar' = call[c].has)
    BY <1>5, IssueStep DEF Custody, InFlight
  <2>4. QED
    BY <2>1, <2>2, <2>3, PairsFrom
<1>6. ASSUME NEW c \in Calls, RefreshFails(c)
      PROVE  Pairs'
  <2>1. Others(c) /\ UsedStay
    BY <1>6, RefreshFailsEffect DEF Custody, UsedStay, Used, Revokes, Stores
  <2>2. \/ call'[c].at = "none"
        \/ call'[c].has.refresh # NoToken /\ token'[call'[c].has.refresh].state # "NONE"
    BY <1>6, <2>1, RefreshFailsEffect, HasUsed DEF Custody, Pairs, InFlight, Stores, Tokens, NoToken
  <2>3. \/ jar' = jar \/ jar' = SignedOut \/ (c \in InFlight /\ jar' = call[c].has)
    BY <1>6, RefreshFailsEffect DEF Custody, InFlight
  <2>4. QED
    BY <2>1, <2>2, <2>3, PairsFrom
<1>7. ASSUME NEW c \in Calls, Serve(c)
      PROVE  Pairs'
  <2>1. Others(c) /\ UsedStay
    BY <1>7, ServeEffect DEF Custody, UsedStay, Used, Revokes, Stores
  <2>2. \/ call'[c].at = "none"
        \/ call'[c].has.refresh # NoToken /\ token'[call'[c].has.refresh].state # "NONE"
    BY <1>7, <2>1, ServeEffect, HasUsed DEF Custody, Pairs, InFlight, Stores, Tokens, NoToken
  <2>3. \/ jar' = jar \/ jar' = SignedOut \/ (c \in InFlight /\ jar' = call[c].has)
    BY <1>7, ServeEffect DEF Custody, InFlight
  <2>4. QED
    BY <2>1, <2>2, <2>3, PairsFrom
<1>8. ASSUME NEW c \in Calls, Logout(c)
      PROVE  Pairs'
  <2>1. Others(c) /\ UsedStay
    BY <1>8, LogoutEffect DEF Custody, UsedStay, Used, Revokes, Stores
  <2>2. \/ call'[c].at = "none"
        \/ call'[c].has.refresh # NoToken /\ token'[call'[c].has.refresh].state # "NONE"
    <3>1. c \in InFlight /\ call'[c].has = call[c].has
      BY <1>8, LogoutEffect DEF Custody, InFlight
    <3>2. QED
      BY <2>1, <3>1, HasUsed
  <2>3. \/ jar' = jar \/ jar' = SignedOut \/ (c \in InFlight /\ jar' = call[c].has)
    BY <1>8, LogoutEffect DEF Custody, InFlight
  <2>4. QED
    BY <2>1, <2>2, <2>3, PairsFrom
<1>9. ASSUME NEW c \in Calls, LogoutUnheard(c)
      PROVE  Pairs'
  <2>1. Others(c) /\ UsedStay
    BY <1>9, LogoutUnheardEffect DEF Custody, UsedStay, Used, Revokes, Stores
  <2>2. \/ call'[c].at = "none"
        \/ call'[c].has.refresh # NoToken /\ token'[call'[c].has.refresh].state # "NONE"
    <3>1. c \in InFlight /\ call'[c].has = call[c].has
      BY <1>9, LogoutUnheardEffect DEF Custody, InFlight
    <3>2. QED
      BY <2>1, <3>1, HasUsed
  <2>3. \/ jar' = jar \/ jar' = SignedOut \/ (c \in InFlight /\ jar' = call[c].has)
    BY <1>9, LogoutUnheardEffect DEF Custody, InFlight
  <2>4. QED
    BY <2>1, <2>2, <2>3, PairsFrom
<1>10. ASSUME NEW c \in Calls, Answer(c)
      PROVE  Pairs'
  <2>1. Others(c) /\ UsedStay
    BY <1>10, AnswerEffect, DoneFields DEF Custody, UsedStay, Used, Revokes, Stores
  <2>2. \/ call'[c].at = "none"
        \/ call'[c].has.refresh # NoToken /\ token'[call'[c].has.refresh].state # "NONE"
    BY <1>10, <2>1, AnswerEffect, HasUsed, DoneFields DEF Custody, Pairs, InFlight, Stores, Tokens, NoToken
  <2>3. \/ jar' = jar \/ jar' = SignedOut \/ (c \in InFlight /\ jar' = call[c].has)
    BY <1>10, AnswerEffect DEF Custody, InFlight
  <2>4. QED
    BY <2>1, <2>2, <2>3, PairsFrom
<1>11. ASSUME NEW c \in Calls, AnswerLost(c)
      PROVE  Pairs'
  <2>1. Others(c) /\ UsedStay
    BY <1>11, AnswerLostEffect, DoneFields DEF Custody, UsedStay, Used, Revokes, Stores
  <2>2. \/ call'[c].at = "none"
        \/ call'[c].has.refresh # NoToken /\ token'[call'[c].has.refresh].state # "NONE"
    BY <1>11, <2>1, AnswerLostEffect, HasUsed, DoneFields DEF Custody, Pairs, InFlight, Stores, Tokens, NoToken
  <2>3. \/ jar' = jar \/ jar' = SignedOut \/ (c \in InFlight /\ jar' = call[c].has)
    BY <1>11, AnswerLostEffect DEF Custody, InFlight
  <2>4. QED
    BY <2>1, <2>2, <2>3, PairsFrom
<1>12. CASE ChangeRole
  BY <1>12 DEF ChangeRole, Custody, Pairs, Paired, InFlight, Used
<1>13. CASE Tick
  BY <1>13 DEF Tick, Custody, Pairs, Paired, InFlight, Used
<1>14. CASE UNCHANGED vars
  BY <1>14 DEF vars, Custody, Pairs, Paired, InFlight, Used
<1>15. QED
  BY <1>1, <1>2, <1>3, <1>4, <1>5, <1>6, <1>7, <1>8, <1>9, <1>10, <1>11, <1>12, <1>13, <1>14 DEF Next

\* The fields that are about time.
LEMMA Times ==
  ASSUME Types
  PROVE  /\ now \in Nat /\ role \in Nat
         /\ jar \in Cookies /\ jar.access.exp \in Nat /\ jar.access.role \in Nat
         /\ \A c \in Calls :
             /\ call[c].sent \in Nat /\ call[c].has \in Cookies
             /\ call[c].has.access.exp \in Nat /\ call[c].has.access.role \in Nat
         /\ \A v \in Nat : v < role => changed[v + 1] \in Nat
<1>1. now \in Nat /\ role \in Nat /\ jar \in Cookies
  BY Bounds DEF Types
<1>2. \A c \in Calls : call[c].sent \in Nat /\ call[c].has \in Cookies
  BY RequestFields DEF Types
<1>3. \A v \in Nat : v < role => v + 1 \in 0 .. MaxRole
  BY Bounds DEF Types
<1>4. \A v \in 0 .. MaxRole : changed[v] \in Nat
  BY Bounds DEF Types
<1>5. QED
  BY <1>1, <1>2, <1>3, <1>4, CookieFields

\* A step of one call that leaves it within its times.
LEMMA LifetimesFrom ==
  ASSUME Custody, NEW c \in Calls, Others(c), now' = now,
         \/ jar' = jar \/ jar' = SignedOut \/ (c \in InFlight /\ jar' = call[c].has),
         call'[c].at = "none" \/ Timely(c)'
  PROVE  Lifetimes'
<1>1. (jar.access.exp <= now + AccessTtl)'
  <2>1. CASE jar' = jar
    BY <2>1 DEF Custody, Lifetimes
  <2>2. CASE jar' = SignedOut
    BY <2>2, SignedOutFields, Times, Bounds DEF Custody
  <2>3. CASE c \in InFlight /\ jar' = call[c].has
    BY <2>3 DEF Custody, Lifetimes, Timely
  <2>4. QED
    BY <2>1, <2>2, <2>3
<1>2. ASSUME NEW d \in InFlight'
      PROVE  Timely(d)'
  <2>1. CASE d = c
    BY <2>1 DEF InFlight
  <2>2. CASE d # c
    <3>1. d \in InFlight /\ call'[d] = call[d]
      BY <2>2 DEF InFlight, Others
    <3>2. QED
      BY <3>1 DEF Custody, Lifetimes, Timely
  <2>3. QED
    BY <2>1, <2>2
<1>3. QED
  BY <1>1, <1>2 DEF Lifetimes

\* A step of one call that leaves it with permissions that expire in time.
LEMMA CatchingUpFrom ==
  ASSUME Custody, NEW c \in Calls, Others(c), UNCHANGED <<role, changed>>,
         \/ jar' = jar \/ jar' = SignedOut \/ (c \in InFlight /\ jar' = call[c].has),
         call'[c].at = "none" \/ Catches(c)'
  PROVE  CatchingUp'
<1>1. Expires(jar.access)'
  <2>1. CASE jar' = jar
    BY <2>1 DEF Custody, CatchingUp, Expires
  <2>2. CASE jar' = SignedOut
    BY <2>2, SignedOutFields, Times, Bounds DEF Custody, Expires
  <2>3. CASE c \in InFlight /\ jar' = call[c].has
    BY <2>3 DEF Custody, CatchingUp, Catches, Expires
  <2>4. QED
    BY <2>1, <2>2, <2>3
<1>2. ASSUME NEW d \in InFlight'
      PROVE  Catches(d)'
  <2>1. CASE d = c
    BY <2>1 DEF InFlight
  <2>2. CASE d # c
    <3>1. d \in InFlight /\ call'[d] = call[d]
      BY <2>2 DEF InFlight, Others
    <3>2. QED
      BY <3>1 DEF Custody, CatchingUp, Catches, Expires
  <2>3. QED
    BY <2>1, <2>2
<1>3. QED
  BY <1>1, <1>2 DEF CatchingUp

\* ... how long access tokens live, ...
LEMMA LifetimesKept ==
  ASSUME Custody, [Next]_vars
  PROVE  Lifetimes'
<1>1. ASSUME NEW c \in Calls, NEW kind \in {"load", "logout"}, Send(c, kind)
      PROVE  Lifetimes'
  <2>1. Others(c)
    BY <1>1, SendEffect DEF Custody
  <2>2. call'[c].at = "none" \/ Timely(c)'
    <3>1. /\ call'[c].at \in {"refresh", "serve"} /\ call'[c].sent = now
          /\ call'[c].has = jar /\ now' = now
          /\ call'[c].at = "serve" => jar.access.exp >= now + Margin
      BY <1>1, SendEffect DEF Custody
    <3>2. jar.access.exp <= now + AccessTtl /\ now \in Nat
      BY Times DEF Custody, Lifetimes
    <3>3. QED
      BY <3>1, <3>2, Bounds DEF Timely
  <2>3. \/ jar' = jar \/ jar' = SignedOut \/ (c \in InFlight /\ jar' = call[c].has)
    BY <1>1, SendEffect DEF Custody, InFlight
  <2>4. now' = now
    BY <1>1, SendEffect DEF Custody
  <2>5. QED
    BY <2>1, <2>2, <2>3, <2>4, LifetimesFrom
<1>2. ASSUME NEW c \in Calls, Login(c)
      PROVE  Lifetimes'
  <2>1. Others(c)
    BY <1>2, LoginStep DEF Custody
  <2>2. call'[c].at = "none" \/ Timely(c)'
    BY <1>2, LoginStep, Times, Bounds DEF Custody, Lifetimes, InFlight, Timely
  <2>3. \/ jar' = jar \/ jar' = SignedOut \/ (c \in InFlight /\ jar' = call[c].has)
    BY <1>2, LoginStep DEF Custody, InFlight
  <2>4. now' = now
    BY <1>2, LoginStep DEF Custody
  <2>5. QED
    BY <2>1, <2>2, <2>3, <2>4, LifetimesFrom
<1>3. ASSUME NEW c \in Calls, RefreshRead(c)
      PROVE  Lifetimes'
  <2>1. Others(c)
    BY <1>3, RefreshReadEffect DEF Custody
  <2>2. call'[c].at = "none" \/ Timely(c)'
    BY <1>3, RefreshReadEffect, Times, Bounds DEF Custody, Lifetimes, InFlight, Timely
  <2>3. \/ jar' = jar \/ jar' = SignedOut \/ (c \in InFlight /\ jar' = call[c].has)
    BY <1>3, RefreshReadEffect DEF Custody, InFlight
  <2>4. now' = now
    BY <1>3, RefreshReadEffect DEF Custody
  <2>5. QED
    BY <2>1, <2>2, <2>3, <2>4, LifetimesFrom
<1>4. ASSUME NEW c \in Calls, Consume(c)
      PROVE  Lifetimes'
  <2>1. Others(c)
    BY <1>4, ConsumeEffect DEF Custody
  <2>2. call'[c].at = "none" \/ Timely(c)'
    BY <1>4, ConsumeEffect, Times, Bounds DEF Custody, Lifetimes, InFlight, Timely
  <2>3. \/ jar' = jar \/ jar' = SignedOut \/ (c \in InFlight /\ jar' = call[c].has)
    BY <1>4, ConsumeEffect DEF Custody, InFlight
  <2>4. now' = now
    BY <1>4, ConsumeEffect DEF Custody
  <2>5. QED
    BY <2>1, <2>2, <2>3, <2>4, LifetimesFrom
<1>5. ASSUME NEW c \in Calls, Issue(c)
      PROVE  Lifetimes'
  <2>1. Others(c)
    BY <1>5, IssueStep DEF Custody
  <2>2. call'[c].at = "none" \/ Timely(c)'
    BY <1>5, IssueStep, Times, Bounds DEF Custody, Lifetimes, InFlight, Timely
  <2>3. \/ jar' = jar \/ jar' = SignedOut \/ (c \in InFlight /\ jar' = call[c].has)
    BY <1>5, IssueStep DEF Custody, InFlight
  <2>4. now' = now
    BY <1>5, IssueStep DEF Custody
  <2>5. QED
    BY <2>1, <2>2, <2>3, <2>4, LifetimesFrom
<1>6. ASSUME NEW c \in Calls, RefreshFails(c)
      PROVE  Lifetimes'
  <2>1. Others(c)
    BY <1>6, RefreshFailsEffect DEF Custody
  <2>2. call'[c].at = "none" \/ Timely(c)'
    BY <1>6, RefreshFailsEffect, Times, Bounds DEF Custody, Lifetimes, InFlight, Timely
  <2>3. \/ jar' = jar \/ jar' = SignedOut \/ (c \in InFlight /\ jar' = call[c].has)
    BY <1>6, RefreshFailsEffect DEF Custody, InFlight
  <2>4. now' = now
    BY <1>6, RefreshFailsEffect DEF Custody
  <2>5. QED
    BY <2>1, <2>2, <2>3, <2>4, LifetimesFrom
<1>7. ASSUME NEW c \in Calls, Serve(c)
      PROVE  Lifetimes'
  <2>1. Others(c)
    BY <1>7, ServeEffect DEF Custody
  <2>2. call'[c].at = "none" \/ Timely(c)'
    BY <1>7, ServeEffect, Times, Bounds DEF Custody, Lifetimes, InFlight, Timely
  <2>3. \/ jar' = jar \/ jar' = SignedOut \/ (c \in InFlight /\ jar' = call[c].has)
    BY <1>7, ServeEffect DEF Custody, InFlight
  <2>4. now' = now
    BY <1>7, ServeEffect DEF Custody
  <2>5. QED
    BY <2>1, <2>2, <2>3, <2>4, LifetimesFrom
<1>8. ASSUME NEW c \in Calls, Logout(c)
      PROVE  Lifetimes'
  <2>1. Others(c)
    BY <1>8, LogoutEffect DEF Custody
  <2>2. call'[c].at = "none" \/ Timely(c)'
    <3>1. /\ call[c].at = "serve" /\ call'[c].at = "answer" /\ now' = now
          /\ call'[c].sent = call[c].sent /\ call'[c].has = call[c].has
      BY <1>8, LogoutEffect DEF Custody
    <3>2. Timely(c)
      BY <3>1 DEF Custody, Lifetimes, InFlight
    <3>3. QED
      BY <3>1, <3>2 DEF Timely
  <2>3. \/ jar' = jar \/ jar' = SignedOut \/ (c \in InFlight /\ jar' = call[c].has)
    BY <1>8, LogoutEffect DEF Custody, InFlight
  <2>4. now' = now
    BY <1>8, LogoutEffect DEF Custody
  <2>5. QED
    BY <2>1, <2>2, <2>3, <2>4, LifetimesFrom
<1>9. ASSUME NEW c \in Calls, LogoutUnheard(c)
      PROVE  Lifetimes'
  <2>1. Others(c)
    BY <1>9, LogoutUnheardEffect DEF Custody
  <2>2. call'[c].at = "none" \/ Timely(c)'
    <3>1. /\ call[c].at = "serve" /\ call'[c].at = "answer" /\ now' = now
          /\ call'[c].sent = call[c].sent /\ call'[c].has = call[c].has
      BY <1>9, LogoutUnheardEffect DEF Custody
    <3>2. Timely(c)
      BY <3>1 DEF Custody, Lifetimes, InFlight
    <3>3. QED
      BY <3>1, <3>2 DEF Timely
  <2>3. \/ jar' = jar \/ jar' = SignedOut \/ (c \in InFlight /\ jar' = call[c].has)
    BY <1>9, LogoutUnheardEffect DEF Custody, InFlight
  <2>4. now' = now
    BY <1>9, LogoutUnheardEffect DEF Custody
  <2>5. QED
    BY <2>1, <2>2, <2>3, <2>4, LifetimesFrom
<1>10. ASSUME NEW c \in Calls, Answer(c)
      PROVE  Lifetimes'
  <2>1. Others(c)
    BY <1>10, AnswerEffect DEF Custody
  <2>2. call'[c].at = "none" \/ Timely(c)'
    BY <1>10, AnswerEffect, Times, Bounds, DoneFields DEF Custody, Lifetimes, InFlight, Timely
  <2>3. \/ jar' = jar \/ jar' = SignedOut \/ (c \in InFlight /\ jar' = call[c].has)
    BY <1>10, AnswerEffect DEF Custody, InFlight
  <2>4. now' = now
    BY <1>10, AnswerEffect DEF Custody
  <2>5. QED
    BY <2>1, <2>2, <2>3, <2>4, LifetimesFrom
<1>11. ASSUME NEW c \in Calls, AnswerLost(c)
      PROVE  Lifetimes'
  <2>1. Others(c)
    BY <1>11, AnswerLostEffect DEF Custody
  <2>2. call'[c].at = "none" \/ Timely(c)'
    BY <1>11, AnswerLostEffect, Times, Bounds, DoneFields DEF Custody, Lifetimes, InFlight, Timely
  <2>3. \/ jar' = jar \/ jar' = SignedOut \/ (c \in InFlight /\ jar' = call[c].has)
    BY <1>11, AnswerLostEffect DEF Custody, InFlight
  <2>4. now' = now
    BY <1>11, AnswerLostEffect DEF Custody
  <2>5. QED
    BY <2>1, <2>2, <2>3, <2>4, LifetimesFrom
<1>12. CASE ChangeRole
  BY <1>12 DEF ChangeRole, Custody, Lifetimes, Timely, InFlight
<1>13. CASE Tick
  <2>1. now' = now + 1 /\ jar' = jar /\ call' = call /\ InFlight' = InFlight
    BY <1>13 DEF Tick, InFlight
  <2>2. now \in Nat /\ jar.access.exp \in Nat
    BY Times DEF Custody
  <2>3. (jar.access.exp <= now + AccessTtl)'
    BY <2>1, <2>2, Bounds DEF Custody, Lifetimes
  <2>4. ASSUME NEW c \in InFlight
        PROVE  Timely(c)'
    <3>1. c \in Calls /\ now - call[c].sent < Slow /\ Timely(c)
      BY <1>13 DEF Tick, InFlight, Custody, Lifetimes
    <3>2. QED
      BY <2>1, <3>1, Times, Bounds DEF Custody, Timely
  <2>5. QED
    BY <2>1, <2>3, <2>4 DEF Lifetimes
<1>14. CASE UNCHANGED vars
  BY <1>14 DEF vars, Custody, Lifetimes, Timely, InFlight
<1>15. QED
  BY <1>1, <1>2, <1>3, <1>4, <1>5, <1>6, <1>7, <1>8, <1>9, <1>10, <1>11, <1>12, <1>13, <1>14 DEF Next

\* ... and since when they may be out of date, ...
LEMMA CatchingUpKept ==
  ASSUME Custody, [Next]_vars
  PROVE  CatchingUp'
<1>1. ASSUME NEW c \in Calls, NEW kind \in {"load", "logout"}, Send(c, kind)
      PROVE  CatchingUp'
  <2>1. Others(c)
    BY <1>1, SendEffect DEF Custody
  <2>2. call'[c].at = "none" \/ Catches(c)'
    BY <1>1, SendEffect, Times, Bounds DEF Custody, CatchingUp, Lifetimes, Timely, InFlight, Expires, Catches
  <2>3. \/ jar' = jar \/ jar' = SignedOut \/ (c \in InFlight /\ jar' = call[c].has)
    BY <1>1, SendEffect DEF Custody, InFlight
  <2>4. UNCHANGED <<role, changed>>
    BY <1>1, SendEffect DEF Custody
  <2>5. QED
    BY <2>1, <2>2, <2>3, <2>4, CatchingUpFrom
<1>2. ASSUME NEW c \in Calls, Login(c)
      PROVE  CatchingUp'
  <2>1. Others(c)
    BY <1>2, LoginStep DEF Custody
  <2>2. call'[c].at = "none" \/ Catches(c)'
    BY <1>2, LoginStep, Times, Bounds DEF Custody, CatchingUp, Lifetimes, Timely, InFlight, Expires, Catches
  <2>3. \/ jar' = jar \/ jar' = SignedOut \/ (c \in InFlight /\ jar' = call[c].has)
    BY <1>2, LoginStep DEF Custody, InFlight
  <2>4. UNCHANGED <<role, changed>>
    BY <1>2, LoginStep DEF Custody
  <2>5. QED
    BY <2>1, <2>2, <2>3, <2>4, CatchingUpFrom
<1>3. ASSUME NEW c \in Calls, RefreshRead(c)
      PROVE  CatchingUp'
  <2>1. Others(c)
    BY <1>3, RefreshReadEffect DEF Custody
  <2>2. call'[c].at = "none" \/ Catches(c)'
    BY <1>3, RefreshReadEffect, Times, Bounds DEF Custody, CatchingUp, Lifetimes, Timely, InFlight, Expires, Catches
  <2>3. \/ jar' = jar \/ jar' = SignedOut \/ (c \in InFlight /\ jar' = call[c].has)
    BY <1>3, RefreshReadEffect DEF Custody, InFlight
  <2>4. UNCHANGED <<role, changed>>
    BY <1>3, RefreshReadEffect DEF Custody
  <2>5. QED
    BY <2>1, <2>2, <2>3, <2>4, CatchingUpFrom
<1>4. ASSUME NEW c \in Calls, Consume(c)
      PROVE  CatchingUp'
  <2>1. Others(c)
    BY <1>4, ConsumeEffect DEF Custody
  <2>2. call'[c].at = "none" \/ Catches(c)'
    BY <1>4, ConsumeEffect, Times, Bounds DEF Custody, CatchingUp, Lifetimes, Timely, InFlight, Expires, Catches
  <2>3. \/ jar' = jar \/ jar' = SignedOut \/ (c \in InFlight /\ jar' = call[c].has)
    BY <1>4, ConsumeEffect DEF Custody, InFlight
  <2>4. UNCHANGED <<role, changed>>
    BY <1>4, ConsumeEffect DEF Custody
  <2>5. QED
    BY <2>1, <2>2, <2>3, <2>4, CatchingUpFrom
<1>5. ASSUME NEW c \in Calls, Issue(c)
      PROVE  CatchingUp'
  <2>1. Others(c)
    BY <1>5, IssueStep DEF Custody
  <2>2. call'[c].at = "none" \/ Catches(c)'
    BY <1>5, IssueStep, Times, Bounds DEF Custody, CatchingUp, Lifetimes, Timely, InFlight, Expires, Catches
  <2>3. \/ jar' = jar \/ jar' = SignedOut \/ (c \in InFlight /\ jar' = call[c].has)
    BY <1>5, IssueStep DEF Custody, InFlight
  <2>4. UNCHANGED <<role, changed>>
    BY <1>5, IssueStep DEF Custody
  <2>5. QED
    BY <2>1, <2>2, <2>3, <2>4, CatchingUpFrom
<1>6. ASSUME NEW c \in Calls, RefreshFails(c)
      PROVE  CatchingUp'
  <2>1. Others(c)
    BY <1>6, RefreshFailsEffect DEF Custody
  <2>2. call'[c].at = "none" \/ Catches(c)'
    BY <1>6, RefreshFailsEffect, Times, Bounds DEF Custody, CatchingUp, Lifetimes, Timely, InFlight, Expires, Catches
  <2>3. \/ jar' = jar \/ jar' = SignedOut \/ (c \in InFlight /\ jar' = call[c].has)
    BY <1>6, RefreshFailsEffect DEF Custody, InFlight
  <2>4. UNCHANGED <<role, changed>>
    BY <1>6, RefreshFailsEffect DEF Custody
  <2>5. QED
    BY <2>1, <2>2, <2>3, <2>4, CatchingUpFrom
<1>7. ASSUME NEW c \in Calls, Serve(c)
      PROVE  CatchingUp'
  <2>1. Others(c)
    BY <1>7, ServeEffect DEF Custody
  <2>2. call'[c].at = "none" \/ Catches(c)'
    BY <1>7, ServeEffect, Times, Bounds DEF Custody, CatchingUp, Lifetimes, Timely, InFlight, Expires, Catches
  <2>3. \/ jar' = jar \/ jar' = SignedOut \/ (c \in InFlight /\ jar' = call[c].has)
    BY <1>7, ServeEffect DEF Custody, InFlight
  <2>4. UNCHANGED <<role, changed>>
    BY <1>7, ServeEffect DEF Custody
  <2>5. QED
    BY <2>1, <2>2, <2>3, <2>4, CatchingUpFrom
<1>8. ASSUME NEW c \in Calls, Logout(c)
      PROVE  CatchingUp'
  <2>1. Others(c)
    BY <1>8, LogoutEffect DEF Custody
  <2>2. call'[c].at = "none" \/ Catches(c)'
    BY <1>8, LogoutEffect, Times, Bounds DEF Custody, CatchingUp, Lifetimes, Timely, InFlight, Expires, Catches
  <2>3. \/ jar' = jar \/ jar' = SignedOut \/ (c \in InFlight /\ jar' = call[c].has)
    BY <1>8, LogoutEffect DEF Custody, InFlight
  <2>4. UNCHANGED <<role, changed>>
    BY <1>8, LogoutEffect DEF Custody
  <2>5. QED
    BY <2>1, <2>2, <2>3, <2>4, CatchingUpFrom
<1>9. ASSUME NEW c \in Calls, LogoutUnheard(c)
      PROVE  CatchingUp'
  <2>1. Others(c)
    BY <1>9, LogoutUnheardEffect DEF Custody
  <2>2. call'[c].at = "none" \/ Catches(c)'
    BY <1>9, LogoutUnheardEffect, Times, Bounds DEF Custody, CatchingUp, Lifetimes, Timely, InFlight, Expires, Catches
  <2>3. \/ jar' = jar \/ jar' = SignedOut \/ (c \in InFlight /\ jar' = call[c].has)
    BY <1>9, LogoutUnheardEffect DEF Custody, InFlight
  <2>4. UNCHANGED <<role, changed>>
    BY <1>9, LogoutUnheardEffect DEF Custody
  <2>5. QED
    BY <2>1, <2>2, <2>3, <2>4, CatchingUpFrom
<1>10. ASSUME NEW c \in Calls, Answer(c)
      PROVE  CatchingUp'
  <2>1. Others(c)
    BY <1>10, AnswerEffect DEF Custody
  <2>2. call'[c].at = "none" \/ Catches(c)'
    BY <1>10, AnswerEffect, Times, Bounds, DoneFields DEF Custody, CatchingUp, Lifetimes, Timely, InFlight, Expires, Catches
  <2>3. \/ jar' = jar \/ jar' = SignedOut \/ (c \in InFlight /\ jar' = call[c].has)
    BY <1>10, AnswerEffect DEF Custody, InFlight
  <2>4. UNCHANGED <<role, changed>>
    BY <1>10, AnswerEffect DEF Custody
  <2>5. QED
    BY <2>1, <2>2, <2>3, <2>4, CatchingUpFrom
<1>11. ASSUME NEW c \in Calls, AnswerLost(c)
      PROVE  CatchingUp'
  <2>1. Others(c)
    BY <1>11, AnswerLostEffect DEF Custody
  <2>2. call'[c].at = "none" \/ Catches(c)'
    BY <1>11, AnswerLostEffect, Times, Bounds, DoneFields DEF Custody, CatchingUp, Lifetimes, Timely, InFlight, Expires, Catches
  <2>3. \/ jar' = jar \/ jar' = SignedOut \/ (c \in InFlight /\ jar' = call[c].has)
    BY <1>11, AnswerLostEffect DEF Custody, InFlight
  <2>4. UNCHANGED <<role, changed>>
    BY <1>11, AnswerLostEffect DEF Custody
  <2>5. QED
    BY <2>1, <2>2, <2>3, <2>4, CatchingUpFrom
<1>12. CASE ChangeRole
  <2>1. /\ role' = role + 1 /\ jar' = jar /\ call' = call /\ InFlight' = InFlight
        /\ changed' = [changed EXCEPT ![role + 1] = now] /\ role < MaxRole
    BY <1>12 DEF ChangeRole, InFlight
  <2>2. now \in Nat /\ role \in Nat /\ jar.access.exp \in Nat /\ jar.access.role \in Nat
    BY Times DEF Custody
  <2>3. /\ changed'[role + 1] = now
        /\ \A v \in Nat : v < role => changed'[v + 1] = changed[v + 1]
    BY <2>1, <2>2, Bounds DEF Custody, Types
  <2>4. ASSUME NEW e \in Nat, NEW v \in Nat, e <= now + AccessTtl,
               v < role => e <= changed[v + 1] + AccessTtl + Slow, v < role + 1
        PROVE  e <= changed'[v + 1] + AccessTtl + Slow
    <3>1. CASE v = role
      BY <2>2, <2>3, <2>4, <3>1, Bounds
    <3>2. CASE v # role
      BY <2>2, <2>3, <2>4, <3>2
    <3>3. QED
      BY <3>1, <3>2
  <2>5. Expires(jar.access)'
    BY <2>1, <2>2, <2>4 DEF Custody, CatchingUp, Lifetimes, Expires
  <2>6. ASSUME NEW c \in InFlight
        PROVE  Catches(c)'
    <3>1. /\ call[c].has.access.exp \in Nat /\ call[c].has.access.role \in Nat
          /\ call[c].sent \in Nat /\ Timely(c) /\ Catches(c)
      BY Times DEF InFlight, Custody, Lifetimes, CatchingUp
    <3>2. Expires(call[c].has.access)'
      BY <2>1, <2>4, <3>1 DEF Catches, Expires, Timely
    <3>3. call[c].has.access.role < role + 1 /\ call[c].at = "issue" =>
              call[c].sent <= changed'[call[c].has.access.role + 1]
      <4>1. CASE call[c].has.access.role = role
        BY <2>3, <3>1, <4>1 DEF Timely
      <4>2. CASE call[c].has.access.role # role
        BY <2>2, <2>3, <3>1, <4>2 DEF Catches
      <4>3. QED
        BY <4>1, <4>2
    <3>4. QED
      BY <2>1, <3>2, <3>3 DEF Catches
  <2>7. QED
    BY <2>1, <2>5, <2>6 DEF CatchingUp
<1>13. CASE Tick
  BY <1>13 DEF Tick, Custody, CatchingUp, Catches, Expires, InFlight
<1>14. CASE UNCHANGED vars
  BY <1>14 DEF vars, Custody, CatchingUp, Catches, Expires, InFlight
<1>15. QED
  BY <1>1, <1>2, <1>3, <1>4, <1>5, <1>6, <1>7, <1>8, <1>9, <1>10, <1>11, <1>12, <1>13, <1>14 DEF Next

\* Who brings a new pair is in flight, and its token has been issued.
LEMMA OwnerFacts ==
  ASSUME Custody, NEW d \in Calls, call[d].sets # {}
  PROVE  /\ d \in InFlight /\ call[d].at \in {"serve", "answer", "refused"}
         /\ call[d].has.refresh \in Tokens /\ call[d].has.refresh # NoToken
         /\ Used(call[d].has.refresh) /\ call[d].has # SignedOut
<1>1. d \in InFlight /\ call[d].at \in {"serve", "answer", "refused"}
  BY DEF Custody, Answers, InFlight
<1>2. call[d].has \in Cookies /\ Paired(call[d].has) /\ call[d].has.refresh # NoToken
  BY <1>1, RequestFields DEF Custody, Types, Pairs
<1>3. QED
  BY <1>1, <1>2, CookieFields, SignedOutFields DEF Paired

\* Only a token that the request at work has is revoked, and what the request
\* has afterwards is the browser's, its own or new.
LEMMA OwnsFrom ==
  ASSUME Custody, NEW c \in Calls, Others(c), Owns(c)',
         \A k \in Tokens : Alive(k) =>
             token'[k].state = "LIVE" \/ (c \in InFlight /\ k = call[c].has.refresh),
         \/ jar' = jar \/ jar' = SignedOut \/ (c \in InFlight /\ jar' = call[c].has),
         \/ call'[c].at = "none"
         \/ call'[c].has.refresh = jar.refresh
         \/ c \in InFlight /\ call'[c].has.refresh = call[c].has.refresh
         \/ ~ Used(call'[c].has.refresh)
  PROVE  InOneHand'
<1>1. ASSUME NEW d \in Calls \ {c}, call[d].sets = {call[d].has}
      PROVE  LET k == call[d].has.refresh
             IN  /\ token'[k].state = "LIVE" /\ jar'.refresh # k
                 /\ \A b \in InFlight' \ {d} : call'[b].has.refresh # k
  <2> DEFINE k == call[d].has.refresh
  <2>1. k \in Tokens /\ k # NoToken /\ Used(k)
    BY <1>1, OwnerFacts
  <2>2. Alive(k) /\ jar.refresh # k /\ \A b \in InFlight \ {d} : call[b].has.refresh # k
    BY <1>1 DEF Custody, InOneHand, Owns
  <2>3. c \in InFlight => call[c].has.refresh # k
    BY <2>2
  <2> HIDE DEF k
  <2>4. token'[k].state = "LIVE"
    BY <2>1, <2>2, <2>3
  <2>5. jar'.refresh # k
    BY <2>1, <2>2, <2>3, SignedOutFields
  <2>6. ASSUME NEW b \in InFlight' \ {d}
        PROVE  call'[b].has.refresh # k
    <3>1. CASE b = c
      BY <2>1, <2>2, <2>3, <3>1 DEF InFlight
    <3>2. CASE b # c
      BY <2>2, <3>2 DEF InFlight, Others
    <3>3. QED
      BY <3>1, <3>2
  <2>7. QED
    BY <2>4, <2>5, <2>6 DEF k
<1>2. ASSUME NEW d \in Calls \ {c}
      PROVE  Owns(d)'
  <2>1. call'[d] = call[d]
    BY DEF Others
  <2>2. QED
    BY <1>1, <2>1 DEF Owns, Alive
<1>3. QED
  BY <1>2 DEF InOneHand

\* What requests and the browser have, has been issued.
LEMMA HasKnown ==
  ASSUME Custody, NEW d \in InFlight
  PROVE  /\ call[d].has.refresh \in Tokens /\ call[d].has.refresh # NoToken
         /\ Used(call[d].has.refresh)
<1>1. d \in Calls /\ call[d].has \in Cookies
  BY RequestFields DEF Custody, Types, InFlight
<1>2. call[d].has.refresh # NoToken /\ Paired(call[d].has)
  BY DEF Custody, Pairs
<1>3. QED
  BY <1>1, <1>2, CookieFields DEF Paired

\* The browser has nothing, or a token that was issued.
LEMMA JarKnown ==
  ASSUME Custody
  PROVE  jar.refresh = NoToken \/ (jar.refresh \in Tokens /\ Used(jar.refresh))
<1>1. jar \in Cookies /\ Paired(jar)
  BY DEF Custody, Types, Pairs
<1>2. QED
  BY <1>1, CookieFields DEF Paired

\* ... who has a new token, ...
LEMMA OneHandKept ==
  ASSUME Custody, [Next]_vars
  PROVE  InOneHand'
<1>1. ASSUME NEW c \in Calls, NEW kind \in {"load", "logout"}, Send(c, kind)
      PROVE  InOneHand'
  <2>1. Others(c)
    BY <1>1, SendEffect DEF Custody
  <2>2. Owns(c)'
    BY <1>1, SendEffect DEF Custody, Owns
  <2>3. \A k \in Tokens : Alive(k) =>
           token'[k].state = "LIVE" \/ (c \in InFlight /\ k = call[c].has.refresh)
    BY <1>1, SendEffect DEF Custody, Alive, InFlight
  <2>4. \/ jar' = jar \/ jar' = SignedOut \/ (c \in InFlight /\ jar' = call[c].has)
    BY <1>1, SendEffect DEF Custody, InFlight
  <2>5. \/ call'[c].at = "none"
        \/ call'[c].has.refresh = jar.refresh
        \/ c \in InFlight /\ call'[c].has.refresh = call[c].has.refresh
        \/ ~ Used(call'[c].has.refresh)
    BY <1>1, SendEffect DEF Custody, InFlight
  <2>6. QED
    BY <2>1, <2>2, <2>3, <2>4, <2>5, OwnsFrom
<1>2. ASSUME NEW c \in Calls, Login(c)
      PROVE  InOneHand'
  <2>1. Others(c)
    BY <1>2, LoginStep DEF Custody
  <2>2. Owns(c)'
    <3> DEFINE k == call'[c].has.refresh
    <3>1. k \in Tokens /\ ~ Used(k) /\ token'[k].state = "LIVE" /\ jar' = jar /\ Others(c)
      BY <1>2, LoginStep DEF Stores
    <3>2. jar.refresh # k
      BY <3>1, JarKnown DEF NoToken, Tokens
    <3>3. \A d \in InFlight' \ {c} : d \in InFlight /\ call'[d] = call[d]
      BY <3>1 DEF InFlight, Others
    <3>4. \A d \in InFlight' \ {c} : call'[d].has.refresh # k
      BY <3>1, <3>3, HasKnown
    <3>5. QED
      BY <3>1, <3>2, <3>4 DEF Owns, Alive
  <2>3. \A k \in Tokens : Alive(k) =>
           token'[k].state = "LIVE" \/ (c \in InFlight /\ k = call[c].has.refresh)
    BY <1>2, LoginStep DEF Custody, Alive, InFlight, Stores, Used
  <2>4. \/ jar' = jar \/ jar' = SignedOut \/ (c \in InFlight /\ jar' = call[c].has)
    BY <1>2, LoginStep DEF Custody, InFlight
  <2>5. \/ call'[c].at = "none"
        \/ call'[c].has.refresh = jar.refresh
        \/ c \in InFlight /\ call'[c].has.refresh = call[c].has.refresh
        \/ ~ Used(call'[c].has.refresh)
    BY <1>2, LoginStep DEF Custody, InFlight
  <2>6. QED
    BY <2>1, <2>2, <2>3, <2>4, <2>5, OwnsFrom
<1>3. ASSUME NEW c \in Calls, RefreshRead(c)
      PROVE  InOneHand'
  <2>1. Others(c)
    BY <1>3, RefreshReadEffect DEF Custody
  <2>2. Owns(c)'
    <3>1. call[c].sets = {} /\ call'[c].sets = call[c].sets
      BY <1>3, RefreshReadEffect DEF Custody, Answers
    <3>2. QED
      BY <3>1 DEF Owns
  <2>3. \A k \in Tokens : Alive(k) =>
           token'[k].state = "LIVE" \/ (c \in InFlight /\ k = call[c].has.refresh)
    BY <1>3, RefreshReadEffect DEF Custody, Alive, InFlight
  <2>4. \/ jar' = jar \/ jar' = SignedOut \/ (c \in InFlight /\ jar' = call[c].has)
    BY <1>3, RefreshReadEffect DEF Custody, InFlight
  <2>5. \/ call'[c].at = "none"
        \/ call'[c].has.refresh = jar.refresh
        \/ c \in InFlight /\ call'[c].has.refresh = call[c].has.refresh
        \/ ~ Used(call'[c].has.refresh)
    BY <1>3, RefreshReadEffect DEF Custody, InFlight
  <2>6. QED
    BY <2>1, <2>2, <2>3, <2>4, <2>5, OwnsFrom
<1>4. ASSUME NEW c \in Calls, Consume(c)
      PROVE  InOneHand'
  <2>1. Others(c)
    BY <1>4, ConsumeEffect DEF Custody
  <2>2. Owns(c)'
    <3>1. call[c].sets = {} /\ call'[c].sets = call[c].sets
      BY <1>4, ConsumeEffect DEF Custody, Answers
    <3>2. QED
      BY <3>1 DEF Owns
  <2>3. \A k \in Tokens : Alive(k) =>
           token'[k].state = "LIVE" \/ (c \in InFlight /\ k = call[c].has.refresh)
    BY <1>4, ConsumeEffect DEF Custody, Alive, InFlight, Revokes
  <2>4. \/ jar' = jar \/ jar' = SignedOut \/ (c \in InFlight /\ jar' = call[c].has)
    BY <1>4, ConsumeEffect DEF Custody, InFlight
  <2>5. \/ call'[c].at = "none"
        \/ call'[c].has.refresh = jar.refresh
        \/ c \in InFlight /\ call'[c].has.refresh = call[c].has.refresh
        \/ ~ Used(call'[c].has.refresh)
    BY <1>4, ConsumeEffect DEF Custody, InFlight
  <2>6. QED
    BY <2>1, <2>2, <2>3, <2>4, <2>5, OwnsFrom
<1>5. ASSUME NEW c \in Calls, Issue(c)
      PROVE  InOneHand'
  <2>1. Others(c)
    BY <1>5, IssueStep DEF Custody
  <2>2. Owns(c)'
    <3> DEFINE k == call'[c].has.refresh
    <3>1. k \in Tokens /\ ~ Used(k) /\ token'[k].state = "LIVE" /\ jar' = jar /\ Others(c)
      BY <1>5, IssueStep DEF Stores
    <3>2. jar.refresh # k
      BY <3>1, JarKnown DEF NoToken, Tokens
    <3>3. \A d \in InFlight' \ {c} : d \in InFlight /\ call'[d] = call[d]
      BY <3>1 DEF InFlight, Others
    <3>4. \A d \in InFlight' \ {c} : call'[d].has.refresh # k
      BY <3>1, <3>3, HasKnown
    <3>5. QED
      BY <3>1, <3>2, <3>4 DEF Owns, Alive
  <2>3. \A k \in Tokens : Alive(k) =>
           token'[k].state = "LIVE" \/ (c \in InFlight /\ k = call[c].has.refresh)
    BY <1>5, IssueStep DEF Custody, Alive, InFlight, Stores, Used
  <2>4. \/ jar' = jar \/ jar' = SignedOut \/ (c \in InFlight /\ jar' = call[c].has)
    BY <1>5, IssueStep DEF Custody, InFlight
  <2>5. \/ call'[c].at = "none"
        \/ call'[c].has.refresh = jar.refresh
        \/ c \in InFlight /\ call'[c].has.refresh = call[c].has.refresh
        \/ ~ Used(call'[c].has.refresh)
    BY <1>5, IssueStep DEF Custody, InFlight
  <2>6. QED
    BY <2>1, <2>2, <2>3, <2>4, <2>5, OwnsFrom
<1>6. ASSUME NEW c \in Calls, RefreshFails(c)
      PROVE  InOneHand'
  <2>1. Others(c)
    BY <1>6, RefreshFailsEffect DEF Custody
  <2>2. Owns(c)'
    BY <1>6, RefreshFailsEffect DEF Custody, Owns
  <2>3. \A k \in Tokens : Alive(k) =>
           token'[k].state = "LIVE" \/ (c \in InFlight /\ k = call[c].has.refresh)
    BY <1>6, RefreshFailsEffect DEF Custody, Alive, InFlight
  <2>4. \/ jar' = jar \/ jar' = SignedOut \/ (c \in InFlight /\ jar' = call[c].has)
    BY <1>6, RefreshFailsEffect DEF Custody, InFlight
  <2>5. \/ call'[c].at = "none"
        \/ call'[c].has.refresh = jar.refresh
        \/ c \in InFlight /\ call'[c].has.refresh = call[c].has.refresh
        \/ ~ Used(call'[c].has.refresh)
    BY <1>6, RefreshFailsEffect DEF Custody, InFlight
  <2>6. QED
    BY <2>1, <2>2, <2>3, <2>4, <2>5, OwnsFrom
<1>7. ASSUME NEW c \in Calls, Serve(c)
      PROVE  InOneHand'
  <2>1. Others(c)
    BY <1>7, ServeEffect DEF Custody
  <2>2. Owns(c)'
    <3>1. /\ call'[c].has = call[c].has /\ call'[c].sets = call[c].sets /\ jar' = jar
          /\ token' = token /\ Others(c)
      BY <1>7, ServeEffect DEF Custody
    <3>2. \A d \in InFlight' \ {c} : d \in InFlight /\ call'[d] = call[d]
      BY <3>1 DEF InFlight, Others
    <3>3. QED
      BY <3>1, <3>2 DEF Custody, InOneHand, Owns, Alive
  <2>3. \A k \in Tokens : Alive(k) =>
           token'[k].state = "LIVE" \/ (c \in InFlight /\ k = call[c].has.refresh)
    BY <1>7, ServeEffect DEF Custody, Alive, InFlight
  <2>4. \/ jar' = jar \/ jar' = SignedOut \/ (c \in InFlight /\ jar' = call[c].has)
    BY <1>7, ServeEffect DEF Custody, InFlight
  <2>5. \/ call'[c].at = "none"
        \/ call'[c].has.refresh = jar.refresh
        \/ c \in InFlight /\ call'[c].has.refresh = call[c].has.refresh
        \/ ~ Used(call'[c].has.refresh)
    BY <1>7, ServeEffect DEF Custody, InFlight
  <2>6. QED
    BY <2>1, <2>2, <2>3, <2>4, <2>5, OwnsFrom
<1>8. ASSUME NEW c \in Calls, Logout(c)
      PROVE  InOneHand'
  <2>1. Others(c)
    BY <1>8, LogoutEffect DEF Custody
  <2>2. Owns(c)'
    <3>1. call[c].at = "serve" /\ call'[c].has = call[c].has /\ call'[c].sets = {SignedOut}
      BY <1>8, LogoutEffect DEF Custody
    <3>2. call[c].has # SignedOut
      BY <3>1, HasKnown, SignedOutFields DEF InFlight
    <3>3. QED
      BY <3>1, <3>2 DEF Owns
  <2>3. \A k \in Tokens : Alive(k) =>
           token'[k].state = "LIVE" \/ (c \in InFlight /\ k = call[c].has.refresh)
    BY <1>8, LogoutEffect DEF Custody, Alive, InFlight, Revokes
  <2>4. \/ jar' = jar \/ jar' = SignedOut \/ (c \in InFlight /\ jar' = call[c].has)
    BY <1>8, LogoutEffect DEF Custody, InFlight
  <2>5. \/ call'[c].at = "none"
        \/ call'[c].has.refresh = jar.refresh
        \/ c \in InFlight /\ call'[c].has.refresh = call[c].has.refresh
        \/ ~ Used(call'[c].has.refresh)
    BY <1>8, LogoutEffect DEF Custody, InFlight
  <2>6. QED
    BY <2>1, <2>2, <2>3, <2>4, <2>5, OwnsFrom
<1>9. ASSUME NEW c \in Calls, LogoutUnheard(c)
      PROVE  InOneHand'
  <2>1. Others(c)
    BY <1>9, LogoutUnheardEffect DEF Custody
  <2>2. Owns(c)'
    <3>1. call[c].at = "serve" /\ call'[c].has = call[c].has /\ call'[c].sets = {SignedOut}
      BY <1>9, LogoutUnheardEffect DEF Custody
    <3>2. call[c].has # SignedOut
      BY <3>1, HasKnown, SignedOutFields DEF InFlight
    <3>3. QED
      BY <3>1, <3>2 DEF Owns
  <2>3. \A k \in Tokens : Alive(k) =>
           token'[k].state = "LIVE" \/ (c \in InFlight /\ k = call[c].has.refresh)
    BY <1>9, LogoutUnheardEffect DEF Custody, Alive, InFlight
  <2>4. \/ jar' = jar \/ jar' = SignedOut \/ (c \in InFlight /\ jar' = call[c].has)
    BY <1>9, LogoutUnheardEffect DEF Custody, InFlight
  <2>5. \/ call'[c].at = "none"
        \/ call'[c].has.refresh = jar.refresh
        \/ c \in InFlight /\ call'[c].has.refresh = call[c].has.refresh
        \/ ~ Used(call'[c].has.refresh)
    BY <1>9, LogoutUnheardEffect DEF Custody, InFlight
  <2>6. QED
    BY <2>1, <2>2, <2>3, <2>4, <2>5, OwnsFrom
<1>10. ASSUME NEW c \in Calls, Answer(c)
      PROVE  InOneHand'
  <2>1. Others(c)
    BY <1>10, AnswerEffect DEF Custody
  <2>2. Owns(c)'
    BY <1>10, AnswerEffect, DoneFields DEF Custody, Owns
  <2>3. \A k \in Tokens : Alive(k) =>
           token'[k].state = "LIVE" \/ (c \in InFlight /\ k = call[c].has.refresh)
    BY <1>10, AnswerEffect DEF Custody, Alive, InFlight
  <2>4. \/ jar' = jar \/ jar' = SignedOut \/ (c \in InFlight /\ jar' = call[c].has)
    BY <1>10, AnswerEffect DEF Custody, InFlight
  <2>5. \/ call'[c].at = "none"
        \/ call'[c].has.refresh = jar.refresh
        \/ c \in InFlight /\ call'[c].has.refresh = call[c].has.refresh
        \/ ~ Used(call'[c].has.refresh)
    BY <1>10, AnswerEffect, DoneFields DEF Custody, InFlight
  <2>6. QED
    BY <2>1, <2>2, <2>3, <2>4, <2>5, OwnsFrom
<1>11. ASSUME NEW c \in Calls, AnswerLost(c)
      PROVE  InOneHand'
  <2>1. Others(c)
    BY <1>11, AnswerLostEffect DEF Custody
  <2>2. Owns(c)'
    BY <1>11, AnswerLostEffect, DoneFields DEF Custody, Owns
  <2>3. \A k \in Tokens : Alive(k) =>
           token'[k].state = "LIVE" \/ (c \in InFlight /\ k = call[c].has.refresh)
    BY <1>11, AnswerLostEffect DEF Custody, Alive, InFlight
  <2>4. \/ jar' = jar \/ jar' = SignedOut \/ (c \in InFlight /\ jar' = call[c].has)
    BY <1>11, AnswerLostEffect DEF Custody, InFlight
  <2>5. \/ call'[c].at = "none"
        \/ call'[c].has.refresh = jar.refresh
        \/ c \in InFlight /\ call'[c].has.refresh = call[c].has.refresh
        \/ ~ Used(call'[c].has.refresh)
    BY <1>11, AnswerLostEffect, DoneFields DEF Custody, InFlight
  <2>6. QED
    BY <2>1, <2>2, <2>3, <2>4, <2>5, OwnsFrom
<1>12. CASE ChangeRole
  BY <1>12 DEF ChangeRole, Custody, InOneHand, Owns, InFlight, Alive
<1>13. CASE Tick
  BY <1>13 DEF Tick, Custody, InOneHand, Owns, InFlight, Alive
<1>14. CASE UNCHANGED vars
  BY <1>14 DEF vars, Custody, InOneHand, Owns, InFlight, Alive
<1>15. QED
  BY <1>1, <1>2, <1>3, <1>4, <1>5, <1>6, <1>7, <1>8, <1>9, <1>10, <1>11, <1>12, <1>13, <1>14 DEF Next

Coming(c) == call[c].at = "issue" \/ Returning(c)

\* The browser's cookies and the history are as they were; what was coming
\* still is, or c brings it now.
LEMMA ReplacedFrom ==
  ASSUME Custody, NEW c \in Calls, Others(c), jar' = jar, lost' = lost,
         Coming(c) => Coming(c)',
         \A k \in Tokens : Alive(k) => token'[k].state = "LIVE" \/ Coming(c)'
  PROVE  Replaced'
<1>1. CASE lost \/ jar.refresh = NoToken
  BY <1>1 DEF Replaced
<1>2. CASE jar.refresh # NoToken /\ Alive(jar.refresh)
  <2>1. jar.refresh \in Tokens
    BY <1>2, JarKnown
  <2>2. QED
    BY <1>2, <2>1 DEF Replaced, Coming, Alive, Returning
<1>3. CASE \E d \in Calls : Coming(d)
  <2>1. PICK d \in Calls : Coming(d)
    BY <1>3
  <2>2. CASE d = c
    BY <2>1, <2>2 DEF Replaced, Coming, Returning
  <2>3. CASE d # c
    BY <2>1, <2>3 DEF Replaced, Coming, Returning, Others
  <2>4. QED
    BY <2>2, <2>3
<1>4. QED
  BY <1>1, <1>2, <1>3 DEF Custody, Replaced, Coming

\* ... what becomes of the browser's, ...
LEMMA ReplacedKept ==
  ASSUME Custody, [Next]_vars
  PROVE  Replaced'
<1>1. ASSUME NEW c \in Calls, NEW kind \in {"load", "logout"}, Send(c, kind)
      PROVE  Replaced'
  <2>1. Others(c) /\ jar' = jar /\ lost' = lost
    BY <1>1, SendEffect DEF Custody
  <2>2. Coming(c) => Coming(c)'
    BY <1>1, SendEffect DEF Custody, Coming, Returning, Answers, InFlight
  <2>3. \A k \in Tokens : Alive(k) => token'[k].state = "LIVE" \/ Coming(c)'
    BY <1>1, SendEffect, <2>2 DEF Custody, Alive
  <2>4. QED
    BY <2>1, <2>2, <2>3, ReplacedFrom
<1>2. ASSUME NEW c \in Calls, Login(c)
      PROVE  Replaced'
  <2>1. Others(c) /\ jar' = jar /\ lost' = lost
    BY <1>2, LoginStep DEF Custody
  <2>2. Coming(c) => Coming(c)'
    BY <1>2, LoginStep DEF Custody, Coming, Returning, Answers, InFlight
  <2>3. \A k \in Tokens : Alive(k) => token'[k].state = "LIVE" \/ Coming(c)'
    BY <1>2, LoginStep, <2>2 DEF Custody, Alive, Stores, Used, Tokens
  <2>4. QED
    BY <2>1, <2>2, <2>3, ReplacedFrom
<1>3. ASSUME NEW c \in Calls, RefreshRead(c)
      PROVE  Replaced'
  <2>1. Others(c) /\ jar' = jar /\ lost' = lost
    BY <1>3, RefreshReadEffect DEF Custody
  <2>2. Coming(c) => Coming(c)'
    BY <1>3, RefreshReadEffect DEF Custody, Coming, Returning, Answers, InFlight
  <2>3. \A k \in Tokens : Alive(k) => token'[k].state = "LIVE" \/ Coming(c)'
    BY <1>3, RefreshReadEffect, <2>2 DEF Custody, Alive
  <2>4. QED
    BY <2>1, <2>2, <2>3, ReplacedFrom
<1>4. ASSUME NEW c \in Calls, Consume(c)
      PROVE  Replaced'
  <2>1. Others(c) /\ jar' = jar /\ lost' = lost
    BY <1>4, ConsumeEffect DEF Custody
  <2>2. Coming(c) => Coming(c)'
    BY <1>4, ConsumeEffect DEF Custody, Coming, Returning, Answers, InFlight
  <2>3. \A k \in Tokens : Alive(k) => token'[k].state = "LIVE" \/ Coming(c)'
    BY <1>4, ConsumeEffect, <2>2 DEF Custody, Alive, Revokes, Coming, Returning, Used
  <2>4. QED
    BY <2>1, <2>2, <2>3, ReplacedFrom
<1>5. ASSUME NEW c \in Calls, Issue(c)
      PROVE  Replaced'
  <2>1. Others(c) /\ jar' = jar /\ lost' = lost
    BY <1>5, IssueStep DEF Custody
  <2>2. Coming(c) => Coming(c)'
    BY <1>5, IssueStep DEF Custody, Coming, Returning, Answers, InFlight
  <2>3. \A k \in Tokens : Alive(k) => token'[k].state = "LIVE" \/ Coming(c)'
    BY <1>5, IssueStep, <2>2 DEF Custody, Alive, Stores, Used, Tokens
  <2>4. QED
    BY <2>1, <2>2, <2>3, ReplacedFrom
<1>6. ASSUME NEW c \in Calls, RefreshFails(c)
      PROVE  Replaced'
  <2>1. Others(c) /\ jar' = jar /\ token' = token
    BY <1>6, RefreshFailsEffect DEF Custody
  <2>2. CASE lost' = TRUE
    BY <2>2 DEF Replaced
  <2>3. CASE lost' # TRUE
    <3>1. lost' = lost /\ ~ Coming(c)
      BY <1>6, <2>3, RefreshFailsEffect DEF Custody, Types, Coming, Returning, Answers
    <3>2. QED
      BY <2>1, <3>1, ReplacedFrom DEF Alive
  <2>4. QED
    BY <2>2, <2>3
<1>7. ASSUME NEW c \in Calls, Serve(c)
      PROVE  Replaced'
  <2>1. Others(c) /\ jar' = jar /\ lost' = lost
    BY <1>7, ServeEffect DEF Custody
  <2>2. Coming(c) => Coming(c)'
    BY <1>7, ServeEffect DEF Custody, Coming, Returning, Answers, InFlight
  <2>3. \A k \in Tokens : Alive(k) => token'[k].state = "LIVE" \/ Coming(c)'
    BY <1>7, ServeEffect, <2>2 DEF Custody, Alive
  <2>4. QED
    BY <2>1, <2>2, <2>3, ReplacedFrom
<1>8. ASSUME NEW c \in Calls, Logout(c)
      PROVE  Replaced'
  <2>1. Others(c) /\ jar' = jar /\ lost' = lost
    BY <1>8, LogoutEffect DEF Custody
  <2>2. Coming(c) => Coming(c)'
    BY <1>8, LogoutEffect DEF Custody, Coming, Returning, Answers, InFlight
  <2>3. \A k \in Tokens : Alive(k) => token'[k].state = "LIVE" \/ Coming(c)'
    BY <1>8, LogoutEffect, <2>2 DEF Custody, Alive, Revokes, Coming, Returning, Used
  <2>4. QED
    BY <2>1, <2>2, <2>3, ReplacedFrom
<1>9. ASSUME NEW c \in Calls, LogoutUnheard(c)
      PROVE  Replaced'
  BY <1>9, LogoutUnheardEffect DEF Custody, Replaced
<1>10. ASSUME NEW c \in Calls, Answer(c)
      PROVE  Replaced'
  <2>1. /\ Others(c) /\ token' = token /\ lost' = lost /\ call'[c] = Done
        /\ call[c].at \in {"answer", "refused", "denied"}
    BY <1>10, AnswerEffect DEF Custody
  <2>2. CASE call[c].sets = {} /\ jar' = jar
    <3>1. ~ Coming(c)
      BY <2>1, <2>2 DEF Coming, Returning
    <3>2. QED
      BY <2>1, <2>2, <3>1, ReplacedFrom DEF Alive
  <2>3. CASE jar' = SignedOut
    BY <2>3, SignedOutFields DEF Replaced
  <2>4. CASE call[c].sets = {call[c].has} /\ jar' = call[c].has
    BY <2>1, <2>4 DEF Custody, InOneHand, Owns, Replaced, Alive
  <2>5. QED
    BY <1>10, <2>2, <2>3, <2>4, AnswerEffect DEF Custody
<1>11. ASSUME NEW c \in Calls, AnswerLost(c)
      PROVE  Replaced'
  <2>1. Others(c) /\ jar' = jar /\ token' = token
    BY <1>11, AnswerLostEffect DEF Custody
  <2>2. CASE lost' = TRUE
    BY <2>2 DEF Replaced
  <2>3. CASE lost' # TRUE
    <3>1. lost' = lost /\ ~ Coming(c)
      BY <1>11, <2>3, AnswerLostEffect DEF Custody, Types, Coming, Returning, Answers
    <3>2. QED
      BY <2>1, <3>1, ReplacedFrom DEF Alive
  <2>4. QED
    BY <2>2, <2>3
<1>12. CASE ChangeRole
  BY <1>12 DEF ChangeRole, Custody, Replaced, Alive, Returning
<1>13. CASE Tick
  BY <1>13 DEF Tick, Custody, Replaced, Alive, Returning
<1>14. CASE UNCHANGED vars
  BY <1>14 DEF vars, Custody, Replaced, Alive, Returning
<1>15. QED
  BY <1>1, <1>2, <1>3, <1>4, <1>5, <1>6, <1>7, <1>8, <1>9, <1>10, <1>11, <1>12, <1>13, <1>14 DEF Next

\* Tokens are at most revoked: no session gets a second one.
LEMMA OneAliveStays ==
  ASSUME OneAlive,
         \A k \in Tokens : /\ token'[k].session = token[k].session
                           /\ token'[k].state = "LIVE" => Alive(k)
  PROVE  OneAlive'
BY DEF OneAlive, Alive, Tokens

\* The one that lives is revoked: the session is cut.
LEMMA CutBy ==
  ASSUME OneAlive, NEW k \in Tokens, Alive(k), Revokes(k)
  PROVE  /\ \A j \in Tokens : token'[j].session = token'[k].session => token'[j].state # "LIVE"
         /\ OneAlive'
<1>1. \A j \in Tokens : /\ token'[j].session = token[j].session
                        /\ token'[j].state = "LIVE" => Alive(j) /\ j # k
  BY DEF Revokes, Alive, Used
<1>2. OneAlive'
  BY <1>1, OneAliveStays
<1>3. QED
  BY <1>1, <1>2 DEF OneAlive

\* A step of the only request in flight, or of the first.
LEMMA TurnsFrom ==
  ASSUME Custody, NEW c \in Calls, Others(c),
         calm' => calm /\ (c \in InFlight \/ InFlight = {}),
         calm' => OneAlive' /\ Turn(c)'
  PROVE  TakingTurns'
<1> SUFFICES ASSUME calm'
             PROVE  (\A a, b \in InFlight : a = b)' /\ OneAlive' /\ (\A d \in InFlight : Turn(d))'
  BY DEF TakingTurns
<1>1. \A d \in InFlight' : d = c
  <2>1. ASSUME NEW d \in InFlight', d # c
        PROVE  FALSE
    <3>1. d \in InFlight
      BY <2>1 DEF InFlight, Others
    <3>2. \A a, b \in InFlight : a = b
      BY DEF Custody, TakingTurns
    <3>3. QED
      BY <2>1, <3>1, <3>2
  <2>2. QED
    BY <2>1
<1>2. QED
  BY <1>1

\* ... and how a session goes on while requests take turns.
LEMMA TurnsKept ==
  ASSUME Custody, [Next]_vars
  PROVE  TakingTurns'
<1>1. ASSUME NEW c \in Calls, NEW kind \in {"load", "logout"}, Send(c, kind)
      PROVE  TakingTurns'
  <2>1. Others(c) /\ (calm' => calm /\ (c \in InFlight \/ InFlight = {}))
    BY <1>1, SendEffect DEF Custody, InFlight
  <2>2. SUFFICES ASSUME calm' PROVE OneAlive' /\ Turn(c)'
    BY <2>1, TurnsFrom
  <2>3. OneAlive'
    BY <1>1, <2>1, <2>2, SendEffect DEF Custody, TakingTurns, OneAlive, Alive
  <2>4. Turn(c)'
    <3>1. /\ call'[c].at \in {"refresh", "serve"} /\ call'[c].has = jar /\ token' = token
          /\ lost' = lost /\ InFlight = {} /\ jar.refresh # NoToken
      BY <1>1, <2>1, <2>2, SendEffect DEF Custody
    <3>2. \A d \in Calls : ~ Coming(d)
      BY <3>1, OwnerFacts DEF Coming, Returning, InFlight
    <3>3. lost \/ Alive(jar.refresh)
      BY <3>1, <3>2 DEF Custody, Replaced, Coming
    <3>4. QED
      BY <3>1, <3>3 DEF Turn, Alive
  <2>5. QED
    BY <2>3, <2>4
<1>2. ASSUME NEW c \in Calls, Login(c)
      PROVE  TakingTurns'
  <2>1. Others(c) /\ (calm' => calm /\ (c \in InFlight \/ InFlight = {}))
    BY <1>2, LoginStep DEF Custody, InFlight
  <2>2. SUFFICES ASSUME calm' PROVE OneAlive' /\ Turn(c)'
    BY <2>1, TurnsFrom
  <2>3. OneAlive'
    <3> DEFINE k == call'[c].has.refresh
    <3>1. /\ k \in Tokens /\ ~ Used(k) /\ token'[k].state = "LIVE"
          /\ token'[k].session = call'[c].has.refresh
          /\ \A j \in Tokens \ {k} : token'[j] = token[j]
          /\ \A j \in Tokens : Used(j) => j < k
      BY <1>2, LoginStep DEF Stores
    <3>2. \A j \in Tokens \ {k} : Alive(j) => token[j].session # token'[k].session
      <4>1. \A j \in Tokens : Alive(j) => Used(j) /\ j < k /\ token[j].session \in 1 .. j
        BY <3>1 DEF Custody, SessionsOpened, Alive, Used
      <4>2. QED
        BY <3>1, <4>1 DEF Tokens
    <3>3. \A j \in Tokens : token'[j].state = "LIVE" =>
              j = k \/ (Alive(j) /\ token'[j] = token[j] /\ token[j].session # token'[k].session)
      BY <3>1, <3>2 DEF Alive
    <3>4. OneAlive
      BY <2>1, <2>2 DEF Custody, TakingTurns
    <3> HIDE DEF k
    <3>5. QED
      BY <3>1, <3>3, <3>4 DEF OneAlive, Alive
  <2>4. Turn(c)'
    BY <1>2, LoginStep DEF Custody, Turn, Alive
  <2>5. QED
    BY <2>3, <2>4
<1>3. ASSUME NEW c \in Calls, RefreshRead(c)
      PROVE  TakingTurns'
  <2>1. Others(c) /\ (calm' => calm /\ (c \in InFlight \/ InFlight = {}))
    BY <1>3, RefreshReadEffect DEF Custody, InFlight
  <2>2. SUFFICES ASSUME calm' PROVE OneAlive' /\ Turn(c)'
    BY <2>1, TurnsFrom
  <2>3. OneAlive'
    BY <1>3, <2>1, <2>2, RefreshReadEffect DEF Custody, TakingTurns, OneAlive, Alive
  <2>4. Turn(c)'
    BY <1>3, RefreshReadEffect DEF Custody, Turn, Alive
  <2>5. QED
    BY <2>3, <2>4
<1>4. ASSUME NEW c \in Calls, Consume(c)
      PROVE  TakingTurns'
  <2>1. Others(c) /\ (calm' => calm /\ (c \in InFlight \/ InFlight = {}))
    BY <1>4, ConsumeEffect DEF Custody, InFlight
  <2>2. SUFFICES ASSUME calm' PROVE OneAlive' /\ Turn(c)'
    BY <2>1, TurnsFrom
  <2>3. OneAlive'
    <3>1. call[c].at = "consume" /\ c \in InFlight /\ Revokes(call[c].has.refresh)
      BY <1>4, ConsumeEffect DEF Custody, InFlight
    <3>2. OneAlive /\ Alive(call[c].has.refresh) /\ call[c].has.refresh \in Tokens
      BY <2>1, <2>2, <3>1, HasKnown DEF Custody, TakingTurns, Turn
    <3>3. QED
      BY <3>1, <3>2, CutBy
  <2>4. Turn(c)'
    <3>1. /\ call[c].at = "consume" /\ c \in InFlight /\ Revokes(call[c].has.refresh)
          /\ call'[c].at = "issue" /\ call'[c].has.refresh = call[c].has.refresh
      BY <1>4, ConsumeEffect DEF Custody, InFlight
    <3>2. OneAlive /\ Alive(call[c].has.refresh) /\ call[c].has.refresh \in Tokens
      BY <2>1, <2>2, <3>1, HasKnown DEF Custody, TakingTurns, Turn
    <3>3. Cut(call[c].has.refresh)'
      BY <3>1, <3>2, CutBy DEF Cut, Alive, Tokens
    <3>4. QED
      BY <3>1, <3>3 DEF Turn, Cut, Alive, Tokens
  <2>5. QED
    BY <2>3, <2>4
<1>5. ASSUME NEW c \in Calls, Issue(c)
      PROVE  TakingTurns'
  <2>1. Others(c) /\ (calm' => calm /\ (c \in InFlight \/ InFlight = {}))
    BY <1>5, IssueStep DEF Custody, InFlight
  <2>2. SUFFICES ASSUME calm' PROVE OneAlive' /\ Turn(c)'
    BY <2>1, TurnsFrom
  <2>3. OneAlive'
    <3> DEFINE k == call'[c].has.refresh
    <3>1. /\ k \in Tokens /\ ~ Used(k) /\ token'[k].state = "LIVE"
          /\ token'[k].session = token[call[c].has.refresh].session
          /\ \A j \in Tokens \ {k} : token'[j] = token[j]
          /\ \A j \in Tokens : Used(j) => j < k
      BY <1>5, IssueStep DEF Stores
    <3>2. \A j \in Tokens \ {k} : Alive(j) => token[j].session # token'[k].session
      <4>1. call[c].at = "issue" /\ c \in InFlight
        BY <1>5, IssueStep DEF InFlight
      <4>2. Cut(call[c].has.refresh)
        BY <2>1, <2>2, <4>1 DEF Custody, TakingTurns, Turn
      <4>3. QED
        BY <3>1, <4>2 DEF Cut
    <3>3. \A j \in Tokens : token'[j].state = "LIVE" =>
              j = k \/ (Alive(j) /\ token'[j] = token[j] /\ token[j].session # token'[k].session)
      BY <3>1, <3>2 DEF Alive
    <3>4. OneAlive
      BY <2>1, <2>2 DEF Custody, TakingTurns
    <3> HIDE DEF k
    <3>5. QED
      BY <3>1, <3>3, <3>4 DEF OneAlive, Alive
  <2>4. Turn(c)'
    BY <1>5, IssueStep DEF Turn, Alive, Stores
  <2>5. QED
    BY <2>3, <2>4
<1>6. ASSUME NEW c \in Calls, RefreshFails(c)
      PROVE  TakingTurns'
  <2>1. Others(c) /\ (calm' => calm /\ (c \in InFlight \/ InFlight = {}))
    BY <1>6, RefreshFailsEffect DEF Custody, InFlight
  <2>2. SUFFICES ASSUME calm' PROVE OneAlive' /\ Turn(c)'
    BY <2>1, TurnsFrom
  <2>3. OneAlive'
    BY <1>6, <2>1, <2>2, RefreshFailsEffect DEF Custody, TakingTurns, OneAlive, Alive
  <2>4. Turn(c)'
    BY <1>6, RefreshFailsEffect DEF Custody, Turn, Alive
  <2>5. QED
    BY <2>3, <2>4
<1>7. ASSUME NEW c \in Calls, Serve(c)
      PROVE  TakingTurns'
  <2>1. Others(c) /\ (calm' => calm /\ (c \in InFlight \/ InFlight = {}))
    BY <1>7, ServeEffect DEF Custody, InFlight
  <2>2. SUFFICES ASSUME calm' PROVE OneAlive' /\ Turn(c)'
    BY <2>1, TurnsFrom
  <2>3. OneAlive'
    BY <1>7, <2>1, <2>2, ServeEffect DEF Custody, TakingTurns, OneAlive, Alive
  <2>4. Turn(c)'
    BY <1>7, ServeEffect DEF Custody, Turn, Alive
  <2>5. QED
    BY <2>3, <2>4
<1>8. ASSUME NEW c \in Calls, Logout(c)
      PROVE  TakingTurns'
  <2>1. Others(c) /\ (calm' => calm /\ (c \in InFlight \/ InFlight = {}))
    BY <1>8, LogoutEffect DEF Custody, InFlight
  <2>2. SUFFICES ASSUME calm' PROVE OneAlive' /\ Turn(c)'
    BY <2>1, TurnsFrom
  <2>3. OneAlive'
    <3>1. OneAlive /\ call[c].has.refresh \in Tokens
      BY <1>8, <2>1, <2>2, LogoutEffect, HasKnown DEF Custody, TakingTurns, InFlight
    <3>2. QED
      BY <1>8, <3>1, LogoutEffect, OneAliveStays DEF Custody, Revokes, Alive
  <2>4. Turn(c)'
    <3>1. /\ call[c].at = "serve" /\ c \in InFlight /\ Revokes(call[c].has.refresh)
          /\ call'[c].at = "answer" /\ call'[c].has = call[c].has /\ lost' = lost
          /\ call'[c].sets = {SignedOut}
      BY <1>8, LogoutEffect DEF Custody, InFlight
    <3>2. OneAlive /\ (~ lost => Alive(call[c].has.refresh)) /\ call[c].has.refresh \in Tokens
      BY <2>1, <2>2, <3>1, HasKnown DEF Custody, TakingTurns, Turn
    <3>3. ~ lost => Cut(call[c].has.refresh)'
      BY <3>1, <3>2, CutBy DEF Cut, Alive, Tokens
    <3>4. QED
      BY <3>1, <3>3 DEF Turn, Cut, Alive, Tokens
  <2>5. QED
    BY <2>3, <2>4
<1>9. ASSUME NEW c \in Calls, LogoutUnheard(c)
      PROVE  TakingTurns'
  <2>1. Others(c) /\ (calm' => calm /\ (c \in InFlight \/ InFlight = {}))
    BY <1>9, LogoutUnheardEffect DEF Custody, InFlight
  <2>2. SUFFICES ASSUME calm' PROVE OneAlive' /\ Turn(c)'
    BY <2>1, TurnsFrom
  <2>3. OneAlive'
    <3>1. OneAlive /\ token' = token
      BY <1>9, <2>1, <2>2, LogoutUnheardEffect DEF Custody, TakingTurns
    <3>2. QED
      BY <3>1, OneAliveStays DEF Alive
  <2>4. Turn(c)'
    BY <1>9, LogoutUnheardEffect DEF Custody, Turn, Alive
  <2>5. QED
    BY <2>3, <2>4
<1>10. ASSUME NEW c \in Calls, Answer(c)
      PROVE  TakingTurns'
  <2>1. Others(c) /\ (calm' => calm /\ (c \in InFlight \/ InFlight = {}))
    BY <1>10, AnswerEffect DEF Custody, InFlight
  <2>2. SUFFICES ASSUME calm' PROVE OneAlive' /\ Turn(c)'
    BY <2>1, TurnsFrom
  <2>3. OneAlive'
    BY <1>10, <2>1, <2>2, AnswerEffect DEF Custody, TakingTurns, OneAlive, Alive
  <2>4. Turn(c)'
    BY <1>10, AnswerEffect, DoneFields DEF Custody, Turn, Alive
  <2>5. QED
    BY <2>3, <2>4
<1>11. ASSUME NEW c \in Calls, AnswerLost(c)
      PROVE  TakingTurns'
  <2>1. Others(c) /\ (calm' => calm /\ (c \in InFlight \/ InFlight = {}))
    BY <1>11, AnswerLostEffect DEF Custody, InFlight
  <2>2. SUFFICES ASSUME calm' PROVE OneAlive' /\ Turn(c)'
    BY <2>1, TurnsFrom
  <2>3. OneAlive'
    BY <1>11, <2>1, <2>2, AnswerLostEffect DEF Custody, TakingTurns, OneAlive, Alive
  <2>4. Turn(c)'
    BY <1>11, AnswerLostEffect, DoneFields DEF Custody, Turn, Alive
  <2>5. QED
    BY <2>3, <2>4
<1>12. CASE ChangeRole
  BY <1>12 DEF ChangeRole, Custody, TakingTurns, OneAlive, Turn, Cut, Alive, InFlight
<1>13. CASE Tick
  BY <1>13 DEF Tick, Custody, TakingTurns, OneAlive, Turn, Cut, Alive, InFlight
<1>14. CASE UNCHANGED vars
  BY <1>14 DEF vars, Custody, TakingTurns, OneAlive, Turn, Cut, Alive, InFlight
<1>15. QED
  BY <1>1, <1>2, <1>3, <1>4, <1>5, <1>6, <1>7, <1>8, <1>9, <1>10, <1>11, <1>12, <1>13, <1>14 DEF Next

\* It holds before anything is issued.
LEMMA InitCustody == Init => Custody
<1> SUFFICES ASSUME Init PROVE Custody
  OBVIOUS
<1>1. /\ \A c \in Calls : call[c] = Done /\ call[c].at = "none" /\ call[c].sets = {}
      /\ \A k \in Tokens : token[k] = NoRow
      /\ jar = SignedOut /\ now = 0 /\ role = 0 /\ lost = FALSE /\ calm = TRUE
      /\ InFlight = {} /\ Refreshing = {}
  BY DoneFields DEF Init, InFlight, Refreshing
<1>2. NoRow \in Row /\ NoRow.state = "NONE" /\ NoRow.session = NoToken
  BY DEF NoRow, Row, NoToken
<1>3. Types
  <2>1. changed \in [0 .. MaxRole -> 0 .. MaxTime] /\ 0 \in 0 .. MaxTime /\ 0 \in 0 .. MaxRole
    BY Bounds DEF Init
  <2>2. token \in [Tokens -> Row] /\ call \in [Calls -> Request]
    BY <1>2, DoneFields DEF Init
  <2>3. QED
    BY <1>1, <2>1, <2>2, SignedOutFields DEF Types
<1>4. Issued
  <2>1. Cardinality(Refreshing) = 0
    BY <1>1, FS_EmptySet
  <2>2. IssuedUpTo(0)
    BY <1>1, <1>2, <2>1, Bounds DEF IssuedUpTo, Used, Tokens
  <2>3. QED
    BY <2>2, Bounds DEF Issued
<1>5. SessionsOpened
  BY <1>1, <1>2 DEF SessionsOpened, Used
<1>6. Pairs
  BY <1>1, SignedOutFields DEF Pairs, Paired
<1>7. Answers
  BY <1>1 DEF Answers
<1>8. Lifetimes /\ CatchingUp
  BY <1>1, SignedOutFields, Bounds DEF Lifetimes, CatchingUp, Expires
<1>9. InOneHand
  BY <1>1 DEF InOneHand, Owns
<1>10. Replaced
  BY <1>1, SignedOutFields DEF Replaced
<1>11. TakingTurns
  BY <1>1, <1>2 DEF TakingTurns, OneAlive, Alive
<1>12. QED
  BY <1>3, <1>4, <1>5, <1>6, <1>7, <1>8, <1>9, <1>10, <1>11 DEF Custody

\* The custody of tokens is kept, by every step of any number of tabs.
THEOREM InCustody == Spec => []Custody
<1>1. Custody /\ [Next]_vars => Custody'
  BY TypesKept, AnswersKept, SessionsKept, IssuedKept, PairsKept, LifetimesKept,
     CatchingUpKept, OneHandKept, ReplacedKept, TurnsKept DEF Custody
<1>2. QED
  BY InitCustody, <1>1, PTL DEF Spec

-----------------------------------------------------------------------------
(* What it is good for.                                                    *)

\* Rows, cookies and requests are of their types; a token's session is never
\* younger than the token, and an access token never outlives its lifetime.
THEOREM Typing == Spec => []TypeOK
<1>1. ASSUME Custody PROVE TypeOK
  <2>1. Types /\ SessionsOpened /\ Lifetimes /\ Answers
    BY <1>1 DEF Custody
  <2>2. \A k \in Tokens : /\ token[k].state \in {"NONE", "LIVE", "REVOKED"}
                          /\ token[k].state # "NONE" => token[k].session \in 1 .. k
    BY <2>1 DEF Types, Row, SessionsOpened, Used
  <2>3. ASSUME NEW c \in Calls
        PROVE  /\ call[c].kind \in {"none", "load", "logout", "login"}
               /\ call[c].at \in {"none", "refresh", "consume", "issue", "serve", "answer",
                                  "denied", "refused"}
               /\ call[c].has \in Cookies
               /\ Cardinality(call[c].sets) <= 1 /\ call[c].sets \subseteq Cookies
    <3>1. Cardinality(call[c].sets) \in {0, 1}
      <4>1. call[c].sets = {} \/ \E x : call[c].sets = {x}
        BY <2>1 DEF Answers
      <4>2. QED
        BY <4>1, FS_EmptySet, FS_Singleton
    <3>2. QED
      BY <2>1, <3>1, RequestFields DEF Types, Places
  <2>4. QED
    BY <2>1, <2>2, <2>3 DEF Types, Lifetimes, TypeOK
<1>2. QED
  BY InCustody, <1>1, PTL

\* However requests race, once they are all answered the browser's refresh
\* token is a live one, if no failure or lost answer has cost it the session:
\* two tabs that refresh the same token cannot lock the user out.
THEOREM BrowserNotLockedOut == Spec => []JarIsLive
<1>1. ASSUME Custody PROVE JarIsLive
  <2>1. SUFFICES ASSUME InFlight = {}, ~ lost, jar.refresh # NoToken
                 PROVE  token[jar.refresh].state = "LIVE"
    BY DEF JarIsLive
  <2>2. \A c \in Calls : ~ Coming(c)
    BY <1>1, <2>1, OwnerFacts DEF Coming, Returning, InFlight
  <2>3. QED
    BY <1>1, <2>1, <2>2 DEF Custody, Replaced, Coming, Alive
<1>2. QED
  BY InCustody, <1>1, PTL

\* A refresh token is single-use: while requests take turns no session ever
\* has two that live, whatever fails on the way.
THEOREM SingleUse == Spec => []OneTokenPerSession
<1>1. ASSUME Custody PROVE OneTokenPerSession
  <2>1. SUFFICES ASSUME calm, NEW s \in Tokens
                 PROVE  Cardinality({k \in Tokens : token[k].session = s
                                                    /\ token[k].state = "LIVE"}) <= 1
    BY DEF OneTokenPerSession
  <2> DEFINE live == {k \in Tokens : token[k].session = s /\ token[k].state = "LIVE"}
  <2>2. \A j, k \in live : j = k
    BY <1>1, <2>1 DEF Custody, TakingTurns, OneAlive, Alive
  <2>3. live = {} \/ \E k : live = {k}
    BY <2>2
  <2> HIDE DEF live
  <2>4. Cardinality(live) \in {0, 1}
    BY <2>3, FS_EmptySet, FS_Singleton
  <2>5. QED
    BY <2>4 DEF live
<1>2. QED
  BY InCustody, <1>1, PTL

\* A page that the middleware lets through is served: the margin outlasts
\* every request that is not given up.
THEOREM NoPageRefused == Spec => []PagesAreServed
<1>1. ASSUME Custody PROVE PagesAreServed
  BY <1>1 DEF Custody, Lifetimes, Timely, PagesAreServed, InFlight
<1>2. QED
  BY InCustody, <1>1, PTL

\* An access token with revoked permissions is accepted for its lifetime and
\* the time of one refresh at most.
THEOREM StalePermissionsEnd == Spec => PermissionsCatchUp
<1> DEFINE A == \A c \in Calls :
                  LET v == call[c].has.access.role
                  IN  (v < role /\ Serve(c) /\ call'[c].at = "answer") =>
                        now < changed[v + 1] + AccessTtl + Slow
<1>1. ASSUME Custody PROVE A
  <2>1. ASSUME NEW c \in Calls, call[c].has.access.role < role, Serve(c), call'[c].at = "answer"
        PROVE  now < changed[call[c].has.access.role + 1] + AccessTtl + Slow
    <3>1. call[c].at = "serve" /\ now < call[c].has.access.exp
      BY <1>1, <2>1, ServeEffect DEF Custody
    <3>2. Expires(call[c].has.access)
      BY <1>1, <3>1 DEF Custody, CatchingUp, Catches, InFlight
    <3>3. /\ now \in Nat /\ call[c].has.access.exp \in Nat
          /\ changed[call[c].has.access.role + 1] \in Nat
      BY <1>1, <2>1, Times DEF Custody
    <3>4. QED
      BY <2>1, <3>1, <3>2, <3>3, Bounds DEF Expires
  <2>2. QED
    BY <2>1
<1>2. QED
  BY InCustody, <1>1, PTL DEF PermissionsCatchUp

\* A logout that nothing overlaps with leaves nothing of its session, in the
\* table or in the browser.
THEOREM LoggedOutForGood == Spec => LogoutIsFinal
<1> DEFINE A == \A c \in Calls :
        LET session == token[call[c].has.refresh].session
        IN  (call[c].kind = "logout" /\ call[c].at = "answer" /\ calm /\ ~ lost /\ Answer(c)) =>
                /\ jar' = SignedOut
                /\ \A k \in Tokens : token[k].session = session => token[k].state = "REVOKED"
<1>1. ASSUME Custody PROVE A
  <2>1. ASSUME NEW c \in Calls, call[c].kind = "logout", call[c].at = "answer", calm, ~ lost,
               Answer(c)
        PROVE  /\ jar' = SignedOut
               /\ \A k \in Tokens : token[k].session = token[call[c].has.refresh].session =>
                      token[k].state = "REVOKED"
    <3>1. c \in InFlight
      BY <2>1 DEF InFlight
    <3>2. Cut(call[c].has.refresh) /\ call[c].sets = {SignedOut}
      BY <1>1, <2>1, <3>1 DEF Custody, TakingTurns, Turn
    <3>3. jar' = SignedOut
      BY <2>1, <3>2, ChooseOne DEF Answer
    <3>4. call[c].has.refresh \in Tokens /\ Used(call[c].has.refresh)
      BY <1>1, <3>1, HasKnown
    <3>5. ASSUME NEW k \in Tokens, token[k].session = token[call[c].has.refresh].session
          PROVE  token[k].state = "REVOKED"
      <4>1. Used(k)
        <5>1. token[k].session \in 1 .. call[c].has.refresh
          BY <1>1, <3>4, <3>5 DEF Custody, SessionsOpened
        <5>2. token[k].session # NoToken
          BY <3>4, <5>1 DEF Tokens, NoToken
        <5>3. QED
          BY <1>1, <5>2 DEF Custody, SessionsOpened
      <4>2. ~ Alive(k)
        BY <3>2, <3>5 DEF Cut
      <4>3. QED
        BY <1>1, <4>1, <4>2 DEF Custody, Types, Row, Used, Alive
    <3>6. QED
      BY <3>3, <3>5
  <2>2. QED
    BY <2>1
<1>2. QED
  BY InCustody, <1>1, PTL DEF LogoutIsFinal

=============================================================================
