------------------------------ MODULE Session ------------------------------
(***************************************************************************)
(* A browser's session: the refresh tokens of services/identity (issue,     *)
(* rotation, replay handling, logout) and the tabs of apps/web that share   *)
(* one cookie jar.  A rotation is not one transaction: the old token is     *)
(* claimed, then the new one is inserted, then the answer travels back.     *)
(*                                                                         *)
(* The refresh cookie and the CSRF cookie are always set and cleared by the *)
(* same answer, so one number stands for both: the token they belong to.    *)
(***************************************************************************)
EXTENDS Integers, FiniteSets

CONSTANTS
  Tabs,
  Grace,        \* REPLAY_GRACE_MS
  RoundTrip,    \* how long a refresh may be under way
  TokenTtl,     \* REFRESH_TOKEN_TTL_DAYS, of the row and of the cookie
  MaxTokens,    \* bound on refresh tokens issued
  MaxTick,      \* bound on the clock
  MaxInterruptions, \* bound on logouts, revocations, deaths and lost answers
  SameOrigin    \* whether document.cookie shows the CSRF cookie to the tab

ASSUME SessionAssumption ==
  /\ {Grace, TokenTtl, MaxTokens, MaxInterruptions} \subseteq Nat \ {0} /\ {RoundTrip, MaxTick} \subseteq Nat
  /\ 2 * RoundTrip < Grace      \* two overlapping refreshes fit into the window
  /\ RoundTrip < TokenTtl       \* a token outlives the answer that carries it
  /\ SameOrigin \in BOOLEAN

VARIABLES
  tokens,     \* identity.refresh_tokens; state "none" before it is issued
  issued,     \* tokens issued so far
  jar,        \* the browser's cookies; 0 when there are none
  tabs,       \* what each tab holds in memory
  flights,    \* the refresh each tab has in flight
  tick,
  interruptions \* observer: logouts, deaths, lost answers, tokens that expired under way

sessionVars == <<tokens, issued, jar, tabs, flights, tick, interruptions>>

TokenIds == 1 .. MaxTokens
RefreshTokenRow == [state : {"none", "live", "revoked"}, chain : 0 .. MaxTokens,
                    at : 0 .. MaxTick, next : 0 .. MaxTokens,
                    expires : 0 .. MaxTick + TokenTtl]
TabState == [status : {"loading", "authenticated", "unauthenticated"}, csrf : 0 .. MaxTokens]
NoFlight == [step |-> "no", cookie |-> 0, csrf |-> 0, new |-> 0, since |-> 0]

SessionTypeOK ==
  /\ tokens \in [TokenIds -> RefreshTokenRow]
  /\ issued \in 0 .. MaxTokens /\ jar \in 0 .. MaxTokens
  /\ tabs \in [Tabs -> TabState]
  /\ flights \in [Tabs -> [step : {"no", "sent", "claimed", "answered", "refused"},
                           cookie : 0 .. MaxTokens, csrf : 0 .. MaxTokens,
                           new : 0 .. MaxTokens, since : 0 .. MaxTick]]
  /\ tick \in 0 .. MaxTick /\ interruptions \in 0 .. MaxInterruptions

SessionInit ==
  /\ tokens = [i \in TokenIds |-> [state |-> "none", chain |-> 0, at |-> 0, next |-> 0,
                                  expires |-> 0]]
  /\ issued = 0 /\ jar = 0
  /\ tabs = [t \in Tabs |-> [status |-> "loading", csrf |-> 0]]
  /\ flights = [t \in Tabs |-> NoFlight]
  /\ tick = 0 /\ interruptions = 0

Live(i) == i # 0 /\ tokens[i].state = "live"
Revoked(row) == [row EXCEPT !.state = "revoked", !.at = tick]

Interrupt == interruptions < MaxInterruptions /\ interruptions' = interruptions + 1

---------------------------------------------------------------------------
(* apps/web: the tab.                                                      *)

\* tokenStorage.getCsrfToken: the copy in memory, else the cookie if visible.
CsrfHeader(t) == IF tabs[t].csrf # 0 THEN tabs[t].csrf ELSE IF SameOrigin THEN jar ELSE 0

\* refreshSession, on the first load of the tab or on a 401: single-flight.
SendRefresh(t) ==
  /\ flights[t].step = "no" /\ tabs[t].status # "unauthenticated"
  /\ flights' = [flights EXCEPT ![t] = [step |-> "sent", cookie |-> jar, csrf |-> CsrfHeader(t),
                                          new |-> 0, since |-> tick]]
  /\ UNCHANGED <<tokens, issued, jar, tabs, tick, interruptions>>

SignedIn(i) == [status |-> "authenticated", csrf |-> i]
SignedOut == [status |-> "unauthenticated", csrf |-> 0]

\* Set-Cookie, then tokenStorage.set.
TakeAnswer(t) ==
  /\ flights[t].step = "answered"
  /\ jar' = flights[t].new
  /\ tabs' = [tabs EXCEPT ![t] = SignedIn(flights[t].new)]
  /\ flights' = [flights EXCEPT ![t] = NoFlight]
  /\ UNCHANGED <<tokens, issued, tick, interruptions>>

\* The catch branch: a 401, a 403 and a network failure all sign the tab out.
TakeRefusal(t) ==
  /\ flights[t].step = "refused"
  /\ tabs' = [tabs EXCEPT ![t] = SignedOut]
  /\ flights' = [flights EXCEPT ![t] = NoFlight]
  /\ UNCHANGED <<tokens, issued, jar, tick, interruptions>>

LoseAnswer(t) ==
  /\ flights[t].step = "answered"
  /\ tabs' = [tabs EXCEPT ![t] = SignedOut]
  /\ flights' = [flights EXCEPT ![t] = NoFlight]
  /\ Interrupt
  /\ UNCHANGED <<tokens, issued, jar, tick>>

\* A reload: the copy in memory is gone, the cookies are not.
Reload(t) ==
  /\ flights[t].step = "no"
  /\ tabs' = [tabs EXCEPT ![t] = [status |-> "loading", csrf |-> 0]]
  /\ UNCHANGED <<tokens, issued, jar, flights, tick, interruptions>>

---------------------------------------------------------------------------
(* services/identity: the token service.                                   *)

\* issuePair: one INSERT; chain is session_started_at.
IssuePair(rows, chain) ==
  [rows EXCEPT ![issued + 1] = [state |-> "live", chain |-> chain, at |-> 0, next |-> 0,
                                 expires |-> tick + TokenTtl]]

\* verify-otp: a new session, its cookies set by the same answer.
Login(t) ==
  /\ flights[t].step = "no" /\ tabs[t].status = "unauthenticated"
  /\ issued < MaxTokens
  /\ tokens' = IssuePair(tokens, issued + 1)
  /\ issued' = issued + 1 /\ jar' = issued + 1
  /\ tabs' = [tabs EXCEPT ![t] = SignedIn(issued + 1)]
  /\ UNCHANGED <<flights, tick, interruptions>>

\* evaluateCsrf, with an allowed origin: a token that is supplied must match.
CsrfPasses(f) == f.csrf = 0 \/ f.csrf = f.cookie

RefuseRequest(t) ==
  /\ flights[t].step = "sent"
  /\ flights[t].cookie = 0 \/ ~CsrfPasses(flights[t])
  /\ flights' = [flights EXCEPT ![t].step = "refused"]
  /\ UNCHANGED <<tokens, issued, jar, tabs, tick, interruptions>>

\* Mutant: the row was checked when it was loaded, and is updated by its id.
ClaimsLoaded(i) == tokens[i].state # "none"
\* rotate: UPDATE ... WHERE revoked_at IS NULL AND expires_at > now() RETURNING.
Claims(i) == Live(i) /\ tick < tokens[i].expires

ClaimToken(t) ==
  LET i == flights[t].cookie IN
  /\ flights[t].step = "sent" /\ i # 0 /\ CsrfPasses(flights[t])
  /\ Claims(i)
  /\ issued < MaxTokens
  /\ tokens' = [tokens EXCEPT ![i] = Revoked(@)]
  /\ flights' = [flights EXCEPT ![t].step = "claimed"]
  /\ UNCHANGED <<issued, jar, tabs, tick, interruptions>>

\* The new pair, and replaced_by_token_id on the old row.
IssueNext(t) ==
  LET i == flights[t].cookie IN
  /\ flights[t].step = "claimed" /\ issued < MaxTokens
  /\ tokens' = [IssuePair(tokens, tokens[i].chain) EXCEPT ![i].next = issued + 1]
  /\ issued' = issued + 1
  /\ flights' = [flights EXCEPT ![t].step = "answered", ![t].new = issued + 1]
  /\ UNCHANGED <<jar, tabs, tick, interruptions>>

\* The process dies, or a statement throws, between the claim and the insert.
RotationDies(t) ==
  /\ flights[t].step = "claimed"
  /\ flights' = [flights EXCEPT ![t].step = "refused"]
  /\ Interrupt
  /\ UNCHANGED <<tokens, issued, jar, tabs, tick>>

\* rotatedRecently.
RotatedRecently(i) == tokens[i].state = "revoked" /\ tick - tokens[i].at < Grace

RevokeAllForUser ==
  [i \in TokenIds |-> IF tokens[i].state = "live" THEN Revoked(tokens[i]) ELSE tokens[i]]

\* handleUnclaimableToken.
Unclaimable(t) ==
  LET i == flights[t].cookie IN
  /\ flights[t].step = "sent" /\ i # 0 /\ CsrfPasses(flights[t]) /\ ~Claims(i)
  /\ tokens' = IF RotatedRecently(i) THEN tokens ELSE RevokeAllForUser
  /\ flights' = [flights EXCEPT ![t].step = "refused"]
  /\ UNCHANGED <<issued, jar, tabs, tick, interruptions>>

\* The web sends a logout no bearer: with a cookie it must pass evaluateCsrf.
LogoutPasses(t) == jar = 0 \/ CsrfPasses([cookie |-> jar, csrf |-> CsrfHeader(t)])

\* logout: revokeAndIdentify sets revoked_at again if it was set; the answer
\* clears the cookies, and the tab clears itself whatever the answer.
LogoutRefused(t) ==
  /\ flights[t].step = "no" /\ tabs[t].status = "authenticated" /\ ~LogoutPasses(t)
  /\ tabs' = [tabs EXCEPT ![t] = SignedOut]
  /\ UNCHANGED <<tokens, issued, jar, flights, tick, interruptions>>

Logout(t) ==
  /\ flights[t].step = "no" /\ tabs[t].status = "authenticated" /\ LogoutPasses(t)
  /\ tokens' = IF jar = 0 THEN tokens ELSE [tokens EXCEPT ![jar] = Revoked(@)]
  /\ jar' = 0 /\ tabs' = [tabs EXCEPT ![t] = SignedOut]
  /\ Interrupt
  /\ UNCHANGED <<issued, flights, tick>>

LogoutAllDevices(t) ==
  /\ flights[t].step = "no" /\ tabs[t].status = "authenticated"
  /\ tokens' = RevokeAllForUser
  /\ jar' = 0 /\ tabs' = [tabs EXCEPT ![t] = SignedOut]
  /\ Interrupt
  /\ UNCHANGED <<issued, flights, tick>>

\* DELETE sessions/:id, for any row the list of sessions shows.
RevokeSession(t, i) ==
  /\ flights[t].step = "no" /\ tabs[t].status = "authenticated"
  /\ tokens[i].state # "none" /\ tokens[i].next = 0
  /\ tokens' = [tokens EXCEPT ![i] = Revoked(@)]
  /\ Interrupt
  /\ UNCHANGED <<issued, jar, tabs, flights, tick>>

Expired(i, now) == i # 0 /\ tokens[i].expires <= now

\* No request outlives RoundTrip.  The browser drops a cookie
\* when its Max-Age has passed.
SessionTick ==
  /\ tick < MaxTick
  /\ \A t \in Tabs : flights[t].step # "no" => tick + 1 - flights[t].since <= RoundTrip
  /\ tick' = tick + 1
  /\ jar' = IF Expired(jar, tick + 1) THEN 0 ELSE jar
  /\ interruptions' = IF \E t \in Tabs : Expired(flights[t].cookie, tick + 1)
                      THEN MaxInterruptions ELSE interruptions
  /\ UNCHANGED <<tokens, issued, tabs, flights>>

---------------------------------------------------------------------------
SessionNext ==
  \/ \E t \in Tabs :
       \/ SendRefresh(t) \/ TakeAnswer(t) \/ TakeRefusal(t) \/ LoseAnswer(t) \/ Reload(t)
       \/ Login(t) \/ RefuseRequest(t) \/ ClaimToken(t) \/ IssueNext(t) \/ RotationDies(t)
       \/ Unclaimable(t) \/ LogoutRefused(t) \/ Logout(t) \/ LogoutAllDevices(t) \/ \E i \in TokenIds : RevokeSession(t, i)
  \/ SessionTick

SessionSpec == SessionInit /\ [][SessionNext]_sessionVars

---------------------------------------------------------------------------
\* One refresh token never becomes two live ones: of the tokens of one login
\* at most one can still be used, however many tabs refresh at once
\* (TokenService.rotate).
OneLiveTokenPerLogin ==
  \A i, j \in TokenIds :
    Live(i) /\ Live(j) /\ tokens[i].chain = tokens[j].chain => i = j

\* Tabs that race on one cookie do not end the session: without a logout, a
\* death, a lost answer or a token that expires under way (the code takes that one for a
\* replay), the cookie names a token that is live or is
\* just being replaced (handleUnclaimableToken's grace window).
RaceKeepsSession ==
  interruptions = 0 /\ jar # 0 =>
    \/ Live(jar)
    \/ \E t \in Tabs : flights[t].cookie = jar /\ flights[t].step \in {"claimed", "answered"}

\* Racing tabs neither multiply a session nor end it (rotate, handleUnclaimableToken).
SessionsSurviveRaces == SessionTypeOK /\ OneLiveTokenPerLogin /\ RaceKeepsSession
=============================================================================
