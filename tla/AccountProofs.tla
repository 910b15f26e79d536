---------------------------- MODULE AccountProofs ----------------------------
(***************************************************************************)
(* Proofs about a person's account: the session of a browser (Session) and  *)
(* the subject's privacy requests (Privacy).                                *)
(***************************************************************************)
EXTENDS Session, Privacy, TLAPS

(* The session: the inductive invariant.                                   *)

\* Rows are numbered in the order of their issue, a login names its chain after
\* its first token, and the browser drops a cookie when it expires.
TokenRows ==
  /\ \A i \in TokenIds : tokens[i].state # "none" <=> i <= issued
  /\ \A i \in TokenIds : tokens[i].chain <= issued /\ tokens[i].at <= tick
  /\ jar <= issued /\ (jar # 0 => tick < tokens[jar].expires)

\* A refresh under way is young; one that has claimed its cookie revoked it
\* after it was sent; the token of an answer is known to nobody else yet.
CookieTimed(t) ==
  LET f == flights[t] IN
  /\ f.cookie <= issued
  /\ f.step # "no" => f.since <= tick /\ tick <= f.since + RoundTrip
  /\ f.step \in {"claimed", "answered"} =>
       f.cookie # 0 /\ tokens[f.cookie].state = "revoked" /\ f.since <= tokens[f.cookie].at
AnswerFresh(t) ==
  LET f == flights[t] IN
  f.step = "answered" =>
    /\ f.new \in TokenIds /\ f.new <= issued /\ f.new # jar
    /\ f.since + TokenTtl <= tokens[f.new].expires
    /\ \A u \in Tabs : flights[u].cookie # f.new
    /\ \A u \in Tabs : u # t /\ flights[u].step = "answered" => flights[u].new # f.new
FlightsTimed == \A t \in Tabs : CookieTimed(t) /\ AnswerFresh(t)

\* A login has one live token, or one refresh that is about to issue it.
ChainsSingle ==
  /\ OneLiveTokenPerLogin
  /\ \A t \in Tabs : flights[t].step = "claimed" =>
       /\ \A i \in TokenIds : Live(i) => tokens[i].chain # tokens[flights[t].cookie].chain
       /\ \A u \in Tabs : (u # t /\ flights[u].step = "claimed") =>
            tokens[flights[u].cookie].chain # tokens[flights[t].cookie].chain

\* While nothing was interrupted, a cookie under way is valid, an answer carries
\* a live token, and a refresh that comes second comes within the grace window.
CookieGood(t) ==
  LET f == flights[t] IN
  /\ f.cookie # 0 => tick < tokens[f.cookie].expires
  /\ f.step = "answered" => Live(f.new)
  /\ (f.step = "sent" /\ f.cookie # 0) =>
       \/ Live(f.cookie)
       \/ tokens[f.cookie].state = "revoked" /\ f.since <= tokens[f.cookie].at + RoundTrip
JarGood ==
  jar # 0 => \/ Live(jar)
             \/ \E t \in Tabs : flights[t].cookie = jar /\ flights[t].step \in {"claimed", "answered"}
Undisturbed == interruptions = 0 => JarGood /\ \A t \in Tabs : CookieGood(t)

SessionInv == SessionTypeOK /\ TokenRows /\ FlightsTimed /\ ChainsSingle /\ Undisturbed

---------------------------------------------------------------------------
(* The session: one step per action.                                       *)

FlightRow == [step : {"no", "sent", "claimed", "answered", "refused"},
              cookie : 0 .. MaxTokens, csrf : 0 .. MaxTokens,
              new : 0 .. MaxTokens, since : 0 .. MaxTick]

\* The bounds are numbers, and the windows are as wide as the code's are.
LEMMA SessionBounds ==
  /\ Grace \in Nat /\ TokenTtl \in Nat /\ TokenTtl > 0 /\ MaxTokens \in Nat
  /\ MaxInterruptions \in Nat /\ MaxInterruptions > 0 /\ RoundTrip \in Nat /\ MaxTick \in Nat
  /\ 2 * RoundTrip < Grace /\ RoundTrip < TokenTtl
  BY SessionAssumption

\* The types of the state, spelt out.
LEMMA SessionTypes ==
  ASSUME SessionTypeOK
  PROVE  /\ tokens \in [TokenIds -> RefreshTokenRow] /\ flights \in [Tabs -> FlightRow]
         /\ tabs \in [Tabs -> TabState]
         /\ issued \in Nat /\ jar \in Nat /\ tick \in Nat /\ interruptions \in Nat
         /\ issued <= MaxTokens /\ jar <= MaxTokens /\ tick <= MaxTick
         /\ (jar # 0 => jar \in TokenIds)
         /\ \A i \in TokenIds : /\ tokens[i].at \in Nat /\ tokens[i].expires \in Nat
                                /\ tokens[i].chain \in Nat /\ tokens[i].next \in Nat
                                /\ tokens[i].state \in {"none", "live", "revoked"}
         /\ \A t \in Tabs : /\ flights[t].cookie \in Nat /\ flights[t].new \in Nat
                            /\ flights[t].since \in Nat
                            /\ (flights[t].cookie # 0 => flights[t].cookie \in TokenIds)
<1> USE SessionBounds
<1>1. tokens \in [TokenIds -> RefreshTokenRow] /\ flights \in [Tabs -> FlightRow]
      /\ tabs \in [Tabs -> TabState]
  BY DEF SessionTypeOK, FlightRow
<1>2. /\ issued \in Nat /\ jar \in Nat /\ tick \in Nat /\ interruptions \in Nat
      /\ issued <= MaxTokens /\ jar <= MaxTokens /\ tick <= MaxTick
      /\ (jar # 0 => jar \in TokenIds)
  BY DEF SessionTypeOK, TokenIds
<1>3. ASSUME NEW i \in TokenIds
      PROVE  /\ tokens[i].at \in Nat /\ tokens[i].expires \in Nat
             /\ tokens[i].chain \in Nat /\ tokens[i].next \in Nat
             /\ tokens[i].state \in {"none", "live", "revoked"}
  <2>1. tokens[i] \in RefreshTokenRow
    BY <1>1
  <2> QED
    BY <2>1 DEF RefreshTokenRow
<1>4. ASSUME NEW t \in Tabs
      PROVE  /\ flights[t].cookie \in Nat /\ flights[t].new \in Nat
             /\ flights[t].since \in Nat
             /\ (flights[t].cookie # 0 => flights[t].cookie \in TokenIds)
  <2>1. flights[t] \in FlightRow
    BY <1>1
  <2> QED
    BY <2>1 DEF FlightRow, TokenIds
<1> QED
  BY <1>1, <1>2, <1>3, <1>4

\* A session begins with nothing issued.
LEMMA SessionBegins == SessionInit => SessionInv
<1> SUFFICES ASSUME SessionInit PROVE SessionInv
  OBVIOUS
<1> USE SessionBounds
<1>1. SessionTypeOK
  BY DEF SessionInit, SessionTypeOK, RefreshTokenRow, TabState, NoFlight, TokenIds
<1>2. TokenRows
  BY DEF SessionInit, TokenRows, TokenIds
<1>3. FlightsTimed
  BY DEF SessionInit, FlightsTimed, CookieTimed, AnswerFresh, NoFlight
<1>4. ChainsSingle
  BY DEF SessionInit, ChainsSingle, OneLiveTokenPerLogin, Live, NoFlight
<1>5. Undisturbed
  BY DEF SessionInit, Undisturbed, JarGood, CookieGood, NoFlight
<1> QED
  BY <1>1, <1>2, <1>3, <1>4, <1>5 DEF SessionInv

\* The cookie in the jar is sent, refused or not yet answered: no row changes.
LEMMA FlightMoves ==
  ASSUME SessionInv, NEW t \in Tabs,
         SendRefresh(t) \/ TakeRefusal(t) \/ RefuseRequest(t) \/ Reload(t) \/ LogoutRefused(t)
  PROVE  SessionInv'
<1> USE SessionBounds
<1>0. SessionTypeOK /\ TokenRows /\ FlightsTimed /\ ChainsSingle /\ Undisturbed
  BY DEF SessionInv
<1>1. CASE SendRefresh(t)
  <2>1. /\ flights' = [flights EXCEPT ![t] = [step |-> "sent", cookie |-> jar, csrf |-> CsrfHeader(t),
                                              new |-> 0, since |-> tick]]
        /\ UNCHANGED <<tokens, issued, jar, tabs, tick, interruptions>>
    BY <1>1 DEF SendRefresh
  <2>2. CsrfHeader(t) \in 0 .. MaxTokens
    BY <1>0 DEF CsrfHeader, SessionTypeOK, TabState
  <2>3. SessionTypeOK'
    BY <1>0, <2>1, <2>2 DEF SessionTypeOK
  <2>4. /\ flights'[t] = [step |-> "sent", cookie |-> jar, csrf |-> CsrfHeader(t), new |-> 0,
                          since |-> tick]
        /\ \A u \in Tabs : u # t => flights'[u] = flights[u]
    BY <1>0, <2>1, SessionTypes
  <2>5. TokenRows' /\ ChainsSingle'
    BY <1>0, <2>1, <2>4 DEF TokenRows, ChainsSingle, OneLiveTokenPerLogin, Live
  <2>6. FlightsTimed'
    <3>1. CookieTimed(t)'
      BY <1>0, <2>1, <2>4, SessionTypes DEF CookieTimed, TokenRows
    <3>2. AnswerFresh(t)'
      BY <2>4 DEF AnswerFresh
    <3>3. ASSUME NEW u \in Tabs, u # t PROVE CookieTimed(u)' /\ AnswerFresh(u)'
      <4>1. CookieTimed(u) /\ AnswerFresh(u)
        BY <1>0 DEF FlightsTimed
      <4>2. flights'[u] = flights[u]
        BY <2>4, <3>3
      <4>3. CookieTimed(u)'
        BY <2>1, <4>1, <4>2 DEF CookieTimed
      <4>4. AnswerFresh(u)'
        BY <2>1, <2>4, <4>1, <4>2 DEF AnswerFresh
      <4> QED
        BY <4>3, <4>4
    <3> QED
      BY <3>1, <3>2, <3>3 DEF FlightsTimed
  <2>7. Undisturbed'
    <3> SUFFICES ASSUME interruptions = 0 PROVE (JarGood /\ \A u \in Tabs : CookieGood(u))'
      BY <2>1 DEF Undisturbed
    <3>1. JarGood /\ \A u \in Tabs : CookieGood(u)
      BY <1>0 DEF Undisturbed
    <3>2. flights[t].step = "no"
      BY <1>1 DEF SendRefresh
    <3>3. JarGood'
      BY <2>1, <2>4, <3>1, <3>2 DEF JarGood, Live
    <3>4. ASSUME jar # 0, ~Live(jar)
          PROVE  tokens[jar].state = "revoked" /\ tick <= tokens[jar].at + RoundTrip
      <4>1. PICK u \in Tabs : flights[u].cookie = jar /\ flights[u].step \in {"claimed", "answered"}
        BY <3>1, <3>4 DEF JarGood
      <4> QED
        BY <1>0, <3>4, <4>1, SessionTypes DEF FlightsTimed, CookieTimed
    <3>5. CookieGood(t)'
      BY <1>0, <2>1, <2>4, <3>4 DEF CookieGood, Live, TokenRows
    <3>6. ASSUME NEW u \in Tabs, u # t PROVE CookieGood(u)'
      BY <2>1, <2>4, <3>1, <3>6 DEF CookieGood, Live
    <3> QED
      BY <3>3, <3>5, <3>6
  <2> QED
    BY <2>3, <2>5, <2>6, <2>7 DEF SessionInv
<1>2. CASE TakeRefusal(t) \/ RefuseRequest(t) \/ Reload(t) \/ LogoutRefused(t)
  <2>1. UNCHANGED <<tokens, issued, jar, tick, interruptions>>
    BY <1>2 DEF TakeRefusal, RefuseRequest, Reload, LogoutRefused
  <2>2. SessionTypeOK'
    <3>1. /\ NoFlight \in FlightRow /\ SignedOut \in TabState
          /\ [status |-> "loading", csrf |-> 0] \in TabState
      BY DEF NoFlight, FlightRow, SignedOut, TabState
    <3>2. tabs' \in [Tabs -> TabState]
      BY <1>0, <1>2, <3>1, SessionTypes DEF TakeRefusal, RefuseRequest, Reload, LogoutRefused
    <3>3. flights' \in [Tabs -> FlightRow]
      <4>1. CASE RefuseRequest(t)
        BY <1>0, <4>1, SessionTypes DEF RefuseRequest, FlightRow
      <4>2. CASE TakeRefusal(t) \/ Reload(t) \/ LogoutRefused(t)
        BY <1>0, <4>2, <3>1, SessionTypes DEF TakeRefusal, Reload, LogoutRefused
      <4> QED
        BY <1>2, <4>1, <4>2
    <3> QED
      BY <1>0, <2>1, <3>2, <3>3 DEF SessionTypeOK, FlightRow
  <2>3. /\ \A u \in Tabs : u # t => flights'[u] = flights[u]
        /\ flights'[t] = flights[t]
           \/ /\ flights[t].step \in {"sent", "refused"}
              /\ flights'[t].step \in {"no", "refused"} /\ flights'[t].cookie \in {0, flights[t].cookie}
              /\ flights'[t].since \in {0, flights[t].since}
              /\ flights'[t].step = "refused" => flights'[t].since = flights[t].since
    BY <1>0, <1>2, SessionTypes DEF TakeRefusal, RefuseRequest, Reload, LogoutRefused, FlightRow, NoFlight
  <2>4. TokenRows' /\ ChainsSingle'
    BY <1>0, <2>1, <2>3 DEF TokenRows, ChainsSingle, OneLiveTokenPerLogin, Live
  <2>5. FlightsTimed'
    <3> SUFFICES ASSUME NEW u \in Tabs PROVE CookieTimed(u)' /\ AnswerFresh(u)'
      BY DEF FlightsTimed
    <3>1. CookieTimed(u) /\ AnswerFresh(u)
      BY <1>0 DEF FlightsTimed
    <3>2. CookieTimed(u)'
      BY <2>1, <2>3, <3>1, SessionTypes, <1>0 DEF CookieTimed
    <3>3. AnswerFresh(u)'
      <4> SUFFICES ASSUME flights'[u].step = "answered" PROVE AnswerFresh(u)'
        BY DEF AnswerFresh
      <4>1. flights'[u] = flights[u]
        BY <2>3
      <4>2. flights[u].new \in Nat /\ flights[u].new # 0
        BY <3>1, <4>1, SessionTypes, <1>0 DEF AnswerFresh, TokenIds
      <4>3. ASSUME NEW v \in Tabs
            PROVE  /\ flights'[v].cookie \in {0, flights[v].cookie}
                   /\ flights'[v].step = "answered" => flights'[v] = flights[v]
        BY <2>3
      <4> QED
        BY <2>1, <3>1, <4>1, <4>2, <4>3 DEF AnswerFresh
    <3> QED
      BY <3>2, <3>3
  <2>6. Undisturbed'
    BY <1>0, <2>1, <2>3 DEF Undisturbed, JarGood, CookieGood, Live
  <2> QED
    BY <2>2, <2>4, <2>5, <2>6 DEF SessionInv
<1> QED
  BY <1>1, <1>2

\* A rotation dies after its claim: the chain is left without a token.
LEMMA RotationEnds ==
  ASSUME SessionInv, NEW t \in Tabs, RotationDies(t)
  PROVE  SessionInv'
<1> USE SessionBounds
<1>0. SessionTypeOK /\ TokenRows /\ FlightsTimed /\ ChainsSingle
  BY DEF SessionInv
<1>1. /\ UNCHANGED <<tokens, issued, jar, tabs, tick>> /\ Interrupt
      /\ flights' = [flights EXCEPT ![t].step = "refused"]
  BY DEF RotationDies
<1>2. interruptions' \in 0 .. MaxInterruptions /\ interruptions' # 0
  BY <1>0, <1>1, SessionTypes DEF Interrupt
<1>3. /\ flights' \in [Tabs -> FlightRow] /\ \A u \in Tabs : u # t => flights'[u] = flights[u]
      /\ flights'[t].step = "refused" /\ flights'[t].cookie = flights[t].cookie
      /\ flights'[t].since = flights[t].since /\ flights[t].step # "no"
  BY <1>0, <1>1, SessionTypes DEF RotationDies, FlightRow
<1>4. SessionTypeOK' /\ TokenRows'
  BY <1>0, <1>1, <1>2, <1>3 DEF SessionTypeOK, TokenRows, FlightRow
<1>5. ChainsSingle'
  BY <1>0, <1>1, <1>3 DEF ChainsSingle, OneLiveTokenPerLogin, Live
<1>6. ASSUME NEW u \in Tabs PROVE CookieTimed(u)' /\ AnswerFresh(u)'
  <2>1. CookieTimed(u) /\ AnswerFresh(u)
    BY <1>0 DEF FlightsTimed
  <2>2. CookieTimed(u)'
    <3>1. CASE u = t
      BY <1>1, <1>3, <2>1, <3>1 DEF CookieTimed
    <3>2. CASE u # t
      BY <1>1, <1>3, <2>1, <3>2 DEF CookieTimed
    <3> QED
      BY <3>1, <3>2
  <2>3. AnswerFresh(u)'
    <3> SUFFICES ASSUME flights'[u].step = "answered" PROVE AnswerFresh(u)'
      BY DEF AnswerFresh
    <3>1. u # t /\ flights'[u] = flights[u]
      BY <1>3
    <3>2. \A v \in Tabs : /\ flights'[v].cookie = flights[v].cookie
                         /\ flights'[v].step = "answered" => flights'[v] = flights[v]
      BY <1>3
    <3> QED
      BY <1>1, <2>1, <3>1, <3>2 DEF AnswerFresh
  <2> QED
    BY <2>2, <2>3
<1> QED
  BY <1>2, <1>4, <1>5, <1>6 DEF SessionInv, FlightsTimed, Undisturbed

\* What a revocation may do to a row: it ends, and keeps all else.
RowEnds(i) ==
  /\ tokens'[i] \in RefreshTokenRow
  /\ tokens'[i].chain = tokens[i].chain /\ tokens'[i].expires = tokens[i].expires
  /\ \/ tokens'[i].state = tokens[i].state /\ tokens'[i].at = tokens[i].at
     \/ tokens[i].state # "none" /\ tokens'[i].state = "revoked" /\ tokens'[i].at = tick

\* revoked_at is set: the fields of the row.
LEMMA RevokedRow ==
  ASSUME SessionInv, NEW i \in TokenIds, tokens[i].state # "none", tokens'[i] = Revoked(tokens[i])
  PROVE  RowEnds(i) /\ tokens'[i].state = "revoked" /\ tokens'[i].at = tick
<1>1. tokens[i] \in RefreshTokenRow /\ tick \in 0 .. MaxTick
  BY SessionTypes, SessionBounds DEF SessionInv, SessionTypeOK
<1> QED
  BY <1>1 DEF RowEnds, Revoked, RefreshTokenRow

\* A refresh is refused, or has just claimed the token of its cookie.
FlightDecided(t) ==
  /\ flights[t].step = "sent"
  /\ flights'[t].cookie = flights[t].cookie /\ flights'[t].since = flights[t].since
  /\ \/ flights'[t].step = "refused"
     \/ /\ flights'[t].step = "claimed" /\ flights[t].cookie # 0 /\ Live(flights[t].cookie)
        /\ tokens'[flights[t].cookie].state = "revoked" /\ tokens'[flights[t].cookie].at = tick

\* Revoking rows leaves what does not depend on the peace of the session as it was.
LEMMA RowsEnd ==
  ASSUME SessionInv, NEW t \in Tabs, UNCHANGED <<issued, tick>>, jar' \in {0, jar},
         tokens' \in [TokenIds -> RefreshTokenRow], tabs' \in [Tabs -> TabState],
         flights' \in [Tabs -> FlightRow], interruptions' \in 0 .. MaxInterruptions,
         \A i \in TokenIds : RowEnds(i),
         \A u \in Tabs : u # t => flights'[u] = flights[u],
         flights'[t] = flights[t] \/ FlightDecided(t)
  PROVE  SessionTypeOK' /\ TokenRows' /\ FlightsTimed' /\ ChainsSingle'
<1> USE SessionBounds
<1>0. SessionTypeOK /\ TokenRows /\ FlightsTimed /\ ChainsSingle
  BY DEF SessionInv
<1>1. SessionTypeOK'
  BY <1>0 DEF SessionTypeOK, FlightRow
<1>2. /\ issued \in Nat /\ tick \in Nat
      /\ \A i \in TokenIds : /\ tokens[i].at \in Nat /\ tokens'[i].at \in Nat
                             /\ tokens[i].expires \in Nat /\ tokens[i].at <= tick
  BY <1>0, <1>1, SessionTypes DEF TokenRows, RowEnds, RefreshTokenRow
<1>3. TokenRows'
  <2>1. \A i \in TokenIds : tokens'[i].state # "none" <=> i <= issued
    BY <1>0 DEF TokenRows, RowEnds
  <2>2. \A i \in TokenIds : tokens'[i].chain <= issued /\ tokens'[i].at <= tick
    BY <1>0, <1>2 DEF TokenRows, RowEnds
  <2>3. jar # 0 => jar \in TokenIds
    BY <1>0, SessionTypes
  <2>4. jar' <= issued /\ (jar' # 0 => tick < tokens'[jar'].expires)
    BY <1>0, <1>2, <2>3 DEF TokenRows, RowEnds
  <2> QED
    BY <2>1, <2>2, <2>4 DEF TokenRows
<1>4. FlightsTimed'
  <2> SUFFICES ASSUME NEW u \in Tabs PROVE CookieTimed(u)' /\ AnswerFresh(u)'
    BY DEF FlightsTimed
  <2>1. CookieTimed(u) /\ AnswerFresh(u)
    BY <1>0 DEF FlightsTimed
  <2>2. /\ flights[u].cookie \in Nat /\ flights[u].since \in Nat
        /\ flights[u].cookie # 0 => flights[u].cookie \in TokenIds
    BY <1>0, SessionTypes
  <2>3. CookieTimed(u)'
    <3>1. /\ flights'[u].cookie <= issued
          /\ flights'[u].step # "no" => flights'[u].since <= tick /\ tick <= flights'[u].since + RoundTrip
      BY <2>1 DEF CookieTimed, FlightDecided
    <3>2. ASSUME flights'[u].step \in {"claimed", "answered"}, flights'[u] = flights[u]
          PROVE  /\ flights'[u].cookie # 0 /\ tokens'[flights'[u].cookie].state = "revoked"
                 /\ flights'[u].since <= tokens'[flights'[u].cookie].at
      <4>1. flights'[u] = flights[u] /\ flights[u].step \in {"claimed", "answered"}
        BY <3>2
      <4>2. /\ flights[u].cookie \in TokenIds /\ tokens[flights[u].cookie].state = "revoked"
            /\ flights[u].since <= tokens[flights[u].cookie].at
            /\ flights[u].since <= tick
        BY <2>1, <2>2, <4>1 DEF CookieTimed
      <4>3. RowEnds(flights[u].cookie)
        BY <4>2
      <4> QED
        BY <1>2, <2>2, <4>1, <4>2, <4>3 DEF RowEnds, TokenIds
    <3>3. CASE flights'[u] = flights[u]
      BY <3>1, <3>2, <3>3 DEF CookieTimed
    <3>4. CASE u = t /\ FlightDecided(t)
      BY <2>1, <3>1, <3>4 DEF CookieTimed, FlightDecided
    <3> QED
      BY <3>3, <3>4
  <2>4. AnswerFresh(u)'
    <3> SUFFICES ASSUME flights'[u].step = "answered" PROVE AnswerFresh(u)'
      BY DEF AnswerFresh
    <3>1. flights'[u] = flights[u]
      BY DEF FlightDecided
    <3>2. flights[u].new \in TokenIds /\ flights[u].new # 0 /\ RowEnds(flights[u].new)
      BY <2>1, <3>1 DEF AnswerFresh, TokenIds
    <3>3. ASSUME NEW v \in Tabs
          PROVE  /\ flights'[v].cookie = flights[v].cookie
                 /\ flights'[v].step = "answered" => flights'[v] = flights[v]
      BY DEF FlightDecided
    <3> QED
      BY <2>1, <3>1, <3>2, <3>3 DEF AnswerFresh, RowEnds
  <2> QED
    BY <2>3, <2>4
<1>5. ChainsSingle'
  <2>1. ASSUME NEW i \in TokenIds, Live(i)'
        PROVE  Live(i) /\ tokens'[i].chain = tokens[i].chain
    BY <2>1 DEF Live, RowEnds
  <2>2. OneLiveTokenPerLogin'
    BY <1>0, <2>1 DEF ChainsSingle, OneLiveTokenPerLogin
  <2>3. ASSUME NEW u \in Tabs, flights'[u].step = "claimed"
        PROVE  /\ flights'[u].cookie = flights[u].cookie /\ flights[u].cookie \in TokenIds
               /\ tokens'[flights[u].cookie].chain = tokens[flights[u].cookie].chain
               /\ \/ flights[u].step = "claimed"
                  \/ u = t /\ Live(flights[u].cookie) /\ ~Live(flights[u].cookie)'
    <3>1. flights'[u].cookie = flights[u].cookie /\ flights[u].cookie \in TokenIds
      <4>1. CASE flights'[u] = flights[u]
        BY <1>0, <2>3, <4>1, SessionTypes DEF FlightsTimed, CookieTimed
      <4>2. CASE u = t /\ FlightDecided(t)
        BY <1>0, <2>3, <4>2, SessionTypes DEF FlightDecided
      <4> QED
        BY <4>1, <4>2
    <3>2. \/ flights[u].step = "claimed"
          \/ u = t /\ Live(flights[u].cookie) /\ ~Live(flights[u].cookie)'
      BY <2>3 DEF FlightDecided, Live
    <3> QED
      BY <3>1, <3>2 DEF RowEnds
  <2>4. ASSUME NEW u \in Tabs, flights'[u].step = "claimed", NEW i \in TokenIds, Live(i)'
        PROVE  tokens'[i].chain # tokens'[flights'[u].cookie].chain
    BY <1>0, <2>1, <2>3, <2>4 DEF ChainsSingle, OneLiveTokenPerLogin
  <2>5. ASSUME NEW u \in Tabs, flights'[u].step = "claimed",
               NEW v \in Tabs, v # u, flights'[v].step = "claimed"
        PROVE  tokens'[flights'[v].cookie].chain # tokens'[flights'[u].cookie].chain
    BY <1>0, <2>3, <2>5 DEF ChainsSingle
  <2> QED
    BY <2>2, <2>4, <2>5 DEF ChainsSingle
<1> QED
  BY <1>1, <1>3, <1>4, <1>5

\* A logout, of this device or of all, or the revocation of a session.
LEMMA LogoutSteps ==
  ASSUME SessionInv, NEW t \in Tabs,
         Logout(t) \/ LogoutAllDevices(t) \/ \E i \in TokenIds : RevokeSession(t, i)
  PROVE  SessionInv'
<1> USE SessionBounds
<1>0. SessionTypeOK /\ TokenRows
  BY DEF SessionInv
<1>1. /\ UNCHANGED <<issued, tick, flights>> /\ jar' \in {0, jar} /\ Interrupt
      /\ tabs' \in [Tabs -> TabState]
  <2>1. SignedOut \in TabState
    BY DEF SignedOut, TabState
  <2> QED
    BY <1>0, <2>1, SessionTypes DEF Logout, LogoutAllDevices, RevokeSession
<1>2. interruptions' \in 0 .. MaxInterruptions /\ interruptions' # 0
  BY <1>0, <1>1, SessionTypes DEF Interrupt
<1>3. ASSUME NEW i \in TokenIds PROVE tokens[i].state = "none" <=> ~(i <= issued)
  BY <1>0 DEF TokenRows
<1>4. \A i \in TokenIds : \/ tokens'[i] = tokens[i]
                          \/ tokens[i].state # "none" /\ tokens'[i] = Revoked(tokens[i])
  <2>1. CASE Logout(t)
    BY <1>0, <1>3, <2>1, SessionTypes DEF Logout, TokenRows
  <2>2. CASE LogoutAllDevices(t)
    BY <2>2 DEF LogoutAllDevices, RevokeAllForUser
  <2>3. CASE \E i \in TokenIds : RevokeSession(t, i)
    BY <1>0, <2>3, SessionTypes DEF RevokeSession
  <2> QED
    BY <2>1, <2>2, <2>3
<1>5. ASSUME NEW i \in TokenIds PROVE RowEnds(i)
  <2>1. CASE tokens'[i] = tokens[i]
    BY <1>0, <2>1, SessionTypes DEF RowEnds
  <2> QED
    BY <1>4, <2>1, RevokedRow
<1>6. tokens' \in [TokenIds -> RefreshTokenRow]
  <2>1. tokens' = [i \in TokenIds |-> tokens'[i]]
    BY <1>0, SessionTypes DEF Logout, LogoutAllDevices, RevokeSession, RevokeAllForUser
  <2> QED
    BY <1>5, <2>1 DEF RowEnds
<1>7. flights' \in [Tabs -> FlightRow]
  BY <1>0, <1>1, SessionTypes
<1>8. SessionTypeOK' /\ TokenRows' /\ FlightsTimed' /\ ChainsSingle'
  BY <1>1, <1>2, <1>5, <1>6, <1>7, RowsEnd
<1> QED
  BY <1>2, <1>8 DEF SessionInv, Undisturbed


\* UPDATE ... WHERE revoked_at IS NULL: one refresh claims the token.
LEMMA ClaimSteps ==
  ASSUME SessionInv, NEW t \in Tabs, ClaimToken(t)
  PROVE  SessionInv'
<1> USE SessionBounds
<1> DEFINE i == flights[t].cookie
<1>0. SessionTypeOK /\ TokenRows /\ FlightsTimed /\ Undisturbed
  BY DEF SessionInv
<1>1. /\ UNCHANGED <<issued, jar, tabs, tick, interruptions>>
      /\ i \in TokenIds /\ Live(i) /\ flights[t].step = "sent"
      /\ tokens' = [tokens EXCEPT ![i] = Revoked(tokens[i])]
      /\ flights' = [flights EXCEPT ![t].step = "claimed"]
  BY <1>0, SessionTypes DEF ClaimToken, Claims
<1>2. /\ tokens'[i] = Revoked(tokens[i]) /\ \A j \in TokenIds : j # i => tokens'[j] = tokens[j]
      /\ flights'[t] = [flights[t] EXCEPT !.step = "claimed"]
      /\ \A u \in Tabs : u # t => flights'[u] = flights[u]
  BY <1>0, <1>1, SessionTypes
<1>3. RowEnds(i) /\ tokens'[i].state = "revoked" /\ tokens'[i].at = tick
  BY <1>1, <1>2, RevokedRow DEF Live
<1>4. ASSUME NEW j \in TokenIds PROVE RowEnds(j)
  <2>1. CASE j # i
    BY <1>0, <1>2, <2>1, SessionTypes DEF RowEnds
  <2> QED
    BY <1>3, <2>1
<1>5. tokens' \in [TokenIds -> RefreshTokenRow]
  <2>1. tokens' = [j \in TokenIds |-> tokens'[j]]
    BY <1>0, <1>1, SessionTypes
  <2> QED
    BY <1>4, <2>1 DEF RowEnds
<1>6. flights' \in [Tabs -> FlightRow] /\ flights'[t].step = "claimed"
      /\ flights'[t].cookie = i /\ flights'[t].since = flights[t].since
  <2>1. flights[t] \in FlightRow
    BY <1>0, SessionTypes
  <2> QED
    BY <1>0, <1>1, <1>2, <2>1, SessionTypes DEF FlightRow
<1>7. FlightDecided(t)
  BY <1>1, <1>3, <1>6 DEF FlightDecided, Live
<1>8. SessionTypeOK' /\ TokenRows' /\ FlightsTimed' /\ ChainsSingle'
  <2>1. interruptions' \in 0 .. MaxInterruptions /\ tabs' \in [Tabs -> TabState]
    BY <1>0, <1>1 DEF SessionTypeOK
  <2> QED
    BY <1>1, <1>2, <1>4, <1>5, <1>6, <1>7, <2>1, RowsEnd
<1>9. Undisturbed'
  <2> SUFFICES ASSUME interruptions = 0 PROVE (JarGood /\ \A u \in Tabs : CookieGood(u))'
    BY <1>1 DEF Undisturbed
  <2>1. JarGood /\ \A u \in Tabs : CookieGood(u)
    BY <1>0 DEF Undisturbed
  <2>2. JarGood'
    <3> SUFFICES ASSUME jar # 0 PROVE JarGood'
      BY <1>1 DEF JarGood
    <3>1. CASE jar = i
      BY <1>1, <1>6, <3>1 DEF JarGood
    <3>2. CASE jar # i /\ Live(jar)
      BY <1>0, <1>1, <1>2, <3>2, SessionTypes DEF JarGood, Live
    <3>3. CASE ~Live(jar)
      <4>1. PICK u \in Tabs : flights[u].cookie = jar /\ flights[u].step \in {"claimed", "answered"}
        BY <2>1, <3>3 DEF JarGood
      <4>2. flights'[u] = flights[u]
        BY <1>1, <1>2, <4>1
      <4> QED
        BY <1>1, <4>1, <4>2 DEF JarGood
    <3> QED
      BY <3>1, <3>2, <3>3
  <2>3. ASSUME NEW u \in Tabs PROVE CookieGood(u)'
    <3>0. CookieGood(u) /\ AnswerFresh(u) /\ CookieTimed(u) /\ flights'[u].cookie = flights[u].cookie
      BY <1>0, <1>2, <1>6, <2>1 DEF FlightsTimed
    <3>1. /\ flights[u].cookie \in Nat /\ flights[u].since \in Nat /\ tick \in Nat
          /\ flights[u].cookie # 0 => flights[u].cookie \in TokenIds /\ RowEnds(flights[u].cookie)
      BY <1>0, <1>4, SessionTypes
    <3>2. flights'[u].cookie # 0 => tick < tokens'[flights'[u].cookie].expires
      BY <3>0, <3>1 DEF CookieGood, RowEnds
    <3>3. ASSUME flights'[u].step = "answered" PROVE Live(flights[u].new)'
      <4>1. u # t /\ flights'[u] = flights[u]
        BY <1>2, <1>6, <3>3
      <4>2. flights[u].new \in TokenIds /\ flights[u].new # i /\ Live(flights[u].new)
        BY <3>0, <3>3, <4>1 DEF AnswerFresh, CookieGood
      <4> QED
        BY <1>2, <4>1, <4>2 DEF Live
    <3>4. ASSUME flights'[u].step = "sent", flights'[u].cookie # 0
          PROVE  \/ Live(flights[u].cookie)'
                 \/ /\ tokens'[flights'[u].cookie].state = "revoked"
                    /\ flights'[u].since <= tokens'[flights'[u].cookie].at + RoundTrip
      <4>1. u # t /\ flights'[u] = flights[u]
        BY <1>2, <1>6, <3>4
      <4>2. CASE flights[u].cookie = i
        BY <1>3, <3>0, <3>1, <3>4, <4>1, <4>2 DEF CookieTimed
      <4>3. CASE flights[u].cookie # i
        <5>1. tokens'[flights[u].cookie] = tokens[flights[u].cookie]
          BY <1>2, <3>1, <3>4, <4>1, <4>3
        <5> QED
          BY <3>0, <3>4, <4>1, <5>1 DEF CookieGood, Live
      <4> QED
        BY <4>2, <4>3
    <3> QED
      BY <1>1, <3>2, <3>3, <3>4 DEF CookieGood
  <2> QED
    BY <2>2, <2>3
<1> QED
  BY <1>8, <1>9 DEF SessionInv

\* handleUnclaimableToken: who comes second within the window only is refused.
LEMMA UnclaimableSteps ==
  ASSUME SessionInv, NEW t \in Tabs, Unclaimable(t)
  PROVE  SessionInv'
<1> USE SessionBounds
<1> DEFINE i == flights[t].cookie
<1>0. SessionTypeOK /\ TokenRows /\ FlightsTimed /\ Undisturbed
  BY DEF SessionInv
<1>1. /\ UNCHANGED <<issued, jar, tabs, tick, interruptions>>
      /\ i \in TokenIds /\ ~Claims(i) /\ flights[t].step = "sent"
      /\ tokens' = IF RotatedRecently(i) THEN tokens ELSE RevokeAllForUser
      /\ flights' = [flights EXCEPT ![t].step = "refused"]
  BY <1>0, SessionTypes DEF Unclaimable
<1>2. /\ flights'[t] = [flights[t] EXCEPT !.step = "refused"]
      /\ \A u \in Tabs : u # t => flights'[u] = flights[u]
  BY <1>0, <1>1, SessionTypes
<1>3. \A j \in TokenIds : \/ tokens'[j] = tokens[j]
                          \/ tokens[j].state # "none" /\ tokens'[j] = Revoked(tokens[j])
  BY <1>1 DEF RevokeAllForUser
<1>4. ASSUME NEW j \in TokenIds PROVE RowEnds(j)
  <2>1. CASE tokens'[j] = tokens[j]
    BY <1>0, <2>1, SessionTypes DEF RowEnds
  <2> QED
    BY <1>3, <2>1, RevokedRow
<1>5. tokens' \in [TokenIds -> RefreshTokenRow]
  <2>1. tokens' = [j \in TokenIds |-> tokens'[j]]
    BY <1>0, <1>1, SessionTypes DEF RevokeAllForUser
  <2> QED
    BY <1>4, <2>1 DEF RowEnds
<1>6. flights' \in [Tabs -> FlightRow] /\ flights'[t].step = "refused"
      /\ flights'[t].cookie = i /\ flights'[t].since = flights[t].since
  <2>1. flights[t] \in FlightRow
    BY <1>0, SessionTypes
  <2> QED
    BY <1>0, <1>1, <1>2, <2>1, SessionTypes DEF FlightRow
<1>7. FlightDecided(t)
  BY <1>1, <1>6 DEF FlightDecided
<1>8. SessionTypeOK' /\ TokenRows' /\ FlightsTimed' /\ ChainsSingle'
  <2>1. interruptions' \in 0 .. MaxInterruptions /\ tabs' \in [Tabs -> TabState]
    BY <1>0, <1>1 DEF SessionTypeOK
  <2> QED
    BY <1>1, <1>2, <1>4, <1>5, <1>6, <1>7, <2>1, RowsEnd
<1>9. Undisturbed'
  <2> SUFFICES ASSUME interruptions = 0 PROVE (JarGood /\ \A u \in Tabs : CookieGood(u))'
    BY <1>1 DEF Undisturbed
  <2>1. JarGood /\ \A u \in Tabs : CookieGood(u)
    BY <1>0 DEF Undisturbed
  <2>2. /\ tick \in Nat /\ tokens[i].at \in Nat /\ flights[t].since \in Nat /\ i # 0
        /\ tokens[i].expires \in Nat
    BY <1>0, <1>1, SessionTypes DEF TokenIds
  <2>3. tokens[i].state = "revoked" /\ flights[t].since <= tokens[i].at + RoundTrip
    BY <1>1, <2>1, <2>2 DEF CookieGood, Claims
  <2>4. tick <= flights[t].since + RoundTrip
    BY <1>0, <1>1 DEF FlightsTimed, CookieTimed
  <2>5. tick - tokens[i].at < Grace
    BY <2>2, <2>3, <2>4
  <2>6. tokens' = tokens
    BY <1>1, <2>3, <2>5 DEF RotatedRecently
  <2>7. JarGood'
    <3> SUFFICES ASSUME jar # 0 PROVE JarGood'
      BY <1>1 DEF JarGood
    <3>1. CASE Live(jar)
      BY <1>1, <2>6, <3>1 DEF JarGood, Live
    <3>2. CASE ~Live(jar)
      <4>1. PICK u \in Tabs : flights[u].cookie = jar /\ flights[u].step \in {"claimed", "answered"}
        BY <2>1, <3>2 DEF JarGood
      <4>2. flights'[u] = flights[u]
        BY <1>1, <1>2, <4>1
      <4> QED
        BY <1>1, <4>1, <4>2 DEF JarGood
    <3> QED
      BY <3>1, <3>2
  <2>8. ASSUME NEW u \in Tabs PROVE CookieGood(u)'
    <3>1. CookieGood(u)
      BY <2>1
    <3>2. CASE u = t
      BY <1>1, <1>6, <2>6, <3>1, <3>2 DEF CookieGood
    <3>3. CASE u # t
      BY <1>1, <1>2, <2>6, <3>1, <3>3 DEF CookieGood, Live
    <3> QED
      BY <3>2, <3>3
  <2> QED
    BY <2>7, <2>8
<1> QED
  BY <1>8, <1>9 DEF SessionInv


\* The answer arrives with its cookies, or is lost with them.
LEMMA AnswerSteps ==
  ASSUME SessionInv, NEW t \in Tabs, TakeAnswer(t) \/ LoseAnswer(t)
  PROVE  SessionInv'
<1> USE SessionBounds
<1> DEFINE n == flights[t].new
<1>0. SessionTypeOK /\ TokenRows /\ FlightsTimed /\ ChainsSingle /\ Undisturbed
  BY DEF SessionInv
<1>1. /\ UNCHANGED <<tokens, issued, tick>> /\ flights[t].step = "answered"
      /\ flights' = [flights EXCEPT ![t] = NoFlight]
      /\ \/ jar' = n /\ interruptions' = interruptions
         \/ jar' = jar /\ Interrupt
  BY DEF TakeAnswer, LoseAnswer
<1>2. /\ flights'[t] = NoFlight /\ \A u \in Tabs : u # t => flights'[u] = flights[u]
      /\ NoFlight \in FlightRow /\ flights' \in [Tabs -> FlightRow]
  <2>1. NoFlight \in FlightRow
    BY DEF NoFlight, FlightRow
  <2> QED
    BY <1>0, <1>1, <2>1, SessionTypes
<1>3. AnswerFresh(t) /\ CookieTimed(t)
  BY <1>0 DEF FlightsTimed
<1>4. /\ n \in TokenIds /\ n <= issued /\ tick < tokens[n].expires
  <2>1. /\ n \in TokenIds /\ n <= issued /\ flights[t].since + TokenTtl <= tokens[n].expires
        /\ tick <= flights[t].since + RoundTrip
    BY <1>1, <1>3 DEF AnswerFresh, CookieTimed
  <2>2. tick \in Nat /\ flights[t].since \in Nat /\ tokens[n].expires \in Nat
    BY <1>0, <2>1, SessionTypes
  <2> QED
    BY <2>1, <2>2
<1>5. SessionTypeOK'
  <2>1. tabs' \in [Tabs -> TabState]
    <3>1. SignedOut \in TabState /\ SignedIn(n) \in TabState
      BY <1>4 DEF SignedOut, SignedIn, TabState, TokenIds
    <3> QED
      BY <1>0, <3>1, SessionTypes DEF TakeAnswer, LoseAnswer
  <2>2. jar' \in 0 .. MaxTokens /\ interruptions' \in 0 .. MaxInterruptions
    BY <1>0, <1>1, <1>4 DEF SessionTypeOK, Interrupt, TokenIds
  <2> QED
    BY <1>0, <1>1, <1>2, <2>1, <2>2 DEF SessionTypeOK, FlightRow
<1>6. TokenRows'
  <2>1. jar' <= issued /\ (jar' # 0 => tick < tokens[jar'].expires)
    BY <1>0, <1>1, <1>4 DEF TokenRows
  <2> QED
    BY <1>0, <1>1, <2>1 DEF TokenRows
<1>7. FlightsTimed'
  <2>1. CookieTimed(t)' /\ AnswerFresh(t)'
    BY <1>0, <1>1, <1>2, SessionTypes DEF CookieTimed, AnswerFresh, NoFlight
  <2>2. ASSUME NEW u \in Tabs, u # t PROVE CookieTimed(u)' /\ AnswerFresh(u)'
    <3>1. CookieTimed(u) /\ AnswerFresh(u) /\ flights'[u] = flights[u]
      BY <1>0, <1>2, <2>2 DEF FlightsTimed
    <3>2. CookieTimed(u)'
      BY <1>1, <3>1 DEF CookieTimed
    <3>3. AnswerFresh(u)'
      <4> SUFFICES ASSUME flights[u].step = "answered" PROVE AnswerFresh(u)'
        BY <3>1 DEF AnswerFresh
      <4>1. flights[u].new # n /\ flights[u].new # jar /\ flights[u].new # 0
        BY <1>1, <2>2, <3>1 DEF AnswerFresh, TokenIds
      <4>2. \A v \in Tabs : flights'[v].cookie \in {0, flights[v].cookie}
        BY <1>2 DEF NoFlight
      <4>3. \A v \in Tabs : flights'[v].step = "answered" => flights'[v] = flights[v]
        BY <1>2 DEF NoFlight
      <4> QED
        BY <1>1, <3>1, <4>1, <4>2, <4>3 DEF AnswerFresh
    <3> QED
      BY <3>2, <3>3
  <2> QED
    BY <2>1, <2>2 DEF FlightsTimed
<1>8. ChainsSingle'
  <2>1. \A u \in Tabs : flights'[u].step = "claimed" => flights'[u] = flights[u]
    BY <1>2 DEF NoFlight
  <2> QED
    BY <1>0, <1>1, <2>1 DEF ChainsSingle, OneLiveTokenPerLogin, Live
<1>9. Undisturbed'
  <2> SUFFICES ASSUME interruptions' = 0 PROVE (JarGood /\ \A u \in Tabs : CookieGood(u))'
    BY DEF Undisturbed
  <2>1. jar' = n /\ interruptions = 0
    BY <1>0, <1>1, SessionTypes DEF Interrupt
  <2>2. \A u \in Tabs : CookieGood(u)
    BY <1>0, <2>1 DEF Undisturbed
  <2>3. JarGood'
    BY <1>1, <2>1, <2>2 DEF JarGood, CookieGood, Live
  <2>4. CookieGood(t)'
    BY <1>2 DEF CookieGood, NoFlight
  <2>5. ASSUME NEW u \in Tabs, u # t PROVE CookieGood(u)'
    BY <1>1, <1>2, <2>2, <2>5 DEF CookieGood, Live
  <2> QED
    BY <2>3, <2>4, <2>5
<1> QED
  BY <1>5, <1>6, <1>7, <1>8, <1>9 DEF SessionInv

\* The next row is inserted, and no other loses or gains anything that counts.
RowIssued(chain) ==
  /\ issued' = issued + 1 /\ issued < MaxTokens /\ UNCHANGED tick
  /\ tokens' \in [TokenIds -> RefreshTokenRow]
  /\ tokens'[issued + 1].state = "live" /\ tokens'[issued + 1].chain = chain
  /\ tokens'[issued + 1].expires = tick + TokenTtl /\ tokens'[issued + 1].at = 0
  /\ \A i \in TokenIds : i # issued + 1 =>
       /\ tokens'[i].state = tokens[i].state /\ tokens'[i].chain = tokens[i].chain
       /\ tokens'[i].at = tokens[i].at /\ tokens'[i].expires = tokens[i].expires

\* issuePair: what the INSERT writes.
LEMMA PairIssued ==
  ASSUME SessionInv, NEW c \in 0 .. MaxTokens, issued < MaxTokens, issued' = issued + 1,
         UNCHANGED tick,
         \/ tokens' = IssuePair(tokens, c)
         \/ \E i \in TokenIds : i <= issued /\ tokens' = [IssuePair(tokens, c) EXCEPT ![i].next = issued + 1]
  PROVE  RowIssued(c)
<1> USE SessionBounds
<1> DEFINE row == [state |-> "live", chain |-> c, at |-> 0, next |-> 0, expires |-> tick + TokenTtl]
           rows == IssuePair(tokens, c)
<1>0. SessionTypeOK
  BY DEF SessionInv
<1>1. issued + 1 \in TokenIds /\ issued \in Nat /\ tick \in 0 .. MaxTick
  <2>1. tick \in 0 .. MaxTick
    BY <1>0 DEF SessionTypeOK
  <2> QED
    BY <1>0, <2>1, SessionTypes DEF TokenIds
<1>2. row \in RefreshTokenRow
  BY <1>1 DEF RefreshTokenRow
<1>3. /\ rows \in [TokenIds -> RefreshTokenRow] /\ rows[issued + 1] = row
      /\ \A i \in TokenIds : i # issued + 1 => rows[i] = tokens[i]
  <2>1. tokens \in [TokenIds -> RefreshTokenRow] /\ rows = [tokens EXCEPT ![issued + 1] = row]
    BY <1>0, SessionTypes DEF IssuePair
  <2> HIDE DEF row, rows
  <2> QED
    BY <1>1, <1>2, <2>1
<1>4. CASE tokens' = rows
  BY <1>1, <1>3, <1>4 DEF RowIssued
<1>5. CASE \E i \in TokenIds : i <= issued /\ tokens' = [rows EXCEPT ![i].next = issued + 1]
  <2>1. PICK i \in TokenIds : i <= issued /\ tokens' = [rows EXCEPT ![i].next = issued + 1]
    BY <1>5
  <2>2. i # issued + 1 /\ rows[i] \in RefreshTokenRow /\ rows[i] = tokens[i]
    BY <1>1, <1>3, <2>1 DEF TokenIds
  <2>3. tokens' \in [TokenIds -> RefreshTokenRow]
    <3>1. [rows[i] EXCEPT !.next = issued + 1] \in RefreshTokenRow
      BY <1>1, <2>2 DEF RefreshTokenRow, TokenIds
    <3> HIDE DEF rows
    <3> QED
      BY <1>3, <2>1, <3>1
  <2>4. /\ tokens'[issued + 1] = row
        /\ \A j \in TokenIds : j # issued + 1 /\ j # i => tokens'[j] = tokens[j]
    <3> HIDE DEF rows
    <3> QED
      BY <1>1, <1>3, <2>1, <2>2
  <2>5. /\ tokens'[i].state = tokens[i].state /\ tokens'[i].chain = tokens[i].chain
        /\ tokens'[i].at = tokens[i].at /\ tokens'[i].expires = tokens[i].expires
    <3>1. tokens'[i] = [tokens[i] EXCEPT !.next = issued + 1]
      <4> HIDE DEF rows
      <4> QED
        BY <1>3, <2>1, <2>2
    <3> QED
      BY <2>2, <3>1 DEF RefreshTokenRow
  <2> QED
    BY <1>1, <2>3, <2>4, <2>5 DEF RowIssued
<1> QED
  BY <1>4, <1>5


\* What an INSERT keeps of the rows and of the refreshes that go on.
LEMMA RowsGrow ==
  ASSUME SessionInv, NEW c, RowIssued(c), c = issued + 1 \/ c <= issued, c \in Nat,
         jar' = jar \/ jar' = issued + 1
  PROVE  /\ TokenRows'
         /\ \A u \in Tabs : /\ flights'[u] = flights[u] => CookieTimed(u)'
                            /\ flights[u].step = "answered" => flights[u].new # jar'
         /\ \A i \in TokenIds : i # issued + 1 => (Live(i)' <=> Live(i))
<1> USE SessionBounds
<1>0. SessionTypeOK /\ TokenRows /\ FlightsTimed
  BY DEF SessionInv
<1>1. /\ issued \in Nat /\ tick \in Nat /\ jar \in Nat /\ issued + 1 \in TokenIds /\ tick' = tick
      /\ issued' = issued + 1 /\ (jar # 0 => jar \in TokenIds)
      /\ \A i \in TokenIds : tokens[i].at \in Nat /\ tokens[i].chain \in Nat /\ i \in Nat
  BY <1>0, SessionTypes DEF RowIssued, TokenIds
<1>2. TokenRows'
  <2>1. ASSUME NEW i \in TokenIds
        PROVE  /\ tokens'[i].state # "none" <=> i <= issued + 1
               /\ tokens'[i].chain <= issued + 1 /\ tokens'[i].at <= tick
    <3>1. CASE i = issued + 1
      BY <1>1, <3>1 DEF RowIssued
    <3>2. CASE i # issued + 1
      BY <1>0, <1>1, <3>2 DEF RowIssued, TokenRows
    <3> QED
      BY <3>1, <3>2
  <2>2. jar' <= issued + 1
    BY <1>0, <1>1 DEF TokenRows
  <2>3. ASSUME jar' # 0 PROVE tick < tokens'[jar'].expires
    <3>1. CASE jar' = issued + 1
      BY <1>1, <3>1 DEF RowIssued
    <3>2. CASE jar' = jar
      <4>1. jar \in TokenIds /\ jar # issued + 1 /\ tick < tokens[jar].expires
        BY <1>0, <1>1, <2>3, <3>2 DEF TokenRows
      <4> QED
        BY <3>2, <4>1 DEF RowIssued
    <3> QED
      BY <3>1, <3>2
  <2> QED
    BY <1>1, <2>1, <2>2, <2>3 DEF TokenRows
<1>3. ASSUME NEW u \in Tabs, flights'[u] = flights[u] PROVE CookieTimed(u)'
  <2>1. CookieTimed(u)
    BY <1>0 DEF FlightsTimed
  <2>2. /\ flights[u].cookie \in Nat /\ flights[u].cookie <= issued
        /\ flights[u].cookie # 0 => flights[u].cookie \in TokenIds
    BY <1>0, <2>1, SessionTypes DEF CookieTimed
  <2>3. flights[u].cookie # 0 => /\ tokens'[flights[u].cookie].state = tokens[flights[u].cookie].state
                                 /\ tokens'[flights[u].cookie].at = tokens[flights[u].cookie].at
    BY <1>1, <2>2 DEF RowIssued
  <2> QED
    BY <1>1, <1>3, <2>1, <2>2, <2>3 DEF CookieTimed
<1>4. ASSUME NEW u \in Tabs, flights[u].step = "answered" PROVE flights[u].new # jar'
  BY <1>0, <1>1, <1>4 DEF FlightsTimed, AnswerFresh
<1>5. \A i \in TokenIds : i # issued + 1 => (Live(i)' <=> Live(i))
  BY DEF RowIssued, Live
<1> QED
  BY <1>2, <1>3, <1>4, <1>5

\* verify-otp: a session of its own.
LEMMA LoginSteps ==
  ASSUME SessionInv, NEW t \in Tabs, Login(t)
  PROVE  SessionInv'
<1> USE SessionBounds
<1> DEFINE n == issued + 1
<1>0. SessionTypeOK /\ TokenRows /\ FlightsTimed /\ ChainsSingle /\ Undisturbed
  BY DEF SessionInv
<1>1. /\ issued < MaxTokens /\ issued' = n /\ jar' = n /\ UNCHANGED <<flights, tick, interruptions>>
      /\ tokens' = IssuePair(tokens, n) /\ tabs' = [tabs EXCEPT ![t] = SignedIn(n)]
  BY DEF Login
<1>2. n \in 0 .. MaxTokens /\ n \in TokenIds /\ n # 0 /\ issued \in Nat
  BY <1>0, <1>1, SessionTypes DEF TokenIds
<1>3. RowIssued(n)
  BY <1>1, <1>2, PairIssued
<1>4. /\ TokenRows'
      /\ \A u \in Tabs : CookieTimed(u)' /\ (flights[u].step = "answered" => flights[u].new # n)
      /\ \A i \in TokenIds : i # n => (Live(i)' <=> Live(i))
  BY <1>1, <1>2, <1>3, RowsGrow
<1>5. SessionTypeOK'
  <2>1. SignedIn(n) \in TabState
    BY <1>2 DEF SignedIn, TabState
  <2>2. tabs' \in [Tabs -> TabState]
    BY <1>0, <1>1, <2>1, SessionTypes
  <2> QED
    BY <1>0, <1>1, <1>2, <1>3, <2>2 DEF SessionTypeOK, RowIssued
<1>6. FlightsTimed'
  <2>1. ASSUME NEW u \in Tabs PROVE AnswerFresh(u)'
    <3>1. AnswerFresh(u)
      BY <1>0 DEF FlightsTimed
    <3>2. flights[u].step = "answered" =>
            tokens'[flights[u].new].expires = tokens[flights[u].new].expires
      BY <1>3, <1>4, <3>1 DEF AnswerFresh, RowIssued
    <3> QED
      BY <1>1, <1>2, <1>4, <3>1, <3>2 DEF AnswerFresh, TokenIds
  <2> QED
    BY <1>4, <2>1 DEF FlightsTimed
<1>7. ASSUME NEW u \in Tabs, flights[u].cookie # 0
      PROVE  flights[u].cookie \in TokenIds /\ flights[u].cookie # n
  BY <1>0, <1>2, <1>7, SessionTypes DEF FlightsTimed, CookieTimed
<1>8. ChainsSingle'
  <2>1. \A i \in TokenIds : i # n => tokens'[i].chain = tokens[i].chain /\ tokens'[i].chain # n
    BY <1>0, <1>2, <1>3, SessionTypes DEF RowIssued, TokenRows
  <2>2. tokens'[n].chain = n
    BY <1>3 DEF RowIssued
  <2>3. OneLiveTokenPerLogin'
    BY <1>0, <1>4, <2>1, <2>2 DEF ChainsSingle, OneLiveTokenPerLogin
  <2>4. ASSUME NEW u \in Tabs, flights[u].step = "claimed"
        PROVE  flights[u].cookie \in TokenIds /\ flights[u].cookie # n
    BY <1>0, <1>7, <2>4 DEF FlightsTimed, CookieTimed
  <2>5. ASSUME NEW u \in Tabs, flights[u].step = "claimed", NEW i \in TokenIds, Live(i)'
        PROVE  tokens'[i].chain # tokens'[flights[u].cookie].chain
    <3>1. CASE i = n
      BY <2>1, <2>2, <2>4, <2>5, <3>1
    <3>2. CASE i # n
      BY <1>0, <1>4, <2>1, <2>4, <2>5, <3>2 DEF ChainsSingle
    <3> QED
      BY <3>1, <3>2
  <2>6. ASSUME NEW u \in Tabs, flights[u].step = "claimed",
               NEW v \in Tabs, v # u, flights[v].step = "claimed"
        PROVE  tokens'[flights[v].cookie].chain # tokens'[flights[u].cookie].chain
    BY <1>0, <2>1, <2>4, <2>6 DEF ChainsSingle
  <2> QED
    BY <1>1, <2>3, <2>5, <2>6 DEF ChainsSingle
<1>9. Undisturbed'
  <2> SUFFICES ASSUME interruptions = 0 PROVE (JarGood /\ \A u \in Tabs : CookieGood(u))'
    BY <1>1 DEF Undisturbed
  <2>1. JarGood'
    BY <1>1, <1>2, <1>3 DEF JarGood, Live, RowIssued
  <2>2. ASSUME NEW u \in Tabs PROVE CookieGood(u)'
    <3>1. CookieGood(u) /\ AnswerFresh(u)
      BY <1>0 DEF Undisturbed, FlightsTimed
    <3>2. flights[u].cookie # 0 =>
            /\ tokens'[flights[u].cookie].state = tokens[flights[u].cookie].state
            /\ tokens'[flights[u].cookie].at = tokens[flights[u].cookie].at
            /\ tokens'[flights[u].cookie].expires = tokens[flights[u].cookie].expires
      BY <1>3, <1>7 DEF RowIssued
    <3>3. flights[u].step = "answered" => flights[u].new \in TokenIds /\ flights[u].new # n
      BY <1>4, <3>1 DEF AnswerFresh
    <3>4. flights[u].step = "answered" => tokens'[flights[u].new].state = tokens[flights[u].new].state
      BY <1>3, <3>3 DEF RowIssued
    <3> QED
      BY <1>1, <3>1, <3>2, <3>4 DEF CookieGood, Live
  <2> QED
    BY <2>1, <2>2
<1> QED
  BY <1>4, <1>5, <1>6, <1>8, <1>9 DEF SessionInv


\* The claimed token is replaced by the next of its chain.
LEMMA IssueSteps ==
  ASSUME SessionInv, NEW t \in Tabs, IssueNext(t)
  PROVE  SessionInv'
<1> USE SessionBounds
<1> DEFINE n == issued + 1
           i == flights[t].cookie
           c == tokens[i].chain
<1>0. SessionTypeOK /\ TokenRows /\ FlightsTimed /\ ChainsSingle /\ Undisturbed
  BY DEF SessionInv
<1>1. /\ flights[t].step = "claimed" /\ issued < MaxTokens /\ issued' = n
      /\ UNCHANGED <<jar, tabs, tick, interruptions>>
      /\ tokens' = [IssuePair(tokens, c) EXCEPT ![i].next = n]
      /\ flights' = [flights EXCEPT ![t].step = "answered", ![t].new = n]
  BY DEF IssueNext
<1>2. n \in 0 .. MaxTokens /\ n \in TokenIds /\ n # 0 /\ issued \in Nat
  BY <1>0, <1>1, SessionTypes DEF TokenIds
<1>3. i \in TokenIds /\ i <= issued /\ i # n /\ c \in 0 .. MaxTokens /\ c <= issued
  <2>1. i \in TokenIds /\ i <= issued
    BY <1>0, <1>1, SessionTypes DEF FlightsTimed, CookieTimed
  <2>2. c \in Nat /\ c <= issued
    BY <1>0, <2>1, SessionTypes DEF TokenRows
  <2> QED
    BY <1>2, <2>1, <2>2
<1>4. RowIssued(c)
  BY <1>1, <1>2, <1>3, PairIssued
<1>5. /\ \A u \in Tabs : u # t => flights'[u] = flights[u]
      /\ flights'[t].step = "answered" /\ flights'[t].new = n /\ flights'[t].cookie = i
      /\ flights'[t].since = flights[t].since /\ flights' \in [Tabs -> FlightRow]
  <2>1. flights[t] \in FlightRow
    BY <1>0, SessionTypes
  <2> QED
    BY <1>0, <1>1, <1>2, <2>1, SessionTypes DEF FlightRow
<1>6. /\ TokenRows'
      /\ \A u \in Tabs : /\ flights'[u] = flights[u] => CookieTimed(u)'
                         /\ flights[u].step = "answered" => flights[u].new # jar
      /\ \A j \in TokenIds : j # n => (Live(j)' <=> Live(j))
  <2>1. c \in Nat /\ c <= issued /\ jar' = jar
    BY <1>1, <1>3
  <2> HIDE DEF c
  <2> QED
    BY <1>4, <2>1, RowsGrow
<1>7. SessionTypeOK'
  BY <1>0, <1>1, <1>2, <1>4, <1>5 DEF SessionTypeOK, RowIssued, FlightRow
<1>8. ASSUME NEW u \in Tabs
      PROVE  /\ flights'[u].cookie = flights[u].cookie /\ flights[u].cookie # n
             /\ flights[u].cookie # 0 => flights[u].cookie \in TokenIds
             /\ flights[u].step = "answered" => flights[u].new \in TokenIds /\ flights[u].new # n
  <2>1. flights'[u].cookie = flights[u].cookie
    BY <1>5
  <2> QED
    BY <1>0, <1>2, <2>1, SessionTypes DEF FlightsTimed, CookieTimed, AnswerFresh
<1>9. jar # n /\ jar \in Nat
  BY <1>0, <1>2, SessionTypes DEF TokenRows
<1>10. FlightsTimed'
  <2>1. CookieTimed(t)'
    <3>1. CookieTimed(t) /\ flights[t].since \in Nat /\ tokens[i].at \in Nat
      BY <1>0, <1>3, SessionTypes DEF FlightsTimed
    <3>2. tokens'[i].state = tokens[i].state /\ tokens'[i].at = tokens[i].at
      BY <1>3, <1>4 DEF RowIssued
    <3>3. /\ i # 0 /\ i <= issued' /\ tick' = tick
          /\ flights[t].since <= tick /\ tick <= flights[t].since + RoundTrip
          /\ tokens[i].state = "revoked" /\ flights[t].since <= tokens[i].at
      BY <1>1, <1>2, <1>3, <3>1 DEF CookieTimed, TokenIds
    <3> QED
      BY <1>5, <3>2, <3>3 DEF CookieTimed
  <2>2. AnswerFresh(t)'
    <3>1. tokens'[n].expires = tick + TokenTtl
      BY <1>4 DEF RowIssued
    <3>2. flights[t].since <= tick /\ flights[t].since \in Nat /\ tick \in Nat
      BY <1>0, <1>1, SessionTypes DEF FlightsTimed, CookieTimed
    <3>3. flights'[t].since + TokenTtl <= tokens'[n].expires
      BY <1>5, <3>1, <3>2
    <3>4. \A u \in Tabs : flights'[u].cookie # n
      BY <1>8
    <3>5. \A u \in Tabs : u # t /\ flights'[u].step = "answered" => flights'[u].new # n
      BY <1>5, <1>8
    <3> QED
      BY <1>1, <1>2, <1>5, <1>9, <3>3, <3>4, <3>5 DEF AnswerFresh
  <2>3. ASSUME NEW u \in Tabs, u # t PROVE CookieTimed(u)' /\ AnswerFresh(u)'
    <3>1. flights'[u] = flights[u] /\ AnswerFresh(u)
      BY <1>0, <1>5, <2>3 DEF FlightsTimed
    <3>2. AnswerFresh(u)'
      <4> SUFFICES ASSUME flights[u].step = "answered" PROVE AnswerFresh(u)'
        BY <3>1 DEF AnswerFresh
      <4>1. /\ flights[u].new \in TokenIds /\ flights[u].new # n /\ flights[u].new <= issued
            /\ flights[u].new # jar
            /\ tokens'[flights[u].new].expires = tokens[flights[u].new].expires
        BY <1>4, <1>8, <3>1 DEF RowIssued, AnswerFresh
      <4>2. flights[u].new <= issued'
        BY <1>1, <1>2, <4>1 DEF TokenIds
      <4>3. \A v \in Tabs : flights'[v].cookie # flights[u].new
        BY <1>8, <3>1 DEF AnswerFresh
      <4>4. \A v \in Tabs : v # u /\ flights'[v].step = "answered" => flights'[v].new # flights[u].new
        BY <1>5, <3>1, <4>1 DEF AnswerFresh
      <4> QED
        BY <1>1, <3>1, <4>1, <4>2, <4>3, <4>4 DEF AnswerFresh
    <3> QED
      BY <1>6, <3>1, <3>2
  <2> QED
    BY <2>1, <2>2, <2>3 DEF FlightsTimed
<1>11. ChainsSingle'
  <2>1. \A j \in TokenIds : j # n => tokens'[j].chain = tokens[j].chain
    BY <1>4 DEF RowIssued
  <2>2. tokens'[n].chain = c /\ \A j \in TokenIds : Live(j) => tokens[j].chain # c
    BY <1>0, <1>1, <1>4 DEF RowIssued, ChainsSingle
  <2>3. OneLiveTokenPerLogin'
    <3> SUFFICES ASSUME NEW j \in TokenIds, NEW k \in TokenIds, Live(j)', Live(k)',
                        tokens'[j].chain = tokens'[k].chain
                 PROVE  j = k
      BY DEF OneLiveTokenPerLogin
    <3> QED
      BY <1>0, <1>6, <2>1, <2>2 DEF ChainsSingle, OneLiveTokenPerLogin
  <2>4. ASSUME NEW u \in Tabs, flights'[u].step = "claimed"
        PROVE  /\ u # t /\ flights'[u] = flights[u] /\ flights[u].cookie \in TokenIds
               /\ tokens'[flights[u].cookie].chain = tokens[flights[u].cookie].chain
               /\ tokens[flights[u].cookie].chain # c
    <3>1. u # t /\ flights'[u] = flights[u]
      BY <1>5, <2>4
    <3>2. flights[u].cookie \in TokenIds /\ flights[u].cookie # n
      BY <1>0, <1>8, <2>4, <3>1 DEF FlightsTimed, CookieTimed
    <3>3. tokens[flights[u].cookie].chain # c
      BY <1>0, <1>1, <2>4, <3>1 DEF ChainsSingle
    <3> QED
      BY <2>1, <3>1, <3>2, <3>3
  <2>5. ASSUME NEW u \in Tabs, flights'[u].step = "claimed", NEW j \in TokenIds, Live(j)'
        PROVE  tokens'[j].chain # tokens'[flights'[u].cookie].chain
    <3>1. CASE j = n
      BY <2>2, <2>4, <2>5, <3>1
    <3>2. CASE j # n
      BY <1>0, <1>6, <2>1, <2>4, <2>5, <3>2 DEF ChainsSingle
    <3> QED
      BY <3>1, <3>2
  <2>6. ASSUME NEW u \in Tabs, flights'[u].step = "claimed",
               NEW v \in Tabs, v # u, flights'[v].step = "claimed"
        PROVE  tokens'[flights'[v].cookie].chain # tokens'[flights'[u].cookie].chain
    BY <1>0, <2>4, <2>6 DEF ChainsSingle
  <2> QED
    BY <2>3, <2>5, <2>6 DEF ChainsSingle
<1>12. Undisturbed'
  <2> SUFFICES ASSUME interruptions = 0 PROVE (JarGood /\ \A u \in Tabs : CookieGood(u))'
    BY <1>1 DEF Undisturbed
  <2>1. JarGood /\ \A u \in Tabs : CookieGood(u)
    BY <1>0 DEF Undisturbed
  <2>2. JarGood'
    <3> SUFFICES ASSUME jar # 0 PROVE JarGood'
      BY <1>1 DEF JarGood
    <3>1. CASE Live(jar)
      <4>1. Live(jar)'
        BY <1>0, <1>1, <1>6, <1>9, <3>1, SessionTypes DEF Live
      <4> QED
        BY <4>1 DEF JarGood
    <3>2. CASE ~Live(jar)
      <4>1. PICK u \in Tabs : flights[u].cookie = jar /\ flights[u].step \in {"claimed", "answered"}
        BY <2>1, <3>2 DEF JarGood
      <4>2. flights'[u].cookie = jar /\ flights'[u].step \in {"claimed", "answered"}
        BY <1>5, <4>1
      <4> QED
        BY <1>1, <4>2 DEF JarGood
    <3> QED
      BY <3>1, <3>2
  <2>3. ASSUME NEW u \in Tabs PROVE CookieGood(u)'
    <3>1. CookieGood(u)
      BY <2>1
    <3>2. flights[u].cookie # 0 =>
            /\ tokens'[flights[u].cookie].state = tokens[flights[u].cookie].state
            /\ tokens'[flights[u].cookie].at = tokens[flights[u].cookie].at
            /\ tokens'[flights[u].cookie].expires = tokens[flights[u].cookie].expires
      BY <1>4, <1>8 DEF RowIssued
    <3>3. CASE u = t
      <4>1. flights'[u].step = "answered" /\ flights'[u].new = n /\ tokens'[n].state = "live"
        BY <1>4, <1>5, <3>3 DEF RowIssued
      <4> QED
        BY <1>1, <1>2, <1>8, <3>1, <3>2, <4>1 DEF CookieGood, Live
    <3>4. CASE u # t
      <4>1. flights[u].step = "answered" =>
              tokens'[flights[u].new].state = tokens[flights[u].new].state
        BY <1>4, <1>8 DEF RowIssued
      <4>2. flights'[u] = flights[u]
        BY <1>5, <3>4
      <4> QED
        BY <1>1, <3>1, <3>2, <4>1, <4>2 DEF CookieGood, Live
    <3> QED
      BY <3>3, <3>4
  <2> QED
    BY <2>2, <2>3
<1> QED
  BY <1>6, <1>7, <1>10, <1>11, <1>12 DEF SessionInv

\* The clock moves on, while no refresh gets older than a round trip.
LEMMA SessionTicks ==
  ASSUME SessionInv, SessionTick
  PROVE  SessionInv'
<1> USE SessionBounds
<1>0. SessionTypeOK /\ TokenRows /\ FlightsTimed /\ ChainsSingle /\ Undisturbed
  BY DEF SessionInv
<1>1. /\ tick < MaxTick /\ tick' = tick + 1 /\ UNCHANGED <<tokens, issued, tabs, flights>>
      /\ jar' = IF Expired(jar, tick + 1) THEN 0 ELSE jar
      /\ interruptions' = IF \E t \in Tabs : Expired(flights[t].cookie, tick + 1)
                          THEN MaxInterruptions ELSE interruptions
  BY DEF SessionTick
<1>2. /\ tick \in Nat /\ issued \in Nat /\ jar \in Nat /\ (jar # 0 => jar \in TokenIds)
      /\ \A i \in TokenIds : tokens[i].at \in Nat /\ tokens[i].expires \in Nat
  BY <1>0, SessionTypes
<1>3. SessionTypeOK'
  <2>1. tick' \in 0 .. MaxTick
    BY <1>1, <1>2
  <2>2. jar' \in 0 .. MaxTokens /\ interruptions' \in 0 .. MaxInterruptions
    BY <1>0, <1>1 DEF SessionTypeOK
  <2> QED
    BY <1>0, <1>1, <2>1, <2>2 DEF SessionTypeOK
<1>4. TokenRows'
  <2>1. \A i \in TokenIds : tokens[i].at <= tick + 1
    BY <1>0, <1>2 DEF TokenRows
  <2>2. jar' <= issued /\ (jar' # 0 => tick + 1 < tokens[jar'].expires)
    BY <1>0, <1>1, <1>2 DEF TokenRows, Expired
  <2> QED
    BY <1>0, <1>1, <2>1, <2>2 DEF TokenRows
<1>5. FlightsTimed'
  <2> SUFFICES ASSUME NEW t \in Tabs PROVE CookieTimed(t)' /\ AnswerFresh(t)'
    BY DEF FlightsTimed
  <2>1. CookieTimed(t) /\ AnswerFresh(t) /\ flights[t].since \in Nat
    BY <1>0, SessionTypes DEF FlightsTimed
  <2>2. flights[t].step # "no" => tick + 1 - flights[t].since <= RoundTrip
    BY DEF SessionTick
  <2>3. flights[t].step # "no" => flights[t].since <= tick + 1 /\ tick + 1 <= flights[t].since + RoundTrip
    BY <1>2, <2>1, <2>2 DEF CookieTimed
  <2>4. CookieTimed(t)'
    BY <1>1, <2>1, <2>3 DEF CookieTimed
  <2>5. AnswerFresh(t)'
    BY <1>1, <2>1 DEF AnswerFresh, TokenIds
  <2> QED
    BY <2>4, <2>5
<1>6. ChainsSingle'
  BY <1>0, <1>1 DEF ChainsSingle, OneLiveTokenPerLogin, Live
<1>7. Undisturbed'
  <2> SUFFICES ASSUME interruptions' = 0 PROVE (JarGood /\ \A u \in Tabs : CookieGood(u))'
    BY DEF Undisturbed
  <2>1. interruptions = 0 /\ \A t \in Tabs : ~Expired(flights[t].cookie, tick + 1)
    BY <1>1
  <2>2. JarGood /\ \A u \in Tabs : CookieGood(u)
    BY <1>0, <2>1 DEF Undisturbed
  <2>3. JarGood'
    BY <1>1, <2>2 DEF JarGood, Live
  <2>4. ASSUME NEW u \in Tabs PROVE CookieGood(u)'
    <3>1. flights[u].cookie # 0 => tick + 1 < tokens[flights[u].cookie].expires
      BY <1>0, <1>2, <2>1, SessionTypes DEF Expired
    <3> QED
      BY <1>1, <2>2, <3>1 DEF CookieGood, Live
  <2> QED
    BY <2>3, <2>4
<1> QED
  BY <1>3, <1>4, <1>5, <1>6, <1>7 DEF SessionInv

\* Every step of the browser's tabs and of the token service keeps the invariant.
LEMMA SessionSteps == SessionInv /\ [SessionNext]_sessionVars => SessionInv'
<1> SUFFICES ASSUME SessionInv, [SessionNext]_sessionVars PROVE SessionInv'
  OBVIOUS
<1>1. CASE UNCHANGED sessionVars
  BY <1>1 DEF sessionVars, SessionInv, SessionTypeOK, TokenRows, FlightsTimed, CookieTimed, AnswerFresh,
     ChainsSingle, OneLiveTokenPerLogin, Live, Undisturbed, JarGood, CookieGood
<1>2. CASE SessionNext
  BY <1>2, FlightMoves, RotationEnds, LogoutSteps, ClaimSteps, UnclaimableSteps, AnswerSteps, LoginSteps, IssueSteps,
     SessionTicks DEF SessionNext
<1> QED
  BY <1>1, <1>2

\* TokenService.rotate and handleUnclaimableToken, for every number of tabs and
\* tokens: however the tabs of one browser race, a login has at most one token
\* that can be used, and a session nobody ended goes on, provided two
\* refreshes under way fit into the grace window.
THEOREM RacesAreSurvived == SessionSpec => []SessionsSurviveRaces
<1>1. SessionInv => SessionsSurviveRaces
  BY DEF SessionInv, SessionsSurviveRaces, ChainsSingle, Undisturbed, JarGood, RaceKeepsSession
<1> QED
  BY <1>1, SessionBegins, SessionSteps, PTL DEF SessionSpec


---------------------------------------------------------------------------
(* The subject's privacy requests: the inductive invariant.                *)

\* A sweep that still works on a request; one that only purges has done its part.
AtWork(w) == sweep[w].stage \in {"assembling", "saving", "erasing"}

\* What a sweep has in hand at each stage.
SweepsShaped ==
  \A w \in PrivacySweeps :
    /\ sweep[w].stage \in {"assembling", "saving"} => sweep[w].on \in ExportIds
    /\ sweep[w].stage \in {"listed", "erasing", "purging"} => sweep[w].on \in ErasureIds
    /\ sweep[w].doc # "none" => sweep[w].stage = "saving"
    /\ sweep[w].stage = "saving" => sweep[w].doc # "none"
    /\ sweep[w].stage = "purging" => erased

\* After an erasure the only documents with personal data are those that were in
\* memory when it committed.
CopiesGone ==
  erased /\ ~crossed => /\ \A w \in PrivacySweeps : sweep[w].doc # "personal"
                        /\ \A e \in ExportIds : payload[e] # "personal"

\* While no request was taken from a sweep at work: such a sweep has its request
\* in processing and to itself, and what it committed is recorded.
WorkClaimed ==
  ~outlived =>
    /\ \A w \in PrivacySweeps : AtWork(w) => Status(sweep[w].on) = "processing"
    /\ \A v, w \in PrivacySweeps : AtWork(v) /\ AtWork(w) /\ sweep[v].on = sweep[w].on => v = w
    /\ \A r \in erasedBy : Status(r) = "completed"
    /\ \A e \in ExportIds : payload[e] # "none" => Status(e) = "ready"

\* The objects an erasure has to purge: all are listed before it, and after it
\* each is in the hands of a sweep that goes on to purge it.
BytesListed ==
  /\ ~erased => /\ imageBytes = images
                /\ \A w \in PrivacySweeps : sweep[w].stage \in {"listed", "erasing"} =>
                     imageBytes \subseteq sweep[w].purge \union late
  /\ (erased /\ ~interrupted) =>
       \A b \in imageBytes \ late :
         \E w \in PrivacySweeps : sweep[w].stage = "purging" /\ b \in sweep[w].purge

PrivacyInv == PrivacyTypeOK /\ SweepsShaped /\ CopiesGone /\ WorkClaimed /\ BytesListed


RequestRow == [status : {"none", "pending", "processing", "ready", "completed", "cancelled", "expired",
                         "failed"}, aged : BOOLEAN]
SweepRow == [stage : {"idle", "assembling", "saving", "listed", "erasing", "purging"},
             on : RequestIds \union {NoPrivacyRequest}, doc : {"none", "personal", "anonymous"},
             purge : SUBSET Images]

\* No request and nothing erased, to begin with.
LEMMA PrivacyBegins == PrivacyInit => PrivacyInv
<1> SUFFICES ASSUME PrivacyInit PROVE PrivacyInv
  OBVIOUS
<1>1. PrivacyTypeOK
  <2>1. Resting \in SweepRow /\ [status |-> "none", aged |-> FALSE] \in RequestRow
    BY DEF Resting, SweepRow, RequestRow
  <2>2. request \in [RequestIds -> RequestRow] /\ sweep \in [PrivacySweeps -> SweepRow]
    BY <2>1 DEF PrivacyInit
  <2> QED
    BY <2>2 DEF PrivacyInit, PrivacyTypeOK, RequestRow, SweepRow
<1>2. SweepsShaped
  BY DEF PrivacyInit, SweepsShaped, Resting
<1>3. CopiesGone
  BY DEF PrivacyInit, CopiesGone
<1>4. WorkClaimed
  BY DEF PrivacyInit, WorkClaimed, AtWork, Resting
<1>5. BytesListed
  BY DEF PrivacyInit, BytesListed, Resting
<1> QED
  BY <1>1, <1>2, <1>3, <1>4, <1>5 DEF PrivacyInv

\* What the state's functions map to.
LEMMA PrivacyTypes ==
  ASSUME PrivacyTypeOK
  PROVE  /\ request \in [RequestIds -> RequestRow] /\ sweep \in [PrivacySweeps -> SweepRow]
         /\ payload \in [ExportIds -> {"none", "personal", "anonymous"}]
         /\ erasedBy \subseteq ErasureIds /\ images \subseteq Images /\ imageBytes \subseteq Images
         /\ late \subseteq Images
  BY DEF PrivacyTypeOK, RequestRow, SweepRow

\* A request is opened, cancelled, grows old, is reclaimed or expires: the sweeps
\* and the subject's data are not touched.
RequestMoves ==
  \/ \E r \in RequestIds : OpenRequest(r) \/ CancelErasure(r) \/ Age(r) \/ ReclaimStalled(r)
  \/ ExpireStaleExports

\* Such a move touches no copy and no claim of a sweep.
LEMMA RequestSteps ==
  ASSUME PrivacyInv, RequestMoves
  PROVE  PrivacyInv'
<1>0. PrivacyTypeOK /\ SweepsShaped /\ CopiesGone /\ WorkClaimed /\ BytesListed
  BY DEF PrivacyInv
<1>1. /\ UNCHANGED <<erased, images, imageBytes, sweep, erasedBy, crossed, interrupted, late>>
      /\ outlived' \in BOOLEAN /\ (outlived => outlived')
  BY <1>0 DEF RequestMoves, OpenRequest, CancelErasure, Age, ReclaimStalled, ExpireStaleExports, observers,
     PrivacyTypeOK
<1>2. request' \in [RequestIds -> RequestRow]
  <2>1. ASSUME NEW s \in {"none", "pending", "processing", "ready", "completed", "cancelled", "expired",
                          "failed"}, NEW a \in BOOLEAN
        PROVE  [status |-> s, aged |-> a] \in RequestRow
    BY DEF RequestRow
  <2>2. CASE \E r \in RequestIds : OpenRequest(r) \/ CancelErasure(r) \/ ReclaimStalled(r)
    <3>1. PICK r \in RequestIds : OpenRequest(r) \/ CancelErasure(r) \/ ReclaimStalled(r)
      BY <2>2
    <3>2. PICK row \in RequestRow : request' = [request EXCEPT ![r] = row]
      <4>1. CASE OpenRequest(r) \/ CancelErasure(r)
        BY <2>1, <4>1 DEF OpenRequest, CancelErasure, To
      <4>2. CASE ReclaimStalled(r)
        <5>1. (r \in ErasureIds) \in BOOLEAN
          OBVIOUS
        <5>2. [status |-> "pending", aged |-> r \in ErasureIds] \in RequestRow
          BY <2>1, <5>1
        <5> QED
          BY <4>2, <5>2 DEF ReclaimStalled, To
      <4> QED
        BY <3>1, <4>1, <4>2
    <3> QED
      BY <1>0, <3>2, PrivacyTypes
  <2>3. CASE \E r \in RequestIds : Age(r)
    BY <1>0, <2>3, PrivacyTypes DEF Age, RequestRow
  <2>4. CASE ExpireStaleExports
    BY <1>0, <2>1, <2>4, PrivacyTypes DEF ExpireStaleExports
  <2> QED
    BY <2>2, <2>3, <2>4 DEF RequestMoves
<1>3. \A e \in ExportIds : \/ payload'[e] = payload[e]
                           \/ payload'[e] = "none"
  BY DEF RequestMoves, OpenRequest, CancelErasure, Age, ReclaimStalled, ExpireStaleExports, DocumentsWithout
<1>4. payload' \in [ExportIds -> {"none", "personal", "anonymous"}]
  BY <1>0, PrivacyTypes DEF RequestMoves, OpenRequest, CancelErasure, Age, ReclaimStalled, ExpireStaleExports,
     DocumentsWithout
<1>5. \A q \in RequestIds :
        \/ Status(q)' = Status(q)
        \/ Status(q) \in {"none", "pending"}
        \/ /\ Status(q) = "processing"
           /\ ~outlived' => \A w \in PrivacySweeps : AtWork(w) => sweep[w].on # q
        \/ Status(q) = "ready" /\ q \in ExportIds /\ payload'[q] = "none"
  <2>1. CASE \E r \in RequestIds : OpenRequest(r) \/ CancelErasure(r)
    BY <1>0, <2>1, PrivacyTypes DEF OpenRequest, CancelErasure, Cancellable, To, Status
  <2>2. CASE \E r \in RequestIds : Age(r)
    BY <1>0, <2>2, PrivacyTypes DEF Age, Status, RequestRow
  <2>3. CASE \E r \in RequestIds : ReclaimStalled(r)
    <3>1. PICK r \in RequestIds : ReclaimStalled(r)
      BY <2>3
    <3>2. \A q \in RequestIds : q # r => Status(q)' = Status(q)
      BY <1>0, <3>1, PrivacyTypes DEF ReclaimStalled, To, Status
    <3>3. Status(r) = "processing"
      BY <3>1 DEF ReclaimStalled, Stalled
    <3>4. ~outlived' => \A w \in PrivacySweeps : AtWork(w) => sweep[w].on # r
      BY <3>1 DEF ReclaimStalled, AtWork
    <3> QED
      BY <3>2, <3>3, <3>4
  <2>4. CASE ExpireStaleExports
    BY <1>0, <2>4, PrivacyTypes DEF ExpireStaleExports, DocumentsWithout, Status
  <2> QED
    BY <2>1, <2>2, <2>3, <2>4 DEF RequestMoves
<1>6. PrivacyTypeOK'
  BY <1>0, <1>1, <1>2, <1>4 DEF PrivacyTypeOK, RequestRow
<1>7. SweepsShaped' /\ BytesListed'
  BY <1>0, <1>1 DEF SweepsShaped, BytesListed
<1>8. CopiesGone'
  BY <1>0, <1>1, <1>3 DEF CopiesGone
<1>9. WorkClaimed'
  <2> SUFFICES ASSUME ~outlived' PROVE WorkClaimed'
    BY DEF WorkClaimed
  <2>1. /\ ~outlived
        /\ \A w \in PrivacySweeps : AtWork(w) => Status(sweep[w].on) = "processing"
        /\ \A v, w \in PrivacySweeps : AtWork(v) /\ AtWork(w) /\ sweep[v].on = sweep[w].on => v = w
        /\ \A r \in erasedBy : Status(r) = "completed"
        /\ \A e \in ExportIds : payload[e] # "none" => Status(e) = "ready"
    BY <1>0, <1>1 DEF WorkClaimed
  <2>2. ASSUME NEW w \in PrivacySweeps, AtWork(w) PROVE Status(sweep[w].on)' = "processing"
    <3>1. sweep[w].on \in RequestIds
      BY <1>0, <2>2 DEF SweepsShaped, AtWork, RequestIds
    <3> QED
      BY <1>1, <1>5, <2>1, <2>2, <3>1
  <2>3. ASSUME NEW r \in erasedBy PROVE Status(r)' = "completed"
    <3>1. r \in RequestIds /\ Status(r) = "completed"
      BY <1>0, <2>1, PrivacyTypes DEF RequestIds
    <3> QED
      BY <1>5, <3>1
  <2>4. ASSUME NEW e \in ExportIds, payload'[e] # "none" PROVE Status(e)' = "ready"
    <3>1. e \in RequestIds /\ Status(e) = "ready"
      BY <1>3, <2>1, <2>4 DEF RequestIds
    <3> QED
      BY <1>5, <2>4, <3>1
  <2> QED
    BY <1>1, <2>1, <2>2, <2>3, <2>4 DEF WorkClaimed, AtWork
<1> QED
  BY <1>6, <1>7, <1>8, <1>9 DEF PrivacyInv

\* The subject stores or removes an image.
LEMMA ImageSteps ==
  ASSUME PrivacyInv, NEW i \in Images, StoreImage(i) \/ RemoveImage(i)
  PROVE  PrivacyInv'
<1>0. PrivacyTypeOK /\ SweepsShaped /\ CopiesGone /\ WorkClaimed /\ BytesListed
  BY DEF PrivacyInv
<1>1. /\ UNCHANGED <<request, payload, erased, sweep, erasedBy, outlived, crossed, interrupted>>
      /\ late \subseteq late'
      /\ \/ /\ images' = images \union {i} /\ imageBytes' = imageBytes \union {i}
            /\ (erased \/ \E w \in PrivacySweeps : sweep[w].stage \in {"listed", "erasing", "purging"})
                 => i \in late'
         \/ images' = images \ {i} /\ imageBytes' = imageBytes \ {i}
  BY DEF StoreImage, RemoveImage, observers
<1>2. PrivacyTypeOK'
  <2>1. late' \subseteq Images /\ images' \subseteq Images /\ imageBytes' \subseteq Images
    BY <1>0, PrivacyTypes DEF StoreImage, RemoveImage, observers
  <2> QED
    BY <1>0, <1>1, <2>1 DEF PrivacyTypeOK
<1>3. SweepsShaped' /\ CopiesGone' /\ WorkClaimed'
  BY <1>0, <1>1 DEF SweepsShaped, CopiesGone, WorkClaimed, AtWork, Status
<1>4. BytesListed'
  <2>1. ~erased => imageBytes' = images'
    BY <1>0, <1>1 DEF BytesListed
  <2>2. ASSUME ~erased, NEW w \in PrivacySweeps, sweep[w].stage \in {"listed", "erasing"}
        PROVE  imageBytes' \subseteq sweep[w].purge \union late'
    BY <1>0, <1>1, <2>2 DEF BytesListed
  <2>3. ASSUME erased, ~interrupted, NEW b \in imageBytes' \ late'
        PROVE  \E w \in PrivacySweeps : sweep[w].stage = "purging" /\ b \in sweep[w].purge
    BY <1>0, <1>1, <2>3 DEF BytesListed
  <2> QED
    BY <1>1, <2>1, <2>2, <2>3 DEF BytesListed
<1> QED
  BY <1>2, <1>3, <1>4 DEF PrivacyInv


\* A sweep that neither erases nor purges goes from one stage to another: the
\* images are not touched, and a document shows what was there to be read.
LEMMA SweepMoves ==
  ASSUME PrivacyInv, NEW w \in PrivacySweeps, NEW row \in SweepRow,
         sweep' = [sweep EXCEPT ![w] = row],
         UNCHANGED <<erased, images, imageBytes, late, crossed>>,
         interrupted => interrupted', interrupted' \in BOOLEAN,
         row.stage \in {"assembling", "saving"} => row.on \in ExportIds,
         row.stage \in {"listed", "erasing"} => row.on \in ErasureIds,
         row.doc # "none" <=> row.stage = "saving",
         row.stage # "purging", sweep[w].stage = "purging" => interrupted',
         ~erased /\ row.stage \in {"listed", "erasing"} => imageBytes \subseteq row.purge \union late,
         row.doc = "personal" => ~erased,
         \A e \in ExportIds : payload'[e] \in {payload[e], sweep[w].doc}
  PROVE  /\ sweep' \in [PrivacySweeps -> SweepRow] /\ sweep'[w] = row
         /\ \A v \in PrivacySweeps : v # w => sweep'[v] = sweep[v]
         /\ SweepsShaped' /\ CopiesGone' /\ BytesListed'
<1>0. PrivacyTypeOK /\ SweepsShaped /\ CopiesGone /\ BytesListed
  BY DEF PrivacyInv
<1>1. /\ sweep' \in [PrivacySweeps -> SweepRow] /\ sweep'[w] = row
      /\ \A v \in PrivacySweeps : v # w => sweep'[v] = sweep[v]
  BY <1>0, PrivacyTypes
<1>2. SweepsShaped'
  BY <1>0, <1>1 DEF SweepsShaped
<1>3. CopiesGone'
  BY <1>0, <1>1 DEF CopiesGone
<1>4. BytesListed'
  <2>1. ~erased => /\ imageBytes = images
                   /\ \A v \in PrivacySweeps : sweep'[v].stage \in {"listed", "erasing"} =>
                        imageBytes \subseteq sweep'[v].purge \union late
    BY <1>0, <1>1 DEF BytesListed
  <2>2. ASSUME erased, ~interrupted', NEW b \in imageBytes \ late
        PROVE  \E v \in PrivacySweeps : sweep'[v].stage = "purging" /\ b \in sweep'[v].purge
    <3>1. PICK v \in PrivacySweeps : sweep[v].stage = "purging" /\ b \in sweep[v].purge
      BY <1>0, <2>2 DEF BytesListed
    <3>2. sweep'[v] = sweep[v]
      BY <1>1, <2>2, <3>1
    <3> QED
      BY <3>1, <3>2
  <2> QED
    BY <2>1, <2>2 DEF BytesListed
<1> QED
  BY <1>1, <1>2, <1>3, <1>4

\* A sweep claims a request that is pending, goes on with its own, or leaves it.
LEMMA WorkKept ==
  ASSUME PrivacyInv, NEW w \in PrivacySweeps, NEW r \in RequestIds,
         UNCHANGED <<outlived, erasedBy>>,
         \A v \in PrivacySweeps : v # w => sweep'[v] = sweep[v],
         \A q \in RequestIds : q # r => Status(q)' = Status(q),
         ~outlived => \/ Status(r)' = Status(r)
                      \/ Status(r) = "pending"
                      \/ AtWork(w) /\ sweep[w].on = r,
         (~outlived /\ AtWork(w)') =>
           /\ Status(sweep[w].on)' = "processing"
           /\ \/ AtWork(w) /\ sweep'[w].on = sweep[w].on
              \/ sweep'[w].on = r /\ Status(r) = "pending",
         ~outlived => \A e \in ExportIds : \/ payload'[e] = payload[e]
                                           \/ Status(e)' = "ready"
  PROVE  WorkClaimed'
<1>0. PrivacyTypeOK /\ SweepsShaped /\ WorkClaimed
  BY DEF PrivacyInv
<1> SUFFICES ASSUME ~outlived PROVE WorkClaimed'
  BY DEF WorkClaimed
<1>1. /\ \A v \in PrivacySweeps : AtWork(v) => Status(sweep[v].on) = "processing"
      /\ \A u, v \in PrivacySweeps : AtWork(u) /\ AtWork(v) /\ sweep[u].on = sweep[v].on => u = v
      /\ \A q \in erasedBy : Status(q) = "completed"
      /\ \A e \in ExportIds : payload[e] # "none" => Status(e) = "ready"
  BY <1>0 DEF WorkClaimed
<1>2. ASSUME NEW v \in PrivacySweeps, v # w, AtWork(v)'
      PROVE  /\ AtWork(v) /\ sweep'[v].on = sweep[v].on /\ sweep[v].on \in RequestIds
             /\ Status(sweep[v].on) = "processing"
  BY <1>0, <1>1, <1>2 DEF AtWork, SweepsShaped, RequestIds
<1>3. ASSUME NEW v \in PrivacySweeps, v # w, AtWork(v)'
      PROVE  Status(sweep[v].on)' = "processing"
  <2>1. sweep[v].on # r \/ Status(r)' = Status(r)
    BY <1>1, <1>2, <1>3
  <2>2. request'[sweep[v].on].status = "processing"
    BY <1>2, <1>3, <2>1 DEF Status
  <2> QED
    BY <1>2, <1>3, <2>2 DEF Status
<1>4. ASSUME NEW v \in PrivacySweeps, v # w, AtWork(v)', AtWork(w)'
      PROVE  sweep'[v].on # sweep'[w].on
  BY <1>1, <1>2, <1>4
<1>5. ASSUME NEW q \in erasedBy PROVE Status(q)' = "completed"
  <2>1. q \in RequestIds /\ Status(q) = "completed"
    BY <1>0, <1>1, PrivacyTypes DEF RequestIds
  <2> QED
    BY <1>1, <2>1
<1>6. ASSUME NEW e \in ExportIds, payload'[e] # "none" PROVE Status(e)' = "ready"
  BY <1>1, <1>6 DEF RequestIds
<1>7. \A v \in PrivacySweeps : AtWork(v)' => Status(sweep[v].on)' = "processing"
  BY <1>3
<1>8. \A u, v \in PrivacySweeps : AtWork(u)' /\ AtWork(v)' /\ sweep'[u].on = sweep'[v].on => u = v
  BY <1>1, <1>2, <1>4
<1> QED
  BY <1>5, <1>6, <1>7, <1>8 DEF WorkClaimed

\* generateExport: claimed, assembled, stored; and the failure of either kind.
LEMMA ExportSteps ==
  ASSUME PrivacyInv, NEW w \in PrivacySweeps,
         (\E e \in ExportIds : ClaimExport(w, e)) \/ Assemble(w) \/ StoreExport(w) \/ FailRequest(w)
  PROVE  PrivacyInv'
<1>0. PrivacyTypeOK /\ SweepsShaped /\ WorkClaimed
  BY DEF PrivacyInv
<1>1. /\ request \in [RequestIds -> RequestRow] /\ sweep \in [PrivacySweeps -> SweepRow]
      /\ payload \in [ExportIds -> {"none", "personal", "anonymous"}] /\ sweep[w] \in SweepRow
  BY <1>0, PrivacyTypes
<1>2. Resting \in SweepRow /\ Resting.stage = "idle" /\ Resting.doc = "none"
  BY DEF Resting, SweepRow
<1>3. ASSUME NEW s \in {"none", "pending", "processing", "ready", "completed", "cancelled", "expired",
                        "failed"}, NEW a \in BOOLEAN
      PROVE  [status |-> s, aged |-> a] \in RequestRow
  BY DEF RequestRow
<1>4. CASE \E e \in ExportIds : ClaimExport(w, e)
  <2> DEFINE row(e) == [stage |-> "assembling", on |-> e, doc |-> "none", purge |-> {}]
  <2>1. PICK e \in ExportIds : ClaimExport(w, e)
    BY <1>4
  <2>2. /\ UNCHANGED <<payload, erased, images, imageBytes, erasedBy, outlived, crossed, interrupted, late>>
        /\ sweep[w].stage = "idle" /\ Status(e) = "pending" /\ e \in RequestIds
        /\ request' = [request EXCEPT ![e] = [status |-> "processing", aged |-> FALSE]]
        /\ sweep' = [sweep EXCEPT ![w] = row(e)]
    BY <2>1 DEF ClaimExport, ClaimsRequest, To, Working, observers, RequestIds
  <2>3. row(e) \in SweepRow
    BY DEF SweepRow, RequestIds
  <2>4. /\ sweep' \in [PrivacySweeps -> SweepRow] /\ sweep'[w] = row(e)
        /\ \A v \in PrivacySweeps : v # w => sweep'[v] = sweep[v]
        /\ SweepsShaped' /\ CopiesGone' /\ BytesListed'
    BY <1>0, <2>2, <2>3, SweepMoves DEF PrivacyTypeOK
  <2>5. request' \in [RequestIds -> RequestRow]
    BY <1>1, <1>3, <2>2
  <2>6. WorkClaimed'
    <3>1. /\ \A q \in RequestIds : q # e => Status(q)' = Status(q)
          /\ Status(sweep[w].on)' = "processing" /\ sweep'[w].on = e
      BY <1>1, <2>2, <2>4 DEF Status
    <3> QED
      BY <2>2, <2>4, <3>1, WorkKept
  <2>7. PrivacyTypeOK'
    BY <1>0, <2>2, <2>4, <2>5 DEF PrivacyTypeOK, SweepRow, RequestRow
  <2> QED
    BY <2>4, <2>6, <2>7 DEF PrivacyInv
<1>5. CASE Assemble(w)
  <2> DEFINE shown == IF erased THEN "anonymous" ELSE "personal"
             row == [stage |-> "saving", on |-> sweep[w].on, doc |-> shown, purge |-> {}]
  <2>1. /\ UNCHANGED <<request, payload, erased, images, imageBytes, erasedBy, outlived, crossed, interrupted,
                       late>>
        /\ sweep[w].stage = "assembling" /\ sweep' = [sweep EXCEPT ![w] = row]
    BY <1>5 DEF Assemble, Working, observers
  <2>2. row \in SweepRow /\ sweep[w].on \in ExportIds /\ sweep[w].on \in RequestIds
    BY <1>0, <2>1 DEF SweepRow, RequestIds, SweepsShaped
  <2>3. /\ sweep' \in [PrivacySweeps -> SweepRow] /\ sweep'[w] = row
        /\ \A v \in PrivacySweeps : v # w => sweep'[v] = sweep[v]
        /\ SweepsShaped' /\ CopiesGone' /\ BytesListed'
    BY <1>0, <2>1, <2>2, SweepMoves DEF PrivacyTypeOK
  <2>4. WorkClaimed'
    <3>1. /\ \A q \in RequestIds : Status(q)' = Status(q)
          /\ AtWork(w) /\ sweep'[w].on = sweep[w].on
      BY <2>1, <2>3 DEF Status, AtWork
    <3>2. ~outlived => Status(sweep[w].on)' = "processing"
      BY <1>0, <2>1, <3>1 DEF WorkClaimed, Status
    <3> QED
      BY <2>1, <2>2, <2>3, <3>1, <3>2, WorkKept
  <2>5. PrivacyTypeOK'
    BY <1>0, <2>1, <2>3 DEF PrivacyTypeOK, SweepRow
  <2> QED
    BY <2>3, <2>4, <2>5 DEF PrivacyInv
<1>6. CASE StoreExport(w)
  <2> DEFINE e == sweep[w].on
  <2>1. /\ UNCHANGED <<erased, images, imageBytes, erasedBy, outlived, crossed, interrupted, late>>
        /\ sweep[w].stage = "saving" /\ sweep' = [sweep EXCEPT ![w] = Resting]
        /\ payload' = [payload EXCEPT ![e] = sweep[w].doc]
        /\ \/ Status(e) = "processing" /\ request' = [request EXCEPT ![e] = [status |-> "ready", aged |-> FALSE]]
           \/ Status(e) # "processing" /\ UNCHANGED request
    BY <1>6 DEF StoreExport, Rests, To, observers
  <2>2. e \in ExportIds /\ e \in RequestIds /\ AtWork(w)
    BY <1>0, <2>1 DEF RequestIds, SweepsShaped, AtWork
  <2>3. /\ payload' \in [ExportIds -> {"none", "personal", "anonymous"}] /\ payload'[e] = sweep[w].doc
        /\ \A x \in ExportIds : x # e => payload'[x] = payload[x]
    BY <1>1, <2>1, <2>2 DEF SweepRow
  <2>4. /\ sweep' \in [PrivacySweeps -> SweepRow] /\ sweep'[w] = Resting
        /\ \A v \in PrivacySweeps : v # w => sweep'[v] = sweep[v]
        /\ SweepsShaped' /\ CopiesGone' /\ BytesListed'
    BY <1>0, <1>2, <2>1, <2>3, SweepMoves DEF PrivacyTypeOK
  <2>5. request' \in [RequestIds -> RequestRow]
    BY <1>1, <1>3, <2>1
  <2>6. WorkClaimed'
    <3>1. \A q \in RequestIds : q # e => Status(q)' = Status(q)
      BY <1>1, <2>1 DEF Status
    <3>2. ~outlived => request'[e].status = "ready"
      BY <1>0, <1>1, <2>1, <2>2 DEF WorkClaimed, Status
    <3>3. ~AtWork(w)'
      BY <1>2, <2>4 DEF AtWork
    <3>4. ~outlived => \A x \in ExportIds : payload'[x] = payload[x] \/ Status(x)' = "ready"
      BY <2>3, <3>2 DEF Status
    <3> QED
      BY <2>1, <2>2, <2>4, <3>1, <3>3, <3>4, WorkKept
  <2>7. PrivacyTypeOK'
    BY <1>0, <2>1, <2>3, <2>4, <2>5 DEF PrivacyTypeOK, SweepRow, RequestRow
  <2> QED
    BY <2>4, <2>6, <2>7 DEF PrivacyInv
<1>7. CASE FailRequest(w)
  <2> DEFINE r == sweep[w].on
  <2>1. /\ UNCHANGED <<payload, erased, images, imageBytes, erasedBy, outlived, crossed, interrupted, late>>
        /\ AtWork(w) /\ sweep' = [sweep EXCEPT ![w] = Resting]
        /\ request' = [request EXCEPT ![r] = [status |-> "failed", aged |-> FALSE]]
    BY <1>7 DEF FailRequest, Rests, To, observers, AtWork
  <2>2. r \in RequestIds
    BY <1>0, <2>1 DEF RequestIds, SweepsShaped, AtWork
  <2>3. /\ sweep' \in [PrivacySweeps -> SweepRow] /\ sweep'[w] = Resting
        /\ \A v \in PrivacySweeps : v # w => sweep'[v] = sweep[v]
        /\ SweepsShaped' /\ CopiesGone' /\ BytesListed'
    BY <1>0, <1>2, <2>1, SweepMoves DEF PrivacyTypeOK, AtWork
  <2>4. request' \in [RequestIds -> RequestRow]
    BY <1>1, <1>3, <2>1
  <2>5. WorkClaimed'
    <3>1. \A q \in RequestIds : q # r => Status(q)' = Status(q)
      BY <1>1, <2>1 DEF Status
    <3>2. ~AtWork(w)'
      BY <1>2, <2>3 DEF AtWork
    <3> QED
      BY <2>1, <2>2, <2>3, <3>1, <3>2, WorkKept
  <2>6. PrivacyTypeOK'
    BY <1>0, <2>1, <2>3, <2>4 DEF PrivacyTypeOK, SweepRow, RequestRow
  <2> QED
    BY <2>3, <2>5, <2>6 DEF PrivacyInv
<1> QED
  BY <1>4, <1>5, <1>6, <1>7


\* executeWithBytePurge up to its transaction, and an instance that stops.
LEMMA ErasureClaimSteps ==
  ASSUME PrivacyInv, NEW w \in PrivacySweeps,
         (\E r \in ErasureIds : ListBytes(w, r)) \/ ClaimErasure(w) \/ SweepDies(w)
  PROVE  PrivacyInv'
<1>0. PrivacyTypeOK /\ SweepsShaped /\ WorkClaimed /\ BytesListed
  BY DEF PrivacyInv
<1>1. /\ request \in [RequestIds -> RequestRow] /\ sweep \in [PrivacySweeps -> SweepRow]
      /\ sweep[w] \in SweepRow /\ images \subseteq Images
  BY <1>0, PrivacyTypes
<1>2. Resting \in SweepRow /\ Resting.stage = "idle" /\ Resting.doc = "none"
  BY DEF Resting, SweepRow
<1>3. [status |-> "processing", aged |-> FALSE] \in RequestRow
  BY DEF RequestRow
<1>4. CASE \E r \in ErasureIds : ListBytes(w, r)
  <2> DEFINE row(r) == [stage |-> "listed", on |-> r, doc |-> "none", purge |-> images]
  <2>1. PICK r \in ErasureIds : ListBytes(w, r)
    BY <1>4
  <2>2. /\ UNCHANGED <<request, payload, erased, images, imageBytes, erasedBy, outlived, crossed, interrupted,
                       late>>
        /\ sweep[w].stage = "idle" /\ sweep' = [sweep EXCEPT ![w] = row(r)] /\ r \in RequestIds
    BY <2>1 DEF ListBytes, Working, observers, RequestIds
  <2>3. row(r) \in SweepRow
    BY <1>1 DEF SweepRow, RequestIds
  <2>4. ~erased => imageBytes \subseteq row(r).purge \union late
    BY <1>0 DEF BytesListed
  <2>5. /\ sweep' \in [PrivacySweeps -> SweepRow] /\ sweep'[w] = row(r)
        /\ \A v \in PrivacySweeps : v # w => sweep'[v] = sweep[v]
        /\ SweepsShaped' /\ CopiesGone' /\ BytesListed'
    BY <1>0, <2>2, <2>3, <2>4, SweepMoves DEF PrivacyTypeOK
  <2>6. WorkClaimed'
    <3>1. (\A q \in RequestIds : Status(q)' = Status(q)) /\ ~AtWork(w)'
      BY <2>2, <2>5 DEF Status, AtWork
    <3> QED
      BY <2>2, <2>5, <3>1, WorkKept
  <2>7. PrivacyTypeOK'
    BY <1>0, <2>2, <2>5 DEF PrivacyTypeOK, SweepRow
  <2> QED
    BY <2>5, <2>6, <2>7 DEF PrivacyInv
<1>5. ASSUME sweep' = [sweep EXCEPT ![w] = Resting], UNCHANGED request,
             UNCHANGED <<payload, erased, images, imageBytes, erasedBy, outlived, crossed, late>>,
             interrupted' \in BOOLEAN, interrupted => interrupted',
             sweep[w].stage = "purging" => interrupted'
      PROVE  PrivacyInv'
  <2>1. /\ sweep' \in [PrivacySweeps -> SweepRow] /\ sweep'[w] = Resting
        /\ \A v \in PrivacySweeps : v # w => sweep'[v] = sweep[v]
        /\ SweepsShaped' /\ CopiesGone' /\ BytesListed'
    BY <1>2, <1>5, SweepMoves
  <2>2. PrivacyTypeOK'
    BY <1>0, <1>5, <2>1 DEF PrivacyTypeOK, SweepRow
  <2>3. WorkClaimed'
    BY <1>0, <1>2, <1>5, <2>1 DEF WorkClaimed, AtWork, Status
  <2> QED
    BY <2>1, <2>2, <2>3 DEF PrivacyInv
<1>6. CASE SweepDies(w)
  BY <1>5, <1>6 DEF SweepDies, Rests
<1>7. CASE ClaimErasure(w)
  <2> DEFINE r == sweep[w].on
             row == [stage |-> "erasing", on |-> r, doc |-> "none", purge |-> sweep[w].purge]
  <2>1. /\ UNCHANGED <<payload, erased, images, imageBytes, erasedBy, outlived, crossed, interrupted, late>>
        /\ sweep[w].stage = "listed" /\ r \in ErasureIds /\ r \in RequestIds
    BY <1>0, <1>7 DEF ClaimErasure, observers, SweepsShaped, RequestIds
  <2>2. CASE Status(r) # "pending"
    <3>1. sweep' = [sweep EXCEPT ![w] = Resting] /\ UNCHANGED request
      BY <1>7, <2>2 DEF ClaimErasure, ClaimsRequest, Rests
    <3>2. interrupted' \in BOOLEAN
      BY <1>0, <2>1 DEF PrivacyTypeOK
    <3> QED
      BY <1>5, <2>1, <3>1, <3>2
  <2>3. CASE Status(r) = "pending"
    <3>1. /\ request' = [request EXCEPT ![r] = [status |-> "processing", aged |-> FALSE]]
          /\ sweep' = [sweep EXCEPT ![w] = row]
      BY <1>7, <2>3 DEF ClaimErasure, ClaimsRequest, To, Working
    <3>2. row \in SweepRow
      BY <1>1 DEF SweepRow
    <3>3. ~erased => imageBytes \subseteq row.purge \union late
      BY <1>0, <2>1 DEF BytesListed
    <3>4. /\ sweep' \in [PrivacySweeps -> SweepRow] /\ sweep'[w] = row
          /\ \A v \in PrivacySweeps : v # w => sweep'[v] = sweep[v]
          /\ SweepsShaped' /\ CopiesGone' /\ BytesListed'
      BY <1>0, <2>1, <3>1, <3>2, <3>3, SweepMoves DEF PrivacyTypeOK
    <3>5. request' \in [RequestIds -> RequestRow]
      BY <1>1, <1>3, <3>1
    <3>6. WorkClaimed'
      <4>1. \A q \in RequestIds : q # r => Status(q)' = Status(q)
        BY <1>1, <3>1 DEF Status
      <4>2. sweep'[w].on = r /\ Status(sweep[w].on)' = "processing"
        BY <1>1, <2>1, <3>1, <3>4 DEF Status
      <4> QED
        BY <2>1, <2>3, <3>4, <4>1, <4>2, WorkKept
    <3>7. PrivacyTypeOK'
      BY <1>0, <2>1, <3>4, <3>5 DEF PrivacyTypeOK, SweepRow, RequestRow
    <3> QED
      BY <3>4, <3>6, <3>7 DEF PrivacyInv
  <2> QED
    BY <2>2, <2>3
<1> QED
  BY <1>4, <1>6, <1>7

\* executeErasure's transaction.
LEMMA EraseSteps ==
  ASSUME PrivacyInv, NEW w \in PrivacySweeps, Erase(w)
  PROVE  PrivacyInv'
<1> DEFINE r == sweep[w].on
           row == [stage |-> "purging", on |-> r, doc |-> "none", purge |-> sweep[w].purge]
<1>0. PrivacyTypeOK /\ SweepsShaped /\ CopiesGone /\ WorkClaimed /\ BytesListed
  BY DEF PrivacyInv
<1>1. /\ request \in [RequestIds -> RequestRow] /\ sweep \in [PrivacySweeps -> SweepRow]
      /\ sweep[w] \in SweepRow
  BY <1>0, PrivacyTypes
<1>2. /\ UNCHANGED <<imageBytes, outlived, interrupted, late>>
      /\ sweep[w].stage = "erasing" /\ erased' = TRUE /\ images' = {} /\ erasedBy' = erasedBy \union {r}
      /\ sweep' = [sweep EXCEPT ![w] = row]
      /\ \A e \in ExportIds : payload'[e] = "none"
      /\ payload' \in [ExportIds -> {"none", "personal", "anonymous"}]
  BY DEF Erase, Working, ListedBefore, DocumentsWithout
<1>3. crossed' \in BOOLEAN /\ (~crossed' => \A v \in PrivacySweeps : sweep[v].doc # "personal")
  BY <1>0 DEF Erase, PrivacyTypeOK
<1>4. r \in ErasureIds /\ r \in RequestIds /\ row \in SweepRow /\ r \notin ExportIds
  BY <1>0, <1>1, <1>2, PrivacyAssumption DEF SweepsShaped, RequestIds, SweepRow
<1>5. /\ sweep' \in [PrivacySweeps -> SweepRow] /\ sweep'[w] = row
      /\ \A v \in PrivacySweeps : v # w => sweep'[v] = sweep[v]
  BY <1>1, <1>2, <1>4
<1>6. \A q \in RequestIds :
        /\ request'[q] \in RequestRow
        /\ q # r /\ ~(q \in ExportIds /\ Status(q) = "ready") => request'[q] = request[q]
        /\ q = r /\ Status(r) = "processing" => request'[q].status = "completed"
  <2>1. /\ [status |-> "expired", aged |-> FALSE] \in RequestRow
        /\ [status |-> "completed", aged |-> FALSE] \in RequestRow
    BY DEF RequestRow
  <2> QED
    BY <1>1, <1>4, <2>1 DEF Erase
<1>7. PrivacyTypeOK'
  <2>1. request' \in [RequestIds -> RequestRow]
    BY <1>6 DEF Erase
  <2>2. erasedBy' \subseteq ErasureIds
    BY <1>0, <1>2, <1>4, PrivacyTypes
  <2> QED
    BY <1>0, <1>2, <1>3, <1>5, <2>1, <2>2 DEF PrivacyTypeOK, RequestRow, SweepRow
<1>8. SweepsShaped'
  BY <1>0, <1>2, <1>4, <1>5 DEF SweepsShaped
<1>9. CopiesGone'
  BY <1>2, <1>3, <1>5 DEF CopiesGone
<1>10. WorkClaimed'
  <2> SUFFICES ASSUME ~outlived PROVE WorkClaimed'
    BY <1>2 DEF WorkClaimed
  <2>1. /\ \A v \in PrivacySweeps : AtWork(v) => Status(sweep[v].on) = "processing"
        /\ \A u, v \in PrivacySweeps : AtWork(u) /\ AtWork(v) /\ sweep[u].on = sweep[v].on => u = v
        /\ \A q \in erasedBy : Status(q) = "completed"
    BY <1>0 DEF WorkClaimed
  <2>2. AtWork(w) /\ ~AtWork(w)'
    BY <1>2, <1>5 DEF AtWork
  <2>3. ASSUME NEW v \in PrivacySweeps, AtWork(v)'
        PROVE  /\ AtWork(v) /\ sweep'[v].on = sweep[v].on /\ request'[sweep[v].on].status = "processing"
    <3>1. v # w /\ sweep'[v] = sweep[v] /\ AtWork(v)
      BY <1>5, <2>2, <2>3 DEF AtWork
    <3>2. sweep[v].on # r /\ Status(sweep[v].on) = "processing" /\ sweep[v].on \in RequestIds
      BY <1>0, <2>1, <2>2, <3>1 DEF AtWork, SweepsShaped, RequestIds
    <3> QED
      BY <1>6, <3>1, <3>2 DEF Status
  <2>4. ASSUME NEW q \in erasedBy' PROVE Status(q)' = "completed"
    <3>1. CASE q = r
      BY <1>4, <1>6, <2>1, <2>2, <3>1 DEF Status
    <3>2. CASE q # r
      <4>1. q \in erasedBy /\ q \in RequestIds
        BY <1>0, <1>2, <2>4, <3>2, PrivacyTypes DEF RequestIds
      <4> QED
        BY <1>6, <2>1, <3>2, <4>1 DEF Status
    <3> QED
      BY <3>1, <3>2
  <2>5. \A v \in PrivacySweeps : AtWork(v)' => Status(sweep[v].on)' = "processing"
    BY <2>3 DEF Status
  <2>6. \A u, v \in PrivacySweeps : AtWork(u)' /\ AtWork(v)' /\ sweep'[u].on = sweep'[v].on => u = v
    BY <2>1, <2>3
  <2> QED
    BY <1>2, <2>4, <2>5, <2>6 DEF WorkClaimed
<1>11. BytesListed'
  <2>1. ASSUME ~interrupted, NEW b \in imageBytes \ late
        PROVE  \E v \in PrivacySweeps : sweep'[v].stage = "purging" /\ b \in sweep'[v].purge
    <3>1. CASE ~erased
      <4>1. b \in sweep[w].purge
        BY <1>0, <1>2, <2>1, <3>1 DEF BytesListed
      <4> QED
        BY <1>5, <4>1
    <3>2. CASE erased
      <4>1. PICK v \in PrivacySweeps : sweep[v].stage = "purging" /\ b \in sweep[v].purge
        BY <1>0, <2>1, <3>2 DEF BytesListed
      <4>2. v # w /\ sweep'[v] = sweep[v]
        BY <1>2, <1>5, <4>1
      <4> QED
        BY <4>1, <4>2
    <3> QED
      BY <1>0, <3>1, <3>2 DEF PrivacyTypeOK
  <2> QED
    BY <1>2, <2>1 DEF BytesListed
<1> QED
  BY <1>7, <1>8, <1>9, <1>10, <1>11 DEF PrivacyInv

\* media.purge, after the commit.
LEMMA PurgeSteps ==
  ASSUME PrivacyInv, NEW w \in PrivacySweeps, PurgeBytes(w)
  PROVE  PrivacyInv'
<1>0. PrivacyTypeOK /\ SweepsShaped /\ CopiesGone /\ WorkClaimed /\ BytesListed
  BY DEF PrivacyInv
<1>1. /\ UNCHANGED <<request, payload, erased, images, erasedBy, outlived, crossed, interrupted, late>>
      /\ sweep[w].stage = "purging" /\ sweep' = [sweep EXCEPT ![w] = Resting]
      /\ imageBytes' = imageBytes \ sweep[w].purge
  BY DEF PurgeBytes, Rests, observers
<1>2. Resting \in SweepRow /\ Resting.stage = "idle" /\ Resting.doc = "none"
  BY DEF Resting, SweepRow
<1>3. /\ sweep' \in [PrivacySweeps -> SweepRow] /\ sweep'[w] = Resting
      /\ \A v \in PrivacySweeps : v # w => sweep'[v] = sweep[v]
  BY <1>0, <1>1, <1>2, PrivacyTypes
<1>4. PrivacyTypeOK'
  BY <1>0, <1>1, <1>3 DEF PrivacyTypeOK, SweepRow
<1>5. SweepsShaped' /\ CopiesGone'
  BY <1>0, <1>1, <1>2, <1>3 DEF SweepsShaped, CopiesGone
<1>6. WorkClaimed'
  BY <1>0, <1>1, <1>2, <1>3 DEF WorkClaimed, AtWork, Status
<1>7. BytesListed'
  <2>1. erased
    BY <1>0, <1>1 DEF SweepsShaped
  <2>2. ASSUME ~interrupted, NEW b \in imageBytes' \ late
        PROVE  \E v \in PrivacySweeps : sweep'[v].stage = "purging" /\ b \in sweep'[v].purge
    <3>1. PICK v \in PrivacySweeps : sweep[v].stage = "purging" /\ b \in sweep[v].purge
      BY <1>0, <1>1, <2>1, <2>2 DEF BytesListed
    <3>2. v # w /\ sweep'[v] = sweep[v]
      BY <1>1, <1>3, <2>2, <3>1
    <3> QED
      BY <3>1, <3>2
  <2> QED
    BY <1>1, <2>1, <2>2 DEF BytesListed
<1> QED
  BY <1>4, <1>5, <1>6, <1>7 DEF PrivacyInv

\* Every step of a request, a sweep or the subject keeps the invariant.
LEMMA PrivacySteps == PrivacyInv /\ [PrivacyNext]_privacyVars => PrivacyInv'
<1> SUFFICES ASSUME PrivacyInv, [PrivacyNext]_privacyVars PROVE PrivacyInv'
  OBVIOUS
<1>1. CASE UNCHANGED privacyVars
  BY <1>1 DEF privacyVars, PrivacyInv, PrivacyTypeOK, SweepsShaped, CopiesGone, WorkClaimed, AtWork, Status,
     BytesListed
<1>2. CASE PrivacyNext
  BY <1>2, RequestSteps, ImageSteps, ExportSteps, ErasureClaimSteps, EraseSteps, PurgeSteps
  DEF PrivacyNext, RequestMoves, SweepStep
<1> QED
  BY <1>1, <1>2

\* PrivacyService and PrivacyErasureCompleter, for every number of requests, sweeps
\* and images: a committed erasure is one its subject did not take back, and
\* leaves no document behind and no object that was stored in time to be listed,
\* as far as no document was in memory, no sweep lost its request while at work
\* and none died.
THEOREM ErasuresComplete == PrivacySpec => []ErasureIsComplete
<1>1. PrivacyInv => ErasureIsComplete
  <2> SUFFICES ASSUME PrivacyInv PROVE ErasureIsComplete
    OBVIOUS
  <2>1. PrivacyTypeOK /\ CopiesGone /\ WorkClaimed /\ BytesListed
    BY DEF PrivacyInv
  <2>2. ErasureLeavesNoCopy
    BY <2>1 DEF CopiesGone, ErasureLeavesNoCopy, NoCopyLeftBehind
  <2>3. CancelledKeepsAccount /\ DocumentsExpire
    BY <2>1 DEF WorkClaimed, CancelledKeepsAccount, DocumentsExpire
  <2>4. ErasedBytesPurged
    BY <2>1 DEF BytesListed, ErasedBytesPurged
  <2> QED
    BY <2>1, <2>2, <2>3, <2>4 DEF ErasureIsComplete
<1> QED
  BY <1>1, PrivacyBegins, PrivacySteps, PTL DEF PrivacySpec
==============================================================================
