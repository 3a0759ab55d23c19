--------------------------- MODULE SessionsProofs ---------------------------
(***************************************************************************)
(* The safety of sessions, for any number of requests, sessions and faults. *)
(***************************************************************************)
EXTENDS Sessions, TLAPS

(***************************************************************************)
(* Tokens.  A rotation that succeeded leaves its token revoked, and         *)
(* revocation is final; only tokens that exist are read and issued.         *)
(***************************************************************************)
WinInv ==
    /\ \A w \in Refreshers : refreshing[w].at \in {"read", "rotated"}
                                => refreshing[w].token \in Issuable
    /\ \A w \in Refreshers : refreshing[w].at = "issued" => refreshing[w].next \in Issuable
    /\ \A n \in Issuable : wins[n] = 0 \/ (wins[n] = 1 /\ refreshTokens[n] = "revoked")

TokenInv == TokensOK /\ WinInv

\* No token is won or revoked at the start.
LEMMA TokenInit == Init => TokenInv
  BY SessionsAssumption DEF Init, TokenInv, TokensOK, WinInv, Issuable, None, Quiet, Idle, Refreshers

\* A refresh that is sent carries the cookie.
LEMMA RefreshKeeps ==
    ASSUME TokenInv, NEW w \in Refreshers, Refresh(w),
           UNCHANGED <<server, cookie, accessValid, leaving>>
    PROVE  TokenInv'
  BY DEF TokenInv, TokensOK, WinInv, Refresh, server

\* Every step keeps the tokens in order.
LEMMA TokenStep == ASSUME TokenInv, [Next]_vars PROVE TokenInv'
  <1> USE DEF TokenInv, TokensOK, WinInv
  <1>1. CASE UNCHANGED vars
    BY <1>1 DEF vars
  <1>2. ASSUME NEW w \in Refreshers, usableToken(w) PROVE TokenInv'
    BY <1>2 DEF usableToken, revokeFamily, None
  <1>3. ASSUME NEW w \in Refreshers, rotate(w) PROVE TokenInv'
    BY <1>3 DEF rotate, server
  <1>4. ASSUME NEW w \in Refreshers, issue(w) PROVE TokenInv'
    <2>1. PICK n \in Free :
              /\ refreshTokens' = [refreshTokens EXCEPT ![n] = "live"]
              /\ accessValid' = [accessValid EXCEPT ![n] = TRUE]
              /\ refreshing' = [refreshing EXCEPT ![w] = [at |-> "issued", token |-> @.token, next |-> n]]
              /\ UNCHANGED <<wins, cookie, leaving>>
      BY <1>4, Zenon DEF issue, session
    <2>2. n \in Issuable /\ refreshTokens[n] = "none"
      BY DEF Free
    <2> QED
      BY <2>1, <2>2
  <1>5. ASSUME NEW w \in Refreshers, refreshed(w) PROVE TokenInv'
    BY <1>5 DEF refreshed, respondWithSession, server, Quiet, None
  <1>6. ASSUME NEW w \in Refreshers, limited(w) \/ refused(w) \/ loseAnswer(w) PROVE TokenInv'
    BY <1>6 DEF limited, refused, loseAnswer, Fails, server, Quiet, None
  <1>7. CASE login
    BY <1>7 DEF login, verified, respondWithSession, Free, session
  <1>8. CASE signOut \/ logout \/ loggedOut \/ logoutFails
    BY <1>8 DEF signOut, logout, revokePresented, loggedOut, logoutFails, Idle, None, server
  <1>9. CASE bootstrap
    BY <1>9, RefreshKeeps DEF bootstrap, server, Refreshers
  <1>10. ASSUME NEW to, navigate(to) PROVE TokenInv'
    BY <1>10 DEF navigate, server
  <1>11. ASSUME NEW r \in Requests, send(r) PROVE TokenInv'
    BY <1>11 DEF send, server
  <1>12. ASSUME NEW r \in Requests, answer(r) PROVE TokenInv'
    <2>1. CASE UNCHANGED refreshing
      BY <1>12, <2>1 DEF answer, server
    <2>2. CASE Refresh("once")
      BY <1>12, <2>2, RefreshKeeps DEF answer, server, Refreshers
    <2> QED
      BY <1>12, <2>1, <2>2 DEF answer, refreshOnce
  <1>13. CASE handshake \/ connection
    BY <1>13 DEF handshake, connection, server
  <1>14. CASE expirySocket
    <2>1. CASE UNCHANGED refreshing
      BY <1>14, <2>1 DEF expirySocket, server
    <2>2. CASE Refresh("socket")
      BY <1>14, <2>2, RefreshKeeps DEF expirySocket, server, Refreshers
    <2> QED
      BY <1>14, <2>1, <2>2 DEF expirySocket, socketRefresh
  <1>15. ASSUME NEW n \in Issuable, expireAccess(n) PROVE TokenInv'
    BY <1>15 DEF expireAccess, server
  <1>16. ASSUME NEW n \in Issuable, expireRefresh(n) PROVE TokenInv'
    BY <1>16 DEF expireRefresh
  <1>17. CASE removed
    BY <1>17 DEF removed, server
  <1> HIDE DEF TokenInv, TokensOK, WinInv
  <1> QED
    BY <1>1, <1>2, <1>3, <1>4, <1>5, <1>6, <1>7, <1>8, <1>9, <1>10, <1>11, <1>12,
       <1>13, <1>14, <1>15, <1>16, <1>17 DEF Next

\* auth-service.js, refresh: however many refreshes race with one token, at most
\* one of them is handed a session.
THEOREM OneWinnerHolds == Spec => []OneWinner
  <1>1. TokenInv => OneWinner
    BY DEF TokenInv, WinInv, OneWinner
  <1> QED
    BY <1>1, TokenInit, TokenStep, PTL DEF Spec

(***************************************************************************)
(* The page and its socket.                                                 *)
(***************************************************************************)
PageInv == PageOK /\ SocketFollowsToken

\* The operators of the stores build pages and sockets.
LEMMA PageOperators ==
    ASSUME NEW p \in Pages, NEW n \in Issuable, member \in BOOLEAN
    PROVE  /\ loadMe(p) \in Pages /\ loadMe(p).token = p.token
           /\ adopt(p, n) \in Pages /\ adopt(p, n).token = n
           /\ clear(p) \in Pages /\ clear(p).token = None
           /\ landingRoute(p) \in Routes
           /\ [p EXCEPT !.token = n] \in Pages
           /\ \A r \in Routes :
                 [p EXCEPT !.route = r] \in Pages /\ [p EXCEPT !.route = r].token = p.token
           /\ [p EXCEPT !.ready = TRUE] \in Pages
  BY DEF Pages, Routes, loadMe, me, adopt, clear, landingRoute

\* realtime.js: what connect, disconnect and teardown do to the socket's token.
LEMMA SocketOperators ==
    ASSUME NEW p \in Pages, NEW s \in Sockets
    PROVE  /\ teardown(s) \in Sockets
           /\ teardown(s).token = None /\ teardown(s).expected = s.expected
           /\ disconnect(s) \in Sockets /\ ~ disconnect(s).expected
           /\ connect(p, s) \in Sockets
           /\ p.token # None => connect(p, s).token = p.token
           /\ p.token = None => connect(p, s) = s
  <1>1. /\ teardown(s) \in Sockets
        /\ teardown(s).token = None /\ teardown(s).expected = s.expected
    BY DEF Sockets, teardown, closed
  <1>2. disconnect(s) \in Sockets /\ ~ disconnect(s).expected
    BY <1>1 DEF Sockets, disconnect
  <1>3. /\ connect(p, s) \in Sockets
        /\ p.token # None => connect(p, s).token = p.token
        /\ p.token = None => connect(p, s) = s
    BY <1>1 DEF Sockets, Pages, connect
  <1> QED
    BY <1>1, <1>2, <1>3

\* A page that is shown takes its socket along: a fresh token rebuilds it, and
\* mounting a project page connects it.
LEMMA ShowKeeps ==
    ASSUME PageInv, NEW p \in Pages, Show(p)
    PROVE  page' \in Pages /\ socket' \in Sockets /\ SocketFollowsToken'
  <1> DEFINE s == reconnected(p, socket)
  <1>1. /\ s \in Sockets
        /\ s.expected /\ p.token # None => s.token = p.token
    <2>1. CASE p.token # None /\ p.token # page.token /\ socket.expected
      <3>1. teardown(socket) \in Sockets
        BY SocketOperators DEF PageInv, PageOK
      <3> QED
        BY <2>1, <3>1, SocketOperators DEF reconnected
    <2>2. CASE ~ (p.token # None /\ p.token # page.token /\ socket.expected)
      BY <2>2 DEF PageInv, PageOK, SocketFollowsToken, reconnected
    <2> QED
      BY <2>1, <2>2
  <1> HIDE DEF s
  <1>2. socket' = mounted(p, s) /\ page' = p
    BY DEF Show, s
  <1>3. CASE p.route = page.route
    BY <1>1, <1>2, <1>3 DEF mounted, SocketFollowsToken
  <1>4. CASE p.route # page.route /\ p.route = "project"
    <2>1. socket' = connect(p, s)
      BY <1>2, <1>4 DEF mounted
    <2> QED
      BY <1>1, <1>2, <2>1, SocketOperators DEF SocketFollowsToken
  <1>5. CASE p.route # page.route /\ p.route # "project"
    <2>1. socket' = disconnect(s)
      BY <1>2, <1>5 DEF mounted
    <2> QED
      BY <1>1, <1>2, <2>1, SocketOperators DEF SocketFollowsToken
  <1> QED
    BY <1>3, <1>4, <1>5

\* The page starts without a token and without a socket.
LEMMA PageInit == Init => PageInv
  BY DEF Init, PageInv, PageOK, SocketFollowsToken, Routes, Pages, Sockets, NoSocket, SignedOutPage, None

\* A failed refresh clears the page.
LEMMA FailsKeeps ==
    ASSUME PageInv, NEW w \in Refreshers, Fails(w), member' = member
    PROVE  PageInv'
  <1>1. PICK r \in Routes :
            page' = [clear(page) EXCEPT !.ready = TRUE, !.route = r]
    <2>1. clear(page).route \in Routes
      BY DEF PageInv, PageOK, Pages, clear
    <2> QED
      BY <2>1 DEF Fails, Routes
  <1>2. page' \in Pages /\ page'.token = None
    BY <1>1 DEF PageInv, PageOK, Pages, clear, None
  <1>3. socket' \in Sockets
    BY SocketOperators DEF Fails, PageInv, PageOK
  <1> QED
    BY <1>2, <1>3 DEF PageInv, PageOK, SocketFollowsToken

\* auth.js, realtime.js: every step that changes the page's token takes the socket along.
LEMMA PageStep == ASSUME TokenInv, PageInv, [Next]_vars PROVE PageInv'
  <1>1. CASE UNCHANGED <<page, socket, member>>
    BY <1>1 DEF PageInv, PageOK, SocketFollowsToken
  <1>2. ASSUME NEW w \in Refreshers, refreshed(w) PROVE PageInv'
    <2> DEFINE n == refreshing[w].next
               p == [page EXCEPT !.token = n]
               q == [loadMe(p) EXCEPT !.ready = TRUE]
    <2>1. n \in Issuable /\ member' = member
      BY <1>2 DEF TokenInv, WinInv, refreshed
    <2>2. p \in Pages
      BY <2>1, PageOperators DEF PageInv, PageOK
    <2>3. q \in Pages
      BY <2>1, <2>2, PageOperators DEF PageInv, PageOK
    <2>4. [q EXCEPT !.route = landingRoute(q)] \in Pages
      BY <2>1, <2>3, PageOperators DEF PageInv, PageOK
    <2>5. Show(p) \/ Show([q EXCEPT !.route = landingRoute(q)])
      BY <1>2, Zenon DEF refreshed, Refreshers
    <2> HIDE DEF n, p, q
    <2> QED
      BY <2>1, <2>2, <2>4, <2>5, ShowKeeps DEF PageInv, PageOK
  <1>3. ASSUME NEW w \in Refreshers, limited(w) \/ refused(w) \/ loseAnswer(w) PROVE PageInv'
    BY <1>3, FailsKeeps DEF limited, refused, loseAnswer
  <1>4. CASE login
    <2>1. PICK n \in Free :
              LET p == loadMe(adopt(page, n))
              IN  Show([p EXCEPT !.route = landingRoute(p)])
      BY <1>4, Zenon DEF login
    <2> DEFINE p == loadMe(adopt(page, n))
    <2>2. n \in Issuable /\ member' = member
      BY <1>4 DEF login, Free
    <2>3. adopt(page, n) \in Pages
      BY <2>2, PageOperators DEF PageInv, PageOK
    <2>4. p \in Pages
      BY <2>2, <2>3, PageOperators DEF PageInv, PageOK
    <2>5. [p EXCEPT !.route = landingRoute(p)] \in Pages
      BY <2>2, <2>4, PageOperators DEF PageInv, PageOK
    <2> HIDE DEF p
    <2> QED
      BY <2>1, <2>2, <2>5, ShowKeeps DEF PageInv, PageOK, p
  <1>5. CASE loggedOut \/ logoutFails
    <2>1. page' \in Pages /\ page'.token = None
      BY <1>5 DEF loggedOut, logoutFails, clear, PageInv, PageOK, Pages, Routes, None
    <2>2. socket' \in Sockets /\ member' = member
      BY <1>5, SocketOperators DEF loggedOut, logoutFails, PageInv, PageOK
    <2> QED
      BY <2>1, <2>2 DEF PageInv, PageOK, SocketFollowsToken
  <1>15. CASE signOut
    <2>1. socket' \in Sockets /\ ~ socket'.expected
      BY <1>15, SocketOperators DEF signOut, PageInv, PageOK
    <2> QED
      BY <1>15, <2>1 DEF signOut, PageInv, PageOK, SocketFollowsToken
  <1>6. CASE bootstrap
    BY <1>6 DEF bootstrap, PageInv, PageOK, SocketFollowsToken, Pages, Sockets, NoSocket,
                SignedOutPage, None, Routes
  <1>7. ASSUME NEW to \in Routes, navigate(to) PROVE PageInv'
    <2>1. guarded(page, to) \in Routes
      BY DEF guarded, landingRoute, Routes
    <2>2. [page EXCEPT !.route = guarded(page, to)] \in Pages
      BY <2>1 DEF PageInv, PageOK, Pages
    <2> QED
      BY <1>7, <2>2, ShowKeeps DEF navigate, PageInv, PageOK
  <1>8. ASSUME NEW r \in Requests, answer(r) PROVE PageInv'
    <2>1. page' = page \/ page' = loadMe(page)
      BY <1>8 DEF answer
    <2>2. page' \in Pages /\ page'.token = page.token
      BY <2>1 DEF PageInv, PageOK, loadMe, me, Pages
    <2> QED
      BY <1>8, <2>2 DEF answer, PageInv, PageOK, SocketFollowsToken
  <1>9. CASE handshake \/ connection \/ expirySocket
    <2>1. socket' \in Sockets /\ socket'.token = socket.token /\ socket'.expected = socket.expected
      BY <1>9 DEF handshake, connection, expirySocket, closed, PageInv, PageOK, Sockets
    <2> QED
      BY <1>9, <2>1 DEF handshake, connection, expirySocket, PageInv, PageOK, SocketFollowsToken
  <1>10. CASE removed
    BY <1>10 DEF removed, PageInv, PageOK, SocketFollowsToken
  <1>11. ASSUME NEW w \in Refreshers, usableToken(w) \/ rotate(w) \/ issue(w)
         PROVE UNCHANGED <<page, socket, member>>
    BY <1>11 DEF usableToken, rotate, issue
  <1>12. ASSUME NEW r \in Requests, send(r) PROVE UNCHANGED <<page, socket, member>>
    BY <1>12 DEF send
  <1>13. ASSUME NEW n \in Issuable, expireAccess(n) \/ expireRefresh(n)
         PROVE UNCHANGED <<page, socket, member>>
    BY <1>13 DEF expireAccess, expireRefresh
  <1>14. CASE UNCHANGED vars
    BY <1>1, <1>14 DEF vars
  <1>16. CASE logout
    BY <1>1, <1>16 DEF logout
  <1> QED
    BY <1>1, <1>2, <1>3, <1>4, <1>5, <1>6, <1>7, <1>8, <1>9, <1>10, <1>11, <1>12,
       <1>13, <1>14, <1>15, <1>16 DEF Next

\* realtime.js: a socket that is meant to be up is one of the page's own token.
THEOREM SocketFollowsTokenHolds == Spec => []SocketFollowsToken
  <1>1. PageInv => SocketFollowsToken
    BY DEF PageInv
  <1> QED
    BY <1>1, TokenInit, TokenStep, PageInit, PageStep, PTL DEF Spec

(***************************************************************************)
(* The cookie.  While no two calls that change it were in flight together   *)
(* and nothing failed or expired, the one call in flight carries the        *)
(* cookie, and the cookie is a token the server honours until that call     *)
(* replaces or revokes it, so no refresh of a session is refused.  After a  *)
(* sign-out there is no cookie, and a refresh without one issues nothing.   *)
(***************************************************************************)
FlagsOK == overlap \in BOOLEAN /\ signedOut \in BOOLEAN /\ lost \in BOOLEAN /\ faults \in Nat
Leaving == leaving.at # "idle"

SingleFlight ==
    ~ overlap => /\ \A w, v \in Refreshers : InFlight(w) /\ InFlight(v) => w = v
                 /\ Leaving => \A w \in Refreshers : ~ InFlight(w)

\* What a refresh in flight carries, and what it will bring back.
Carried(w) ==
    /\ refreshing[w].at \in {"sent", "read", "refused"} => refreshing[w].token = cookie
    /\ refreshing[w].at \in {"sent", "read"} => Honoured(refreshing[w].token)
    /\ refreshing[w].at = "refused" => refreshing[w].token = None
    /\ refreshing[w].at = "issued" => Honoured(refreshing[w].next)

CarefulInv ==
    ~ overlap /\ faults = 0 =>
        /\ ~ lost
        /\ NothingInFlight => Honoured(cookie)
        /\ \A w \in Refreshers : Carried(w)

SignedOutInv ==
    signedOut /\ ~ overlap =>
        /\ cookie = None
        /\ \A w \in Refreshers : InFlight(w) =>
              refreshing[w].token = None /\ refreshing[w].at \in {"sent", "refused"}

CookieInv == FlagsOK /\ SingleFlight /\ CarefulInv /\ SignedOutInv

\* At the start no call is in flight and no session is lost.
LEMMA CookieInit == Init => CookieInv
  <1> SUFFICES ASSUME Init PROVE CookieInv
    OBVIOUS
  <1>1. /\ \A w \in Refreshers : refreshing[w].at = "idle" /\ ~ InFlight(w)
        /\ ~ Leaving
    BY DEF Init, InFlight, Quiet, Leaving, Idle
  <1>2. cookie = None /\ faults = 0 /\ FlagsOK
    BY DEF Init, FlagsOK
  <1>3. ~ overlap /\ ~ signedOut /\ ~ lost
    BY Zenon DEF Init
  <1> QED
    BY <1>1, <1>2, <1>3 DEF CookieInv, SingleFlight, CarefulInv, SignedOutInv, Carried, Honoured

\* A refresh starts: with another one in flight the calls overlap from now on.
LEMMA StartKeeps ==
    ASSUME TokenInv, CookieInv, NEW w \in Refreshers, Refresh(w),
           UNCHANGED <<refreshTokens, cookie, leaving, signedOut, lost, faults>>
    PROVE  CookieInv'
  <1>1. CASE ~ NothingInFlight
    BY <1>1 DEF Refresh, Overlapping, CookieInv, FlagsOK, SingleFlight, CarefulInv, SignedOutInv
  <1>2. CASE NothingInFlight
    <2>1. /\ refreshing' = [refreshing EXCEPT ![w] =
                              [at |-> "sent", token |-> cookie, next |-> None]]
          /\ overlap' = overlap
      BY <1>2 DEF Refresh, Overlapping, CookieInv, FlagsOK
    <2> QED
      BY <1>2, <2>1 DEF TokenInv, TokensOK, CookieInv, FlagsOK, SingleFlight, CarefulInv,
         SignedOutInv, NothingInFlight, Leaving, InFlight, Carried, Honoured
  <1> QED
    BY <1>1, <1>2

\* A step that leaves the cookie and the refreshes alone and revokes nothing.
LEMMA AsideKeeps ==
    ASSUME CookieInv,
           UNCHANGED <<refreshTokens, refreshing, leaving, cookie, overlap, signedOut, lost, faults>>
    PROVE  CookieInv'
  BY DEF CookieInv, FlagsOK, SingleFlight, CarefulInv, SignedOutInv, NothingInFlight, Leaving,
     InFlight, Carried, Honoured

\* Without overlap and failures, the one refresh in flight carries the cookie or its successor.
LEMMA CookieStep == ASSUME TokenInv, CookieInv, [Next]_vars PROVE CookieInv'
  <1> USE DEF CookieInv, FlagsOK, SingleFlight, CarefulInv, SignedOutInv, NothingInFlight, Leaving
  <1>1. ASSUME NEW w \in Refreshers, usableToken(w) PROVE CookieInv'
    BY <1>1 DEF usableToken, revokeFamily, TokenInv, TokensOK, InFlight, Carried, Honoured
  <1>2. ASSUME NEW w \in Refreshers, rotate(w) PROVE CookieInv'
    BY <1>2 DEF rotate, server, TokenInv, TokensOK, WinInv, InFlight, Carried, Honoured, None
  <1>3. ASSUME NEW w \in Refreshers, issue(w) PROVE CookieInv'
    BY <1>3 DEF issue, session, Free, TokenInv, TokensOK, WinInv, InFlight, Carried, Honoured, None
  <1>4. ASSUME NEW w \in Refreshers, refreshed(w) PROVE CookieInv'
    BY <1>4 DEF refreshed, respondWithSession, server, Quiet, TokenInv, TokensOK, WinInv,
       InFlight, Carried, Honoured, None
  <1>18. ASSUME NEW w \in Refreshers, limited(w) PROVE CookieInv'
    BY <1>18 DEF limited, Fails, server, Quiet, TokenInv, TokensOK, InFlight, Carried, Honoured
  <1>5. ASSUME NEW w \in Refreshers, refused(w) PROVE CookieInv'
    BY <1>5 DEF refused, Fails, server, Quiet, TokenInv, TokensOK, InFlight, Carried, Honoured, None
  <1>6. ASSUME NEW w \in Refreshers, loseAnswer(w) PROVE CookieInv'
    BY <1>6 DEF loseAnswer, Fails, server, Quiet, TokenInv, TokensOK, InFlight
  <1>7. CASE login
    <2>1. PICK n \in Free : refreshTokens' = [refreshTokens EXCEPT ![n] = "live"] /\ cookie' = n
      BY <1>7, Zenon DEF login, verified, respondWithSession, session
    <2>2. n \in Issuable /\ refreshTokens'[n] = "live"
      BY <2>1 DEF Free, TokenInv, TokensOK
    <2>3. UNCHANGED <<refreshing, leaving, lost, faults>> /\ overlap' = Overlapping /\ signedOut' = FALSE
      BY <1>7, Zenon DEF login
    <2>4. CASE ~ NothingInFlight
      BY <2>3, <2>4 DEF Overlapping
    <2>5. CASE NothingInFlight
      BY <2>1, <2>2, <2>3, <2>5 DEF Overlapping, InFlight, Carried, Honoured
    <2> QED
      BY <2>4, <2>5
  <1>8. CASE signOut
    BY <1>8 DEF signOut, server, Overlapping, TokenInv, TokensOK, InFlight, Carried, Honoured
  <1>19. CASE logout
    BY <1>19 DEF logout, revokePresented, TokenInv, TokensOK, InFlight, Carried, Honoured
  <1>20. CASE loggedOut
    BY <1>20 DEF loggedOut, server, Idle, TokenInv, TokensOK, InFlight, Carried, Honoured
  <1>21. CASE logoutFails
    BY <1>21 DEF logoutFails, server, Idle, TokenInv, TokensOK, InFlight, Carried, Honoured
  <1>9. CASE bootstrap
    BY <1>9, StartKeeps DEF bootstrap, server, Refreshers
  <1>10. ASSUME NEW r \in Requests, answer(r) PROVE CookieInv'
    <2>1. CASE UNCHANGED <<refreshing, overlap>>
      BY <1>10, <2>1, AsideKeeps DEF answer, server
    <2>2. CASE Refresh("once")
      BY <1>10, <2>2, StartKeeps DEF answer, server, Refreshers
    <2> QED
      BY <1>10, <2>1, <2>2 DEF answer, refreshOnce
  <1>11. CASE expirySocket
    <2>1. CASE UNCHANGED <<refreshing, overlap>>
      BY <1>11, <2>1, AsideKeeps DEF expirySocket, server
    <2>2. CASE Refresh("socket")
      BY <1>11, <2>2, StartKeeps DEF expirySocket, server, Refreshers
    <2> QED
      BY <1>11, <2>1, <2>2 DEF expirySocket, socketRefresh
  <1>12. ASSUME NEW n \in Issuable, expireRefresh(n) PROVE CookieInv'
    BY <1>12 DEF expireRefresh, TokenInv, TokensOK, InFlight
  <1>13. ASSUME NEW to, navigate(to) PROVE CookieInv'
    BY <1>13, AsideKeeps DEF navigate, server
  <1>14. ASSUME NEW r \in Requests, send(r) PROVE CookieInv'
    BY <1>14, AsideKeeps DEF send, server
  <1>15. ASSUME NEW n \in Issuable, expireAccess(n) PROVE CookieInv'
    BY <1>15, AsideKeeps DEF expireAccess, server
  <1>16. CASE handshake \/ connection \/ removed
    BY <1>16, AsideKeeps DEF handshake, connection, removed, server
  <1>17. CASE UNCHANGED vars
    BY <1>17, AsideKeeps DEF vars
  <1> HIDE DEF CookieInv
  <1> QED
    BY <1>1, <1>2, <1>3, <1>4, <1>5, <1>6, <1>7, <1>8, <1>9, <1>10, <1>11, <1>12,
       <1>13, <1>14, <1>15, <1>16, <1>17, <1>18, <1>19, <1>20, <1>21 DEF Next

\* api.js, auth-service.js: without overlapping calls, failures or expiries the service
\* refuses no session, and what the browser is left with, after a refresh that was
\* answered 429 too, is a cookie the service honours.
THEOREM LossHasCauseHolds == Spec => []LossHasCause
  <1>1. CookieInv => LossHasCause
    BY DEF CookieInv, FlagsOK, CarefulInv, LossHasCause
  <1> QED
    BY <1>1, TokenInit, TokenStep, CookieInit, CookieStep, PTL DEF Spec

\* routes/auth.js, logout: after a sign-out that was answered, without a refresh in
\* flight, no cookie comes back.
THEOREM SignedOutStaysOutHolds == Spec => []SignedOutStaysOut
  <1>1. CookieInv => SignedOutStaysOut
    BY DEF CookieInv, SignedOutInv, SignedOutStaysOut
  <1> QED
    BY <1>1, TokenInit, TokenStep, CookieInit, CookieStep, PTL DEF Spec

\* Tokens, the page, its socket and the flags keep their types.
THEOREM SessionsTyped == Spec => []TypeOK
  <1>1. TokenInv /\ PageInv /\ CookieInv => TypeOK
    BY DEF TokenInv, PageInv, CookieInv, FlagsOK, TypeOK
  <1> QED
    BY <1>1, TokenInit, TokenStep, PageInit, PageStep, CookieInit, CookieStep, PTL DEF Spec
=============================================================================
