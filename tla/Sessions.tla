------------------------------ MODULE Sessions ------------------------------
(***************************************************************************)
(* The session of one account: refresh tokens and their rotation on the    *)
(* server (auth-service.js, routes/auth.js), the browser that keeps the    *)
(* cookie and runs the dashboard (stores/auth.js, lib/api.js, router), and *)
(* its live connection (stores/realtime.js, realtime/socket.js).  Session  *)
(* n stands for the refresh token and the access token issued together.    *)
(***************************************************************************)
EXTENDS Integers, FiniteSets

CONSTANTS
    Requests,       \* REST calls the page may have in flight together
    MaxSessions,    \* bound of the sessions issued
    MaxFaults       \* lost answers and expired refresh tokens

ASSUME SessionsAssumption == MaxSessions \in Nat /\ MaxFaults \in Nat

None == 0
Issuable == 1 .. MaxSessions
\* The ways a page refreshes: a REST call answered 401, the socket's
\* token_expired event, and the start of the page.
Refreshers == {"once", "socket", "boot"}
Routes == {"login", "project", "new-project"}

VARIABLES
    refreshTokens,  \* [Issuable -> "none", "live", "revoked" or "expired"]
    wins,           \* [Issuable -> the rotations of it that succeeded]
    accessValid,    \* [Issuable -> BOOLEAN]: the access token is not expired
    member,         \* the account is a member of the project
    cookie,         \* ht_refresh, None when absent
    page,           \* the stores of the page and its route
    socket,         \* the page's socket, and the server's side of it
    refreshing,     \* [Refreshers -> a call of /auth/refresh]
    leaving,        \* a call of /auth/logout: [at, token]
    requests,       \* [Requests -> [at, token]]
    overlap,        \* two calls that change the cookie were in flight together
    signedOut,      \* a sign-out was answered, and nobody signed in since
    lost,           \* the service refused the cookie of a signed-in browser
    faults

vars == <<refreshTokens, wins, accessValid, member, cookie, page, socket,
          refreshing, leaving, requests, overlap, signedOut, lost, faults>>
server == <<refreshTokens, wins>>

Quiet == [at |-> "idle", token |-> None, next |-> None]
Idle == [at |-> "idle", token |-> None]
NoSocket == [token |-> None, at |-> "down", seen |-> FALSE, joined |-> FALSE, expected |-> FALSE]
SignedOutPage == [token |-> None, user |-> FALSE, member |-> FALSE, ready |-> FALSE,
                  route |-> "login"]

Init ==
    /\ refreshTokens = [n \in Issuable |-> "none"]
    /\ wins = [n \in Issuable |-> 0]
    /\ accessValid = [n \in Issuable |-> FALSE]
    /\ member = TRUE
    /\ cookie = None
    /\ page = SignedOutPage
    /\ socket = NoSocket
    /\ refreshing = [w \in Refreshers |-> Quiet]
    /\ leaving = Idle
    /\ requests = [r \in Requests |-> Idle]
    /\ overlap = FALSE /\ signedOut = FALSE /\ lost = FALSE
    /\ faults = 0
-----------------------------------------------------------------------------
(* The server *)

Free == {n \in Issuable : refreshTokens[n] = "none"}

\* session: one access token and one refresh token, stored as its hash.
session(n, tokens) == [tokens EXCEPT ![n] = "live"]

\* The stored tokens after revokeFamily, and after the logout of a presented token.
revokeFamily(tokens) == [n \in Issuable |-> IF tokens[n] = "live" THEN "revoked" ELSE tokens[n]]
revokePresented(token, tokens) ==
    [n \in Issuable |-> IF n = token /\ tokens[n] = "live" THEN "revoked" ELSE tokens[n]]

\* A session leaves the server: the refresh token as a cookie, the rest in the body.
respondWithSession(n) == cookie' = n

\* What GET /auth/me says of the account.
me == [user |-> TRUE, member |-> member]

InFlight(w) == refreshing[w].at # "idle"
NothingInFlight == leaving.at = "idle" /\ \A w \in Refreshers : ~ InFlight(w)
Overlapping == overlap \/ ~ NothingInFlight

\* usableToken: an unknown or expired token is refused; a revoked one makes the
\* service revoke every live token of the account and is refused too.
usableToken(w) ==
    LET token == refreshing[w].token
        known == token # None /\ refreshTokens[token] # "expired"
    IN  /\ refreshing[w].at = "sent"
        /\ IF known /\ refreshTokens[token] = "live"
           THEN refreshing' = [refreshing EXCEPT ![w].at = "read"] /\ UNCHANGED refreshTokens
           ELSE /\ refreshing' = [refreshing EXCEPT ![w].at = "refused"]
                /\ refreshTokens' = IF known THEN revokeFamily(refreshTokens) ELSE refreshTokens
        /\ UNCHANGED <<wins, accessValid, member, cookie, page, socket, leaving, requests,
                       overlap, signedOut, lost, faults>>

rotate_Unconditional(w) ==
    LET token == refreshing[w].token
    IN  /\ refreshing[w].at = "read"
        /\ refreshTokens' = [refreshTokens EXCEPT ![token] = "revoked"]
        /\ wins' = [wins EXCEPT ![token] = @ + 1]
        /\ refreshing' = [refreshing EXCEPT ![w].at = "rotated"]
        /\ UNCHANGED <<accessValid, member, cookie, page, socket, leaving, requests, overlap,
                       signedOut, lost, faults>>

\* The conditional revocation: only the call that finds the token unrevoked goes on.
rotate(w) ==
    LET token == refreshing[w].token
    IN  /\ refreshing[w].at = "read"
        /\ IF refreshTokens[token] # "revoked"
           THEN /\ refreshTokens' = [refreshTokens EXCEPT ![token] = "revoked"]
                /\ wins' = [wins EXCEPT ![token] = @ + 1]
                /\ refreshing' = [refreshing EXCEPT ![w].at = "rotated"]
           ELSE /\ refreshing' = [refreshing EXCEPT ![w].at = "refused"]
                /\ UNCHANGED server
        /\ UNCHANGED <<accessValid, member, cookie, page, socket, leaving, requests, overlap,
                       signedOut, lost, faults>>

issue(w) ==
    \E n \in Free :
        /\ \A m \in Free : n <= m
        /\ refreshing[w].at = "rotated"
        /\ refreshTokens' = session(n, refreshTokens)
        /\ accessValid' = [accessValid EXCEPT ![n] = TRUE]
        /\ refreshing' = [refreshing EXCEPT ![w] = [at |-> "issued", token |-> @.token, next |-> n]]
        /\ UNCHANGED <<wins, member, cookie, page, socket, leaving, requests, overlap,
                       signedOut, lost, faults>>
-----------------------------------------------------------------------------
(* The page *)

isAuthenticated(p) == p.token # None /\ p.user
adopt(p, n) == [p EXCEPT !.token = n, !.user = TRUE]
loadMe(p) == [p EXCEPT !.user = me.user, !.member = me.member]
clear(p) == [p EXCEPT !.token = None, !.user = FALSE, !.member = FALSE]

landingRoute(p) == IF p.member THEN "project" ELSE "new-project"

\* router.beforeEach, once bootstrap is done.
guarded(p, to) ==
    IF ~ isAuthenticated(p) THEN "login"
    ELSE IF to = "login" \/ (to = "project" /\ ~ p.member) THEN landingRoute(p)
    ELSE to

\* teardown, connect and disconnect of the realtime store; AppShell, the frame of every
\* project page, calls the one when it is mounted and the other when it goes.
closed(s) == [s EXCEPT !.at = "down", !.seen = FALSE, !.joined = FALSE]
teardown(s) == [closed(s) EXCEPT !.token = None]
connect(p, s) ==
    IF p.token = None \/ s.token = p.token THEN s
    ELSE [teardown(s) EXCEPT !.token = p.token, !.expected = TRUE]
disconnect(s) == [teardown(s) EXCEPT !.expected = FALSE]
mounted(p, s) ==
    IF p.route = page.route THEN s
    ELSE IF p.route = "project" THEN connect(p, s) ELSE disconnect(s)

reconnected_Never(p, s) == s

\* The watcher of the access token: every fresh token rebuilds a socket that is
\* meant to be up.
reconnected(p, s) ==
    IF p.token # None /\ p.token # page.token /\ s.expected
    THEN connect(p, teardown(s))
    ELSE s

Show(p) == page' = p /\ socket' = mounted(p, reconnected(p, socket))

\* The service's side of a login with the right password.
verified(n) ==
    /\ refreshTokens' = session(n, refreshTokens)
    /\ accessValid' = [accessValid EXCEPT ![n] = TRUE]

\* Login: the page adopts the session and loads the account.
login ==
    \E n \in Free :
        /\ \A m \in Free : n <= m
        /\ page.ready /\ page.route = "login"
        /\ verified(n)
        /\ respondWithSession(n)
        /\ LET p == loadMe(adopt(page, n))
           IN  Show([p EXCEPT !.route = landingRoute(p)])
        /\ overlap' = Overlapping
        /\ signedOut' = FALSE
        /\ UNCHANGED <<wins, member, refreshing, leaving, requests, lost, faults>>

\* Sign out, in the frame of the page: the socket goes first, then the call of
\* POST /auth/logout is awaited with whatever the cookie is now.
signOut ==
    /\ isAuthenticated(page) /\ leaving.at = "idle"
    /\ socket' = disconnect(socket)
    /\ leaving' = [at |-> "sent", token |-> cookie]
    /\ overlap' = Overlapping
    /\ UNCHANGED <<server, accessValid, member, cookie, page, refreshing, requests, signedOut,
                   lost, faults>>

\* The service revokes the presented token.
logout ==
    /\ leaving.at = "sent"
    /\ refreshTokens' = revokePresented(leaving.token, refreshTokens)
    /\ leaving' = [leaving EXCEPT !.at = "revoked"]
    /\ UNCHANGED <<wins, accessValid, member, cookie, page, socket, refreshing, requests,
                   overlap, signedOut, lost, faults>>

loggedOut_KeepsCookie ==
    /\ leaving.at = "revoked"
    /\ page' = [clear(page) EXCEPT !.route = "login"]
    /\ socket' = disconnect(socket)
    /\ leaving' = Idle
    /\ signedOut' = TRUE
    /\ UNCHANGED <<server, accessValid, member, cookie, refreshing, requests, overlap, lost,
                   faults>>

\* The answer drops the cookie, and the page goes to the sign-in form.
loggedOut ==
    /\ leaving.at = "revoked"
    /\ cookie' = None
    /\ page' = [clear(page) EXCEPT !.route = "login"]
    /\ socket' = disconnect(socket)
    /\ leaving' = Idle
    /\ signedOut' = TRUE
    /\ UNCHANGED <<server, accessValid, member, refreshing, requests, overlap, lost, faults>>

\* The call fails, or its answer is lost: the stores are cleared all the same, but the
\* error goes on to signOut, which stays on its route, and the cookie stays.
logoutFails ==
    /\ leaving.at \in {"sent", "revoked"}
    /\ faults < MaxFaults
    /\ faults' = faults + 1
    /\ page' = clear(page)
    /\ leaving' = Idle
    /\ UNCHANGED <<server, accessValid, member, cookie, socket, refreshing, requests, overlap,
                   signedOut, lost>>

navigate(to) ==
    /\ page.ready /\ page.route # guarded(page, to)
    /\ Show([page EXCEPT !.route = guarded(page, to)])
    /\ UNCHANGED <<server, accessValid, member, cookie, refreshing, leaving, requests, overlap,
                   signedOut, lost, faults>>

\* auth.refresh: the request carries whatever the cookie is now.
Refresh(w) ==
    /\ refreshing' = [refreshing EXCEPT ![w] = [at |-> "sent", token |-> cookie, next |-> None]]
    /\ overlap' = Overlapping

\* A page starts (or is reloaded): its stores are empty, and the only way to learn
\* whether a session survives is to rotate the cookie once.
bootstrap ==
    /\ ~ page.ready \/ \A r \in Requests : requests[r] = Idle
    /\ NothingInFlight
    /\ page' = SignedOutPage /\ socket' = NoSocket
    /\ Refresh("boot")
    /\ UNCHANGED <<server, accessValid, member, cookie, leaving, requests, signedOut, lost,
                   faults>>

\* A request carries the access token of the moment it is sent.
send(r) ==
    /\ page.ready /\ page.route # "login" /\ requests[r] = Idle
    /\ requests' = [requests EXCEPT ![r] = [at |-> "sent", token |-> page.token]]
    /\ UNCHANGED <<server, accessValid, member, cookie, page, socket, refreshing, leaving,
                   overlap, signedOut, lost, faults>>

refreshOnce_Each(r) ==
    /\ refreshing' = [refreshing EXCEPT !["once"] = [at |-> "sent", token |-> cookie,
                                                    next |-> None]]
    /\ UNCHANGED overlap

\* One refresh at a time among REST calls: the second 401 waits for the first's.
refreshOnce(r) ==
    IF InFlight("once") THEN UNCHANGED <<refreshing, overlap>> ELSE Refresh("once")

\* The answer of a REST call: GET /auth/me when it is loadMe.  401 leads to one
\* refresh and, after it, to one more try.
answer(r) ==
    LET honoured == requests[r].token # None /\ accessValid[requests[r].token]
    IN  /\ requests[r].at \in {"sent", "resent"}
        /\ IF honoured \/ requests[r].at = "resent"
           THEN /\ requests' = [requests EXCEPT ![r] = Idle]
                /\ \/ UNCHANGED page
                   \/ honoured /\ page' = loadMe(page)
                /\ UNCHANGED <<refreshing, overlap>>
           ELSE /\ requests' = [requests EXCEPT ![r].at = "waiting"]
                /\ refreshOnce(r)
                /\ UNCHANGED page
        /\ UNCHANGED <<server, accessValid, member, cookie, socket, leaving, signedOut, lost,
                       faults>>

\* What waited for a refresh goes on: REST calls are sent again with the token of
\* the page, or end with the session.
Woken(token) ==
    [r \in Requests |-> IF requests[r].at # "waiting" THEN requests[r]
                        ELSE IF token = None THEN Idle
                        ELSE [at |-> "resent", token |-> token]]

\* The answer of a successful refresh: Set-Cookie and the access token.
refreshed(w) ==
    LET n == refreshing[w].next
        p == [page EXCEPT !.token = n]
    IN  /\ refreshing[w].at = "issued"
        /\ respondWithSession(n)
        /\ CASE w = "boot" ->
                  LET q == [loadMe(p) EXCEPT !.ready = TRUE]
                  IN  Show([q EXCEPT !.route = landingRoute(q)]) /\ UNCHANGED requests
             [] w = "once" -> Show(p) /\ requests' = Woken(n)
             [] w = "socket" -> Show(p) /\ UNCHANGED requests
        /\ refreshing' = [refreshing EXCEPT ![w] = Quiet]
        /\ UNCHANGED <<server, accessValid, member, leaving, overlap, signedOut, lost, faults>>

\* Any failure of a refresh clears the stores, whatever its reason.
Fails(w) ==
    /\ page' = [clear(page) EXCEPT !.ready = TRUE,
                                   !.route = IF w = "once" THEN "login" ELSE @]
    /\ socket' = IF w = "socket" \/ page'.route # "project" THEN disconnect(socket) ELSE socket
    /\ requests' = IF w = "once" THEN Woken(None) ELSE requests
    /\ refreshing' = [refreshing EXCEPT ![w] = Quiet]

\* authRateLimit guards the route: over its limit, which everybody behind one address
\* shares, a refresh is answered 429 before the service sees the cookie.
limited(w) ==
    /\ refreshing[w].at = "sent"
    /\ Fails(w)
    /\ UNCHANGED <<server, accessValid, member, cookie, leaving, overlap, signedOut, lost,
                   faults>>

\* 401: the service does not honour the cookie the browser has.
refused(w) ==
    /\ refreshing[w].at = "refused"
    /\ Fails(w)
    /\ lost' = (lost \/ (refreshing[w].token # None /\ ~ signedOut))
    /\ UNCHANGED <<server, accessValid, member, cookie, leaving, overlap, signedOut, faults>>

\* An await of the service rejects and the refresh is answered 500, or its answer does
\* not arrive.
loseAnswer(w) ==
    /\ InFlight(w)
    /\ faults < MaxFaults
    /\ faults' = faults + 1
    /\ Fails(w)
    /\ UNCHANGED <<server, accessValid, member, cookie, leaving, overlap, signedOut, lost>>
-----------------------------------------------------------------------------
(* The live connection *)

\* The handshake verifies the token and reads the memberships; a rejected one is
\* final for the client.
handshake ==
    /\ socket.token # None /\ socket.at = "down"
    /\ accessValid[socket.token]
    /\ socket' = [socket EXCEPT !.at = "checked", !.seen = member]
    /\ UNCHANGED <<server, accessValid, member, cookie, page, refreshing, leaving, requests,
                   overlap, signedOut, lost, faults>>

\* The connection joins the rooms of the memberships read; with a token that expired
\* meanwhile it is closed at once, and the client is told nothing.
connection ==
    /\ socket.at = "checked"
    /\ socket' = IF accessValid[socket.token]
                 THEN [socket EXCEPT !.at = "up", !.seen = FALSE, !.joined = socket.seen]
                 ELSE closed(socket)
    /\ UNCHANGED <<server, accessValid, member, cookie, page, refreshing, leaving, requests,
                   overlap, signedOut, lost, faults>>

\* A page that still waits for the refresh of an earlier socket starts no second
\* one (a bound on the calls in flight).
socketRefresh ==
    IF InFlight("socket") THEN UNCHANGED <<refreshing, overlap>> ELSE Refresh("socket")

expirySocket_KeepsOpen ==
    /\ socket.at = "up" /\ ~ accessValid[socket.token]
    /\ socketRefresh
    /\ UNCHANGED <<server, accessValid, member, cookie, page, socket, leaving, requests,
                   signedOut, lost, faults>>

\* The timer of a socket ends it with its token; the client refreshes by itself.
expirySocket ==
    /\ socket.at = "up" /\ ~ accessValid[socket.token]
    /\ socket' = closed(socket)
    /\ socketRefresh
    /\ UNCHANGED <<server, accessValid, member, cookie, page, leaving, requests, signedOut,
                   lost, faults>>

\* The access token of the page, of its socket or of a request expires; that of
\* another one changes nothing.
InUse == {page.token, socket.token} \cup {requests[r].token : r \in Requests}
expireAccess(n) ==
    /\ accessValid[n] /\ n \in InUse
    /\ accessValid' = [accessValid EXCEPT ![n] = FALSE]
    /\ UNCHANGED <<server, member, cookie, page, socket, refreshing, leaving, requests,
                   overlap, signedOut, lost, faults>>

expireRefresh(n) ==
    /\ refreshTokens[n] = "live" /\ faults < MaxFaults
    /\ refreshTokens' = [refreshTokens EXCEPT ![n] = "expired"]
    /\ faults' = faults + 1
    /\ UNCHANGED <<wins, accessValid, member, cookie, page, socket, refreshing, leaving,
                   requests, overlap, signedOut, lost>>

\* Another owner removes the account from the project.
removed ==
    /\ member
    /\ member' = FALSE
    /\ UNCHANGED <<server, accessValid, cookie, page, socket, refreshing, leaving, requests,
                   overlap, signedOut, lost, faults>>

Next ==
    \/ \E w \in Refreshers : \/ usableToken(w) \/ rotate(w) \/ issue(w)
                             \/ refreshed(w) \/ limited(w) \/ refused(w) \/ loseAnswer(w)
    \/ login \/ signOut \/ logout \/ loggedOut \/ logoutFails \/ bootstrap
    \/ \E to \in Routes : navigate(to)
    \/ \E r \in Requests : send(r) \/ answer(r)
    \/ handshake \/ connection \/ expirySocket
    \/ \E n \in Issuable : expireAccess(n) \/ expireRefresh(n)
    \/ removed

Spec == Init /\ [][Next]_vars

\* Time passes, so access tokens expire, and the timer of a socket fires.
FairSpec ==
    /\ Spec
    /\ \A n \in Issuable : WF_vars(expireAccess(n))
    /\ WF_vars(expirySocket)
-----------------------------------------------------------------------------
Pages == [token : {None} \cup Issuable, user : BOOLEAN, member : BOOLEAN, ready : BOOLEAN,
          route : Routes]
Sockets == [token : {None} \cup Issuable, at : {"down", "checked", "up"}, seen : BOOLEAN,
            joined : BOOLEAN, expected : BOOLEAN]

TokensOK ==
    /\ refreshTokens \in [Issuable -> {"none", "live", "revoked", "expired"}]
    /\ wins \in [Issuable -> Nat]
    /\ accessValid \in [Issuable -> BOOLEAN]
    /\ cookie \in {None} \cup Issuable
    /\ refreshing \in [Refreshers -> [at : {"idle", "sent", "read", "rotated", "issued",
                                            "refused"},
                                      token : {None} \cup Issuable,
                                      next : {None} \cup Issuable]]
    /\ leaving \in [at : {"idle", "sent", "revoked"}, token : {None} \cup Issuable]

PageOK == page \in Pages /\ socket \in Sockets /\ member \in BOOLEAN

TypeOK ==
    /\ TokensOK /\ PageOK
    /\ overlap \in BOOLEAN /\ signedOut \in BOOLEAN /\ lost \in BOOLEAN /\ faults \in Nat

\* auth-service.js, refresh: two requests racing with one token get one session
\* between them, "instead of being handed a second independent session".
OneWinner == \A n \in Issuable : wins[n] <= 1

\* api.js: REST calls that meet an expired access token together, in any order,
\* never make the service refuse the session of a signed-in browser: that takes two
\* calls that change the cookie in flight together (the socket's refresh beside
\* refreshOnce), a failing call or an expiry.  A refresh may still end the session on
\* the page, when it is answered 429, and then the cookie that is left is one the
\* service honours, so that starting the page again brings the session back.
Honoured(n) == n = None \/ refreshTokens[n] = "live"
LossHasCause ==
    ~ overlap /\ faults = 0 => ~ lost /\ (NothingInFlight => Honoured(cookie))

\* routes/auth.js, logout: after a sign-out that was answered no cookie comes back, so
\* a reload does not sign the user in again, unless a refresh was in flight.
SignedOutStaysOut == signedOut => cookie = None \/ overlap

\* realtime.js: "every fresh token rebuilds a socket that is meant to be up": it
\* never waits on a token the page has replaced.
SocketFollowsToken ==
    socket.expected /\ page.token # None => socket.token = page.token

\* socket.js: the room a socket joined is left at the latest with its token, so a
\* removed member stops receiving the project's events.
RemovalTakesEffect == (~ member /\ socket.joined) ~> ~ socket.joined
=============================================================================
