-------------------------- MODULE DashboardRouter --------------------------
(***************************************************************************)
(* The dashboard's navigation and transport (src/dashboard/src/main.js,    *)
(* src/dashboard/src/router/index.js) over its auth store.                 *)
(*                                                                         *)
(* A navigation resolves the target against the route table (a record     *)
(* with `redirect` is followed first), is dropped when it leads to the     *)
(* current location, and runs router.beforeEach.  A location returned by   *)
(* the guard is a new navigation that runs the guard again.  Subscriptions *)
(* belong to the page on screen and end when it is left; the graphql-ws    *)
(* client of wsLink connects on the first subscription, reading the token  *)
(* through connectionParams, and closes when the last one ends (its        *)
(* default `lazy` mode).  Every other operation goes through               *)
(* apolloAuthMiddleware, which reads the token when it is sent.            *)
(*                                                                         *)
(* The auth store of this dashboard (src/dashboard/src/store/auth.js) is   *)
(* not in the sources; its login, logout and FetchBearerToken follow the   *)
(* spec (section 4.1): a session comes from the login page or from the     *)
(* persisted token on load, and logout navigates to the login page after   *)
(* a delay.                                                                *)
(***************************************************************************)
EXTENDS Integers, Sequences, FiniteSetsExt, Functions, TLC

CONSTANTS
    Tokens,     \* tokens the backend issues on login
    NoToken,    \* the store holds no token
    Absent,     \* a query parameter that is not in the URL
    Null,       \* `?update` with no value: vue-router gives null
    NoName,     \* a location whose route record has no name, or no record
    MaxSubs     \* bound on the subscriptions one page holds at once

VARIABLES
    route,            \* the current location, or Start before the first navigation
    isLoggedIn,       \* auth store
    token,            \* auth store token, mirrored in localStorage
    logoutNavPending, \* the delayed navigation to Login that logout schedules
    subs,             \* active subscriptions of the page on screen
    ws,               \* the graphql-ws connection: open, and the header it was opened with
    sentThisSession   \* history: headers of operations sent since the last login

vars == <<route, isLoggedIn, token, logoutNavPending, subs, ws, sentThisSession>>

-----------------------------------------------------------------------------
(* JavaScript parseInt over the characters a query value can hold here.    *)

NaN == -1   \* parseInt never yields a negative number without a sign
QueryChars == {"0", "1", "a"}
DigitValue == ("0" :> 0) @@ ("1" :> 1)
QueryStrings == UNION {[1..n -> QueryChars] : n \in 0..2}

RECURSIVE LeadingDigits(_, _)
LeadingDigits(s, acc) ==
    IF s # <<>> /\ Head(s) \in DOMAIN DigitValue
    THEN LeadingDigits(Tail(s), 10 * acc + DigitValue[Head(s)])
    ELSE acc

ParseInt(s) ==
    IF s # <<>> /\ Head(s) \in DOMAIN DigitValue THEN LeadingDigits(s, 0) ELSE NaN

\* `to.query?.update ?? 0`: a missing or valueless parameter becomes the
\* number 0, which parseInt reads as the string "0".
UpdateArgument(u) == IF u \in {Absent, Null} THEN <<"0">> ELSE u

-----------------------------------------------------------------------------
(* The route table.  Locations are [path, name, update, redirect], the two *)
(* last being the `update` and `redirect` query parameters.                *)

RouteTable ==
    ("/setup" :> [name |-> "Setup", redirect |-> Absent])
    @@ ("/maintenance" :> [name |-> "Maintenance", redirect |-> Absent])
    @@ ("/login" :> [name |-> "Login", redirect |-> Absent])
    @@ ("/" :> [name |-> NoName, redirect |-> "/applications"])
    @@ ("/deploy" :> [name |-> NoName, redirect |-> Absent])
    @@ ("/applications" :> [name |-> "Applications", redirect |-> Absent])
    @@ ("/users" :> [name |-> "Users", redirect |-> Absent])

\* A path no record matches: it resolves with no name.
Unmatched == "/nope"
Paths == DOMAIN RouteTable \cup {Unmatched}

NameOf(p) == IF p \in DOMAIN RouteTable THEN RouteTable[p].name ELSE NoName

Location(p, u, r) == [path |-> p, name |-> NameOf(p), update |-> u, redirect |-> r]

Start == [path |-> "", name |-> NoName, update |-> Absent, redirect |-> Absent]

\* Resolving a path follows the record's `redirect`, which drops the query.
Resolve(p, u) ==
    IF p \in DOMAIN RouteTable /\ RouteTable[p].redirect # Absent
    THEN Location(RouteTable[p].redirect, Absent, Absent)
    ELSE Location(p, u, Absent)

\* What a page can navigate to: the `update` query only matters on /setup.
Targets == {Resolve("/setup", u) : u \in {Absent, Null} \cup QueryStrings}
           \cup {Resolve(p, Absent) : p \in Paths \ {"/setup"}}

-----------------------------------------------------------------------------
(* The auth store (spec section 4.1) and the transport.                    *)

Bearer(t) == <<"Bearer", t>>
EmptyHeader == <<>>
Headers == {EmptyHeader} \cup {Bearer(t) : t \in Tokens}

\* An operation sent, with the channel `split` chose and its authorization.
Sent(via, h) == [via |-> via, header |-> h]

FetchBearerTokenIgnoringLogin == Bearer(token)

FetchBearerToken == IF isLoggedIn THEN Bearer(token) ELSE EmptyHeader

Closed == [open |-> FALSE, header |-> EmptyHeader]

\* The socket after the page holds n subscriptions: it stays open forever.
ReleaseSocketNever(n) == ws

\* graphql-ws in lazy mode closes the socket when no subscription is left.
ReleaseSocket(n) == IF n = 0 THEN Closed ELSE ws

\* The verdict of router.beforeEach for `to`: Allow, or where to go instead.
Allow == [path |-> "allow"]

beforeEachWithoutMaintenance(to) ==
    CASE to.name = "Setup" /\ ParseInt(UpdateArgument(to.update)) = 0 -> Allow
      [] ~isLoggedIn /\ to.name # "Login" -> Location("/login", Absent, to.path)
      [] isLoggedIn /\ to.name = "Login" -> Location("/applications", Absent, Absent)
      [] OTHER -> Allow

beforeEach(to) ==
    CASE \/ to.name = "Setup" /\ ParseInt(UpdateArgument(to.update)) = 0
         \/ to.name = "Maintenance" -> Allow
      [] ~isLoggedIn /\ to.name # "Login" -> Location("/login", Absent, to.path)
      [] isLoggedIn /\ to.name = "Login" -> Location("/applications", Absent, Absent)
      [] OTHER -> Allow

\* Where a navigation to `to` ends: a guard redirect is navigated in turn,
\* and a navigation to the current location is dropped as a duplicate.
RECURSIVE Land(_)
Land(to) ==
    IF to = route THEN route
    ELSE LET verdict == beforeEach(to)
         IN IF verdict = Allow THEN to ELSE Land(verdict)

\* Leaving a location unmounts its page, ending its subscriptions.
GoTo(to) ==
    LET dest == Land(to)
    IN /\ route' = dest
       /\ subs' = IF dest = route THEN subs ELSE 0
       /\ ws' = IF dest = route THEN ws ELSE ReleaseSocket(0)

\* The coarse page of a location, as the spec's navigation guard sees it.
PageOf(loc) ==
    CASE loc = Start               -> "none"
      [] loc.name = "Setup"        -> "setup"
      [] loc.name = "Maintenance"  -> "maintenance"
      [] loc.name = "Login"        -> "login"
      [] OTHER                     -> "app"

-----------------------------------------------------------------------------

Init ==
    /\ route = Start
    /\ token \in Tokens \cup {NoToken}         \* what localStorage holds at load
    /\ isLoggedIn = (token # NoToken)
    /\ logoutNavPending = FALSE
    /\ subs = 0
    /\ ws = Closed
    /\ sentThisSession = {}

\* A user navigation (a link, the address bar, or the first one after load).
navigate(to) ==
    /\ GoTo(to)
    /\ UNCHANGED <<isLoggedIn, token, logoutNavPending, sentThisSession>>

\* A reload loses the page, the socket and the pending timeout; the store
\* comes back from the persisted token.
pageLoad ==
    /\ route' = Start
    /\ subs' = 0
    /\ ws' = Closed
    /\ logoutNavPending' = FALSE
    /\ UNCHANGED <<isLoggedIn, token, sentThisSession>>

\* A page starts a subscription; the pages that subscribe (logs, deployment
\* progress) are all behind the login.  `split` routes the operation to
\* wsLink, which connects first if no socket is open; the operation
\* carries the header of the connection.
subscribe ==
    /\ PageOf(route) = "app"
    /\ subs < MaxSubs
    /\ LET conn == IF ws.open THEN ws ELSE [open |-> TRUE, header |-> FetchBearerToken]
       IN /\ ws' = conn
          /\ sentThisSession' = sentThisSession \cup {Sent("ws", conn.header)}
    /\ subs' = subs + 1
    /\ UNCHANGED <<route, isLoggedIn, token, logoutNavPending>>

\* The page ends one of its subscriptions.
unsubscribe ==
    /\ subs > 0
    /\ subs' = subs - 1
    /\ ws' = ReleaseSocket(subs - 1)
    /\ UNCHANGED <<route, isLoggedIn, token, logoutNavPending, sentThisSession>>

\* A query or mutation: `split` sends it through apolloAuthMiddleware,
\* which sets the header when the operation is sent.
sendRequest ==
    /\ route # Start
    /\ sentThisSession' = sentThisSession \cup {Sent("http", FetchBearerToken)}
    /\ UNCHANGED <<route, isLoggedIn, token, logoutNavPending, subs, ws>>

\* The connection is lost under live subscriptions and graphql-ws
\* reconnects, evaluating connectionParams again; the subscriptions are
\* sent again on the new socket.  (When the retries run out the
\* subscriptions end with an error, which leaves the state unsubscribe does.)
socketReconnect ==
    /\ ws.open /\ subs > 0
    /\ ws' = [open |-> TRUE, header |-> FetchBearerToken]
    /\ sentThisSession' = sentThisSession \cup {Sent("ws", FetchBearerToken)}
    /\ UNCHANGED <<route, isLoggedIn, token, logoutNavPending, subs>>

\* A login from the login page stores the token the backend returns.
login(t) ==
    /\ ~isLoggedIn
    /\ route.name = "Login"
    /\ isLoggedIn' = TRUE
    /\ token' = t
    /\ sentThisSession' = {}
    /\ UNCHANGED <<route, logoutNavPending, subs, ws>>

\* logout leaving the page where it is.
logoutWithoutNavigation ==
    /\ isLoggedIn
    /\ isLoggedIn' = FALSE
    /\ token' = NoToken
    /\ UNCHANGED <<route, logoutNavPending, subs, ws, sentThisSession>>

\* logout clears the session and the persisted token and schedules the
\* navigation to Login.
logout ==
    /\ isLoggedIn
    /\ isLoggedIn' = FALSE
    /\ token' = NoToken
    /\ logoutNavPending' = TRUE
    /\ UNCHANGED <<route, subs, ws, sentThisSession>>

\* The delay elapses: router.push to Login, through the guard.
logoutNavigation ==
    /\ logoutNavPending
    /\ logoutNavPending' = FALSE
    /\ GoTo(Location("/login", Absent, Absent))
    /\ UNCHANGED <<isLoggedIn, token, sentThisSession>>

Next ==
    \/ \E to \in Targets : navigate(to)
    \/ pageLoad
    \/ subscribe \/ unsubscribe \/ sendRequest
    \/ socketReconnect
    \/ \E t \in Tokens : login(t)
    \/ logout \/ logoutNavigation

\* The logout timeout fires while the page stays open.
Fairness == WF_vars(logoutNavigation)

Spec == Init /\ [][Next]_vars /\ Fairness

-----------------------------------------------------------------------------
(* Properties.                                                             *)

TypeOK ==
    /\ route \in Targets \cup {Start}
            \cup {Location("/login", Absent, r) : r \in {Absent} \cup Paths}
    /\ isLoggedIn \in BOOLEAN
    /\ token \in Tokens \cup {NoToken}
    /\ logoutNavPending \in BOOLEAN
    /\ subs \in 0..MaxSubs
    /\ ws \in [open : BOOLEAN, header : Headers]
    /\ sentThisSession \subseteq [via : {"ws", "http"}, header : Headers]

ReturnOf(loc) ==
    IF loc # Start /\ loc.redirect # Absent
    THEN PageOf(Location(loc.redirect, Absent, Absent))
    ELSE "none"

AC == INSTANCE AccessControl
        WITH page <- PageOf(route), returnTo <- ReturnOf(route),
             authenticated <- isLoggedIn

\* router.beforeEach with the route table, the duplicate-navigation rule
\* and the second guard pass implements the navigation rules of the spec:
\* setup (not as an update) and maintenance always open, other pages need
\* a session, a refused page is kept in the login page's `redirect` query,
\* and a logged-in user asking for the login page lands on Applications.
AccessControlSpec == AC!Spec

\* Every operation sent while logged in, over HTTP through
\* apolloAuthMiddleware or over the graphql-ws socket, carries the token
\* of the current session and never that of an earlier one.
SessionOperationsCarrySessionToken ==
    isLoggedIn => \A m \in sentThisSession : m.header = Bearer(token)

\* After logout, a protected page does not stay on screen: the delayed
\* navigation of logout goes through the guard to the login page.
LoggedOutLeavesProtectedPage ==
    (~isLoggedIn /\ PageOf(route) = "app")
        ~> (PageOf(route) # "app" \/ isLoggedIn)
====
