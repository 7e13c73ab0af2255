---------------------------- MODULE AuthSession ----------------------------
(***************************************************************************)
(* The dashboard2 session store (src/dashboard2/stores/auth.ts) in one     *)
(* browser tab, driven by the global route middleware                      *)
(* (src/dashboard2/middleware/auth.global.ts) on every navigation, by its  *)
(* timers (the 1000 ms login-progress timeout, the 500 ms logout redirect, *)
(* the 10 s clock interval) and by the 5 s token checker whose answer      *)
(* arrives later.  localStorage outlives the page and is shared with other *)
(* tabs of the same origin; when OtherTab is TRUE a second tab may log in  *)
(* or out by writing it.  The backend is the set of tokens it accepts.     *)
(***************************************************************************)
EXTENDS Naturals, Bags, FiniteSets

CONSTANTS
    Tokens,         \* bearer tokens the backend may issue
    Absent,         \* localStorage.getItem("token") of a cleared storage
    NoPage,         \* route of a tab whose first navigation has not run
    OtherTab,       \* whether a second tab shares the localStorage
    MaxChecks,      \* verify-auth requests in flight at once
    MaxLogins,      \* login requests in flight at once
    MaxIntervals    \* clock intervals started before navigation stops

ASSUME Absent \notin Tokens /\ NoPage \notin {"/", "/login"}
ASSUME OtherTab \in BOOLEAN
ASSUME {MaxChecks, MaxLogins, MaxIntervals} \subseteq Nat

\* The middleware's publicRoutes, and the pages a user can open.
PublicRoutes == {"/login"}
Paths == {"/", "/login"}

VARIABLES
    tab,        \* the page's in-memory state, lost on reload
    storage,    \* localStorage "token"
    valid,      \* tokens the backend accepts (issued and not expired)
    issued,     \* tokens the backend has issued
    lastLogin   \* history: token of the last login not followed by a logout

vars == <<tab, storage, valid, issued, lastLogin>>

FreshTab ==
    [isLoggedIn |-> FALSE, accessToken |-> "", isLoggingInProgress |-> FALSE,
     progressTimers |-> 0, navTimers |-> 0, clockIntervals |-> 0,
     checks |-> EmptyBag, logins |-> 0, route |-> NoPage]

\* fetchBearerToken, without the "Bearer " prefix.
fetchBearerToken == IF tab.isLoggedIn THEN tab.accessToken ELSE ""

\* Mutant: setCredential that never schedules its 1000 ms timeout.
setCredentialWithoutTimeout(m, t) ==
    [m EXCEPT !.accessToken = t, !.isLoggedIn = TRUE,
              !.isLoggingInProgress = TRUE]

\* setCredential(token) on the in-memory side; the caller writes storage.
setCredential(m, t) ==
    [m EXCEPT !.accessToken = t, !.isLoggedIn = TRUE,
              !.isLoggingInProgress = TRUE, !.progressTimers = @ + 1]

\* Mutant: initializeAuth without the if (token) test.
initializeAuthWithoutTokenTest(m) ==
    [setCredential(m, storage) EXCEPT !.clockIntervals = @ + 1]

\* initializeAuth: reuse a stored token, and start one more clock interval.
initializeAuth(m) ==
    LET m1 == IF storage # Absent THEN setCredential(m, storage) ELSE m
    IN  [m1 EXCEPT !.clockIntervals = @ + 1]

\* The redirect the middleware returns for a target path, or the path.
Redirect(m, to) ==
    CASE ~m.isLoggedIn /\ to \notin PublicRoutes -> "/login"
      [] m.isLoggedIn /\ to = "/login"           -> "/"
      [] OTHER                                   -> to

(* A navigation runs the middleware; a redirect is a new navigation that   *)
(* runs it again.  The second pass sees the login state of the first and   *)
(* accepts its target.                                                     *)
RouteChange(m, to) ==
    LET m1 == initializeAuth(m)
        r  == Redirect(m1, to)
    IN  IF r = to THEN [m1 EXCEPT !.route = to]
                  ELSE [initializeAuth(m1) EXCEPT !.route = r]

\* Mutant: logout without scheduling the redirect to /login.
logoutTabWithoutRedirect(m) ==
    [m EXCEPT !.isLoggedIn = FALSE, !.isLoggingInProgress = TRUE]

\* logout: the in-memory side; storage is cleared by the caller.
logoutTab(m) ==
    [m EXCEPT !.isLoggedIn = FALSE, !.isLoggingInProgress = TRUE,
              !.navTimers = @ + 1]

\* Mutant: logout that forgets localStorage.clear().
logoutKeepingStorage ==
    /\ tab' = logoutTab(tab)
    /\ lastLogin' = ""
    /\ UNCHANGED <<storage, valid, issued>>

logout ==
    /\ tab' = logoutTab(tab)
    /\ storage' = Absent
    /\ lastLogin' = ""
    /\ UNCHANGED <<valid, issued>>

Init ==
    /\ tab = FreshTab
    /\ storage \in {Absent} \cup Tokens
    /\ issued = IF storage = Absent THEN {} ELSE {storage}
    /\ valid \in SUBSET issued
    /\ lastLogin = IF storage = Absent THEN "" ELSE storage

\* The tab is opened or reloaded: memory, timers and requests are lost,
\* localStorage is kept, and the first navigation runs the middleware.
pageLoad(to) ==
    /\ tab' = RouteChange(FreshTab, to)
    /\ UNCHANGED <<storage, valid, issued, lastLogin>>

\* The user follows a link; every navigation runs the middleware.
navigate(to) ==
    /\ tab.route # NoPage
    /\ tab.clockIntervals < MaxIntervals
    /\ tab' = RouteChange(tab, to)
    /\ UNCHANGED <<storage, valid, issued, lastLogin>>

\* The 1000 ms timeout scheduled by setCredential.
progressTimeout ==
    /\ tab.progressTimers > 0
    /\ tab' = [tab EXCEPT !.progressTimers = @ - 1,
                          !.isLoggingInProgress = FALSE]
    /\ UNCHANGED <<storage, valid, issued, lastLogin>>

\* The 500 ms timeout scheduled by logout: navigateTo("/login").
logoutRedirect ==
    /\ tab.navTimers > 0
    /\ tab' = RouteChange([tab EXCEPT !.navTimers = @ - 1], "/login")
    /\ UNCHANGED <<storage, valid, issued, lastLogin>>

\* The user presses the logout button of a logged-in page.
userLogout ==
    /\ tab.isLoggedIn
    /\ logout

\* Mutant: the checker treats a missing stored token as valid.
checkerFiresIgnoringMissingToken ==
    /\ tab.route # NoPage
    /\ tab.isLoggedIn
    /\ storage # Absent
    /\ BagCardinality(tab.checks) < MaxChecks
    /\ tab' = [tab EXCEPT !.checks = @ (+) SetToBag({storage})]
    /\ UNCHANGED <<storage, valid, issued, lastLogin>>

(* The 5 s interval of startAuthChecker runs logoutOnInvalidToken with     *)
(* logout as its callback.  It returns at once when logged out; otherwise  *)
(* checkAuthStatus reads the stored token: none means invalid, and a token *)
(* is sent to /verify-auth.                                                *)
checkerFires ==
    /\ tab.route # NoPage
    /\ tab.isLoggedIn
    /\ \/ /\ storage = Absent
          /\ logout
       \/ /\ storage # Absent
          /\ BagCardinality(tab.checks) < MaxChecks
          /\ tab' = [tab EXCEPT !.checks = @ (+) SetToBag({storage})]
          /\ UNCHANGED <<storage, valid, issued, lastLogin>>

(* The answer to a verify-auth request for t.  logoutOnInvalidToken calls  *)
(* the callback on an invalid answer without looking at isLoggedIn again. *)
checkReply(t, isTokenValid) ==
    /\ BagIn(t, tab.checks)
    /\ LET m == [tab EXCEPT !.checks = @ (-) SetToBag({t})]
       IN  IF isTokenValid
             THEN /\ tab' = m
                  /\ UNCHANGED <<storage, valid, issued, lastLogin>>
             ELSE /\ tab' = logoutTab(m)
                  /\ storage' = Absent
                  /\ lastLogin' = ""
                  /\ UNCHANGED <<valid, issued>>

\* A "Network Error" counts as a valid token (fail-open).
checkAuthStatusNetworkError(t) == checkReply(t, TRUE)

\* Mutant: the catch block returns true for every error.
checkAuthStatusFailOpen(t) == checkReply(t, TRUE)

\* The backend answers 200 for a token it accepts and 401 otherwise.
checkAuthStatusServerAnswer(t) == checkReply(t, t \in valid)

\* The login page posts the form.
loginRequest ==
    /\ tab.route = "/login"
    /\ tab.logins < MaxLogins
    /\ tab' = [tab EXCEPT !.logins = @ + 1]
    /\ UNCHANGED <<storage, valid, issued, lastLogin>>

\* The backend accepts the credentials and issues a new token.
loginSucceeds ==
    /\ tab.logins > 0
    /\ \E t \in Tokens \ issued :
          /\ tab' = setCredential([tab EXCEPT !.logins = @ - 1], t)
          /\ storage' = t
          /\ issued' = issued \cup {t}
          /\ valid' = valid \cup {t}
          /\ lastLogin' = t

\* The backend rejects the credentials or cannot be reached.
loginFails ==
    /\ tab.logins > 0
    /\ tab' = [tab EXCEPT !.logins = @ - 1]
    /\ UNCHANGED <<storage, valid, issued, lastLogin>>

\* A token reaches its expiry and the backend stops accepting it.
tokenExpires(t) ==
    /\ t \in valid
    /\ valid' = valid \ {t}
    /\ UNCHANGED <<tab, storage, issued, lastLogin>>

\* Another tab logs in (setCredential) or out (localStorage.clear()).
otherTabLogin ==
    /\ OtherTab
    /\ \E t \in Tokens \ issued :
          /\ storage' = t
          /\ issued' = issued \cup {t}
          /\ valid' = valid \cup {t}
          /\ lastLogin' = t
    /\ UNCHANGED tab

otherTabLogout ==
    /\ OtherTab
    /\ storage' = Absent
    /\ lastLogin' = ""
    /\ UNCHANGED <<tab, valid, issued>>

Next ==
    \/ \E to \in Paths : pageLoad(to) \/ navigate(to)
    \/ progressTimeout \/ logoutRedirect \/ userLogout \/ checkerFires
    \/ \E t \in Tokens : \/ checkAuthStatusNetworkError(t)
                         \/ checkAuthStatusServerAnswer(t)
                         \/ tokenExpires(t)
    \/ loginRequest \/ loginSucceeds \/ loginFails
    \/ otherTabLogin \/ otherTabLogout

(* Timers and intervals fire while the page is open; the backend answers   *)
(* a verify-auth request infinitely often if asked infinitely often.       *)
Fairness ==
    /\ WF_vars(checkerFires)
    /\ WF_vars(progressTimeout)
    /\ WF_vars(logoutRedirect)
    /\ \A t \in Tokens : SF_vars(checkAuthStatusServerAnswer(t))

Spec == Init /\ [][Next]_vars /\ Fairness
-----------------------------------------------------------------------------
TypeOK ==
    /\ tab \in [isLoggedIn: BOOLEAN, accessToken: Tokens \cup {""},
                isLoggingInProgress: BOOLEAN, progressTimers: Nat,
                navTimers: Nat, clockIntervals: Nat, checks: [DOMAIN tab.checks -> Nat],
                logins: 0..MaxLogins, route: Paths \cup {NoPage}]
    /\ IsABag(tab.checks) /\ BagToSet(tab.checks) \subseteq Tokens
    /\ storage \in Tokens \cup {Absent}
    /\ valid \subseteq issued /\ issued \subseteq Tokens
    /\ lastLogin \in Tokens \cup {""}

(* The requirement on fetchBearerToken: once the page has loaded it         *)
(* returns a token T exactly when a login succeeded with T and no logout    *)
(* happened since, across reloads that keep only localStorage and           *)
(* navigations that re-run initializeAuth.                                  *)
BearerIsLastLogin ==
    tab.route # NoPage => fetchBearerToken = lastLogin

(* A logged-out tab never stays on a protected page: it is on the login    *)
(* page or logout's redirect timer is still pending.  This ties the        *)
(* middleware's redirect rules to every path that ends a session.          *)
ProtectedPageOnlyWhileLoggedIn ==
    (tab.route \notin PublicRoutes \cup {NoPage} /\ ~tab.isLoggedIn)
        => tab.navTimers > 0

(* With the checker running and the backend answering eventually, a tab    *)
(* whose session token the backend no longer accepts is eventually logged  *)
(* out (or switched to another token).                                     *)
ExpiredSessionEventuallyEnds ==
    \A t \in Tokens :
        (tab.isLoggedIn /\ tab.accessToken = t /\ t \notin valid)
            ~> (~tab.isLoggedIn \/ tab.accessToken # t)

(* A logout in any tab (localStorage.clear()) eventually ends this tab's   *)
(* session too, unless some tab has logged in again meanwhile: the checker *)
(* finds no stored token and runs the logout callback.                    *)
CrossTabLogoutPropagates ==
    (tab.isLoggedIn /\ lastLogin = "") ~> (~tab.isLoggedIn \/ lastLogin # "")

(* When the checker logs the tab out because the backend rejected a token, *)
(* that token is the one of the session it ends (logoutOnInvalidToken      *)
(* reads isLoggedIn before awaiting the answer, not after).                *)
CheckLogoutEndsCheckedSession ==
    [][\A t \in Tokens :
          (checkAuthStatusServerAnswer(t) /\ t \notin valid /\ tab.isLoggedIn)
              => tab.accessToken = t]_vars

(* The login-progress flag never sticks in a session: while logged in, a  *)
(* set isLoggingInProgress (by setCredential, or left over from logout,   *)
(* which sets it with no timeout of its own) is eventually cleared by a   *)
(* pending setCredential timeout, however navigations and reloads          *)
(* re-run initializeAuth meanwhile.                                        *)
ProgressFlagClearsWhileLoggedIn ==
    (tab.isLoggedIn /\ tab.isLoggingInProgress)
        ~> (~tab.isLoggedIn \/ ~tab.isLoggingInProgress)

(* The middleware's comment: auth is initialized on first load, so a page  *)
(* runs a single clock interval however often it navigates.                *)
ClockIntervalStartedOnce == tab.clockIntervals <= 1
=============================================================================
