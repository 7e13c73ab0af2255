# TLA+ models of the SwiftWave dashboards

This directory holds TLA+ models of the stateful parts of the two SwiftWave
web dashboards under `src/`. It also holds the TLC configurations that check
them.

## The system

| Part | Source | State and concurrency |
|---|---|---|
| Application configuration editor store | `src/dashboard/src/store/applicationUpdater.js` | Two independent GraphQL queries of one application, a reactive draft edited by many handlers, a dirty flag recomputed after every edit, and one deploy mutation with done/error callbacks and a refetch. |
| dashboard2 auth store | `src/dashboard2/stores/auth.ts` | Login flags, a token in memory and in `localStorage` (shared by all tabs), timers (progress 1000 ms, logout navigation 500 ms, clock 10 s) and a periodic token check (5 s) whose answer arrives later. |
| dashboard2 global middleware | `src/dashboard2/middleware/auth.global.ts` | Runs on every navigation. It calls `initializeAuth` and redirects on the login state. |
| dashboard transport and router guard | `src/dashboard/src/main.js` | The Apollo HTTP/WebSocket links read the token per operation or per connection. `beforeEach` redirects on the setup, maintenance and login state. |
| Route table | `src/dashboard/src/router/index.js` | Static records: named pages, a `''` record redirecting to `/applications`, unnamed parents, no catch-all. |
| Utilities | `src/dashboard/src/vendor/utils.js` | Pure functions: git URL cleanup, colour class choice, formatting. |
| Build configuration | `nuxt.config.ts`, `vite.config.js` | No runtime state. |

How the parts interact: the router guard and the middleware read the auth
store on every navigation. The transport reads the token the auth store keeps.
The editor store reaches the backend only through the transport.

## What is modelled

### `ApplicationUpdater` (with `MC_ApplicationUpdater`)

This models the editor store. The model's state:
- `server` is the backend's configuration of the application.
- `applicationDetailsRaw` is the first query, which feeds the draft through the `watch` at line 154. `NotLoaded` until it answers.
- `applicationExistingDetailsResult` is the second, `no-cache` query (line 520). The dirty check and the merge read it.
- `draft` is the reactive draft objects (lines 297-399).
- `isConfigurationUpdated` is the flag that enables Apply.
- `deployRequest` is the payload in flight, or `None`.
- `refetching` means the refetch issued by `onDone` is outstanding.
- `applyOutcome` records whether the last Apply was sent or threw.
- `sourceEdited` is a history variable that records whether the user touched the build args since the last reset.
- `saves` counts Apply calls, up to the bound `MaxSaves`.

A configuration is abstracted to the fields whose handlers do more than assign
a scalar:
- the docker proxy flag;
- the memory limit;
- the preferred server hostnames, a list compared after an in-place sort;
- the environment variables, keyed by name;
- the config mounts, keyed by path, with a throw on a missing path;
- the persistent volume bindings, keyed by volume;
- the git and image-registry credential ids;
- the build args.

Each row is a record. The uuid keys of the code are abstracted to sequence
positions, because the comparisons never read them.

Actions:
- one per handler (`addEnvironmentVariable` … `updateApplicationSource`);
- `cancelConfigurationChanges` and `applyConfigurationChanges`, which includes the merge, with its possible throw;
- `deployApplicationDone` and `deployApplicationError`;
- the query answers, including the refetch and a refetch that fails.

Every handler ends in `triggerUpdateHook`, as the code does. A throw inside
the check leaves the flag unchanged: the exception propagates out of `triggerUpdateHook` (lines 516-518) before its assignment. The check sorts
the draft's hostnames in place whenever it gets that far, and the model
includes that sort.

`Differs` is the reference comparison that the properties use. It compares
hostnames as sets, the lists as multisets, and the build args by equality.

### Runs

| Run | Expect | What it shows |
|---|---|---|
| `dirty_check` | pass | Both queries are loaded and no save is made. Over any edit sequence (up to 2 env vars, 1 mount, 1 volume binding), Apply is never disabled while draft and snapshot differ. The check's TypeError on a renamed mount path only happens when the configurations differ anyway. The check does not always agree with `Differs` in the other direction: with the editor's 0 it reports a change that Apply would not make (finding 4), so `DirtyCheckMatchesReference` is checked only in `null_credential`. |
| `save_cycle` | pass | A full save with done, error and refetch, interleaved with edits. No request carries two mounts with one path. |
| `stale_snapshot` | violation | Finding 1: the second query is never refetched after a save. |
| `build_args` | violation | Finding 2: build args are never reset, so a save erases them. |
| `apply_unloaded` | violation | Finding 3: Apply before the second query loads throws instead of alerting. |
| `null_credential` | violation | Finding 4: with no git credential (stored as `null`), an unchanged draft compares as changed. |

The credential ids are `CredIDs` (numbers), `0` (the initial draft, and "none" in the source editor) and `NullID` (`null`). The git check applies `parseInt` (line 808), which the model writes as `ParseIntID`: `null` becomes `NotANumber`, and NaN is `!==` to everything. The registry check compares without it (line 824). Apply converts both ids with `parseInt` and maps 0 to `null` (lines 15-19); NaN is serialised as `null`. `Differs` compares the ids as Apply would send them. The runs open an application with git credential 1 and no registry credential. `null_credential` opens one without a git credential. In the violation runs the source editor hands over 0 or 1. The passing runs keep to 1, because 0 multiplies their state space past five minutes, and leaving it out hides nothing they check. `save_cycle` checks only mount paths, which the credentials do not touch. `dirty_check` checks that Apply is never disabled for a differing draft, which the credential checks could break only by reporting "unchanged" for ids Apply would send differently. They never do: the backend holds 1 or `null` (Apply maps 0 to `null`), so an editor 0 always compares as changed. That is over-reporting, the direction of finding 4.

Bounds:
- `MaxEnv`, `MaxMounts` and `MaxPvs` cap how many rows the handlers may add.
- `MaxSaves` caps Apply calls.
- The value sets have two or three members. That is enough for a duplicate key, a rename onto an existing key, a removal and a re-add.
- `dirty_check` uses the full sets without saving. `save_cycle` uses smaller sets with one save, because the done, error and refetch interleavings multiply the state space.

No liveness is claimed for this store. Its steps are user actions and network
answers, and nothing in the code obliges either to happen.

### `AuthSession`

This models the dashboard2 session store (`stores/auth.ts`) in one browser
tab, together with the global middleware (`middleware/auth.global.ts`).

State:
- `tab` is everything a reload loses:
  - the store refs `isLoggedIn`, `accessToken` and `isLoggingInProgress`;
  - pending 1000 ms progress timeouts and 500 ms logout redirects;
  - clock intervals started;
  - the verify-auth requests in flight, a bag of tokens;
  - login requests in flight;
  - the route.
- `storage` is the `localStorage` token. It survives reloads and is shared with other tabs.
- `valid` and `issued` model the backend's tokens.
- `lastLogin` is a history variable: the token of the last login not followed by a logout.

Actions:
- `pageLoad` is a load or reload: fresh memory, then the first navigation.
- `navigate` is a user navigation.
- `RouteChange` is the middleware: `initializeAuth`, then the redirect rules. A redirect runs the middleware again.
- The two timeouts.
- `userLogout`.
- `checkerFires` is the 5 s interval: `logoutOnInvalidToken` and the synchronous part of `checkAuthStatus`.
- The verify-auth answer: a network error (fail-open) or the backend's 200/401.
- Login request, success and failure.
- Token expiry.
- When `OtherTab` holds, another tab's login or logout, seen only through `localStorage`.

The logout callback of `startAuthChecker` is supplied by a page outside
`src/`. The spec calls it the logout callback, and the model uses `logout`.

Fairness:
- Weak fairness of the checker interval and of both timeouts, which fire while the page is open.
- Strong fairness of the backend's answer to a verify-auth request. Network errors may happen, but not forever. Without this assumption, fail-open makes every liveness property false.

| Run | Expect | What it shows |
|---|---|---|
| `auth_session` | pass | One tab, with reloads, logins, logouts, expiries and checker answers in any order. `fetchBearerToken` returns exactly the last login's token, which is the spec's requirement apart from expiry. A logged-out tab leaves protected pages. An expired session is eventually logged out. While logged in, the login-progress flag always clears again. That flag may be set by `setCredential` or left set by `logout` (line 87), which schedules no timeout for it. The check assumes weak fairness of the timeouts. |
| `auth_two_tabs` | pass | A second tab writes `localStorage`. A logout in either tab eventually ends this tab's session unless some tab logs in again. |
| `auth_stale_check` | violation | A 401 for a token logged out while the check was in flight ends the new session. |
| `auth_other_tab` | violation | After another tab stores a fresh token, the checker verifies that token forever while this tab keeps sending its expired one. |
| `auth_interval_leak` | violation | Every middleware pass, the first page load's redirect included, starts another clock interval. The comment says "on first load". |

Bounds:
- Two tokens are enough for a session, a newer session and an expired old one.
- `MaxChecks = 2` allows two requests in flight.
- `MaxLogins = 1`.
- `MaxIntervals = 3` lets navigation repeat per page load. Reloads reset it.

### `AccessControl` and `DashboardRouter`

`AccessControl` is the abstract navigation guard of spec section 4.3. It has:
- `page`, one of none/setup/maintenance/login/app;
- `authenticated`;
- `returnTo`, the page the login page's `redirect` query preserves.

`Navigate` picks any target page and any update flag. Setup (when not an update) and maintenance are open. Without a session, any other page except login leads to the login page, which remembers the refused page. With a session, the login page leads to app. Sessions start only on the login page, and may end anywhere. `Reload` returns to no page.

`DashboardRouter` models `src/dashboard/src/main.js` and the route table together:
- `router.beforeEach` is translated line by line, `parseInt(to.query?.update ?? 0)` included. `ParseInt` covers the leading-digit prefix and NaN, over query strings of up to two characters from {0, 1, a}. `UpdateArgument` turns a missing or valueless query into the number 0.
- `RouteTable` keeps the records whose behaviour differs: Setup, Maintenance, Login, the `''` redirect record, the unnamed `/deploy` parent, two named protected pages, and an unmatched path.
- vue-router's behaviour around the guard is part of the navigation, in `Land`:
  - a record redirect is resolved before the guard;
  - a location returned by the guard is navigated to in turn, running the guard again;
  - a navigation to the current location is dropped without running the guard.
- Leaving a location unmounts its page, which ends its subscriptions (`GoTo`).
- The Apollo link:
  - `split` sends subscriptions to `wsLink` and everything else through `apolloAuthMiddleware`, which reads `FetchBearerToken()` when the operation is sent.
  - The graphql-ws client connects on the first subscription, reading `connectionParams` then. In its default lazy mode it closes when the last subscription ends (`ReleaseSocket`).
  - `socketReconnect` is a lost connection followed by graphql-ws's retry, which evaluates `connectionParams` again.
  - When the retries run out, the subscriptions end. That leaves the state `unsubscribe` leaves, so it is not a separate action.
- The auth store this dashboard uses (`src/dashboard/src/store/auth.js`) is not in the sources. `login`, `logout` (with its delayed navigation to Login), `FetchBearerToken` and the token persisted across reloads are modelled from spec section 4.1 and marked `spec_modelled` in the map.
- Subscribing pages (logs, deployment progress) are behind the login, so `subscribe` needs an app page.
- `sentThisSession` is a history variable: the channel and header of every operation sent since the last login.

The refinement: `AC == INSTANCE AccessControl WITH page <- PageOf(route), returnTo <- ReturnOf(route), authenticated <- isLoggedIn`, with `AC!Spec` checked as the property `AccessControlSpec`. `PageOf` classes a location by its route name. `ReturnOf` classes the login page's `redirect` query.

Fairness: weak fairness of `logoutNavigation`. Its timeout fires while the page is open, and a reload cancels it.

| Run | Expect | What it shows |
|---|---|---|
| `dr_navigation` | pass | Navigations, reloads, logins, logouts, subscriptions, requests and reconnects in any order. It checks three things. The guard refines `AccessControl`. Every operation sent while logged in, over either channel, carries the current session's token. A logged-out user does not stay on a protected page. |

What `SessionOperationsCarrySessionToken` rests on: an open socket keeps the token it connected with. A later session cannot reuse it, because logging in needs the login page. Reaching that page unmounts every subscription, and lazy mode then closes the socket. The mutant that keeps the socket open breaks the property.

Bounds:
- two tokens;
- `MaxSubs = 2`;
- every `update` string of length up to 2, plus a missing and a valueless parameter;
- seven paths.

That covers each guard branch, each `parseInt` outcome (0, a positive value, NaN), both redirect passes, the duplicate rule and a session change under an open socket. The run reaches 1,575 distinct states.

## Findings

See `findings` in `PROJECT.json`. In short:
1. The stale second snapshot leaves Apply disabled after a save and a revert.
2. Build args are erased by any save.
3. The dead `{}.length === 0` guard turns a missing snapshot into an uncaught TypeError.
4. `parseInt(null)` makes every application without a git credential compare as changed, contradicting the spec's "no edits gives isChanged false". The registry check has the same flaw when the source editor hands over 0 for "none": `0 !== null` at line 824, although Apply would send `null`.
5. A stale verify-auth answer logs out a newer session.
6. The checker verifies the stored token, not the one this tab sends.
7. `initializeAuth` leaks a clock interval per navigation.

## What is not modelled, and why

- `ApplicationUpdater` leaves out the fields whose handlers are plain assignments and whose checks are plain `!==`: replicas, deployment mode, health check, reserved memory, proxy permissions, and the repository, branch, code path, image, command and file-name source fields. They add states but no new control.
- Edits made while a save is in flight are discarded when the refetch resets the draft (line 155). Spec section 4.4 asks for that, so no property claims the edits survive. `save_cycle` runs this interleaving, but no property there constrains the state after the reset. `ApplyDisabledOnlyWhenInSyncWhileSnapshotCurrent` cannot do it: after a successful save the second snapshot is stale (finding 1), so its precondition no longer holds.
- No property judges `ParseInt` on the `update` query (main.js:286). The spec does not say which values count as an explicit update, and the refinement lets each navigation choose.
- How soon the progress flag clears is not modelled. Every `setCredential` schedules its own 1000 ms timeout, so an older timeout can clear a newer login's flag early (auth.ts line 33). The model has no clock, so it checks only that the flag clears eventually.
- `AuthSession` leaves out `currentTime`, `currentUsername`, `sessionRelativeTimeoutStatus` and `fetchSWVersion`. The first three are display only: the computed `sessionRelativeTimeoutStatus` writes `currentUsername` when the page renders, and the model has no render step. `fetchSWVersion` changes no state. One hazard of this code is listed without a property. At auth.ts:145 the computed decodes the token in localStorage, not the tab's own `accessToken`. So after another tab logs in as a different user, the header shows that user's name and expiry while this tab's requests still carry its own token. That is the same mismatch the `auth_other_tab` finding shows for the checker. This is why the dashboard2 auth store stays "partly" modelled: what is left of it is display code.
- Nothing clears the flag that `logout` sets (auth.ts:87) while the tab stays logged out, although the spec says the flag self-clears. No run checks that logged-out state, because the flag only drives a cosmetic transition (spec 4.1). `ProgressFlagClearsWhileLoggedIn` checks that the flag does not outlive the next login.
- In `main.js`, the icon and plugin registration (lines 1-201, 271-280) and the fetch policies hold no state that the guard or the transport reads.
- The utilities in `vendor/utils.js` are pure functions: git URL parsing, base URLs, the colour index, humanised formatting. A unit test reaches every input class directly. For example, the random colour index `floor(random*3)+1` never gives 4. Searching a state space adds nothing to that.
- The build configuration (`nuxt.config.ts`, `vite.config.js`) has no runtime state.
