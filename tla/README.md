# Formal models of ClawLoops

TLA+ models of ClawLoops, the TLC runs that check them on small instances and the
TLAPS proofs that hold for every instance.  The models are translated from the
source; each comment names the code it stands for, and `PROJECT.json` maps every
definition to its lines.  Paths below are relative to the repository.

## 1. The system

`infra/compose/docker-compose.yml` runs one process each of clawloops-api (FastAPI,
one uvicorn worker, SQLite), runtime-manager (FastAPI, owns the Docker socket),
LiteLLM, the web client behind Traefik; all restart unless stopped.

| Component | State | Operations | Talks to |
|---|---|---|---|
| **runtime-manager executor** `services/runtime-manager/app/services/runtime_executor.py`, `config_writer.py` | none of its own: Docker's containers (by label), the config and workspace directories | ensure_running, stop, delete, get_state, file access | Docker, file system; called by the API over HTTP |
| **runtime service and handlers** `apps/clawloops-api/app/services/runtime_service.py`, `api/v1/{runtime,users,workspace,admin}.py` | the user's row, the runtime binding (SQLite), the task table (memory) | start, stop, delete, status, workspace entry, disable and enable a user | runtime-manager (45 s timeout), model gateway |
| **sessions and authentication** `api/v1/auth.py`, `core/auth.py`, `core/sessions.py`, `repositories/session_repository.py` | users, sessions (only hashes) | login, logout, change password, me, seed of the first administrator | every handler, through its dependencies |
| **invitations** `api/v1/invitations_public.py`, `api/v1/admin.py`, `repositories/invitation_repository.py` | invitations, users | create, preview, accept, revoke, resend | users, sessions |
| **models and provider credentials** `services/model_service.py`, `repositories/model_repository.py`, `api/v1/admin.py` | models, bindings, credentials, usage | administrator's CRUD, user's model list | LiteLLM |
| **internal API** `api/v1/internal.py` | the same database | sync user, access gate, ensure/upsert/patch binding | no caller in the repository |
| **files** `api/v1/files.py` | none | list, read, write, upload through the runtime-manager | runtime-manager |
| **web session, guards and routes** `apps/clawloops-web/client/src/contexts/AuthContext.tsx`, `components/guards/RouteGuard.tsx`, `App.tsx`, `pages/{Login,ForcePasswordChange}.tsx` | boot state, user, location of a tab | bootstrap (me, then access), redirects, login, forced change, logout | sessions and authentication |
| **workspace entry page** `pages/WorkspaceEntry.tsx` | page state, one timer, one start time per visit | poll, give up, refresh, open a tab | `/workspace-entry` |
| **dashboard** `pages/Dashboard.tsx` | status card, lock of its buttons, delete dialog | read the status, start, stop, delete, poll a task | runtime handlers |
| **administration pages** `pages/admin/*.tsx` | rows shown, loading, error, one busy slot, a confirmation | load, act on a row, reload | `api/v1/admin.py` |
| **file browser** `pages/FileBrowser.tsx` | directory, listing, the file in the editor | list, read, save, create, upload | `api/v1/files.py` |
| **invitation page** `pages/Invite.tsx` | page state, reason, form | preview, accept, go to the workspace | invitations |
| **debug collector** `client/public/__manus__/debug-collector.js`, the plugin in `vite.config.ts` | three bounded buffers, three log files (development only) | log, report, put back, beacon, trim | itself |
| **text fields and dialogs** `hooks/useComposition.ts`, `components/ui/{input,textarea,dialog}.tsx` | whether an input method composes | composition events, timers, keys | each other |
| **rest of the web client** | none of their own, or vendored components | rendering | |
| **drift detector** `services/runtime-manager/app/services/drift_detector.py` | none | detect_drift | never called |
| **scripts, one-click installer, compose, LiteLLM, vendored UI** | | | not modelled: configuration or third-party code |

### What is hard here, and what must hold

* *runtime-manager.*  Handlers are plain functions in a thread pool, without a lock:
  two requests for one runtime interleave at every Docker call, and the container one
  of them holds may be removed, paused or restarted under it.  It must answer every
  request, answer truthfully, and not multiply containers.
* *runtime service.*  `async def` handlers with synchronous bodies: bodies never
  overlap, but the checks of their dependencies run earlier, in threads.  A call may
  time out while the other side goes on; every repository call commits alone; tasks
  live in memory.  One operation at a time, no lock-out, the recorded state true or
  marked as an error, one container per user, a disabled user without a container.
* *sessions.*  Verdicts taken in a dependency and used in a later body; expiry at the
  boundary; sessions that outlive a password change, a logout, a disable.
* *invitations.*  Accepting writes user, invitation and session in three commits; a
  crash between two, a revocation against an acceptance, two acceptances of one link.
* *web client.*  No request is cancelled and none is ordered.  A poll in flight when
  polling stops, two bootstraps at once, an action begun while another is confirmed, a
  listing that arrives after a later one, a text that arrives after another file was
  opened, an acceptance whose answer is lost, a report that fails after the next was
  sent.  Guards must neither loop nor hang, locks must come back, a page at rest must
  show what the API holds, and nothing may go to the wrong place: a tab, a text, a key.

## 2. Modules

| Module | What it models | Checked by |
|---|---|---|
| `RuntimeManager` | the executor over the containers of one runtimeId; one action per Docker or file-system call of a handler | `rm_*` |
| `RuntimeService` | extends it with the API's side for one user: admission, handler bodies, binding, tasks, administrator, failures of either process | `svc_*` |
| `RuntimeLifecycle` | the abstract specification: operations one at a time, each ending with its target or "error" | refined in `svc_timeouts` and proved |
| `Invitations` | creating, revoking, previewing and accepting invitations, with the three commits of an acceptance and what may cut it off | `inv_*` |
| `SingleUse` | the abstract specification of a link: open, used by one person at once, or withdrawn | refined in `inv_single_use` and proved |
| `WebSession` | one tab's session: bootstraps, guards, the forms that change who is signed in, against the API's sessions | `web_session` |
| `EntryPage` | visits of the workspace entry page and the chains of polls they start | `web_pages` |
| `Dashboard` | the runtime card, its buttons, the polling of tasks | `web_pages` |
| `AdminPages` | the eight pages of the administrator: loads, confirmations, actions, reloads | `web_pages` |
| `FileBrowser` | listing, editor, saving, creating, uploading | `web_pages` |
| `InvitePage` | preview and acceptance as the page sees them, against the link | `web_pages` |
| `DebugCollector` | buffers, reports, log files | `web_pages` |
| `Composition` | a text field of a dialog under an input method | `web_pages` |
| `RuntimeManagerProofs`, `RuntimeServiceProofs`, `InvitationsProofs`, `WebSessionProofs`, `WayInProofs` (InvitePage and EntryPage), `ButtonsProofs` (Dashboard and AdminPages), `FileBrowserProofs`, `EveryPageProofs` (Composition and DebugCollector) | theorems | TLAPS |
| `MCRuntimeManager`, `MCRuntimeService`, `MCWebPages` | the symmetry, and the pages side by side, for TLC | |

Every definition whose name carries a suffix (`EnsureList_RunningOnly`) and whose
comment starts with "Mutant" is not part of a model: it is the form a plausible bug
would give to the definition that follows, kept to show that the property it breaks is
about that code.

### RuntimeManager

`containers` is Docker's status of each container ("absent" when there is none),
`attached` the containers on the runtime network, `config` whether `openclaw.json`
exists, `job[j]` the request thread `j` serves: its operation, the next call (`at`), the
container it holds (`on`), the status of the listing (`seen`) and its answer.
`Listing by label` makes different runtimes independent, so one is modelled.

| Code | Action |
|---|---|
| `ensure_running`: prepare and write config | `EnsurePrepare` |
| `_list_managed`, first of the list | `EnsureList` |
| reload, choice on the status | `EnsureInspect` |
| start an existing container / remove an unexpected one | `EnsureBoot` / `EnsureDiscard` |
| pull and create / connect / start and check | `EnsureCreate` / `EnsureConnect` / `EnsureFirstBoot` |
| remove a container that did not start | `EnsureCleanup` |
| container_ip, `_wait_ready` / browser URL and answer | `EnsureReady` / `EnsureReport` |
| `_get_single_container` (more than one: conflict) | `LookupConflict`, `StopLookup`, `DeleteLookup`, `GetLookup` |
| stop / remove / wipe / second inspection of get_state | `StopAct` / `DeleteAct` / `DeleteWipe` / `GetReport` |
| an exception of a call | `EnsureRaises`, `ListRaises`, `CallRaises` |
| the container changes by itself / the service restarts | `Drift` / `RMCrash` |

A call on a container that another request has removed always raises (Docker's
NotFound); with the fault "docker" any call may.  Docker hands out ids it has never used:
`FreshIds` takes one that neither exists nor is held by a request.  When none is free
(a bound of the instance only) the job waits, and its other outcome is the exception.

### RuntimeService

One user, hence one binding and one runtimeId: nothing in these handlers relates two
users.  `loop` is the body the event loop executes ("idle", "serve" between the commit of
a disable and its stop, "call" while the runtime-manager call is under way), `request`
the requests whose dependencies have run and whose body has not, `binding` and `user` the
rows in the database, `tasks` the table in memory; ids of ended tasks are used again.
`Admit` is `require_active_user`; `BeginService`/`Dispatch` are the bodies of start, stop
and delete up to the call, `FinishOk`, `FinishFailed`, `FinishUnrecorded` their three
ways out; `BeginStatus` and `FinishStatus` are `/runtime/status` and `/workspace-entry`,
whose reconciliation is the same code; `AdminDisable`, `ServeDisable` and `AdminEnable`
are `update_user_status`.  A timed-out or restarted API leaves its thread at work; `Reap`
is the end of such a thread.  "wipe" is a delete with `wipe_workspace`.

### Invitations

`invitation[l]` is the row of a link, `account[n]` the origin of the account with
username `n` (the link it was created through, or the seed), `sessions` the sessions
accepting opened, `loop` the handler body under way, `answer` the last answer.
Handlers are `async def` with synchronous bodies, so a body is never interleaved with
another; an acceptance is still three actions because it may be cut off between its
commits (`Abort`, enabled by the constant `Aborts`).

| Code | Action |
|---|---|
| `_ensure_seed_admin`, called by login | `SeedAdmin` |
| `create_admin_invitation`, `revoke_admin_invitation` | `AdminCreate`, `AdminRevoke` |
| the clock passes `expires_at` | `Expire` |
| `preview_invitation` | `Preview`, with `PreviewVerdict` |
| early returns of `accept_invitation`, in their order | `AcceptRefused`, over `Checks` |
| consumed already: same user / somebody else, or a taken username | `AcceptReplay` / `AcceptTaken` |
| first use: save of the user | `AcceptFirst` |
| `consume_idempotent` and the check of its result | `Consume`, with `Consumed` |
| session, cookie, answer | `OpenSession` |
| a commit fails, the process restarts | `Abort` |

`resend_admin_invitation` changes nothing.  The branch that gives a password to an
existing user without one is not modelled: such users come from the internal sync,
which gives no username, so no username finds them.  `consume_idempotent` itself refuses
consumed and revoked rows; `RecordStillCurrent` shows that those branches are never
reached by its one caller, and that this hangs on the handlers sharing the event loop.

### The web client in general

A handler of the client runs to its next `await` in one turn, so an action is one such
piece.  A request has three steps: it is sent (by a handler), answered by the API (`Serve`:
the answer is computed from the API's state at that moment, or is lost) and takes effect
(`Apply`, `Done`, `Shown`).  Whatever happens between the last two makes an answer stale.
React's state setters of one turn take effect together.  An effect with a dependency
(`currentPath`) runs with the change it depends on.  The API is reduced to what the answers
tell apart; the detail of the runtime's and of the invitations' handlers is in the modules
above.  Variables marked "history" record what a property excuses (an overlap, a
timeout); no guard reads them, except counters that bound a run.

### WebSession

`open`, `must`, `disabled` are the API's (an account has one session: a second one of the
same account adds nothing a guard can see), `cookie` the browser's, `boot`, `user`, `path`
the tab's.  `call[c]` is a bootstrap under way: the request it waits for, the session it was
sent with, the answer, and the page its caller goes to afterwards (`goal`).  `seen` holds
the accounts the answers since the document was loaded were about.

| Code | Definition |
|---|---|
| `RequireAuth`, `RequireAdmin`, `RequireForcePasswordChange`, `RedirectIfAuthenticated` | the operators of the same names; `Guard` is the routing table, `Arrive` follows its redirects |
| `bootstrap`: `me()`, then `access()` | `Serve`, `ApplyMe`, `ApplyAccess` |
| `handleSubmit` of login and of the change, `refresh()` | `SubmitLogin`, `SubmitChange`; `LoginOk`, `ChangeOk`, `ChangeSignedOut`, `Refused`, with `Refresh` |
| acceptance of an invitation and its timer | `SubmitAccept`, `AcceptOk`, `AcceptNavigates` |
| `logout`: the request; `setUser(null)` and the rest; the load of `/login` that it asks for | `Logout`, `ServeLogout`; `LogoutDone`; `Unload`, with `Load` |
| expiry, disabling, another tab | `Elsewhere` |

`window.location.href` only asks for a navigation: between `LogoutDone` and `Unload` the old
document runs on, and the answers of its bootstraps still take effect.

### EntryPage

`chain[c]` is a chain of polls (request, answer, timer, request, ...) of a visit;
`latest[v]` is the timer `pollingRef` holds, `age[v]` the time since `startTimeRef`.
`startPolling` is `StartPolling`, `stopPolling` is `StopPolling` (it clears the one timer
remembered, and cannot stop a request), `tick` is `TimerFires`, `loadEntry` is `EntryReady`,
`EntryNotReady`, `EntryStops` or `EntryDisabled` by the answer; `Enter`, `Leave` and
`ManualRefresh` are the effect, its cleanup and the button.  `loose` records visits that
were left or refreshed in the middle of a request.

### Dashboard

`loadRuntimeStatus` is `Refresh`, `ServeStatus`, `ApplyStatus`; `handleStart`, `handleStop`,
`handleDelete` are the actions of those names, `startPolling` is `PostAccepted`,
`PollSeesEnd` or `PollTimesOut`, `PollingDone`.  `act[o]` is an action with its task,
`observed` what the API would answer now.  The API runs the task before it answers the post
(`RuntimeService`), hence `ServePost`, whose `Outcome` is that of a task that succeeds or
fails; refusals, lost answers and timeouts are `PostFails`.  `StatusMoves` is everything that
changes the status without this page: a container that exits or comes back and is reconciled
by a read, an administrator, another tab, a post the page gave up on.  It may happen at any
moment, and the page is not told.

Two history variables excuse.  `crossed`: a poll went unanswered for 90 s (the buttons come
back although the task may run), or an action was begun beside a posted delete whose dialog
was dismissed (its button locks nothing before the answer).  `card` follows what the page owes
its person: "owed" from the moment an action is over until an answer given after that is
shown, "excused" when the answer to the post or the action's own read was lost, or when an
older answer overwrites a newer one.  Overlaps, refreshes and timeouts excuse nothing.

### AdminPages

`rows` is what the API holds and `shown` what the page does, one value a row.  `slot` is
`patchingUserId`, `actionLoading` or `updatingId`: one for the page, whichever row.
`RefreshPage`, `ServeLoad`, `ApplyLoad` are the `load...` functions by button or effect;
`AskConfirmation`, `Dismiss`, `Confirm` the dialogs; `Click` the buttons that act at once;
`ActionDone`, `ActionFails`, `ReloadDone` the rest of every handler, with its `finally`.
`Effect` says what a post does; where it is empty the code always fails (section 5).  The
models page merges the answer to an update into its rows and does not reload
(`AdminModels.tsx:62-75`).  The user's page loads the runtime by itself as well
(`AdminUsers.tsx:292-311`, at 321 and 328), beside the user and with its own flag; what it
answers is read by nothing but the card, and it is left out.

### FileBrowser

A text is named by the file it was read from, typed or uploaded for: all that matters is
that it stays there.  `loadFiles`, `readFile`, `saveFile`, `createNewFile`,
`handleFileUpload` are the actions of those names and `FilesListed`, `FileRead`, `FileSaved`,
`FilesAdded` their continuations; `ServeFiles` is the API with the runtime-manager behind it,
whose answer may be lost after it took effect.  The container's own processes write and delete
as they like, so a listing may name any set of files of its directory.  What a listing shows,
names and sizes alike, is therefore abstracted to when it was read: `old` marks an answer that
was read before the page added a file there, and `listing` follows what the page owes: "owed"
from a change of directory, a refresh or an addition until a listing read after it is shown,
"excused" when an error said that it failed, or when another directory's or an older answer
arrives after it.

### InvitePage

`link` is the invitation, `fly` the request under way, `view` the page state.  `PreviewCode`
and `AcceptCode` are the verdicts of `invitations_public.py`, in its order; `PreviewShown`
and `AcceptShown` what the page makes of them; `ElsewhereInvite` a revocation, the expiry, an
acceptance in another tab, an account made through another link.

### DebugCollector

`store` is the buffers, `report[r]` a report under way, `file` the log files.  Entries
are numbered as they are logged and have size one.  `reportLogs` is `ReportLogs`,
`ReportAnswered` and `ReportFails`, and `ReportThrows` when what was taken out of the buffers
cannot be turned into JSON; the plugin's `handlePayload` and `writeToLogFile` are `ServeReport`
and `WriteToLogFile`, in which any trim may fail, as the code ignores its errors (`untrimmed`
holds the files whose last one did); `beforeunload` is `BeforeUnload`: the page `Leaves`, or
the person `Stays` and the buffers are as they were.  `spoiled` and `doubled` record what
loses entries and what reports them twice.

### Composition

`native` is what the browser's events say, `composed` the flag of `useComposition`,
`composing` and `justEnded` the dialog's two references, `zeros`, `lates` and `ends` the
timers of 0, 100 and 150 ms that are pending.  There is no clock; the key that ended a
composition (`owed`) arrives before the timers of that end, as it does in Safari.

### MCWebPages

Pages are mounted one at a time and do not share state, so `site` chooses one and the others
stay put: the states of the pages add up and do not multiply.  Each page's own specification
is what the theorems are about.

## 3. Runs

| Run | Instance | Question |
|---|---|---|
| `rm_serial` | 2 threads that serve one request at a time (`SerialSpec`), 2 containers, all faults, drift to all four states between requests | does a successful ensure, stop or delete tell the truth about Docker and the directories, whatever failed before |
| `rm_concurrent` | 3 requests, 4 containers, a failing host, unready and dying containers, drift to exited and paused at any moment | can containers outnumber the requests served at once |
| `svc_serial` | 2 pending requests, 2 containers, 2 threads, every fault but timeout, API crash and database | does the binding agree with the host when nothing is under way; is an unwanted running container reported; can a user have two containers |
| `svc_timeouts` | every fault, drift | is the lifecycle implemented nevertheless, is no task left behind |
| `svc_liveness` | 2 clients, 1 task, fairness, timeouts, unreachable services | does every request end; is a wrong recorded state repaired by polling |
| `svc_two_containers` | timeouts only | **violation**: two containers for one user |
| `svc_disabled_runs` | no fault at all | **violation**: a disabled user's container runs |
| `inv_aborts` | 2 links, 3 usernames (one is "admin"), commits fail | who gets a session, what a revocation undoes, is the record read before the first commit current, can an invited user become "admin" |
| `inv_single_use` | the same, nothing fails, fairness | does a link bring in one account, is `SingleUse` implemented, does a named person get in by trying |
| `inv_two_accounts` | 1 link, commits fail | **violation**: a link brings in two accounts |
| `web_session` | an administrator and a user, 2 bootstraps, 1 lost answer or event elsewhere, fairness | is a forced change of password before everything, is a logout final once the login page is loaded, do guards loop, does the boot screen go away |
| `web_pages` | each page with 2 things under way, or 3 timers (below), fairness | do polls end and open one tab; do buttons lock and come back; does what an action did reach the page; do texts, entries and keys go where they belong; is a consumer ever refused |

**The violations.**  `svc_two_containers`: a start times out while its thread is still
before `containers.create`; the user starts again, the second thread lists no container
either, both create one.  From then on stop, delete and get answer
RUNTIME_ACTION_CONFLICT.  `ARCHITECTURE.md` promises at most one runtime per user.
`svc_disabled_runs`: the user's start passes `require_active_user`, the administrator
disables the user and the runtime is stopped, then the start's body runs.  The
governance test promises that disabling converges to stopped.
`inv_two_accounts`: a link without a username is accepted, the user is saved and the
commit of the invitation fails; the link is still pending, and accepting it with another
username creates a second account, against the page's "each link can be used only once".
With a username in the link the retry finds the name taken, so the person is locked out
of the page (and can log in with the password already set).

**Bounds.**  In `rm_concurrent` three threads show every interleaving of three handlers, and
four containers are what they can hold or create at once with one left to find.  Elsewhere
two threads show the pairwise ones.  Two ids of tasks are enough because at most one is
active and ended ones are reused; a second one lets a missing check show.  Two pending
requests let a request be admitted while another is served.  Times are abstracted: a timeout
may happen at any moment of a call, readiness may fail at any time.  `svc_timeouts` and the
liveness runs use one container and one or two threads to stay small; their questions do not
depend on a second container. `rm_concurrent` leaves out the fault "docker", by which any
call may raise, restarts, and drift to two of the four states, for the size of the instance
alone: with all of them, and any number of threads, the bound on containers is the theorem
`ManagerContainersBounded`. Symmetry is used in the `rm_*` runs and the `svc_*` runs without
liveness.  For invitations, two links are what two acceptances can confuse, two usernames
besides "admin" what two people can claim; times are abstracted to "expired or not",
passwords to acceptable, unconfirmed or against the policy.

For a tab, two bootstraps are what one reload and one form can have under way; two accounts
are what two people at one browser can be confused for; one loss or event elsewhere is
enough to be between any two steps (`MaxTrouble`), and the theorems need no bound.
`web_pages`: the entry page has 2 chains, 3 starts and a deadline of 2 ticks (a chain of an
earlier visit beside one of the present, and one more start); the dashboard 2 actions and 1
refresh, at most 2 together; an administration page 2 rows, 2 actions and 1 load, at most 2
together; the file browser 2 directories, 2 files and 2 requests; the invitation page 2
usernames; the collector buffers of 2, 1 and 2, files of 1 that grow to 2 at most when a
trim fails (`MaxFile`), 2 reports and 2 entries, so that a limit is reached by a put-back;
the text field 3 pending timers.  Its pages come to rest, hence `CHECK_DEADLOCK FALSE`.

**Fairness.**  In `svc_liveness` a runtime-manager thread takes its next step (Docker calls
return or raise, readiness waits end with a deadline); the event loop continues the body it
is in and takes up admitted requests (strong fairness, because bodies of other requests come
between). `RepairedByPolling` names its own condition: that polls (`WorkspaceEntry.tsx`,
`Dashboard.tsx`) are served and reach the runtime-manager again and again.  Nothing is
assumed of the administrator, of drift or of failures.  `inv_single_use` assumes that a body
runs to its end and that the person named by a link keeps submitting an acceptable password;
strong fairness, because bodies of other requests come between.  Of the pages it is assumed
that the API answers or the request fails, that the answer is handled, and that timers fire
(`EntryFairness`, `DashFairness`, `AdminFairness`, `FairSpec` of `WebSession`); people need
do nothing. That a task ends is not assumed: `LockIsReleased` holds by the 90 s limit.

## 4. Proofs

For arbitrary finite sets of containers and threads, arbitrary clients, tasks, faults, drift,
links, usernames, accounts, chains, actions, rows, files, requests, reports and limits.  The
theorems about pages are about the page's own specification (`EntrySpec`, `DashSpec`,
`AdminSpec`, `FilesSpec`, `InviteSpec`, `CollectorSpec`, `CompositionSpec`), without fairness;
`web_pages` checks the same definitions in the composition.  Every safety property a passing
run checks - invariant, action property or refinement - is stated by a theorem, and so is the
type invariant of every module that is no abstract specification.

| Theorem | Statement |
|---|---|
| `ManagerTypeCorrect` | `RMSpec => []RMTypeOK` |
| `ManagerContainersBounded` | `RMSpec => []ContainersBounded` |
| `SerialEnsure`, `SerialStop`, `SerialDelete` | `SerialSpec => []EnsureDelivers`, `[]StopDelivers`, `[]DeleteDelivers`, whatever fails and drifts |
| `ServiceTypeCorrect` | `Spec => []TypeOK` |
| `ServiceSingleFlight` | `Spec => []SingleFlight` |
| `ServiceOneRuntime` | without "timeout" and "api_crash": `Spec => []OneRuntimePerUser` |
| `ServiceReportsUnwanted` | without "timeout", "api_crash" and "db": `Spec => []UnwantedRunningIsReported`, whatever containers drift |
| `ServiceBindingMatches` | without these and without drift: `Spec => []BindingMatchesHost` |
| `ServiceImplementsLifecycle` | `Spec => LifecycleRefined` |
| `InvitationsTypeCorrect`, `SessionsBelongToConsumers`, `RecordsStayCurrent`, `AdminStaysSeeded` | `Spec => []TypeOK`, `[]SessionBelongsToConsumer`, `[]RecordStillCurrent`, `[]AdminIsSeeded`, whatever fails |
| `RevocationIsFinal` | `Spec => RevokedStaysUnused`, whatever fails |
| `LinksBringInOne` | without aborts: `Spec => []OneAccountPerLink` |
| `InvitationsImplementSingleUse` | without aborts: `Spec => LinkRefined` |
| `SessionTypeCorrect`, `RedirectionEnds`, `ForcedChangeFirst`, `LoggedOutForGood` | `Spec => []TypeOK`, `[]RedirectsEnd`, `[]ForcedChangeComesFirst`, `[]LogoutIsFinal` of `WebSession` |
| `EntryTypeCorrect`, `NoMoreTabsThanStarts`, `WaitersAreServed`, `LeavingStops` | `EntrySpec => []EntryTypeOK`, `[]OneTabPerStart`, `[]NobodyLeftWaiting`, `[]LeavingStopsPolling` |
| `InviteTypeCorrect`, `VerdictsAreTrue`, `ConsumerNotRefused` | `InviteSpec => []InviteTypeOK`, `[]VerdictIsTrue`, `OwnAcceptanceIsNotRefused` |
| `DashboardOneAction`, `DetailsOneAction` | `DashSpec => []OneActionAtATime`, `AdminSpec => []OneActionOnDetails` |
| `DashboardTyped`, `DashboardSettles` | `DashSpec => []DashTypeOK`, `[]SettledStatusIsFresh` |
| `AdminTyped`, `AdminPageSettles` | `AdminSpec => []AdminTypeOK`, `[]QuietPageIsFresh` |
| `FilesTyped`, `NoTextGoesAstray`, `ListingComesRight` | `FilesSpec => []FilesTypeOK`, `[]OwnTextOnly`, `[]ListingIsCurrent` |
| `CollectorTyped`, `CollectorIsBounded`, `CollectorKeepsEntries`, `CollectorReportsOnce` | `CollectorSpec => []CollectorTypeOK`, `[]BuffersBounded`, `[]EntriesAreKept`, `[]OncePerEntry` |
| `CompositionTyped`, `CompositionKeepsItsKey` | `CompositionSpec => []CompositionTypeOK`, `[]KeyEndsOnlyItsComposition` |

The proofs go through a summary of the executor's steps.  `StepSummary` says of any
Docker call of any handler that it does one of four things to the set of containers:
keeps or shrinks it, adds one for a job that was to create one, decides to create one
because there is none, removes one in order to create another; and that an ensure that
succeeds answers "running".  What counts containers or follows answers uses only that; the
delivery properties and what rests on them look at each call.

* `ContainersBounded` counts containers and intentions to create one; the four cases
  preserve the sum, so it is inductive with the type invariant.
* `TypeOK` needs `LoopShape`: a body that is to dispatch holds an operation.
* `SingleFlight` needs `TaskOfBody`: the task a body holds is the active one, otherwise
  its end would not clear the table.
* `OneRuntimePerUser` needs `CallInv`: a thread is busy only with the call the loop
  waits for (`OneCall`), and one that is to create sees no container.  This is the
  argument that the single event loop stands in for a lock, and the assumptions on
  timeouts and restarts are exactly where it fails (`svc_two_containers`).
* The refinement needs `TaskOfBody` and `AnswerTrue`: the thread a body waits for serves
  the body's operation and says "running" when an ensure succeeds.
* The delivery properties need a request followed from its first listing (`SerialInv`).
  `Track`: the container in hand is the only one there is, there is none where one is to be
  created or the directories are to go, and a container never lacks its config.  `Steady`:
  what an ensure or a get has seen of its container is still so when it answers.  Two
  requests at once break both, drift within a request only `Steady`.
* `UnwantedRunningIsReported` needs, at rest, no more than itself, and during a call
  `Tracked`, the executor's `Track` with one thread at work: a stop or delete that succeeds
  leaves nothing running, one that fails is written down as failed.  This holds whatever
  drifts.  `BindingMatchesHost` needs `Steadied` (`Steady` of every thread) as well, because
  what it wrote down was seen a call earlier.  `Patient` (no "timeout", no "api_crash")
  makes the thread the loop waits for the only one at work; with "db" failing, an answer is
  lost between the host and the binding; drift changes the host with nobody looking.  The
  run leaves out the same.

For invitations, `LinkInv` is inductive: to the four invariants it adds what the body
under way has established (`LoopInv`: the account it created exists, the row it consumed
names it) and what the rows say of one another (`RowInv`: a pending row has no consumer, a
consumer's account came through its link, an issued link implies the administrator).
`OneInv` says that every account that came through a link has consumed it or is about to;
`Abort` is the one step that breaks it, hence the assumption of the last two theorems, and
`inv_two_accounts` shows it is needed.  In the refinement an acceptance takes effect at
its first commit: `AcceptFirst` is `Join`, `Consume` and `OpenSession` stutter.

For the tab, `IInv` says where each answer under way came from: whoever an answer of "must"
or "allowed" is about has been seen by this page load (`AnswersSeen`), was free of a forced
change when "allowed" (`AllowedIsClean`: nobody falls back into `must`), the user shown was
seen (`UserSeen`), a tab that is ready has seen an account that is clean (`ReadySeen`), and
without a cookie no bootstrap under way carries a session unless a logout has not yet loaded
the login page (`SignedOut`: the load drops what is under way, and nothing before it does).
The hypothesis of `ForcedChangeComesFirst`, that one page load is about one account, is
needed: section 5.

For the entry page, `ChainsOfVisits` ties a chain to a visit, `OneChain` says that a visit
which never was loose has one chain at most, `TimerIsLatest` that a pending timer of such a
visit is the one `pollingRef` holds.  Hence the cleanup, which clears one timer, clears all.
Tabs and live chains together never exceed the starts.  For the invitation page, a consumer
once set stays (`ConsumerKept`), a page that submits awaits an acceptance (`ViewAwaits`) and
its answer is still true when it arrives (`AnswerIsTrue`), although the link may have
changed.  For the buttons, an action under way holds the lock, or was let in by a timeout or
a delete (`Locked`), and on a details page an action under way holds the slot, while a
confirmation is open only when none is (`SlotIsTaken`).  For the files, the editor's name
and text change together (`EditorOwn`) and a save carries both (`RequestsOwn`).

A page does not forget what it has done, by one argument in two places: while the page owes
an answer, something is under way that will bring it or excuse it.  For the dashboard,
`card` is "owed" only while an action is answered, polled or read (`Pays`): a read that is
asked after the action is over brings the status, however many actions cross, and the lemmas
say that of each step, `StatusMoves` included.  For the files, `listing` is "owed" only
while a request is under way that adds a file to the directory of the path, whose handler
then lists it, or that lists it and was not read before the last addition (`Pays`);
`Remembered` also ties what is shown to the path while it is "current". For the
administration the assumption is stronger, that nobody else changes the rows: `doubt` is set
when something begins beside something else, so while it is clear at most one action or
request is under way (`AdminUnderWay`), an answer that has been given is still true, and
with nothing under way the page shows it (`Quiet`).

For the collector, a buffer and the reports that carry parts of it never share an entry
(`InMemory`), so together they hold each logged entry once at most: a failed report fits
back without pruning as long as the buffer could hold all that was logged, and nothing is
lost (`Kept`); until something is `doubled` no entry is in a file and in the buffer, or in a
file and in a report still to be served (`OnFile`).  A file is at most as long as its limit
or its last trim failed, because every write trims or marks it (`WriteKeeps`).  The lemmas
on `PruneBuffer`, joining, appending and trimming sequences without repetition are stated
for any set of entries.  For the text field, `Remembers` says that between the end of a
composition and the key that ended it the 150 ms timer is pending and the dialog's flag is
set.

Assumptions: `None` is not a container, thread or task; faults and drift states are those
the model names; containers and threads are finite sets; the assumptions named in the page
modules (sets that are not empty or disjoint, values that are not members).

Model-checked only: liveness (`EveryRequestEnds`, `RepairedByPolling`,
`NamedPersonGetsIn`, `BootScreenGoesAway`, `PollingEnds`, `LockIsReleased`, `BusyEnds`),
which the prover does not reach, and the three violations, which are about one instance each.

## 5. Observed, and not modelled

**Observed while modelling.**  Behaviour of the code that a model contains or leaves aside,
where nothing in the repository says what is meant, or where it is plain from one line, so
that no run calls it a violation.

* Session.  Two bootstraps about two accounts (somebody signs in in another tab) may mix:
  the second answer of one is paired with the user of the other (`RouteGuard.tsx:155` then
  lets the wrong home through until the next load).  An acceptance does not refresh the
  context, so a newcomer who is not yet known to the tab lands at the login page
  (`Invite.tsx:233`).  Until the browser has carried out the navigation of a logout, a late
  answer can bring a business page back (`AuthContext.tsx:128-131`).  A logout whose request
  fails leaves the person signed in (`AuthContext.tsx:125`).  `change_password` revokes the
  session it is called with and no other (`auth.py:271`).
* Invitation page.  A preview that is lost is shown as an invalid link; reloading after an
  acceptance whose answer was lost says "already used" to its own consumer; "back to login"
  while a form submits is undone 1.5 s later.  The API answers "already consumed" for a
  pending link when the username exists (`invitations_public.py:190`).
* Dashboard.  The page does not watch: a status that moves by itself is shown after the next
  refresh.  An older answer that arrives after a newer one stays (`Dashboard.tsx:511-525`).  A
  post whose answer is lost leaves the card as it was, whatever the task did.
* Administration.  PUT `/admin/models` fails for every body (`admin.py:343-349` reads fields
  that `UpdateAdminModelRequest` does not have), and so does GET `/admin/usage/summary`
  (`admin.py:431-435`), although
  `apps/clawloops-api/tests/api/test_admin_module5.py:211-223` and `248-252` assert that
  both succeed: each call fails alone, without any interleaving, so the test says more than
  a run would.  Creating a credential is refused (`apiKey` sent, `secret` required); the
  user's details expect `{runtime}` where the API answers the runtime itself (`api.ts:497`,
  `admin.py:301`); credentials are "active" here and "valid" there.  The overview shows
  built-in figures to an administrator who is signed out.  Lists have one busy slot: an
  action on a second row takes it over, and the end of the first closes the second's
  confirmation.  A change of status that fails after its commit leaves the old status on the
  page.  The error of the user's details is never cleared.
* Files.  A listing that arrives late is shown under another path.  A save changes a size that
  the listing goes on showing (`FileBrowser.tsx:92-113`, `287-290`), and what the container
  writes is not shown before the next load.  `createNewFile` empties a
  file of that name, a text that arrives late replaces unsaved edits, a partial upload is
  not listed.
* Collector.  Overlapping reports that fail come back in another order, a refusal (400)
  counts as success.  An entry that cannot be turned into JSON (a BigInt passes
  `sanitizeValue`) throws after the buffers were emptied, and all of them are lost.  A log
  file whose trim fails stays over its limit (`vite.config.ts:47-49`).  A beacon from a page
  that was not left and a report whose answer was lost are written twice.
* Text fields.  The timer of 100 ms is not cleared (`input.tsx:45`): when a composition
  began within 100 ms of another's end, Escape in Safari may close the dialog as well.
* `api.ts:625-661` (`pollWorkspaceEntry`) is not used and `PostLogin.tsx` not routed.

**Not modelled, for good.**  The text of configurations, URLs and messages; LiteLLM;
Traefik; the installer and scripts; vendored components, which only render; file access
inside containers (single exec calls without state; the file browser sees them succeed or
fail); the drift detector and the internal API, which nothing calls.

**Not modelled, and possible.**

* Several sessions of one account, the password rules and the instant of expiry
  (`expires_at <= now` for a session, `< now` for an invitation).
* `_wait_ready`'s counter of consecutive observations; merging of URL and token.
* Bindings and policies of models and the accounting of usage: single commits without interplay.
* The dashboard's list of models, the sections of the overview, the validation of forms;
  leaving a page of the administration or the file browser with a request under way.
