# valorant-bot in TLA+

This directory specifies the concurrent core of `valorant-bot`, a Discord bot in Go that
links Riot accounts and posts their daily shops. The specifications are translated from
the code in `src/`, checked by TLC on small instances, and proved by TLAPS where a result
should hold for every size.

- `*.tla`: the modules. `MC*.tla` give the model checker its constants,
  `PasswordFlowInv` is the inductive invariant of the largest module (the others state
  theirs themselves), and `*Proofs` hold the proofs.
- `*.cfg`: one TLC configuration per run.
- `PROJECT.json`: components, runs, mutations, the map from definitions to source lines,
  hazards, findings and theorems.

To check a run: `tlc -config PasswordFlowLocal.cfg MCPasswordFlow.tla`. To check the
proofs of a module: `tlapm PasswordFlowProofs.tla`.

## 1. The system

### Inventory

| Component | State it keeps | Operations | What makes it correct |
|---|---|---|---|
| **Password login** (`internal/authweb/captcha.go`, `server.go`) | `passwordPending`, `passwordOutcomes`, and per login a `passwordFlow` (`ctx`, `sealed`, `commitClaimed`, `cleanupRequested`, `wg`) under `Server.mu` | begin, launch, wait, cancel, expire, finalise, commit, publish, clean up | one verdict; an account only with the verdict "linked"; an accepted cancel links nothing; cleanups join everything |
| **CAPTCHA browser ownership** (`captcha_launch.go`, tail of `captcha_riot_browser.go`) | `flow.browser`, `browserGeneration`, `captchaCloseFailures`, the reaper, under `flow.launchMu` | open, replace, install, close, retain, reap | one Chrome per login, always reachable by whoever must close it |
| **Second factor** (`server.go` 500-705) | `mfaPending`, per entry a `flow` with `submitMu` | open, submit, cancel, expire | only who takes the entry may link; a used code is not submitted again |
| **Remote viewer** (`captcha_remote_state.go`, `_http.go`, `_ws.go`) | grant, viewer session, relay with connection and grace generations | redeem, look up, connect, serve, disconnect, grace, cancel, expire | one viewer at a time; credentials die with the login; grace never hits a connected viewer |
| **Frame stream** (`captcha_remote_stream.go`, acks in `_ws.go`) | frame queue, published frames, acknowledgement state, pointer state, generation | capture, queue, publish, acknowledge, dispatch input, release pointer, close | frames published in order; input only against the acknowledged frame; pointer released at the end |
| **CAPTCHA challenge of the legacy widget** (`captcha.go` 625-760, `captcha_tls.go`) | challenge version, busy flag | ensure challenge, submit token, retry | one submission at a time, no stale challenge |
| **QR and legacy browser login** (`server.go` 371-503, 705-815, `riot/qr.go`, `store/store.go`) | `qrSessions`, pending rows in SQLite, outcomes | begin, wait, complete, cancel, redirect | a row is taken once; canceled logins do not link |
| **Shutdown** (`shutdown.go`) | `closed`, `lifecycleCtx`, `lifecycleWG`, list of commit-owned logins | seal, cancel, clean up, drain, retry retained browsers | ends; nothing written and no login left afterwards |
| **DevTools client** (`captcha_devtools_client.go`, `_pipe.go`) | pending commands, subscriptions | send, dispatch, subscribe, terminate | every command is answered once; termination answers all |
| **Chrome processes** (`captcha_process_unix.go`, `captcha_chrome_command_unix.go`) | process group, wait result, profile directory | start, signal, wait, remove | closing is idempotent and retryable |
| **Discord interactions** (`internal/bot/discord.go`, `discord_delivery.go`, `handlers.go`) | edit guards, second-factor guards, watcher goroutines, hints | answer commands, modals, buttons; watch a login; deliver results | a slow edit does not overwrite a terminal result; every begun login can be reached; a second factor nobody is asked for is canceled |
| **Shops and wishlist commands** (`shop.go`, `shop_nav.go`, `wishlist.go`) | pages kept for the buttons of older messages; settings and wishlists in SQLite | shops, page buttons, unlink, search, settings | no page that is not there; an acknowledged command gets its edit |
| **Scheduler** (`internal/scheduler`) | `lastWishlistDate` | hourly pass: shop posts, wishlist messages | each guild and each message once a day |
| **Skin cache** (`internal/skins`) | index per language behind one lock | load, look up | a language is loaded once; names are looked up in an index that is there |
| **Runtime** (`pkg/valorantbot`) | instance lock, deferred joins | run, stop within ten seconds | work keeps its store and session until it is joined; one process per database; failures are reported |

Riot API clients, configuration, messages, encryption, the local redirect catcher and
deployment scripts keep no shared state of their own; they appear only as outcomes.

### How the parts interact

The Discord handlers call `BeginPasswordLogin` and start a watcher that calls
`WaitPasswordLogin`. In local mode a link opens Chrome (`LaunchPasswordCaptcha` ->
`ensureCaptchaLaunched`), and a *browser worker* per window drives Riot's page until it
has tokens, a second factor or an error. In remote mode a viewer redeems a one-time
grant, connects a WebSocket, and the first connection starts a *relay*, which launches
the same Chrome and streams it. Workers finish a login in steps (claim the finalisation,
close Chrome, claim the commit, store the account, publish), each a separate critical
section of `Server.mu` with slow calls in between. Cancel, TTL, viewer expiry, disconnect
grace, protocol violations and shutdown all give logins up through
`claimPasswordStateCleanupLocked` and `finishPasswordStateCleanup`, which join the
login's goroutines. A login that needs a second factor hands over to an entry of
`mfaPending`, which the Discord modal submits to.

### What is hard

Everything above runs in goroutines that share `Server.mu` for short sections only. The
hazards (in full in `PROJECT.json`, each at its line) come down to: state read before a
slow call and used after it; two finishers of one login; cleanups that wait for
goroutines that wait for them; a commit that cannot be undone against a cancel, a TTL or
a shutdown; timers that fire while they are being stopped; and external calls (Chrome,
Riot, SQLite) that fail half way.

## 2. Plan

| Order | Module | Models | State |
|---|---|---|---|
| 1 | `LoginPromise` | abstract: what a login promises | done |
| 2 | `PasswordFlow` | password login, browser ownership, shutdown | done, safety and refinement proved |
| 3 | `MFAFlow` | second factor | done, safety proved |
| 4 | `RemoteViewer` | grant, session, connection lease, grace, relay | done, safety proved |
| 5 | `FrameStream` | capture, queue, acknowledgements, input, pointer release | done, safety proved |
| 6 | `DevToolsClient` | command correlation, blocked writes, session recovery, termination | done, safety proved |
| 7 | `Interactions` | edit guards, watchers, ambiguous delivery, handler shutdown | done, safety proved |
| 8 | `PendingAuth` | QR and legacy browser login, pending rows, rollback, crash | done, safety proved |
| 9 | `Runtime` | start, stop, join and close order of the process, instance lock | done, safety proved |
| 10 | `Shops` | commands that share the skin index and the pages of old messages | done, safety proved |
| 11 | `Daily` | hourly passes, settings, wishlist messages, restarts | done, safety proved |
| 12 | `BrowserReaper` | the reaper's budget and hand-over, close failures | next |
| 13 | `CaptchaChallenge` | challenge versions, submissions, retries of the legacy widget | after it |

Every invariant and action property of a passing run, and the refinement, is a theorem
(section 5). Still to prove: the invariants that modules 12 and 13 will bring, and that
`Daily`'s posts are made when the settings of a guild change on the way.

Composition:

- `PasswordFlow` is shown to implement `LoginPromise`. `Interactions` uses the *same*
  `LoginPromise` as the login its handlers call (`Promise == INSTANCE LoginPromise`), so
  what is checked there holds over every behaviour `PasswordFlow` was shown to have.
- `RemoteViewer` keeps the login in one word whose changes are `PasswordFlow`'s, and
  `PasswordFlow` keeps the relay in one word whose detail is `RemoteViewer`'s.
- `MFAFlow` begins where `PasswordFlow`'s verdict is "mfa".
- `FrameStream` details the one state of `RemoteViewer` in which a connection serves: its
  `violation` is `ServeViolation`, any other end `ServeEnd`.
- `DevToolsClient` is below `FrameStream` and the browser worker: a call there returns,
  loses its page session or fails, which is what their steps choose from.
- `Runtime` sees every other part only by the work it admits and by what that work needs.

## 3. The modules

### LoginPromise and PasswordFlow

`LoginPromise` is the abstract login: open, perhaps committing, kept, decided, gone. A
commit that has been claimed cannot be given up; an account is stored exactly when the
verdict becomes "linked".

`PasswordFlow` has one variable per field the goroutines share (`pending`, `outcome`,
`sealed`, `commitClaimed`, `cleanupRequested`, `canceled`, `browser`, `generation`,
`retained`), a program counter per goroutine (`launcher`, `worker`, `relay`, `waiter`,
`canceller`, `expirer`, `janitor`, `cleanup`, `shutdown`), the environment (`overdue`,
`chrome`) and one ghost (`commits`, the accounts stored). Every action is one critical
section of `Server.mu` or `flow.launchMu`, or one slow call between two of them.

Simplifications, and why they lose nothing the properties see:

- `flow.wg` and `launchMu` are not variables: who holds them follows from the program
  counters (`Joined`, `LaunchMuFree`).
- The admission of a launch and its re-check under `launchMu` are one step; nothing
  changes a login's liveness in between that the re-check of the installation does not
  see. The context check before Chrome starts is part of the launch's failure branch.
- Closing Chrome is one step that succeeds or fails (`CloseSucceeds`, `CloseFails`);
  which of several errors made it fail is not modelled.
- The reaper appears as `RetainedClose`: a later attempt succeeds. Its budget of five
  attempts belongs to module 12.
- The ready channel is modelled by the waiter's poll, which its ticker makes possible at
  any time.
- Shutdown's cleanups run one after the other, as its loop does (`ShutdownTurn`).
- The refusal of a launch in remote mode, the viewer's ways to give a login up, and the
  legacy widget's challenge are in other modules.

### MFAFlow

One continuation and any number of submissions. `taker` names the goroutine that deleted
the entry from `mfaPending`; that is what decides who may link. A submission holds
`submitMu` in the states `Holding`; Riot's `SubmitMFA` is external and answers with
tokens, "invalid code" (which may be retried) or a failure (which may not). Results are
collapsed: "refused" stands for an expired continuation or a closed server.

### RemoteViewer

One login, its grant, any number of redemptions and connections. The generations of
`remoteCaptchaRelay` are replaced by identities: the owner is the connection whose
generation is current, and `graceHeld` says that the cancel function of a grace is set.
`remoteDone` follows from the grant and the session. `login` is one word for
`PasswordFlow`'s tables. A failed lookup of a binding can only mean that it expired
(`stale`) or was cleared, since redemption is what creates sessions. Serving is one
state: a connection ends because the viewer, the relay or the stream did
(`ServeEnd`), or because of a message no viewer sends (`ServeViolation`).

### FrameStream

One relay's stream (`captcha_remote_stream.go`), the acknowledgements and both goroutines
of a connection (`captcha_remote_ws.go` 118-511), and the viewer's script
(`captcha_remote_http.go` 246-270). Connections follow one another, the stream stays.

| Variables | Code |
|---|---|
| `capture`, `nextGeneration`, `frames`, `terminal` | the place in `runCapture`, `queueFrame` and `finish`; the fields of those names |
| `relayCause` | why the relay's context is canceled |
| `lastGeneration`, `pointerPressed` | `stream.lastGeneration`, to which input is bound, and `stream.pointerPressed` |
| `pending`, `pendingSent`, `active` | `remoteCaptchaFrameAcknowledgements` |
| `writer`, `writing` | the place in `writeRemoteCaptchaWebSocketWithAcknowledgements` and its frame |
| `reader`, `input`, `result`, `violation` | the place in `serveRemoteCaptchaWebSocket`, `DispatchInput` and `ReleasePointer` |
| `viewer` | `latestReceivedGeneration`, `decodingFrame`, `pendingFrame`, `displayedFrame`, `pointerActive` |
| `chromePressed`, `inputIgnored`, `document`, `link`, `toViewer`, `toServer` | Chrome, Riot's page and the network (external) |

`stream.nextGeneration` is also the generation of `lastOutput`, because `queueFrame` sets
both. An input passes the curtain call by call (`Arm`, `Check`, `Open`, `Dispatch`,
`Restore`), and each call may succeed, lose its page session, find the document gone, or
time out; a call that timed out may have reached Chrome all the same.

Simplifications, and what they could hide:

- A frame is its generation. Its picture, size and surface belong to it; a surface that
  changed is one of the answers of the input guard. Whether a coordinate is mapped to the
  right place is not modelled.
- The rate limit and the slots of the input fence are a nondeterministic refusal. The
  fence is never contended within a connection, and connections of one relay do not
  overlap (`OneViewer` of `RemoteViewer`), so it is not a variable.
- A pointer move is sent at once; the script merges moves, which only makes them fewer.
- Pings and deadlines do nothing but end connections (`Lose`).
- **Timing assumption.** A connection begins while the capture goroutine is not inside
  `queueFrame`: the viewer reconnects after a second (`reconnectDelayMs`), and
  `queueFrame` has no call that blocks. Without it a new connection's first frame could
  be older than the one it replays, which `AcknowledgeFrame` refuses.

Not a property, but worth knowing: a connection that takes an older frame from the queue
after it replayed the newest is closed by `prepareFrame` and reconnects; and a viewer
whose round trip exceeds the capture interval acknowledges only frames that are already
superseded, so that it may not act until the page rests. `NewestCanBeActedOn` says that it
may then.

### DevToolsClient

The client every call to Chrome goes through (`captcha_devtools_client.go`), with the
recovery of a lost page session (`captcha_riot_browser.go` 360-). A call is where it
stands in `send`; `pending` is the command table, `response` and `reported` are the two
channels of capacity one per command, `active` and `transport` what `abortWrite` and
`terminate` look at. `sessionID`, `sessions` and `dead` are numbers of page sessions in
the order Chrome attached them.

- A command is known by its call and the round it is sent in (first try, list the
  targets, attach, second try), since `nextID` is never reused. Answers may come late,
  after the call gave up; they are then dropped as in `readLoop`.
- A blocked write is a state of the writer from which only Chrome's reading or the end of
  the transport leads on. Both looks `writeLoop` and `Abort` take at each other under
  `writesMu` are actions.
- Events and `subscribe` are left out: their channel is separate, and a full one drops.
- Several calls can only wait at `recoverMu`; its waiters do not look at their contexts,
  as in the code.

### Interactions

One user's password login in Discord (`discord.go`, `discord_delivery.go`, `handlers.go`):
the modal that begins it, clicks on its button (open in local mode, cancel in remote
mode), the watcher that waits for the login, and the second factor's modals and prompts.
They all rewrite one message, `shown`; `captcha` and `factor` are the two edit guards.

- A delivery has an outcome the handler may not learn (`ambiguous`): Discord may have
  applied it or not. Every delivery therefore first lands or does not (`Land`) and then
  reports (`Return`).
- A guard's wait is bounded by the handler's context (`GuardTimesOut`).
- The login itself moves by `LoginPromise`'s actions: Riot's verdict (`LoginMoves`) and
  the TTL (`LoginExpires`); what handlers do to it (`Begin`, `Launch`, `Cancel`, the
  watcher's `Learn`) is theirs.
- What a message says is reduced to what the user can do with it: `controls` has the
  open button or the remote link, `launched` and `retry` keep the controls that were
  there, `prompt` asks for the code, the others are results.

### PendingAuth

Logins that leave a row in SQLite while they are pending (`server.go`, `store.go`):
the QR login with the handler and watcher that drive it (`handlers.go`), and the browser
login with its callbacks. A completion is `Take` (read and delete the row in one
transaction), `Prepare` (Riot) and `Commit`. A crash loses everything but rows and
accounts. `links` counts the accounts stored for a login, which `RowOwnsLink` bounds.

`BeginAuth`, `CompleteFromRedirectURL` and `WaitBrowserLogin` have no caller in the bot
besides tests, but the callback routes are mounted and rows of an earlier version may
exist; they are modelled as exported.

Both `BeginQRAuth` and `WaitQRLogin` look at `closed` when they are admitted, and at the
server again in a later critical section. Shutdown may clear `qrSessions` in between: the
session is then "unknown" to the wait (`LookUp`), which has not deferred its clean up yet,
and the row stays. `QRLeavesNothing` says what is left by what was learned: a login that is
done, failed or canceled leaves neither row nor session; one that was told "closed" or
"unknown" leaves no session, and "unknown" is told only once the server was closed or the
process has died.

### Runtime

Any number of processes of the bot on one database and one port (`bot.go`,
`instancelock.go`). `at` is the place in `Run`; its deferred functions are the phases of
`Closing` in reverse order of their `defer`. A part is none, open or sealed; what it has
admitted is in `work`. The bounded shutdown is `ShutHTTP`, `SealHandlers`, `SealAuth` and
the three results it may or may not see in ten seconds (`Join`); work that
outlives it is joined by the deferred functions. A kill (`Crash`) frees lock, store and
session at once, as the operating system does with a lock on a file.

Work obeys its context, with one exception. `/wishlist add` (`HandleWishlistAdd`,
`HandleWishlistSelectAdd`) calls `EnsureLoaded(context.Background())` on a client without
a timeout, while it holds `Cache.mu`. It is a job of its own, `wish`, which owes nobody an
end, and for which passes and interactions may have to wait. Whether the index has to be
loaded at all is left open: a `wish` may end at any time.

### Shops

Interactions of one user that share the index of skins (`Cache.mu`, `langs`) and the list
kept for page buttons (`shopPageCache`), while accounts come and go. One deadline stands
for both of a shop, `interactionCallbackTimeout` and `shopTimeout`, which have the same
length and of which the second is a child of the first. `EnsureLoaded` of the wishlist
commands has no deadline. A place for an interaction is used again.

The lists are kept for a user; of an answer only its page and number of pages matter.
`/language` and its cache are left out, so a language is chosen per interaction.

### Daily

Hourly passes of the scheduler against commands that write the same rows without a lock
(`scheduler.go`, `wishlist.go`). A command reads a guild's settings (the read may fail,
and then the defaults are taken for the row), and writes them back in a later step. A pass
lists its guilds, fetches, posts, claims the day of the wishlist messages, lists the
wishes and sends; a pass that fails in between aborts. Passes overlap, and the hour
advances at any time. The end of the process (`Exit`) loses `lastWishlistDate` and every
pass under way; it comes up again after any number of hours (`Restart`). An hour that
finds it down, its cron stopping, or its callback late (`Start` returns unless the minute
is 0) has no pass (`LoseHour`), and nothing catches up. The ghost `lost` collects the
hours of the day whose pass did not begin, failed or was cut off; besides a pass
that still runs when the day is over, they are the only excuse `PostedOnceADay` accepts. A day has `DayLength` hours. The run of the
scheduler without an hour, which only a test uses, is left out.

## 4. Runs

| Run | Instance | States | What it shows |
|---|---|---|---|
| `password_local` | one login, two windows, local mode | 128,623 | four safety properties, and the refinement of `LoginPromise` |
| `password_remote` | one login, one window, remote mode, with fairness | 35,309 | the inductive invariant of the proofs; waiters, cancels and shutdown end |
| `mfa` | two submissions, with fairness | 11,460 | its inductive invariant; only the taker links, a used code is not submitted again; submissions end |
| `pending` | one QR login, one browser login, two callbacks, one crash | 135,508 | its inductive invariant (a row, a completion and an account of one login exclude each other); what a finished QR login may leave; shutdown takes rows back; nothing is stored after the drain |
| `remote_viewer` | one redemption, two connections, with fairness | 241,183 | its inductive invariant; credentials die with the login; an abandoned login is freed, connections end |
| `frames` | two frames, two connections, one input, with fairness | 664,881 | its inductive invariant (with acknowledgements accepted and pictures in order); the button is released; the newest frame can be acted on; a connection ends with its relay or stream |
| `devtools` | two calls and the one that attaches the page, one lost page, with fairness | 627,108 | no send blocks, no answer is waited for in vain, a blocked write is watched; the session never goes back; what is canceled or closed ends |
| `interactions` | two clicks, two watchers, two submissions | 281,164 | guards exclude, one watcher, "canceled" is true; an open login is reachable; a second factor nobody is asked for is canceled; results stay |
| `shops` | two interactions, two languages, two accounts | 387,516 | its inductive invariant; pages exist; an index is loaded once |
| `daily` | one guild, two commands, two passes, one skin, days of two hours, two ends of the process | 811,270 | messages once a day; a guild whose settings rest is posted to once a day, unless the pass of its hour was lost |
| `runtime` | two processes, one kill, with fairness | 100,968 | its inductive invariant (work has its parts, parts have the lock); failures are reported; a stopped process ends, unless an addition to a wishlist never does |
| `shop_unsent` | as `shops` | | finding, see section 6 |

Each property has a mutation of the modelled code that breaks it (operators commented
`mutation:` and listed in `PROJECT.json`), so none holds by the shape of the model.

### Bounds

- `Flows` has one element: goroutines of different logins meet only in shutdown, and the
  theorems hold for any set. `MaxLaunch = 2` is the smallest number of windows with a
  replaced worker that is still running; in the remote run, where the relay launches, one
  window suffices, and both finishers (worker and relay) are present.
- Two submissions race in `MFAFlow`; a third finds what the second found.
- Two connections let a reconnection meet the grace of the first, and a second grace
  follow. A second redemption of the grant finds it spent; the theorems cover any number.
- Two frames are enough for one to be dropped, replayed or late while another is decoded,
  acknowledged or written; two connections, for a replay and a button that the first one
  left; one input, for a press that nobody releases. The theorems cover any number.
- Two calls to Chrome and a page that is lost once let two recoveries overlap, a
  recovery fail under a waiting call, and a write block while another is registered.
  The theorems cover any number.
- Two clicks, watchers and submissions give each guard a holder and a waiter, and let a
  second watcher start after the first has gone. The sets are symmetric. The theorems
  cover any number.
- Two callbacks of one login, and a crash between any two steps, are the ways a
  row could be used twice; the theorems cover any number of all of them.
- Two processes contend for the lock; a third waits like the second.
- Two interactions are one that loads and one that waits; two accounts, a list that
  becomes shorter and one that becomes empty.
- In `Daily` a day has two hours, and the clock runs from the second hour of day 0
  (`FirstHour` = 1), since a process seldom starts at midnight, to the first of day 2
  (`MaxNow` = 4): a full day lies between, with an hour that is posted in and one that is
  not, and passes that run into it and out of it. Two ends of the process (`MaxRestart`) cut off a pass and, later,
  miss an hour of the same day. The theorems cover days of any length, and any number of
  guilds, items and passes.
- `commits`, `stored` and `links` are counted, not capped: the invariants bound them.

Deadlock checking is off where a model may really stop: after shutdown every
goroutine has ended, and bounded clocks, crashes and inputs run out.

### Fairness

Weak fairness only, and only for what the bot owes:

- its goroutines are scheduled and its locks are free once their holders go on;
- time passes, so a TTL is eventually over (not in `RemoteViewer`, where the TTL is left
  free so that the liveness shown does not rest on it);
- a browser worker or a request to Riot returns once its context is canceled, and a
  relay stops once the login is sealed or the server closed;
- in `FrameStream`, calls to Chrome end (`remoteCaptchaCommandTimeout`), an open connection
  delivers, the viewer's page decodes what it got, and the capture of a canceled stream
  ends. No frame has to be captured and no connection has to be lost;
- in `DevToolsClient`, the steps of the calls and of the writer and the end of the
  transport go on. Chrome owes nothing: it need not read, answer or die;
- in `Runtime`, `Run`, its two stopping goroutines and the scheduler go on. A login ends
  once its part is sealed; a pass once its context is canceled, and an interaction once the
  handlers are sealed, each only while no `wish` is under way that could hold `Cache.mu`.
  Nothing is assumed of a `wish`, and no signal has to come. Hence the second case of
  `RunEnds`: Run waits for ever, and a `wish` is what it waits for.

Users, viewers, Discord and Riot owe nothing. In `RemoteViewer` and `DevToolsClient` one
fairness condition on the disjunction of the program's own steps is enough, because every
goroutine is finite; it is weaker than fairness of each goroutine, so what it shows is
stronger.
`PendingAuth`, `Interactions`, `Shops` and `Daily` are checked for safety only: what they
wait for ends by deadlines that another module has, or by a user.

## 5. Proofs

Every theorem holds for every value of the constants: any number of logins, windows,
submissions, callbacks, connections, frames, calls to Chrome, lost pages, clicks, watchers,
interactions, guilds, passes and processes, and a day of any length.

| Module | Proofs in |
|---|---|
| `PasswordFlow`, and that it implements `LoginPromise` | `PasswordFlowProofs` |
| `MFAFlow`, `PendingAuth` | `LinkProofs` |
| `RemoteViewer`, `FrameStream`, `DevToolsClient`, `Interactions`, `Runtime` | `RemoteViewerProofs` and so on |
| `Shops`, `Daily` | `ShopsDailyProofs` |

`LinkProofs` and `ShopsDailyProofs` extend two independent modules each; that is why the
names of `MFAFlow` and of `Daily` carry a prefix (`MFASpec`, `DailySpec`).

**PasswordFlow.** None of its safety properties is inductive: each speaks of one
goroutine and holds because of what the others can no longer do. `PasswordFlowInv`
collects what they can no longer do, login by login: the three tables agree and an entry
leaves them only by a claimed cleanup (`InvEntry`); one launch or one finalizer holds
`launchMu` (`InvLaunchMu`); the one Chrome that exists belongs to a launch under way or to
the flow (`InvBrowser`); a claimed commit has its worker and its account count
(`InvCommit`); a cleanup that closed the browser leaves nobody who could open one
(`InvCleanup`); what was answered agrees with the store (`InvAnswers`); shutdown owns what
it left (`InvShutdown`). One lemma per action shows that it preserves this and leaves other
logins untouched. From it follow `CanceledNeverLinks`, `CommitsOnce`, `WaiterToldTheTruth`,
`CommitIsProtected`, `FinalizerOwnsFlow`, `ChromeIsReachable`, `CleanedUpForGood`,
`ShutdownSettles` and the action property `NoCommitAfterShutdown`.

*The refinement* (`Refinement`, `Spec => KeepsPromise`). Most actions are quiet: what is
shown of each login stays the same (`LooksTheSame`), a stutter. The others are `Begin`,
which opens; the claim, store and publication of a commit (`CommitPromise`); `Publish`,
which decides; and the claimed cleanups of cancel, waiter, TTL, janitor and shutdown
(`ClaimPromise`, `SealPromise`), which retire. Here the invariant is needed: that a
claimed commit keeps its entry and no verdict is published beside it, and that an account
is stored only between the claim and "linked", are facts about other goroutines.

**MFAFlow.** The proof uses `submitMu` as a mutex, and "its holder is the taker once it has
consumed the entry" as the core of the invariant. `TakersJoin` is proved as well.

**RemoteViewer.** The invariant has three parts: a session belongs to the one redemption
of the grant and a relay outlives its session only canceled (`InvCredentials`); a cleanup
has ended the login and is over only after the relay (`InvCleanup`); the lease is owned by
the connection inside, and a grace that can still act is held, or is being joined by the
connection that canceled it (`InvLease`). The last is why a reconnection that races with a
firing timer is safe.

**FrameStream.** An acknowledgement is on its way only if its picture was sent in full
(`InvWire`), and a picture that was sent in full is either superseded or the pending one
(`InvAcks`); since the replay starts a new connection no further back than input is bound
(`InvQueue`), binding cannot fail either, and `HonestAcksAccepted` follows. `InvPointer`
says who knows of a button that is down while calls fail; `PointerReleased` is its last
case. `TeardownSparesLogin` is an action property: `finish` publishes its cause before it
cancels, so a canceled call of a stream that has ended finds the cause.

**PendingAuth.** The core is an exclusion: per login at most one of a row, a completion
under way and a stored account (`RowOwnsLink`), because `Take` deletes what it read in the
same transaction. `QRPhase` says per place of a QR login which of row and session it has;
`BegunBefore` and `RowsAreKnown` tie rows to what was begun, over crashes. A server that
closed has no sessions, so a wait that looks them up afterwards leaves, whatever its row.
`StaysDrained` says that nobody enrols in the lifecycle group once it was found empty
after the seal, which gives `NoLinkAfterShutdown` and, with the list of browser sessions,
`ShutdownRollsBack`.

**Runtime.** `Phases` says, for each place in `Run`, which of lock, store and session it
holds and which work may be under way. Work has its parts because a part is
sealed and joined in an earlier phase than the one that closes what it needs; `Report`
follows what is known of the end of a run until `Run` returns it.

**Shops.** The lock on the index has one owner, the interaction in `loading`; an
interaction that passed `EnsureLoaded` has its language loaded, and nothing unloads one.

**DevToolsClient.** "No send blocks, no answer is waited for in vain, a blocked write is
watched" is not inductive, because an answer, the end of the transport and a cancel each
take a command from the table on their own. The strengthening says what each of them may
conclude: a command is in the table exactly until its channel is filled, and between two
commands a call's channels are empty (`TableKnowsCalls`); the writer's request belongs to
a call that still waits for its report, or that ended for a reason that stops the write
(`RequestHasCall`); a call has one command at Chrome, so no answer is taken for that of an
earlier command (`OneCommandAtChrome`); and a session that a call was granted but has not
stored is not older than the one in use (`GrantsAreNew`), because one call at a time holds
`recoverMu` through its recovery. The last gives `SessionNeverGoesBack`.

**Interactions.** All handlers rewrite one message, so the invariant follows what is on it.
A guard with a result is not taken again (`ResultIsFinal`). Of the watchers one takes the
second factor from the login, for good (`PromptOnce`), and the factor is answered only
after that watcher's edit may have shown the prompt, which leaves no other handler of the
login an edit (`PromptIsOut`); hence `ResultStays`: only `Land` changes the message, and a
handler about to land over a result would have to hold a guard it cannot have.
`OpenLogin` says of a login that is open what its modal, clicks and watchers may have done,
from which `OpenLoginReachable` follows; `UnshownFactorCanceled` is proved together with
the invariant. The code starts a goroutine for each watcher, the model takes one
from a set; `InteractionsAssumption` makes the set large enough that no click lacks one.

**Daily.** `ClaimsAreKept`: the days that are claimed never go back while the process
lives, so a day has one pass, and whoever tells of a day holds its claim; `OncePerDay`
follows from what has been told. `PostsAreDue` and `NoneIsMissed` say what a pass of today
posts to, has posted to or has lost, of guilds whose settings have rested all day.
`PostedOnceADay` speaks of the step on which a day ends: each hour of it then lies behind
the clock (`LastHour`), so the hour of a guild that rested has had its pass or is in
`lost`, and no two hours of one day are that hour. The arithmetic of days and hours is
proved for a day of any length. These parts of the invariant stand in `ShopsDailyProofs`
(`DailyInv`); the run checks the two properties that follow from them.

Assumptions: `PasswordFlowAssumption` (at least one window), `FrameStreamAssumption`
(bounds are natural numbers), `DailyAssumption` (a day has an hour, the default hour is one
of them, bounds are natural numbers), `InteractionsAssumption` (also: at least one watcher,
and no fewer watchers than clicks), `MFAFlowAssumption`, `RemoteViewerAssumption`,
`DevToolsAssumption`, `PendingAuthAssumption`, `RuntimeAssumption` and `ShopsAssumption`
(the names of goroutines, logins and processes differ from each other and from the model's
own strings; bounds are natural numbers). TLC evaluates all of them.

Model-checked only: liveness under fairness, which is out of the prover's reach
(`WaiterReturns`, `CancelReturns`, `ShutdownEnds`, `SubmissionEnds`, `RunEnds`,
`AbandonedLoginFreed`, `ConnectionsEnd`, `EverythingEnds`, `NewestCanBeActedOn`,
`ServingEnds`), and the run that refutes `ShopEditFires`.

## 6. Findings

`shop_unsent` is a run that TLC refutes. The comment at `discord.go:915` says that
`shopTimeout` bounds the fetch of a shop "so the deferred interaction edit always fires
instead of hanging forever on a stuck upstream request". `shopTimeout` and
`interactionCallbackTimeout` are both 45 seconds, the second starts earlier and is the
parent of the first: when a stuck fetch is cut off, the context the edit is sent with is
over too, and `deliverInteraction` sends nothing. The user's message keeps "thinking".

Observations made while modelling, which no run states:

- An edit that shows the success of a second factor and whose answer is lost returns an
  error, so its guard does not become terminal (`discord.go:594`); a modal opened earlier
  may then overwrite the success with "expired".
- `Shutdown` can return while a login that was canceled from Discord still closes its
  Chrome: that cleanup is not counted by `lifecycleWG` (`captcha.go:234`, `shutdown.go:14`).
- If the TTL passes during a commit whose cancel was refused, the cleanup it requested can
  collect the verdict before the waiter polls, which then reports an expired session
  although the account is linked (`captcha.go:291`).
- A canceled wait during a commit does not claim the state, as the comment above it says
  it does (`captcha.go:269`, `303`); a verdict is published afterwards and collected by
  the TTL.
- The disconnect grace also starts after the server closed the connection because the
  challenge was solved (`captcha_remote_ws.go:303`); a worker that takes longer than the
  grace loses its login.
- A pointer message read between a worker's claim and the close of the connection is
  dispatched with a canceled context and can count as a violation
  (`captcha_remote_ws.go:372`).
- The day of the wishlist messages is claimed by the clock at the claim: a pass that runs
  over midnight claims the new day. `lastWishlistDate` is in memory, so a restart repeats
  that day's messages. A message that fails loses the rest of that day's.
- A failing read makes `HandleChannelTimeSelect` write an empty channel and
  `HandleChannelSet` reset the hour; and each can overwrite what the other wrote.
- An addition to a wishlist loads the skin index with `context.Background()`
  (`wishlist.go:29`, `127`) over `http.DefaultClient`, inside a callback that
  `interactionCallbackTimeout` is said to bound (`discord.go:901`). If the answer does not
  come, nothing ends it: `Run` joins the handlers without a deadline, keeps the store and
  the lock, and does not return. Whoever else needs the index, a pass too, waits for
  `Cache.mu` without looking at a context. This is the second case of `RunEnds`.
- A process that is down, or late, at the first minute of an hour loses the posts of that
  hour for the day: there is no catch-up (`scheduler.go:192`).
- A shutdown between the admission of `WaitQRLogin` and its look at `qrSessions`
  (`server.go:435`, `441`) makes it return "unknown or expired QR session" rather than
  `ErrServerClosed`; the user reads a general failure, and the row stays.
- A second callback for a login publishes its failure over a success that nobody has
  collected yet. `auth_pending.expires_at` is never read. `BeginQRAuth` leaves its row when
  it finds the server closed. A QR login whose image cannot be encoded is begun, and
  nobody waits for it (`handlers.go:84`).

## 7. Not modelled

- **Pages and formats.** DOM scripts inside `RunRiotLogin`, HTTP formats and parsing,
  cookies and origin checks, pictures and geometry, embeds and wording, the parsing and
  matching of skin names. They have no state of their own that others share; their
  outcomes are nondeterministic choices where a component uses them.
- **The operating system.** Process groups, signals, files, SQLite's own behaviour. Their
  success and failure are choices.
- **The reaper's budget and its hand-over** (`captcha_launch.go` 1219-1345) and the
  **legacy widget's challenge** (`captcha.go` 625-760): rows 12 and 13 of the plan.
- **Deadlines as durations.** A deadline is an event that may come at any time. That two
  deadlines are over together is modelled where it matters (`Shops`).
- Riot API clients, configuration, messages, encryption, the local redirect catcher,
  network helpers and deployment have no shared state.
