---------------------------- MODULE PasswordFlow ----------------------------
(***************************************************************************)
(* The life of a Riot password login: internal/authweb/captcha.go,         *)
(* captcha_launch.go (browser ownership), the tail of                      *)
(* captcha_riot_browser.go, the failure path of captcha_remote_ws.go and   *)
(* shutdown.go.                                                            *)
(*                                                                         *)
(* Every action is one critical section of Server.mu or passwordFlow       *)
(* .launchMu, or one slow call made between two of them.  The goroutines   *)
(* that race over one login ("flow") are its Discord waiter, the Discord   *)
(* cancel handler, the TTL expirer, the goroutines that open Chrome        *)
(* windows, one browser worker per window, the remote relay, the cleanup   *)
(* goroutine a commit leaves behind, and Server.shutdown.                  *)
(*                                                                         *)
(* ghost: "commits" counts the accounts written to the store for a flow.   *)
(***************************************************************************)
EXTENDS Integers, FiniteSets

CONSTANTS Flows,      \* the password logins (the keys of Server.passwordPending)
          MaxLaunch,  \* bound: how many Chrome windows one login may open
          Remote      \* is the server in remote-viewer mode?

ASSUME PasswordFlowAssumption ==
    /\ MaxLaunch \in Nat \ {0}
    /\ Remote \in BOOLEAN

VARIABLES
    pending,          \* passwordPending[f]: with or without its credentials
    outcome,          \* passwordOutcomes[f]
    sealed,           \* flow.sealed
    commitClaimed,    \* flow.commitClaimed
    cleanupRequested, \* flow.cleanupRequested
    canceled,         \* flow.ctx is canceled
    overdue,          \* pending.expiresAt has passed
    commits,          \* ghost: UpsertRiotAccount calls that stored the account
    cleanup,          \* how far the one claimed cleanup of f has come
    cleaner,          \* the goroutine that claimed it
    launcher,         \* ensureCaptchaLaunched, one call per attempt
    worker,           \* runRiotBrowserLogin, one goroutine per installed window
    browser,          \* flow.browser: the attempt whose controller is owned, or 0
    generation,       \* flow.browserGeneration, as the attempt that last set it
    chrome,           \* the windows whose process or profile still exists
    retained,         \* captchaCloseFailures[f]: that controller, or 0
    relay,            \* runRemoteCaptchaRelay
    waiter,           \* WaitPasswordLogin
    answer,           \* what WaitPasswordLogin returns
    canceller,        \* CancelPasswordLogin
    expirer,          \* expirePasswordState
    janitor,          \* `go s.cleanupPasswordState` after a commit
    shutdown,         \* Server.shutdown
    commitStates      \* its local list of commit-owned logins

\* protected by Server.mu
tableVars   == <<pending, outcome, sealed, commitClaimed, cleanupRequested>>
\* protected by flow.launchMu
browserVars == <<browser, generation, chrome, retained>>
cleanVars   == <<canceled, cleanup, cleaner>>
waitVars    == <<waiter, answer>>
downVars    == <<shutdown, commitStates>>
vars == <<tableVars, browserVars, cleanVars, waitVars, downVars, overdue, commits,
          launcher, worker, relay, canceller, expirer, janitor>>

Attempts == 1..MaxLaunch
Verdicts == {"linked", "mfa", "failed"}
Cleaners == {"waiter", "canceller", "expirer", "janitor", "shutdown"}

\* a browser worker between claimPasswordFinalization and its return ...
Committing == {"committing", "stored", "unstored"}
Finalizing == {"sealed", "rejecting", "mfa", "linking"} \cup Committing
\* ... and a launch between its two closes of launchMu
Launching  == {"opening", "opened"}

Init ==
    /\ pending = [f \in Flows |-> "absent"]
    /\ outcome = [f \in Flows |-> "absent"]
    /\ sealed = [f \in Flows |-> FALSE]
    /\ commitClaimed = [f \in Flows |-> FALSE]
    /\ cleanupRequested = [f \in Flows |-> FALSE]
    /\ canceled = [f \in Flows |-> FALSE]
    /\ overdue = [f \in Flows |-> FALSE]
    /\ commits = [f \in Flows |-> 0]
    /\ cleanup = [f \in Flows |-> "none"]
    /\ cleaner = [f \in Flows |-> "none"]
    /\ launcher = [f \in Flows |-> [i \in Attempts |-> "idle"]]
    /\ worker = [f \in Flows |-> [i \in Attempts |-> "idle"]]
    /\ browser = [f \in Flows |-> 0]
    /\ generation = [f \in Flows |-> 0]
    /\ chrome = [f \in Flows |-> {}]
    /\ retained = [f \in Flows |-> 0]
    /\ relay = [f \in Flows |-> "idle"]
    /\ waiter = [f \in Flows |-> "idle"]
    /\ answer = [f \in Flows |-> "none"]
    /\ canceller = [f \in Flows |-> "idle"]
    /\ expirer = [f \in Flows |-> "idle"]
    /\ janitor = [f \in Flows |-> "idle"]
    /\ shutdown = "up"
    /\ commitStates = {}

-----------------------------------------------------------------------------
(* Conditions the code tests.                                              *)

closed == shutdown # "up"

Begun(f)   == expirer[f] # "idle"
Present(f) == pending[f] # "absent"
Decided(f) == outcome[f] \in Verdicts

\* beginPasswordOperation, livePasswordState and claimPasswordFinalization
Live(f) == /\ Present(f)
           /\ ~sealed[f]
           /\ outcome[f] = "open"
           /\ ~canceled[f]
           /\ ~overdue[f]

\* mutation: the entry and the context are not looked at again
PublishableBlindly(f) == sealed[f] /\ ~commitClaimed[f]

\* publishPasswordOutcome and claimPasswordAccountCommit
Publishable(f) == /\ Present(f)
                  /\ sealed[f]
                  /\ ~commitClaimed[f]
                  /\ outcome[f] = "open"
                  /\ ~canceled[f]
                  /\ ~overdue[f]

\* a launch holds launchMu while Chrome starts, a worker from its claim to its return
LaunchMuFree(f) == \A i \in Attempts : /\ launcher[f][i] \notin Launching
                                       /\ worker[f][i] \notin Finalizing

LaunchesQuiet(f) == \A i \in Attempts : launcher[f][i] \in {"idle", "finished"}

\* flow.wg has no member left
Joined(f) == /\ LaunchesQuiet(f)
             /\ \A i \in Attempts : worker[f][i] \in {"idle", "exited"}
             /\ relay[f] \in {"idle", "done"}

-----------------------------------------------------------------------------
(* Steps shared by several goroutines.                                     *)

\* claimPasswordFinalization: seal and scrub
Seal(f) == /\ sealed' = [sealed EXCEPT ![f] = TRUE]
           /\ pending' = [pending EXCEPT ![f] = "scrubbed"]
           /\ UNCHANGED <<outcome, commitClaimed, cleanupRequested>>

\* publishPasswordOutcome: a verdict, unless the login is no longer publishable
Publish(f, verdict) ==
    /\ outcome' = IF Publishable(f) THEN [outcome EXCEPT ![f] = verdict] ELSE outcome
    /\ UNCHANGED <<pending, sealed, commitClaimed, cleanupRequested>>

\* claimPasswordStateCleanupLocked when no commit owns the login
Detach(f, who) ==
    /\ pending' = [pending EXCEPT ![f] = "absent"]
    /\ outcome' = [outcome EXCEPT ![f] = "absent"]
    /\ sealed' = [sealed EXCEPT ![f] = TRUE]
    /\ cleanup' = [cleanup EXCEPT ![f] = "claimed"]
    /\ cleaner' = [cleaner EXCEPT ![f] = who]
    /\ UNCHANGED <<commitClaimed, cleanupRequested, canceled>>

\* mutation: a commit does not keep its login
ClaimCleanupAnyway(f, who) ==
    IF Present(f) THEN Detach(f, who) ELSE UNCHANGED <<tableVars, cleanVars>>

\* claimPasswordStateCleanupLocked
ClaimCleanup(f, who) ==
    \/ /\ Present(f)
       /\ ~commitClaimed[f]
       /\ Detach(f, who)
    \/ /\ Present(f)
       /\ commitClaimed[f]
       /\ cleanupRequested' = [cleanupRequested EXCEPT ![f] = TRUE]
       /\ UNCHANGED <<pending, outcome, sealed, commitClaimed, cleanVars>>
    \/ /\ ~Present(f)
       /\ UNCHANGED <<tableVars, cleanVars>>

\* the claim made by who, if it made one, has been carried out
CleanupOver(f, who) == cleaner[f] = who => cleanup[f] = "done"

\* closeCaptchaBrowserLocked and recordCaptchaBrowserCloseResultLocked, when the
\* controller closes ...
CloseSucceeds(f) ==
    /\ browser' = [browser EXCEPT ![f] = 0]
    /\ chrome' = [chrome EXCEPT ![f] = @ \ {browser[f]}]
    /\ retained' = IF retained[f] = browser[f] THEN [retained EXCEPT ![f] = 0] ELSE retained
    /\ UNCHANGED generation

\* ... and when it does not: the flow keeps it and the reaper is told
CloseFails(f) ==
    /\ browser[f] # 0
    /\ retained' = [retained EXCEPT ![f] = browser[f]]
    /\ UNCHANGED <<browser, chrome, generation>>

-----------------------------------------------------------------------------
(* BeginPasswordLogin and the passing of time.                             *)

Begin(f) ==
    /\ ~Begun(f)
    /\ ~closed
    /\ pending' = [pending EXCEPT ![f] = "stored"]
    /\ outcome' = [outcome EXCEPT ![f] = "open"]
    /\ expirer' = [expirer EXCEPT ![f] = "running"]
    /\ UNCHANGED <<sealed, commitClaimed, cleanupRequested, browserVars, cleanVars, waitVars,
                   downVars, overdue, commits, launcher, worker, relay, canceller, janitor>>

Expire(f) ==
    /\ Begun(f)
    /\ ~overdue[f]
    /\ overdue' = [overdue EXCEPT ![f] = TRUE]
    /\ UNCHANGED <<tableVars, browserVars, cleanVars, waitVars, downVars, commits,
                   launcher, worker, relay, canceller, expirer, janitor>>

-----------------------------------------------------------------------------
(* LaunchPasswordCaptcha / the relay's call of ensureCaptchaLaunched.      *)

LaunchAdmit(f, i) ==
    /\ launcher[f][i] = "idle"
    /\ IF Remote THEN relay[f] = "running" /\ (\A j \in Attempts : launcher[f][j] = "idle")
                 ELSE ~closed
    /\ Live(f)
    /\ launcher' = [launcher EXCEPT ![f][i] = "admitted"]
    /\ UNCHANGED <<tableVars, browserVars, cleanVars, waitVars, downVars, overdue, commits,
                   worker, relay, canceller, expirer, janitor>>

\* mutation: the window the login owns is not closed first
LaunchReplaceWithoutClose(f, i) ==
    /\ launcher[f][i] = "admitted"
    /\ LaunchMuFree(f)
    /\ launcher' = [launcher EXCEPT ![f][i] = IF Live(f) THEN "opening" ELSE "finished"]
    /\ UNCHANGED <<tableVars, browserVars, cleanVars, waitVars, downVars, overdue, commits,
                   worker, relay, canceller, expirer, janitor>>

\* under launchMu: the login is checked again and the window it owns is closed
LaunchReplace(f, i) ==
    /\ launcher[f][i] = "admitted"
    /\ LaunchMuFree(f)
    /\ \/ /\ ~Live(f)
          /\ launcher' = [launcher EXCEPT ![f][i] = "finished"]
          /\ UNCHANGED browserVars
       \/ /\ Live(f)
          /\ CloseSucceeds(f)
          /\ launcher' = [launcher EXCEPT ![f][i] = "opening"]
       \/ /\ Live(f)
          /\ CloseFails(f)
          /\ launcher' = [launcher EXCEPT ![f][i] = "finished"]
    /\ UNCHANGED <<tableVars, cleanVars, waitVars, downVars, overdue, commits,
                   worker, relay, canceller, expirer, janitor>>

\* launcher(launchURL): a window, an error, or an error that leaves a controller
\* whose profile or process could not be cleaned up
LaunchChrome(f, i) ==
    /\ launcher[f][i] = "opening"
    /\ \/ /\ chrome' = [chrome EXCEPT ![f] = @ \cup {i}]
          /\ launcher' = [launcher EXCEPT ![f][i] = "opened"]
          /\ UNCHANGED <<browser, generation, retained>>
       \/ /\ launcher' = [launcher EXCEPT ![f][i] = "finished"]
          /\ UNCHANGED browserVars
       \/ /\ chrome' = [chrome EXCEPT ![f] = @ \cup {i}]
          /\ browser' = [browser EXCEPT ![f] = i]
          /\ retained' = [retained EXCEPT ![f] = i]
          /\ launcher' = [launcher EXCEPT ![f][i] = "finished"]
          /\ UNCHANGED generation
    /\ UNCHANGED <<tableVars, cleanVars, waitVars, downVars, overdue, commits,
                   worker, relay, canceller, expirer, janitor>>

\* the window is installed if the login is still live, else closed at once
LaunchInstall(f, i) ==
    /\ launcher[f][i] = "opened"
    /\ launcher' = [launcher EXCEPT ![f][i] = "finished"]
    /\ \/ /\ Live(f)
          /\ browser' = [browser EXCEPT ![f] = i]
          /\ generation' = [generation EXCEPT ![f] = i]
          /\ worker' = [worker EXCEPT ![f][i] = "running"]
          /\ UNCHANGED <<chrome, retained>>
       \/ /\ ~Live(f)
          /\ chrome' = [chrome EXCEPT ![f] = @ \ {i}]
          /\ UNCHANGED <<browser, generation, retained, worker>>
       \/ /\ ~Live(f)
          /\ browser' = [browser EXCEPT ![f] = i]
          /\ retained' = [retained EXCEPT ![f] = i]
          /\ UNCHANGED <<chrome, generation, worker>>
    /\ UNCHANGED <<tableVars, cleanVars, waitVars, downVars, overdue, commits,
                   relay, canceller, expirer, janitor>>

\* closeRetainedCaptchaBrowser: a retry, by the reaper or by shutdown, that works
\* (one that fails changes nothing here: its budget is module BrowserReaper)
RetainedClose(f) ==
    /\ retained[f] # 0
    /\ retained[f] = browser[f]
    /\ LaunchMuFree(f)
    /\ shutdown # "done"
    /\ CloseSucceeds(f)
    /\ UNCHANGED <<tableVars, cleanVars, waitVars, downVars, overdue, commits,
                   launcher, worker, relay, canceller, expirer, janitor>>

-----------------------------------------------------------------------------
(* runRiotBrowserLogin: the worker of the window attempt i installed.      *)

WorkerRest(f) == UNCHANGED <<cleanVars, waitVars, downVars, overdue, launcher, relay,
                             canceller, expirer>>

\* RunRiotLogin and AdoptBrowserLogin are over; launchMu is taken, a stale or dead
\* worker gives up, the owner of the window claims the login
WorkerFinish(f, i) ==
    /\ worker[f][i] = "running"
    /\ LaunchMuFree(f)
    /\ \/ /\ generation[f] = i
          /\ browser[f] = i
          /\ Live(f)
          /\ Seal(f)
          /\ worker' = [worker EXCEPT ![f][i] = "sealed"]
       \/ /\ ~(generation[f] = i /\ browser[f] = i /\ Live(f))
          /\ worker' = [worker EXCEPT ![f][i] = "exited"]
          /\ UNCHANGED tableVars
    /\ UNCHANGED <<browserVars, commits, janitor>>
    /\ WorkerRest(f)

\* the window is closed before anything is published; what Riot answered (an
\* error, a second factor, tokens) decides how the worker goes on
WorkerClose(f, i) ==
    /\ worker[f][i] = "sealed"
    /\ \/ /\ CloseSucceeds(f)
          /\ \E next \in {"rejecting", "mfa", "linking"} :
                worker' = [worker EXCEPT ![f][i] = next]
       \/ /\ CloseFails(f)
          /\ worker' = [worker EXCEPT ![f][i] = "rejecting"]
    /\ UNCHANGED <<tableVars, commits, janitor>>
    /\ WorkerRest(f)

WorkerReject(f, i) ==
    /\ worker[f][i] = "rejecting"
    /\ Publish(f, "failed")
    /\ worker' = [worker EXCEPT ![f][i] = "exited"]
    /\ UNCHANGED <<browserVars, commits, janitor>>
    /\ WorkerRest(f)

\* finishFinalizedPasswordMFA: publishes and opens the continuation unless closed
WorkerMFA(f, i) ==
    /\ worker[f][i] = "mfa"
    /\ IF closed THEN UNCHANGED tableVars ELSE Publish(f, "mfa")
    /\ worker' = [worker EXCEPT ![f][i] = "exited"]
    /\ UNCHANGED <<browserVars, commits, janitor>>
    /\ WorkerRest(f)

\* finishFinalizedPasswordAccount: prepareAccountLink fails ...
WorkerPrepareFails(f, i) ==
    /\ worker[f][i] = "linking"
    /\ worker' = [worker EXCEPT ![f][i] = "rejecting"]
    /\ UNCHANGED <<tableVars, browserVars, commits, janitor>>
    /\ WorkerRest(f)

\* ... or claimPasswordAccountCommit makes the login irrevocable, or refuses
WorkerClaimCommit(f, i) ==
    /\ worker[f][i] = "linking"
    /\ \/ /\ Publishable(f)
          /\ commitClaimed' = [commitClaimed EXCEPT ![f] = TRUE]
          /\ worker' = [worker EXCEPT ![f][i] = "committing"]
       \/ /\ ~Publishable(f)
          /\ worker' = [worker EXCEPT ![f][i] = "exited"]
          /\ UNCHANGED commitClaimed
    /\ UNCHANGED <<pending, outcome, sealed, cleanupRequested, browserVars, commits, janitor>>
    /\ WorkerRest(f)

\* commitAccountLink
WorkerCommit(f, i) ==
    /\ worker[f][i] = "committing"
    /\ \/ /\ commits' = [commits EXCEPT ![f] = @ + 1]
          /\ worker' = [worker EXCEPT ![f][i] = "stored"]
       \/ /\ worker' = [worker EXCEPT ![f][i] = "unstored"]
          /\ UNCHANGED commits
    /\ UNCHANGED <<tableVars, browserVars, janitor>>
    /\ WorkerRest(f)

\* mutation: the error of the store call is dropped
WorkerPublishLinked(f, i) ==
    /\ worker[f][i] \in {"stored", "unstored"}
    /\ commitClaimed' = [commitClaimed EXCEPT ![f] = FALSE]
    /\ outcome' = [outcome EXCEPT ![f] = "linked"]
    /\ janitor' = IF cleanupRequested[f] THEN [janitor EXCEPT ![f] = "spawned"] ELSE janitor
    /\ worker' = [worker EXCEPT ![f][i] = "exited"]
    /\ UNCHANGED <<pending, sealed, cleanupRequested, browserVars, commits>>
    /\ WorkerRest(f)

\* publishCommittedPasswordOutcome
WorkerPublish(f, i) ==
    /\ worker[f][i] \in {"stored", "unstored"}
    /\ \/ /\ Present(f) /\ sealed[f] /\ commitClaimed[f] /\ ~Decided(f)
          /\ commitClaimed' = [commitClaimed EXCEPT ![f] = FALSE]
          /\ outcome' = [outcome EXCEPT ![f] =
                            IF worker[f][i] = "stored" THEN "linked" ELSE "failed"]
          /\ janitor' = IF cleanupRequested[f] THEN [janitor EXCEPT ![f] = "spawned"]
                                               ELSE janitor
       \/ /\ ~(Present(f) /\ sealed[f] /\ commitClaimed[f] /\ ~Decided(f))
          /\ UNCHANGED <<commitClaimed, outcome, janitor>>
    /\ worker' = [worker EXCEPT ![f][i] = "exited"]
    /\ UNCHANGED <<pending, sealed, cleanupRequested, browserVars, commits>>
    /\ WorkerRest(f)

-----------------------------------------------------------------------------
(* The remote relay, which may fail the login on its own.                  *)

RelayRest(f) == UNCHANGED <<cleanVars, waitVars, downVars, overdue, commits, launcher,
                            worker, canceller, expirer, janitor>>

\* claimRemoteCaptchaWebSocket: the first viewer connection starts the relay
RelayStart(f) ==
    /\ Remote
    /\ relay[f] = "idle"
    /\ ~closed
    /\ Live(f)
    /\ relay' = [relay EXCEPT ![f] = "running"]
    /\ UNCHANGED <<tableVars, browserVars>>
    /\ RelayRest(f)

\* relay.ctx or the lifecycle is over, or the challenge was torn down
RelayStop(f) ==
    /\ relay[f] = "running"
    /\ LaunchesQuiet(f)
    /\ relay' = [relay EXCEPT ![f] = "done"]
    /\ UNCHANGED <<tableVars, browserVars>>
    /\ RelayRest(f)

\* mutation: a relay fails a login somebody else is finishing
RelayFailUnclaimed(f) ==
    /\ relay[f] = "running"
    /\ LaunchesQuiet(f)
    /\ Present(f)
    /\ Seal(f)
    /\ relay' = [relay EXCEPT ![f] = "sealed"]
    /\ UNCHANGED browserVars
    /\ RelayRest(f)

\* failRemoteCaptchaRelay, setPasswordOutcome: claim ...
RelayFail(f) ==
    /\ relay[f] = "running"
    /\ LaunchesQuiet(f)
    /\ Live(f)
    /\ Seal(f)
    /\ relay' = [relay EXCEPT ![f] = "sealed"]
    /\ UNCHANGED browserVars
    /\ RelayRest(f)

\* ... close ...
RelayClose(f) ==
    /\ relay[f] = "sealed"
    /\ LaunchMuFree(f)
    /\ CloseSucceeds(f) \/ CloseFails(f)
    /\ relay' = [relay EXCEPT ![f] = "rejecting"]
    /\ UNCHANGED tableVars
    /\ RelayRest(f)

\* ... and publish
RelayReject(f) ==
    /\ relay[f] = "rejecting"
    /\ Publish(f, "failed")
    /\ relay' = [relay EXCEPT ![f] = "done"]
    /\ UNCHANGED browserVars
    /\ RelayRest(f)

-----------------------------------------------------------------------------
(* WaitPasswordLogin.                                                      *)

WaitRest(f) == UNCHANGED <<browserVars, downVars, overdue, commits, launcher, worker, relay,
                           canceller, expirer, janitor>>

WaitBegin(f) ==
    /\ Begun(f)
    /\ waiter[f] = "idle"
    /\ ~closed
    /\ waiter' = [waiter EXCEPT ![f] = "waiting"]
    /\ UNCHANGED <<tableVars, cleanVars, answer>>
    /\ WaitRest(f)

WaitLeave(f, result) ==
    /\ answer' = [answer EXCEPT ![f] = result]
    /\ waiter' = [waiter EXCEPT ![f] = "leaving"]
    /\ WaitRest(f)

\* mutation: a login that disappeared does not end the wait
WaitPollForVerdict(f) ==
    /\ waiter[f] = "waiting"
    /\ \/ Decided(f) /\ ClaimCleanup(f, "waiter") /\ WaitLeave(f, outcome[f])
       \/ ~Decided(f) /\ closed /\ ClaimCleanup(f, "waiter") /\ WaitLeave(f, "closed")

\* mutation: shutdown does not end the wait
WaitPollDeafToShutdown(f) ==
    /\ waiter[f] = "waiting"
    /\ \/ Decided(f) /\ ClaimCleanup(f, "waiter") /\ WaitLeave(f, outcome[f])
       \/ /\ ~Decided(f) /\ ~closed /\ ~Present(f)
          /\ UNCHANGED <<tableVars, cleanVars>>
          /\ WaitLeave(f, "expired")

\* claimPasswordWait after the ready channel, the ticker or shutdown woke it
WaitPoll(f) ==
    /\ waiter[f] = "waiting"
    /\ \/ /\ Decided(f)
          /\ ClaimCleanup(f, "waiter")
          /\ WaitLeave(f, outcome[f])
       \/ /\ ~Decided(f)
          /\ closed
          /\ ClaimCleanup(f, "waiter")
          /\ WaitLeave(f, "closed")
       \/ /\ ~Decided(f)
          /\ ~closed
          /\ ~Present(f)
          /\ UNCHANGED <<tableVars, cleanVars>>
          /\ WaitLeave(f, "expired")

\* claimPasswordWait with the error of the caller's own context
WaitCancel(f) ==
    /\ waiter[f] = "waiting"
    /\ ~Decided(f)
    /\ ~closed
    /\ Present(f)
    /\ ClaimCleanup(f, "waiter")
    /\ WaitLeave(f, "canceled")

WaitReturn(f) ==
    /\ waiter[f] = "leaving"
    /\ CleanupOver(f, "waiter")
    /\ waiter' = [waiter EXCEPT ![f] = "returned"]
    /\ UNCHANGED <<tableVars, cleanVars, answer>>
    /\ WaitRest(f)

-----------------------------------------------------------------------------
(* CancelPasswordLogin by the owner.                                       *)

CancelRest(f) == UNCHANGED <<browserVars, waitVars, downVars, overdue, commits, launcher, worker,
                             relay, expirer, janitor>>

Cancel(f) ==
    /\ Begun(f)
    /\ canceller[f] = "idle"
    /\ \/ /\ Present(f) /\ ~commitClaimed[f] /\ ~Decided(f)
          /\ Detach(f, "canceller")
          /\ canceller' = [canceller EXCEPT ![f] = "cleaning"]
       \/ /\ ~(Present(f) /\ ~commitClaimed[f] /\ ~Decided(f))
          /\ canceller' = [canceller EXCEPT ![f] = "refused"]
          /\ UNCHANGED <<tableVars, cleanVars>>
    /\ CancelRest(f)

CancelReturn(f) ==
    /\ canceller[f] = "cleaning"
    /\ CleanupOver(f, "canceller")
    /\ canceller' = [canceller EXCEPT ![f] = "canceled"]
    /\ UNCHANGED <<tableVars, cleanVars>>
    /\ CancelRest(f)

-----------------------------------------------------------------------------
(* expirePasswordState and the goroutine a commit leaves behind.           *)

ExpirerRest(f) == UNCHANGED <<browserVars, waitVars, downVars, overdue, commits, launcher, worker,
                              relay, canceller>>

\* the timer fired
ExpirerFire(f) ==
    /\ expirer[f] = "running"
    /\ overdue[f]
    /\ ClaimCleanup(f, "expirer")
    /\ expirer' = [expirer EXCEPT ![f] = "leaving"]
    /\ UNCHANGED janitor
    /\ ExpirerRest(f)

\* flow.ctx is canceled, or the cleanup it claimed is over
ExpirerReturn(f) ==
    /\ \/ expirer[f] = "running" /\ canceled[f]
       \/ expirer[f] = "leaving" /\ CleanupOver(f, "expirer")
    /\ expirer' = [expirer EXCEPT ![f] = "done"]
    /\ UNCHANGED <<tableVars, cleanVars, janitor>>
    /\ ExpirerRest(f)

JanitorRun(f) ==
    /\ janitor[f] = "spawned"
    /\ ClaimCleanup(f, "janitor")
    /\ janitor' = [janitor EXCEPT ![f] = "done"]
    /\ UNCHANGED expirer
    /\ ExpirerRest(f)

-----------------------------------------------------------------------------
(* finishPasswordStateCleanup, run by whoever claimed the cleanup.         *)

CleanupRest(f) == UNCHANGED <<tableVars, waitVars, downVars, overdue, commits, cleaner, launcher,
                              worker, relay, canceller, expirer, janitor>>

\* shutdown carries out the cleanups it claimed one after the other
ShutdownTurn(f) ==
    cleaner[f] = "shutdown" =>
        /\ shutdown # "sealed"
        /\ \A g \in Flows : cleaner[g] = "shutdown" => cleanup[g] \in {"claimed", "done"}

\* mutation: flow.cancel is forgotten
CleanupWithoutCancel(f) ==
    /\ cleanup[f] = "claimed"
    /\ ShutdownTurn(f)
    /\ cleanup' = [cleanup EXCEPT ![f] = "canceling"]
    /\ UNCHANGED <<canceled, browserVars>>
    /\ CleanupRest(f)

CleanupCancel(f) ==
    /\ cleanup[f] = "claimed"
    /\ ShutdownTurn(f)
    /\ cleanup' = [cleanup EXCEPT ![f] = "canceling"]
    /\ canceled' = [canceled EXCEPT ![f] = TRUE]
    /\ UNCHANGED browserVars
    /\ CleanupRest(f)

CleanupClose(f) ==
    /\ cleanup[f] = "canceling"
    /\ LaunchMuFree(f)
    /\ CloseSucceeds(f) \/ CloseFails(f)
    /\ cleanup' = [cleanup EXCEPT ![f] = "joining"]
    /\ UNCHANGED canceled
    /\ CleanupRest(f)

CleanupJoin(f) ==
    /\ cleanup[f] = "joining"
    /\ Joined(f)
    /\ cleanup' = [cleanup EXCEPT ![f] = "done"]
    /\ UNCHANGED <<canceled, browserVars>>
    /\ CleanupRest(f)

-----------------------------------------------------------------------------
(* Server.shutdown.                                                        *)

DownRest == UNCHANGED <<browserVars, waitVars, overdue, commits, launcher, worker, relay,
                        canceller, expirer, janitor>>

\* the cleanups shutdown has claimed so far are over
ShutdownCleaned == \A f \in Flows : CleanupOver(f, "shutdown")

\* one critical section over every login: a commit keeps its entry, the rest is detached
ShutdownSeal ==
    /\ shutdown = "up"
    /\ shutdown' = "sealed"
    /\ LET owned == {f \in Flows : Present(f) /\ commitClaimed[f]}
           taken == {f \in Flows : Present(f) /\ ~commitClaimed[f]}
       IN  /\ commitStates' = owned
           /\ cleanupRequested' = [f \in Flows |-> f \in owned \/ cleanupRequested[f]]
           /\ pending' = [f \in Flows |-> IF f \in taken THEN "absent" ELSE pending[f]]
           /\ outcome' = [f \in Flows |-> IF f \in taken THEN "absent" ELSE outcome[f]]
           /\ sealed' = [f \in Flows |-> f \in taken \/ sealed[f]]
           /\ cleanup' = [f \in Flows |-> IF f \in taken THEN "claimed" ELSE cleanup[f]]
           /\ cleaner' = [f \in Flows |-> IF f \in taken THEN "shutdown" ELSE cleaner[f]]
    /\ UNCHANGED <<commitClaimed, canceled>>
    /\ DownRest

ShutdownCancel ==
    /\ shutdown = "sealed"
    /\ shutdown' = "cleaning"
    /\ UNCHANGED <<tableVars, cleanVars, commitStates>>
    /\ DownRest

\* mutation: shutdown does not wait for the worker of a commit-owned login
ShutdownCommittedAtOnce(f) ==
    /\ shutdown = "cleaning"
    /\ ShutdownCleaned
    /\ f \in commitStates
    /\ ClaimCleanup(f, "shutdown")
    /\ commitStates' = commitStates \ {f}
    /\ UNCHANGED shutdown
    /\ DownRest

\* a commit-owned login: wait for its worker, then clean up what is left of it
ShutdownCommitted(f) ==
    /\ shutdown = "cleaning"
    /\ ShutdownCleaned
    /\ f \in commitStates
    /\ Present(f) => Joined(f)
    /\ ClaimCleanup(f, "shutdown")
    /\ commitStates' = commitStates \ {f}
    /\ UNCHANGED shutdown
    /\ DownRest

\* lifecycleWG.Wait
ShutdownDrain ==
    /\ shutdown = "cleaning"
    /\ ShutdownCleaned
    /\ commitStates = {}
    /\ \A f \in Flows : /\ waiter[f] \in {"idle", "returned"}
                        /\ expirer[f] \in {"idle", "done"}
                        /\ relay[f] \in {"idle", "done"}
    /\ shutdown' = "retrying"
    /\ UNCHANGED <<tableVars, cleanVars, commitStates>>
    /\ DownRest

\* retryRetainedCaptchaBrowsers has used up its rounds, or nothing is retained
ShutdownFinish ==
    /\ shutdown = "retrying"
    /\ shutdown' = "done"
    /\ UNCHANGED <<tableVars, cleanVars, commitStates>>
    /\ DownRest

-----------------------------------------------------------------------------
Launch(f)  == \E i \in Attempts : \/ LaunchReplace(f, i) \/ LaunchChrome(f, i)
                                  \/ LaunchInstall(f, i)
Worker(f)  == \E i \in Attempts : \/ WorkerClose(f, i) \/ WorkerReject(f, i)
                                  \/ WorkerMFA(f, i) \/ WorkerPrepareFails(f, i)
                                  \/ WorkerClaimCommit(f, i) \/ WorkerCommit(f, i)
                                  \/ WorkerPublish(f, i)
Relay(f)   == RelayClose(f) \/ RelayReject(f)
Waiter(f)  == WaitPoll(f) \/ WaitReturn(f)
Expirer(f) == ExpirerFire(f) \/ ExpirerReturn(f)
Cleanup(f) == CleanupCancel(f) \/ CleanupClose(f) \/ CleanupJoin(f)
Shutdown   == \/ ShutdownCancel \/ ShutdownDrain \/ ShutdownFinish
              \/ \E f \in Flows : ShutdownCommitted(f)

Next ==
    \/ \E f \in Flows :
          \/ Begin(f) \/ Expire(f)
          \/ \E i \in Attempts : LaunchAdmit(f, i) \/ WorkerFinish(f, i)
          \/ Launch(f) \/ RetainedClose(f) \/ Worker(f)
          \/ RelayStart(f) \/ RelayStop(f) \/ RelayFail(f) \/ Relay(f)
          \/ WaitBegin(f) \/ WaitCancel(f) \/ Waiter(f)
          \/ Cancel(f) \/ CancelReturn(f)
          \/ Expirer(f) \/ JanitorRun(f) \/ Cleanup(f)
    \/ ShutdownSeal \/ Shutdown

\* Users, viewers and Riot owe nothing; the server's own goroutines are scheduled,
\* time passes, and a browser worker or relay whose context is canceled returns.
Fairness ==
    /\ WF_vars(Shutdown)
    /\ \A f \in Flows :
          /\ WF_vars(Expire(f))
          /\ WF_vars(Launch(f))
          /\ WF_vars(Worker(f))
          /\ \A i \in Attempts : WF_vars(canceled[f] /\ WorkerFinish(f, i))
          /\ WF_vars((sealed[f] \/ closed) /\ RelayStop(f))
          /\ WF_vars(Relay(f))
          /\ WF_vars(Waiter(f))
          /\ WF_vars(CancelReturn(f))
          /\ WF_vars(Expirer(f))
          /\ WF_vars(JanitorRun(f))
          /\ WF_vars(Cleanup(f))

Spec     == Init /\ [][Next]_vars
FairSpec == Spec /\ Fairness

-----------------------------------------------------------------------------
(* Properties.                                                             *)

TypeOK ==
    /\ pending \in [Flows -> {"absent", "stored", "scrubbed"}]
    /\ outcome \in [Flows -> {"absent", "open"} \cup Verdicts]
    /\ sealed \in [Flows -> BOOLEAN]
    /\ commitClaimed \in [Flows -> BOOLEAN]
    /\ cleanupRequested \in [Flows -> BOOLEAN]
    /\ canceled \in [Flows -> BOOLEAN]
    /\ overdue \in [Flows -> BOOLEAN]
    /\ commits \in [Flows -> Nat]
    /\ cleanup \in [Flows -> {"none", "claimed", "canceling", "joining", "done"}]
    /\ cleaner \in [Flows -> {"none"} \cup Cleaners]
    /\ launcher \in [Flows -> [Attempts -> {"idle", "admitted", "finished"} \cup Launching]]
    /\ worker \in [Flows -> [Attempts -> {"idle", "running", "exited"} \cup Finalizing]]
    /\ browser \in [Flows -> {0} \cup Attempts]
    /\ generation \in [Flows -> {0} \cup Attempts]
    /\ chrome \in [Flows -> SUBSET Attempts]
    /\ retained \in [Flows -> {0} \cup Attempts]
    /\ relay \in [Flows -> {"idle", "running", "sealed", "rejecting", "done"}]
    /\ waiter \in [Flows -> {"idle", "waiting", "leaving", "returned"}]
    /\ answer \in [Flows -> {"none", "expired", "closed", "canceled"} \cup Verdicts]
    /\ canceller \in [Flows -> {"idle", "cleaning", "canceled", "refused"}]
    /\ expirer \in [Flows -> {"idle", "running", "leaving", "done"}]
    /\ janitor \in [Flows -> {"idle", "spawned", "done"}]
    /\ shutdown \in {"up", "sealed", "cleaning", "retrying", "done"}
    /\ commitStates \in SUBSET Flows

\* A login whose owner's cancel was accepted never links an account: not before,
\* and not after, whatever a worker was doing (CancelPasswordLogin's "canceled").
CanceledNeverLinks ==
    \A f \in Flows : canceller[f] \in {"cleaning", "canceled"} => commits[f] = 0

\* An account is written at most once per login, although several windows, workers
\* and the relay may all try to finish it (claimPasswordAccountCommit).
CommitsOnce == \A f \in Flows : commits[f] <= 1

\* What a waiter is told is what was stored: "linked" only with a stored account, a
\* failure or a second factor only without one (publish*PasswordOutcome).
WaiterToldTheTruth ==
    \A f \in Flows :
        /\ answer[f] = "linked" => commits[f] = 1
        /\ answer[f] \in {"failed", "mfa"} => commits[f] = 0

\* While the irrevocable store call runs, nobody cancels the login's context, takes
\* its entry away or publishes for it (claimPasswordStateCleanupLocked).
CommitIsProtected ==
    \A f \in Flows : commitClaimed[f] => /\ pending[f] = "scrubbed"
                                         /\ outcome[f] = "open"
                                         /\ ~canceled[f]
                                         /\ cleanup[f] = "none"

\* Only the worker of the window installed last gets past its claim, and it keeps that
\* right to the end: no reopen can slip a window in between (runRiotBrowserLogin).
FinalizerOwnsFlow ==
    \A f \in Flows, i \in Attempts :
        worker[f][i] \in Finalizing =>
            /\ generation[f] = i
            /\ browser[f] \in {0, i}
            /\ sealed[f]
            /\ relay[f] \notin {"sealed", "rejecting"}
            /\ \A j \in Attempts \ {i} : /\ worker[f][j] \notin Finalizing
                                         /\ launcher[f][j] \notin Launching

\* No Chrome is ever out of reach: one that exists is the flow's own, or is in the hands
\* of the launch that is still opening it, and there is one at most (ensureCaptchaLaunched).
ChromeIsReachable ==
    \A f \in Flows :
        /\ chrome[f] \subseteq {browser[f]} \cup {i \in Attempts : launcher[f][i] = "opened"}
        /\ \A i, j \in chrome[f] : i = j

\* A finished cleanup leaves no worker, launch or relay behind, and no Chrome that
\* nobody will try to close again (finishPasswordStateCleanup).
CleanedUpForGood ==
    \A f \in Flows : cleanup[f] = "done" => /\ Joined(f)
                                            /\ chrome[f] # {} => retained[f] = browser[f]

\* Once shutdown is over no login, waiter, relay or store call is left, whatever was
\* committing or waiting when it began (Server.shutdown).
ShutdownSettles ==
    shutdown = "done" =>
        \A f \in Flows : /\ pending[f] = "absent"
                         /\ ~commitClaimed[f]
                         /\ waiter[f] \notin {"waiting", "leaving"}
                         /\ relay[f] \in {"idle", "done"}

\* Nothing is written to the store after shutdown returned, although browser workers
\* are not counted by lifecycleWG (shutdown's join of commit-owned logins).
NoCommitAfterShutdown == [][shutdown = "done" => commits' = commits]_vars

\* WaitPasswordLogin ends: by a verdict, by the TTL, by its own caller or by shutdown.
WaiterReturns == \A f \in Flows : waiter[f] = "waiting" ~> waiter[f] = "returned"

\* An accepted cancel returns although it waits for launches, workers and the relay.
CancelReturns == \A f \in Flows : canceller[f] = "cleaning" ~> canceller[f] = "canceled"

\* Server.shutdown ends: no goroutine it joins waits for it in turn.
ShutdownEnds == shutdown = "sealed" ~> shutdown = "done"

-----------------------------------------------------------------------------
(* PasswordFlow implements LoginPromise.                                   *)

PromiseOf(f) ==
    CASE Decided(f) -> outcome[f]
      [] ~Begun(f) -> "absent"
      [] Begun(f) /\ ~Present(f) -> "gone"
      [] commitClaimed[f] /\ commits[f] = 0 -> "committing"
      [] commitClaimed[f] /\ commits[f] > 0 -> "kept"
      [] OTHER -> "open"

Promise == INSTANCE LoginPromise
              WITH entry <- [f \in Flows |-> PromiseOf(f)],
                   stored <- [f \in Flows |-> commits[f] > 0]

\* Every behaviour of the goroutines is, login by login, one of the two-step commit
\* that LoginPromise describes.
KeepsPromise == Promise!Spec
=============================================================================
