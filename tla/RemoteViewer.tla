---------------------------- MODULE RemoteViewer ----------------------------
(***************************************************************************)
(* The remote viewer of one password login: internal/authweb/              *)
(* captcha_remote_state.go, captcha_remote_http.go and the connection,     *)
(* disconnect grace and relay of captcha_remote_ws.go.  A one-time grant   *)
(* is redeemed for a viewer session; connections made with the session     *)
(* take turns in owning the relay, which streams the Chrome of the login;  *)
(* a connection that is lost leaves a grace period behind.                 *)
(*                                                                         *)
(* Every action is one critical section of Server.mu, a call to Chrome, or *)
(* a wait.  What happens to the login itself is module PasswordFlow's and  *)
(* appears here as the few steps under "The login".                        *)
(*                                                                         *)
(* The generations of remoteCaptchaRelay are abstracted to identities: the *)
(* owner is the connection whose connectionGeneration is the last one, and *)
(* graceHeld says that graceCancel is set, hence that graceGeneration is   *)
(* the grace worker's own.                                                 *)
(***************************************************************************)
EXTENDS Integers, FiniteSets

CONSTANTS Requests,    \* the POSTs that present the grant
          Connections  \* the WebSocket requests that present the session

ASSUME RemoteViewerAssumption ==
    /\ Requests \cap Connections = {}
    /\ (Requests \cup Connections)
          \cap {"none", "grace", "expirer", "viewer", "owner", "shutdown"} = {}

VARIABLES
    login,         \* passwordPending, passwordOutcomes and passwordFlow, in one word
    grant,         \* pending.remoteGrant.active
    viewer,        \* pending.remoteViewer: the request whose session it is, or "none"
    cleaner,       \* who claimed the cleanup of the login
    cleanup,       \* how far that cleanup has come
    relay,         \* runRemoteCaptchaRelay
    relayCanceled, \* relay.ctx is canceled
    stream,        \* relay.ready, relay.stream and how the stream ended
    owner,         \* relay.connectionActive: the connection, or "none"
    graceHeld,     \* relay.graceCancel and graceDone are set
    grace,         \* expireRemoteCaptchaDisconnectGrace
    redeem,        \* handleRemoteCaptchaRedeem, one per request
    conn,          \* handleRemoteCaptchaWebSocket, one per connection
    viewerCancel,  \* handleRemoteCaptchaCancel
    expirer,       \* expireRemoteCaptchaState
    stale,         \* grant.expiresAt, which the viewer inherits, has passed
    shutdown       \* Server.shutdown

loginVars   == <<login, grant, viewer, cleaner, cleanup>>
relayVars   == <<relay, relayCanceled, stream>>
leaseVars   == <<owner, graceHeld, grace>>
requestVars == <<redeem, viewerCancel>>
restVars    == <<expirer, stale, shutdown>>
vars == <<loginVars, relayVars, leaseVars, requestVars, conn, restVars>>

\* a connection between its claim and its release
Owning == {"joining", "claimed", "attached", "serving", "cleaning", "lost", "finished", "leaving"}

\* BeginPasswordLogin in remote mode has returned the grant's URL
Init ==
    /\ login = "open"
    /\ grant = TRUE
    /\ viewer = "none"
    /\ cleaner = "none"
    /\ cleanup = "none"
    /\ relay = "none"
    /\ relayCanceled = FALSE
    /\ stream = "none"
    /\ owner = "none"
    /\ graceHeld = FALSE
    /\ grace = "none"
    /\ redeem = [r \in Requests |-> "idle"]
    /\ conn = [c \in Connections |-> "idle"]
    /\ viewerCancel = "idle"
    /\ expirer = "running"
    /\ stale = FALSE
    /\ shutdown = "up"

-----------------------------------------------------------------------------
closed == shutdown # "up"

\* lifecycleCtx
lifecycleCanceled == shutdown \in {"canceled", "drained"}

\* flow.remoteDone is closed
RemoteDone == ~grant /\ viewer = "none"

\* flow.wg, as far as this module knows its members
Joined == relay \in {"none", "done"}

\* mutation: the relay of the viewer is left running
ClearRemoteOnly ==
    /\ grant' = FALSE
    /\ viewer' = "none"
    /\ UNCHANGED relayCanceled

\* clearRemoteCaptchaState
ClearRemote ==
    /\ grant' = FALSE
    /\ viewer' = "none"
    /\ relayCanceled' = (relayCanceled \/ (viewer # "none" /\ relay # "none"))

\* claimPasswordStateCleanupLocked; the cleanup asked for during a commit comes after it
ClaimCleanup(who) ==
    \/ /\ login \notin {"committing", "gone"}
       /\ login' = "gone"
       /\ ClearRemote
       /\ cleaner' = who
       /\ cleanup' = "claimed"
    \/ /\ login \in {"committing", "gone"}
       /\ UNCHANGED <<loginVars, relayCanceled>>

\* finishPasswordStateCleanup has returned to who, if who had anything to clean up
CleanedUpBy(who) == cleaner = who => cleanup = "done"

-----------------------------------------------------------------------------
(* The cleanup of the login.                                               *)

CleanupRest == /\ UNCHANGED <<login, grant, viewer, cleaner, relayVars, leaseVars, requestVars>>
               /\ UNCHANGED <<conn, restVars>>

\* flow.cancel; shutdown does it after lifecycleCancel
CleanupCancel ==
    /\ cleanup = "claimed"
    /\ cleaner = "shutdown" => lifecycleCanceled
    /\ cleanup' = "joining"
    /\ CleanupRest

\* flow.wg.Wait
CleanupJoin ==
    /\ cleanup = "joining"
    /\ Joined
    /\ cleanup' = "done"
    /\ CleanupRest

-----------------------------------------------------------------------------
(* The login: what module PasswordFlow does to it.                         *)

LoginRest == UNCHANGED <<relay, stream, leaseVars, requestVars, conn, restVars>>

\* mutation: the worker seals the login but keeps the viewer's credentials
WorkerFinalizeOnly ==
    /\ login = "open"
    /\ relay = "attaching" \/ stream \notin {"none", "unlaunched"}
    /\ login' = "finishing"
    /\ UNCHANGED <<grant, viewer, relayCanceled, cleaner, cleanup>>
    /\ LoginRest

\* runRiotBrowserLogin: claimPasswordFinalization
WorkerFinalize ==
    /\ login = "open"
    /\ relay = "attaching" \/ stream \notin {"none", "unlaunched"}
    /\ login' = "finishing"
    /\ ClearRemote
    /\ UNCHANGED <<cleaner, cleanup>>
    /\ LoginRest

WorkerDecide ==
    /\ \/ login = "finishing" /\ login' \in {"committing", "decided"}
       \/ login = "committing" /\ login' = "decided"
    /\ UNCHANGED <<grant, viewer, cleaner, cleanup, relayCanceled>>
    /\ LoginRest

\* CancelPasswordLogin, expirePasswordState, WaitPasswordLogin; a decided login is
\* collected by its waiter, or by the cleanup requested during its commit
OwnerCleanup ==
    /\ login \notin {"committing", "gone"}
    /\ ClaimCleanup("owner")
    /\ LoginRest

-----------------------------------------------------------------------------
(* handleRemoteCaptchaRedeem.                                              *)

RedeemRest == UNCHANGED <<relay, stream, leaseVars, conn, viewerCancel, restVars>>

\* redeemRemoteCaptchaGrant: the grant is exchanged for a session; one that has
\* expired takes the login with it
Redeem(r) ==
    /\ redeem[r] = "idle"
    /\ \/ /\ closed \/ ~grant
          /\ redeem' = [redeem EXCEPT ![r] = "refused"]
          /\ UNCHANGED <<loginVars, relayCanceled>>
       \/ /\ ~closed /\ grant /\ stale
          /\ ClaimCleanup(r)
          /\ redeem' = [redeem EXCEPT ![r] = "refusing"]
       \/ /\ ~closed /\ grant /\ ~stale
          /\ grant' = FALSE
          /\ viewer' = r
          /\ redeem' = [redeem EXCEPT ![r] = "redeemed"]
          /\ UNCHANGED <<login, cleaner, cleanup, relayCanceled>>
    /\ RedeemRest

\* lookupRemoteCaptchaViewer, before the session is sent as a cookie
RedeemLookup(r) ==
    /\ redeem[r] = "redeemed"
    /\ \/ /\ closed \/ viewer # r
          /\ redeem' = [redeem EXCEPT ![r] = "refused"]
          /\ UNCHANGED <<loginVars, relayCanceled>>
       \/ /\ ~closed /\ viewer = r /\ stale
          /\ ClaimCleanup(r)
          /\ redeem' = [redeem EXCEPT ![r] = "refusing"]
       \/ /\ ~closed /\ viewer = r /\ ~stale
          /\ redeem' = [redeem EXCEPT ![r] = "cookie"]
          /\ UNCHANGED <<loginVars, relayCanceled>>
    /\ RedeemRest

\* finishRemoteCaptchaBindingCleanup
RedeemRefuse(r) ==
    /\ redeem[r] = "refusing"
    /\ CleanedUpBy(r)
    /\ redeem' = [redeem EXCEPT ![r] = "refused"]
    /\ UNCHANGED <<loginVars, relayCanceled>>
    /\ RedeemRest

-----------------------------------------------------------------------------
(* handleRemoteCaptchaCancel.                                              *)

ViewerCancelRest == UNCHANGED <<relay, stream, leaseVars, conn, redeem, restVars>>

\* cancelRemoteCaptchaViewer
ViewerCancel ==
    /\ viewerCancel = "idle"
    /\ \E r \in Requests : redeem[r] = "cookie"
    /\ \/ /\ closed \/ viewer = "none"
          /\ viewerCancel' = "refused"
          /\ UNCHANGED <<loginVars, relayCanceled>>
       \/ /\ ~closed /\ viewer # "none"
          /\ ClaimCleanup("viewer")
          /\ viewerCancel' = IF stale THEN "refusing" ELSE "canceling"
    /\ ViewerCancelRest

ViewerCancelReturn ==
    /\ viewerCancel \in {"refusing", "canceling"}
    /\ CleanedUpBy("viewer")
    /\ viewerCancel' = IF viewerCancel = "refusing" THEN "refused" ELSE "canceled"
    /\ UNCHANGED <<loginVars, relayCanceled>>
    /\ ViewerCancelRest

-----------------------------------------------------------------------------
(* expireRemoteCaptchaState.                                               *)

Expire ==
    /\ ~stale
    /\ stale' = TRUE
    /\ UNCHANGED <<loginVars, relayVars, leaseVars, requestVars, conn, expirer, shutdown>>

ExpirerRest == UNCHANGED <<relay, stream, leaseVars, requestVars, conn, stale, shutdown>>

ExpirerFire ==
    /\ expirer = "running"
    /\ stale
    /\ \/ RemoteDone /\ expirer' = "done" /\ UNCHANGED <<loginVars, relayCanceled>>
       \/ ~RemoteDone /\ ClaimCleanup("expirer") /\ expirer' = "cleaning"
    /\ ExpirerRest

ExpirerWake ==
    /\ expirer = "running"
    /\ RemoteDone \/ lifecycleCanceled
    /\ expirer' = "done"
    /\ UNCHANGED <<loginVars, relayCanceled>>
    /\ ExpirerRest

ExpirerReturn ==
    /\ expirer = "cleaning"
    /\ CleanedUpBy("expirer")
    /\ expirer' = "done"
    /\ UNCHANGED <<loginVars, relayCanceled>>
    /\ ExpirerRest

-----------------------------------------------------------------------------
(* handleRemoteCaptchaWebSocket.                                           *)

ConnRest == UNCHANGED <<stream, requestVars, restVars>>
ConnOnly == UNCHANGED <<loginVars, relayVars, leaseVars, requestVars, restVars>>
Step(c, pc) == conn' = [conn EXCEPT ![c] = pc]

\* mutation: the cancel function of an earlier grace is kept
ClaimConnectionForgetful(c) ==
    /\ conn[c] = "idle"
    /\ \E r \in Requests : redeem[r] = "cookie"
    /\ ~closed /\ viewer # "none" /\ ~stale /\ owner = "none"
    /\ relay' = IF relay = "none" THEN "waiting" ELSE relay
    /\ owner' = c
    /\ Step(c, IF graceHeld THEN "joining" ELSE "claimed")
    /\ UNCHANGED <<loginVars, relayCanceled, graceHeld, grace>>
    /\ ConnRest

\* claimRemoteCaptchaWebSocket: the first connection creates the relay, and the
\* grace of an earlier one is canceled
ClaimConnection(c) ==
    /\ conn[c] = "idle"
    /\ \E r \in Requests : redeem[r] = "cookie"
    /\ \/ /\ closed \/ viewer = "none" \/ (~stale /\ owner # "none")
          /\ Step(c, "refused")
          /\ UNCHANGED <<loginVars, relay, relayCanceled, owner, graceHeld>>
       \/ /\ ~closed /\ viewer # "none" /\ stale
          /\ ClaimCleanup(c)
          /\ Step(c, "refusing")
          /\ UNCHANGED <<relay, owner, graceHeld>>
       \/ /\ ~closed /\ viewer # "none" /\ ~stale /\ owner = "none"
          /\ relay' = IF relay = "none" THEN "waiting" ELSE relay
          /\ owner' = c
          /\ graceHeld' = FALSE
          /\ Step(c, IF graceHeld THEN "joining" ELSE "claimed")
          /\ UNCHANGED <<loginVars, relayCanceled>>
    /\ UNCHANGED <<grace>>
    /\ ConnRest

\* <-graceDone
JoinGrace(c) ==
    /\ conn[c] = "joining"
    /\ grace = "done"
    /\ Step(c, "claimed")
    /\ ConnOnly

\* the upgrade fails, or activateRemoteCaptchaWebSocket opens relay.start
Activate(c) ==
    /\ conn[c] = "claimed"
    /\ \/ /\ Step(c, "lost")
          /\ UNCHANGED relay
       \/ /\ ~closed /\ viewer # "none" /\ ~relayCanceled
          /\ Step(c, "attached")
          /\ relay' = IF relay = "waiting" THEN "starting" ELSE relay
       \/ /\ closed \/ viewer = "none" \/ relayCanceled
          /\ Step(c, "leaving")
          /\ UNCHANGED relay
    /\ UNCHANGED <<loginVars, relayCanceled, leaseVars>>
    /\ ConnRest

AwaitReady(c) ==
    /\ conn[c] = "attached"
    /\ \/ stream \notin {"none", "unlaunched", "refused"} /\ Step(c, "serving")
       \/ stream \in {"unlaunched", "refused"} /\ Step(c, "leaving")
       \/ (relayCanceled \/ lifecycleCanceled) /\ Step(c, "leaving")
    /\ ConnOnly

\* serveRemoteCaptchaWebSocket ends with the connection, the relay or the stream.
\* After a solved challenge ("finished") the writer sends a normal closure.
ServeEnd(c) ==
    /\ conn[c] = "serving"
    /\ Step(c, IF relayCanceled \/ lifecycleCanceled THEN "leaving"
               ELSE IF stream = "solved" THEN "finished" ELSE "lost")
    /\ ConnOnly

\* ... or with a message no viewer sends, or a pointer that cannot be released
ServeViolation(c) ==
    /\ conn[c] = "serving"
    /\ ClaimCleanup(c)
    /\ Step(c, "cleaning")
    /\ UNCHANGED <<relay, leaseVars>>
    /\ ConnRest

\* the cleanup a connection ran is over
ConnectionCleaned(c) ==
    /\ conn[c] \in {"refusing", "cleaning"}
    /\ CleanedUpBy(c)
    /\ Step(c, IF conn[c] = "refusing" THEN "refused" ELSE "leaving")
    /\ ConnOnly

\* does a connection that ended unexpectedly leave a grace behind?
GraceDue == /\ ~closed
            /\ viewer # "none"
            /\ ~relayCanceled
            /\ ~stale
            /\ ~graceHeld

\* releaseRemoteCaptchaWebSocket
Release(c) ==
    /\ conn[c] \in {"lost", "finished", "leaving"}
    /\ Step(c, "done")
    /\ owner' = IF owner = c THEN "none" ELSE owner
    /\ \/ /\ conn[c] = "leaving" \/ ~GraceDue \/ owner # c
          /\ UNCHANGED <<graceHeld, grace>>
       \/ /\ conn[c] # "leaving" /\ GraceDue /\ owner = c
          /\ graceHeld' = TRUE
          /\ grace' = "running"
    /\ UNCHANGED <<loginVars, relay, relayCanceled>>
    /\ ConnRest

-----------------------------------------------------------------------------
(* expireRemoteCaptchaDisconnectGrace.                                     *)

GraceRest == UNCHANGED <<owner, graceHeld, relay, stream, requestVars, conn, restVars>>

\* the minute is over; a timer that is being stopped may have fired before
GraceFire ==
    /\ grace = "running"
    /\ grace' = "fired"
    /\ UNCHANGED <<loginVars, relayCanceled>>
    /\ GraceRest

\* graceCtx, which a reconnection cancels, or the lifecycle
GraceWake ==
    /\ grace = "running"
    /\ ~graceHeld \/ relayCanceled \/ lifecycleCanceled
    /\ grace' = "done"
    /\ UNCHANGED <<loginVars, relayCanceled>>
    /\ GraceRest

\* nobody has come back: the login is given up
GraceClaim ==
    /\ grace = "fired"
    /\ \/ /\ viewer # "none" /\ owner = "none" /\ graceHeld /\ ~relayCanceled
          /\ ClaimCleanup("grace")
          /\ grace' = "cleaning"
       \/ /\ viewer = "none" \/ owner # "none" \/ ~graceHeld \/ relayCanceled
          /\ grace' = "done"
          /\ UNCHANGED <<loginVars, relayCanceled>>
    /\ GraceRest

GraceReturn ==
    /\ grace = "cleaning"
    /\ CleanedUpBy("grace")
    /\ grace' = "done"
    /\ UNCHANGED <<loginVars, relayCanceled>>
    /\ GraceRest

-----------------------------------------------------------------------------
(* runRemoteCaptchaRelay.                                                  *)

RelayRest == UNCHANGED <<grant, viewer, cleaner, cleanup, leaseVars, requestVars, conn, restVars>>

\* no connection was ever activated
RelayAbandon ==
    /\ relay = "waiting"
    /\ relayCanceled \/ lifecycleCanceled
    /\ relay' = "done"
    /\ stream' = "unlaunched"
    /\ UNCHANGED <<login, relayCanceled>>
    /\ RelayRest

\* ensureCaptchaLaunched
RelayLaunch ==
    /\ relay = "starting"
    /\ \/ login = "open" /\ relay' = "attaching" /\ UNCHANGED stream
       \/ relay' = "failing" /\ stream' = "unlaunched"
    /\ UNCHANGED <<login, relayCanceled>>
    /\ RelayRest

\* startRemoteCaptchaStreamWhenReady and publishReady; a challenge that was over
\* before it could be shown is no failure
RelayAttach ==
    /\ relay = "attaching"
    /\ \/ relay' = "streaming" /\ stream' = "live"
       \/ relay' \in {"done", "failing"} /\ stream' = "refused"
    /\ UNCHANGED <<login, relayCanceled>>
    /\ RelayRest

\* the capture loop ends by itself: the challenge document is gone, or an error
StreamFinish ==
    /\ relay = "streaming"
    /\ stream = "live"
    /\ stream' \in {"solved", "broken"}
    /\ UNCHANGED <<login, relay, relayCanceled>>
    /\ RelayRest

\* a viewer, flow or server that is gone closes the stream; so does a dead Chrome,
\* which fails the login.  A stream that ended fails it too, unless the challenge is gone
\* or Chrome has exited by then; of the ends that have come any may be seen first
RelayEnd ==
    /\ relay = "streaming"
    /\ \/ /\ relayCanceled \/ lifecycleCanceled
          /\ relay' = "done"
          /\ stream' = IF stream = "live" THEN "closed" ELSE stream
       \/ /\ stream = "live"
          /\ ~relayCanceled /\ ~lifecycleCanceled
          /\ relay' = "failing"
          /\ stream' = "closed"
       \/ /\ stream \in {"solved", "broken"}
          /\ \/ relay' = "done"
             \/ ~relayCanceled /\ ~lifecycleCanceled /\ relay' = "failing"
          /\ UNCHANGED stream
    /\ UNCHANGED <<login, relayCanceled>>
    /\ RelayRest

\* failRemoteCaptchaRelay: the context first ...
RelayFail ==
    /\ relay = "failing"
    /\ relayCanceled' = TRUE
    /\ relay' = "rejecting"
    /\ UNCHANGED <<login, stream>>
    /\ RelayRest

\* mutation: the relay rejects a login somebody else is deciding
RelayRejectBlindly ==
    /\ relay = "rejecting"
    /\ login' = "failing"
    /\ grant' = FALSE
    /\ viewer' = "none"
    /\ relay' = "publishing"
    /\ UNCHANGED <<cleaner, cleanup, relayCanceled, stream, leaseVars, requestVars, conn, restVars>>

\* ... then setPasswordOutcome: claim the login, unless it is no longer open
\* (or, once the viewer is stale, perhaps overdue) ...
RelayReject ==
    /\ relay = "rejecting"
    /\ \/ /\ login = "open"
          /\ login' = "failing"
          /\ ClearRemote
          /\ relay' = "publishing"
       \/ /\ login # "open" \/ stale
          /\ relay' = "done"
          /\ UNCHANGED <<login, grant, viewer, relayCanceled>>
    /\ UNCHANGED <<cleaner, cleanup, stream, leaseVars, requestVars, conn, restVars>>

\* ... close its Chrome and publish the failure
RelayPublish ==
    /\ relay = "publishing"
    /\ relay' = "done"
    /\ login' = IF login = "failing" THEN "decided" ELSE login
    /\ UNCHANGED <<relayCanceled, stream>>
    /\ RelayRest

-----------------------------------------------------------------------------
(* Server.shutdown.                                                        *)

ShutdownRest == UNCHANGED <<relay, stream, leaseVars, requestVars, conn, expirer, stale>>

\* remote credentials are invalid from here on, a commit's login is collected later
ShutdownSeal ==
    /\ shutdown = "up"
    /\ shutdown' = "sealed"
    /\ \/ login \notin {"committing", "gone"} /\ ClaimCleanup("shutdown")
       \/ /\ login \in {"committing", "gone"}
          /\ ClearRemote
          /\ UNCHANGED <<login, cleaner, cleanup>>
    /\ ShutdownRest

ShutdownCancel ==
    /\ shutdown = "sealed"
    /\ shutdown' = "canceled"
    /\ UNCHANGED <<loginVars, relayCanceled>>
    /\ ShutdownRest

\* the claimed cleanup, the collection of a committed login and lifecycleWG.Wait
ShutdownDrain ==
    /\ shutdown = "canceled"
    /\ login = "gone"
    /\ CleanedUpBy("shutdown")
    /\ Joined
    /\ grace \in {"none", "done"}
    /\ expirer = "done"
    /\ \A c \in Connections : conn[c] \notin Owning
    /\ shutdown' = "drained"
    /\ UNCHANGED <<loginVars, relayCanceled>>
    /\ ShutdownRest

-----------------------------------------------------------------------------
Cleanup   == CleanupCancel \/ CleanupJoin
Redeemer(r) == RedeemLookup(r) \/ RedeemRefuse(r)
Expirer   == ExpirerFire \/ ExpirerWake \/ ExpirerReturn
Grace     == GraceFire \/ GraceWake \/ GraceClaim \/ GraceReturn
Relay     == RelayAbandon \/ RelayLaunch \/ RelayEnd \/ RelayFail \/ RelayReject \/ RelayPublish
Handler(c) == \/ JoinGrace(c) \/ Activate(c) \/ AwaitReady(c)
              \/ ConnectionCleaned(c) \/ Release(c)
Shutdown  == ShutdownCancel \/ ShutdownDrain

Next ==
    \/ Cleanup
    \/ WorkerFinalize \/ WorkerDecide \/ OwnerCleanup
    \/ \E r \in Requests : Redeem(r) \/ Redeemer(r)
    \/ ViewerCancel \/ ViewerCancelReturn
    \/ Expire \/ Expirer
    \/ \E c \in Connections : \/ ClaimConnection(c) \/ ServeEnd(c) \/ ServeViolation(c)
                              \/ Handler(c)
    \/ Grace
    \/ RelayAttach \/ StreamFinish \/ Relay
    \/ ShutdownSeal \/ Shutdown

\* What the server owes: its goroutines are scheduled and Chrome starts or fails to.
\* Viewers and Riot owe nothing, but a stream that is over, or a relay that is
\* canceled, ends a connection and an attachment.
Server ==
    \/ Cleanup
    \/ login # "finishing" /\ WorkerDecide
    \/ login = "decided" /\ OwnerCleanup
    \/ \E r \in Requests : Redeemer(r)
    \/ ViewerCancelReturn
    \/ Expirer
    \/ \E c \in Connections : \/ Handler(c)
                              \/ (relayCanceled \/ stream # "live") /\ ServeEnd(c)
    \/ Grace
    \/ (relayCanceled \/ lifecycleCanceled) /\ RelayAttach
    \/ (relayCanceled \/ lifecycleCanceled \/ stream # "live") /\ Relay
    \/ Shutdown

\* Weaker than fairness of each goroutine, and enough: every goroutine is finite.
Fairness == WF_vars(Server)

Spec     == Init /\ [][Next]_vars
FairSpec == Spec /\ Fairness

-----------------------------------------------------------------------------
TypeOK ==
    /\ login \in {"open", "finishing", "failing", "committing", "decided", "gone"}
    /\ grant \in BOOLEAN
    /\ viewer \in {"none"} \cup Requests
    /\ cleaner \in {"none", "grace", "expirer", "viewer", "owner", "shutdown"}
                      \cup Requests \cup Connections
    /\ cleanup \in {"none", "claimed", "joining", "done"}
    /\ relay \in {"none", "waiting", "starting", "attaching", "streaming", "failing",
                   "rejecting", "publishing", "done"}
    /\ relayCanceled \in BOOLEAN
    /\ stream \in {"none", "unlaunched", "refused", "live", "solved", "broken", "closed"}
    /\ owner \in {"none"} \cup Connections
    /\ graceHeld \in BOOLEAN
    /\ grace \in {"none", "running", "fired", "cleaning", "done"}
    /\ redeem \in [Requests -> {"idle", "redeemed", "cookie", "refusing", "refused"}]
    /\ conn \in [Connections -> {"idle", "refusing", "refused", "done"} \cup Owning]
    /\ viewerCancel \in {"idle", "refusing", "canceling", "refused", "canceled"}
    /\ expirer \in {"running", "cleaning", "done"}
    /\ stale \in BOOLEAN
    /\ shutdown \in {"up", "sealed", "canceled", "drained"}

\* One viewer at a time: between its claim and its release a connection is the only one,
\* and from the moment it goes on nobody is left of the grace of the one before
\* (claimRemoteCaptchaWebSocket, releaseRemoteCaptchaWebSocket).
OneViewer ==
    \A c \in Connections :
        /\ conn[c] \in Owning => \A d \in Connections : conn[d] \in Owning => c = d
        /\ conn[c] \in Owning \ {"joining"} => grace \in {"none", "done"}

\* The credentials of a viewer do not outlive the login: once it is sealed, decided or
\* given up, or the server shuts down, no grant and no session is accepted and the relay
\* is canceled (clearRemoteCaptchaState and its callers).
CredentialsDieWithLogin ==
    login # "open" \/ closed => /\ ~grant
                                /\ viewer = "none"
                                /\ relay # "none" => relayCanceled

\* A grace period that gives the login up does so with nobody connected, although a
\* viewer may come back while its timer fires (expireRemoteCaptchaDisconnectGrace).
GraceSparesViewers ==
    cleaner = "grace" => \A c \in Connections : conn[c] \notin Owning

\* A grant is redeemed once, the session is that redemption's, and a relay outlives its
\* session only canceled.
InvCredentials ==
    /\ \A r \in Requests :
          redeem[r] \in {"redeemed", "cookie"} =>
              ~grant /\ \A q \in Requests : redeem[q] \in {"redeemed", "cookie"} => q = r
    /\ viewer # "none" => ~grant /\ redeem[viewer] \in {"redeemed", "cookie"}
    /\ relay # "none" /\ viewer = "none" => relayCanceled
    /\ CredentialsDieWithLogin

\* A cleanup ends the login and is over only when the relay is; a viewer told that its
\* login is canceled finds it so.
InvCleanup ==
    /\ login = "gone" <=> cleaner # "none"
    /\ cleaner = "none" <=> cleanup = "none"
    /\ cleanup = "done" => Joined
    /\ viewerCancel \in {"refusing", "canceling", "canceled"} => login = "gone"
    /\ viewerCancel = "canceled" /\ cleaner = "viewer" => Joined

\* The lease is owned by the connection inside; a grace that may still act is held, or
\* being joined by the connection that canceled it.
InvLease ==
    /\ \A c \in Connections : conn[c] \in Owning <=> owner = c
    /\ relay = "none" => stream = "none" /\ owner = "none" /\ ~relayCanceled
    /\ graceHeld => owner = "none" /\ grace # "none"
    /\ grace \in {"running", "fired"} =>
          graceHeld \/ \E c \in Connections : conn[c] = "joining"
    /\ grace = "cleaning" => login = "gone" /\ owner = "none"
    /\ OneViewer
    /\ GraceSparesViewers

IInv == TypeOK /\ InvCredentials /\ InvCleanup /\ InvLease

Abandoned == relay \notin {"none", "done"} /\ owner = "none" /\ login = "open"

\* A login whose viewer left while its Chrome was shown does not keep it until the TTL:
\* somebody reconnects, or it is given up (the grace, or the failure of its relay).
AbandonedLoginFreed == Abandoned ~> ~Abandoned

\* Every connection is closed once the login is finished, given up or shut down.
ConnectionsEnd == login # "open" ~> \A c \in Connections : conn[c] \notin Owning

=============================================================================
