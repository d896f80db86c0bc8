------------------------- MODULE RemoteViewerProofs -------------------------
(***************************************************************************)
(* Proofs about the remote viewer, for every set of requests and of        *)
(* connections: IInv is inductive, and implies the safety properties of    *)
(* RemoteViewer.                                                           *)
(***************************************************************************)
EXTENDS RemoteViewer, TLAPS

\* The inductive invariant holds when the grant has been handed out.
LEMMA InitInv == Init => IInv
<1> SUFFICES ASSUME Init PROVE IInv OBVIOUS
<1> USE DEF Init
<1>1. TypeOK BY DEF TypeOK
<1>2. InvCredentials BY DEF InvCredentials, CredentialsDieWithLogin, closed
<1>3. InvCleanup BY DEF InvCleanup, Joined
<1>4. InvLease
  BY RemoteViewerAssumption DEF InvLease, OneViewer, GraceSparesViewers, Owning
<1>5. QED BY <1>1, <1>2, <1>3, <1>4 DEF IInv

\* Nothing happens to an invariant part whose variables stay.
LEMMA CredentialsUntouched ==
    ASSUME InvCredentials, UNCHANGED <<redeem, grant, viewer, login, relay, relayCanceled, shutdown>>
    PROVE  InvCredentials'
BY DEF InvCredentials, CredentialsDieWithLogin, closed

LEMMA CleanupUntouched ==
    ASSUME InvCleanup, UNCHANGED <<login, cleaner, cleanup, viewerCancel, relay>>
    PROVE  InvCleanup'
BY DEF InvCleanup, Joined

LEMMA LeaseUntouched ==
    ASSUME InvLease, UNCHANGED <<conn, owner, graceHeld, grace, relay, relayCanceled, stream, login, cleaner>>
    PROVE  InvLease'
BY DEF InvLease, OneViewer, GraceSparesViewers

\* Clearing the credentials leaves none, and no relay that is not canceled.
LEMMA ClearInv ==
    ASSUME TypeOK, InvCredentials, ClearRemote, UNCHANGED <<redeem, relay>>
    PROVE  InvCredentials'
<1> USE DEF ClearRemote, TypeOK
<1>1. relay' # "none" => relayCanceled'
  <2>1. CASE viewer = "none"
    BY <2>1 DEF InvCredentials
  <2>2. CASE viewer # "none"
    BY <2>2
  <2>3. QED BY <2>1, <2>2
<1>2. CredentialsDieWithLogin'
  BY <1>1 DEF CredentialsDieWithLogin
<1>3. QED
  BY <1>1, <1>2 DEF InvCredentials

\* A session is accepted only while the login is open and the server up.
LEMMA SessionMeansOpen ==
    ASSUME InvCredentials, viewer # "none" \/ grant
    PROVE  login = "open" /\ ~closed
BY DEF InvCredentials, CredentialsDieWithLogin

\* What a claimed cleanup does to the parts, whoever claims it.
LEMMA ClaimCredentials ==
    ASSUME TypeOK, InvCredentials, NEW who, ClaimCleanup(who), UNCHANGED <<redeem, relay, shutdown>>
    PROVE  InvCredentials'
<1>1. CASE ClearRemote
  BY <1>1, ClearInv
<1>2. CASE UNCHANGED <<loginVars, relayCanceled>>
  BY <1>2, CredentialsUntouched DEF loginVars
<1>3. QED BY <1>1, <1>2 DEF ClaimCleanup

LEMMA ClaimCleans ==
    ASSUME TypeOK, InvCleanup, NEW who, who # "none", ClaimCleanup(who),
           UNCHANGED <<viewerCancel, relay>>
    PROVE  InvCleanup'
<1>1. CASE UNCHANGED <<loginVars, relayCanceled>>
  BY <1>1, CleanupUntouched DEF loginVars
<1>2. CASE login \notin {"committing", "gone"} /\ login' = "gone" /\ cleaner' = who /\ cleanup' = "claimed"
  BY <1>2 DEF InvCleanup
<1>3. QED BY <1>1, <1>2 DEF ClaimCleanup

LEMMA ClaimLease ==
    ASSUME TypeOK, InvLease, NEW who, who # "grace", ClaimCleanup(who),
           UNCHANGED <<conn, owner, graceHeld, grace, relay, stream>>
    PROVE  InvLease'
<1>1. CASE UNCHANGED <<loginVars, relayCanceled>>
  BY <1>1, LeaseUntouched DEF loginVars
<1>2. CASE login \notin {"committing", "gone"} /\ login' = "gone" /\ cleaner' = who /\ ClearRemote
  <2>1. relay' = "none" => ~relayCanceled'
    BY <1>2 DEF ClearRemote, InvLease, TypeOK
  <2>2. QED BY <1>2, <2>1 DEF InvLease, OneViewer, GraceSparesViewers
<1>3. QED BY <1>1, <1>2 DEF ClaimCleanup

LEMMA ClearTypes ==
    ASSUME TypeOK, ClearRemote
    PROVE  grant' \in BOOLEAN /\ viewer' \in {"none"} \cup Requests /\ relayCanceled' \in BOOLEAN
BY DEF TypeOK, ClearRemote

LEMMA ClaimTypes ==
    ASSUME TypeOK, NEW who, ClaimCleanup(who),
           who \in {"grace", "expirer", "viewer", "owner", "shutdown"} \cup Requests \cup Connections
    PROVE  /\ login' \in {"open", "finishing", "failing", "committing", "decided", "gone"}
           /\ grant' \in BOOLEAN
           /\ viewer' \in {"none"} \cup Requests
           /\ cleaner' \in {"none", "grace", "expirer", "viewer", "owner", "shutdown"}
                              \cup Requests \cup Connections
           /\ cleanup' \in {"none", "claimed", "joining", "done"}
           /\ relayCanceled' \in BOOLEAN
BY DEF TypeOK, ClaimCleanup, ClearRemote, loginVars

\* The cleanup of the login preserves the invariant.
LEMMA CleanupInv == ASSUME IInv, Cleanup PROVE IInv'
<1> USE DEF IInv, CleanupRest, relayVars, leaseVars, requestVars, restVars
<1>1. InvCredentials' /\ InvLease'
  BY CredentialsUntouched, LeaseUntouched DEF Cleanup, CleanupCancel, CleanupJoin
<1>2. TypeOK'
  BY DEF TypeOK, Cleanup, CleanupCancel, CleanupJoin
<1>3. InvCleanup'
  BY DEF TypeOK, InvCleanup, Joined, Cleanup, CleanupCancel, CleanupJoin
<1>4. QED BY <1>1, <1>2, <1>3

\* So does what the worker and the owner of the login do to it.
LEMMA LoginInv == ASSUME IInv, WorkerFinalize \/ WorkerDecide \/ OwnerCleanup PROVE IInv'
<1> USE DEF IInv, LoginRest, leaseVars, requestVars, restVars
<1>1. CASE WorkerFinalize
  <2>1. InvCredentials' BY <1>1, ClearInv DEF WorkerFinalize
  <2>2. TypeOK' BY <1>1, ClearTypes DEF WorkerFinalize, TypeOK
  <2>3. InvCleanup' BY <1>1 DEF WorkerFinalize, InvCleanup, Joined
  <2>4. relay' = "none" => ~relayCanceled'
    BY <1>1 DEF WorkerFinalize, ClearRemote, InvLease, TypeOK
  <2>5. InvLease'
    BY <1>1, <2>4 DEF WorkerFinalize, InvLease, OneViewer, GraceSparesViewers
  <2>6. QED BY <2>1, <2>2, <2>3, <2>5
<1>2. CASE WorkerDecide
  <2>1. TypeOK' BY <1>2 DEF WorkerDecide, TypeOK
  <2>2. InvCredentials'
    BY <1>2 DEF WorkerDecide, InvCredentials, CredentialsDieWithLogin, closed
  <2>3. InvCleanup' BY <1>2 DEF WorkerDecide, InvCleanup, Joined
  <2>4. InvLease' BY <1>2 DEF WorkerDecide, InvLease, OneViewer, GraceSparesViewers
  <2>5. QED BY <2>1, <2>2, <2>3, <2>4
<1>3. CASE OwnerCleanup
  <2>1. TypeOK' BY <1>3, ClaimTypes DEF OwnerCleanup, TypeOK
  <2>2. QED BY <1>3, <2>1, ClaimCredentials, ClaimCleans, ClaimLease DEF OwnerCleanup
<1>4. QED BY <1>1, <1>2, <1>3

\* So do the redemption of the grant and the lookup before the cookie.
LEMMA RedeemInv ==
    ASSUME IInv, NEW r \in Requests, Redeem(r) \/ RedeemLookup(r) \/ RedeemRefuse(r)
    PROVE  IInv'
<1> USE RemoteViewerAssumption DEF IInv, RedeemRest, leaseVars, restVars
<1>1. CASE Redeem(r)
  <2>1. CASE closed \/ ~grant
    <3>1. UNCHANGED <<loginVars, relayCanceled>> /\ redeem' = [redeem EXCEPT ![r] = "refused"]
      BY <1>1, <2>1 DEF Redeem
    <3>2. InvCredentials'
      BY <1>1, <3>1 DEF Redeem, loginVars, TypeOK, InvCredentials, CredentialsDieWithLogin, closed
    <3>3. TypeOK' BY <1>1, <3>1 DEF Redeem, loginVars, TypeOK
    <3>4. QED BY <1>1, <3>1, <3>2, <3>3, CleanupUntouched, LeaseUntouched DEF Redeem, loginVars
  <2>2. CASE ~closed /\ grant /\ stale
    <3>1. ClaimCleanup(r) /\ redeem' = [redeem EXCEPT ![r] = "refusing"]
      BY <1>1, <2>2 DEF Redeem
    <3>2. login' = "gone" /\ ClearRemote
      BY <2>2, <3>1, SessionMeansOpen DEF ClaimCleanup
    <3>3. relay' # "none" => relayCanceled'
      BY <1>1, <3>2 DEF Redeem, ClearRemote, TypeOK, InvCredentials
    <3>4. InvCredentials'
      BY <3>1, <3>2, <3>3 DEF ClearRemote, TypeOK, InvCredentials, CredentialsDieWithLogin
    <3>5. TypeOK' BY <1>1, <3>1, ClaimTypes DEF Redeem, TypeOK
    <3>6. QED BY <1>1, <3>1, <3>4, <3>5, ClaimCleans, ClaimLease DEF Redeem
  <2>3. CASE ~closed /\ grant /\ ~stale
    <3>1. /\ grant' = FALSE /\ viewer' = r /\ redeem' = [redeem EXCEPT ![r] = "redeemed"]
          /\ UNCHANGED <<login, cleaner, cleanup, relayCanceled>>
      BY <1>1, <2>3 DEF Redeem
    <3>2. InvCredentials'
      BY <1>1, <2>3, <3>1 DEF Redeem, TypeOK, InvCredentials, CredentialsDieWithLogin, closed
    <3>3. RedeemRest BY <1>1 DEF Redeem
    <3>4. grant' \in BOOLEAN /\ viewer' \in {"none"} \cup Requests
      BY <3>1
    <3>5. redeem' \in [Requests -> {"idle", "redeemed", "cookie", "refusing", "refused"}]
      BY <3>1 DEF TypeOK
    <3>6. UNCHANGED <<relay, stream, owner, graceHeld, grace, conn, viewerCancel>>
      BY <3>3
    <3>7. UNCHANGED <<expirer, stale, shutdown>>
      BY <3>3
    <3>8. TypeOK' BY <3>1, <3>4, <3>5, <3>6, <3>7 DEF TypeOK
    <3>9. QED BY <3>1, <3>2, <3>3, <3>8, CleanupUntouched, LeaseUntouched
  <2>4. QED BY <2>1, <2>2, <2>3 DEF TypeOK
<1>2. CASE RedeemLookup(r)
  <2>1. CASE UNCHANGED <<loginVars, relayCanceled>>
    <3>1. /\ redeem[r] = "redeemed"
          /\ \/ viewer # r /\ redeem' = [redeem EXCEPT ![r] = "refused"]
             \/ redeem' = [redeem EXCEPT ![r] = "cookie"]
      <4>1. CASE closed
        BY <1>2, <2>1, <4>1, SessionMeansOpen DEF RedeemLookup, loginVars, TypeOK
      <4>2. CASE ~closed /\ viewer # r
        BY <1>2, <4>2 DEF RedeemLookup
      <4>3. CASE ~closed /\ viewer = r
        <5>1. ~ClaimCleanup(r)
          BY <2>1, <4>3, SessionMeansOpen DEF ClaimCleanup, loginVars, TypeOK
        <5>2. QED BY <1>2, <4>3, <5>1 DEF RedeemLookup
      <4>4. QED BY <4>1, <4>2, <4>3
    <3>2. InvCredentials'
      BY <1>2, <2>1, <3>1 DEF RedeemLookup, loginVars, TypeOK, InvCredentials, CredentialsDieWithLogin, closed
    <3>3. TypeOK' BY <2>1, <3>1, <1>2 DEF RedeemLookup, loginVars, TypeOK
    <3>4. QED BY <1>2, <2>1, <3>2, <3>3, CleanupUntouched, LeaseUntouched DEF RedeemLookup, loginVars
  <2>2. CASE viewer = r /\ ClaimCleanup(r) /\ redeem' = [redeem EXCEPT ![r] = "refusing"]
    <3>1. login' = "gone" /\ ClearRemote
      BY <2>2, SessionMeansOpen DEF ClaimCleanup, TypeOK
    <3>2. relay' # "none" => relayCanceled'
      BY <1>2, <3>1 DEF RedeemLookup, ClearRemote, TypeOK, InvCredentials
    <3>3. InvCredentials'
      BY <2>2, <3>1, <3>2 DEF ClearRemote, TypeOK, InvCredentials, CredentialsDieWithLogin
    <3>4. TypeOK' BY <1>2, <2>2, ClaimTypes DEF RedeemLookup, TypeOK
    <3>5. QED BY <1>2, <2>2, <3>3, <3>4, ClaimCleans, ClaimLease DEF RedeemLookup
  <2>3. QED BY <1>2, <2>1, <2>2 DEF RedeemLookup
<1>3. CASE RedeemRefuse(r)
  <2>1. InvCredentials'
    BY <1>3 DEF RedeemRefuse, loginVars, TypeOK, InvCredentials, CredentialsDieWithLogin, closed
  <2>2. TypeOK' BY <1>3 DEF RedeemRefuse, loginVars, TypeOK
  <2>3. QED BY <1>3, <2>1, <2>2, CleanupUntouched, LeaseUntouched DEF RedeemRefuse, loginVars
<1>4. QED BY <1>1, <1>2, <1>3

\* So do the viewer's cancel and the TTL's goroutine.
LEMMA CancelInv == ASSUME IInv, ViewerCancel \/ ViewerCancelReturn PROVE IInv'
<1> USE RemoteViewerAssumption DEF IInv, ViewerCancelRest, leaseVars, restVars
<1>1. CASE ViewerCancel
  <2>1. CASE UNCHANGED <<loginVars, relayCanceled>> /\ viewerCancel' = "refused"
    <3>1. InvCleanup' BY <1>1, <2>1 DEF ViewerCancel, loginVars, InvCleanup, Joined
    <3>2. TypeOK' BY <1>1, <2>1 DEF ViewerCancel, loginVars, TypeOK
    <3>3. QED BY <1>1, <2>1, <3>1, <3>2, CredentialsUntouched, LeaseUntouched DEF ViewerCancel, loginVars
  <2>2. CASE viewer # "none" /\ ClaimCleanup("viewer") /\ viewerCancel' \in {"refusing", "canceling"}
    <3>1. login' = "gone" /\ cleaner' = "viewer" /\ cleanup' = "claimed"
      BY <2>2, SessionMeansOpen DEF ClaimCleanup
    <3>2. InvCleanup' BY <2>2, <3>1 DEF InvCleanup
    <3>3. TypeOK' BY <1>1, <2>2, ClaimTypes DEF ViewerCancel, TypeOK
    <3>4. QED BY <1>1, <2>2, <3>2, <3>3, ClaimCredentials, ClaimLease DEF ViewerCancel
  <2>3. QED BY <1>1, <2>1, <2>2 DEF ViewerCancel
<1>2. CASE ViewerCancelReturn
  <2>1. InvCleanup'
    BY <1>2 DEF ViewerCancelReturn, CleanedUpBy, loginVars, TypeOK, InvCleanup, Joined
  <2>2. TypeOK' BY <1>2 DEF ViewerCancelReturn, loginVars, TypeOK
  <2>3. QED BY <1>2, <2>1, <2>2, CredentialsUntouched, LeaseUntouched DEF ViewerCancelReturn, loginVars
<1>3. QED BY <1>1, <1>2

LEMMA ExpirerInv == ASSUME IInv, Expire \/ Expirer PROVE IInv'
<1> USE RemoteViewerAssumption DEF IInv, ExpirerRest, leaseVars, requestVars, relayVars, loginVars
<1>1. CASE UNCHANGED <<loginVars, relayCanceled>>
  <2>1. expirer' \in {"running", "cleaning", "done"} /\ stale' \in BOOLEAN
    BY <1>1 DEF TypeOK, Expire, Expirer, ExpirerFire, ExpirerWake, ExpirerReturn
  <2>2. UNCHANGED <<relay, stream, leaseVars, requestVars, conn, shutdown>>
    BY <1>1 DEF Expire, Expirer, ExpirerFire, ExpirerWake, ExpirerReturn
  <2>3. TypeOK' BY <1>1, <2>1, <2>2 DEF TypeOK
  <2>4. QED
    BY <1>1, <2>2, <2>3, CredentialsUntouched, CleanupUntouched, LeaseUntouched
       DEF Expire, Expirer, ExpirerFire, ExpirerWake, ExpirerReturn
<1>2. CASE ClaimCleanup("expirer") /\ ExpirerFire
  <2>1. TypeOK' BY <1>2, ClaimTypes DEF ExpirerFire, TypeOK
  <2>2. QED BY <1>2, <2>1, ClaimCredentials, ClaimCleans, ClaimLease DEF ExpirerFire
<1>3. QED BY <1>1, <1>2 DEF Expire, Expirer, ExpirerFire, ExpirerWake, ExpirerReturn

\* The lease under the program counter of one connection.  A connection that stays
\* outside, or stays inside without having joined a grace before, changes nothing else.
LEMMA StepLease ==
    ASSUME TypeOK, InvLease, NEW c \in Connections, NEW pc,
           Step(c, pc), conn[c] \in Owning <=> pc \in Owning,
           pc # "joining", conn[c] # "joining" \/ grace = "done",
           relay = "none" => relay' = "none", stream = "none" => stream' = "none",
           relay' = "none" => relay = "none",
           UNCHANGED <<owner, graceHeld, grace, relayCanceled, stream, login, cleaner>>
    PROVE  InvLease'
BY DEF TypeOK, InvLease, OneViewer, GraceSparesViewers, Step, Owning

\* The claim of a connection preserves the invariant: no grace of an earlier one is left
\* to act, or it is held and is joined.
LEMMA ClaimConnectionInv ==
    ASSUME IInv, NEW c \in Connections, ClaimConnection(c)
    PROVE  IInv'
<1> USE RemoteViewerAssumption DEF IInv, ConnRest, requestVars, restVars
<1>1. conn[c] = "idle" /\ c # "none" /\ c # "grace"
  BY DEF ClaimConnection
<1>2. CASE Step(c, "refused") /\ UNCHANGED <<loginVars, relay, relayCanceled, owner, graceHeld>>
  <2>1. InvLease'
    BY <1>1, <1>2, StepLease DEF ClaimConnection, loginVars, Owning
  <2>2. TypeOK' BY <1>2 DEF ClaimConnection, Step, loginVars, TypeOK
  <2>3. QED BY <1>2, <2>1, <2>2, CredentialsUntouched, CleanupUntouched DEF ClaimConnection, loginVars
<1>3. CASE viewer # "none" /\ ClaimCleanup(c) /\ Step(c, "refusing") /\ UNCHANGED <<relay, owner, graceHeld>>
  <2>1. TypeOK' BY <1>3, ClaimTypes DEF ClaimConnection, Step, TypeOK
  <2>2. login = "open" /\ login' = "gone" /\ cleaner' = c /\ ClearRemote
    BY <1>3, SessionMeansOpen DEF ClaimCleanup
  <2>3. relay' = "none" => ~relayCanceled'
    BY <1>3, <2>2 DEF ClearRemote, InvLease, TypeOK
  <2>4. InvLease'
    BY <1>1, <1>3, <2>2, <2>3
       DEF ClaimConnection, Step, TypeOK, InvLease, OneViewer, GraceSparesViewers, Owning
  <2>5. QED BY <1>1, <1>3, <2>1, <2>4, ClaimCredentials, ClaimCleans DEF ClaimConnection
<1>4. CASE /\ ~closed /\ viewer # "none" /\ owner = "none"
           /\ relay' = IF relay = "none" THEN "waiting" ELSE relay
           /\ owner' = c /\ graceHeld' = FALSE
           /\ Step(c, IF graceHeld THEN "joining" ELSE "claimed")
           /\ UNCHANGED <<loginVars, relayCanceled>>
  <2>1. login = "open" BY <1>4, SessionMeansOpen
  <2>2. UNCHANGED <<grace, stream, redeem, viewerCancel, expirer, stale, shutdown>>
    BY DEF ClaimConnection
  <2>3. InvCredentials'
    BY <1>4, <2>2 DEF loginVars, InvCredentials, CredentialsDieWithLogin, closed
  <2>4. InvCleanup'
    BY <1>4, <2>1, <2>2 DEF loginVars, InvCleanup, Joined, TypeOK
  <2>5. TypeOK'
    <3>1. graceHeld' \in BOOLEAN /\ owner' \in {"none"} \cup Connections BY <1>4
    <3>2. conn' \in [Connections -> {"idle", "refusing", "refused", "done"} \cup Owning]
      BY <1>4 DEF TypeOK, Step, Owning
    <3>3. QED BY <1>4, <2>2, <3>1, <3>2 DEF TypeOK, loginVars
  <2>6. \A d \in Connections : conn[d] \notin Owning
    BY <1>4 DEF InvLease
  <2>7. InvLease'
    <3>1. CASE graceHeld
      <4>1. conn' = [conn EXCEPT ![c] = "joining"] BY <1>4, <3>1 DEF Step
      <4>2. QED
        BY <1>1, <1>4, <2>1, <2>2, <2>6, <3>1, <4>1
           DEF TypeOK, InvLease, OneViewer, GraceSparesViewers, loginVars, Owning, InvCleanup
    <3>2. CASE ~graceHeld
      <4>1. conn' = [conn EXCEPT ![c] = "claimed"] BY <1>4, <3>2 DEF Step
      <4>2. grace \in {"none", "done"}
        BY <2>1, <2>6, <3>2 DEF TypeOK, InvLease, Owning
      <4>3. QED
        BY <1>1, <1>4, <2>1, <2>2, <2>6, <4>1, <4>2
           DEF TypeOK, InvLease, OneViewer, GraceSparesViewers, loginVars, Owning, InvCleanup
    <3>3. QED BY <3>1, <3>2
  <2>8. QED BY <2>3, <2>4, <2>5, <2>7
<1>5. QED BY <1>2, <1>3, <1>4 DEF ClaimConnection

\* So do the steps of a connection that leave the lease alone.
LEMMA ConnectionInv ==
    ASSUME IInv, NEW c \in Connections,
           JoinGrace(c) \/ AwaitReady(c) \/ ServeEnd(c) \/ ConnectionCleaned(c)
    PROVE  IInv'
<1> USE DEF IInv, ConnOnly, loginVars, relayVars, leaseVars, requestVars, restVars
<1>1. ConnOnly BY DEF JoinGrace, AwaitReady, ServeEnd, ConnectionCleaned
<1>2. TypeOK' BY <1>1 DEF TypeOK, JoinGrace, AwaitReady, ServeEnd, ConnectionCleaned, Step, Owning
<1>3. InvLease'
  <2>1. CASE JoinGrace(c)
    BY <1>1, <2>1, StepLease DEF JoinGrace, Owning
  <2>2. CASE AwaitReady(c)
    BY <1>1, <2>2, StepLease DEF AwaitReady, Owning
  <2>3. CASE ServeEnd(c)
    BY <1>1, <2>3, StepLease DEF ServeEnd, Owning
  <2>4. CASE ConnectionCleaned(c)
    BY <1>1, <2>4, StepLease DEF ConnectionCleaned, Owning
  <2>5. QED BY <2>1, <2>2, <2>3, <2>4
<1>4. QED BY <1>1, <1>2, <1>3, CredentialsUntouched, CleanupUntouched

LEMMA ActivateInv == ASSUME IInv, NEW c \in Connections, Activate(c) PROVE IInv'
<1> USE DEF IInv, ConnRest, loginVars, leaseVars, requestVars, restVars
<1>1. conn[c] = "claimed" /\ relay # "none"
  BY RemoteViewerAssumption DEF Activate, InvLease, Owning
<1>2. relay' = relay \/ (relay = "waiting" /\ relay' = "starting")
  BY DEF Activate
<1>3. TypeOK' BY <1>2 DEF TypeOK, Activate, Step, Owning
<1>4. InvCredentials'
  BY <1>1, <1>2 DEF Activate, InvCredentials, CredentialsDieWithLogin, closed
<1>5. InvCleanup' BY <1>2 DEF Activate, InvCleanup, Joined
<1>6. InvLease' BY <1>1, <1>2, StepLease DEF Activate, Owning
<1>7. QED BY <1>3, <1>4, <1>5, <1>6

LEMMA ServeViolationInv == ASSUME IInv, NEW c \in Connections, ServeViolation(c) PROVE IInv'
<1> USE RemoteViewerAssumption DEF IInv, ConnRest, leaseVars, requestVars, restVars
<1>1. conn[c] = "serving" /\ ClaimCleanup(c) /\ c # "none" /\ c # "grace"
  BY DEF ServeViolation
<1>2. TypeOK' BY <1>1, ClaimTypes DEF ServeViolation, TypeOK, Step, Owning
<1>3. cleaner' # "grace"
  <2>1. cleaner # "grace" BY <1>1 DEF InvLease, GraceSparesViewers, Owning
  <2>2. QED BY <1>1, <2>1 DEF ClaimCleanup, loginVars
<1>4. relay' = "none" => ~relayCanceled'
  BY <1>1 DEF ServeViolation, InvLease, Owning
<1>5. login = "gone" => login' = "gone"
  BY <1>1 DEF ClaimCleanup, loginVars
<1>6. InvLease'
  BY <1>1, <1>3, <1>4, <1>5 DEF ServeViolation, Step, TypeOK, InvLease, OneViewer, GraceSparesViewers, Owning
<1>7. QED BY <1>1, <1>2, <1>6, ClaimCredentials, ClaimCleans DEF ServeViolation

\* The release: a grace it starts finds the lease free.
LEMMA ReleaseInv == ASSUME IInv, NEW c \in Connections, Release(c) PROVE IInv'
<1> USE RemoteViewerAssumption DEF IInv, ConnRest, loginVars, requestVars, restVars
<1>1. /\ conn[c] \in {"lost", "finished", "leaving"} /\ owner = c /\ owner' = "none"
      /\ conn' = [conn EXCEPT ![c] = "done"]
  BY DEF Release, Step, InvLease, Owning
<1>2. UNCHANGED <<login, grant, viewer, cleaner, cleanup, relay, relayCanceled, stream>>
  BY DEF Release
<1>3. UNCHANGED <<redeem, viewerCancel, expirer, stale, shutdown>>
  BY DEF Release
<1>4. \A d \in Connections : conn'[d] \notin Owning
  BY <1>1 DEF TypeOK, InvLease, Owning
<1>5. CASE UNCHANGED <<graceHeld, grace>>
  <2>1. TypeOK' BY <1>1, <1>2, <1>3, <1>5 DEF TypeOK
  <2>2. InvLease'
    BY <1>1, <1>2, <1>4, <1>5 DEF TypeOK, InvLease, OneViewer, GraceSparesViewers, Owning
  <2>3. QED BY <1>2, <1>3, <2>1, <2>2, CredentialsUntouched, CleanupUntouched
<1>6. CASE GraceDue /\ graceHeld' = TRUE /\ grace' = "running" /\ conn[c] # "leaving"
  <2>1. TypeOK' BY <1>1, <1>2, <1>3, <1>6 DEF TypeOK
  <2>2. InvLease'
    BY <1>1, <1>2, <1>4, <1>6 DEF TypeOK, InvLease, OneViewer, GraceSparesViewers, Owning
  <2>3. QED BY <1>2, <1>3, <2>1, <2>2, CredentialsUntouched, CleanupUntouched
<1>7. QED BY <1>5, <1>6 DEF Release

\* So does the grace: it gives the login up only while the lease is free.
LEMMA GraceInv == ASSUME IInv, Grace PROVE IInv'
<1> USE RemoteViewerAssumption DEF IInv, GraceRest, requestVars, restVars
<1>1. CASE UNCHANGED <<loginVars, relayCanceled>> /\ grace' \in {"fired", "done"}
           /\ (grace' = "fired" => grace = "running")
  <2>1. UNCHANGED <<owner, graceHeld, relay, stream, redeem, viewerCancel, conn>>
    BY DEF Grace, GraceFire, GraceWake, GraceClaim, GraceReturn
  <2>2. UNCHANGED <<expirer, stale, shutdown>>
    BY DEF Grace, GraceFire, GraceWake, GraceClaim, GraceReturn
  <2>3. TypeOK' BY <1>1, <2>1, <2>2 DEF TypeOK, loginVars
  <2>4. InvLease' BY <1>1, <2>1 DEF TypeOK, InvLease, OneViewer, GraceSparesViewers, loginVars
  <2>5. QED BY <1>1, <2>1, <2>2, <2>3, <2>4, CredentialsUntouched, CleanupUntouched DEF loginVars
<1>2. CASE GraceClaim /\ viewer # "none" /\ owner = "none" /\ ClaimCleanup("grace") /\ grace' = "cleaning"
  <2>1. login = "open" /\ login' = "gone" /\ ClearRemote
    BY <1>2, SessionMeansOpen DEF ClaimCleanup
  <2>2. TypeOK' BY <1>2, ClaimTypes DEF GraceClaim, TypeOK
  <2>3. relay' = "none" => ~relayCanceled'
    BY <1>2, <2>1 DEF GraceClaim, ClearRemote, InvLease, TypeOK
  <2>4. \A c \in Connections : conn[c] \notin Owning
    BY <1>2 DEF InvLease
  <2>5. InvLease'
    BY <1>2, <2>1, <2>3, <2>4 DEF GraceClaim, InvLease, OneViewer, GraceSparesViewers, Owning
  <2>6. QED BY <1>2, <2>2, <2>5, ClaimCredentials, ClaimCleans DEF GraceClaim
<1>3. QED BY <1>1, <1>2 DEF Grace, GraceFire, GraceWake, GraceClaim, GraceReturn

\* So does the relay.
LEMMA RelayInv ==
    ASSUME IInv, Relay \/ RelayAttach \/ StreamFinish
    PROVE  IInv'
<1> USE DEF IInv, RelayRest, leaseVars, requestVars, restVars
<1>1. CASE RelayReject /\ ClearRemote /\ login = "open"
  <2>1. TypeOK'
    BY <1>1, ClearTypes DEF RelayReject, TypeOK
  <2>2. relay' # "none" /\ relayCanceled'
    BY <1>1 DEF RelayReject, ClearRemote, InvCredentials
  <2>3. InvCredentials'
    BY <1>1, <2>2 DEF RelayReject, ClearRemote, InvCredentials, CredentialsDieWithLogin
  <2>4. InvCleanup' BY <1>1 DEF RelayReject, InvCleanup, Joined, TypeOK
  <2>5. InvLease' BY <1>1, <2>2 DEF RelayReject, InvLease, OneViewer, GraceSparesViewers
  <2>6. QED BY <2>1, <2>3, <2>4, <2>5
<1>2. CASE UNCHANGED <<login, grant, viewer, cleaner, cleanup, relayCanceled>>
  <2>1. relay # "none" /\ relay' # "none" /\ (Joined => relay' = "done")
    BY DEF Relay, RelayAbandon, RelayLaunch, RelayAttach, StreamFinish, RelayEnd, RelayFail,
           RelayReject, RelayPublish, Joined
  <2>2. UNCHANGED <<owner, graceHeld, grace, redeem, viewerCancel, conn, expirer, stale, shutdown>>
    BY DEF Relay, RelayAbandon, RelayLaunch, RelayAttach, StreamFinish, RelayEnd, RelayFail,
           RelayReject, RelayPublish
  <2>3. TypeOK'
    BY <1>2, <2>2 DEF TypeOK, Relay, RelayAbandon, RelayLaunch, RelayAttach, StreamFinish, RelayEnd,
           RelayFail, RelayReject, RelayPublish
  <2>4. InvCredentials' BY <1>2, <2>1, <2>2 DEF InvCredentials, CredentialsDieWithLogin, closed
  <2>5. InvCleanup' BY <1>2, <2>1, <2>2 DEF InvCleanup, Joined
  <2>6. InvLease' BY <1>2, <2>1, <2>2 DEF InvLease, OneViewer, GraceSparesViewers
  <2>7. QED BY <2>3, <2>4, <2>5, <2>6
<1>3. CASE RelayFail
  <2>1. TypeOK' BY <1>3 DEF RelayFail, TypeOK
  <2>2. InvCredentials' BY <1>3 DEF RelayFail, InvCredentials, CredentialsDieWithLogin, closed
  <2>3. InvCleanup' BY <1>3 DEF RelayFail, InvCleanup, Joined
  <2>4. InvLease' BY <1>3 DEF RelayFail, InvLease, OneViewer, GraceSparesViewers
  <2>5. QED BY <2>1, <2>2, <2>3, <2>4
<1>4. CASE RelayPublish
  <2>1. TypeOK' BY <1>4 DEF RelayPublish, TypeOK
  <2>2. InvCredentials' BY <1>4 DEF RelayPublish, InvCredentials, CredentialsDieWithLogin, closed
  <2>3. InvCleanup' BY <1>4 DEF RelayPublish, InvCleanup, Joined
  <2>4. InvLease' BY <1>4 DEF RelayPublish, InvLease, OneViewer, GraceSparesViewers
  <2>5. QED BY <2>1, <2>2, <2>3, <2>4
<1>5. QED
  BY <1>1, <1>2, <1>3, <1>4
     DEF Relay, RelayAbandon, RelayLaunch, RelayAttach, StreamFinish, RelayEnd, RelayReject

\* So does shutdown.
LEMMA ShutdownInv == ASSUME IInv, ShutdownSeal \/ Shutdown PROVE IInv'
<1> USE RemoteViewerAssumption DEF IInv, ShutdownRest, leaseVars, requestVars
<1>1. CASE ShutdownSeal
  <2>1. ClearRemote /\ UNCHANGED <<redeem, relay>>
    BY <1>1 DEF ShutdownSeal, ClaimCleanup
  <2>2. InvCredentials' BY <2>1, ClearInv
  <2>3. CASE ClaimCleanup("shutdown")
    <3>1. TypeOK' BY <1>1, <2>3, ClaimTypes DEF ShutdownSeal, TypeOK
    <3>2. QED BY <1>1, <2>2, <2>3, <3>1, ClaimCleans, ClaimLease DEF ShutdownSeal
  <2>4. CASE ClearRemote /\ UNCHANGED <<login, cleaner, cleanup>>
    <3>1. TypeOK' BY <1>1, <2>4, ClearTypes DEF ShutdownSeal, TypeOK
    <3>2. relay' = "none" => ~relayCanceled'
      BY <1>1, <2>4 DEF ShutdownSeal, ClearRemote, InvLease, TypeOK
    <3>3. InvCleanup' BY <1>1, <2>4, CleanupUntouched DEF ShutdownSeal
    <3>4. InvLease' BY <1>1, <2>4, <3>2 DEF ShutdownSeal, InvLease, OneViewer, GraceSparesViewers
    <3>5. QED BY <2>2, <3>1, <3>3, <3>4
  <2>5. QED BY <1>1, <2>3, <2>4 DEF ShutdownSeal
<1>2. CASE Shutdown
  <2>1. UNCHANGED <<loginVars, relayCanceled>> /\ ShutdownRest
    BY <1>2 DEF Shutdown, ShutdownCancel, ShutdownDrain
  <2>2. shutdown' \in {"canceled", "drained"} /\ closed
    BY <1>2 DEF Shutdown, ShutdownCancel, ShutdownDrain, closed
  <2>3. TypeOK' BY <2>1, <2>2 DEF TypeOK, loginVars
  <2>4. InvCredentials'
    BY <2>1, <2>2 DEF InvCredentials, CredentialsDieWithLogin, closed, loginVars
  <2>5. QED BY <2>1, <2>3, <2>4, CleanupUntouched, LeaseUntouched DEF loginVars
<1>3. QED BY <1>1, <1>2

\* A step that changes nothing preserves it.
LEMMA StutterInv == ASSUME IInv, UNCHANGED vars PROVE IInv'
<1> USE DEF vars, loginVars, relayVars, leaseVars, requestVars, restVars, IInv
<1>1. TypeOK' BY DEF TypeOK
<1>2. QED BY <1>1, CredentialsUntouched, CleanupUntouched, LeaseUntouched

\* The invariant of the remote viewer: in every reachable state, for every set of
\* requests and of connections.
THEOREM ViewerInvariance == Spec => []IInv
<1>1. ASSUME IInv, [Next]_vars PROVE IInv'
  <2>1. ASSUME NEW r \in Requests, Redeem(r) \/ Redeemer(r) PROVE IInv'
    BY <1>1, <2>1, RedeemInv DEF Redeemer
  <2>2. ASSUME NEW c \in Connections,
               ClaimConnection(c) \/ ServeEnd(c) \/ ServeViolation(c) \/ Handler(c)
        PROVE  IInv'
    BY <1>1, <2>2, ClaimConnectionInv, ConnectionInv, ActivateInv, ServeViolationInv, ReleaseInv
       DEF Handler
  <2>3. QED
    BY <1>1, <2>1, <2>2, CleanupInv, LoginInv, CancelInv, ExpirerInv, GraceInv, RelayInv,
       ShutdownInv, StutterInv DEF Next
<1>2. QED BY <1>1, InitInv, PTL DEF Spec

\* One viewer at a time, and nobody left of the grace of the one before
\* (claimRemoteCaptchaWebSocket, releaseRemoteCaptchaWebSocket).
THEOREM OnlyOneViewer == Spec => []OneViewer
<1>1. IInv => OneViewer BY DEF IInv, InvLease
<1>2. QED BY <1>1, ViewerInvariance, PTL

\* No grant and no session is accepted of a login that is sealed, decided, given up or
\* shut down, and its relay is canceled (clearRemoteCaptchaState and its callers).
THEOREM CredentialsDie == Spec => []CredentialsDieWithLogin
<1>1. IInv => CredentialsDieWithLogin BY DEF IInv, InvCredentials
<1>2. QED BY <1>1, ViewerInvariance, PTL

\* The grace gives a login up only with nobody connected
\* (expireRemoteCaptchaDisconnectGrace).
THEOREM GraceSparesTheConnected == Spec => []GraceSparesViewers
<1>1. IInv => GraceSparesViewers BY DEF IInv, InvLease
<1>2. QED BY <1>1, ViewerInvariance, PTL
=============================================================================
