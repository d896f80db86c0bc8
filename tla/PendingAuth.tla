---------------------------- MODULE PendingAuth -----------------------------
(***************************************************************************)
(* Logins that leave a row in the store while they are pending             *)
(* (internal/authweb/server.go, internal/store): the Riot Mobile QR login, *)
(* with the Discord handler and watcher that drive it, and the browser     *)
(* login whose redirect comes in as HTTP callbacks.  Rows survive a crash  *)
(* of the process; sessions, outcomes and workers do not.                  *)
(*                                                                         *)
(* A QR login is one goroutine after another: the handler of the button,   *)
(* then the watcher.  The store serves one statement or transaction at a   *)
(* time (SetMaxOpenConns(1)) and may fail.                                 *)
(***************************************************************************)
EXTENDS Naturals

CONSTANTS
    QR,         \* QR logins
    Browser,    \* browser logins
    Callbacks,  \* requests to /api/auth/callback
    MaxCrash    \* bound: crashes of the process

ASSUME PendingAuthAssumption ==
    /\ QR \cap Browser = {} /\ (QR \cup Browser) \cap Callbacks = {}
    /\ "none" \notin Browser
    /\ MaxCrash \in Nat

Logins == QR \cup Browser
Workers == QR \cup Callbacks

VARIABLES
    at,        \* where each QR login and callback stands
    begun,     \* BeginAuth of each browser login
    target,    \* the login a callback is for
    row,       \* auth_pending: the logins with a row
    session,   \* qrSessions
    outcomes,  \* the published outcomes of browser logins
    waiter,    \* WaitBrowserLogin: what it returned, once it has
    told,      \* what each QR login and callback learned
    links,     \* how often each login stored an account
    down,      \* open, sealed, drained, done
    failed,    \* did shutdown report that a row could not be taken?
    crashes

authVars == <<begun, session, outcomes, waiter>>
downVars == <<down, failed, crashes>>
vars == <<at, target, row, told, links, authVars, downVars>>

Init ==
    /\ at = [w \in Workers |-> "idle"]
    /\ begun = [b \in Browser |-> "idle"]
    /\ target = [c \in Callbacks |-> "none"]
    /\ row = {} /\ session = {}
    /\ outcomes = [b \in Browser |-> "absent"]
    /\ waiter = [b \in Browser |-> "idle"]
    /\ told = [w \in Workers |-> "nothing"]
    /\ links = [l \in Logins |-> 0]
    /\ down = "open" /\ failed = FALSE /\ crashes = 0

-----------------------------------------------------------------------------
Go(w, phase) == at' = [at EXCEPT ![w] = phase]
Tell(w, what) == told' = [told EXCEPT ![w] = what]
Stop(w, phase, what) == Go(w, phase) /\ Tell(w, what)

LoginOf(w) == IF w \in QR THEN w ELSE target[w]

closed == down # "open"

\* where a worker goes when its completion is over, whatever came of it
Over(w) == IF w \in QR THEN "leaving" ELSE "publishing"

-----------------------------------------------------------------------------
(* BeginQRAuth, called by the handler of the QR button.                    *)

QRRest == UNCHANGED <<target, links, begun, outcomes, waiter, downVars>>

\* a lifecycle operation
BeginQRAuth(q) ==
    /\ at[q] = "idle"
    /\ IF closed THEN Stop(q, "ended", "closed") ELSE Go(q, "starting") /\ UNCHANGED told
    /\ UNCHANGED <<row, session>> /\ QRRest

\* Riot opens a session, or refuses
StartQRSession(q) ==
    /\ at[q] = "starting"
    /\ \/ Go(q, "storing") /\ UNCHANGED told
       \/ Stop(q, "ended", "failed")
    /\ UNCHANGED <<row, session>> /\ QRRest

PutRow(q) ==
    /\ at[q] = "storing"
    /\ \/ Go(q, "registering") /\ row' = row \cup {q} /\ UNCHANGED told
       \/ Stop(q, "ended", "failed") /\ UNCHANGED row
    /\ UNCHANGED session /\ QRRest

\* a server that closed in between keeps the row
Register(q) ==
    /\ at[q] = "registering"
    /\ IF closed THEN Stop(q, "ended", "closed") /\ UNCHANGED session
                 ELSE Go(q, "encoding") /\ session' = session \cup {q} /\ UNCHANGED told
    /\ UNCHANGED row /\ QRRest

\* HandleAuthQR: the image; an error ends the handler and nobody waits for the login
Encode(q) ==
    /\ at[q] = "encoding"
    /\ \/ Go(q, "showing") /\ UNCHANGED told
       \/ Stop(q, "ended", "unscanned")
    /\ UNCHANGED <<row, session>> /\ QRRest

\* the edit: definitely not delivered, or perhaps; closed handlers start no watcher
Show(q) ==
    /\ at[q] = "showing"
    /\ \/ Go(q, "canceling") /\ UNCHANGED told
       \/ Go(q, "waiting") /\ UNCHANGED told
       \/ Stop(q, "ended", "unwatched")
    /\ UNCHANGED <<row, session>> /\ QRRest

\* CancelQRAuth: first the row, then the session
CancelRow(q) ==
    /\ at[q] = "canceling"
    /\ \/ Go(q, "forgetting") /\ row' = row \ {q} /\ UNCHANGED told
       \/ Stop(q, "ended", "unstored") /\ UNCHANGED row
    /\ UNCHANGED session /\ QRRest

CancelSession(q) ==
    /\ at[q] = "forgetting"
    /\ Stop(q, "ended", "canceled")
    /\ session' = session \ {q}
    /\ UNCHANGED row /\ QRRest

-----------------------------------------------------------------------------
(* WaitQRLogin, called by the watcher.                                     *)

\* admitted as a lifecycle operation, or the server is closed
WaitQRLogin(q) ==
    /\ at[q] = "waiting"
    /\ IF closed THEN Stop(q, "speaking", "closed") ELSE Go(q, "looking") /\ UNCHANGED told
    /\ UNCHANGED <<row, session>> /\ QRRest

\* qrSessions is read under Server.mu again; the clean up is deferred only once it had
\* the session, so one that shutdown has cleared in between leaves the row
LookUp(q) ==
    /\ at[q] = "looking"
    /\ IF q \in session THEN Go(q, "polling") /\ UNCHANGED told
                         ELSE Stop(q, "speaking", "unknown")
    /\ UNCHANGED <<row, session>> /\ QRRest

\* approved and exchanged for tokens; or expired, refused, or the context ended
Poll(q) ==
    /\ at[q] = "polling"
    /\ \/ Go(q, "taking") /\ UNCHANGED told
       \/ Stop(q, "leaving", IF closed THEN "closed" ELSE "failed")
    /\ UNCHANGED <<row, session>> /\ QRRest

\* mutation: the session stays when the wait is over
LeaveSession(q) ==
    /\ at[q] = "leaving"
    /\ \/ Go(q, "speaking") /\ row' = row \ {q} /\ UNCHANGED told
       \/ /\ Go(q, "speaking") /\ UNCHANGED row
          /\ Tell(q, IF told[q] = "done" THEN "done" ELSE "unstored")
    /\ UNCHANGED session /\ QRRest

\* the deferred clean up; an error of the store is ignored
Leave(q) ==
    /\ at[q] = "leaving"
    /\ \/ Go(q, "speaking") /\ row' = row \ {q} /\ UNCHANGED told
       \/ /\ Go(q, "speaking") /\ UNCHANGED row
          /\ Tell(q, IF told[q] = "done" THEN "done" ELSE "unstored")
    /\ session' = session \ {q}
    /\ QRRest

\* watchQRLogin rewrites the message
Speak(q) ==
    /\ at[q] = "speaking"
    /\ Go(q, "ended")
    /\ UNCHANGED <<row, session, told>> /\ QRRest

-----------------------------------------------------------------------------
(* BeginAuth and its callbacks.                                            *)

BrowserRest == UNCHANGED <<at, target, told, links, session, downVars>>

BeginAuth(b) ==
    /\ begun[b] = "idle"
    /\ begun' = [begun EXCEPT ![b] = IF closed THEN "refused" ELSE "storing"]
    /\ UNCHANGED <<row, outcomes, waiter>> /\ BrowserRest

BeginPutRow(b) ==
    /\ begun[b] = "storing"
    /\ \/ begun' = [begun EXCEPT ![b] = "registering"] /\ row' = row \cup {b}
       \/ begun' = [begun EXCEPT ![b] = "refused"] /\ UNCHANGED row
    /\ UNCHANGED <<outcomes, waiter>> /\ BrowserRest

\* mutation: what BeginQRAuth does when the server closed in between
BeginRegisterKeepsRow(b) ==
    /\ begun[b] = "registering"
    /\ IF closed
       THEN begun' = [begun EXCEPT ![b] = "refused"] /\ UNCHANGED outcomes
       ELSE /\ begun' = [begun EXCEPT ![b] = "open"]
            /\ outcomes' = [outcomes EXCEPT ![b] = "waiting"]
    /\ UNCHANGED <<row, waiter>> /\ BrowserRest

\* a server that closed in between takes the row back
BeginRegister(b) ==
    /\ begun[b] = "registering"
    /\ IF closed
       THEN begun' = [begun EXCEPT ![b] = "rolling back"] /\ UNCHANGED outcomes
       ELSE /\ begun' = [begun EXCEPT ![b] = "open"]
            /\ outcomes' = [outcomes EXCEPT ![b] = "waiting"]
    /\ UNCHANGED <<row, waiter>> /\ BrowserRest

BeginRollBack(b) ==
    /\ begun[b] = "rolling back"
    /\ \/ begun' = [begun EXCEPT ![b] = "refused"] /\ row' = row \ {b}
       \/ begun' = [begun EXCEPT ![b] = "unstored"] /\ UNCHANGED row
    /\ UNCHANGED <<outcomes, waiter>> /\ BrowserRest

\* handleCallback and CompleteFromRedirectURL are lifecycle operations; the browser
\* has the state of a login once its URL was handed out
Callback(c) ==
    /\ at[c] = "idle"
    /\ \E b \in Browser :
          /\ begun[b] = "open"
          /\ target' = [target EXCEPT ![c] = b]
          /\ IF closed THEN Stop(c, "ended", "closed")
                       ELSE Go(c, "taking") /\ UNCHANGED told
    /\ UNCHANGED <<row, links, authVars, downVars>>

\* setOutcome: the last callback to come wins, unless the server closed
Publish(c) ==
    /\ at[c] = "publishing"
    /\ Go(c, "ended")
    /\ outcomes' = [outcomes EXCEPT ![target[c]] =
                       IF closed THEN @ ELSE IF told[c] = "done" THEN "ok" ELSE "failed"]
    /\ UNCHANGED <<target, row, told, links, begun, session, waiter, downVars>>

WaitBrowserLogin(b) ==
    /\ waiter[b] = "idle"
    /\ begun[b] = "open" /\ ~closed
    /\ waiter' = [waiter EXCEPT ![b] = "waiting"]
    /\ UNCHANGED <<row, begun, outcomes>> /\ BrowserRest

\* an outcome is polled for; the context ends, by shutdown too: who waits for the next
\* tick when an outcome is published may see either first
WaitReturns(b) ==
    /\ waiter[b] = "waiting"
    /\ \/ /\ outcomes[b] \in {"ok", "failed"}
          /\ waiter' = [waiter EXCEPT ![b] = outcomes[b]]
       \/ waiter' = [waiter EXCEPT ![b] = IF closed THEN "closed" ELSE "expired"]
    /\ UNCHANGED <<row, begun, outcomes>> /\ BrowserRest

-----------------------------------------------------------------------------
(* The completion both kinds share.                                        *)

CompleteRest == UNCHANGED <<target, authVars, downVars>>

\* mutation: the row is read and not deleted
TakeByReading(w) ==
    /\ at[w] = "taking"
    /\ \/ LoginOf(w) \in row /\ Go(w, "preparing") /\ UNCHANGED told
       \/ Stop(w, Over(w), "failed")
    /\ UNCHANGED <<row, links>> /\ CompleteRest

\* TakeAuthPending: one transaction; it may fail, and find no row
Take(w) ==
    /\ at[w] = "taking"
    /\ \/ /\ LoginOf(w) \in row /\ row' = row \ {LoginOf(w)}
          /\ Go(w, "preparing") /\ UNCHANGED told
       \/ Stop(w, Over(w), "failed") /\ UNCHANGED row
    /\ UNCHANGED links /\ CompleteRest

\* prepareAccountLink asks Riot; a callback then claims its commit under Server.mu
Prepare(w) ==
    /\ at[w] = "preparing"
    /\ \/ (w \in QR \/ ~closed) /\ Go(w, "committing") /\ UNCHANGED told
       \/ Stop(w, Over(w), "failed")
    /\ UNCHANGED <<row, links>> /\ CompleteRest

\* commitAccountLink
Commit(w) ==
    /\ at[w] = "committing"
    /\ \/ Stop(w, Over(w), "done") /\ links' = [links EXCEPT ![LoginOf(w)] = @ + 1]
       \/ Stop(w, Over(w), "failed") /\ UNCHANGED links
    /\ UNCHANGED row /\ CompleteRest

-----------------------------------------------------------------------------
(* Shutdown, and the crash that is not one.                                *)

\* lifecycleWG
Enrolled ==
    {w \in Workers : at[w] \in {"starting", "storing", "registering", "looking", "polling",
                                "taking", "preparing", "committing", "leaving", "publishing"}}
    \cup {b \in Browser : begun[b] \in {"storing", "registering", "rolling back"}
                          \/ waiter[b] = "waiting"}

Seal ==
    /\ down = "open"
    /\ down' = "sealed"
    /\ session' = {}
    /\ UNCHANGED <<at, target, row, told, links, begun, outcomes, waiter, failed, crashes>>

\* mutation: shutdown does not wait for lifecycle operations
DrainAtOnce ==
    /\ down = "sealed"
    /\ down' = "drained"
    /\ UNCHANGED <<at, target, row, told, links, authVars, failed, crashes>>

Drain ==
    /\ down = "sealed"
    /\ Enrolled = {}
    /\ down' = "drained"
    /\ UNCHANGED <<at, target, row, told, links, authVars, failed, crashes>>

\* the rows of the browser logins it knows are taken back, one may fail
RollBack ==
    /\ down = "drained"
    /\ down' = "done"
    /\ LET known == {b \in Browser : outcomes[b] # "absent"}
       IN \E kept \in SUBSET (known \cap row) :
             /\ row' = row \ (known \ kept)
             /\ failed' = (kept # {})
    /\ outcomes' = [b \in Browser |-> "absent"]
    /\ UNCHANGED <<at, target, told, links, begun, session, waiter, crashes>>

\* the process dies and starts again: only rows and accounts are left, and the
\* browsers that still know their state
Crash ==
    /\ crashes < MaxCrash
    /\ crashes' = crashes + 1
    /\ at' = [w \in Workers |-> IF at[w] = "idle" THEN "idle" ELSE "ended"]
    /\ told' = [w \in Workers |-> IF at[w] \in {"idle", "ended"} THEN told[w] ELSE "crash"]
    /\ begun' = [b \in Browser |-> IF begun[b] \in {"idle", "open"} THEN begun[b] ELSE "crash"]
    /\ session' = {}
    /\ outcomes' = [b \in Browser |-> "absent"]
    /\ waiter' = [b \in Browser |-> IF waiter[b] = "waiting" THEN "crash" ELSE waiter[b]]
    /\ down' = "open" /\ failed' = FALSE
    /\ UNCHANGED <<target, row, links>>

-----------------------------------------------------------------------------
Complete(w) == Take(w) \/ Prepare(w) \/ Commit(w)
QRStep(q) == \/ StartQRSession(q) \/ PutRow(q) \/ Register(q) \/ Encode(q) \/ Show(q)
             \/ CancelRow(q) \/ CancelSession(q)
             \/ WaitQRLogin(q) \/ LookUp(q) \/ Poll(q) \/ Complete(q) \/ Leave(q) \/ Speak(q)
BrowserStep(b) == BeginPutRow(b) \/ BeginRegister(b) \/ BeginRollBack(b) \/ WaitReturns(b)
CallbackStep(c) == Complete(c) \/ Publish(c)

Next ==
    \/ \E q \in QR : BeginQRAuth(q) \/ QRStep(q)
    \/ \E b \in Browser : BeginAuth(b) \/ WaitBrowserLogin(b) \/ BrowserStep(b)
    \/ \E c \in Callbacks : Callback(c) \/ CallbackStep(c)
    \/ Seal \/ Drain \/ RollBack \/ Crash

Spec == Init /\ [][Next]_vars

-----------------------------------------------------------------------------
Phases == {"idle", "starting", "storing", "registering", "encoding", "showing", "canceling",
           "forgetting", "waiting", "looking", "polling", "taking", "preparing", "committing",
           "leaving", "speaking", "publishing", "ended"}
BeginPhases == {"idle", "storing", "registering", "rolling back", "open", "refused", "unstored",
                "crash"}
Outcomes == {"absent", "waiting", "ok", "failed"}
Returns == {"idle", "waiting", "ok", "failed", "closed", "expired", "crash"}
Answers == {"nothing", "done", "failed", "closed", "unknown", "unscanned", "unwatched",
            "unstored", "canceled", "crash"}

TypeOK ==
    /\ at \in [Workers -> Phases] /\ told \in [Workers -> Answers]
    /\ begun \in [Browser -> BeginPhases]
    /\ target \in [Callbacks -> Browser \cup {"none"}]
    /\ \A c \in Callbacks : at[c] \notin {"idle", "ended"} => target[c] \in Browser
    /\ row \subseteq Logins /\ session \subseteq QR
    /\ outcomes \in [Browser -> Outcomes] /\ waiter \in [Browser -> Returns]
    /\ links \in [Logins -> Nat]
    /\ down \in {"open", "sealed", "drained", "done"}
    /\ failed \in BOOLEAN
    /\ crashes \in 0..MaxCrash

Committers(l) == {w \in Workers : at[w] \in {"preparing", "committing"} /\ LoginOf(w) = l}

\* Of all that may complete a login only the one that took its row does: a row, a
\* completion under way and a stored account exclude each other.
RowOwnsLink ==
    \A l \in Logins :
        /\ links[l] <= 1
        /\ l \in row => links[l] = 0 /\ Committers(l) = {}
        /\ links[l] = 1 => Committers(l) = {}
        /\ \A v, w \in Committers(l) : v = w

\* What a QR login that is over leaves, by what was learned.
Left(q) ==
    /\ told[q] \in {"done", "failed", "canceled"} => q \notin row
    /\ told[q] \in {"done", "failed", "canceled", "closed", "unknown"} => q \notin session
    /\ told[q] = "unknown" => closed \/ crashes > 0

\* What a QR login holds, phase by phase.
QRPhase(q) ==
    /\ at[q] \in {"idle", "starting", "storing"} => q \notin row /\ q \notin session
    /\ at[q] = "registering" => q \notin session
    /\ at[q] \in {"encoding", "showing", "waiting", "looking"} => q \in session \/ closed
    /\ closed => q \notin session
    /\ at[q] \in {"forgetting", "preparing", "committing"} => q \notin row
    /\ at[q] = "leaving" /\ told[q] = "done" => q \notin row
    /\ at[q] \in {"speaking", "ended"} => Left(q)
    /\ told[q] = "unknown" => at[q] \in {"speaking", "ended"}
    /\ links[q] > 0 => at[q] \in {"leaving", "speaking", "ended"}

QRPhases == \A q \in QR : QRPhase(q)

\* Callbacks and accounts are of browser logins whose BeginAuth has returned.
BegunBefore ==
    /\ \A c \in Callbacks : target[c] \in Browser => begun[target[c]] = "open"
    /\ \A b \in Browser : links[b] > 0 => begun[b] = "open"

\* A browser login with a row is known to shutdown, unless BeginAuth still has it in
\* hand or a crash came between.
RowsAreKnown ==
    crashes = 0 /\ down # "done" =>
        \A b \in Browser : b \in row =>
            outcomes[b] # "absent" \/ begun[b] \in {"registering", "rolling back", "unstored"}

\* Nobody enrols once the server is closed, so that who drained it stays alone.
StaysDrained == down \in {"drained", "done"} => Enrolled = {}

\* Inductive, together with ShutdownRollsBack below.
IInv == TypeOK /\ RowOwnsLink /\ QRPhases /\ BegunBefore /\ RowsAreKnown /\ StaysDrained

\* A QR login that is over leaves neither row nor session, unless the server closed
\* under it, the store failed, nobody was there to wait for it, or the process died; and
\* its session is reported unknown, which leaves the row, only if the server closed
\* between the admission of WaitQRLogin and its look at qrSessions.
QRLeavesNothing == \A q \in QR : at[q] = "ended" => Left(q)

\* Whatever begins around a shutdown: when it is over without an error, a browser login
\* of this process has no row left, except one whose BeginAuth reported that.
ShutdownRollsBack ==
    down = "done" /\ ~failed /\ crashes = 0 =>
        \A b \in Browser : b \in row => begun[b] = "unstored"

\* No account is stored once the server has drained: Shutdown joins every completion
\* that could still reach the store, which the process closes next.
NoLinkAfterShutdown == [][(down \in {"drained", "done"}) => UNCHANGED links]_vars

=============================================================================
