---------------------------- MODULE Interactions ----------------------------
(***************************************************************************)
(* One user's password login as Discord sees it (internal/bot): the        *)
(* handlers and the watcher that rewrite the one message of the login, the *)
(* guards that order their edits, deliveries whose outcome may stay        *)
(* unknown, and the shutdown that joins them all.                          *)
(*                                                                         *)
(* The login itself is the abstract LoginPromise, which PasswordFlow is    *)
(* shown to implement; the second factor is abstracted from MFAFlow.  Each *)
(* handler serves one interaction.  A delivery Discord did not apply by    *)
(* the time the handler learns of its outcome is never applied.  The       *)
(* message is ephemeral: every interaction on it is its owner's.  A step   *)
(* that touches nothing shared is merged with the next one.                *)
(***************************************************************************)
EXTENDS Naturals, FiniteSets

CONSTANTS
    Modal,      \* the handler of the submitted password modal
    Clicks,     \* the handlers of clicks on the open button, in remote mode on cancel
    Watchers,   \* the goroutines startPasswordCaptchaWatcher may start
    Submits     \* the handlers of second factor modals and stale prompt clicks

ASSUME InteractionsAssumption ==
    /\ {Modal} \cap (Clicks \cup Watchers \cup Submits) = {}
    /\ Clicks \cap (Watchers \cup Submits) = {} /\ Watchers \cap Submits = {}
    /\ "none" \notin {Modal} \cup Clicks \cup Watchers \cup Submits
    /\ Cardinality(Watchers) >= Cardinality(Clicks) /\ Watchers # {}

Handlers == {Modal} \cup Clicks \cup Watchers \cup Submits
Login == "login"

VARIABLES
    remote,    \* is Chrome relayed to the user (captchaBrowserMode)? never changes
    at,        \* where each handler stands
    reply,     \* the message it is going to show
    outcome,   \* what it knows of the delivery of that message
    captcha,   \* the captchaEditGuard of the login
    factor,    \* the mfaSubmissionGuard of its second factor
    shown,     \* what the message shows
    watched,   \* captchaWatches
    hinted,    \* mfaHints
    opened,    \* Chrome was opened for the login
    entry,     \* the login (see LoginPromise)
    stored,    \* is its account in the store?
    mfa,       \* the second factor: none, live, used for a link, gone
    down       \* Handlers.Shutdown: open, closing, drained

handlerVars == <<at, reply, outcome>>
guardVars == <<captcha, factor>>
authVars == <<remote, opened, entry, stored, mfa>>
vars == <<handlerVars, guardVars, shown, watched, hinted, authVars, down>>

Promise == INSTANCE LoginPromise WITH Flows <- {Login}

Free == [busy |-> "none", terminal |-> FALSE]

Init ==
    /\ remote \in BOOLEAN
    /\ at = [h \in Handlers |-> "idle"]
    /\ reply = [h \in Handlers |-> "none"]
    /\ outcome = [h \in Handlers |-> "none"]
    /\ captcha = Free /\ factor = Free
    /\ shown = "thinking"
    /\ watched = FALSE /\ hinted = FALSE /\ opened = FALSE
    /\ Promise!Init
    /\ mfa = "none"
    /\ down = "open"

-----------------------------------------------------------------------------
Go(h, phase) == at' = [at EXCEPT ![h] = phase]
Say(h, text) == reply' = [reply EXCEPT ![h] = text]
Running == {h \in Handlers : at[h] \notin {"idle", "clicked", "ended"}}

\* messages without controls; "launched" and "retry" keep those of the message
Final == {"canceled", "failed", "done", "expired"}

Open == entry[Login] = "open"
Decided == entry[Login] \in {"linked", "mfa", "failed"}

\* CancelPasswordLogin: only a login that is neither committing nor decided is given up
GiveUp == IF Open THEN Promise!Retire({Login}) ELSE UNCHANGED <<entry, stored>>

\* startPasswordCaptchaWatcher, called by h when it ends
EndAndWatch(h) ==
    IF watched \/ down # "open"
    THEN Go(h, "ended") /\ UNCHANGED watched
    ELSE \E w \in Watchers :
            /\ at[w] = "idle"
            /\ at' = [at EXCEPT ![h] = "ended", ![w] = "waiting"]
            /\ watched' = TRUE

-----------------------------------------------------------------------------
(* interactionEditGuard                                                    *)

\* begin; Suppressed is its answer FALSE
Acquire(guard, h) == /\ guard.busy = "none" /\ ~guard.terminal
                     /\ guard' = [guard EXCEPT !.busy = h]
Suppressed(guard) == guard.terminal

FinishOf(guard, terminal) == [busy |-> "none", terminal |-> guard.terminal \/ terminal]

-----------------------------------------------------------------------------
(* An interaction comes in.                                                *)

\* the user acts on what the message shows; the interaction may arrive much later
Click(h) ==
    /\ at[h] = "idle"
    /\ \/ h = Modal
       \/ h \in Clicks /\ shown \in {"controls", "launched"}
       \/ h \in Submits /\ shown \in {"prompt", "retry"}
    /\ Go(h, "clicked")
    /\ UNCHANGED <<reply, outcome, guardVars, shown, watched, hinted, authVars, down>>

\* beginLifecycleWorker
Admitted == down = "open"

\* What a handler does up to and with its acknowledgement.  Its failure ends the
\* handler; a second factor is validated before it.
AcceptModal(h) == h = Modal /\ Go(h, "beginning") /\ Say(h, "none") /\ UNCHANGED hinted
AcceptOpen(h) == h \in Clicks /\ ~remote /\ Go(h, "launching") /\ Say(h, "none") /\ UNCHANGED hinted
AcceptCancel(h) == h \in Clicks /\ remote /\ Go(h, "locking") /\ Say(h, "none") /\ UNCHANGED hinted

AcceptStale(h) == mfa # "live" /\ Go(h, "locking") /\ Say(h, "expired") /\ hinted' = FALSE

\* the prompt's button only opens a modal while the factor lives
AcceptFactorClick(h) ==
    /\ h \in Submits
    /\ \/ AcceptStale(h)
       \/ mfa = "live" /\ Go(h, "ended") /\ UNCHANGED <<reply, hinted>>

AcceptFactorModal(h) ==
    /\ h \in Submits
    /\ \/ AcceptStale(h)
       \/ mfa = "live" /\ Go(h, "locking") /\ Say(h, "none") /\ UNCHANGED hinted

AcknowledgementFails(h) == /\ Go(h, "ended")
                           /\ UNCHANGED reply
                           /\ hinted' = (hinted /\ ~(h \in Submits /\ mfa # "live"))

\* OnInteraction
Start(h) ==
    /\ at[h] = "clicked"
    /\ IF ~Admitted
       THEN Go(h, "ended") /\ UNCHANGED <<reply, hinted>>
       ELSE \/ AcceptModal(h) \/ AcceptOpen(h) \/ AcceptCancel(h)
            \/ AcceptFactorClick(h) \/ AcceptFactorModal(h)
            \/ AcknowledgementFails(h)
    /\ UNCHANGED <<outcome, guardVars, shown, watched, authVars, down>>

-----------------------------------------------------------------------------
(* Deliveries (deliverInteraction).                                        *)

Land(h) ==
    /\ at[h] = "editing"
    /\ Go(h, "landed")
    /\ shown' = reply[h]
    /\ UNCHANGED <<reply, outcome, guardVars, watched, hinted, authVars, down>>

\* a success may be lost on its way back; what Discord refused, or never got, may
\* be known to have failed
Outcomes(h) == IF at[h] = "landed" THEN {"applied", "ambiguous"} ELSE {"rejected", "ambiguous"}

MaybeShown(result) == result \in {"applied", "ambiguous"}

\* the password modal: no guard; a watcher only for a relayed login known to show its link
ReturnModal(result) ==
    /\ IF reply[Modal] = "controls" /\ result = "rejected"
       THEN Go(Modal, "undoing") /\ UNCHANGED watched
       ELSE IF reply[Modal] = "controls" /\ remote /\ result = "applied"
       THEN EndAndWatch(Modal)
       ELSE Go(Modal, "ended") /\ UNCHANGED watched
    /\ UNCHANGED guardVars

\* mutation: an edit that may have landed leaves the message open
ReturnCaptchaOpen(h, result) ==
    /\ captcha' = FinishOf(captcha, reply[h] # "launched" /\ result = "applied")
    /\ CASE reply[h] = "launched" /\ MaybeShown(result) -> EndAndWatch(h)
         [] reply[h] \in {"launched", "prompt"} /\ result = "rejected" ->
               Go(h, "undoing") /\ UNCHANGED watched
         [] OTHER -> /\ Go(h, "ended")
                     /\ watched' = (watched /\ h \notin Watchers)
    /\ UNCHANGED factor

\* editCaptchaInteractionThenOutcome and what its three callers do afterwards
ReturnCaptcha(h, result) ==
    /\ captcha' = FinishOf(captcha, reply[h] # "launched" /\ MaybeShown(result))
    /\ CASE reply[h] = "launched" /\ MaybeShown(result) -> EndAndWatch(h)
         [] reply[h] \in {"launched", "prompt"} /\ result = "rejected" ->
               Go(h, "undoing") /\ UNCHANGED watched
         [] OTHER -> /\ Go(h, "ended")
                     /\ watched' = (watched /\ h \notin Watchers)
    /\ UNCHANGED factor

\* a second factor: only an edit known to be applied is final
ReturnFactor(h, result) ==
    /\ factor' = FinishOf(factor, reply[h] # "retry" /\ result = "applied")
    /\ Go(h, "ended")
    /\ UNCHANGED <<captcha, watched>>

Return(h) ==
    /\ at[h] \in {"editing", "landed"}
    /\ \E result \in Outcomes(h) :
          /\ outcome' = [outcome EXCEPT ![h] = result]
          /\ CASE h = Modal -> ReturnModal(result)
               [] h \in Submits -> ReturnFactor(h, result)
               [] OTHER -> ReturnCaptcha(h, result)
    /\ UNCHANGED <<reply, shown, hinted, authVars, down>>

-----------------------------------------------------------------------------
(* The guard is waited for.                                                *)

Enter(h) ==
    /\ at[h] = "locking"
    /\ IF h \in Submits THEN Acquire(factor, h) /\ UNCHANGED captcha
                        ELSE Acquire(captcha, h) /\ UNCHANGED factor
    /\ Go(h, CASE h \in Clicks /\ remote -> "canceling"
               [] h \in Submits /\ reply[h] = "none" -> "submitting"
               [] OTHER -> "editing")
    /\ UNCHANGED <<reply, outcome, shown, watched, hinted, authVars, down>>

\* the result is out already, or the context ends first
LeaveWith(h, result) ==
    /\ at[h] = "locking"
    /\ outcome' = [outcome EXCEPT ![h] = result]
    /\ IF reply[h] \in {"launched", "prompt"}
       THEN Go(h, "undoing") /\ UNCHANGED watched
       ELSE /\ Go(h, "ended")
            /\ watched' = (watched /\ h \notin Watchers)
    /\ UNCHANGED <<reply, guardVars, shown, hinted, authVars, down>>

Suppress(h) == /\ Suppressed(IF h \in Submits THEN factor ELSE captcha)
               /\ LeaveWith(h, "suppressed")
GuardTimesOut(h) == LeaveWith(h, "rejected")

-----------------------------------------------------------------------------
(* The calls of the handlers.                                              *)

\* handlePasswordLogin
Begin ==
    /\ at[Modal] = "beginning"
    /\ Go(Modal, "editing")
    /\ \/ Say(Modal, "refused") /\ UNCHANGED <<entry, stored>>
       \/ Say(Modal, "controls") /\ Promise!Open(Login)
    /\ UNCHANGED <<remote, outcome, guardVars, shown, watched, hinted, opened, mfa, down>>

\* mutation: a failed launch keeps the login
LaunchKeepsLogin(h) ==
    /\ at[h] = "launching"
    /\ Go(h, "locking")
    /\ \/ /\ Open
          /\ Say(h, "launched") /\ opened' = TRUE
          /\ UNCHANGED <<entry, stored>>
       \/ /\ Say(h, "failed")
          /\ UNCHANGED <<entry, stored, opened>>
    /\ UNCHANGED <<outcome, guardVars, shown, watched, hinted, remote, mfa, down>>

\* handlePasswordCaptchaLaunch; a failure takes the only control away, so the login too
Launch(h) ==
    /\ at[h] = "launching"
    /\ Go(h, "locking")
    /\ \/ /\ Open
          /\ Say(h, "launched") /\ opened' = TRUE
          /\ UNCHANGED <<entry, stored>>
       \/ /\ Say(h, "failed") /\ GiveUp
          /\ UNCHANGED opened
    /\ UNCHANGED <<outcome, guardVars, shown, watched, hinted, remote, mfa, down>>

\* mutation: a refused cancel forgets the guard
CancelKeepsGuard(h) ==
    /\ at[h] = "canceling"
    /\ GiveUp
    /\ IF Open THEN Go(h, "editing") /\ Say(h, "canceled")
               ELSE Go(h, "ended") /\ UNCHANGED reply
    /\ UNCHANGED <<remote, outcome, guardVars, shown, watched, hinted, opened, mfa, down>>

\* the cancel button, under the guard: a login that is not given up keeps its message
Cancel(h) ==
    /\ at[h] = "canceling"
    /\ GiveUp
    /\ IF Open THEN Go(h, "editing") /\ Say(h, "canceled") /\ UNCHANGED captcha
               ELSE /\ Go(h, "ended") /\ captcha' = FinishOf(captcha, FALSE)
                    /\ UNCHANGED reply
    /\ UNCHANGED <<outcome, factor, shown, watched, hinted, remote, opened, mfa, down>>

\* HandlePasswordMFA: a wrong code may be tried again, whatever else happens may not
Submit(h) ==
    /\ at[h] = "submitting"
    /\ Go(h, "editing")
    /\ \/ Say(h, "retry") /\ mfa = "live" /\ UNCHANGED <<mfa, hinted>>
       \/ Say(h, "done") /\ mfa = "live" /\ mfa' = "used" /\ hinted' = FALSE
       \/ Say(h, "expired") /\ mfa' \in {mfa, IF mfa = "live" THEN "gone" ELSE mfa}
          /\ hinted' = FALSE
    /\ UNCHANGED <<outcome, guardVars, shown, watched, remote, opened, entry, stored, down>>

\* WaitPasswordLogin returns what was decided and takes it with it
Learn(w) ==
    \/ /\ Decided
       /\ Say(w, CASE entry[Login] = "linked" -> "done"
                   [] entry[Login] = "mfa" -> "prompt"
                   [] entry[Login] = "failed" -> "failed")
       /\ Promise!Retire({Login})
    \/ /\ entry[Login] = "gone"
       /\ Say(w, "failed") /\ UNCHANGED <<entry, stored>>

\* its context ends: a login that is still open is taken, a committing one is not
LearnNothing(w) ==
    /\ ~Decided /\ entry[Login] # "gone"
    /\ Say(w, "failed") /\ GiveUp

\* mutation: a watcher that may not speak any more just ends
SpeakOrEnd(w) ==
    /\ at[w] = "waiting"
    /\ hinted' = (hinted \/ reply'[w] = "prompt")
    /\ IF down = "open"
       THEN Go(w, "locking") /\ UNCHANGED watched
       ELSE Go(w, "ended") /\ watched' = FALSE
    /\ UNCHANGED <<outcome, guardVars, shown, remote, opened, mfa, down>>

\* watchPasswordCaptcha up to its edit, which the closed handlers no longer admit
Speak(w) ==
    /\ at[w] = "waiting"
    /\ hinted' = (hinted \/ reply'[w] = "prompt")
    /\ IF down = "open"
       THEN Go(w, "locking") /\ UNCHANGED watched
       ELSE IF reply'[w] = "prompt" THEN Go(w, "undoing") /\ UNCHANGED watched
       ELSE Go(w, "ended") /\ watched' = FALSE
    /\ UNCHANGED <<outcome, guardVars, shown, remote, opened, mfa, down>>

Wait(w) == Learn(w) /\ Speak(w)
WaitTimesOut(w) == LearnNothing(w) /\ Speak(w)

\* cancelPasswordMFA for a watcher, cancelPasswordLogin for the others
Undo(h) ==
    /\ at[h] = "undoing"
    /\ Go(h, "ended")
    /\ IF h \in Watchers
       THEN /\ mfa' = IF mfa = "live" THEN "gone" ELSE mfa
            /\ hinted' = FALSE
            /\ factor' = Free
            /\ watched' = FALSE
            /\ UNCHANGED <<entry, stored>>
       ELSE GiveUp /\ UNCHANGED <<mfa, hinted, factor, watched>>
    /\ UNCHANGED <<reply, outcome, captcha, shown, remote, opened, down>>

-----------------------------------------------------------------------------
(* The login and its second factor go their way (authweb).                 *)

AuthRest == UNCHANGED <<handlerVars, guardVars, shown, watched, hinted, remote, opened, down>>

\* Chrome is solved by a user who was shown it
LoginMoves ==
    /\ remote \/ opened
    /\ \/ Promise!Reject(Login)
       \/ Promise!ClaimCommit(Login)
       \/ Promise!Store(Login)
       \/ Promise!Link(Login)
    /\ mfa' = IF entry'[Login] = "mfa" THEN "live" ELSE mfa
    /\ AuthRest

LoginExpires == Promise!Retire({Login}) /\ UNCHANGED mfa /\ AuthRest

FactorExpires == mfa = "live" /\ mfa' = "gone" /\ UNCHANGED <<entry, stored>> /\ AuthRest

-----------------------------------------------------------------------------
(* Handlers.Shutdown                                                       *)

DownRest == UNCHANGED <<handlerVars, shown, authVars>>

Shutdown ==
    /\ down = "open"
    /\ down' = "closing"
    /\ DownRest /\ UNCHANGED <<guardVars, watched, hinted>>

\* lifecycleWG is waited for, then the maps are cleared
Drain ==
    /\ down = "closing"
    /\ Running = {}
    /\ down' = "drained"
    /\ captcha' = Free /\ factor' = Free
    /\ watched' = FALSE /\ hinted' = FALSE
    /\ DownRest

-----------------------------------------------------------------------------
Call(h) == \/ h = Modal /\ Begin
           \/ h \in Clicks /\ (Launch(h) \/ Cancel(h))
           \/ h \in Submits /\ Submit(h)
           \/ h \in Watchers /\ Wait(h)

\* what a handler does of its own; Step leaves out only the contexts that end
Step(h) == \/ Start(h) \/ Enter(h) \/ Suppress(h) \/ Call(h)
           \/ Land(h) \/ Return(h) \/ Undo(h)

TimesOut(h) == GuardTimesOut(h) \/ (h \in Watchers /\ WaitTimesOut(h))

Next == \/ \E h \in Handlers : Click(h) \/ Step(h) \/ TimesOut(h)
        \/ LoginMoves \/ LoginExpires \/ FactorExpires
        \/ Shutdown \/ Drain

Spec == Init /\ [][Next]_vars

-----------------------------------------------------------------------------
Guards == [busy : Handlers \cup {"none"}, terminal : BOOLEAN]
Messages == {"thinking", "refused", "controls", "launched", "prompt", "retry"} \cup Final

TypeOK ==
    /\ remote \in BOOLEAN
    /\ at \in [Handlers -> {"idle", "clicked", "beginning", "launching", "locking", "canceling",
                            "submitting", "waiting", "editing", "landed", "undoing", "ended"}]
    /\ reply \in [Handlers -> Messages \cup {"none"}]
    /\ outcome \in [Handlers -> {"none", "applied", "ambiguous", "rejected", "suppressed"}]
    /\ captcha \in Guards /\ factor \in Guards
    /\ shown \in Messages
    /\ watched \in BOOLEAN /\ hinted \in BOOLEAN /\ opened \in BOOLEAN
    /\ entry \in [{Login} -> {"absent", "open", "committing", "kept", "linked", "mfa", "failed",
                              "gone"}]
    /\ stored \in [{Login} -> BOOLEAN]
    /\ mfa \in {"none", "live", "used", "gone"}
    /\ down \in {"open", "closing", "drained"}

\* a guard is held by no two handlers, and by none that has left it
GuardsExclude ==
    /\ \A h \in (Clicks \cup Watchers) :
          at[h] \in {"canceling", "editing", "landed"} <=> captcha.busy = h
    /\ \A h \in Submits : at[h] \in {"submitting", "editing", "landed"} <=> factor.busy = h

\* a login has one watcher at a time, and captchaWatches knows of it
OneWatcher == \A w \in Watchers :
    w \in Running => watched /\ \A v \in Watchers : v \in Running => v = w

\* once Shutdown has drained the handlers none of them runs
DrainedIsQuiet == down = "drained" => Running = {}

\* the hint of a second factor goes when the factor was used
HintForgotten == mfa = "used" => ~hinted

\* The message says "canceled" only of a login that linked nothing and never will.
CanceledIsTrue ==
    shown = "canceled" => entry[Login] = "gone" /\ ~stored[Login] /\ mfa = "none"

Inv == GuardsExclude /\ OneWatcher /\ DrainedIsQuiet /\ HintForgotten /\ CanceledIsTrue

\* What each kind of handler does and says.
RolesKept ==
    /\ at[Modal] \in {"idle", "clicked", "beginning", "editing", "landed", "undoing", "ended"}
    /\ at[Modal] \in {"editing", "landed"} => reply[Modal] \in {"refused", "controls"}
    /\ \A h \in Clicks :
          /\ at[h] \notin {"beginning", "submitting", "waiting"}
          /\ at[h] \in {"idle", "clicked"} => reply[h] = "none"
          /\ remote => at[h] # "launching" /\ reply[h] \in {"none", "canceled"}
          /\ ~remote => at[h] # "canceling" /\ reply[h] \in {"none", "launched", "failed"}
          /\ ~remote /\ at[h] = "locking" => reply[h] # "none"
          /\ at[h] \in {"editing", "landed"} => reply[h] # "none"
    /\ \A w \in Watchers :
          /\ at[w] \in {"idle", "waiting", "locking", "editing", "landed", "undoing", "ended"}
          /\ reply[w] \in {"none", "done", "prompt", "failed"}
          /\ at[w] \in {"idle", "waiting"} <=> reply[w] = "none"
          /\ at[w] = "undoing" => reply[w] = "prompt"
    /\ \A s \in Submits :
          /\ at[s] \in {"idle", "clicked", "locking", "submitting", "editing", "landed", "ended"}
          /\ reply[s] \in {"none", "retry", "done", "expired"}
          /\ at[s] \in {"editing", "landed"} => reply[s] # "none"

\* Before the modal's answer there is nothing to click on or to wait for.
MessageFirst ==
    /\ at[Modal] \in {"idle", "clicked", "beginning", "editing"} =>
          /\ shown = "thinking" /\ captcha = Free /\ factor = Free
          /\ \A h \in Handlers \ {Modal} : at[h] = "idle"
    /\ at[Modal] \in {"idle", "clicked", "beginning"} => entry[Login] = "absent"

\* A guard with a result on its message is not taken again.
ResultIsFinal == /\ captcha.terminal => captcha.busy = "none"
                 /\ factor.terminal => factor.busy = "none"

\* The second factor begins with the login's verdict, an account is stored with it, and a
\* login that a handler gave up on request has neither.
LoginAndFactor ==
    /\ mfa # "none" => entry[Login] \in {"mfa", "gone"}
    /\ entry[Login] = "mfa" => mfa \in {"live", "gone"} /\ \A s \in Submits : at[s] = "idle"
    /\ entry[Login] \in {"absent", "open", "committing", "mfa", "failed"} => ~stored[Login]
    /\ \A h \in Handlers : reply[h] = "canceled" =>
          entry[Login] = "gone" /\ ~stored[Login] /\ mfa = "none"

\* One watcher takes the second factor from the login, for good, ...
PromptOnce ==
    \A w \in Watchers : reply[w] = "prompt" =>
        /\ entry[Login] = "gone"
        /\ \A v \in Watchers : reply[v] = "prompt" => v = w

\* ... and it is answered only after that watcher's edit may have shown it, which leaves
\* no other handler of the login an edit.
PromptShown(w) ==
    /\ reply[w] = "prompt"
    /\ \/ at[w] = "landed"
       \/ at[w] = "ended" /\ MaybeShown(outcome[w]) /\ (captcha.terminal \/ down = "drained")

PromptIsOut ==
    /\ shown \in {"prompt", "retry"} => \E w \in Watchers : PromptShown(w)
    /\ (\E s \in Submits : at[s] # "idle") => \E w \in Watchers : PromptShown(w)
    /\ (\A s \in Submits : at[s] = "idle") => factor = Free

\* An open login: its modal has answered or is about to, and nobody has given it up.
OpenLogin ==
    Open => /\ at[Modal] \in {"editing", "landed", "undoing", "ended"} /\ reply[Modal] = "controls"
            /\ \A h \in Clicks : reply[h] \in {"none", "launched"}
            /\ \A w \in Watchers : reply[w] = "none"
            /\ \A s \in Submits : at[s] = "idle"
            /\ shown \in {"thinking", "controls", "launched"}
            /\ shown = "thinking" =>
                  \/ at[Modal] \in {"editing", "undoing"}
                  \/ at[Modal] = "ended" /\ outcome[Modal] = "ambiguous"

\* Inductive: the guards, the watches, the drain and the message, and what the handlers
\* can know of the login and of its second factor.
IInv == /\ TypeOK /\ Inv
        /\ RolesKept /\ MessageFirst /\ ResultIsFinal /\ LoginAndFactor
        /\ PromptOnce /\ PromptIsOut /\ OpenLogin

\* Once the result of the CAPTCHA is on the message only the second factor writes it
\* again, and once the result of that is known to be there nothing does: slow edits of
\* earlier states never overwrite a result (editCaptchaInteractionThenOutcome).
ResultStays ==
    [][/\ captcha.terminal => shown' \in {shown, "retry", "done", "expired"}
       /\ factor.terminal => shown' = shown]_vars

\* A login nobody can see or wait for is not left open until its TTL: while no handler
\* works on it, an open login is watched, or its message has the button or link that
\* continues it, or Discord never said whether it has.
OpenLoginReachable ==
    Open /\ Running = {} =>
        \/ shown \in {"controls", "launched"}
        \/ outcome[Modal] = "ambiguous"

\* A second factor whose prompt is known not to be shown is canceled by the watcher
\* that took it from the login, also when the bot shuts down in between.
UnshownFactorCanceled ==
    \A w \in Watchers :
        at[w] = "ended" /\ reply[w] = "prompt" /\ ~MaybeShown(outcome[w]) => mfa # "live"
=============================================================================
