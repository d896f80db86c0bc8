------------------------- MODULE InteractionsProofs -------------------------
(***************************************************************************)
(* The invariant of Interactions is inductive, for any number of clicks,   *)
(* watchers and submissions: the guards exclude, a login has one watcher,  *)
(* the message never lies about a cancel, a result on it is never          *)
(* overwritten, an open login can be reached, and a second factor whose    *)
(* prompt was not shown does not survive.                                  *)
(***************************************************************************)
EXTENDS Interactions, TLAPS

\* A handler has one role.
LEMMA Roles ==
    /\ Handlers = {Modal} \cup Clicks \cup Watchers \cup Submits
    /\ Modal \notin Clicks \cup Watchers \cup Submits
    /\ \A h \in Clicks : h \notin Watchers \cup Submits
    /\ \A h \in Watchers : h \notin Submits
    /\ \A h \in Handlers : h # "none"
BY InteractionsAssumption DEF Handlers

\* How the promise of the login is kept: it opens, is taken, or goes on to its verdict.
Opened == entry[Login] = "absent" /\ entry'[Login] = "open" /\ stored'[Login] = stored[Login]
Taken == /\ entry[Login] \in {"open", "linked", "mfa", "failed"}
         /\ entry'[Login] = "gone" /\ stored'[Login] = stored[Login]
Moved == \/ /\ entry[Login] = "open" /\ entry'[Login] \in {"committing", "mfa", "failed"}
            /\ stored'[Login] = stored[Login]
         \/ /\ entry[Login] = "committing" /\ entry'[Login] = "failed"
            /\ stored'[Login] = stored[Login]
         \/ entry[Login] = "committing" /\ entry'[Login] = "kept" /\ stored'[Login]
         \/ /\ entry[Login] = "kept" /\ entry'[Login] = "linked"
            /\ stored'[Login] = stored[Login]
PromiseTyped == /\ entry' \in [{Login} -> {"absent", "open", "committing", "kept", "linked",
                                           "mfa", "failed", "gone"}]
                /\ stored' \in [{Login} -> BOOLEAN]

LEMMA PromiseSteps ==
    ASSUME TypeOK
    PROVE  /\ Promise!Open(Login) => Opened /\ PromiseTyped
           /\ Promise!Retire({Login}) => Taken /\ PromiseTyped
           /\ Promise!Reject(Login) \/ Promise!ClaimCommit(Login) \/ Promise!Store(Login)
              \/ Promise!Link(Login) => Moved /\ PromiseTyped
<1> USE DEF TypeOK, PromiseTyped
<1>1. Promise!Open(Login) => Opened /\ PromiseTyped
  BY DEF Promise!Open, Opened
<1>2. Promise!Retire({Login}) => Taken /\ PromiseTyped
  BY DEF Promise!Retire, Taken
<1>3. Promise!Reject(Login) => Moved /\ PromiseTyped
  BY DEF Promise!Reject, Moved
<1>4. Promise!ClaimCommit(Login) => Moved /\ PromiseTyped
  BY DEF Promise!ClaimCommit, Moved
<1>5. Promise!Store(Login) => Moved /\ PromiseTyped
  BY DEF Promise!Store, Moved
<1>6. Promise!Link(Login) => Moved /\ PromiseTyped
  BY DEF Promise!Link, Moved
<1> QED BY <1>1, <1>2, <1>3, <1>4, <1>5, <1>6

\* CancelPasswordLogin takes an open login and leaves any other alone.
LEMMA GivesUp ==
    ASSUME TypeOK, GiveUp
    PROVE  /\ PromiseTyped
           /\ Open => Taken
           /\ ~Open => entry' = entry /\ stored' = stored
<1>1. CASE Open
  BY <1>1, PromiseSteps DEF GiveUp
<1>2. CASE ~Open
  BY <1>2 DEF GiveUp, TypeOK, PromiseTyped
<1> QED BY <1>1, <1>2

\* It holds at the start.
LEMMA InitInv == Init => IInv /\ UnshownFactorCanceled
<1> SUFFICES ASSUME Init PROVE IInv /\ UnshownFactorCanceled  OBVIOUS
<1> USE Roles DEF IInv, Inv, MaybeShown, Init, Promise!Init, Free
<1>1. TypeOK
  BY DEF TypeOK, Guards, Free, Messages, Final
<1>2. GuardsExclude
  BY DEF GuardsExclude, TypeOK, Free
<1>3. OneWatcher
  BY DEF OneWatcher, TypeOK, Running
<1>4. DrainedIsQuiet
  BY DEF DrainedIsQuiet, TypeOK, Running
<1>5. HintForgotten
  BY DEF HintForgotten, TypeOK
<1>6. CanceledIsTrue
  BY DEF CanceledIsTrue, TypeOK
<1>7. RolesKept
  BY DEF RolesKept, TypeOK
<1>8. MessageFirst
  BY DEF MessageFirst, TypeOK, Free
<1>9. ResultIsFinal
  BY DEF ResultIsFinal, TypeOK, Free
<1>10. LoginAndFactor
  BY DEF LoginAndFactor, TypeOK
<1>11. PromptOnce
  BY DEF PromptOnce, TypeOK
<1>12. PromptIsOut
  BY DEF PromptIsOut, TypeOK, PromptShown, Free
<1>13. OpenLogin
  BY DEF OpenLogin, TypeOK, Open
<1>14. UnshownFactorCanceled
  BY DEF UnshownFactorCanceled, TypeOK
<1> QED BY <1>1, <1>2, <1>3, <1>4, <1>5, <1>6, <1>7, <1>8, <1>9, <1>10, <1>11, <1>12, <1>13,
   <1>14

\* The user acts on the message.
LEMMA ClickInv ==
    ASSUME IInv, UnshownFactorCanceled, NEW h \in Handlers, Click(h)
    PROVE  IInv' /\ UnshownFactorCanceled'
<1> USE Roles DEF IInv, Inv, MaybeShown, Click, Go, guardVars, authVars
<1>1. (HintForgotten /\ CanceledIsTrue /\ ResultIsFinal /\ PromptOnce)'
  BY DEF HintForgotten, CanceledIsTrue, ResultIsFinal, PromptOnce, Free
<1>2. TypeOK'
  BY DEF TypeOK, Guards, Free, Messages, Final
<1>3. GuardsExclude'
  BY DEF GuardsExclude, TypeOK, Free
<1>4. OneWatcher'
  BY DEF OneWatcher, TypeOK, Running
<1>5. DrainedIsQuiet'
  BY DEF DrainedIsQuiet, TypeOK, Running
<1>6. RolesKept'
  BY DEF RolesKept, TypeOK
<1>7. MessageFirst'
  BY DEF MessageFirst, TypeOK, Free
<1>8. LoginAndFactor'
  BY DEF LoginAndFactor, TypeOK, PromptIsOut, PromptShown, PromptOnce
<1>9. PromptIsOut'
  BY DEF PromptIsOut, TypeOK, PromptShown, Free
<1>10. OpenLogin'
  BY DEF OpenLogin, TypeOK, Open
<1>11. UnshownFactorCanceled'
  BY DEF UnshownFactorCanceled, TypeOK
<1> QED BY <1>1, <1>2, <1>3, <1>4, <1>5, <1>6, <1>7, <1>8, <1>9, <1>10, <1>11

\* What a handler may begin with.
StartsAs(h, place, text) ==
    \/ place = "ended" /\ text = reply[h] /\ hinted' \in {hinted, FALSE}
    \/ /\ down = "open" /\ text = "none" /\ hinted' = hinted
       /\ \/ h = Modal /\ place = "beginning"
          \/ h \in Clicks /\ ~remote /\ place = "launching"
          \/ h \in Clicks /\ remote /\ place = "locking"
          \/ h \in Submits /\ place = "locking"
    \/ h \in Submits /\ down = "open" /\ place = "locking" /\ text = "expired" /\ hinted' = FALSE

LEMMA StartCases ==
    ASSUME TypeOK, NEW h \in Handlers, Start(h)
    PROVE  \E place, text : Go(h, place) /\ Say(h, text) /\ StartsAs(h, place, text)
<1> USE DEF TypeOK, Start, StartsAs, Go, Say, Admitted
<1>1. CASE Admitted /\ AcceptModal(h)  BY <1>1 DEF AcceptModal
<1>2. CASE Admitted /\ AcceptOpen(h)  BY <1>2 DEF AcceptOpen
<1>3. CASE Admitted /\ AcceptCancel(h)  BY <1>3 DEF AcceptCancel
<1>4. CASE Admitted /\ h \in Submits /\ AcceptStale(h)  BY <1>4 DEF AcceptStale
<1>5. CASE Admitted /\ AcceptFactorModal(h)  BY <1>4, <1>5 DEF AcceptFactorModal
<1>6. CASE Admitted /\ AcceptFactorClick(h)
  <2>1. CASE UNCHANGED reply
    BY <1>6, <2>1, <1>4 DEF AcceptFactorClick
  <2> QED BY <1>6, <2>1, <1>4 DEF AcceptFactorClick
<1>7. CASE Admitted /\ AcknowledgementFails(h)  BY <1>7 DEF AcknowledgementFails
<1>8. CASE ~Admitted  BY <1>8
<1> QED BY <1>1, <1>2, <1>3, <1>4, <1>5, <1>6, <1>7, <1>8

\* A handler is admitted and acknowledges.
LEMMA StartInv ==
    ASSUME IInv, UnshownFactorCanceled, NEW h \in Handlers, NEW place, NEW text, StartsAs(h,
           place, text), at[h] = "clicked", Go(h, place), Say(h, text), UNCHANGED <<outcome,
           guardVars, shown, watched, authVars, down>>
    PROVE  IInv' /\ UnshownFactorCanceled'
<1> USE Roles DEF IInv, Inv, MaybeShown, StartsAs, Go, Say, guardVars, authVars
<1>1. h \notin Watchers
  BY DEF RolesKept
<1>2. (CanceledIsTrue /\ ResultIsFinal)'
  BY <1>1 DEF CanceledIsTrue, ResultIsFinal, Free
<1>3. TypeOK'
  <2>1. hinted' \in BOOLEAN
    BY DEF TypeOK
  <2>2. at' \in [Handlers -> {"idle", "clicked", "beginning", "launching", "locking", "canceling",
                            "submitting", "waiting", "editing", "landed", "undoing", "ended"}]
    BY DEF TypeOK
  <2>3. reply' \in [Handlers -> Messages \cup {"none"}]
    BY DEF TypeOK, Messages, Final
  <2> QED BY <2>1, <2>2, <2>3 DEF TypeOK
<1>4. GuardsExclude'
  BY <1>1 DEF GuardsExclude, TypeOK, Free
<1>5. OneWatcher'
  BY <1>1 DEF OneWatcher, TypeOK, Running
<1>6. DrainedIsQuiet'
  BY <1>1 DEF DrainedIsQuiet, TypeOK, Running
<1>7. HintForgotten'
  BY <1>1 DEF HintForgotten, TypeOK
<1>8. RolesKept'
  <2> USE <1>1 DEF RolesKept, TypeOK
  <2>1. /\ at'[Modal] \in {"idle", "clicked", "beginning", "editing", "landed", "undoing", "ended"}
        /\ at'[Modal] \in {"editing", "landed"} => reply'[Modal] \in {"refused", "controls"}
    OBVIOUS
  <2>2. ASSUME NEW k \in Clicks
        PROVE  /\ at'[k] \notin {"beginning", "submitting", "waiting"}
               /\ at'[k] \in {"idle", "clicked"} => reply'[k] = "none"
               /\ remote' => at'[k] # "launching" /\ reply'[k] \in {"none", "canceled"}
               /\ ~remote' => at'[k] # "canceling" /\ reply'[k] \in {"none", "launched", "failed"}
               /\ ~remote' /\ at'[k] = "locking" => reply'[k] # "none"
               /\ at'[k] \in {"editing", "landed"} => reply'[k] # "none"
    <3>1. CASE k = h  BY <3>1
    <3>2. CASE k # h  BY <3>2
    <3> QED BY <3>1, <3>2
  <2>3. ASSUME NEW w \in Watchers
        PROVE  /\ at'[w] \in {"idle", "waiting", "locking", "editing", "landed", "undoing", "ended"}
               /\ reply'[w] \in {"none", "done", "prompt", "failed"}
               /\ at'[w] \in {"idle", "waiting"} <=> reply'[w] = "none"
               /\ at'[w] = "undoing" => reply'[w] = "prompt"
    OBVIOUS
  <2>4. ASSUME NEW s \in Submits
        PROVE  /\ at'[s] \in {"idle", "clicked", "locking", "submitting", "editing", "landed",
                             "ended"}
               /\ reply'[s] \in {"none", "retry", "done", "expired"}
               /\ at'[s] \in {"editing", "landed"} => reply'[s] # "none"
    <3>1. CASE s = h  BY <3>1
    <3>2. CASE s # h  BY <3>2
    <3> QED BY <3>1, <3>2
  <2> QED BY <2>1, <2>2, <2>3, <2>4
<1>9. MessageFirst'
  BY <1>1 DEF MessageFirst, TypeOK, Free
<1>10. LoginAndFactor'
  BY <1>1 DEF LoginAndFactor, TypeOK
<1>11. PromptOnce'
  BY <1>1 DEF PromptOnce, TypeOK
<1>12. PromptIsOut'
  BY <1>1 DEF PromptIsOut, TypeOK, PromptShown, Free
<1>13. OpenLogin'
  BY <1>1 DEF OpenLogin, TypeOK, Open
<1>14. UnshownFactorCanceled'
  BY <1>1 DEF UnshownFactorCanceled, TypeOK
<1> QED BY <1>2, <1>3, <1>4, <1>5, <1>6, <1>7, <1>8, <1>9, <1>10, <1>11, <1>12, <1>13, <1>14

\* A handler gets its guard.
LEMMA EnterInv ==
    ASSUME IInv, UnshownFactorCanceled, NEW h \in Handlers, Enter(h)
    PROVE  IInv' /\ UnshownFactorCanceled'
<1> USE Roles DEF IInv, Inv, MaybeShown, Go, Acquire, authVars
<1>1. /\ at[h] = "locking" /\ UNCHANGED <<reply, outcome, shown, watched, hinted, authVars, down>>
      /\ IF h \in Submits THEN Acquire(factor, h) /\ UNCHANGED captcha
                          ELSE Acquire(captcha, h) /\ UNCHANGED factor
  BY DEF Enter
<1>2. \/ h \in Clicks /\ remote /\ Go(h, "canceling")
      \/ h \in Submits /\ reply[h] = "none" /\ Go(h, "submitting")
      \/ (h \notin Clicks \/ ~remote) /\ (h \notin Submits \/ reply[h] # "none")
         /\ Go(h, "editing")
  BY Zenon DEF Enter
<1>3. (HintForgotten /\ CanceledIsTrue /\ PromptOnce)'
  BY <1>1, <1>2 DEF HintForgotten, CanceledIsTrue, PromptOnce
<1>4. TypeOK'
  BY <1>1, <1>2 DEF TypeOK, Guards, Free, Messages, Final
<1>5. GuardsExclude'
  BY <1>1, <1>2 DEF GuardsExclude, TypeOK, Free, Guards
<1>6. OneWatcher'
  BY <1>1, <1>2 DEF OneWatcher, TypeOK, Running
<1>7. DrainedIsQuiet'
  BY <1>1, <1>2 DEF DrainedIsQuiet, TypeOK, Running
<1>8. RolesKept'
  <2> USE <1>1, <1>2 DEF RolesKept, TypeOK
  <2>1. /\ at'[Modal] \in {"idle", "clicked", "beginning", "editing", "landed", "undoing", "ended"}
        /\ at'[Modal] \in {"editing", "landed"} => reply'[Modal] \in {"refused", "controls"}
    OBVIOUS
  <2>2. ASSUME NEW k \in Clicks
        PROVE  /\ at'[k] \notin {"beginning", "submitting", "waiting"}
               /\ at'[k] \in {"idle", "clicked"} => reply'[k] = "none"
               /\ remote' => at'[k] # "launching" /\ reply'[k] \in {"none", "canceled"}
               /\ ~remote' => at'[k] # "canceling" /\ reply'[k] \in {"none", "launched", "failed"}
               /\ ~remote' /\ at'[k] = "locking" => reply'[k] # "none"
               /\ at'[k] \in {"editing", "landed"} => reply'[k] # "none"
    <3>1. CASE k = h  BY <3>1
    <3>2. CASE k # h  BY <3>2
    <3> QED BY <3>1, <3>2
  <2>3. ASSUME NEW w \in Watchers
        PROVE  /\ at'[w] \in {"idle", "waiting", "locking", "editing", "landed", "undoing", "ended"}
               /\ reply'[w] \in {"none", "done", "prompt", "failed"}
               /\ at'[w] \in {"idle", "waiting"} <=> reply'[w] = "none"
               /\ at'[w] = "undoing" => reply'[w] = "prompt"
    OBVIOUS
  <2>4. ASSUME NEW s \in Submits
        PROVE  /\ at'[s] \in {"idle", "clicked", "locking", "submitting", "editing", "landed",
                             "ended"}
               /\ reply'[s] \in {"none", "retry", "done", "expired"}
               /\ at'[s] \in {"editing", "landed"} => reply'[s] # "none"
    <3>1. CASE s = h  BY <3>1
    <3>2. CASE s # h  BY <3>2
    <3> QED BY <3>1, <3>2
  <2> QED BY <2>1, <2>2, <2>3, <2>4
<1>9. MessageFirst'
  BY <1>1, <1>2 DEF MessageFirst, TypeOK, Free, RolesKept
<1>10. ResultIsFinal'
  BY <1>1, <1>2 DEF ResultIsFinal, TypeOK, Free, Guards
<1>11. LoginAndFactor'
  BY <1>1, <1>2 DEF LoginAndFactor, TypeOK
<1>12. PromptIsOut'
  BY <1>1, <1>2 DEF PromptIsOut, TypeOK, PromptShown, Free
<1>13. OpenLogin'
  BY <1>1, <1>2 DEF OpenLogin, TypeOK, Open
<1>14. UnshownFactorCanceled'
  BY <1>1, <1>2 DEF UnshownFactorCanceled, TypeOK
<1> QED BY <1>3, <1>4, <1>5, <1>6, <1>7, <1>8, <1>9, <1>10, <1>11, <1>12, <1>13, <1>14

\* A handler does not get its guard.
LEMMA LeaveInv ==
    ASSUME IInv, UnshownFactorCanceled, NEW h \in Handlers, NEW result \in {"suppressed",
           "rejected"}, LeaveWith(h, result)
    PROVE  IInv' /\ UnshownFactorCanceled'
<1> USE Roles DEF IInv, Inv, MaybeShown, LeaveWith, Go, guardVars, authVars
<1>1. watched' \in BOOLEAN
  BY Zenon DEF TypeOK
<1>2. (HintForgotten /\ CanceledIsTrue /\ ResultIsFinal /\ PromptOnce)'
  BY <1>1 DEF HintForgotten, CanceledIsTrue, ResultIsFinal, PromptOnce, Free
<1>3. TypeOK'
  BY <1>1 DEF TypeOK, Guards, Free, Messages, Final
<1>4. GuardsExclude'
  BY <1>1 DEF GuardsExclude, TypeOK, Free
<1>5. OneWatcher'
  BY <1>1 DEF OneWatcher, TypeOK, Running
<1>6. DrainedIsQuiet'
  BY <1>1 DEF DrainedIsQuiet, TypeOK, Running
<1>7. RolesKept'
  BY <1>1 DEF RolesKept, TypeOK
<1>8. MessageFirst'
  BY <1>1 DEF MessageFirst, TypeOK, Free
<1>9. LoginAndFactor'
  BY <1>1 DEF LoginAndFactor, TypeOK
<1>10. PromptIsOut'
  BY <1>1 DEF PromptIsOut, TypeOK, PromptShown, Free
<1>11. OpenLogin'
  BY <1>1 DEF OpenLogin, TypeOK, Open
<1>12. UnshownFactorCanceled'
  BY <1>1 DEF UnshownFactorCanceled, TypeOK
<1> QED BY <1>2, <1>3, <1>4, <1>5, <1>6, <1>7, <1>8, <1>9, <1>10, <1>11, <1>12

\* Discord applies an edit.
LEMMA LandInv ==
    ASSUME IInv, UnshownFactorCanceled, NEW h \in Handlers, Land(h)
    PROVE  IInv' /\ UnshownFactorCanceled'
<1> USE Roles DEF IInv, Inv, MaybeShown, Land, Go, guardVars, authVars
<1>1. (HintForgotten /\ ResultIsFinal /\ PromptOnce)'
  BY DEF HintForgotten, ResultIsFinal, PromptOnce, Free
<1>2. TypeOK'
  BY DEF TypeOK, Guards, Free, Messages, Final, RolesKept
<1>3. GuardsExclude'
  BY DEF GuardsExclude, TypeOK, Free
<1>4. OneWatcher'
  BY DEF OneWatcher, TypeOK, Running
<1>5. DrainedIsQuiet'
  BY DEF DrainedIsQuiet, TypeOK, Running
<1>6. CanceledIsTrue'
  BY DEF CanceledIsTrue, TypeOK, LoginAndFactor
<1>7. RolesKept'
  BY DEF RolesKept, TypeOK
<1>8. MessageFirst'
  BY DEF MessageFirst, TypeOK, Free
<1>9. LoginAndFactor'
  BY DEF LoginAndFactor, TypeOK
<1>10. PromptIsOut'
  BY DEF PromptIsOut, TypeOK, PromptShown, Free, RolesKept, PromptOnce
<1>11. OpenLogin'
  BY DEF OpenLogin, TypeOK, Open, RolesKept
<1>12. UnshownFactorCanceled'
  BY DEF UnshownFactorCanceled, TypeOK
<1> QED BY <1>1, <1>2, <1>3, <1>4, <1>5, <1>6, <1>7, <1>8, <1>9, <1>10, <1>11, <1>12

\* A delivery returns: its handler gives back the guard it holds, and ...
GuardsGivenBack(h, result) ==
    /\ captcha' = IF h \in Clicks \cup Watchers
                  THEN FinishOf(captcha, reply[h] # "launched" /\ MaybeShown(result))
                  ELSE captcha
    /\ factor' = IF h \in Submits
                 THEN FinishOf(factor, reply[h] # "retry" /\ result = "applied")
                 ELSE factor

\* ... undoes what was not shown,
Undoes(h, result) ==
    /\ result = "rejected" /\ reply[h] \in {"controls", "launched", "prompt"}
    /\ h \notin Submits /\ Go(h, "undoing") /\ UNCHANGED watched

\* or starts a watcher,
Watches(h, w, result) ==
    /\ result # "rejected" /\ h \notin Watchers \cup Submits
    /\ ~watched /\ down = "open" /\ at[w] = "idle"
    /\ at' = [at EXCEPT ![h] = "ended", ![w] = "waiting"] /\ watched' = TRUE

\* or just ends.
Ends(h, result) ==
    /\ h = Modal /\ reply[h] = "controls" => result # "rejected"
    /\ h \in Watchers /\ reply[h] = "prompt" => MaybeShown(result)
    /\ Go(h, "ended") /\ watched' \in BOOLEAN
    /\ watched' = (watched /\ h \notin Watchers)

LEMMA EndOrWatch ==
    ASSUME TypeOK, NEW h \in Handlers, NEW result, h \notin Watchers \cup Submits,
           result # "rejected", EndAndWatch(h)
    PROVE  Ends(h, result) \/ \E w \in Watchers : Watches(h, w, result)
<1>1. CASE watched \/ down # "open"
  <2>1. Go(h, "ended") /\ watched' = watched
    BY <1>1 DEF EndAndWatch
  <2> QED BY <2>1 DEF Ends, TypeOK
<1>2. CASE ~(watched \/ down # "open")
  BY <1>2, Zenon DEF EndAndWatch, Watches
<1> QED BY <1>1, <1>2

\* These are all the ways.
LEMMA ReturnCases ==
    ASSUME IInv, NEW h \in Handlers, Return(h)
    PROVE  /\ at[h] \in {"editing", "landed"} /\ UNCHANGED <<reply, shown, hinted, authVars, down>>
           /\ \E result \in Outcomes(h) :
                 /\ outcome' = [outcome EXCEPT ![h] = result]
                 /\ GuardsGivenBack(h, result)
                 /\ \/ Undoes(h, result) \/ Ends(h, result)
                    \/ \E w \in Watchers : Watches(h, w, result)
<1>1. at[h] \in {"editing", "landed"} /\ UNCHANGED <<reply, shown, hinted, authVars, down>>
  BY Zenon DEF Return
<1>2. PICK result \in Outcomes(h) :
         /\ outcome' = [outcome EXCEPT ![h] = result]
         /\ h = Modal => ReturnModal(result)
         /\ h \in Submits => ReturnFactor(h, result)
         /\ h \in Clicks \cup Watchers => ReturnCaptcha(h, result)
  BY Roles, Zenon DEF Return
<1>3. CASE h = Modal
  <2>1. reply[h] \in {"refused", "controls"}
    BY <1>1, <1>3 DEF IInv, RolesKept
  <2>2. \/ reply[h] = "refused" /\ Go(h, "ended") /\ UNCHANGED watched
        \/ result = "rejected" /\ reply[h] # "refused" /\ Go(h, "undoing") /\ UNCHANGED watched
        \/ result # "rejected" /\ EndAndWatch(h)
        \/ result # "rejected" /\ Go(h, "ended") /\ UNCHANGED watched
    BY <1>2, <1>3, <2>1 DEF ReturnModal
  <2>3. GuardsGivenBack(h, result)
    BY <1>2, <1>3, Roles DEF ReturnModal, GuardsGivenBack, guardVars
  <2>4. Undoes(h, result) \/ Ends(h, result) \/ \E w \in Watchers : Watches(h, w, result)
    BY <1>3, <2>1, <2>2, Roles, EndOrWatch DEF IInv, TypeOK, Undoes, Ends
  <2> QED BY <1>1, <1>2, <2>3, <2>4
<1>4. CASE h \in Submits
  BY <1>1, <1>2, <1>4, Roles DEF ReturnFactor, GuardsGivenBack, Ends, IInv, TypeOK
<1>5. CASE h \in Clicks \cup Watchers
  <2>1. \/ reply[h] = "launched" /\ MaybeShown(result) /\ EndAndWatch(h)
        \/ /\ reply[h] \in {"launched", "prompt"} /\ result = "rejected"
           /\ Go(h, "undoing") /\ UNCHANGED watched
        \/ /\ ~(reply[h] \in {"launched", "prompt"} /\ result = "rejected")
           /\ Go(h, "ended") /\ watched' = (watched /\ h \notin Watchers)
    BY <1>2, <1>5, Zenon DEF ReturnCaptcha
  <2>2. GuardsGivenBack(h, result)
    BY <1>2, <1>5, Roles DEF ReturnCaptcha, GuardsGivenBack
  <2>3. Undoes(h, result) \/ Ends(h, result) \/ \E w \in Watchers : Watches(h, w, result)
    <3>1. reply[h] = "launched" => h \notin Watchers
      BY DEF IInv, RolesKept
    <3>2. /\ (watched /\ h \notin Watchers) \in BOOLEAN
          /\ result \in {"applied", "ambiguous", "rejected"}
      BY <1>2 DEF IInv, TypeOK, Outcomes
    <3>3. CASE reply[h] = "launched" /\ MaybeShown(result) /\ EndAndWatch(h)
      BY <1>5, <3>1, <3>3, Roles, EndOrWatch DEF IInv, MaybeShown
    <3>4. CASE /\ reply[h] \in {"launched", "prompt"} /\ result = "rejected"
               /\ Go(h, "undoing") /\ UNCHANGED watched
      BY <1>5, <3>4, Roles DEF Undoes
    <3>5. CASE /\ ~(reply[h] \in {"launched", "prompt"} /\ result = "rejected")
               /\ Go(h, "ended") /\ watched' = (watched /\ h \notin Watchers)
      BY <1>5, <3>2, <3>5, Roles DEF Ends, MaybeShown
    <3> QED BY <2>1, <3>3, <3>4, <3>5
  <2> QED BY <1>1, <1>2, <2>2, <2>3
<1> QED BY <1>3, <1>4, <1>5, Roles

\* It undoes what was not shown.
LEMMA ReturnUndoesInv ==
    ASSUME IInv, UnshownFactorCanceled, NEW h \in Handlers, NEW result \in Outcomes(h), at[h]
           \in {"editing", "landed"}, outcome' = [outcome EXCEPT ![h] = result],
           GuardsGivenBack(h, result), Undoes(h, result), UNCHANGED <<reply, shown, hinted,
           authVars, down>>
    PROVE  IInv' /\ UnshownFactorCanceled'
<1> USE Roles DEF IInv, Inv, MaybeShown, GuardsGivenBack, FinishOf, Go, authVars, Outcomes,
   Undoes
<1>1. (HintForgotten /\ CanceledIsTrue /\ PromptOnce)'
  BY DEF HintForgotten, CanceledIsTrue, PromptOnce
<1>2. TypeOK'
  BY DEF TypeOK, Guards, Free, Messages, Final
<1>3. GuardsExclude'
  BY DEF GuardsExclude, TypeOK, Free, Guards
<1>4. OneWatcher'
  BY DEF OneWatcher, TypeOK, Running
<1>5. DrainedIsQuiet'
  BY DEF DrainedIsQuiet, TypeOK, Running
<1>6. RolesKept'
  BY DEF RolesKept, TypeOK
<1>7. MessageFirst'
  BY DEF MessageFirst, TypeOK, Free
<1>8. ResultIsFinal'
  BY DEF ResultIsFinal, TypeOK, Free, Guards
<1>9. LoginAndFactor'
  BY DEF LoginAndFactor, TypeOK
<1>10. PromptIsOut'
  BY DEF PromptIsOut, TypeOK, PromptShown, Free, Guards, RolesKept
<1>11. OpenLogin'
  BY DEF OpenLogin, TypeOK, Open
<1>12. UnshownFactorCanceled'
  BY DEF UnshownFactorCanceled, TypeOK
<1> QED BY <1>1, <1>2, <1>3, <1>4, <1>5, <1>6, <1>7, <1>8, <1>9, <1>10, <1>11, <1>12

\* It ends.
LEMMA ReturnEndsInv ==
    ASSUME IInv, UnshownFactorCanceled, NEW h \in Handlers, NEW result \in Outcomes(h), at[h]
           \in {"editing", "landed"}, outcome' = [outcome EXCEPT ![h] = result],
           GuardsGivenBack(h, result), Ends(h, result), UNCHANGED <<reply, shown, hinted,
           authVars, down>>
    PROVE  IInv' /\ UnshownFactorCanceled'
<1> USE Roles DEF IInv, Inv, MaybeShown, GuardsGivenBack, FinishOf, Go, authVars, Outcomes, Ends
<1>1. (HintForgotten /\ CanceledIsTrue /\ PromptOnce)'
  BY DEF HintForgotten, CanceledIsTrue, PromptOnce
<1>2. TypeOK'
  BY DEF TypeOK, Guards, Free, Messages, Final
<1>3. GuardsExclude'
  BY DEF GuardsExclude, TypeOK, Free, Guards
<1>4. OneWatcher'
  BY DEF OneWatcher, TypeOK, Running
<1>5. DrainedIsQuiet'
  BY DEF DrainedIsQuiet, TypeOK, Running
<1>6. RolesKept'
  BY DEF RolesKept, TypeOK
<1>7. MessageFirst'
  BY DEF MessageFirst, TypeOK, Free
<1>8. ResultIsFinal'
  BY DEF ResultIsFinal, TypeOK, Free, Guards
<1>9. LoginAndFactor'
  BY DEF LoginAndFactor, TypeOK
<1>10. PromptIsOut'
  BY DEF PromptIsOut, TypeOK, PromptShown, Free, Guards, RolesKept
<1>11. OpenLogin'
  BY DEF OpenLogin, TypeOK, Open
<1>12. UnshownFactorCanceled'
  BY DEF UnshownFactorCanceled, TypeOK
<1> QED BY <1>1, <1>2, <1>3, <1>4, <1>5, <1>6, <1>7, <1>8, <1>9, <1>10, <1>11, <1>12

\* It starts a watcher.
LEMMA ReturnWatchesInv ==
    ASSUME IInv, UnshownFactorCanceled, NEW h \in Handlers, NEW result \in Outcomes(h), at[h]
           \in {"editing", "landed"}, outcome' = [outcome EXCEPT ![h] = result],
           GuardsGivenBack(h, result), NEW w \in Watchers, Watches(h, w, result), UNCHANGED
           <<reply, shown, hinted, authVars, down>>
    PROVE  IInv' /\ UnshownFactorCanceled'
<1> USE Roles DEF IInv, Inv, MaybeShown, GuardsGivenBack, FinishOf, Go, authVars, Outcomes,
   Watches
<1>1. (HintForgotten /\ CanceledIsTrue /\ PromptOnce)'
  BY DEF HintForgotten, CanceledIsTrue, PromptOnce
<1>2. TypeOK'
  BY DEF TypeOK, Guards, Free, Messages, Final
<1>3. GuardsExclude'
  BY DEF GuardsExclude, TypeOK, Free, Guards
<1>4. OneWatcher'
  BY DEF OneWatcher, TypeOK, Running
<1>5. DrainedIsQuiet'
  BY DEF DrainedIsQuiet, TypeOK, Running
<1>6. RolesKept'
  BY DEF RolesKept, TypeOK
<1>7. MessageFirst'
  BY DEF MessageFirst, TypeOK, Free
<1>8. ResultIsFinal'
  BY DEF ResultIsFinal, TypeOK, Free, Guards
<1>9. LoginAndFactor'
  BY DEF LoginAndFactor, TypeOK
<1>10. PromptIsOut'
  <2>1. captcha.terminal => captcha'.terminal
    BY DEF TypeOK, Guards
  <2>2. \A v \in Watchers : PromptShown(v) => PromptShown(v)'
    BY <2>1 DEF PromptShown, TypeOK
  <2>3. \A s \in Submits : at'[s] = at[s]
    BY DEF TypeOK
  <2>4. factor' = factor /\ shown' = shown
    OBVIOUS
  <2> QED BY <2>2, <2>3, <2>4 DEF PromptIsOut
<1>11. OpenLogin'
  <2>1. at'[Modal] = (IF h = Modal THEN "ended" ELSE at[Modal]) /\ UNCHANGED <<entry, reply, shown>>
    BY DEF TypeOK
  <2>2. \A s \in Submits : at'[s] = at[s]
    BY DEF TypeOK
  <2>3. h # Modal => outcome'[Modal] = outcome[Modal]
    BY DEF TypeOK
  <2>4. h = Modal /\ Open /\ shown = "thinking" => outcome'[Modal] = "ambiguous"
    BY DEF OpenLogin, TypeOK, Open
  <2> QED BY <2>1, <2>2, <2>3, <2>4 DEF OpenLogin, Open
<1>12. UnshownFactorCanceled'
  BY DEF UnshownFactorCanceled, TypeOK
<1> QED BY <1>1, <1>2, <1>3, <1>4, <1>5, <1>6, <1>7, <1>8, <1>9, <1>10, <1>11, <1>12

\* The modal opens the login.
LEMMA BeginInv ==
    ASSUME IInv, UnshownFactorCanceled, Begin
    PROVE  IInv' /\ UnshownFactorCanceled'
<1> USE Roles DEF IInv, Inv, MaybeShown, Go, Say, guardVars, Opened
<1>1. /\ at[Modal] = "beginning" /\ Go(Modal, "editing") /\ PromiseTyped
      /\ UNCHANGED <<remote, outcome, guardVars, shown, watched, hinted, opened, mfa, down>>
      /\ \/ Say(Modal, "refused") /\ UNCHANGED <<entry, stored>>
         \/ Say(Modal, "controls") /\ Opened
  BY PromiseSteps DEF Begin, TypeOK, PromiseTyped
<1>2. (HintForgotten /\ ResultIsFinal)'
  BY <1>1 DEF HintForgotten, ResultIsFinal, Free
<1>3. TypeOK'
  BY <1>1 DEF TypeOK, Guards, Free, Messages, Final, PromiseTyped
<1>4. GuardsExclude'
  BY <1>1 DEF GuardsExclude, TypeOK, Free
<1>5. OneWatcher'
  BY <1>1 DEF OneWatcher, TypeOK, Running
<1>6. DrainedIsQuiet'
  BY <1>1 DEF DrainedIsQuiet, TypeOK, Running
<1>7. CanceledIsTrue'
  BY <1>1 DEF CanceledIsTrue, TypeOK
<1>8. RolesKept'
  BY <1>1 DEF RolesKept, TypeOK
<1>9. MessageFirst'
  BY <1>1 DEF MessageFirst, TypeOK, Free
<1>10. LoginAndFactor'
  BY <1>1 DEF LoginAndFactor, TypeOK
<1>11. PromptOnce'
  BY <1>1 DEF PromptOnce, TypeOK
<1>12. PromptIsOut'
  BY <1>1 DEF PromptIsOut, TypeOK, PromptShown, Free
<1>13. OpenLogin'
  BY <1>1 DEF OpenLogin, TypeOK, Open, MessageFirst, RolesKept, LoginAndFactor
<1>14. UnshownFactorCanceled'
  BY <1>1 DEF UnshownFactorCanceled, TypeOK
<1> QED BY <1>2, <1>3, <1>4, <1>5, <1>6, <1>7, <1>8, <1>9, <1>10, <1>11, <1>12, <1>13, <1>14

\* Chrome is launched.
LEMMA LaunchInv ==
    ASSUME IInv, UnshownFactorCanceled, NEW h \in Clicks, Launch(h)
    PROVE  IInv' /\ UnshownFactorCanceled'
<1> USE Roles DEF IInv, Inv, MaybeShown, Go, Say, guardVars, Taken, Open
<1>1. /\ at[h] = "launching" /\ Go(h, "locking") /\ PromiseTyped /\ opened' \in BOOLEAN
      /\ UNCHANGED <<outcome, guardVars, shown, watched, hinted, remote, mfa, down>>
      /\ \/ Say(h, "launched") /\ UNCHANGED <<entry, stored>>
         \/ Say(h, "failed") /\ UNCHANGED <<entry, stored>> /\ ~Open
         \/ Say(h, "failed") /\ Taken /\ Open
  BY GivesUp DEF Launch, TypeOK, PromiseTyped, GiveUp
<1>2. (HintForgotten /\ ResultIsFinal)'
  BY <1>1 DEF HintForgotten, ResultIsFinal, Free
<1>3. TypeOK'
  BY <1>1 DEF TypeOK, Guards, Free, Messages, Final, PromiseTyped
<1>4. GuardsExclude'
  BY <1>1 DEF GuardsExclude, TypeOK, Free
<1>5. OneWatcher'
  BY <1>1 DEF OneWatcher, TypeOK, Running
<1>6. DrainedIsQuiet'
  BY <1>1 DEF DrainedIsQuiet, TypeOK, Running
<1>7. CanceledIsTrue'
  BY <1>1 DEF CanceledIsTrue, TypeOK
<1>8. RolesKept'
  BY <1>1 DEF RolesKept, TypeOK
<1>9. MessageFirst'
  BY <1>1 DEF MessageFirst, TypeOK, Free
<1>10. LoginAndFactor'
  BY <1>1 DEF LoginAndFactor, TypeOK
<1>11. PromptOnce'
  BY <1>1 DEF PromptOnce, TypeOK
<1>12. PromptIsOut'
  BY <1>1 DEF PromptIsOut, TypeOK, PromptShown, Free
<1>13. OpenLogin'
  BY <1>1 DEF OpenLogin, TypeOK, Open
<1>14. UnshownFactorCanceled'
  BY <1>1 DEF UnshownFactorCanceled, TypeOK
<1> QED BY <1>2, <1>3, <1>4, <1>5, <1>6, <1>7, <1>8, <1>9, <1>10, <1>11, <1>12, <1>13, <1>14

\* The login is canceled.
LEMMA CancelInv ==
    ASSUME IInv, UnshownFactorCanceled, NEW h \in Clicks, Cancel(h)
    PROVE  IInv' /\ UnshownFactorCanceled'
<1> USE Roles DEF IInv, Inv, MaybeShown, Go, Say, FinishOf, guardVars, Taken, Open
<1>1. /\ at[h] = "canceling" /\ PromiseTyped
      /\ UNCHANGED <<outcome, factor, shown, watched, hinted, remote, opened, mfa, down>>
      /\ \/ Open /\ Taken /\ Go(h, "editing") /\ Say(h, "canceled") /\ UNCHANGED captcha
         \/ /\ UNCHANGED <<entry, stored, reply>> /\ ~Open
            /\ Go(h, "ended") /\ captcha' = FinishOf(captcha, FALSE)
  BY GivesUp DEF Cancel, TypeOK, PromiseTyped, GiveUp
<1>2. TypeOK'
  BY <1>1 DEF TypeOK, Guards, Free, Messages, Final, PromiseTyped
<1>3. GuardsExclude'
  BY <1>1 DEF GuardsExclude, TypeOK, Free
<1>4. OneWatcher'
  BY <1>1 DEF OneWatcher, TypeOK, Running
<1>5. DrainedIsQuiet'
  BY <1>1 DEF DrainedIsQuiet, TypeOK, Running
<1>6. HintForgotten'
  BY <1>1 DEF HintForgotten, TypeOK
<1>7. CanceledIsTrue'
  BY <1>1 DEF CanceledIsTrue, TypeOK
<1>8. RolesKept'
  BY <1>1 DEF RolesKept, TypeOK
<1>9. MessageFirst'
  BY <1>1 DEF MessageFirst, TypeOK, Free
<1>10. ResultIsFinal'
  BY <1>1 DEF ResultIsFinal, TypeOK, Free
<1>11. LoginAndFactor'
  BY <1>1 DEF LoginAndFactor, TypeOK
<1>12. PromptOnce'
  BY <1>1 DEF PromptOnce, TypeOK
<1>13. PromptIsOut'
  BY <1>1 DEF PromptIsOut, TypeOK, PromptShown, Free, Guards
<1>14. OpenLogin'
  BY <1>1 DEF OpenLogin, TypeOK, Open
<1>15. UnshownFactorCanceled'
  BY <1>1 DEF UnshownFactorCanceled, TypeOK
<1> QED BY <1>2, <1>3, <1>4, <1>5, <1>6, <1>7, <1>8, <1>9, <1>10, <1>11, <1>12, <1>13, <1>14,
   <1>15

\* A code is submitted.
LEMMA SubmitInv ==
    ASSUME IInv, UnshownFactorCanceled, NEW h \in Submits, Submit(h)
    PROVE  IInv' /\ UnshownFactorCanceled'
<1> USE Roles DEF IInv, Inv, MaybeShown, Submit, Go, Say, guardVars
<1>1. hinted' \in BOOLEAN /\ mfa' \in {"none", "live", "used", "gone"}
  BY DEF TypeOK
<1>2. TypeOK'
  BY <1>1 DEF TypeOK, Guards, Free, Messages, Final
<1>3. GuardsExclude'
  BY <1>1 DEF GuardsExclude, TypeOK, Free
<1>4. OneWatcher'
  BY <1>1 DEF OneWatcher, TypeOK, Running
<1>5. DrainedIsQuiet'
  BY <1>1 DEF DrainedIsQuiet, TypeOK, Running
<1>6. HintForgotten'
  BY <1>1 DEF HintForgotten, TypeOK
<1>7. CanceledIsTrue'
  BY <1>1 DEF CanceledIsTrue, TypeOK
<1>8. RolesKept'
  BY <1>1 DEF RolesKept, TypeOK
<1>9. MessageFirst'
  BY <1>1 DEF MessageFirst, TypeOK, Free
<1>10. ResultIsFinal'
  BY <1>1 DEF ResultIsFinal, TypeOK, Free
<1>11. LoginAndFactor'
  BY <1>1 DEF LoginAndFactor, TypeOK, PromptIsOut, PromptShown, PromptOnce
<1>12. PromptOnce'
  BY <1>1 DEF PromptOnce, TypeOK
<1>13. PromptIsOut'
  BY <1>1 DEF PromptIsOut, TypeOK, PromptShown, Free
<1>14. OpenLogin'
  BY <1>1 DEF OpenLogin, TypeOK, Open
<1>15. UnshownFactorCanceled'
  BY <1>1 DEF UnshownFactorCanceled, TypeOK
<1> QED BY <1>2, <1>3, <1>4, <1>5, <1>6, <1>7, <1>8, <1>9, <1>10, <1>11, <1>12, <1>13, <1>14,
   <1>15

\* What a watcher may learn.
Learns(w, text) ==
    \/ text = "prompt" /\ entry[Login] = "mfa" /\ Taken
    \/ text \in {"done", "failed"} /\ Taken
    \/ text = "failed" /\ ~Open /\ UNCHANGED <<entry, stored>>

LEMMA LearnCases ==
    ASSUME TypeOK, NEW w \in Watchers, Learn(w) \/ LearnNothing(w)
    PROVE  PromiseTyped /\ \E text : Say(w, text) /\ Learns(w, text)
<1>1. CASE Learn(w) /\ Promise!Retire({Login}) /\ Decided
  <2>1. PromiseTyped /\ Taken
    BY <1>1, PromiseSteps
  <2>2. CASE entry[Login] = "linked"
    <3>1. Say(w, "done")
      BY <1>1, <2>2, Zenon DEF Learn
    <3> QED BY <2>1, <3>1 DEF Learns
  <2>3. CASE entry[Login] = "mfa"
    <3>1. Say(w, "prompt")
      BY <1>1, <2>3, Zenon DEF Learn
    <3> QED BY <2>1, <2>3, <3>1 DEF Learns
  <2>4. CASE entry[Login] = "failed"
    <3>1. Say(w, "failed")
      BY <1>1, <2>4, Zenon DEF Learn
    <3> QED BY <2>1, <3>1 DEF Learns
  <2> QED BY <1>1, <2>2, <2>3, <2>4 DEF Decided
<1>2. CASE entry[Login] = "gone" /\ Say(w, "failed") /\ UNCHANGED <<entry, stored>>
  BY <1>2 DEF Learns, Open, TypeOK, PromiseTyped
<1>3. CASE LearnNothing(w)
  BY <1>3, GivesUp DEF LearnNothing, Learns, GiveUp, TypeOK, PromiseTyped
<1>4. Learn(w) => \/ Promise!Retire({Login}) /\ Decided
                  \/ entry[Login] = "gone" /\ Say(w, "failed") /\ UNCHANGED <<entry, stored>>
  BY Zenon DEF Learn
<1> QED BY <1>1, <1>2, <1>3, <1>4

\* A watcher speaks, if it may.
LEMMA SpeakInv ==
    ASSUME IInv, UnshownFactorCanceled, NEW w \in Watchers, Speak(w), NEW text, Say(w, text),
           Learns(w, text), PromiseTyped
    PROVE  IInv' /\ UnshownFactorCanceled'
<1> USE Roles DEF IInv, Inv, MaybeShown, Go, Say, guardVars, Taken, Open, Learns
<1>1. /\ at[w] = "waiting" /\ hinted' \in BOOLEAN
      /\ hinted' = (hinted \/ text = "prompt")
      /\ UNCHANGED <<outcome, guardVars, shown, remote, opened, mfa, down>>
      /\ \/ down = "open" /\ Go(w, "locking") /\ UNCHANGED watched
         \/ down # "open" /\ text = "prompt" /\ Go(w, "undoing") /\ UNCHANGED watched
         \/ down # "open" /\ text # "prompt" /\ Go(w, "ended") /\ watched' = FALSE
  BY DEF Speak, TypeOK
<1>2. TypeOK'
  <2>1. reply' \in [Handlers -> Messages \cup {"none"}]
    BY DEF TypeOK, Messages, Final
  <2>2. watched' \in BOOLEAN
    BY <1>1 DEF TypeOK
  <2>3. at' \in [Handlers -> {"idle", "clicked", "beginning", "launching", "locking", "canceling",
                            "submitting", "waiting", "editing", "landed", "undoing", "ended"}]
    BY <1>1 DEF TypeOK
  <2> QED BY <1>1, <2>1, <2>2, <2>3 DEF TypeOK, PromiseTyped
<1>3. GuardsExclude'
  BY <1>1 DEF GuardsExclude, TypeOK, Free
<1>4. OneWatcher'
  BY <1>1 DEF OneWatcher, TypeOK, Running
<1>5. DrainedIsQuiet'
  BY <1>1 DEF DrainedIsQuiet, TypeOK, Running
<1>6. HintForgotten'
  BY <1>1 DEF HintForgotten, TypeOK, LoginAndFactor
<1>7. CanceledIsTrue'
  BY <1>1 DEF CanceledIsTrue, TypeOK
<1>8. RolesKept'
  BY <1>1 DEF RolesKept, TypeOK
<1>9. MessageFirst'
  BY <1>1 DEF MessageFirst, TypeOK, Free
<1>10. ResultIsFinal'
  BY <1>1 DEF ResultIsFinal, TypeOK, Free
<1>11. LoginAndFactor'
  BY <1>1 DEF LoginAndFactor, TypeOK
<1>12. PromptOnce'
  BY <1>1 DEF PromptOnce, TypeOK
<1>13. PromptIsOut'
  BY <1>1 DEF PromptIsOut, TypeOK, PromptShown, Free
<1>14. OpenLogin'
  BY <1>1 DEF OpenLogin, TypeOK, Open
<1>15. UnshownFactorCanceled'
  BY <1>1 DEF UnshownFactorCanceled, TypeOK
<1> QED BY <1>2, <1>3, <1>4, <1>5, <1>6, <1>7, <1>8, <1>9, <1>10, <1>11, <1>12, <1>13, <1>14,
   <1>15

\* A watcher cancels the second factor that its edit did not show.
LEMMA UndoFactorInv ==
    ASSUME IInv, UnshownFactorCanceled, NEW h \in Watchers, Undo(h)
    PROVE  IInv' /\ UnshownFactorCanceled'
<1> USE Roles DEF IInv, Inv, MaybeShown, Undo, Go, authVars
<1>1. /\ at[h] = "undoing" /\ Go(h, "ended")
      /\ hinted' = FALSE /\ factor' = Free /\ watched' = FALSE
      /\ mfa' = (IF mfa = "live" THEN "gone" ELSE mfa)
      /\ UNCHANGED <<entry, stored, reply, outcome, captcha, shown, remote, opened, down>>
  BY DEF Undo
<1>2. \A s \in Submits : at[s] = "idle"
  BY <1>1 DEF PromptIsOut, PromptOnce, PromptShown, RolesKept
<1>3. TypeOK'
  BY <1>1, <1>2 DEF TypeOK, Guards, Free, Messages, Final
<1>4. GuardsExclude'
  BY <1>1, <1>2 DEF GuardsExclude, TypeOK, Free
<1>5. OneWatcher'
  BY <1>1, <1>2 DEF OneWatcher, TypeOK, Running
<1>6. DrainedIsQuiet'
  BY <1>1, <1>2 DEF DrainedIsQuiet, TypeOK, Running
<1>7. HintForgotten'
  BY <1>1, <1>2 DEF HintForgotten, TypeOK
<1>8. CanceledIsTrue'
  BY <1>1, <1>2 DEF CanceledIsTrue, TypeOK
<1>9. RolesKept'
  BY <1>1, <1>2 DEF RolesKept, TypeOK
<1>10. MessageFirst'
  BY <1>1, <1>2 DEF MessageFirst, TypeOK, Free
<1>11. ResultIsFinal'
  BY <1>1, <1>2 DEF ResultIsFinal, TypeOK, Free
<1>12. LoginAndFactor'
  BY <1>1, <1>2 DEF LoginAndFactor, TypeOK
<1>13. PromptOnce'
  BY <1>1, <1>2 DEF PromptOnce, TypeOK
<1>14. PromptIsOut'
  BY <1>1, <1>2 DEF PromptIsOut, TypeOK, PromptShown, Free
<1>15. OpenLogin'
  BY <1>1, <1>2 DEF OpenLogin, TypeOK, Open
<1>16. UnshownFactorCanceled'
  BY <1>1, <1>2 DEF UnshownFactorCanceled, TypeOK
<1> QED BY <1>3, <1>4, <1>5, <1>6, <1>7, <1>8, <1>9, <1>10, <1>11, <1>12, <1>13, <1>14, <1>15,
   <1>16

\* Another handler gives up the login that its edit did not show.
LEMMA UndoLoginInv ==
    ASSUME IInv, UnshownFactorCanceled, NEW h \in Handlers \ Watchers, Undo(h)
    PROVE  IInv' /\ UnshownFactorCanceled'
<1> USE Roles DEF IInv, Inv, MaybeShown, Go, Taken, Open, authVars
<1>1. /\ at[h] = "undoing" /\ PromiseTyped /\ Go(h, "ended")
      /\ UNCHANGED <<mfa, hinted, factor, watched, reply, outcome, captcha, shown, remote,
                     opened, down>>
      /\ \/ Open /\ Taken
         \/ UNCHANGED <<entry, stored>> /\ ~Open
  BY GivesUp DEF Undo, TypeOK, PromiseTyped, GiveUp
<1>2. (HintForgotten /\ ResultIsFinal)'
  BY <1>1 DEF HintForgotten, ResultIsFinal, Free
<1>3. TypeOK'
  BY <1>1 DEF TypeOK, Guards, Free, Messages, Final, PromiseTyped
<1>4. GuardsExclude'
  BY <1>1 DEF GuardsExclude, TypeOK, Free
<1>5. OneWatcher'
  BY <1>1 DEF OneWatcher, TypeOK, Running
<1>6. DrainedIsQuiet'
  BY <1>1 DEF DrainedIsQuiet, TypeOK, Running
<1>7. CanceledIsTrue'
  BY <1>1 DEF CanceledIsTrue, TypeOK
<1>8. RolesKept'
  BY <1>1 DEF RolesKept, TypeOK
<1>9. MessageFirst'
  BY <1>1 DEF MessageFirst, TypeOK, Free
<1>10. LoginAndFactor'
  BY <1>1 DEF LoginAndFactor, TypeOK
<1>11. PromptOnce'
  BY <1>1 DEF PromptOnce, TypeOK
<1>12. PromptIsOut'
  BY <1>1 DEF PromptIsOut, TypeOK, PromptShown, Free
<1>13. OpenLogin'
  BY <1>1 DEF OpenLogin, TypeOK, Open
<1>14. UnshownFactorCanceled'
  BY <1>1 DEF UnshownFactorCanceled, TypeOK
<1> QED BY <1>2, <1>3, <1>4, <1>5, <1>6, <1>7, <1>8, <1>9, <1>10, <1>11, <1>12, <1>13, <1>14

\* The login goes its way.
LEMMA LoginMovesInv ==
    ASSUME IInv, UnshownFactorCanceled, LoginMoves
    PROVE  IInv' /\ UnshownFactorCanceled'
<1> USE Roles DEF IInv, Inv, MaybeShown, Moved, AuthRest, authVars, handlerVars, guardVars
<1>1. /\ Moved /\ PromiseTyped /\ AuthRest /\ mfa' = (IF entry'[Login] = "mfa" THEN "live" ELSE mfa)
  BY PromiseSteps DEF LoginMoves
<1>2. (GuardsExclude /\ OneWatcher /\ DrainedIsQuiet /\ RolesKept /\ ResultIsFinal /\
       PromptIsOut)'
  BY <1>1 DEF GuardsExclude, OneWatcher, DrainedIsQuiet, RolesKept, ResultIsFinal, PromptIsOut,
     Free, Free, PromptShown, Free, Running
<1>3. TypeOK'
  BY <1>1 DEF TypeOK, Guards, Free, Messages, Final, PromiseTyped
<1>4. HintForgotten'
  BY <1>1 DEF HintForgotten, TypeOK
<1>5. CanceledIsTrue'
  BY <1>1 DEF CanceledIsTrue, TypeOK
<1>6. MessageFirst'
  BY <1>1 DEF MessageFirst, TypeOK, Free
<1>7. LoginAndFactor'
  BY <1>1 DEF LoginAndFactor, TypeOK, OpenLogin, Open
<1>8. PromptOnce'
  BY <1>1 DEF PromptOnce, TypeOK
<1>9. OpenLogin'
  BY <1>1 DEF OpenLogin, TypeOK, Open
<1>10. UnshownFactorCanceled'
  BY <1>1 DEF UnshownFactorCanceled, TypeOK, PromptOnce
<1> QED BY <1>2, <1>3, <1>4, <1>5, <1>6, <1>7, <1>8, <1>9, <1>10

\* The login expires.
LEMMA LoginExpiresInv ==
    ASSUME IInv, UnshownFactorCanceled, LoginExpires
    PROVE  IInv' /\ UnshownFactorCanceled'
<1> USE Roles DEF IInv, Inv, MaybeShown, Taken, AuthRest, authVars, handlerVars, guardVars
<1>1. Taken /\ PromiseTyped /\ AuthRest /\ UNCHANGED mfa
  BY PromiseSteps DEF LoginExpires
<1>2. (GuardsExclude /\ OneWatcher /\ DrainedIsQuiet /\ HintForgotten /\ RolesKept /\
       ResultIsFinal /\ PromptIsOut /\ UnshownFactorCanceled)'
  BY <1>1 DEF GuardsExclude, OneWatcher, DrainedIsQuiet, HintForgotten, RolesKept,
     ResultIsFinal, PromptIsOut, UnshownFactorCanceled, Free, Free, PromptShown, Free, Running
<1>3. TypeOK'
  BY <1>1 DEF TypeOK, Guards, Free, Messages, Final, PromiseTyped
<1>4. CanceledIsTrue'
  BY <1>1 DEF CanceledIsTrue, TypeOK
<1>5. MessageFirst'
  BY <1>1 DEF MessageFirst, TypeOK, Free
<1>6. LoginAndFactor'
  BY <1>1 DEF LoginAndFactor, TypeOK
<1>7. PromptOnce'
  BY <1>1 DEF PromptOnce, TypeOK
<1>8. OpenLogin'
  BY <1>1 DEF OpenLogin, TypeOK, Open
<1> QED BY <1>2, <1>3, <1>4, <1>5, <1>6, <1>7, <1>8

\* The second factor expires.
LEMMA FactorExpiresInv ==
    ASSUME IInv, UnshownFactorCanceled, FactorExpires
    PROVE  IInv' /\ UnshownFactorCanceled'
<1> USE Roles DEF IInv, Inv, MaybeShown, FactorExpires, AuthRest, authVars, handlerVars,
   guardVars
<1>1. (GuardsExclude /\ OneWatcher /\ DrainedIsQuiet /\ RolesKept /\ MessageFirst /\
       ResultIsFinal /\ PromptOnce /\ PromptIsOut /\ OpenLogin)'
  BY DEF GuardsExclude, OneWatcher, DrainedIsQuiet, RolesKept, MessageFirst, ResultIsFinal,
     PromptOnce, PromptIsOut, OpenLogin, Free, Free, Free, PromptShown, Free, Open, Running
<1>2. TypeOK'
  BY DEF TypeOK, Guards, Free, Messages, Final
<1>3. HintForgotten'
  BY DEF HintForgotten, TypeOK
<1>4. CanceledIsTrue'
  BY DEF CanceledIsTrue, TypeOK
<1>5. LoginAndFactor'
  BY DEF LoginAndFactor, TypeOK
<1>6. UnshownFactorCanceled'
  BY DEF UnshownFactorCanceled, TypeOK
<1> QED BY <1>1, <1>2, <1>3, <1>4, <1>5, <1>6

\* The handlers are closed.
LEMMA ShutdownInv ==
    ASSUME IInv, UnshownFactorCanceled, Shutdown
    PROVE  IInv' /\ UnshownFactorCanceled'
<1> USE Roles DEF IInv, Inv, MaybeShown, Shutdown, DownRest, handlerVars, guardVars, authVars
<1>1. (GuardsExclude /\ OneWatcher /\ HintForgotten /\ CanceledIsTrue /\ RolesKept /\
       MessageFirst /\ ResultIsFinal /\ LoginAndFactor /\ PromptOnce /\ OpenLogin /\
       UnshownFactorCanceled)'
  BY DEF GuardsExclude, OneWatcher, HintForgotten, CanceledIsTrue, RolesKept, MessageFirst,
     ResultIsFinal, LoginAndFactor, PromptOnce, OpenLogin, UnshownFactorCanceled, Free, Free,
     Free, Open, Running
<1>2. TypeOK'
  BY DEF TypeOK, Guards, Free, Messages, Final
<1>3. DrainedIsQuiet'
  BY DEF DrainedIsQuiet, TypeOK, Running
<1>4. PromptIsOut'
  BY DEF PromptIsOut, TypeOK, PromptShown, Free
<1> QED BY <1>1, <1>2, <1>3, <1>4

\* The handlers are drained.
LEMMA DrainInv ==
    ASSUME IInv, UnshownFactorCanceled, Drain
    PROVE  IInv' /\ UnshownFactorCanceled'
<1> USE Roles DEF IInv, Inv, MaybeShown, Drain, DownRest, Running, handlerVars, authVars
<1>1. (CanceledIsTrue /\ RolesKept /\ LoginAndFactor /\ PromptOnce /\ OpenLogin /\
       UnshownFactorCanceled)'
  BY DEF CanceledIsTrue, RolesKept, LoginAndFactor, PromptOnce, OpenLogin,
     UnshownFactorCanceled, Open
<1>2. TypeOK'
  BY DEF TypeOK, Guards, Free, Messages, Final
<1>3. GuardsExclude'
  BY DEF GuardsExclude, TypeOK, Free
<1>4. OneWatcher'
  BY DEF OneWatcher, TypeOK
<1>5. DrainedIsQuiet'
  BY DEF DrainedIsQuiet, TypeOK
<1>6. HintForgotten'
  BY DEF HintForgotten, TypeOK
<1>7. MessageFirst'
  BY DEF MessageFirst, TypeOK, Free
<1>8. ResultIsFinal'
  BY DEF ResultIsFinal, TypeOK, Free
<1>9. PromptIsOut'
  BY DEF PromptIsOut, TypeOK, PromptShown, Free
<1> QED BY <1>1, <1>2, <1>3, <1>4, <1>5, <1>6, <1>7, <1>8, <1>9

\* Nothing changes.
LEMMA StutterInv ==
    ASSUME IInv, UnshownFactorCanceled, UNCHANGED vars
    PROVE  IInv' /\ UnshownFactorCanceled'
<1> USE Roles DEF IInv, Inv, MaybeShown, vars, handlerVars, guardVars, authVars
<1>1. (GuardsExclude /\ OneWatcher /\ DrainedIsQuiet /\ HintForgotten /\ CanceledIsTrue /\
       RolesKept /\ MessageFirst /\ ResultIsFinal /\ LoginAndFactor /\ PromptOnce /\ PromptIsOut
       /\ OpenLogin /\ UnshownFactorCanceled)'
  BY DEF GuardsExclude, OneWatcher, DrainedIsQuiet, HintForgotten, CanceledIsTrue, RolesKept,
     MessageFirst, ResultIsFinal, LoginAndFactor, PromptOnce, PromptIsOut, OpenLogin,
     UnshownFactorCanceled, Free, Free, Free, PromptShown, Free, Open, Running
<1>2. TypeOK'
  BY DEF TypeOK, Guards, Free, Messages, Final
<1> QED BY <1>1, <1>2

\* What a handler does keeps it.
LEMMA StepInv ==
    ASSUME IInv, UnshownFactorCanceled, NEW h \in Handlers, Click(h) \/ Step(h) \/ TimesOut(h)
    PROVE  IInv' /\ UnshownFactorCanceled'
<1>1. CASE Click(h)  BY <1>1, ClickInv
<1>2. CASE Start(h)
  <2>1. /\ at[h] = "clicked" /\ UNCHANGED <<outcome, guardVars, shown, watched, authVars, down>>
    BY <1>2 DEF Start
  <2> QED BY <1>2, <2>1, StartCases, StartInv DEF IInv
<1>3. CASE Enter(h)  BY <1>3, EnterInv
<1>4. CASE Suppress(h) \/ GuardTimesOut(h)
  BY <1>4, LeaveInv DEF Suppress, GuardTimesOut
<1>5. CASE Call(h) \/ (h \in Watchers /\ WaitTimesOut(h))
  <2>1. CASE h = Modal /\ Begin  BY <2>1, BeginInv
  <2>2. CASE h \in Clicks /\ Launch(h)  BY <2>2, LaunchInv
  <2>3. CASE h \in Clicks /\ Cancel(h)  BY <2>3, CancelInv
  <2>4. CASE h \in Submits /\ Submit(h)  BY <2>4, SubmitInv
  <2>5. CASE h \in Watchers /\ (Wait(h) \/ WaitTimesOut(h))
    <3>1. (Learn(h) \/ LearnNothing(h)) /\ Speak(h)
      BY <2>5 DEF Wait, WaitTimesOut
    <3> QED BY <2>5, <3>1, LearnCases, SpeakInv DEF IInv
  <2> QED BY <1>5, <2>1, <2>2, <2>3, <2>4, <2>5 DEF Call
<1>6. CASE Land(h)  BY <1>6, LandInv
<1>7. CASE Return(h)
  BY <1>7, ReturnCases, ReturnUndoesInv, ReturnEndsInv, ReturnWatchesInv
<1>8. CASE Undo(h)  BY <1>8, UndoFactorInv, UndoLoginInv
<1> QED BY <1>1, <1>2, <1>3, <1>4, <1>5, <1>6, <1>7, <1>8 DEF Step, TimesOut

\* Every step keeps it.
LEMMA NextInv ==
    ASSUME IInv, UnshownFactorCanceled, [Next]_vars
    PROVE  IInv' /\ UnshownFactorCanceled'
<1>1. CASE \E h \in Handlers : Click(h) \/ Step(h) \/ TimesOut(h)
  BY <1>1, StepInv
<1>2. CASE LoginMoves \/ LoginExpires \/ FactorExpires
  BY <1>2, LoginMovesInv, LoginExpiresInv, FactorExpiresInv
<1>3. CASE Shutdown \/ Drain
  BY <1>3, ShutdownInv, DrainInv
<1>4. CASE UNCHANGED vars
  BY <1>4, StutterInv
<1> QED BY <1>1, <1>2, <1>3, <1>4 DEF Next

LEMMA Invariants == Spec => [](IInv /\ UnshownFactorCanceled)
BY InitInv, NextInv, PTL DEF Spec

\* Whatever the order of clicks, edits, verdicts, expiries and the shutdown: no two handlers
\* are inside one guard, a login has at most one watcher and captchaWatches knows of it, the
\* drained handlers are quiet, the hint of a used factor is forgotten, and "canceled" is
\* shown only of a login that linked nothing (interactionEditGuard, captchaWatches,
\* HandlePasswordCaptchaCancel).
THEOREM HandlersKeepTheMessage == Spec => []IInv
BY Invariants, PTL

\* A second factor whose prompt is known not to be shown does not stay alive, also when
\* the bot shuts down while its watcher waits (watchPasswordCaptcha).
THEOREM UnshownFactorsEnd == Spec => []UnshownFactorCanceled
BY Invariants, PTL

\* A login that is open while no handler works on it has its controls on the message, unless
\* Discord never said whether it has (handlePasswordLogin, handlePasswordCaptchaLaunch).
THEOREM OpenLoginsAreReachable == Spec => []OpenLoginReachable
<1>1. IInv => OpenLoginReachable
  BY Roles DEF IInv, TypeOK, OpenLogin, OpenLoginReachable, Open, Running
<1> QED BY <1>1, Invariants, PTL

\* Only an edit that lands changes what the message shows.
LEMMA OnlyLandShows ==
    ASSUME [Next]_vars, shown' # shown
    PROVE  \E h \in Handlers : Land(h)
<1> USE DEF authVars, guardVars, handlerVars
<1>1. ASSUME NEW h \in Handlers, Click(h) \/ Step(h) \/ TimesOut(h)
      PROVE  Land(h)
  <2>1. ~Click(h) /\ ~Start(h) /\ ~Enter(h)
    BY Zenon DEF Click, Start, Enter
  <2>2. ~Suppress(h) /\ ~GuardTimesOut(h) /\ ~Return(h) /\ ~Undo(h)
    BY Zenon DEF Suppress, GuardTimesOut, LeaveWith, Return, Undo
  <2>3. ~Call(h) /\ ~WaitTimesOut(h)
    BY Zenon DEF Call, Begin, Launch, Cancel, Submit, Wait, WaitTimesOut, Speak
  <2> QED BY <1>1, <2>1, <2>2, <2>3 DEF Step, TimesOut
<1>2. ~LoginMoves /\ ~LoginExpires /\ ~FactorExpires /\ ~Shutdown /\ ~Drain /\ ~UNCHANGED vars
  BY Zenon DEF LoginMoves, LoginExpires, FactorExpires, AuthRest, Shutdown, Drain, DownRest, vars
<1> QED BY <1>1, <1>2 DEF Next

\* An edit that lands on a result is the second factor's, and none lands on its result.
LEMMA LandKeepsResult ==
    ASSUME IInv, NEW h \in Handlers, Land(h)
    PROVE  /\ captcha.terminal => shown' \in {shown, "retry", "done", "expired"}
           /\ factor.terminal => shown' = shown
<1> USE Roles DEF IInv, Inv, TypeOK, Guards, Free, Land
<1>1. h \in Clicks \cup Watchers => ~captcha.terminal
  BY DEF GuardsExclude, ResultIsFinal
<1>2. h \in Submits => ~factor.terminal /\ reply[h] \in {"retry", "done", "expired"}
  BY DEF GuardsExclude, ResultIsFinal, RolesKept
<1>3. h = Modal => ~captcha.terminal /\ ~factor.terminal
  BY DEF MessageFirst
<1>4. h \in Clicks \cup Watchers => ~factor.terminal
  <2>1. SUFFICES ASSUME h \in Clicks \cup Watchers, factor.terminal PROVE FALSE
    OBVIOUS
  <2>2. PICK w \in Watchers : PromptShown(w)
    BY <2>1 DEF PromptIsOut
  <2>3. w # h /\ captcha.busy = h
    BY <2>1, <2>2 DEF PromptShown, GuardsExclude
  <2>4. at[w] = "ended" /\ captcha.terminal
    BY <2>1, <2>2, <2>3 DEF PromptShown, GuardsExclude, DrainedIsQuiet, Running
  <2> QED BY <1>1, <2>1, <2>4
<1> QED BY <1>1, <1>2, <1>3, <1>4

\* Once a result is on the message no slower edit of an earlier state overwrites it
\* (editCaptchaInteractionThenOutcome, interactionEditGuard).
THEOREM ResultsStay == Spec => ResultStays
<1>1. ASSUME IInv, [Next]_vars
      PROVE  /\ captcha.terminal => shown' \in {shown, "retry", "done", "expired"}
             /\ factor.terminal => shown' = shown
  BY <1>1, OnlyLandShows, LandKeepsResult
<1>2. IInv /\ [Next]_vars =>
         [/\ captcha.terminal => shown' \in {shown, "retry", "done", "expired"}
          /\ factor.terminal => shown' = shown]_vars
  BY <1>1
<1> QED BY <1>2, Invariants, PTL DEF Spec, ResultStays

=============================================================================
