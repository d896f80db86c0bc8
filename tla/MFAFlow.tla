------------------------------- MODULE MFAFlow -------------------------------
(***************************************************************************)
(* The second factor of a password login: one entry of Server.mfaPending   *)
(* (internal/authweb/server.go), opened by the worker that found out that  *)
(* Riot wants a code.  Any number of modal submissions, the owner's cancel,*)
(* the TTL and Server.shutdown race for it; whoever deletes the entry from *)
(* the table has taken the continuation.                                   *)
(*                                                                         *)
(* Every action is one critical section of Server.mu, a call to Riot or to *)
(* the store, or a wait.                                                   *)
(***************************************************************************)
EXTENDS Integers, FiniteSets

CONSTANT Submitters   \* the calls of CompletePasswordMFA by the owner

ASSUME MFAFlowAssumption ==
    {"none", "canceller", "expirer", "shutdown"} \cap Submitters = {}

VARIABLES
    entry,      \* mfaPending[state]
    canceled,   \* flow.ctx is canceled
    overdue,    \* pending.expiresAt has passed
    spent,      \* Riot has accepted a code or failed in a way that allows no other
    stored,     \* accounts stored for this continuation
    taker,      \* who deleted the entry
    submission, \* CompletePasswordMFA
    reply,      \* what SubmitMFA returned to it
    answer,     \* what it returns itself
    canceller,  \* CancelPasswordMFA
    expirer,    \* expireMFAState
    shutdown    \* Server.shutdown

flowVars == <<entry, canceled, taker>>
mfaVars == <<flowVars, overdue, spent, stored, submission, reply, answer, canceller, expirer,
             shutdown>>

\* a submission that holds flow.submitMu
Holding == {"posting", "answered", "claiming", "consumed", "linking", "committing"}

MFAInit ==
    /\ entry = "none"
    /\ canceled = FALSE
    /\ overdue = FALSE
    /\ spent = FALSE
    /\ stored = 0
    /\ taker = "none"
    /\ submission = [s \in Submitters |-> "idle"]
    /\ reply = [s \in Submitters |-> "none"]
    /\ answer = [s \in Submitters |-> "none"]
    /\ canceller = "idle"
    /\ expirer = "idle"
    /\ shutdown = "up"

-----------------------------------------------------------------------------
sealed == shutdown # "up"

\* liveMFAState, beginMFAOperation and consumeMFAState
Live == entry = "live" /\ ~canceled /\ ~overdue

SubmitMuFree == \A s \in Submitters : submission[s] \notin Holding

\* flow.wg
Joined == \A s \in Submitters : submission[s] \notin {"waiting"} \cup Holding

\* the submissions lifecycleWG counts
Drained == \A s \in Submitters : submission[s] \in {"idle", "done"}

\* the context of every request is derived from flow.ctx and from the lifecycle
RequestCanceled == canceled \/ shutdown \notin {"up", "sealed"}

TakeEntry(who) == entry' = "gone" /\ taker' = who

-----------------------------------------------------------------------------
\* finishFinalizedPasswordMFA
Open ==
    /\ entry = "none"
    /\ ~sealed
    /\ entry' = "live"
    /\ expirer' = "running"
    /\ UNCHANGED <<canceled, taker, overdue, spent, stored, submission, reply, answer,
                   canceller, shutdown>>

Expire ==
    /\ entry # "none"
    /\ ~overdue
    /\ overdue' = TRUE
    /\ UNCHANGED <<flowVars, spent, stored, submission, reply, answer, canceller, expirer,
                   shutdown>>

-----------------------------------------------------------------------------
(* CompletePasswordMFA.                                                    *)

SubmitRest == UNCHANGED <<overdue, canceller, expirer, shutdown>>

Finish(s, result) == /\ submission' = [submission EXCEPT ![s] = "done"]
                     /\ answer' = [answer EXCEPT ![s] = result]

\* beginLifecycleOperation
SubmitEnroll(s) ==
    /\ submission[s] = "idle"
    /\ entry # "none"
    /\ \/ ~sealed /\ submission' = [submission EXCEPT ![s] = "enrolled"] /\ UNCHANGED answer
       \/ sealed /\ Finish(s, "refused")
    /\ UNCHANGED <<flowVars, spent, stored, reply>>
    /\ SubmitRest

\* beginMFAOperation
SubmitAdmit(s) ==
    /\ submission[s] = "enrolled"
    /\ \/ /\ ~sealed
          /\ Live
          /\ submission' = [submission EXCEPT ![s] = "waiting"]
          /\ UNCHANGED answer
       \/ ~(~sealed /\ Live) /\ Finish(s, "refused")
    /\ UNCHANGED <<flowVars, spent, stored, reply>>
    /\ SubmitRest

\* mutation: submissions are not serialised
SubmitLockUnserialised(s) ==
    /\ submission[s] = "waiting"
    /\ \/ Live /\ submission' = [submission EXCEPT ![s] = "posting"] /\ UNCHANGED answer
       \/ ~Live /\ Finish(s, "refused")
    /\ UNCHANGED <<flowVars, spent, stored, reply>>
    /\ SubmitRest

\* submitMu is taken and the continuation looked at again
SubmitLock(s) ==
    /\ submission[s] = "waiting"
    /\ SubmitMuFree
    /\ \/ Live /\ submission' = [submission EXCEPT ![s] = "posting"] /\ UNCHANGED answer
       \/ ~Live /\ Finish(s, "refused")
    /\ UNCHANGED <<flowVars, spent, stored, reply>>
    /\ SubmitRest

\* SubmitMFA returns; only an invalid code leaves Riot's challenge usable
SubmitAnswered(s) ==
    /\ submission[s] = "posting"
    /\ submission' = [submission EXCEPT ![s] = "answered"]
    /\ \E r \in {"tokens", "invalid", "failed"} :
          /\ reply' = [reply EXCEPT ![s] = r]
          /\ spent' = (spent \/ r # "invalid")
    /\ UNCHANGED <<flowVars, stored, answer>>
    /\ SubmitRest

\* the continuation may be gone by now; an invalid code keeps it for a retry
SubmitRecheck(s) ==
    /\ submission[s] = "answered"
    /\ \/ ~Live /\ Finish(s, "refused")
       \/ Live /\ reply[s] = "invalid" /\ Finish(s, "invalid")
       \/ /\ Live
          /\ reply[s] # "invalid"
          /\ submission' = [submission EXCEPT ![s] = "claiming"]
          /\ UNCHANGED answer
    /\ UNCHANGED <<flowVars, spent, stored, reply>>
    /\ SubmitRest

\* mutation: the recheck is trusted
SubmitConsumeBlindly(s) ==
    /\ submission[s] = "claiming"
    /\ entry' = "gone"
    /\ taker' = IF entry = "live" THEN s ELSE taker
    /\ submission' = [submission EXCEPT ![s] = "consumed"]
    /\ UNCHANGED <<canceled, spent, stored, reply, answer>>
    /\ SubmitRest

\* consumeMFAState
SubmitConsume(s) ==
    /\ submission[s] = "claiming"
    /\ \/ /\ Live
          /\ TakeEntry(s)
          /\ submission' = [submission EXCEPT ![s] = "consumed"]
          /\ UNCHANGED answer
       \/ /\ ~Live
          /\ Finish(s, "refused")
          /\ UNCHANGED <<entry, taker>>
    /\ UNCHANGED <<canceled, spent, stored, reply>>
    /\ SubmitRest

\* flow.cancel
SubmitRelease(s) ==
    /\ submission[s] = "consumed"
    /\ canceled' = TRUE
    /\ \/ /\ reply[s] = "tokens"
          /\ submission' = [submission EXCEPT ![s] = "linking"]
          /\ UNCHANGED answer
       \/ reply[s] = "failed" /\ Finish(s, "failed")
    /\ UNCHANGED <<entry, taker, spent, stored, reply>>
    /\ SubmitRest

\* completePasswordTokens: prepareAccountLink may fail, or be canceled by shutdown
SubmitPrepare(s) ==
    /\ submission[s] = "linking"
    /\ \/ submission' = [submission EXCEPT ![s] = "committing"] /\ UNCHANGED answer
       \/ Finish(s, "failed")
    /\ UNCHANGED <<flowVars, spent, stored, reply>>
    /\ SubmitRest

\* mutation: a store call that failed is compensated for
SubmitCommitUndone(s) ==
    /\ submission[s] = "committing"
    /\ stored' = stored - 1
    /\ Finish(s, "failed")
    /\ UNCHANGED <<flowVars, spent, reply>>
    /\ SubmitRest

\* commitAccountLink
SubmitCommit(s) ==
    /\ submission[s] = "committing"
    /\ \/ stored' = stored + 1 /\ Finish(s, "linked")
       \/ Finish(s, "failed") /\ UNCHANGED stored
    /\ UNCHANGED <<flowVars, spent, reply>>
    /\ SubmitRest

-----------------------------------------------------------------------------
(* CancelPasswordMFA.                                                      *)

TakerRest == UNCHANGED <<overdue, spent, stored, submission, reply, answer>>

\* a missing entry is an idempotent success
Cancel ==
    /\ entry # "none"
    /\ canceller = "idle"
    /\ \/ entry = "live" /\ TakeEntry("canceller") /\ canceller' = "canceling"
       \/ entry = "gone" /\ canceller' = "missing" /\ UNCHANGED <<entry, taker>>
    /\ UNCHANGED <<canceled, expirer, shutdown>>
    /\ TakerRest

CancelFlow ==
    /\ canceller = "canceling"
    /\ canceller' = "joining"
    /\ canceled' = TRUE
    /\ UNCHANGED <<entry, taker, expirer, shutdown>>
    /\ TakerRest

CancelReturn ==
    /\ canceller = "joining"
    /\ Joined
    /\ canceller' = "canceled"
    /\ UNCHANGED <<flowVars, expirer, shutdown>>
    /\ TakerRest

-----------------------------------------------------------------------------
(* expireMFAState.                                                         *)

\* the timer fired: cleanupMFAState
ExpirerFire ==
    /\ expirer = "running"
    /\ overdue
    /\ \/ entry = "live" /\ TakeEntry("expirer") /\ expirer' = "canceling"
       \/ entry = "gone" /\ expirer' = "done" /\ UNCHANGED <<entry, taker>>
    /\ UNCHANGED <<canceled, canceller, shutdown>>
    /\ TakerRest

\* the first look finds no entry, or flow.ctx is canceled
ExpirerWake ==
    /\ expirer = "running"
    /\ entry = "gone" \/ canceled
    /\ expirer' = "done"
    /\ UNCHANGED <<flowVars, canceller, shutdown>>
    /\ TakerRest

\* mutation: the entry is deleted but its flow not canceled
ExpirerCancelForgotten ==
    /\ expirer = "canceling"
    /\ expirer' = "joining"
    /\ UNCHANGED <<flowVars, canceller, shutdown>>
    /\ TakerRest

ExpirerCancel ==
    /\ expirer = "canceling"
    /\ expirer' = "joining"
    /\ canceled' = TRUE
    /\ UNCHANGED <<entry, taker, canceller, shutdown>>
    /\ TakerRest

ExpirerReturn ==
    /\ expirer = "joining"
    /\ Joined
    /\ expirer' = "done"
    /\ UNCHANGED <<flowVars, canceller, shutdown>>
    /\ TakerRest

-----------------------------------------------------------------------------
(* Server.shutdown.                                                        *)

ShutdownSeal ==
    /\ shutdown = "up"
    /\ shutdown' = "sealed"
    /\ \/ entry = "live" /\ TakeEntry("shutdown")
       \/ entry # "live" /\ UNCHANGED <<entry, taker>>
    /\ UNCHANGED <<canceled, canceller, expirer>>
    /\ TakerRest

\* lifecycleCancel, then the context of the flow it took
ShutdownCancel ==
    /\ shutdown = "sealed"
    /\ shutdown' = "joining"
    /\ canceled' = (canceled \/ taker = "shutdown")
    /\ UNCHANGED <<entry, taker, canceller, expirer>>
    /\ TakerRest

ShutdownJoin ==
    /\ shutdown = "joining"
    /\ taker = "shutdown" => Joined
    /\ shutdown' = "draining"
    /\ UNCHANGED <<flowVars, canceller, expirer>>
    /\ TakerRest

\* lifecycleWG.Wait
ShutdownDrain ==
    /\ shutdown = "draining"
    /\ Drained
    /\ expirer \in {"idle", "done"}
    /\ shutdown' = "done"
    /\ UNCHANGED <<flowVars, canceller, expirer>>
    /\ TakerRest

-----------------------------------------------------------------------------
Submission(s) == \/ SubmitAdmit(s) \/ SubmitLock(s) \/ SubmitRecheck(s) \/ SubmitConsume(s)
                 \/ SubmitRelease(s) \/ SubmitPrepare(s) \/ SubmitCommit(s)
Canceller == CancelFlow \/ CancelReturn
Expirer   == ExpirerFire \/ ExpirerWake \/ ExpirerCancel \/ ExpirerReturn
Shutdown  == ShutdownCancel \/ ShutdownJoin \/ ShutdownDrain

MFANext ==
    \/ Open \/ Expire
    \/ \E s \in Submitters : SubmitEnroll(s) \/ SubmitAnswered(s) \/ Submission(s)
    \/ Cancel \/ Canceller
    \/ Expirer
    \/ ShutdownSeal \/ Shutdown

\* Riot owes no answer, but a canceled request returns; time passes.
Fairness ==
    /\ WF_mfaVars(Expire)
    /\ \A s \in Submitters : /\ WF_mfaVars(Submission(s))
                             /\ WF_mfaVars(RequestCanceled /\ SubmitAnswered(s))
    /\ WF_mfaVars(Canceller)
    /\ WF_mfaVars(Expirer)
    /\ WF_mfaVars(Shutdown)

MFASpec     == MFAInit /\ [][MFANext]_mfaVars
MFAFairSpec == MFASpec /\ Fairness

-----------------------------------------------------------------------------
MFATypeOK ==
    /\ entry \in {"none", "live", "gone"}
    /\ canceled \in BOOLEAN
    /\ overdue \in BOOLEAN
    /\ spent \in BOOLEAN
    /\ stored \in Nat
    /\ taker \in {"none", "canceller", "expirer", "shutdown"} \cup Submitters
    /\ submission \in [Submitters -> {"idle", "enrolled", "waiting", "done"} \cup Holding]
    /\ reply \in [Submitters -> {"none", "tokens", "invalid", "failed"}]
    /\ answer \in [Submitters -> {"none", "refused", "invalid", "failed", "linked"}]
    /\ canceller \in {"idle", "canceling", "joining", "canceled", "missing"}
    /\ expirer \in {"idle", "running", "canceling", "joining", "done"}
    /\ shutdown \in {"up", "sealed", "joining", "draining", "done"}

\* An account is stored only by the submission that took the continuation, which is told
\* so: a cancel, a TTL or a shutdown that took it first leaves nothing linked, and no
\* second submission links (CompletePasswordMFA, consumeMFAState).
LinkBelongsToTaker ==
    \/ stored = 0 /\ \A s \in Submitters : answer[s] # "linked"
    \/ /\ stored = 1
       /\ taker \in Submitters
       /\ \A s \in Submitters : answer[s] = "linked" <=> taker = s

\* Whoever took the continuation away from the submissions returns only when none of
\* them is left inside; shutdown returns when none is left at all (CancelPasswordMFA,
\* cleanupMFAState, shutdown).
TakersJoin ==
    /\ canceller = "canceled" => Joined
    /\ expirer = "done" /\ taker = "expirer" => Joined
    /\ shutdown = "done" => Drained

\* A challenge Riot has used up is never submitted again, although a failed or late
\* submission leaves the entry in the table for a moment (submitMu, liveMFAState).
ChallengeUsedOnce == spent => \A s \in Submitters : submission[s] # "posting"

\* What the proofs need besides: nothing happens before the continuation exists, a taken
\* one stays taken, submitMu is a mutex and its holder is the taker once it has consumed
\* the entry, and a used-up challenge is dead or in the hands of the submission that used it.
MFAInv ==
    /\ MFATypeOK
    /\ entry = "none" => /\ ~overdue /\ ~spent
                         /\ expirer = "idle" /\ canceller = "idle"
                         /\ \A s \in Submitters : submission[s] = "idle"
    /\ entry # "gone" => taker = "none" /\ ~canceled
    /\ \A s \in Submitters :
          /\ answer[s] = "none" <=> submission[s] # "done"
          /\ submission[s] \in {"consumed", "linking", "committing"} => taker = s
          /\ \A t \in Submitters :
                submission[s] \in Holding /\ submission[t] \in Holding => s = t
    /\ canceller \in {"canceling", "joining", "canceled"} => taker = "canceller"
    /\ expirer \in {"canceling", "joining"} => taker = "expirer"
    /\ expirer = "running" => taker # "expirer"
    /\ spent => \/ ~Live
                \/ \E s \in Submitters : /\ submission[s] \in {"answered", "claiming"}
                                         /\ reply[s] # "invalid"
    /\ LinkBelongsToTaker
    /\ TakersJoin
    /\ ChallengeUsedOnce

\* A submission returns although Riot may never answer: the TTL, a cancel or shutdown
\* cancels its request.
SubmissionEnds == \A s \in Submitters : submission[s] = "enrolled" ~> submission[s] = "done"

=============================================================================
