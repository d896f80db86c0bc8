-------------------------- MODULE PasswordFlowInv --------------------------
(***************************************************************************)
(* The inductive invariant of PasswordFlow.  The safety properties of that *)
(* module are not inductive as they stand: each speaks of one goroutine,   *)
(* and holds because of what all the others can no longer do.  The parts   *)
(* below say so, one piece of the design at a time.                        *)
(***************************************************************************)
EXTENDS PasswordFlow

\* before BeginPasswordLogin there is nothing
InvUnborn(f) ==
    ~Begun(f) => /\ pending[f] = "absent"
                 /\ ~sealed[f]
                 /\ ~commitClaimed[f]
                 /\ cleanup[f] = "none"
                 /\ commits[f] = 0
                 /\ waiter[f] = "idle"
                 /\ canceller[f] = "idle"
                 /\ relay[f] = "idle"
                 /\ browser[f] = 0
                 /\ \A i \in Attempts : launcher[f][i] = "idle" /\ worker[f][i] = "idle"

\* the three maps of the Server agree, an entry disappears exactly by a claimed
\* cleanup, and the context is canceled by that cleanup only
InvEntry(f) ==
    /\ pending[f] = "absent" <=> outcome[f] = "absent"
    /\ Begun(f) => (pending[f] = "absent" <=> cleanup[f] # "none")
    /\ cleanup[f] = "none" <=> cleaner[f] = "none"
    /\ Present(f) => (sealed[f] <=> pending[f] = "scrubbed")
    /\ cleanup[f] # "none" => sealed[f]
    /\ canceled[f] <=> cleanup[f] \in {"canceling", "joining", "done"}

\* launchMu: one launch or one worker, and a worker that got past its claim is the
\* only finalizer the login will have
InvLaunchMu(f) ==
    /\ relay[f] \in {"sealed", "rejecting"} => sealed[f]
    /\ \A i \in Attempts :
          /\ launcher[f][i] \in Launching =>
                \A j \in Attempts : /\ launcher[f][j] \in Launching => i = j
                                    /\ worker[f][j] \notin Finalizing
          /\ worker[f][i] \in Finalizing =>
                /\ sealed[f]
                /\ generation[f] = i
                /\ browser[f] \in {0, i}
                /\ relay[f] \notin {"sealed", "rejecting"}
                /\ \A j \in Attempts : worker[f][j] \in Finalizing => i = j
          /\ worker[f][i] # "idle" => launcher[f][i] = "finished"

\* the only Chrome that exists is attempt k's (none when k = 0) ...
ChromeOf(f, k) == \A j \in Attempts : j \in chrome[f] <=> j = k

\* ... and whose that is: a launch's while one is under way, else the flow's
InvBrowser(f) ==
    /\ \A i \in Attempts :
          /\ launcher[f][i] = "opening" => browser[f] = 0 /\ ChromeOf(f, 0)
          /\ launcher[f][i] = "opened" => browser[f] = 0 /\ ChromeOf(f, i)
    /\ (\A i \in Attempts : launcher[f][i] \notin Launching) => ChromeOf(f, browser[f])
    /\ retained[f] \in {0, browser[f]}

\* the commit, from its claim to its publication
InvCommit(f) ==
    /\ commitClaimed[f] => /\ pending[f] = "scrubbed"
                           /\ outcome[f] = "open"
                           /\ \E i \in Attempts : worker[f][i] \in Committing
    /\ \A i \in Attempts : /\ worker[f][i] \in Committing => commitClaimed[f]
                           /\ worker[f][i] \in {"committing", "unstored"} => commits[f] = 0
                           /\ worker[f][i] = "stored" => commits[f] = 1
    /\ commits[f] \in {0, 1}
    /\ outcome[f] = "linked" => commits[f] = 1
    /\ outcome[f] \in {"mfa", "failed"} => commits[f] = 0
    /\ outcome[f] = "open" /\ ~commitClaimed[f] => commits[f] = 0

\* a cleanup that has closed the browser leaves nobody who could open one again
InvCleanup(f) ==
    /\ cleanup[f] \in {"joining", "done"} => /\ LaunchMuFree(f)
                                             /\ browser[f] # 0 => retained[f] = browser[f]
    /\ cleanup[f] = "done" => Joined(f)

\* what cancel and wait have answered
InvAnswers(f) ==
    /\ canceller[f] \in {"cleaning", "canceled"} => cleaner[f] = "canceller"
    /\ cleaner[f] = "canceller" => commits[f] = 0
    /\ waiter[f] \in {"idle", "waiting"} => answer[f] = "none"
    /\ answer[f] = "linked" => commits[f] = 1
    /\ answer[f] \in {"mfa", "failed"} => commits[f] = 0 /\ ~Present(f)

\* after its first critical section shutdown owns whatever entry is left
InvShutdown(f) ==
    /\ closed /\ Present(f) => f \in commitStates
    /\ shutdown \in {"retrying", "done"} => /\ commitStates = {}
                                            /\ waiter[f] \in {"idle", "returned"}
                                            /\ relay[f] \in {"idle", "done"}

FlowInv(f) == /\ InvUnborn(f)
              /\ InvEntry(f)
              /\ InvLaunchMu(f)
              /\ InvBrowser(f)
              /\ InvCommit(f)
              /\ InvCleanup(f)
              /\ InvAnswers(f)
              /\ InvShutdown(f)

\* The inductive invariant: the types, and for every login all of the above.
IInv == TypeOK /\ \A f \in Flows : FlowInv(f)
=============================================================================
