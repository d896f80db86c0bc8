------------------------- MODULE PasswordFlowProofs -------------------------
(***************************************************************************)
(* IInv of PasswordFlowInv is inductive, for every set of logins, every    *)
(* number of windows and both viewer modes: one lemma per action, each of  *)
(* them split into the parts of FlowInv, and the theorem Invariance.  Then *)
(* what it gives: the safety properties of PasswordFlow, and that every    *)
(* step of the goroutines is one that LoginPromise allows.                 *)
(***************************************************************************)
EXTENDS PasswordFlowInv, TLAPS


\* Nothing of login g changes.
Same(g) ==
    /\ pending'[g] = pending[g]
    /\ outcome'[g] = outcome[g]
    /\ sealed'[g] = sealed[g]
    /\ commitClaimed'[g] = commitClaimed[g]
    /\ canceled'[g] = canceled[g]
    /\ commits'[g] = commits[g]
    /\ cleanup'[g] = cleanup[g]
    /\ cleaner'[g] = cleaner[g]
    /\ launcher'[g] = launcher[g]
    /\ worker'[g] = worker[g]
    /\ browser'[g] = browser[g]
    /\ generation'[g] = generation[g]
    /\ chrome'[g] = chrome[g]
    /\ retained'[g] = retained[g]
    /\ relay'[g] = relay[g]
    /\ waiter'[g] = waiter[g]
    /\ answer'[g] = answer[g]
    /\ canceller'[g] = canceller[g]
    /\ expirer'[g] = expirer[g]

\* The Chrome of a login whose browser fields and launches stay as they are.
LEMMA BrowserUntouched ==
    ASSUME NEW g \in Flows, InvBrowser(g),
           browser'[g] = browser[g], chrome'[g] = chrome[g], retained'[g] = retained[g],
           launcher'[g] = launcher[g]
    PROVE  InvBrowser(g)'
BY DEF InvBrowser, ChromeOf

\* A login nothing happens to keeps its part of the invariant while shutdown stays
\* where it is, or goes on without touching what it owes that login.
LEMMA FlowUntouched ==
    ASSUME NEW g \in Flows, FlowInv(g), Same(g), InvShutdown(g)'
    PROVE  FlowInv(g)'
<1> USE DEF Same, Begun, Present, closed
<1>1. InvUnborn(g)'   BY DEF FlowInv, InvUnborn
<1>2. InvEntry(g)'    BY DEF FlowInv, InvEntry
<1>3. InvLaunchMu(g)' BY DEF FlowInv, InvLaunchMu
<1>4. InvBrowser(g)'  BY BrowserUntouched DEF FlowInv
<1>5. InvCommit(g)'   BY DEF FlowInv, InvCommit
<1>6. InvCleanup(g)'  BY DEF FlowInv, InvCleanup, LaunchMuFree, LaunchesQuiet, Joined
<1>7. InvAnswers(g)'  BY DEF FlowInv, InvAnswers
<1> QED BY <1>1, <1>2, <1>3, <1>4, <1>5, <1>6, <1>7 DEF FlowInv

LEMMA OthersUntouched ==
    ASSUME NEW g \in Flows, FlowInv(g), Same(g), UNCHANGED downVars
    PROVE  FlowInv(g)'
<1>1. InvShutdown(g)' BY DEF FlowInv, InvShutdown, Same, downVars, Present, closed
<1> QED BY <1>1, FlowUntouched

\* A login that is live has no cleanup under way.
LEMMA LiveUnclaimed ==
    ASSUME NEW f \in Flows, FlowInv(f), Present(f)
    PROVE  Begun(f) /\ cleanup[f] = "none" /\ cleaner[f] = "none"
BY DEF FlowInv, InvEntry, InvUnborn, Present

\* The types of what a close of the flow's browser writes.
LEMMA CloseTypes ==
    ASSUME TypeOK, NEW f \in Flows, CloseSucceeds(f) \/ CloseFails(f)
    PROVE  /\ browser' \in [Flows -> {0} \cup Attempts]
           /\ generation' \in [Flows -> {0} \cup Attempts]
           /\ chrome' \in [Flows -> SUBSET Attempts]
           /\ retained' \in [Flows -> {0} \cup Attempts]
<1>1. /\ browser \in [Flows -> {0} \cup Attempts]
      /\ generation \in [Flows -> {0} \cup Attempts]
      /\ chrome \in [Flows -> SUBSET Attempts]
      /\ retained \in [Flows -> {0} \cup Attempts]
  BY DEF TypeOK
<1> QED BY <1>1 DEF CloseSucceeds, CloseFails

\* A close made while no launch is under way keeps track of the Chrome that exists.
LEMMA CloseKeepsBrowser ==
    ASSUME TypeOK, NEW f \in Flows, InvBrowser(f), CloseSucceeds(f) \/ CloseFails(f),
           \A j \in Attempts : launcher[f][j] \notin Launching, UNCHANGED launcher
    PROVE  /\ InvBrowser(f)'
           /\ browser'[f] # 0 => retained'[f] = browser'[f]
           /\ browser'[f] \in {0, browser[f]}
<1>1. CASE CloseSucceeds(f)
  <2>1. /\ browser'[f] = 0
        /\ chrome'[f] = chrome[f] \ {browser[f]}
        /\ retained'[f] = IF retained[f] = browser[f] THEN 0 ELSE retained[f]
    BY <1>1 DEF TypeOK, CloseSucceeds
  <2>2. 0 \notin Attempts
    BY PasswordFlowAssumption DEF Attempts
  <2> QED BY <2>1, <2>2 DEF InvBrowser, ChromeOf, Launching
<1>2. CASE CloseFails(f)
  <2>1. /\ browser'[f] = browser[f]
        /\ chrome'[f] = chrome[f]
        /\ retained'[f] = browser[f]
    BY <1>2 DEF TypeOK, CloseFails
  <2> QED BY <2>1 DEF InvBrowser, ChromeOf
<1> QED BY <1>1, <1>2

\* The types of what a claim of the cleanup writes.
LEMMA ClaimTypes ==
    ASSUME TypeOK, NEW f \in Flows, NEW who \in Cleaners,
           ClaimCleanup(f, who) \/ Detach(f, who)
    PROVE  /\ pending' \in [Flows -> {"absent", "stored", "scrubbed"}]
           /\ outcome' \in [Flows -> {"absent", "open"} \cup Verdicts]
           /\ sealed' \in [Flows -> BOOLEAN]
           /\ commitClaimed' \in [Flows -> BOOLEAN]
           /\ cleanupRequested' \in [Flows -> BOOLEAN]
           /\ canceled' \in [Flows -> BOOLEAN]
           /\ cleanup' \in [Flows -> {"none", "claimed", "canceling", "joining", "done"}]
           /\ cleaner' \in [Flows -> {"none"} \cup Cleaners]
<1>1. CASE Detach(f, who)
  <2>1. /\ pending' \in [Flows -> {"absent", "stored", "scrubbed"}]
        /\ sealed' \in [Flows -> BOOLEAN]
        /\ cleanup' \in [Flows -> {"none", "claimed", "canceling", "joining", "done"}]
    BY <1>1 DEF TypeOK, Detach
  <2>2. outcome' \in [Flows -> {"absent", "open"} \cup Verdicts]
    BY <1>1 DEF TypeOK, Detach
  <2>3. cleaner' \in [Flows -> {"none"} \cup Cleaners]
    BY <1>1 DEF TypeOK, Detach
  <2> QED BY <1>1, <2>1, <2>2, <2>3 DEF TypeOK, Detach
<1>2. CASE ~Detach(f, who)
  <2>1. /\ cleanupRequested' \in [Flows -> BOOLEAN]
        /\ UNCHANGED <<pending, outcome, sealed, commitClaimed, cleanVars>>
    BY <1>2 DEF TypeOK, ClaimCleanup, tableVars
  <2> QED BY <2>1 DEF TypeOK, cleanVars
<1> QED BY <1>1, <1>2

\* A claim of the cleanup either takes an entry no commit owns, or changes nothing the
\* invariant reads.
LEMMA ClaimValues ==
    ASSUME TypeOK, NEW f \in Flows, NEW who \in Cleaners, FlowInv(f),
           ClaimCleanup(f, who) \/ (Detach(f, who) /\ Present(f) /\ ~commitClaimed[f])
    PROVE  /\ UNCHANGED <<commitClaimed, canceled>>
           /\ \A g \in Flows \ {f} : /\ pending'[g] = pending[g]
                                     /\ outcome'[g] = outcome[g]
                                     /\ sealed'[g] = sealed[g]
                                     /\ cleanup'[g] = cleanup[g]
                                     /\ cleaner'[g] = cleaner[g]
           /\ \/ /\ pending'[f] = "absent"
                 /\ outcome'[f] = "absent"
                 /\ sealed'[f] = TRUE
                 /\ cleanup'[f] = "claimed"
                 /\ cleaner'[f] = who
                 /\ Begun(f)
                 /\ ~commitClaimed[f]
                 /\ cleanup[f] = "none" /\ cleaner[f] = "none"
                 /\ canceled[f] = FALSE
                 /\ outcome[f] \in {"open", "linked", "mfa", "failed"}
                 /\ \A i \in Attempts : worker[f][i] \notin Committing
                 /\ outcome[f] = "open" => commits[f] = 0
              \/ /\ UNCHANGED <<pending, outcome, sealed, cleanup, cleaner>>
                 /\ ~Present(f) \/ (commitClaimed[f] /\ outcome[f] = "open")
<1>1. CASE Detach(f, who) /\ Present(f) /\ ~commitClaimed[f]
  <2>1. Begun(f) /\ cleanup[f] = "none" /\ cleaner[f] = "none"
    BY <1>1, LiveUnclaimed
  <2>2. /\ canceled[f] = FALSE
        /\ outcome[f] # "absent"
    BY <1>1, <2>1 DEF FlowInv, InvEntry, Present, TypeOK
  <2>3. outcome[f] \in {"open", "linked", "mfa", "failed"}
    BY <2>2 DEF TypeOK, Verdicts
  <2>4. /\ \A i \in Attempts : worker[f][i] \notin Committing
        /\ outcome[f] = "open" => commits[f] = 0
    BY <1>1 DEF FlowInv, InvCommit
  <2>5. /\ pending'[f] = "absent" /\ outcome'[f] = "absent" /\ sealed'[f] = TRUE
        /\ cleanup'[f] = "claimed" /\ cleaner'[f] = who
    BY <1>1 DEF Detach, TypeOK
  <2>6. \A g \in Flows \ {f} : /\ pending'[g] = pending[g]
                               /\ outcome'[g] = outcome[g]
                               /\ sealed'[g] = sealed[g]
                               /\ cleanup'[g] = cleanup[g]
                               /\ cleaner'[g] = cleaner[g]
    BY <1>1 DEF Detach, TypeOK
  <2> QED BY <1>1, <2>1, <2>2, <2>3, <2>4, <2>5, <2>6 DEF Detach
<1>2. CASE /\ UNCHANGED <<pending, outcome, sealed, commitClaimed, cleanVars>>
           /\ ~Present(f) \/ commitClaimed[f]
  BY <1>2 DEF cleanVars, FlowInv, InvCommit
<1> QED BY <1>1, <1>2 DEF ClaimCleanup, tableVars

\* What a claim of the cleanup does to the parts of the invariant that speak of the
\* entry: they hold afterwards, whoever claims.
LEMMA ClaimKeeps ==
    ASSUME TypeOK, NEW f \in Flows, NEW who \in Cleaners, FlowInv(f),
           ClaimCleanup(f, who) \/ (Detach(f, who) /\ Present(f) /\ ~commitClaimed[f]),
           expirer[f] # "idle" <=> expirer'[f] # "idle",
           UNCHANGED <<browserVars, commits, worker, relay, launcher>>
    PROVE  /\ InvEntry(f)'
           /\ InvLaunchMu(f)'
           /\ InvBrowser(f)'
           /\ InvCommit(f)'
           /\ InvCleanup(f)'
<1>1. /\ InvEntry(f) /\ InvLaunchMu(f) /\ InvBrowser(f) /\ InvCommit(f) /\ InvCleanup(f)
      /\ InvUnborn(f)
  BY DEF FlowInv
<1>2. UNCHANGED commitClaimed
  BY ClaimValues
<1>3. \/ /\ pending'[f] = "absent" /\ outcome'[f] = "absent" /\ sealed'[f] = TRUE
         /\ cleanup'[f] = "claimed" /\ cleaner'[f] = who /\ Begun(f)
         /\ ~commitClaimed[f]
         /\ canceled'[f] = FALSE
         /\ \A i \in Attempts : worker[f][i] \notin Committing
      \/ UNCHANGED <<pending, outcome, sealed, cleanup, cleaner, canceled>>
  BY ClaimValues
<1>4. who # "none"
  BY DEF Cleaners
<1>5. InvEntry(f)'
  BY <1>1, <1>3, <1>4 DEF InvEntry, InvUnborn, Begun, Present
<1>6. InvLaunchMu(f)'
  BY <1>1, <1>3 DEF InvLaunchMu, browserVars
<1>7. InvBrowser(f)'
  BY <1>1, BrowserUntouched DEF browserVars
<1>8. InvCommit(f)'
  BY <1>1, <1>2, <1>3 DEF InvCommit
<1>9. InvCleanup(f)'
  BY <1>1, <1>3 DEF InvCleanup, LaunchMuFree, LaunchesQuiet, Joined, browserVars
<1> QED BY <1>5, <1>6, <1>7, <1>8, <1>9

\* A change of one worker's state is well typed.
LEMMA WorkerTypes ==
    ASSUME TypeOK, NEW f \in Flows, NEW i \in Attempts,
           NEW v \in {"idle", "running", "exited"} \cup Finalizing,
           worker' = [worker EXCEPT ![f][i] = v]
    PROVE  /\ worker' \in [Flows -> [Attempts -> {"idle", "running", "exited"} \cup Finalizing]]
           /\ \A j \in Attempts : worker'[f][j] = IF j = i THEN v ELSE worker[f][j]
           /\ \A g \in Flows \ {f} : worker'[g] = worker[g]
<1>1. worker \in [Flows -> [Attempts -> {"idle", "running", "exited"} \cup Finalizing]]
  BY DEF TypeOK
<1> QED BY <1>1

\* A change of one launch's state is well typed.
LEMMA LauncherTypes ==
    ASSUME TypeOK, NEW f \in Flows, NEW i \in Attempts,
           NEW v \in {"idle", "admitted", "finished"} \cup Launching,
           launcher' = [launcher EXCEPT ![f][i] = v]
    PROVE  /\ launcher' \in [Flows -> [Attempts -> {"idle", "admitted", "finished"} \cup Launching]]
           /\ \A j \in Attempts : launcher'[f][j] = IF j = i THEN v ELSE launcher[f][j]
           /\ \A g \in Flows \ {f} : launcher'[g] = launcher[g]
<1>1. launcher \in [Flows -> [Attempts -> {"idle", "admitted", "finished"} \cup Launching]]
  BY DEF TypeOK
<1> QED BY <1>1

\* IInv contains the types.
LEMMA IInvType == IInv => TypeOK
BY DEF IInv

\* BeginPasswordLogin: of a login that has not begun nothing is left over.
LEMMA BeginInv ==
    ASSUME IInv, NEW f \in Flows, Begin(f)
    PROVE  IInv'
<1>1. TypeOK'
  BY DEF IInv, TypeOK, Verdicts, Begin, tableVars, browserVars, cleanVars, waitVars, downVars
<1>2. ASSUME NEW g \in Flows \ {f} PROVE FlowInv(g)'
  <2>1. Same(g) BY IInvType DEF Same, TypeOK, Begin, tableVars, browserVars, cleanVars, waitVars, downVars
  <2> QED BY <2>1, OthersUntouched DEF IInv, Begin, tableVars, browserVars, cleanVars, waitVars, downVars
<1>3. FlowInv(f)'
  <2> USE DEF IInv, TypeOK, FlowInv, Begun, Present, closed, Launching, Finalizing, Committing, Verdicts,
          Begin, tableVars, browserVars, cleanVars, waitVars, downVars
  <2>1. InvUnborn(f)' BY DEF InvUnborn
  <2>2. InvEntry(f)' BY DEF InvEntry, InvUnborn
  <2>3. InvLaunchMu(f)' BY DEF InvLaunchMu
  <2>4. InvBrowser(f)' BY BrowserUntouched
  <2>5. InvCommit(f)' BY DEF InvCommit, InvUnborn, InvEntry
  <2>6. InvCleanup(f)' BY DEF InvCleanup, LaunchMuFree, LaunchesQuiet, Joined
  <2>7. InvAnswers(f)' BY DEF InvAnswers, InvUnborn, InvEntry
  <2>8. InvShutdown(f)' BY DEF InvShutdown
  <2> QED BY <2>1, <2>2, <2>3, <2>4, <2>5, <2>6, <2>7, <2>8
<1> QED BY <1>1, <1>2, <1>3 DEF IInv

\* The TTL passing changes no state the invariant reads.
LEMMA ExpireInv ==
    ASSUME IInv, NEW f \in Flows, Expire(f)
    PROVE  IInv'
<1>1. TypeOK'
  BY DEF IInv, TypeOK, Verdicts, Expire, tableVars, browserVars, cleanVars, waitVars, downVars
<1>2. ASSUME NEW g \in Flows \ {f} PROVE FlowInv(g)'
  <2>1. Same(g) BY IInvType DEF Same, TypeOK, Expire, tableVars, browserVars, cleanVars, waitVars, downVars
  <2> QED BY <2>1, OthersUntouched DEF IInv, Expire, tableVars, browserVars, cleanVars, waitVars, downVars
<1>3. FlowInv(f)'
  <2> USE DEF IInv, TypeOK, FlowInv, Begun, Present, closed, Launching, Finalizing, Committing, Verdicts,
          Expire, tableVars, browserVars, cleanVars, waitVars, downVars
  <2>1. InvUnborn(f)' BY DEF InvUnborn
  <2>2. InvEntry(f)' BY DEF InvEntry
  <2>3. InvLaunchMu(f)' BY DEF InvLaunchMu
  <2>4. InvBrowser(f)' BY BrowserUntouched
  <2>5. InvCommit(f)' BY DEF InvCommit
  <2>6. InvCleanup(f)' BY DEF InvCleanup, LaunchMuFree, LaunchesQuiet, Joined
  <2>7. InvAnswers(f)' BY DEF InvAnswers
  <2>8. InvShutdown(f)' BY DEF InvShutdown
  <2> QED BY <2>1, <2>2, <2>3, <2>4, <2>5, <2>6, <2>7, <2>8
<1> QED BY <1>1, <1>2, <1>3 DEF IInv

\* A launch admitted while the login is live cannot follow a cleanup.
LEMMA LaunchAdmitInv ==
    ASSUME IInv, NEW f \in Flows, NEW i \in Attempts, LaunchAdmit(f, i)
    PROVE  IInv'
<1>1. PICK v \in {"admitted"} : launcher' = [launcher EXCEPT ![f][i] = v]
  BY DEF LaunchAdmit
<1>2. /\ launcher' \in [Flows -> [Attempts -> {"idle", "admitted", "finished"} \cup Launching]]
      /\ \A j \in Attempts : launcher'[f][j] = IF j = i THEN v ELSE launcher[f][j]
      /\ \A g \in Flows \ {f} : launcher'[g] = launcher[g]
  BY IInvType, <1>1, LauncherTypes DEF Launching
<1>3. InvBrowser(f)'
  <2>1. InvBrowser(f) /\ launcher[f][i] = "idle" /\ UNCHANGED browserVars
    BY DEF IInv, FlowInv, LaunchAdmit
  <2> QED BY <1>1, <1>2, <2>1 DEF InvBrowser, ChromeOf, browserVars, Launching
<1>4. TypeOK'
  BY <1>1, <1>2, <1>3 DEF IInv, TypeOK, Verdicts, LaunchAdmit, Live, tableVars, browserVars, cleanVars, waitVars, downVars
<1>5. ASSUME NEW g \in Flows \ {f} PROVE FlowInv(g)'
  <2>1. Same(g) BY <1>1, <1>2, <1>3, IInvType DEF Same, TypeOK, LaunchAdmit, Live, tableVars, browserVars, cleanVars, waitVars, downVars
  <2> QED BY <2>1, OthersUntouched DEF IInv, LaunchAdmit, Live, tableVars, browserVars, cleanVars, waitVars, downVars
<1>6. FlowInv(f)'
  <2> USE <1>1, <1>2, <1>3 DEF IInv, TypeOK, FlowInv, Begun, Present, closed, Launching, Finalizing, Committing, Verdicts,
          LaunchAdmit, Live, tableVars, browserVars, cleanVars, waitVars, downVars
  <2>1. InvUnborn(f)' BY DEF InvUnborn
  <2>2. InvEntry(f)' BY DEF InvEntry
  <2>3. InvLaunchMu(f)' BY DEF InvLaunchMu
  <2>4. InvBrowser(f)' BY <1>3
  <2>5. InvCommit(f)' BY DEF InvCommit
  <2>6. InvCleanup(f)' BY LiveUnclaimed DEF InvCleanup, LaunchMuFree, LaunchesQuiet, Joined
  <2>7. InvAnswers(f)' BY DEF InvAnswers
  <2>8. InvShutdown(f)' BY DEF InvShutdown
  <2> QED BY <2>1, <2>2, <2>3, <2>4, <2>5, <2>6, <2>7, <2>8
<1> QED BY <1>4, <1>5, <1>6 DEF IInv

\* Closing the window a new one replaces keeps the Chrome that exists in reach.
LEMMA LaunchReplaceInv ==
    ASSUME IInv, NEW f \in Flows, NEW i \in Attempts, LaunchReplace(f, i)
    PROVE  IInv'
<1>1. PICK v \in {"finished", "opening"} :
        /\ launcher' = [launcher EXCEPT ![f][i] = v]
        /\ \/ v = "finished" /\ ~Live(f) /\ UNCHANGED browserVars
           \/ v = "opening" /\ Live(f) /\ CloseSucceeds(f)
           \/ v = "finished" /\ Live(f) /\ CloseFails(f)
  BY DEF LaunchReplace
<1>2. /\ launcher' \in [Flows -> [Attempts -> {"idle", "admitted", "finished"} \cup Launching]]
      /\ \A j \in Attempts : launcher'[f][j] = IF j = i THEN v ELSE launcher[f][j]
      /\ \A g \in Flows \ {f} : launcher'[g] = launcher[g]
  BY IInvType, <1>1, LauncherTypes DEF Launching
<1>3. /\ browser' \in [Flows -> {0} \cup Attempts]
      /\ generation' \in [Flows -> {0} \cup Attempts]
      /\ chrome' \in [Flows -> SUBSET Attempts]
      /\ retained' \in [Flows -> {0} \cup Attempts]
  BY IInvType, <1>1, CloseTypes DEF TypeOK, browserVars
<1>4. InvBrowser(f)'
  <2>1. /\ InvBrowser(f) /\ TypeOK
        /\ launcher[f][i] = "admitted"
        /\ \A j \in Attempts : launcher[f][j] \notin Launching
    BY DEF IInv, FlowInv, LaunchReplace, LaunchMuFree
  <2>2. CASE UNCHANGED browserVars /\ v = "finished"
    BY <1>1, <1>2, <2>1, <2>2 DEF InvBrowser, ChromeOf, browserVars, Launching
  <2>3. CASE CloseSucceeds(f) /\ v = "opening"
    <3>1. /\ browser'[f] = 0
          /\ chrome'[f] = chrome[f] \ {browser[f]}
          /\ retained'[f] = IF retained[f] = browser[f] THEN 0 ELSE retained[f]
      BY <2>1, <2>3 DEF TypeOK, CloseSucceeds
    <3>2. 0 \notin Attempts
      BY PasswordFlowAssumption DEF Attempts
    <3> QED BY <1>1, <1>2, <2>1, <2>3, <3>1, <3>2 DEF InvBrowser, ChromeOf, Launching
  <2>4. CASE CloseFails(f) /\ v = "finished"
    <3>1. browser'[f] = browser[f] /\ chrome'[f] = chrome[f] /\ retained'[f] = browser[f]
      BY <2>1, <2>4 DEF TypeOK, CloseFails
    <3> QED BY <1>1, <1>2, <2>1, <2>4, <3>1 DEF InvBrowser, ChromeOf, Launching
  <2> QED BY <1>1, <2>2, <2>3, <2>4
<1>5. InvCleanup(f)'
  <2>1. /\ InvCleanup(f) /\ FlowInv(f) /\ launcher[f][i] = "admitted"
        /\ UNCHANGED <<cleanup, worker, relay>>
    BY DEF IInv, FlowInv, LaunchReplace, cleanVars
  <2>2. CASE cleanup[f] = "none"
    BY <2>1, <2>2 DEF InvCleanup
  <2>3. CASE cleanup[f] # "none"
    <3>1. v = "finished" /\ UNCHANGED browserVars
      BY <1>1, <2>1, <2>3, LiveUnclaimed DEF Live
    <3> QED BY <1>2, <2>1, <3>1 DEF InvCleanup, LaunchMuFree, LaunchesQuiet, Joined, browserVars, Launching
  <2> QED BY <2>2, <2>3
<1>6. TypeOK'
  BY <1>1, <1>2, <1>3, <1>4, <1>5 DEF IInv, TypeOK, LaunchReplace, CloseSucceeds, CloseFails, Live, LaunchMuFree, tableVars, browserVars, cleanVars, waitVars, downVars
<1>7. ASSUME NEW g \in Flows \ {f} PROVE FlowInv(g)'
  <2>1. Same(g) BY <1>1, <1>2, <1>3, <1>4, <1>5, IInvType DEF Same, TypeOK, LaunchReplace, CloseSucceeds, CloseFails, Live, LaunchMuFree, tableVars, browserVars, cleanVars, waitVars, downVars
  <2> QED BY <2>1, OthersUntouched DEF IInv, LaunchReplace, CloseSucceeds, CloseFails, Live, LaunchMuFree, tableVars, browserVars, cleanVars, waitVars, downVars
<1>8. FlowInv(f)'
  <2> USE <1>1, <1>2, <1>3, <1>4, <1>5 DEF IInv, TypeOK, FlowInv, Begun, Present, closed, Launching, Finalizing, Committing, Verdicts,
          LaunchReplace, CloseSucceeds, CloseFails, Live, LaunchMuFree, tableVars, browserVars, cleanVars, waitVars, downVars
  <2>1. InvUnborn(f)' BY DEF InvUnborn
  <2>2. InvEntry(f)' BY DEF InvEntry
  <2>3. InvLaunchMu(f)' BY DEF InvLaunchMu
  <2>4. InvBrowser(f)' BY <1>4
  <2>5. InvCommit(f)' BY DEF InvCommit
  <2>6. InvCleanup(f)' BY <1>5
  <2>7. InvAnswers(f)' BY DEF InvAnswers
  <2>8. InvShutdown(f)' BY DEF InvShutdown
  <2> QED BY <2>1, <2>2, <2>3, <2>4, <2>5, <2>6, <2>7, <2>8
<1> QED BY <1>6, <1>7, <1>8 DEF IInv

\* A Chrome that starts belongs to its launch until it is installed.
LEMMA LaunchChromeInv ==
    ASSUME IInv, NEW f \in Flows, NEW i \in Attempts, LaunchChrome(f, i)
    PROVE  IInv'
<1>1. PICK v \in {"finished", "opened"} :
        /\ launcher' = [launcher EXCEPT ![f][i] = v]
        /\ \/ v = "opened" /\ chrome' = [chrome EXCEPT ![f] = @ \cup {i}] /\ UNCHANGED <<browser, generation, retained>>
           \/ v = "finished" /\ UNCHANGED browserVars
           \/ v = "finished" /\ chrome' = [chrome EXCEPT ![f] = @ \cup {i}]
                              /\ browser' = [browser EXCEPT ![f] = i]
                              /\ retained' = [retained EXCEPT ![f] = i]
                              /\ UNCHANGED generation
  BY DEF LaunchChrome
<1>2. /\ launcher' \in [Flows -> [Attempts -> {"idle", "admitted", "finished"} \cup Launching]]
      /\ \A j \in Attempts : launcher'[f][j] = IF j = i THEN v ELSE launcher[f][j]
      /\ \A g \in Flows \ {f} : launcher'[g] = launcher[g]
  BY IInvType, <1>1, LauncherTypes DEF Launching
<1>3. /\ browser' \in [Flows -> {0} \cup Attempts]
      /\ generation' \in [Flows -> {0} \cup Attempts]
      /\ chrome' \in [Flows -> SUBSET Attempts]
      /\ retained' \in [Flows -> {0} \cup Attempts]
  <2>1. /\ browser \in [Flows -> {0} \cup Attempts]
        /\ generation \in [Flows -> {0} \cup Attempts]
        /\ chrome \in [Flows -> SUBSET Attempts]
        /\ retained \in [Flows -> {0} \cup Attempts]
    BY DEF IInv, TypeOK
  <2> QED BY <1>1, <2>1 DEF browserVars
<1>4. InvBrowser(f)'
  <2>1. /\ InvBrowser(f) /\ InvLaunchMu(f) /\ TypeOK
        /\ launcher[f][i] = "opening"
    BY DEF IInv, FlowInv, LaunchChrome
  <2>2. CASE v = "finished" /\ UNCHANGED browserVars
    BY <1>2, <2>1, <2>2 DEF InvBrowser, InvLaunchMu, ChromeOf, browserVars, Launching
  <2>3. CASE ~(v = "finished" /\ UNCHANGED browserVars)
    <3>1. /\ chrome'[f] = chrome[f] \cup {i}
          /\ \/ v = "opened" /\ browser'[f] = browser[f] /\ retained'[f] = retained[f]
             \/ v = "finished" /\ browser'[f] = i /\ retained'[f] = i
      BY <1>1, <2>1, <2>3 DEF TypeOK
    <3>2. /\ browser[f] = 0 /\ ChromeOf(f, 0) /\ retained[f] = 0
          /\ \A j \in Attempts \ {i} : launcher[f][j] \notin Launching
      BY <2>1 DEF InvBrowser, InvLaunchMu, Launching
    <3>3. 0 \notin Attempts
      BY PasswordFlowAssumption DEF Attempts
    <3> QED BY <1>1, <1>2, <3>1, <3>2, <3>3 DEF InvBrowser, ChromeOf, Launching
  <2> QED BY <2>2, <2>3
<1>5. TypeOK'
  BY <1>1, <1>2, <1>3, <1>4 DEF IInv, TypeOK, LaunchChrome, tableVars, browserVars, cleanVars, waitVars, downVars
<1>6. ASSUME NEW g \in Flows \ {f} PROVE FlowInv(g)'
  <2>1. Same(g) BY <1>1, <1>2, <1>3, <1>4, IInvType DEF Same, TypeOK, LaunchChrome, tableVars, browserVars, cleanVars, waitVars, downVars
  <2> QED BY <2>1, OthersUntouched DEF IInv, LaunchChrome, tableVars, browserVars, cleanVars, waitVars, downVars
<1>7. FlowInv(f)'
  <2> USE <1>1, <1>2, <1>3, <1>4 DEF IInv, TypeOK, FlowInv, Begun, Present, closed, Launching, Finalizing, Committing, Verdicts,
          LaunchChrome, tableVars, browserVars, cleanVars, waitVars, downVars
  <2>1. InvUnborn(f)' BY DEF InvUnborn
  <2>2. InvEntry(f)' BY DEF InvEntry
  <2>3. InvLaunchMu(f)' BY DEF InvLaunchMu
  <2>4. InvBrowser(f)' BY <1>4
  <2>5. InvCommit(f)' BY DEF InvCommit
  <2>6. InvCleanup(f)' BY DEF InvCleanup, LaunchMuFree, LaunchesQuiet, Joined
  <2>7. InvAnswers(f)' BY DEF InvAnswers
  <2>8. InvShutdown(f)' BY DEF InvShutdown
  <2> QED BY <2>1, <2>2, <2>3, <2>4, <2>5, <2>6, <2>7, <2>8
<1> QED BY <1>5, <1>6, <1>7 DEF IInv

\* A window installed in a live login, or closed at once, has one owner.
LEMMA LaunchInstallInv ==
    ASSUME IInv, NEW f \in Flows, NEW i \in Attempts, LaunchInstall(f, i)
    PROVE  IInv'
<1>1. PICK v \in {"finished"} : launcher' = [launcher EXCEPT ![f][i] = v]
  BY DEF LaunchInstall
<1>2. /\ launcher' \in [Flows -> [Attempts -> {"idle", "admitted", "finished"} \cup Launching]]
      /\ \A j \in Attempts : launcher'[f][j] = IF j = i THEN v ELSE launcher[f][j]
      /\ \A g \in Flows \ {f} : launcher'[g] = launcher[g]
  BY IInvType, <1>1, LauncherTypes DEF Launching
<1>3. \/ /\ Live(f)
         /\ browser' = [browser EXCEPT ![f] = i]
         /\ generation' = [generation EXCEPT ![f] = i]
         /\ worker' = [worker EXCEPT ![f][i] = "running"]
         /\ UNCHANGED <<chrome, retained>>
      \/ /\ ~Live(f)
         /\ chrome' = [chrome EXCEPT ![f] = @ \ {i}]
         /\ UNCHANGED <<browser, generation, retained, worker>>
      \/ /\ ~Live(f)
         /\ browser' = [browser EXCEPT ![f] = i]
         /\ retained' = [retained EXCEPT ![f] = i]
         /\ UNCHANGED <<chrome, generation, worker>>
  BY DEF LaunchInstall
<1>4. /\ browser' \in [Flows -> {0} \cup Attempts]
      /\ generation' \in [Flows -> {0} \cup Attempts]
      /\ chrome' \in [Flows -> SUBSET Attempts]
      /\ retained' \in [Flows -> {0} \cup Attempts]
      /\ worker' \in [Flows -> [Attempts -> {"idle", "running", "exited"} \cup Finalizing]]
  <2>1. /\ browser \in [Flows -> {0} \cup Attempts]
        /\ generation \in [Flows -> {0} \cup Attempts]
        /\ chrome \in [Flows -> SUBSET Attempts]
        /\ retained \in [Flows -> {0} \cup Attempts]
        /\ worker \in [Flows -> [Attempts -> {"idle", "running", "exited"} \cup Finalizing]]
    BY DEF IInv, TypeOK
  <2>2. worker' = worker \/ worker' = [worker EXCEPT ![f][i] = "running"]
    BY <1>3
  <2>3. worker' \in [Flows -> [Attempts -> {"idle", "running", "exited"} \cup Finalizing]]
    BY <2>1, <2>2, IInvType, WorkerTypes
  <2>4. browser' = browser \/ browser' = [browser EXCEPT ![f] = i]
    BY <1>3
  <2>5. generation' = generation \/ generation' = [generation EXCEPT ![f] = i]
    BY <1>3
  <2>6. chrome' = chrome \/ chrome' = [chrome EXCEPT ![f] = @ \ {i}]
    BY <1>3
  <2>7. retained' = retained \/ retained' = [retained EXCEPT ![f] = i]
    BY <1>3
  <2>8. browser' \in [Flows -> {0} \cup Attempts] /\ generation' \in [Flows -> {0} \cup Attempts]
    BY <2>1, <2>4, <2>5
  <2>9. chrome' \in [Flows -> SUBSET Attempts] /\ retained' \in [Flows -> {0} \cup Attempts]
    BY <2>1, <2>6, <2>7
  <2> QED BY <2>3, <2>8, <2>9
<1>5. UNCHANGED worker \/ \A j \in Attempts : worker'[f][j] = IF j = i THEN "running" ELSE worker[f][j]
  BY IInvType, <1>3, WorkerTypes
<1>6. InvBrowser(f)'
  <2>1. /\ InvBrowser(f) /\ InvLaunchMu(f) /\ TypeOK
        /\ launcher[f][i] = "opened"
    BY DEF IInv, FlowInv, LaunchInstall
  <2>2. \/ browser'[f] = i /\ chrome'[f] = chrome[f] /\ retained'[f] \in {i, retained[f]}
        \/ chrome'[f] = chrome[f] \ {i} /\ browser'[f] = browser[f] /\ retained'[f] = retained[f]
    BY <1>3, <2>1 DEF TypeOK
  <2>3. /\ browser[f] = 0 /\ ChromeOf(f, i) /\ retained[f] = 0
        /\ \A j \in Attempts \ {i} : launcher[f][j] \notin Launching
    BY <2>1 DEF InvBrowser, InvLaunchMu, Launching
  <2>4. 0 \notin Attempts
    BY PasswordFlowAssumption DEF Attempts
  <2> QED BY <1>1, <1>2, <2>2, <2>3, <2>4 DEF InvBrowser, ChromeOf, Launching
<1>7. InvCommit(f)'
  <2>1. InvCommit(f) /\ InvLaunchMu(f) /\ launcher[f][i] = "opened"
    BY DEF IInv, FlowInv, LaunchInstall
  <2>2. worker[f][i] = "idle"
    BY <2>1 DEF InvLaunchMu
  <2> QED BY <1>5, <2>1, <2>2 DEF InvCommit, LaunchInstall, tableVars, Committing
<1>8. TypeOK'
  BY <1>1, <1>2, <1>3, <1>4, <1>5, <1>6, <1>7 DEF IInv, TypeOK, LaunchInstall, Live, tableVars, browserVars, cleanVars, waitVars, downVars
<1>9. ASSUME NEW g \in Flows \ {f} PROVE FlowInv(g)'
  <2>1. Same(g) BY <1>1, <1>2, <1>3, <1>4, <1>5, <1>6, <1>7, IInvType DEF Same, TypeOK, LaunchInstall, Live, tableVars, browserVars, cleanVars, waitVars, downVars
  <2> QED BY <2>1, OthersUntouched DEF IInv, LaunchInstall, Live, tableVars, browserVars, cleanVars, waitVars, downVars
<1>10. FlowInv(f)'
  <2> USE <1>1, <1>2, <1>3, <1>4, <1>5, <1>6, <1>7 DEF IInv, TypeOK, FlowInv, Begun, Present, closed, Launching, Finalizing, Committing, Verdicts,
          LaunchInstall, Live, tableVars, browserVars, cleanVars, waitVars, downVars
  <2>1. InvUnborn(f)' BY DEF InvUnborn
  <2>2. InvEntry(f)' BY DEF InvEntry
  <2>3. InvLaunchMu(f)' BY DEF InvLaunchMu
  <2>4. InvBrowser(f)' BY <1>6
  <2>5. InvCommit(f)' BY <1>7
  <2>6. InvCleanup(f)' BY DEF InvCleanup, LaunchMuFree, LaunchesQuiet, Joined
  <2>7. InvAnswers(f)' BY DEF InvAnswers
  <2>8. InvShutdown(f)' BY DEF InvShutdown
  <2> QED BY <2>1, <2>2, <2>3, <2>4, <2>5, <2>6, <2>7, <2>8
<1> QED BY <1>8, <1>9, <1>10 DEF IInv

\* A successful retry of a retained close.
LEMMA RetainedCloseInv ==
    ASSUME IInv, NEW f \in Flows, RetainedClose(f)
    PROVE  IInv'
<1>1. /\ browser' \in [Flows -> {0} \cup Attempts]
      /\ generation' \in [Flows -> {0} \cup Attempts]
      /\ chrome' \in [Flows -> SUBSET Attempts]
      /\ retained' \in [Flows -> {0} \cup Attempts]
  BY IInvType, CloseTypes DEF RetainedClose
<1>2. /\ InvBrowser(f)'
      /\ browser'[f] \in {0, browser[f]}
      /\ browser'[f] # 0 => retained'[f] = browser'[f]
  <2>1. /\ InvBrowser(f) /\ TypeOK
        /\ \A j \in Attempts : launcher[f][j] \notin Launching
        /\ CloseSucceeds(f) \/ CloseFails(f)
        /\ UNCHANGED launcher
    BY DEF IInv, FlowInv, RetainedClose, LaunchMuFree
  <2> QED BY <2>1, CloseKeepsBrowser
<1>3. TypeOK'
  BY <1>1, <1>2 DEF IInv, TypeOK, RetainedClose, CloseSucceeds, LaunchMuFree, tableVars, browserVars, cleanVars, waitVars, downVars
<1>4. ASSUME NEW g \in Flows \ {f} PROVE FlowInv(g)'
  <2>1. Same(g) BY <1>1, <1>2, IInvType DEF Same, TypeOK, RetainedClose, CloseSucceeds, LaunchMuFree, tableVars, browserVars, cleanVars, waitVars, downVars
  <2> QED BY <2>1, OthersUntouched DEF IInv, RetainedClose, CloseSucceeds, LaunchMuFree, tableVars, browserVars, cleanVars, waitVars, downVars
<1>5. FlowInv(f)'
  <2> USE <1>1, <1>2 DEF IInv, TypeOK, FlowInv, Begun, Present, closed, Launching, Finalizing, Committing, Verdicts,
          RetainedClose, CloseSucceeds, LaunchMuFree, tableVars, browserVars, cleanVars, waitVars, downVars
  <2>1. InvUnborn(f)' BY DEF InvUnborn
  <2>2. InvEntry(f)' BY DEF InvEntry
  <2>3. InvLaunchMu(f)' BY DEF InvLaunchMu
  <2>4. InvBrowser(f)' BY <1>2
  <2>5. InvCommit(f)' BY DEF InvCommit
  <2>6. InvCleanup(f)' BY DEF InvCleanup, LaunchMuFree, LaunchesQuiet, Joined
  <2>7. InvAnswers(f)' BY DEF InvAnswers
  <2>8. InvShutdown(f)' BY DEF InvShutdown
  <2> QED BY <2>1, <2>2, <2>3, <2>4, <2>5, <2>6, <2>7, <2>8
<1> QED BY <1>3, <1>4, <1>5 DEF IInv

\* The claim of a worker: only the owner of the newest window passes it.
LEMMA WorkerFinishInv ==
    ASSUME IInv, NEW f \in Flows, NEW i \in Attempts, WorkerFinish(f, i)
    PROVE  IInv'
<1>1. PICK v \in {"exited", "sealed"} :
        /\ worker' = [worker EXCEPT ![f][i] = v]
        /\ \/ v = "sealed" /\ generation[f] = i /\ browser[f] = i /\ Live(f) /\ Seal(f)
           \/ v = "exited" /\ UNCHANGED tableVars
  BY DEF WorkerFinish
<1>2. /\ worker' \in [Flows -> [Attempts -> {"idle", "running", "exited"} \cup Finalizing]]
      /\ \A j \in Attempts : worker'[f][j] = IF j = i THEN v ELSE worker[f][j]
      /\ \A g \in Flows \ {f} : worker'[g] = worker[g]
  BY IInvType, <1>1, WorkerTypes DEF Finalizing, Committing
<1>3. /\ pending' \in [Flows -> {"absent", "stored", "scrubbed"}]
      /\ outcome' \in [Flows -> {"absent", "open"} \cup Verdicts]
      /\ sealed' \in [Flows -> BOOLEAN]
      /\ commitClaimed' \in [Flows -> BOOLEAN]
      /\ cleanupRequested' \in [Flows -> BOOLEAN]
  <2>1. /\ pending \in [Flows -> {"absent", "stored", "scrubbed"}]
        /\ outcome \in [Flows -> {"absent", "open"} \cup Verdicts]
        /\ sealed \in [Flows -> BOOLEAN]
        /\ commitClaimed \in [Flows -> BOOLEAN]
        /\ cleanupRequested \in [Flows -> BOOLEAN]
    BY DEF IInv, TypeOK
  <2> QED BY <2>1 DEF WorkerFinish, Seal, tableVars, Verdicts
<1>4. InvLaunchMu(f)'
  <2>1. /\ InvLaunchMu(f) /\ LaunchMuFree(f) /\ TypeOK /\ worker[f][i] = "running"
        /\ UNCHANGED <<launcher, relay, generation, browser>>
    BY DEF IInv, FlowInv, WorkerFinish, WorkerRest, browserVars
  <2>2. CASE UNCHANGED tableVars /\ v = "exited"
    BY <1>1, <1>2, <2>1, <2>2 DEF InvLaunchMu, Finalizing, Committing, tableVars
  <2>3. CASE v = "sealed" /\ generation[f] = i /\ browser[f] = i /\ Live(f) /\ Seal(f)
    <3>1. sealed'[f] = TRUE /\ relay[f] \notin {"sealed", "rejecting"}
      BY <2>1, <2>3 DEF Seal, Live, TypeOK, InvLaunchMu
    <3> QED BY <1>2, <2>1, <2>3, <3>1 DEF InvLaunchMu, LaunchMuFree, Finalizing, Committing
  <2> QED BY <1>1, <2>2, <2>3
<1>5. TypeOK'
  BY <1>1, <1>2, <1>3, <1>4 DEF IInv, TypeOK, WorkerFinish, WorkerRest, Seal, Live, LaunchMuFree, tableVars, browserVars, cleanVars, waitVars, downVars
<1>6. ASSUME NEW g \in Flows \ {f} PROVE FlowInv(g)'
  <2>1. Same(g) BY <1>1, <1>2, <1>3, <1>4, IInvType DEF Same, TypeOK, WorkerFinish, WorkerRest, Seal, Live, LaunchMuFree, tableVars, browserVars, cleanVars, waitVars, downVars
  <2> QED BY <2>1, OthersUntouched DEF IInv, WorkerFinish, WorkerRest, Seal, Live, LaunchMuFree, tableVars, browserVars, cleanVars, waitVars, downVars
<1>7. FlowInv(f)'
  <2> USE <1>1, <1>2, <1>3, <1>4 DEF IInv, TypeOK, FlowInv, Begun, Present, closed, Launching, Finalizing, Committing, Verdicts,
          WorkerFinish, WorkerRest, Seal, Live, LaunchMuFree, tableVars, browserVars, cleanVars, waitVars, downVars
  <2>1. InvUnborn(f)' BY DEF InvUnborn
  <2>2. InvEntry(f)' BY DEF InvEntry
  <2>3. InvLaunchMu(f)' BY <1>4
  <2>4. InvBrowser(f)' BY BrowserUntouched
  <2>5. InvCommit(f)' BY DEF InvCommit
  <2>6. InvCleanup(f)' BY LiveUnclaimed DEF InvCleanup, LaunchMuFree, LaunchesQuiet, Joined
  <2>7. InvAnswers(f)' BY DEF InvAnswers
  <2>8. InvShutdown(f)' BY DEF InvShutdown
  <2> QED BY <2>1, <2>2, <2>3, <2>4, <2>5, <2>6, <2>7, <2>8
<1> QED BY <1>5, <1>6, <1>7 DEF IInv

\* The close of the window by the worker that finalizes the login.
LEMMA WorkerCloseInv ==
    ASSUME IInv, NEW f \in Flows, NEW i \in Attempts, WorkerClose(f, i)
    PROVE  IInv'
<1>1. PICK v \in {"linking", "mfa", "rejecting"} :
        /\ worker' = [worker EXCEPT ![f][i] = v]
        /\ \/ v = "rejecting"
           \/ v = "mfa"
           \/ v = "linking"
  BY DEF WorkerClose
<1>2. /\ worker' \in [Flows -> [Attempts -> {"idle", "running", "exited"} \cup Finalizing]]
      /\ \A j \in Attempts : worker'[f][j] = IF j = i THEN v ELSE worker[f][j]
      /\ \A g \in Flows \ {f} : worker'[g] = worker[g]
  BY IInvType, <1>1, WorkerTypes DEF Finalizing, Committing
<1>3. /\ browser' \in [Flows -> {0} \cup Attempts]
      /\ generation' \in [Flows -> {0} \cup Attempts]
      /\ chrome' \in [Flows -> SUBSET Attempts]
      /\ retained' \in [Flows -> {0} \cup Attempts]
  BY IInvType, CloseTypes DEF WorkerClose
<1>4. InvBrowser(f)' /\ browser'[f] \in {0, browser[f]}
  <2>1. /\ InvBrowser(f) /\ InvLaunchMu(f) /\ TypeOK /\ worker[f][i] = "sealed"
        /\ CloseSucceeds(f) \/ CloseFails(f)
        /\ UNCHANGED launcher
    BY DEF IInv, FlowInv, WorkerClose, WorkerRest
  <2>2. \A j \in Attempts : launcher[f][j] \notin Launching
    BY <2>1 DEF InvLaunchMu, Finalizing
  <2> QED BY <2>1, <2>2, CloseKeepsBrowser
<1>5. TypeOK'
  BY <1>1, <1>2, <1>3, <1>4 DEF IInv, TypeOK, WorkerClose, WorkerRest, CloseSucceeds, CloseFails, tableVars, browserVars, cleanVars, waitVars, downVars
<1>6. ASSUME NEW g \in Flows \ {f} PROVE FlowInv(g)'
  <2>1. Same(g) BY <1>1, <1>2, <1>3, <1>4, IInvType DEF Same, TypeOK, WorkerClose, WorkerRest, CloseSucceeds, CloseFails, tableVars, browserVars, cleanVars, waitVars, downVars
  <2> QED BY <2>1, OthersUntouched DEF IInv, WorkerClose, WorkerRest, CloseSucceeds, CloseFails, tableVars, browserVars, cleanVars, waitVars, downVars
<1>7. FlowInv(f)'
  <2> USE <1>1, <1>2, <1>3, <1>4 DEF IInv, TypeOK, FlowInv, Begun, Present, closed, Launching, Finalizing, Committing, Verdicts,
          WorkerClose, WorkerRest, CloseSucceeds, CloseFails, tableVars, browserVars, cleanVars, waitVars, downVars
  <2>1. InvUnborn(f)' BY DEF InvUnborn
  <2>2. InvEntry(f)' BY DEF InvEntry
  <2>3. InvLaunchMu(f)' BY DEF InvLaunchMu
  <2>4. InvBrowser(f)' BY <1>4
  <2>5. InvCommit(f)' BY DEF InvCommit
  <2>6. InvCleanup(f)' BY DEF InvCleanup, LaunchMuFree, LaunchesQuiet, Joined
  <2>7. InvAnswers(f)' BY DEF InvAnswers
  <2>8. InvShutdown(f)' BY DEF InvShutdown
  <2> QED BY <2>1, <2>2, <2>3, <2>4, <2>5, <2>6, <2>7, <2>8
<1> QED BY <1>5, <1>6, <1>7 DEF IInv

\* A failure is published while nothing is stored.
LEMMA WorkerRejectInv ==
    ASSUME IInv, NEW f \in Flows, NEW i \in Attempts, WorkerReject(f, i)
    PROVE  IInv'
<1>1. PICK v \in {"exited"} : worker' = [worker EXCEPT ![f][i] = v]
  BY DEF WorkerReject
<1>2. /\ worker' \in [Flows -> [Attempts -> {"idle", "running", "exited"} \cup Finalizing]]
      /\ \A j \in Attempts : worker'[f][j] = IF j = i THEN v ELSE worker[f][j]
      /\ \A g \in Flows \ {f} : worker'[g] = worker[g]
  BY IInvType, <1>1, WorkerTypes DEF Finalizing, Committing
<1>3. InvCommit(f)'
  <2>1. /\ InvCommit(f) /\ TypeOK /\ worker[f][i] = "rejecting"
        /\ UNCHANGED <<pending, commitClaimed, commits>>
    BY DEF IInv, FlowInv, WorkerReject, Publish
  <2>2. \/ outcome'[f] = outcome[f]
        \/ outcome'[f] = "failed" /\ outcome[f] = "open" /\ ~commitClaimed[f]
    BY <2>1 DEF WorkerReject, Publish, Publishable, TypeOK
  <2> QED BY <1>1, <1>2, <2>1, <2>2 DEF InvCommit, Committing
<1>4. TypeOK'
  BY <1>1, <1>2, <1>3 DEF IInv, TypeOK, Verdicts, WorkerReject, WorkerRest, Publish, Publishable, tableVars, browserVars, cleanVars, waitVars, downVars
<1>5. ASSUME NEW g \in Flows \ {f} PROVE FlowInv(g)'
  <2>1. Same(g) BY <1>1, <1>2, <1>3, IInvType DEF Same, TypeOK, WorkerReject, WorkerRest, Publish, Publishable, tableVars, browserVars, cleanVars, waitVars, downVars
  <2> QED BY <2>1, OthersUntouched DEF IInv, WorkerReject, WorkerRest, Publish, Publishable, tableVars, browserVars, cleanVars, waitVars, downVars
<1>6. FlowInv(f)'
  <2> USE <1>1, <1>2, <1>3 DEF IInv, TypeOK, FlowInv, Begun, Present, closed, Launching, Finalizing, Committing, Verdicts,
          WorkerReject, WorkerRest, Publish, Publishable, tableVars, browserVars, cleanVars, waitVars, downVars
  <2>1. InvUnborn(f)' BY DEF InvUnborn
  <2>2. InvEntry(f)' BY DEF InvEntry
  <2>3. InvLaunchMu(f)' BY DEF InvLaunchMu
  <2>4. InvBrowser(f)' BY BrowserUntouched
  <2>5. InvCommit(f)' BY <1>3
  <2>6. InvCleanup(f)' BY DEF InvCleanup, LaunchMuFree, LaunchesQuiet, Joined
  <2>7. InvAnswers(f)' BY DEF InvAnswers
  <2>8. InvShutdown(f)' BY DEF InvShutdown
  <2> QED BY <2>1, <2>2, <2>3, <2>4, <2>5, <2>6, <2>7, <2>8
<1> QED BY <1>4, <1>5, <1>6 DEF IInv

\* The second factor is asked for while nothing is stored.
LEMMA WorkerMFAInv ==
    ASSUME IInv, NEW f \in Flows, NEW i \in Attempts, WorkerMFA(f, i)
    PROVE  IInv'
<1>1. PICK v \in {"exited"} : worker' = [worker EXCEPT ![f][i] = v]
  BY DEF WorkerMFA
<1>2. /\ worker' \in [Flows -> [Attempts -> {"idle", "running", "exited"} \cup Finalizing]]
      /\ \A j \in Attempts : worker'[f][j] = IF j = i THEN v ELSE worker[f][j]
      /\ \A g \in Flows \ {f} : worker'[g] = worker[g]
  BY IInvType, <1>1, WorkerTypes DEF Finalizing, Committing
<1>3. /\ pending' \in [Flows -> {"absent", "stored", "scrubbed"}]
      /\ outcome' \in [Flows -> {"absent", "open"} \cup Verdicts]
      /\ sealed' \in [Flows -> BOOLEAN]
      /\ commitClaimed' \in [Flows -> BOOLEAN]
      /\ cleanupRequested' \in [Flows -> BOOLEAN]
  <2>1. /\ pending \in [Flows -> {"absent", "stored", "scrubbed"}]
        /\ outcome \in [Flows -> {"absent", "open"} \cup Verdicts]
        /\ sealed \in [Flows -> BOOLEAN]
        /\ commitClaimed \in [Flows -> BOOLEAN]
        /\ cleanupRequested \in [Flows -> BOOLEAN]
    BY DEF IInv, TypeOK
  <2> QED BY <2>1 DEF WorkerMFA, Publish, tableVars, Verdicts
<1>4. InvCommit(f)'
  <2>1. /\ InvCommit(f) /\ TypeOK /\ worker[f][i] = "mfa"
        /\ UNCHANGED <<pending, commitClaimed, commits>>
    BY DEF IInv, FlowInv, WorkerMFA, Publish, tableVars
  <2>2. \/ outcome'[f] = outcome[f]
        \/ outcome'[f] = "mfa" /\ outcome[f] = "open" /\ ~commitClaimed[f]
    BY <2>1 DEF WorkerMFA, Publish, Publishable, TypeOK, tableVars
  <2> QED BY <1>1, <1>2, <2>1, <2>2 DEF InvCommit, Committing
<1>5. TypeOK'
  BY <1>1, <1>2, <1>3, <1>4 DEF IInv, TypeOK, WorkerMFA, WorkerRest, Publish, Publishable, tableVars, browserVars, cleanVars, waitVars, downVars
<1>6. ASSUME NEW g \in Flows \ {f} PROVE FlowInv(g)'
  <2>1. Same(g) BY <1>1, <1>2, <1>3, <1>4, IInvType DEF Same, TypeOK, WorkerMFA, WorkerRest, Publish, Publishable, tableVars, browserVars, cleanVars, waitVars, downVars
  <2> QED BY <2>1, OthersUntouched DEF IInv, WorkerMFA, WorkerRest, Publish, Publishable, tableVars, browserVars, cleanVars, waitVars, downVars
<1>7. FlowInv(f)'
  <2> USE <1>1, <1>2, <1>3, <1>4 DEF IInv, TypeOK, FlowInv, Begun, Present, closed, Launching, Finalizing, Committing, Verdicts,
          WorkerMFA, WorkerRest, Publish, Publishable, tableVars, browserVars, cleanVars, waitVars, downVars
  <2>1. InvUnborn(f)' BY DEF InvUnborn
  <2>2. InvEntry(f)' BY DEF InvEntry
  <2>3. InvLaunchMu(f)' BY DEF InvLaunchMu
  <2>4. InvBrowser(f)' BY BrowserUntouched
  <2>5. InvCommit(f)' BY <1>4
  <2>6. InvCleanup(f)' BY DEF InvCleanup, LaunchMuFree, LaunchesQuiet, Joined
  <2>7. InvAnswers(f)' BY DEF InvAnswers
  <2>8. InvShutdown(f)' BY DEF InvShutdown
  <2> QED BY <2>1, <2>2, <2>3, <2>4, <2>5, <2>6, <2>7, <2>8
<1> QED BY <1>5, <1>6, <1>7 DEF IInv

\* A worker whose account cannot be prepared turns to the rejection.
LEMMA WorkerPrepareFailsInv ==
    ASSUME IInv, NEW f \in Flows, NEW i \in Attempts, WorkerPrepareFails(f, i)
    PROVE  IInv'
<1>1. PICK v \in {"rejecting"} : worker' = [worker EXCEPT ![f][i] = v]
  BY DEF WorkerPrepareFails
<1>2. /\ worker' \in [Flows -> [Attempts -> {"idle", "running", "exited"} \cup Finalizing]]
      /\ \A j \in Attempts : worker'[f][j] = IF j = i THEN v ELSE worker[f][j]
      /\ \A g \in Flows \ {f} : worker'[g] = worker[g]
  BY IInvType, <1>1, WorkerTypes DEF Finalizing, Committing
<1>3. InvCommit(f)'
  <2>1. /\ InvCommit(f) /\ worker[f][i] = "linking"
        /\ UNCHANGED <<pending, outcome, commitClaimed, commits>>
    BY DEF IInv, FlowInv, WorkerPrepareFails, tableVars
  <2> QED BY <1>1, <1>2, <2>1 DEF InvCommit, Committing
<1>4. TypeOK'
  BY <1>1, <1>2, <1>3 DEF IInv, TypeOK, Verdicts, WorkerPrepareFails, WorkerRest, tableVars, browserVars, cleanVars, waitVars, downVars
<1>5. ASSUME NEW g \in Flows \ {f} PROVE FlowInv(g)'
  <2>1. Same(g) BY <1>1, <1>2, <1>3, IInvType DEF Same, TypeOK, WorkerPrepareFails, WorkerRest, tableVars, browserVars, cleanVars, waitVars, downVars
  <2> QED BY <2>1, OthersUntouched DEF IInv, WorkerPrepareFails, WorkerRest, tableVars, browserVars, cleanVars, waitVars, downVars
<1>6. FlowInv(f)'
  <2> USE <1>1, <1>2, <1>3 DEF IInv, TypeOK, FlowInv, Begun, Present, closed, Launching, Finalizing, Committing, Verdicts,
          WorkerPrepareFails, WorkerRest, tableVars, browserVars, cleanVars, waitVars, downVars
  <2>1. InvUnborn(f)' BY DEF InvUnborn
  <2>2. InvEntry(f)' BY DEF InvEntry
  <2>3. InvLaunchMu(f)' BY DEF InvLaunchMu
  <2>4. InvBrowser(f)' BY BrowserUntouched
  <2>5. InvCommit(f)' BY <1>3
  <2>6. InvCleanup(f)' BY DEF InvCleanup, LaunchMuFree, LaunchesQuiet, Joined
  <2>7. InvAnswers(f)' BY DEF InvAnswers
  <2>8. InvShutdown(f)' BY DEF InvShutdown
  <2> QED BY <2>1, <2>2, <2>3, <2>4, <2>5, <2>6, <2>7, <2>8
<1> QED BY <1>4, <1>5, <1>6 DEF IInv

\* The claim of the commit: the entry is there, open and sealed.
LEMMA WorkerClaimCommitInv ==
    ASSUME IInv, NEW f \in Flows, NEW i \in Attempts, WorkerClaimCommit(f, i)
    PROVE  IInv'
<1>1. PICK v \in {"committing", "exited"} :
        /\ worker' = [worker EXCEPT ![f][i] = v]
        /\ \/ v = "committing" /\ Publishable(f) /\ commitClaimed' = [commitClaimed EXCEPT ![f] = TRUE]
           \/ v = "exited" /\ UNCHANGED commitClaimed
  BY DEF WorkerClaimCommit
<1>2. /\ worker' \in [Flows -> [Attempts -> {"idle", "running", "exited"} \cup Finalizing]]
      /\ \A j \in Attempts : worker'[f][j] = IF j = i THEN v ELSE worker[f][j]
      /\ \A g \in Flows \ {f} : worker'[g] = worker[g]
  BY IInvType, <1>1, WorkerTypes DEF Finalizing, Committing
<1>3. /\ pending' \in [Flows -> {"absent", "stored", "scrubbed"}]
      /\ outcome' \in [Flows -> {"absent", "open"} \cup Verdicts]
      /\ sealed' \in [Flows -> BOOLEAN]
      /\ commitClaimed' \in [Flows -> BOOLEAN]
      /\ cleanupRequested' \in [Flows -> BOOLEAN]
  <2>1. /\ pending \in [Flows -> {"absent", "stored", "scrubbed"}]
        /\ outcome \in [Flows -> {"absent", "open"} \cup Verdicts]
        /\ sealed \in [Flows -> BOOLEAN]
        /\ commitClaimed \in [Flows -> BOOLEAN]
        /\ cleanupRequested \in [Flows -> BOOLEAN]
    BY DEF IInv, TypeOK
  <2> QED BY <2>1 DEF WorkerClaimCommit, Publishable, tableVars, Verdicts
<1>4. InvCommit(f)'
  <2>1. /\ InvCommit(f) /\ InvEntry(f) /\ TypeOK /\ worker[f][i] = "linking"
        /\ UNCHANGED <<pending, outcome, commits>>
    BY DEF IInv, FlowInv, WorkerClaimCommit
  <2>2. \/ v = "exited" /\ commitClaimed'[f] = commitClaimed[f]
        \/ /\ v = "committing" /\ commitClaimed'[f] = TRUE /\ ~commitClaimed[f]
           /\ pending[f] = "scrubbed" /\ outcome[f] = "open"
    BY <1>1, <2>1 DEF Publishable, TypeOK, InvEntry
  <2> QED BY <1>1, <1>2, <2>1, <2>2 DEF InvCommit, Committing
<1>5. TypeOK'
  BY <1>1, <1>2, <1>3, <1>4 DEF IInv, TypeOK, WorkerClaimCommit, WorkerRest, Publishable, tableVars, browserVars, cleanVars, waitVars, downVars
<1>6. ASSUME NEW g \in Flows \ {f} PROVE FlowInv(g)'
  <2>1. Same(g) BY <1>1, <1>2, <1>3, <1>4, IInvType DEF Same, TypeOK, WorkerClaimCommit, WorkerRest, Publishable, tableVars, browserVars, cleanVars, waitVars, downVars
  <2> QED BY <2>1, OthersUntouched DEF IInv, WorkerClaimCommit, WorkerRest, Publishable, tableVars, browserVars, cleanVars, waitVars, downVars
<1>7. FlowInv(f)'
  <2> USE <1>1, <1>2, <1>3, <1>4 DEF IInv, TypeOK, FlowInv, Begun, Present, closed, Launching, Finalizing, Committing, Verdicts,
          WorkerClaimCommit, WorkerRest, Publishable, tableVars, browserVars, cleanVars, waitVars, downVars
  <2>1. InvUnborn(f)' BY DEF InvUnborn
  <2>2. InvEntry(f)' BY DEF InvEntry
  <2>3. InvLaunchMu(f)' BY DEF InvLaunchMu
  <2>4. InvBrowser(f)' BY BrowserUntouched
  <2>5. InvCommit(f)' BY <1>4
  <2>6. InvCleanup(f)' BY DEF InvCleanup, LaunchMuFree, LaunchesQuiet, Joined
  <2>7. InvAnswers(f)' BY DEF InvAnswers
  <2>8. InvShutdown(f)' BY DEF InvShutdown
  <2> QED BY <2>1, <2>2, <2>3, <2>4, <2>5, <2>6, <2>7, <2>8
<1> QED BY <1>5, <1>6, <1>7 DEF IInv

\* The store call: its worker is the only one that commits.
LEMMA WorkerCommitInv ==
    ASSUME IInv, NEW f \in Flows, NEW i \in Attempts, WorkerCommit(f, i)
    PROVE  IInv'
<1>1. PICK v \in {"stored", "unstored"} :
        /\ worker' = [worker EXCEPT ![f][i] = v]
        /\ \/ v = "stored" /\ commits' = [commits EXCEPT ![f] = @ + 1]
           \/ v = "unstored" /\ UNCHANGED commits
  BY DEF WorkerCommit
<1>2. /\ worker' \in [Flows -> [Attempts -> {"idle", "running", "exited"} \cup Finalizing]]
      /\ \A j \in Attempts : worker'[f][j] = IF j = i THEN v ELSE worker[f][j]
      /\ \A g \in Flows \ {f} : worker'[g] = worker[g]
  BY IInvType, <1>1, WorkerTypes DEF Finalizing, Committing
<1>3. commits' \in [Flows -> Nat]
  <2>1. commits \in [Flows -> Nat]
    BY DEF IInv, TypeOK
  <2> QED BY <1>1, <2>1
<1>4. InvCommit(f)'
  <2>1. /\ InvCommit(f) /\ InvLaunchMu(f) /\ worker[f][i] = "committing"
        /\ UNCHANGED <<pending, outcome, commitClaimed>>
    BY DEF IInv, FlowInv, WorkerCommit, tableVars
  <2>2. \/ v = "stored" /\ commits'[f] = commits[f] + 1
        \/ v = "unstored" /\ commits'[f] = commits[f]
    BY <1>1 DEF IInv, TypeOK
  <2>3. commits[f] = 0 /\ commitClaimed[f] /\ \A j \in Attempts \ {i} : worker[f][j] \notin Committing
    BY <2>1 DEF InvCommit, InvLaunchMu, Finalizing, Committing
  <2> QED BY <1>1, <1>2, <2>1, <2>2, <2>3 DEF InvCommit, Committing
<1>5. InvAnswers(f)'
  <2>1. /\ InvAnswers(f) /\ InvCommit(f) /\ InvEntry(f) /\ worker[f][i] = "committing" 
        /\ UNCHANGED <<canceller, cleaner, waiter, answer, pending>>
    BY DEF IInv, FlowInv, WorkerCommit, WorkerRest, tableVars, cleanVars, waitVars
  <2>2. commits[f] = 0 /\ pending[f] = "scrubbed" /\ commitClaimed[f]
    BY <2>1 DEF InvCommit, Committing
  <2>3. cleaner[f] = "none"
    BY <2>2, LiveUnclaimed DEF IInv, Present
  <2> QED BY <2>1, <2>2, <2>3 DEF InvAnswers, Present
<1>6. TypeOK'
  BY <1>1, <1>2, <1>3, <1>4, <1>5 DEF IInv, TypeOK, WorkerCommit, WorkerRest, tableVars, browserVars, cleanVars, waitVars, downVars
<1>7. ASSUME NEW g \in Flows \ {f} PROVE FlowInv(g)'
  <2>1. Same(g) BY <1>1, <1>2, <1>3, <1>4, <1>5, IInvType DEF Same, TypeOK, WorkerCommit, WorkerRest, tableVars, browserVars, cleanVars, waitVars, downVars
  <2> QED BY <2>1, OthersUntouched DEF IInv, WorkerCommit, WorkerRest, tableVars, browserVars, cleanVars, waitVars, downVars
<1>8. FlowInv(f)'
  <2> USE <1>1, <1>2, <1>3, <1>4, <1>5 DEF IInv, TypeOK, FlowInv, Begun, Present, closed, Launching, Finalizing, Committing, Verdicts,
          WorkerCommit, WorkerRest, tableVars, browserVars, cleanVars, waitVars, downVars
  <2>1. InvUnborn(f)' BY DEF InvUnborn
  <2>2. InvEntry(f)' BY DEF InvEntry
  <2>3. InvLaunchMu(f)' BY DEF InvLaunchMu
  <2>4. InvBrowser(f)' BY BrowserUntouched
  <2>5. InvCommit(f)' BY <1>4
  <2>6. InvCleanup(f)' BY DEF InvCleanup, LaunchMuFree, LaunchesQuiet, Joined
  <2>7. InvAnswers(f)' BY <1>5
  <2>8. InvShutdown(f)' BY DEF InvShutdown
  <2> QED BY <2>1, <2>2, <2>3, <2>4, <2>5, <2>6, <2>7, <2>8
<1> QED BY <1>6, <1>7, <1>8 DEF IInv

\* The publication of a commit: the entry is still there.
LEMMA WorkerPublishInv ==
    ASSUME IInv, NEW f \in Flows, NEW i \in Attempts, WorkerPublish(f, i)
    PROVE  IInv'
<1>1. PICK v \in {"exited"} : worker' = [worker EXCEPT ![f][i] = v]
  BY DEF WorkerPublish
<1>2. /\ worker' \in [Flows -> [Attempts -> {"idle", "running", "exited"} \cup Finalizing]]
      /\ \A j \in Attempts : worker'[f][j] = IF j = i THEN v ELSE worker[f][j]
      /\ \A g \in Flows \ {f} : worker'[g] = worker[g]
  BY IInvType, <1>1, WorkerTypes DEF Finalizing, Committing
<1>3. /\ pending' \in [Flows -> {"absent", "stored", "scrubbed"}]
      /\ outcome' \in [Flows -> {"absent", "open"} \cup Verdicts]
      /\ sealed' \in [Flows -> BOOLEAN]
      /\ commitClaimed' \in [Flows -> BOOLEAN]
      /\ cleanupRequested' \in [Flows -> BOOLEAN]
      /\ janitor' \in [Flows -> {"idle", "spawned", "done"}]
  <2>1. /\ pending \in [Flows -> {"absent", "stored", "scrubbed"}]
        /\ outcome \in [Flows -> {"absent", "open"} \cup Verdicts]
        /\ sealed \in [Flows -> BOOLEAN]
        /\ commitClaimed \in [Flows -> BOOLEAN]
        /\ cleanupRequested \in [Flows -> BOOLEAN]
        /\ janitor \in [Flows -> {"idle", "spawned", "done"}]
    BY DEF IInv, TypeOK
  <2> QED BY <2>1 DEF WorkerPublish, Verdicts
<1>4. InvCommit(f)'
  <2>1. /\ InvCommit(f) /\ InvLaunchMu(f) /\ worker[f][i] \in {"stored", "unstored"}
        /\ UNCHANGED <<pending, commits>>
    BY DEF IInv, FlowInv, WorkerPublish
  <2>2. /\ commitClaimed[f] /\ outcome[f] = "open"
        /\ \A j \in Attempts \ {i} : worker[f][j] \notin Committing
    BY <2>1 DEF InvCommit, InvLaunchMu, Finalizing, Committing
  <2>3. Present(f) /\ sealed[f] /\ ~Decided(f)
    BY <2>1, <2>2 DEF InvCommit, InvLaunchMu, Present, Decided, Verdicts, Finalizing, Committing
  <2>4. /\ commitClaimed'[f] = FALSE
        /\ outcome'[f] = IF worker[f][i] = "stored" THEN "linked" ELSE "failed"
    BY <2>2, <2>3 DEF WorkerPublish, IInv, TypeOK
  <2> QED BY <1>1, <1>2, <2>1, <2>2, <2>4 DEF InvCommit, Committing
<1>5. TypeOK'
  BY <1>1, <1>2, <1>3, <1>4 DEF IInv, TypeOK, WorkerPublish, WorkerRest, Decided, tableVars, browserVars, cleanVars, waitVars, downVars
<1>6. ASSUME NEW g \in Flows \ {f} PROVE FlowInv(g)'
  <2>1. Same(g) BY <1>1, <1>2, <1>3, <1>4, IInvType DEF Same, TypeOK, WorkerPublish, WorkerRest, Decided, tableVars, browserVars, cleanVars, waitVars, downVars
  <2> QED BY <2>1, OthersUntouched DEF IInv, WorkerPublish, WorkerRest, Decided, tableVars, browserVars, cleanVars, waitVars, downVars
<1>7. FlowInv(f)'
  <2> USE <1>1, <1>2, <1>3, <1>4 DEF IInv, TypeOK, FlowInv, Begun, Present, closed, Launching, Finalizing, Committing, Verdicts,
          WorkerPublish, WorkerRest, Decided, tableVars, browserVars, cleanVars, waitVars, downVars
  <2>1. InvUnborn(f)' BY DEF InvUnborn
  <2>2. InvEntry(f)' BY DEF InvEntry
  <2>3. InvLaunchMu(f)' BY DEF InvLaunchMu
  <2>4. InvBrowser(f)' BY BrowserUntouched
  <2>5. InvCommit(f)' BY <1>4
  <2>6. InvCleanup(f)' BY DEF InvCleanup, LaunchMuFree, LaunchesQuiet, Joined
  <2>7. InvAnswers(f)' BY DEF InvAnswers
  <2>8. InvShutdown(f)' BY DEF InvShutdown
  <2> QED BY <2>1, <2>2, <2>3, <2>4, <2>5, <2>6, <2>7, <2>8
<1> QED BY <1>5, <1>6, <1>7 DEF IInv

\* A relay starts on a live login.
LEMMA RelayStartInv ==
    ASSUME IInv, NEW f \in Flows, RelayStart(f)
    PROVE  IInv'
<1>1. TypeOK'
  BY DEF IInv, TypeOK, Verdicts, RelayStart, RelayRest, Live, tableVars, browserVars, cleanVars, waitVars, downVars
<1>2. ASSUME NEW g \in Flows \ {f} PROVE FlowInv(g)'
  <2>1. Same(g) BY IInvType DEF Same, TypeOK, RelayStart, RelayRest, Live, tableVars, browserVars, cleanVars, waitVars, downVars
  <2> QED BY <2>1, OthersUntouched DEF IInv, RelayStart, RelayRest, Live, tableVars, browserVars, cleanVars, waitVars, downVars
<1>3. FlowInv(f)'
  <2> USE DEF IInv, TypeOK, FlowInv, Begun, Present, closed, Launching, Finalizing, Committing, Verdicts,
          RelayStart, RelayRest, Live, tableVars, browserVars, cleanVars, waitVars, downVars
  <2>1. InvUnborn(f)' BY DEF InvUnborn
  <2>2. InvEntry(f)' BY DEF InvEntry
  <2>3. InvLaunchMu(f)' BY DEF InvLaunchMu
  <2>4. InvBrowser(f)' BY BrowserUntouched
  <2>5. InvCommit(f)' BY DEF InvCommit
  <2>6. InvCleanup(f)' BY LiveUnclaimed DEF InvCleanup, LaunchMuFree, LaunchesQuiet, Joined
  <2>7. InvAnswers(f)' BY DEF InvAnswers
  <2>8. InvShutdown(f)' BY DEF InvShutdown
  <2> QED BY <2>1, <2>2, <2>3, <2>4, <2>5, <2>6, <2>7, <2>8
<1> QED BY <1>1, <1>2, <1>3 DEF IInv

\* A relay stops.
LEMMA RelayStopInv ==
    ASSUME IInv, NEW f \in Flows, RelayStop(f)
    PROVE  IInv'
<1>1. TypeOK'
  BY DEF IInv, TypeOK, Verdicts, RelayStop, RelayRest, LaunchesQuiet, tableVars, browserVars, cleanVars, waitVars, downVars
<1>2. ASSUME NEW g \in Flows \ {f} PROVE FlowInv(g)'
  <2>1. Same(g) BY IInvType DEF Same, TypeOK, RelayStop, RelayRest, LaunchesQuiet, tableVars, browserVars, cleanVars, waitVars, downVars
  <2> QED BY <2>1, OthersUntouched DEF IInv, RelayStop, RelayRest, LaunchesQuiet, tableVars, browserVars, cleanVars, waitVars, downVars
<1>3. FlowInv(f)'
  <2> USE DEF IInv, TypeOK, FlowInv, Begun, Present, closed, Launching, Finalizing, Committing, Verdicts,
          RelayStop, RelayRest, LaunchesQuiet, tableVars, browserVars, cleanVars, waitVars, downVars
  <2>1. InvUnborn(f)' BY DEF InvUnborn
  <2>2. InvEntry(f)' BY DEF InvEntry
  <2>3. InvLaunchMu(f)' BY DEF InvLaunchMu
  <2>4. InvBrowser(f)' BY BrowserUntouched
  <2>5. InvCommit(f)' BY DEF InvCommit
  <2>6. InvCleanup(f)' BY DEF InvCleanup, LaunchMuFree, LaunchesQuiet, Joined
  <2>7. InvAnswers(f)' BY DEF InvAnswers
  <2>8. InvShutdown(f)' BY DEF InvShutdown
  <2> QED BY <2>1, <2>2, <2>3, <2>4, <2>5, <2>6, <2>7, <2>8
<1> QED BY <1>1, <1>2, <1>3 DEF IInv

\* The claim of a failing relay excludes a finalizing worker.
LEMMA RelayFailInv ==
    ASSUME IInv, NEW f \in Flows, RelayFail(f)
    PROVE  IInv'
<1>1. TypeOK'
  BY DEF IInv, TypeOK, Verdicts, RelayFail, RelayRest, Seal, Live, LaunchesQuiet, tableVars, browserVars, cleanVars, waitVars, downVars
<1>2. ASSUME NEW g \in Flows \ {f} PROVE FlowInv(g)'
  <2>1. Same(g) BY IInvType DEF Same, TypeOK, RelayFail, RelayRest, Seal, Live, LaunchesQuiet, tableVars, browserVars, cleanVars, waitVars, downVars
  <2> QED BY <2>1, OthersUntouched DEF IInv, RelayFail, RelayRest, Seal, Live, LaunchesQuiet, tableVars, browserVars, cleanVars, waitVars, downVars
<1>3. FlowInv(f)'
  <2> USE DEF IInv, TypeOK, FlowInv, Begun, Present, closed, Launching, Finalizing, Committing, Verdicts,
          RelayFail, RelayRest, Seal, Live, LaunchesQuiet, tableVars, browserVars, cleanVars, waitVars, downVars
  <2>1. InvUnborn(f)' BY DEF InvUnborn
  <2>2. InvEntry(f)' BY DEF InvEntry
  <2>3. InvLaunchMu(f)' BY DEF InvLaunchMu
  <2>4. InvBrowser(f)' BY BrowserUntouched
  <2>5. InvCommit(f)' BY DEF InvCommit
  <2>6. InvCleanup(f)' BY DEF InvCleanup, LaunchMuFree, LaunchesQuiet, Joined
  <2>7. InvAnswers(f)' BY DEF InvAnswers
  <2>8. InvShutdown(f)' BY DEF InvShutdown
  <2> QED BY <2>1, <2>2, <2>3, <2>4, <2>5, <2>6, <2>7, <2>8
<1> QED BY <1>1, <1>2, <1>3 DEF IInv

\* The close of the window by a failing relay.
LEMMA RelayCloseInv ==
    ASSUME IInv, NEW f \in Flows, RelayClose(f)
    PROVE  IInv'
<1>1. /\ browser' \in [Flows -> {0} \cup Attempts]
      /\ generation' \in [Flows -> {0} \cup Attempts]
      /\ chrome' \in [Flows -> SUBSET Attempts]
      /\ retained' \in [Flows -> {0} \cup Attempts]
  BY IInvType, CloseTypes DEF RelayClose
<1>2. /\ InvBrowser(f)'
      /\ browser'[f] \in {0, browser[f]}
      /\ browser'[f] # 0 => retained'[f] = browser'[f]
  <2>1. /\ InvBrowser(f) /\ TypeOK
        /\ \A j \in Attempts : launcher[f][j] \notin Launching
        /\ CloseSucceeds(f) \/ CloseFails(f)
        /\ UNCHANGED launcher
    BY DEF IInv, FlowInv, RelayClose, RelayRest, LaunchMuFree
  <2> QED BY <2>1, CloseKeepsBrowser
<1>3. InvCleanup(f)'
  <2>1. /\ InvCleanup(f) /\ relay[f] = "sealed"
        /\ UNCHANGED <<cleanup, worker, launcher>>
    BY DEF IInv, FlowInv, RelayClose, RelayRest, cleanVars
  <2>2. cleanup[f] # "done"
    BY <2>1 DEF InvCleanup, Joined
  <2> QED BY <1>2, <2>1, <2>2 DEF InvCleanup, LaunchMuFree
<1>4. TypeOK'
  BY <1>1, <1>2, <1>3 DEF IInv, TypeOK, RelayClose, RelayRest, CloseSucceeds, CloseFails, LaunchMuFree, tableVars, browserVars, cleanVars, waitVars, downVars
<1>5. ASSUME NEW g \in Flows \ {f} PROVE FlowInv(g)'
  <2>1. Same(g) BY <1>1, <1>2, <1>3, IInvType DEF Same, TypeOK, RelayClose, RelayRest, CloseSucceeds, CloseFails, LaunchMuFree, tableVars, browserVars, cleanVars, waitVars, downVars
  <2> QED BY <2>1, OthersUntouched DEF IInv, RelayClose, RelayRest, CloseSucceeds, CloseFails, LaunchMuFree, tableVars, browserVars, cleanVars, waitVars, downVars
<1>6. FlowInv(f)'
  <2> USE <1>1, <1>2, <1>3 DEF IInv, TypeOK, FlowInv, Begun, Present, closed, Launching, Finalizing, Committing, Verdicts,
          RelayClose, RelayRest, CloseSucceeds, CloseFails, LaunchMuFree, tableVars, browserVars, cleanVars, waitVars, downVars
  <2>1. InvUnborn(f)' BY DEF InvUnborn
  <2>2. InvEntry(f)' BY DEF InvEntry
  <2>3. InvLaunchMu(f)' BY DEF InvLaunchMu
  <2>4. InvBrowser(f)' BY <1>2
  <2>5. InvCommit(f)' BY DEF InvCommit
  <2>6. InvCleanup(f)' BY <1>3
  <2>7. InvAnswers(f)' BY DEF InvAnswers
  <2>8. InvShutdown(f)' BY DEF InvShutdown
  <2> QED BY <2>1, <2>2, <2>3, <2>4, <2>5, <2>6, <2>7, <2>8
<1> QED BY <1>4, <1>5, <1>6 DEF IInv

\* A relay's failure is published while nothing is stored.
LEMMA RelayRejectInv ==
    ASSUME IInv, NEW f \in Flows, RelayReject(f)
    PROVE  IInv'
<1>1. TypeOK'
  BY DEF IInv, TypeOK, Verdicts, RelayReject, RelayRest, Publish, Publishable, tableVars, browserVars, cleanVars, waitVars, downVars
<1>2. ASSUME NEW g \in Flows \ {f} PROVE FlowInv(g)'
  <2>1. Same(g) BY IInvType DEF Same, TypeOK, RelayReject, RelayRest, Publish, Publishable, tableVars, browserVars, cleanVars, waitVars, downVars
  <2> QED BY <2>1, OthersUntouched DEF IInv, RelayReject, RelayRest, Publish, Publishable, tableVars, browserVars, cleanVars, waitVars, downVars
<1>3. FlowInv(f)'
  <2> USE DEF IInv, TypeOK, FlowInv, Begun, Present, closed, Launching, Finalizing, Committing, Verdicts,
          RelayReject, RelayRest, Publish, Publishable, tableVars, browserVars, cleanVars, waitVars, downVars
  <2>1. InvUnborn(f)' BY DEF InvUnborn
  <2>2. InvEntry(f)' BY DEF InvEntry
  <2>3. InvLaunchMu(f)' BY DEF InvLaunchMu
  <2>4. InvBrowser(f)' BY BrowserUntouched
  <2>5. InvCommit(f)' BY DEF InvCommit
  <2>6. InvCleanup(f)' BY DEF InvCleanup, LaunchMuFree, LaunchesQuiet, Joined
  <2>7. InvAnswers(f)' BY DEF InvAnswers
  <2>8. InvShutdown(f)' BY DEF InvShutdown
  <2> QED BY <2>1, <2>2, <2>3, <2>4, <2>5, <2>6, <2>7, <2>8
<1> QED BY <1>1, <1>2, <1>3 DEF IInv

\* A wait begins on a login that has begun.
LEMMA WaitBeginInv ==
    ASSUME IInv, NEW f \in Flows, WaitBegin(f)
    PROVE  IInv'
<1>1. TypeOK'
  BY DEF IInv, TypeOK, Verdicts, WaitBegin, WaitRest, tableVars, browserVars, cleanVars, waitVars, downVars
<1>2. ASSUME NEW g \in Flows \ {f} PROVE FlowInv(g)'
  <2>1. Same(g) BY IInvType DEF Same, TypeOK, WaitBegin, WaitRest, tableVars, browserVars, cleanVars, waitVars, downVars
  <2> QED BY <2>1, OthersUntouched DEF IInv, WaitBegin, WaitRest, tableVars, browserVars, cleanVars, waitVars, downVars
<1>3. FlowInv(f)'
  <2> USE DEF IInv, TypeOK, FlowInv, Begun, Present, closed, Launching, Finalizing, Committing, Verdicts,
          WaitBegin, WaitRest, tableVars, browserVars, cleanVars, waitVars, downVars
  <2>1. InvUnborn(f)' BY DEF InvUnborn
  <2>2. InvEntry(f)' BY DEF InvEntry
  <2>3. InvLaunchMu(f)' BY DEF InvLaunchMu
  <2>4. InvBrowser(f)' BY BrowserUntouched
  <2>5. InvCommit(f)' BY DEF InvCommit
  <2>6. InvCleanup(f)' BY DEF InvCleanup, LaunchMuFree, LaunchesQuiet, Joined
  <2>7. InvAnswers(f)' BY DEF InvAnswers
  <2>8. InvShutdown(f)' BY DEF InvShutdown
  <2> QED BY <2>1, <2>2, <2>3, <2>4, <2>5, <2>6, <2>7, <2>8
<1> QED BY <1>1, <1>2, <1>3 DEF IInv

\* A waiter that leaves takes the verdict, or what is left of the login.
LEMMA WaitPollInv ==
    ASSUME IInv, NEW f \in Flows, WaitPoll(f)
    PROVE  IInv'
<1>1. TypeOK /\ FlowInv(f) /\ "waiter" \in Cleaners
  BY DEF IInv, Cleaners
<1>2. ClaimCleanup(f, "waiter")
  BY DEF WaitPoll, ClaimCleanup
<1>3. /\ waiter[f] = "waiting"
      /\ waiter' = [waiter EXCEPT ![f] = "leaving"]
      /\ UNCHANGED <<browserVars, downVars, overdue, commits, launcher, worker, relay,
                     canceller, expirer, janitor>>
  BY DEF WaitPoll, WaitLeave, WaitRest
<1>4. PICK result \in Verdicts \cup {"closed", "expired"} :
        /\ answer' = [answer EXCEPT ![f] = result]
        /\ result \in Verdicts => result = outcome[f]
  BY DEF WaitPoll, WaitLeave, Decided, Verdicts
<1>5. TypeOK'
  <2>1. answer' \in [Flows -> {"none", "expired", "closed", "canceled"} \cup Verdicts]
    BY <1>1, <1>4 DEF TypeOK
  <2> QED BY <1>1, <1>2, <1>3, <2>1, ClaimTypes DEF TypeOK, browserVars, downVars
<1>6. ASSUME NEW g \in Flows \ {f} PROVE FlowInv(g)'
  <2>1. waiter'[g] = waiter[g] /\ answer'[g] = answer[g]
    BY <1>1, <1>3, <1>4 DEF TypeOK
  <2>2. Same(g)
    BY <1>1, <1>2, <1>3, <2>1, ClaimValues DEF Same, browserVars
  <2> QED BY <1>3, <2>2, OthersUntouched DEF IInv
<1>7. FlowInv(f)'
  <2>1. /\ InvEntry(f)' /\ InvLaunchMu(f)' /\ InvBrowser(f)' /\ InvCommit(f)' /\ InvCleanup(f)'
    BY <1>1, <1>2, <1>3, ClaimKeeps
  <2>2. InvUnborn(f) /\ InvAnswers(f) /\ InvCommit(f) /\ InvShutdown(f)
    BY <1>1 DEF FlowInv
  <2>3. /\ waiter'[f] = "leaving"
        /\ answer'[f] = result
    BY <1>1, <1>3, <1>4 DEF TypeOK
  <2>4. \/ pending'[f] = "absent" /\ cleaner'[f] = "waiter" /\ cleaner[f] = "none" /\ Begun(f)
        \/ UNCHANGED <<pending, cleaner>> /\ ~(Present(f) /\ outcome[f] \in Verdicts)
    BY <1>1, <1>2, ClaimValues DEF Verdicts
  <2>5. Begun(f)
    BY <1>3, <2>2 DEF InvUnborn
  <2>6. InvUnborn(f)' /\ InvShutdown(f)'
    BY <1>3, <2>2, <2>3, <2>4, <2>5 DEF InvUnborn, InvShutdown, Begun, Present, closed, downVars
  <2>7. result \in Verdicts => ~Present(f)'
    BY <1>4, <2>4 DEF Present
  <2>8. InvAnswers(f)'
    BY <1>3, <1>4, <2>2, <2>3, <2>4, <2>7 DEF InvAnswers, InvCommit, Present, Verdicts
  <2> QED BY <2>1, <2>6, <2>8 DEF FlowInv
<1> QED BY <1>5, <1>6, <1>7 DEF IInv

\* A waiter whose caller is gone gives the login up unless a commit owns it.
LEMMA WaitCancelInv ==
    ASSUME IInv, NEW f \in Flows, WaitCancel(f)
    PROVE  IInv'
<1> USE DEF WaitCancel, WaitRest, WaitLeave
<1>1. /\ TypeOK /\ FlowInv(f)
      /\ "waiter" \in Cleaners
      /\ ClaimCleanup(f, "waiter")
  BY DEF IInv, Cleaners
<1>2. TypeOK'
  BY <1>1, ClaimTypes DEF TypeOK, browserVars, waitVars, downVars, Verdicts
<1>3. ASSUME NEW g \in Flows \ {f} PROVE FlowInv(g)'
  <2>1. waiter'[g] = waiter[g] /\ answer'[g] = answer[g]
    BY <1>1 DEF TypeOK
  <2>2. Same(g)
    BY <1>1, <2>1, ClaimValues DEF Same, browserVars, waitVars
  <2> QED BY <2>2, OthersUntouched DEF IInv
<1>4. FlowInv(f)'
  <2>1. /\ InvEntry(f)' /\ InvLaunchMu(f)' /\ InvBrowser(f)' /\ InvCommit(f)' /\ InvCleanup(f)'
    BY <1>1, ClaimKeeps DEF TypeOK
  <2>2. /\ InvUnborn(f) /\ InvAnswers(f) /\ InvShutdown(f) /\ InvCommit(f)
    BY <1>1 DEF FlowInv
  <2>3. \/ /\ pending'[f] = "absent"
           /\ cleaner'[f] = "waiter"
           /\ Begun(f) /\ cleaner[f] = "none"
           /\ outcome[f] = "open" => commits[f] = 0
           /\ outcome[f] \in {"open", "linked", "mfa", "failed"}
           /\ ~Present(f)'
        \/ /\ UNCHANGED <<pending, sealed, cleanup, cleaner>>
           /\ ~Present(f) \/ (commitClaimed[f] /\ outcome[f] = "open")
           /\ Present(f)' = Present(f)
    BY <1>1, ClaimValues DEF Present
  <2>7. /\ waiter[f] = "waiting" /\ waiter'[f] = "leaving"
        /\ answer'[f] = "canceled"
    BY <1>1 DEF TypeOK
  <2>8. UNCHANGED commitClaimed
    BY <1>1, ClaimValues
  <2>4. InvUnborn(f)'
    BY <2>2, <2>3, <2>7, <2>8 DEF InvUnborn, Begun, browserVars
  <2>5. InvAnswers(f)'
    BY <2>2, <2>3, <2>7 DEF InvAnswers, InvCommit, waitVars
  <2>6. InvShutdown(f)'
    BY <1>1, <2>2, <2>3 DEF InvShutdown, Present, closed, waitVars, downVars, TypeOK
  <2> QED BY <2>1, <2>4, <2>5, <2>6 DEF FlowInv
<1> QED BY <1>2, <1>3, <1>4 DEF IInv

\* A waiter returns.
LEMMA WaitReturnInv ==
    ASSUME IInv, NEW f \in Flows, WaitReturn(f)
    PROVE  IInv'
<1>1. TypeOK'
  BY DEF IInv, TypeOK, Verdicts, WaitReturn, WaitRest, CleanupOver, tableVars, browserVars, cleanVars, waitVars, downVars
<1>2. ASSUME NEW g \in Flows \ {f} PROVE FlowInv(g)'
  <2>1. Same(g) BY IInvType DEF Same, TypeOK, WaitReturn, WaitRest, CleanupOver, tableVars, browserVars, cleanVars, waitVars, downVars
  <2> QED BY <2>1, OthersUntouched DEF IInv, WaitReturn, WaitRest, CleanupOver, tableVars, browserVars, cleanVars, waitVars, downVars
<1>3. FlowInv(f)'
  <2> USE DEF IInv, TypeOK, FlowInv, Begun, Present, closed, Launching, Finalizing, Committing, Verdicts,
          WaitReturn, WaitRest, CleanupOver, tableVars, browserVars, cleanVars, waitVars, downVars
  <2>1. InvUnborn(f)' BY DEF InvUnborn
  <2>2. InvEntry(f)' BY DEF InvEntry
  <2>3. InvLaunchMu(f)' BY DEF InvLaunchMu
  <2>4. InvBrowser(f)' BY BrowserUntouched
  <2>5. InvCommit(f)' BY DEF InvCommit
  <2>6. InvCleanup(f)' BY DEF InvCleanup, LaunchMuFree, LaunchesQuiet, Joined
  <2>7. InvAnswers(f)' BY DEF InvAnswers
  <2>8. InvShutdown(f)' BY DEF InvShutdown
  <2> QED BY <2>1, <2>2, <2>3, <2>4, <2>5, <2>6, <2>7, <2>8
<1> QED BY <1>1, <1>2, <1>3 DEF IInv

\* The owner's cancel: accepted only while nothing is stored.
LEMMA CancelInv ==
    ASSUME IInv, NEW f \in Flows, Cancel(f)
    PROVE  IInv'
<1> USE DEF CancelRest
<1>1. TypeOK /\ FlowInv(f) /\ "canceller" \in Cleaners
  BY DEF IInv, Cleaners
<1>2. CASE /\ Present(f) /\ ~commitClaimed[f] /\ ~Decided(f)
           /\ Detach(f, "canceller")
           /\ canceller' = [canceller EXCEPT ![f] = "cleaning"]
           /\ CancelRest(f)
  <2>1. TypeOK'
    BY <1>1, <1>2, ClaimTypes DEF TypeOK, browserVars, waitVars, downVars
  <2>2. ASSUME NEW g \in Flows \ {f} PROVE FlowInv(g)'
    <3>1. canceller'[g] = canceller[g]
      BY <1>1, <1>2 DEF TypeOK
    <3>2. Same(g)
      BY <1>1, <1>2, <3>1, ClaimValues DEF Same, browserVars, waitVars
    <3> QED BY <1>2, <3>2, OthersUntouched DEF IInv
  <2>3. FlowInv(f)'
    <3>1. /\ InvEntry(f)' /\ InvLaunchMu(f)' /\ InvBrowser(f)' /\ InvCommit(f)' /\ InvCleanup(f)'
      BY <1>1, <1>2, ClaimKeeps
    <3>2. InvAnswers(f) /\ InvCommit(f) /\ InvShutdown(f)
      BY <1>1 DEF FlowInv
    <3>3. /\ pending'[f] = "absent" /\ cleaner'[f] = "canceller" /\ Begun(f)
          /\ outcome[f] \in {"open", "linked", "mfa", "failed"}
          /\ outcome[f] = "open" => commits[f] = 0
          /\ canceller'[f] = "cleaning"
      <4>1. Detach(f, "canceller") /\ Present(f) /\ ~commitClaimed[f]
        BY <1>2
      <4>2. pending'[f] = "absent" /\ cleaner'[f] = "canceller"
        BY <1>1, <4>1 DEF Detach, TypeOK
      <4>3. canceller'[f] = "cleaning"
        BY <1>1, <1>2 DEF TypeOK
      <4>4. Begun(f)
        BY <1>1, <4>1, LiveUnclaimed
      <4>5. outcome[f] \in {"open", "linked", "mfa", "failed"}
        <5>1. outcome[f] # "absent"
          BY <1>1, <4>1 DEF FlowInv, InvEntry, Present
        <5> QED BY <1>1, <5>1 DEF TypeOK, Verdicts
      <4>6. outcome[f] = "open" => commits[f] = 0
        BY <1>1, <4>1 DEF FlowInv, InvCommit
      <4> QED BY <4>2, <4>3, <4>4, <4>5, <4>6
    <3>4. commits[f] = 0
      BY <1>2, <3>3 DEF Decided, Verdicts
    <3>5. InvUnborn(f)' /\ InvShutdown(f)'
      BY <1>2, <3>2, <3>3 DEF InvUnborn, InvShutdown, Begun, Present, closed, waitVars, downVars
    <3>6. InvAnswers(f)'
      BY <1>2, <3>2, <3>3, <3>4 DEF InvAnswers, Present, waitVars
    <3> QED BY <3>1, <3>5, <3>6 DEF FlowInv
  <2> QED BY <2>1, <2>2, <2>3 DEF IInv
<1>3. CASE /\ canceller[f] = "idle" /\ Begun(f)
           /\ canceller' = [canceller EXCEPT ![f] = "refused"]
           /\ UNCHANGED <<tableVars, cleanVars>>
           /\ CancelRest(f)
  <2>1. TypeOK'
    BY <1>1, <1>3 DEF TypeOK, tableVars, cleanVars, browserVars, waitVars, downVars
  <2>2. ASSUME NEW g \in Flows \ {f} PROVE FlowInv(g)'
    <3>1. Same(g)
      BY <1>1, <1>3 DEF Same, TypeOK, tableVars, cleanVars, browserVars, waitVars, downVars
    <3> QED BY <1>3, <3>1, OthersUntouched DEF IInv
  <2>3. FlowInv(f)'
    <3>1. canceller'[f] = "refused"
      BY <1>1, <1>3 DEF TypeOK
    <3> USE <1>1, <1>3, <3>1 DEF FlowInv, tableVars, cleanVars, browserVars, waitVars, downVars,
                                 Begun, Present, closed
    <3>2. InvUnborn(f)' /\ InvAnswers(f)' BY DEF InvUnborn, InvAnswers
    <3>3. InvEntry(f)' BY DEF InvEntry
    <3>4. InvLaunchMu(f)' BY DEF InvLaunchMu
    <3>5. InvBrowser(f)' BY BrowserUntouched
    <3>6. InvCommit(f)' BY DEF InvCommit
    <3>7. InvCleanup(f)' BY DEF InvCleanup, LaunchMuFree, LaunchesQuiet, Joined
    <3>8. InvShutdown(f)' BY DEF InvShutdown
    <3> QED BY <3>2, <3>3, <3>4, <3>5, <3>6, <3>7, <3>8
  <2> QED BY <2>1, <2>2, <2>3 DEF IInv
<1> QED BY <1>2, <1>3 DEF Cancel

\* An accepted cancel returns.
LEMMA CancelReturnInv ==
    ASSUME IInv, NEW f \in Flows, CancelReturn(f)
    PROVE  IInv'
<1>1. TypeOK'
  BY DEF IInv, TypeOK, Verdicts, CancelReturn, CancelRest, CleanupOver, tableVars, browserVars, cleanVars, waitVars, downVars
<1>2. ASSUME NEW g \in Flows \ {f} PROVE FlowInv(g)'
  <2>1. Same(g) BY IInvType DEF Same, TypeOK, CancelReturn, CancelRest, CleanupOver, tableVars, browserVars, cleanVars, waitVars, downVars
  <2> QED BY <2>1, OthersUntouched DEF IInv, CancelReturn, CancelRest, CleanupOver, tableVars, browserVars, cleanVars, waitVars, downVars
<1>3. FlowInv(f)'
  <2> USE DEF IInv, TypeOK, FlowInv, Begun, Present, closed, Launching, Finalizing, Committing, Verdicts,
          CancelReturn, CancelRest, CleanupOver, tableVars, browserVars, cleanVars, waitVars, downVars
  <2>1. InvUnborn(f)' BY DEF InvUnborn
  <2>2. InvEntry(f)' BY DEF InvEntry
  <2>3. InvLaunchMu(f)' BY DEF InvLaunchMu
  <2>4. InvBrowser(f)' BY BrowserUntouched
  <2>5. InvCommit(f)' BY DEF InvCommit
  <2>6. InvCleanup(f)' BY DEF InvCleanup, LaunchMuFree, LaunchesQuiet, Joined
  <2>7. InvAnswers(f)' BY DEF InvAnswers
  <2>8. InvShutdown(f)' BY DEF InvShutdown
  <2> QED BY <2>1, <2>2, <2>3, <2>4, <2>5, <2>6, <2>7, <2>8
<1> QED BY <1>1, <1>2, <1>3 DEF IInv

\* The expiry gives the login up unless a commit owns it.
LEMMA ExpirerFireInv ==
    ASSUME IInv, NEW f \in Flows, ExpirerFire(f)
    PROVE  IInv'
<1> USE DEF ExpirerFire, ExpirerRest
<1>1. /\ TypeOK /\ FlowInv(f)
      /\ "expirer" \in Cleaners
      /\ ClaimCleanup(f, "expirer")
  BY DEF IInv, Cleaners
<1>2. TypeOK'
  BY <1>1, ClaimTypes DEF TypeOK, browserVars, waitVars, downVars
<1>3. ASSUME NEW g \in Flows \ {f} PROVE FlowInv(g)'
  <2>1. expirer'[g] = expirer[g]
    BY <1>1 DEF TypeOK
  <2>2. Same(g)
    BY <1>1, <2>1, ClaimValues DEF Same, browserVars, waitVars
  <2> QED BY <2>2, OthersUntouched DEF IInv
<1>4. FlowInv(f)'
  <2>1. /\ InvEntry(f)' /\ InvLaunchMu(f)' /\ InvBrowser(f)' /\ InvCommit(f)' /\ InvCleanup(f)'
    BY <1>1, ClaimKeeps DEF TypeOK
  <2>2. /\ InvUnborn(f) /\ InvAnswers(f) /\ InvShutdown(f) /\ InvCommit(f)
    BY <1>1 DEF FlowInv
  <2>3. \/ /\ pending'[f] = "absent"
           /\ cleaner'[f] = "expirer"
           /\ Begun(f) /\ cleaner[f] = "none"
           /\ outcome[f] = "open" => commits[f] = 0
           /\ outcome[f] \in {"open", "linked", "mfa", "failed"}
           /\ ~Present(f)'
        \/ /\ UNCHANGED <<pending, sealed, cleanup, cleaner>>
           /\ ~Present(f) \/ (commitClaimed[f] /\ outcome[f] = "open")
           /\ Present(f)' = Present(f)
    BY <1>1, ClaimValues DEF Present
  <2>7. expirer[f] # "idle" /\ expirer'[f] = "leaving"
    BY <1>1 DEF TypeOK
  <2>8. UNCHANGED commitClaimed
    BY <1>1, ClaimValues
  <2>4. InvUnborn(f)'
    BY <2>2, <2>3, <2>7, <2>8 DEF InvUnborn, Begun, browserVars
  <2>5. InvAnswers(f)'
    BY <2>2, <2>3, <2>7 DEF InvAnswers, InvCommit, waitVars
  <2>6. InvShutdown(f)'
    BY <1>1, <2>2, <2>3 DEF InvShutdown, Present, closed, waitVars, downVars, TypeOK
  <2> QED BY <2>1, <2>4, <2>5, <2>6 DEF FlowInv
<1> QED BY <1>2, <1>3, <1>4 DEF IInv

\* The expirer ends.
LEMMA ExpirerReturnInv ==
    ASSUME IInv, NEW f \in Flows, ExpirerReturn(f)
    PROVE  IInv'
<1>1. TypeOK'
  BY DEF IInv, TypeOK, Verdicts, ExpirerReturn, ExpirerRest, tableVars, browserVars, cleanVars, waitVars, downVars
<1>2. ASSUME NEW g \in Flows \ {f} PROVE FlowInv(g)'
  <2>1. Same(g) BY IInvType DEF Same, TypeOK, ExpirerReturn, ExpirerRest, tableVars, browserVars, cleanVars, waitVars, downVars
  <2> QED BY <2>1, OthersUntouched DEF IInv, ExpirerReturn, ExpirerRest, tableVars, browserVars, cleanVars, waitVars, downVars
<1>3. FlowInv(f)'
  <2> USE DEF IInv, TypeOK, FlowInv, Begun, Present, closed, Launching, Finalizing, Committing, Verdicts,
          ExpirerReturn, ExpirerRest, tableVars, browserVars, cleanVars, waitVars, downVars
  <2>1. InvUnborn(f)' BY DEF InvUnborn
  <2>2. InvEntry(f)' BY DEF InvEntry
  <2>3. InvLaunchMu(f)' BY DEF InvLaunchMu
  <2>4. InvBrowser(f)' BY BrowserUntouched
  <2>5. InvCommit(f)' BY DEF InvCommit
  <2>6. InvCleanup(f)' BY DEF InvCleanup, LaunchMuFree, LaunchesQuiet, Joined
  <2>7. InvAnswers(f)' BY DEF InvAnswers
  <2>8. InvShutdown(f)' BY DEF InvShutdown
  <2> QED BY <2>1, <2>2, <2>3, <2>4, <2>5, <2>6, <2>7, <2>8
<1> QED BY <1>1, <1>2, <1>3 DEF IInv

\* The cleanup a commit leaves behind.
LEMMA JanitorRunInv ==
    ASSUME IInv, NEW f \in Flows, JanitorRun(f)
    PROVE  IInv'
<1> USE DEF JanitorRun, ExpirerRest
<1>1. /\ TypeOK /\ FlowInv(f)
      /\ "janitor" \in Cleaners
      /\ ClaimCleanup(f, "janitor")
  BY DEF IInv, Cleaners
<1>2. TypeOK'
  BY <1>1, ClaimTypes DEF TypeOK, browserVars, waitVars, downVars
<1>3. ASSUME NEW g \in Flows \ {f} PROVE FlowInv(g)'
  <2>1. UNCHANGED expirer
    BY <1>1 DEF TypeOK
  <2>2. Same(g)
    BY <1>1, <2>1, ClaimValues DEF Same, browserVars, waitVars
  <2> QED BY <2>2, OthersUntouched DEF IInv
<1>4. FlowInv(f)'
  <2>1. /\ InvEntry(f)' /\ InvLaunchMu(f)' /\ InvBrowser(f)' /\ InvCommit(f)' /\ InvCleanup(f)'
    BY <1>1, ClaimKeeps DEF TypeOK
  <2>2. /\ InvUnborn(f) /\ InvAnswers(f) /\ InvShutdown(f) /\ InvCommit(f)
    BY <1>1 DEF FlowInv
  <2>3. \/ /\ pending'[f] = "absent"
           /\ cleaner'[f] = "janitor"
           /\ Begun(f) /\ cleaner[f] = "none"
           /\ outcome[f] = "open" => commits[f] = 0
           /\ outcome[f] \in {"open", "linked", "mfa", "failed"}
           /\ ~Present(f)'
        \/ /\ UNCHANGED <<pending, sealed, cleanup, cleaner>>
           /\ ~Present(f) \/ (commitClaimed[f] /\ outcome[f] = "open")
           /\ Present(f)' = Present(f)
    BY <1>1, ClaimValues DEF Present
  <2>7. UNCHANGED expirer
    BY <1>1 DEF TypeOK
  <2>8. UNCHANGED commitClaimed
    BY <1>1, ClaimValues
  <2>4. InvUnborn(f)'
    BY <2>2, <2>3, <2>7, <2>8 DEF InvUnborn, Begun, browserVars, waitVars
  <2>5. InvAnswers(f)'
    BY <2>2, <2>3, <2>7 DEF InvAnswers, InvCommit, waitVars
  <2>6. InvShutdown(f)'
    BY <1>1, <2>2, <2>3 DEF InvShutdown, Present, closed, waitVars, downVars, TypeOK
  <2> QED BY <2>1, <2>4, <2>5, <2>6 DEF FlowInv
<1> QED BY <1>2, <1>3, <1>4 DEF IInv

\* A cleanup cancels the login's context.
LEMMA CleanupCancelInv ==
    ASSUME IInv, NEW f \in Flows, CleanupCancel(f)
    PROVE  IInv'
<1>1. TypeOK'
  BY DEF IInv, TypeOK, Verdicts, CleanupCancel, CleanupRest, tableVars, browserVars, cleanVars, waitVars, downVars
<1>2. ASSUME NEW g \in Flows \ {f} PROVE FlowInv(g)'
  <2>1. Same(g) BY IInvType DEF Same, TypeOK, CleanupCancel, CleanupRest, tableVars, browserVars, cleanVars, waitVars, downVars
  <2> QED BY <2>1, OthersUntouched DEF IInv, CleanupCancel, CleanupRest, tableVars, browserVars, cleanVars, waitVars, downVars
<1>3. FlowInv(f)'
  <2> USE DEF IInv, TypeOK, FlowInv, Begun, Present, closed, Launching, Finalizing, Committing, Verdicts,
          CleanupCancel, CleanupRest, tableVars, browserVars, cleanVars, waitVars, downVars
  <2>1. InvUnborn(f)' BY DEF InvUnborn
  <2>2. InvEntry(f)' BY DEF InvEntry
  <2>3. InvLaunchMu(f)' BY DEF InvLaunchMu
  <2>4. InvBrowser(f)' BY BrowserUntouched
  <2>5. InvCommit(f)' BY DEF InvCommit
  <2>6. InvCleanup(f)' BY DEF InvCleanup, LaunchMuFree, LaunchesQuiet, Joined
  <2>7. InvAnswers(f)' BY DEF InvAnswers
  <2>8. InvShutdown(f)' BY DEF InvShutdown
  <2> QED BY <2>1, <2>2, <2>3, <2>4, <2>5, <2>6, <2>7, <2>8
<1> QED BY <1>1, <1>2, <1>3 DEF IInv

\* A cleanup closes the browser when no launch or finalizing worker holds it.
LEMMA CleanupCloseInv ==
    ASSUME IInv, NEW f \in Flows, CleanupClose(f)
    PROVE  IInv'
<1>1. /\ browser' \in [Flows -> {0} \cup Attempts]
      /\ generation' \in [Flows -> {0} \cup Attempts]
      /\ chrome' \in [Flows -> SUBSET Attempts]
      /\ retained' \in [Flows -> {0} \cup Attempts]
  BY IInvType, CloseTypes DEF CleanupClose
<1>2. /\ InvBrowser(f)'
      /\ browser'[f] \in {0, browser[f]}
      /\ browser'[f] # 0 => retained'[f] = browser'[f]
  <2>1. /\ InvBrowser(f) /\ TypeOK
        /\ \A j \in Attempts : launcher[f][j] \notin Launching
        /\ CloseSucceeds(f) \/ CloseFails(f)
        /\ UNCHANGED launcher
    BY DEF IInv, FlowInv, CleanupClose, CleanupRest, LaunchMuFree
  <2> QED BY <2>1, CloseKeepsBrowser
<1>3. TypeOK'
  BY <1>1, <1>2 DEF IInv, TypeOK, CleanupClose, CleanupRest, CloseSucceeds, CloseFails, LaunchMuFree, tableVars, browserVars, cleanVars, waitVars, downVars
<1>4. ASSUME NEW g \in Flows \ {f} PROVE FlowInv(g)'
  <2>1. Same(g) BY <1>1, <1>2, IInvType DEF Same, TypeOK, CleanupClose, CleanupRest, CloseSucceeds, CloseFails, LaunchMuFree, tableVars, browserVars, cleanVars, waitVars, downVars
  <2> QED BY <2>1, OthersUntouched DEF IInv, CleanupClose, CleanupRest, CloseSucceeds, CloseFails, LaunchMuFree, tableVars, browserVars, cleanVars, waitVars, downVars
<1>5. FlowInv(f)'
  <2> USE <1>1, <1>2 DEF IInv, TypeOK, FlowInv, Begun, Present, closed, Launching, Finalizing, Committing, Verdicts,
          CleanupClose, CleanupRest, CloseSucceeds, CloseFails, LaunchMuFree, tableVars, browserVars, cleanVars, waitVars, downVars
  <2>1. InvUnborn(f)' BY DEF InvUnborn
  <2>2. InvEntry(f)' BY DEF InvEntry
  <2>3. InvLaunchMu(f)' BY DEF InvLaunchMu
  <2>4. InvBrowser(f)' BY <1>2
  <2>5. InvCommit(f)' BY DEF InvCommit
  <2>6. InvCleanup(f)' BY DEF InvCleanup, LaunchMuFree, LaunchesQuiet, Joined
  <2>7. InvAnswers(f)' BY DEF InvAnswers
  <2>8. InvShutdown(f)' BY DEF InvShutdown
  <2> QED BY <2>1, <2>2, <2>3, <2>4, <2>5, <2>6, <2>7, <2>8
<1> QED BY <1>3, <1>4, <1>5 DEF IInv

\* A cleanup ends when flow.wg has no member left.
LEMMA CleanupJoinInv ==
    ASSUME IInv, NEW f \in Flows, CleanupJoin(f)
    PROVE  IInv'
<1>1. TypeOK'
  BY DEF IInv, TypeOK, Verdicts, CleanupJoin, CleanupRest, Joined, tableVars, browserVars, cleanVars, waitVars, downVars
<1>2. ASSUME NEW g \in Flows \ {f} PROVE FlowInv(g)'
  <2>1. Same(g) BY IInvType DEF Same, TypeOK, CleanupJoin, CleanupRest, Joined, tableVars, browserVars, cleanVars, waitVars, downVars
  <2> QED BY <2>1, OthersUntouched DEF IInv, CleanupJoin, CleanupRest, Joined, tableVars, browserVars, cleanVars, waitVars, downVars
<1>3. FlowInv(f)'
  <2> USE DEF IInv, TypeOK, FlowInv, Begun, Present, closed, Launching, Finalizing, Committing, Verdicts,
          CleanupJoin, CleanupRest, Joined, tableVars, browserVars, cleanVars, waitVars, downVars
  <2>1. InvUnborn(f)' BY DEF InvUnborn
  <2>2. InvEntry(f)' BY DEF InvEntry
  <2>3. InvLaunchMu(f)' BY DEF InvLaunchMu
  <2>4. InvBrowser(f)' BY BrowserUntouched
  <2>5. InvCommit(f)' BY DEF InvCommit
  <2>6. InvCleanup(f)' BY DEF InvCleanup, LaunchMuFree, LaunchesQuiet, Joined
  <2>7. InvAnswers(f)' BY DEF InvAnswers
  <2>8. InvShutdown(f)' BY DEF InvShutdown
  <2> QED BY <2>1, <2>2, <2>3, <2>4, <2>5, <2>6, <2>7, <2>8
<1> QED BY <1>1, <1>2, <1>3 DEF IInv

\* The first critical section of shutdown keeps the invariant: every entry it leaves
\* is owned by a commit and in its list.
LEMMA ShutdownSealInv ==
    ASSUME IInv, ShutdownSeal
    PROVE  IInv'
<1> DEFINE owned == {f \in Flows : Present(f) /\ commitClaimed[f]}
           taken == {f \in Flows : Present(f) /\ ~commitClaimed[f]}
<1>1. /\ shutdown = "up" /\ shutdown' = "sealed"
      /\ commitStates' = owned
      /\ cleanupRequested' = [f \in Flows |-> f \in owned \/ cleanupRequested[f]]
      /\ pending' = [f \in Flows |-> IF f \in taken THEN "absent" ELSE pending[f]]
      /\ outcome' = [f \in Flows |-> IF f \in taken THEN "absent" ELSE outcome[f]]
      /\ sealed' = [f \in Flows |-> f \in taken \/ sealed[f]]
      /\ cleanup' = [f \in Flows |-> IF f \in taken THEN "claimed" ELSE cleanup[f]]
      /\ cleaner' = [f \in Flows |-> IF f \in taken THEN "shutdown" ELSE cleaner[f]]
      /\ UNCHANGED <<commitClaimed, canceled>>
      /\ DownRest
  BY DEF ShutdownSeal
<1>2. TypeOK
  BY DEF IInv
<1> HIDE DEF owned, taken
<1>3. owned \subseteq Flows /\ taken \subseteq Flows
  BY DEF owned, taken
<1>4. TypeOK'
  <2>1. /\ cleanupRequested' \in [Flows -> BOOLEAN]
        /\ sealed' \in [Flows -> BOOLEAN]
    BY <1>1
  <2>2. /\ pending' \in [Flows -> {"absent", "stored", "scrubbed"}]
        /\ cleanup' \in [Flows -> {"none", "claimed", "canceling", "joining", "done"}]
    BY <1>1, <1>2 DEF TypeOK
  <2>3. outcome' \in [Flows -> {"absent", "open"} \cup Verdicts]
    BY <1>1, <1>2 DEF TypeOK
  <2>4. cleaner' \in [Flows -> {"none"} \cup Cleaners]
    BY <1>1, <1>2 DEF TypeOK, Cleaners
  <2> QED BY <1>1, <1>2, <1>3, <2>1, <2>2, <2>3, <2>4
          DEF TypeOK, DownRest, browserVars, waitVars
<1>5. ASSUME NEW f \in Flows PROVE FlowInv(f)'
  <2>1. FlowInv(f)
    BY DEF IInv
  <2>2. CASE f \in taken
    <3>1. Present(f) /\ ~commitClaimed[f]
      BY <2>2 DEF taken
    <3>2. Begun(f) /\ cleanup[f] = "none" /\ cleaner[f] = "none"
      BY <2>1, <3>1, LiveUnclaimed
    <3>3. /\ pending'[f] = "absent" /\ outcome'[f] = "absent" /\ sealed'[f] = TRUE
          /\ cleanup'[f] = "claimed" /\ cleaner'[f] = "shutdown"
          /\ UNCHANGED <<commitClaimed, canceled>>
      BY <1>1, <2>2
    <3> USE <1>1, <2>1, <3>1, <3>2, <3>3
        DEF FlowInv, DownRest, browserVars, waitVars, Begun, Present, closed
    <3>4. InvUnborn(f)'   BY DEF InvUnborn
    <3>5. InvEntry(f)'    BY DEF InvEntry
    <3>6. InvLaunchMu(f)' BY DEF InvLaunchMu
    <3>7. InvBrowser(f)'  BY BrowserUntouched
    <3>8. InvCommit(f)'   BY DEF InvCommit
    <3>9. InvCleanup(f)'  BY DEF InvCleanup
    <3>10. InvAnswers(f)' BY DEF InvAnswers
    <3>11. InvShutdown(f)' BY DEF InvShutdown
    <3> QED BY <3>4, <3>5, <3>6, <3>7, <3>8, <3>9, <3>10, <3>11
  <2>3. CASE f \notin taken
    <3>1. Same(f)
      <4>1. /\ pending'[f] = pending[f] /\ outcome'[f] = outcome[f]
            /\ cleanup'[f] = cleanup[f] /\ cleaner'[f] = cleaner[f]
        BY <1>1, <2>3
      <4>2. sealed'[f] = sealed[f]
        BY <1>1, <1>2, <2>3 DEF TypeOK
      <4> QED BY <1>1, <4>1, <4>2 DEF Same, DownRest, browserVars, waitVars
    <3>2. Present(f)' => f \in owned
      BY <2>3, <3>1 DEF Same, Present, owned, taken
    <3>3. InvShutdown(f)'
      BY <1>1, <3>2 DEF InvShutdown
    <3> QED BY <2>1, <3>1, <3>3, FlowUntouched
  <2> QED BY <2>2, <2>3
<1> QED BY <1>4, <1>5 DEF IInv

\* A step that only moves shutdown along keeps the invariant if it keeps InvShutdown.
LEMMA ShutdownMoves ==
    ASSUME IInv, UNCHANGED <<tableVars, cleanVars, commitStates>>, DownRest,
           shutdown' \in {"up", "sealed", "cleaning", "retrying", "done"},
           \A f \in Flows : InvShutdown(f)'
    PROVE  IInv'
<1>1. TypeOK'
  BY DEF IInv, TypeOK, DownRest, tableVars, cleanVars, browserVars, waitVars
<1>2. ASSUME NEW f \in Flows PROVE FlowInv(f)'
  <2>1. Same(f)
    BY DEF Same, DownRest, tableVars, cleanVars, browserVars, waitVars
  <2> QED BY <2>1, FlowUntouched DEF IInv
<1> QED BY <1>1, <1>2 DEF IInv

\* Canceling the lifecycle context keeps the invariant.
LEMMA ShutdownCancelInv ==
    ASSUME IInv, ShutdownCancel
    PROVE  IInv'
<1>1. ASSUME NEW f \in Flows PROVE InvShutdown(f)'
  BY DEF IInv, FlowInv, InvShutdown, ShutdownCancel, tableVars, closed, Present
<1> QED BY <1>1, ShutdownMoves DEF ShutdownCancel

\* lifecycleWG.Wait ends with no waiter and no relay left.
LEMMA ShutdownDrainInv ==
    ASSUME IInv, ShutdownDrain
    PROVE  IInv'
<1>1. ASSUME NEW f \in Flows PROVE InvShutdown(f)'
  BY DEF IInv, FlowInv, InvShutdown, ShutdownDrain, DownRest, tableVars, waitVars, closed, Present
<1> QED BY <1>1, ShutdownMoves DEF ShutdownDrain

\* The last retry of the retained browsers keeps the invariant.
LEMMA ShutdownFinishInv ==
    ASSUME IInv, ShutdownFinish
    PROVE  IInv'
<1>1. ASSUME NEW f \in Flows PROVE InvShutdown(f)'
  BY DEF IInv, FlowInv, InvShutdown, ShutdownFinish, DownRest, tableVars, waitVars, closed, Present
<1> QED BY <1>1, ShutdownMoves DEF ShutdownFinish

\* The cleanup of a login whose commit shutdown waited for: its worker is gone, so no
\* commit owns it and the claim takes the entry.
LEMMA ShutdownCommittedInv ==
    ASSUME IInv, NEW f \in Flows, ShutdownCommitted(f)
    PROVE  IInv'
<1>1. /\ TypeOK /\ FlowInv(f)
      /\ "shutdown" \in Cleaners
      /\ ClaimCleanup(f, "shutdown")
      /\ commitStates' = commitStates \ {f}
      /\ shutdown = "cleaning" /\ UNCHANGED shutdown
      /\ DownRest
      /\ Present(f) => Joined(f)
  BY DEF IInv, Cleaners, ShutdownCommitted
<1>2. TypeOK'
  <2>1. commitStates' \in SUBSET Flows
    BY <1>1 DEF TypeOK
  <2> QED BY <1>1, <2>1, ClaimTypes DEF TypeOK, DownRest, browserVars, waitVars
<1>3. ASSUME NEW g \in Flows \ {f} PROVE FlowInv(g)'
  <2>1. Same(g)
    BY <1>1, ClaimValues DEF Same, DownRest, browserVars, waitVars
  <2>2. InvShutdown(g)'
    BY <1>1, <2>1 DEF IInv, FlowInv, InvShutdown, Same, Present, closed
  <2> QED BY <2>1, <2>2, FlowUntouched DEF IInv
<1>4. FlowInv(f)'
  <2>1. /\ InvEntry(f)' /\ InvLaunchMu(f)' /\ InvBrowser(f)' /\ InvCommit(f)' /\ InvCleanup(f)'
    BY <1>1, ClaimKeeps DEF DownRest
  <2>2. InvUnborn(f) /\ InvAnswers(f) /\ InvCommit(f)
    BY <1>1 DEF FlowInv
  <2>3. Present(f) => ~commitClaimed[f]
    <3>1. \A i \in Attempts : Present(f) => worker[f][i] \notin Committing
      BY <1>1 DEF Joined, Committing
    <3> QED BY <2>2, <3>1 DEF InvCommit
  <2>4. /\ ~Present(f)'
        /\ UNCHANGED commitClaimed
        /\ \/ cleaner'[f] = "shutdown" /\ Begun(f) /\ cleaner[f] = "none"
           \/ UNCHANGED <<pending, sealed, cleanup, cleaner>>
    BY <1>1, <2>3, ClaimValues DEF Present
  <2>5. InvUnborn(f)'
    BY <1>1, <2>2, <2>4 DEF InvUnborn, Begun, DownRest, browserVars, waitVars
  <2>6. InvAnswers(f)'
    BY <1>1, <2>2, <2>4 DEF InvAnswers, DownRest, waitVars
  <2>7. InvShutdown(f)'
    BY <1>1, <2>4 DEF InvShutdown
  <2> QED BY <2>1, <2>5, <2>6, <2>7 DEF FlowInv
<1> QED BY <1>2, <1>3, <1>4 DEF IInv

-----------------------------------------------------------------------------
\* Nothing has begun: the invariant holds.
LEMMA InitInv == Init => IInv
<1> SUFFICES ASSUME Init PROVE IInv
  OBVIOUS
<1>1. 0 \notin Attempts
  BY PasswordFlowAssumption DEF Attempts
<1>2. TypeOK
  BY DEF Init, TypeOK, Verdicts, Cleaners, Launching, Finalizing, Committing
<1>3. ASSUME NEW f \in Flows PROVE FlowInv(f)
  <2> USE DEF Init
  <2>1. InvUnborn(f)   BY DEF InvUnborn
  <2>2. InvEntry(f)    BY DEF InvEntry, Begun, Present
  <2>3. InvLaunchMu(f) BY DEF InvLaunchMu, Launching, Finalizing, Committing
  <2>4. InvBrowser(f)  BY <1>1 DEF InvBrowser, ChromeOf
  <2>5. InvCommit(f)   BY DEF InvCommit, Committing
  <2>6. InvCleanup(f)  BY DEF InvCleanup
  <2>7. InvAnswers(f)  BY DEF InvAnswers
  <2>8. InvShutdown(f) BY DEF InvShutdown, closed
  <2> QED BY <2>1, <2>2, <2>3, <2>4, <2>5, <2>6, <2>7, <2>8 DEF FlowInv
<1> QED BY <1>2, <1>3 DEF IInv

\* A step that changes nothing keeps the invariant.
LEMMA StutterInv ==
    ASSUME IInv, UNCHANGED vars
    PROVE  IInv'
<1>1. TypeOK'
  BY DEF IInv, TypeOK, vars, tableVars, browserVars, cleanVars, waitVars, downVars
<1>2. ASSUME NEW f \in Flows PROVE FlowInv(f)'
  <2>1. Same(f) /\ UNCHANGED downVars
    BY DEF Same, vars, tableVars, browserVars, cleanVars, waitVars, downVars
  <2> QED BY <2>1, OthersUntouched DEF IInv
<1> QED BY <1>1, <1>2 DEF IInv

\* A step of one login's own goroutines keeps the invariant.
LEMMA FlowStepInv ==
    ASSUME IInv, NEW f \in Flows,
           \/ Begin(f) \/ Expire(f)
           \/ \E i \in Attempts : LaunchAdmit(f, i) \/ WorkerFinish(f, i)
           \/ Launch(f) \/ RetainedClose(f) \/ Worker(f)
           \/ RelayStart(f) \/ RelayStop(f) \/ RelayFail(f) \/ Relay(f)
           \/ WaitBegin(f) \/ WaitCancel(f) \/ Waiter(f)
           \/ Cancel(f) \/ CancelReturn(f)
           \/ Expirer(f) \/ JanitorRun(f) \/ Cleanup(f)
    PROVE  IInv'
<1>1. CASE \E i \in Attempts : LaunchAdmit(f, i) \/ WorkerFinish(f, i)
  BY <1>1, LaunchAdmitInv, WorkerFinishInv
<1>2. CASE Launch(f)
  BY <1>2, LaunchReplaceInv, LaunchChromeInv, LaunchInstallInv DEF Launch
<1>3. CASE Worker(f)
  BY <1>3, WorkerCloseInv, WorkerRejectInv, WorkerMFAInv, WorkerPrepareFailsInv,
     WorkerClaimCommitInv, WorkerCommitInv, WorkerPublishInv DEF Worker
<1>4. CASE Relay(f)
  BY <1>4, RelayCloseInv, RelayRejectInv DEF Relay
<1>5. CASE Waiter(f)
  BY <1>5, WaitPollInv, WaitReturnInv DEF Waiter
<1>6. CASE Expirer(f)
  BY <1>6, ExpirerFireInv, ExpirerReturnInv DEF Expirer
<1>7. CASE Cleanup(f)
  BY <1>7, CleanupCancelInv, CleanupCloseInv, CleanupJoinInv DEF Cleanup
<1>8. CASE \/ Begin(f) \/ Expire(f) \/ RetainedClose(f)
           \/ RelayStart(f) \/ RelayStop(f) \/ RelayFail(f)
  BY <1>8, BeginInv, ExpireInv, RetainedCloseInv, RelayStartInv, RelayStopInv, RelayFailInv
<1>9. CASE WaitBegin(f) \/ WaitCancel(f) \/ Cancel(f) \/ CancelReturn(f) \/ JanitorRun(f)
  BY <1>9, WaitBeginInv, WaitCancelInv, CancelInv, CancelReturnInv, JanitorRunInv
<1> QED BY <1>1, <1>2, <1>3, <1>4, <1>5, <1>6, <1>7, <1>8, <1>9

\* The invariant is inductive: it holds in every reachable state, for any set of logins,
\* any number of windows and both viewer modes.
THEOREM Invariance == Spec => []IInv
<1>1. Init => IInv
  BY InitInv
<1>2. IInv /\ [Next]_vars => IInv'
  <2> SUFFICES ASSUME IInv, [Next]_vars PROVE IInv'
    OBVIOUS
  <2>1. CASE ShutdownSeal \/ Shutdown
    BY <2>1, ShutdownSealInv, ShutdownCancelInv, ShutdownDrainInv, ShutdownFinishInv,
       ShutdownCommittedInv DEF Shutdown
  <2>2. CASE UNCHANGED vars
    BY <2>2, StutterInv
  <2> QED BY <2>1, <2>2, FlowStepInv DEF Next
<1> QED BY <1>1, <1>2, PTL DEF Spec

-----------------------------------------------------------------------------
(* The safety properties of PasswordFlow.                                  *)


\* Every variable keeps its type.
THEOREM TypeCorrect == Spec => []TypeOK
<1>1. IInv => TypeOK
  BY IInvType
<1> QED BY <1>1, Invariance, PTL

\* An accepted cancel excludes a stored account: the canceller claimed the cleanup of a
\* login no commit owned, and a login without entry is never committed.
THEOREM CancelIsFinal == Spec => []CanceledNeverLinks
<1>1. IInv => CanceledNeverLinks
  BY DEF IInv, FlowInv, InvAnswers, CanceledNeverLinks
<1> QED BY <1>1, Invariance, PTL

\* At most one store call per login succeeds.
THEOREM AtMostOneCommit == Spec => []CommitsOnce
<1>1. IInv => CommitsOnce
  BY DEF IInv, FlowInv, InvCommit, CommitsOnce
<1> QED BY <1>1, Invariance, PTL

\* A waiter that is told a verdict is told what the store holds.
THEOREM AnswersAreTrue == Spec => []WaiterToldTheTruth
<1>1. IInv => WaiterToldTheTruth
  BY DEF IInv, FlowInv, InvAnswers, WaiterToldTheTruth
<1> QED BY <1>1, Invariance, PTL

\* Between its claim and its publication a commit keeps its entry and its context.
THEOREM CommitProtection == Spec => []CommitIsProtected
<1>1. IInv => CommitIsProtected
  <2> SUFFICES ASSUME IInv, NEW f \in Flows, commitClaimed[f]
               PROVE  /\ pending[f] = "scrubbed" /\ outcome[f] = "open"
                      /\ ~canceled[f] /\ cleanup[f] = "none"
    BY DEF CommitIsProtected
  <2>1. FlowInv(f)
    BY DEF IInv
  <2>2. pending[f] = "scrubbed" /\ outcome[f] = "open"
    BY <2>1 DEF FlowInv, InvCommit
  <2>3. cleanup[f] = "none"
    BY <2>1, <2>2, LiveUnclaimed DEF Present
  <2>4. ~canceled[f]
    BY <2>1, <2>3 DEF FlowInv, InvEntry
  <2> QED BY <2>2, <2>3, <2>4
<1> QED BY <1>1, Invariance, PTL

\* One worker finalizes a login, it is the newest window's, and nothing is launched
\* beside it.
THEOREM OneFinalizer == Spec => []FinalizerOwnsFlow
<1>1. IInv => FinalizerOwnsFlow
  BY DEF IInv, FlowInv, InvLaunchMu, FinalizerOwnsFlow
<1> QED BY <1>1, Invariance, PTL

\* Every Chrome that exists is within somebody's reach.
THEOREM NoOrphanChrome == Spec => []ChromeIsReachable
<1>1. IInv => ChromeIsReachable
  <2> SUFFICES ASSUME IInv, NEW f \in Flows
               PROVE  /\ chrome[f] \subseteq
                            {browser[f]} \cup {i \in Attempts : launcher[f][i] = "opened"}
                      /\ \A i, j \in chrome[f] : i = j
    BY DEF ChromeIsReachable
  <2>1. InvBrowser(f) /\ chrome[f] \subseteq Attempts
    BY DEF IInv, FlowInv, TypeOK
  <2>2. CASE \A i \in Attempts : launcher[f][i] \notin Launching
    BY <2>1, <2>2 DEF InvBrowser, ChromeOf
  <2>3. CASE \E i \in Attempts : launcher[f][i] \in Launching
    <3>1. PICK i \in Attempts : launcher[f][i] \in Launching
      BY <2>3
    <3>2. \/ launcher[f][i] = "opening" /\ ChromeOf(f, 0)
          \/ launcher[f][i] = "opened" /\ ChromeOf(f, i)
      BY <2>1, <3>1 DEF InvBrowser, Launching
    <3>3. 0 \notin Attempts
      BY PasswordFlowAssumption DEF Attempts
    <3> QED BY <2>1, <3>1, <3>2, <3>3 DEF ChromeOf
  <2> QED BY <2>2, <2>3
<1> QED BY <1>1, Invariance, PTL

\* A finished cleanup leaves nobody at work and no Chrome the reaper does not know.
THEOREM CleanupIsComplete == Spec => []CleanedUpForGood
<1>1. IInv => CleanedUpForGood
  <2> SUFFICES ASSUME IInv, NEW f \in Flows, cleanup[f] = "done"
               PROVE  Joined(f) /\ (chrome[f] # {} => retained[f] = browser[f])
    BY DEF CleanedUpForGood
  <2>1. FlowInv(f) /\ chrome[f] \subseteq Attempts
    BY DEF IInv, TypeOK
  <2>2. Joined(f) /\ LaunchMuFree(f) /\ (browser[f] # 0 => retained[f] = browser[f])
    BY <2>1 DEF FlowInv, InvCleanup
  <2>3. ChromeOf(f, browser[f])
    BY <2>1, <2>2 DEF FlowInv, InvBrowser, LaunchMuFree
  <2>4. 0 \notin Attempts
    BY PasswordFlowAssumption DEF Attempts
  <2> QED BY <2>1, <2>2, <2>3, <2>4 DEF ChromeOf
<1> QED BY <1>1, Invariance, PTL

\* When shutdown has returned no login, waiter, relay or store call is left.
THEOREM ShutdownIsComplete == Spec => []ShutdownSettles
<1>1. IInv => ShutdownSettles
  <2> SUFFICES ASSUME IInv, shutdown = "done", NEW f \in Flows
               PROVE  /\ pending[f] = "absent" /\ ~commitClaimed[f]
                      /\ waiter[f] \notin {"waiting", "leaving"}
                      /\ relay[f] \in {"idle", "done"}
    BY DEF ShutdownSettles
  <2>1. FlowInv(f)
    BY DEF IInv
  <2>2. /\ pending[f] = "absent"
        /\ waiter[f] \in {"idle", "returned"} /\ relay[f] \in {"idle", "done"}
    BY <2>1 DEF FlowInv, InvShutdown, Present, closed
  <2> QED BY <2>1, <2>2 DEF FlowInv, InvCommit
<1> QED BY <1>1, Invariance, PTL

\* After shutdown no store call succeeds any more: a worker that could still make one
\* would own an entry, and none is left.
THEOREM NoLateCommit == Spec => NoCommitAfterShutdown
<1>1. IInv /\ [Next]_vars => (shutdown = "done" => commits' = commits)
  <2> SUFFICES ASSUME IInv, [Next]_vars, shutdown = "done" PROVE commits' = commits
    OBVIOUS
  <2>1. ASSUME NEW f \in Flows, NEW i \in Attempts PROVE ~WorkerCommit(f, i)
    <3>1. FlowInv(f)
      BY DEF IInv
    <3>2. ~commitClaimed[f]
      BY <3>1 DEF FlowInv, InvShutdown, InvCommit, Present, closed
    <3> QED BY <3>1, <3>2 DEF FlowInv, InvCommit, Committing, WorkerCommit
  <2>2. CASE UNCHANGED vars
    BY <2>2 DEF vars
  <2>3. CASE ShutdownSeal \/ Shutdown
    BY <2>3 DEF ShutdownSeal, Shutdown, ShutdownCancel, ShutdownDrain, ShutdownFinish,
       ShutdownCommitted, DownRest
  <2>4. ASSUME NEW f \in Flows,
               \/ Begin(f) \/ Expire(f)
               \/ \E i \in Attempts : LaunchAdmit(f, i) \/ WorkerFinish(f, i)
               \/ Launch(f) \/ RetainedClose(f) \/ Worker(f)
               \/ RelayStart(f) \/ RelayStop(f) \/ RelayFail(f) \/ Relay(f)
               \/ WaitBegin(f) \/ WaitCancel(f) \/ Waiter(f)
               \/ Cancel(f) \/ CancelReturn(f)
               \/ Expirer(f) \/ JanitorRun(f) \/ Cleanup(f)
        PROVE  commits' = commits
    <3>1. CASE Begin(f) \/ Expire(f) \/ RetainedClose(f)
      BY <3>1 DEF Begin, Expire, RetainedClose
    <3>2. CASE \E i \in Attempts : LaunchAdmit(f, i) \/ WorkerFinish(f, i)
      BY <3>2 DEF LaunchAdmit, WorkerFinish
    <3>3. CASE Launch(f)
      BY <3>3 DEF Launch, LaunchReplace, LaunchChrome, LaunchInstall
    <3>4. CASE Worker(f)
      BY <2>1, <3>4 DEF Worker, WorkerClose, WorkerReject, WorkerMFA, WorkerPrepareFails,
         WorkerClaimCommit, WorkerPublish
    <3>5. CASE RelayStart(f) \/ RelayStop(f) \/ RelayFail(f) \/ Relay(f)
      BY <3>5 DEF RelayStart, RelayStop, RelayFail, Relay, RelayClose, RelayReject, RelayRest
    <3>6. CASE WaitBegin(f) \/ WaitCancel(f) \/ Waiter(f)
      BY <3>6 DEF WaitBegin, WaitCancel, Waiter, WaitPoll, WaitReturn, WaitLeave, WaitRest
    <3>7. CASE Cancel(f) \/ CancelReturn(f)
      BY <3>7 DEF Cancel, CancelReturn, CancelRest
    <3>8. CASE Expirer(f) \/ JanitorRun(f) \/ Cleanup(f)
      BY <3>8 DEF Expirer, ExpirerFire, ExpirerReturn, ExpirerRest, JanitorRun, Cleanup,
         CleanupCancel, CleanupClose, CleanupJoin, CleanupRest
    <3> QED BY <2>4, <3>1, <3>2, <3>3, <3>4, <3>5, <3>6, <3>7, <3>8
  <2> QED BY <2>2, <2>3, <2>4 DEF Next
<1>2. IInv /\ [Next]_vars => [shutdown = "done" => commits' = commits]_vars
  BY <1>1
<1> QED BY <1>2, Invariance, PTL DEF Spec, NoCommitAfterShutdown

-----------------------------------------------------------------------------
(* The refinement: PasswordFlow implements LoginPromise.                   *)

\* What the promise is about.
Shown == [f \in Flows |-> PromiseOf(f)]
Kept  == [f \in Flows |-> commits[f] > 0]

\* A look at a login shows how far it is, and never two things at once.
PromiseIs(f) ==
    /\ ~Begun(f) => PromiseOf(f) = "absent"
    /\ Begun(f) /\ ~Present(f) => PromiseOf(f) = "gone"
    /\ Decided(f) => PromiseOf(f) = outcome[f]
    /\ commitClaimed[f] => PromiseOf(f) = IF commits[f] = 0 THEN "committing" ELSE "kept"
    /\ Present(f) /\ ~Decided(f) /\ ~commitClaimed[f] => PromiseOf(f) = "open"

LEMMA PromiseCases ==
    ASSUME IInv, NEW f \in Flows
    PROVE  PromiseIs(f)
<1>1. Decided(f) => Present(f) /\ ~commitClaimed[f]
  BY DEF IInv, FlowInv, InvEntry, InvCommit, Decided, Present, Verdicts
<1>2. commitClaimed[f] => Present(f) /\ commits[f] \in Nat
  BY DEF IInv, TypeOK, FlowInv, InvCommit, Present
<1>3. Present(f) => Begun(f)
  BY DEF IInv, FlowInv, InvUnborn, Present
<1> QED BY <1>1, <1>2, <1>3 DEF PromiseOf, PromiseIs

\* The same of the next state.
LEMMA PromiseCasesNext ==
    ASSUME IInv', NEW f \in Flows
    PROVE  PromiseIs(f)'
<1>1. Decided(f)' => Present(f)' /\ ~commitClaimed'[f]
  BY DEF IInv, FlowInv, InvEntry, InvCommit, Decided, Present, Verdicts
<1>2. commitClaimed'[f] => Present(f)' /\ commits'[f] \in Nat
  BY DEF IInv, TypeOK, FlowInv, InvCommit, Present
<1>3. Present(f)' => Begun(f)'
  BY DEF IInv, FlowInv, InvUnborn, Present
<1> QED BY <1>1, <1>2, <1>3 DEF PromiseOf, PromiseIs

\* What a look at login g shows stays as it is.
LooksTheSame(g) ==
    /\ Begun(g)' = Begun(g)
    /\ Present(g)' = Present(g)
    /\ outcome'[g] = outcome[g]
    /\ commitClaimed'[g] = commitClaimed[g]
    /\ commits'[g] = commits[g]

\* No login shows anything new.
LEMMA Quiet ==
    ASSUME \A g \in Flows : LooksTheSame(g)
    PROVE  UNCHANGED <<Shown, Kept>>
<1>1. \A g \in Flows : PromiseOf(g)' = PromiseOf(g) /\ (commits'[g] > 0) = (commits[g] > 0)
  BY DEF LooksTheSame, PromiseOf, Decided
<1> QED BY <1>1 DEF Shown, Kept

\* Only login f moves.
LEMMA Moved ==
    ASSUME NEW f \in Flows, \A g \in Flows \ {f} : LooksTheSame(g)
    PROVE  /\ Shown' = [Shown EXCEPT ![f] = PromiseOf(f)']
           /\ Kept' = [Kept EXCEPT ![f] = commits'[f] > 0]
<1>1. \A g \in Flows \ {f} : PromiseOf(g)' = PromiseOf(g) /\ (commits'[g] > 0) = (commits[g] > 0)
  BY DEF LooksTheSame, PromiseOf, Decided
<1> QED BY <1>1 DEF Shown, Kept

\* A login that moves alone moves as LoginPromise lets it.
LEMMA PromiseSteps ==
    ASSUME NEW f \in Flows, \A g \in Flows \ {f} : LooksTheSame(g),
           \/ /\ commits'[f] = commits[f]
              /\ \/ PromiseOf(f) = "absent" /\ PromiseOf(f)' = "open"
                 \/ PromiseOf(f) = "open" /\ PromiseOf(f)' \in {"failed", "mfa"}
                 \/ PromiseOf(f) = "committing" /\ PromiseOf(f)' = "failed"
                 \/ PromiseOf(f) = "open" /\ PromiseOf(f)' = "committing"
                 \/ PromiseOf(f) = "kept" /\ PromiseOf(f)' = "linked"
                 \/ PromiseOf(f) \in {"open", "linked", "mfa", "failed"} /\ PromiseOf(f)' = "gone"
           \/ PromiseOf(f) = "committing" /\ PromiseOf(f)' = "kept" /\ commits'[f] = 1
    PROVE  Promise!Next
<1>1. Shown[f] = PromiseOf(f)
  BY DEF Shown
<1>2. Shown' = [Shown EXCEPT ![f] = PromiseOf(f)']
  BY Moved
<1>3. commits'[f] = commits[f] => UNCHANGED Kept
  BY DEF LooksTheSame, Kept
<1>4. CASE commits'[f] = commits[f] /\ PromiseOf(f)' # "kept"
  <2>1. CASE PromiseOf(f) = "absent" /\ PromiseOf(f)' = "open"
    BY <1>1, <1>2, <1>3, <1>4, <2>1 DEF Promise!Next, Promise!Open, Shown, Kept
  <2>2. CASE \/ PromiseOf(f) = "open" /\ PromiseOf(f)' \in {"failed", "mfa"}
             \/ PromiseOf(f) = "committing" /\ PromiseOf(f)' = "failed"
    BY <1>1, <1>2, <1>3, <1>4, <2>2 DEF Promise!Next, Promise!Reject, Shown, Kept
  <2>3. CASE PromiseOf(f) = "open" /\ PromiseOf(f)' = "committing"
    BY <1>1, <1>2, <1>3, <1>4, <2>3 DEF Promise!Next, Promise!ClaimCommit, Shown, Kept
  <2>4. CASE PromiseOf(f) = "kept" /\ PromiseOf(f)' = "linked"
    BY <1>1, <1>2, <1>3, <1>4, <2>4 DEF Promise!Next, Promise!Link, Shown, Kept
  <2>5. CASE PromiseOf(f) \in {"open", "linked", "mfa", "failed"} /\ PromiseOf(f)' = "gone"
    <3>1. Shown' = [g \in Flows |-> IF g \in {f} THEN "gone" ELSE Shown[g]]
      BY <1>2, <2>5 DEF Shown
    <3>2. Promise!Retire({f})
      BY <1>1, <1>3, <1>4, <2>5, <3>1 DEF Promise!Retire, Shown, Kept
    <3> QED BY <3>2 DEF Promise!Next
  <2> QED BY <1>4, <2>1, <2>2, <2>3, <2>4, <2>5
<1>5. CASE PromiseOf(f) = "committing" /\ PromiseOf(f)' = "kept" /\ commits'[f] = 1
  <2>1. Kept' = [Kept EXCEPT ![f] = TRUE]
    <3>1. (commits'[f] > 0) = TRUE
      BY <1>5
    <3> QED BY <3>1, Moved
  <2> QED BY <1>1, <1>2, <1>5, <2>1 DEF Promise!Next, Promise!Store, Shown, Kept
<1> QED BY <1>4, <1>5

\* What is shown of the logins, as a step of LoginPromise.
PromiseStep == Promise!Next \/ UNCHANGED <<Shown, Kept>>

\* BeginPasswordLogin opens a login.
LEMMA BeginPromise ==
    ASSUME IInv, IInv', NEW f \in Flows, Begin(f)
    PROVE  PromiseStep
<1>1. \A g \in Flows \ {f} : LooksTheSame(g)
  BY DEF IInv, TypeOK, Begin, LooksTheSame, Begun, Present
<1>2. PromiseOf(f) = "absent"
  BY PromiseCases DEF Begin, PromiseIs
<1>3. Present(f)' /\ ~Decided(f)' /\ commitClaimed'[f] = FALSE /\ commits' = commits
  BY DEF IInv, TypeOK, FlowInv, InvUnborn, Begin, Present, Decided, Verdicts
<1>4. PromiseOf(f)' = "open"
  BY <1>3, PromiseCasesNext DEF PromiseIs
<1> QED BY <1>1, <1>2, <1>3, <1>4, PromiseSteps DEF PromiseStep

\* A verdict is published for an open login, or not at all.
LEMMA PublishPromise ==
    ASSUME IInv, IInv', NEW f \in Flows, NEW verdict \in {"failed", "mfa"},
           Publish(f, verdict), UNCHANGED <<commits, expirer>>
    PROVE  PromiseStep
<1>1. CASE ~Publishable(f)
  <2>1. \A g \in Flows : LooksTheSame(g)
    BY <1>1 DEF Publish, LooksTheSame, Begun, Present
  <2> QED BY <2>1, Quiet DEF PromiseStep
<1>2. CASE Publishable(f)
  <2>1. \A g \in Flows \ {f} : LooksTheSame(g)
    BY <1>2 DEF IInv, TypeOK, Publish, LooksTheSame, Begun, Present
  <2>2. PromiseOf(f) = "open"
    BY <1>2, PromiseCases DEF PromiseIs, Publishable, Decided, Verdicts
  <2>3. Decided(f)' /\ outcome'[f] = verdict
    BY <1>2 DEF IInv, TypeOK, Publish, Decided, Verdicts
  <2>4. PromiseOf(f)' = verdict
    BY <2>3, PromiseCasesNext DEF PromiseIs
  <2> QED BY <2>1, <2>2, <2>4, PromiseSteps DEF PromiseStep
<1> QED BY <1>1, <1>2

\* The commit: claimed, stored or not, published.
LEMMA CommitPromise ==
    ASSUME IInv, IInv', NEW f \in Flows, NEW i \in Attempts,
           WorkerClaimCommit(f, i) \/ WorkerCommit(f, i) \/ WorkerPublish(f, i)
    PROVE  PromiseStep
<1> USE DEF WorkerRest
<1>1. CASE WorkerClaimCommit(f, i)
  <2>1. CASE ~Publishable(f)
    <3>1. \A g \in Flows : LooksTheSame(g)
      BY <1>1, <2>1 DEF WorkerClaimCommit, LooksTheSame, Begun, Present
    <3> QED BY <3>1, Quiet DEF PromiseStep
  <2>2. CASE Publishable(f)
    <3>1. \A g \in Flows \ {f} : LooksTheSame(g)
      BY <1>1, <2>2 DEF IInv, TypeOK, WorkerClaimCommit, LooksTheSame, Begun, Present
    <3>2. PromiseOf(f) = "open"
      BY <2>2, PromiseCases DEF PromiseIs, Publishable, Decided, Verdicts
    <3>3. commitClaimed'[f] /\ commits' = commits /\ commits[f] = 0
      BY <1>1, <2>2 DEF IInv, TypeOK, FlowInv, InvCommit, WorkerClaimCommit, Publishable
    <3>4. PromiseOf(f)' = "committing"
      BY <3>3, PromiseCasesNext DEF PromiseIs
    <3> QED BY <3>1, <3>2, <3>3, <3>4, PromiseSteps DEF PromiseStep
  <2> QED BY <2>1, <2>2
<1>2. CASE WorkerCommit(f, i)
  <2>1. CASE UNCHANGED commits
    <3>1. \A g \in Flows : LooksTheSame(g)
      BY <1>2, <2>1 DEF WorkerCommit, tableVars, LooksTheSame, Begun, Present
    <3> QED BY <3>1, Quiet DEF PromiseStep
  <2>2. CASE commits' = [commits EXCEPT ![f] = @ + 1]
    <3>1. \A g \in Flows \ {f} : LooksTheSame(g)
      BY <1>2, <2>2 DEF IInv, TypeOK, WorkerCommit, tableVars, LooksTheSame, Begun, Present
    <3>2. commitClaimed[f] /\ commitClaimed'[f] /\ commits[f] = 0 /\ commits'[f] = 1
      BY <1>2, <2>2 DEF IInv, TypeOK, FlowInv, InvCommit, Committing, WorkerCommit, tableVars
    <3>3. PromiseOf(f) = "committing" /\ PromiseOf(f)' = "kept"
      BY <3>2, PromiseCases, PromiseCasesNext DEF PromiseIs
    <3> QED BY <3>1, <3>2, <3>3, PromiseSteps DEF PromiseStep
  <2> QED BY <1>2, <2>1, <2>2 DEF WorkerCommit
<1>3. CASE WorkerPublish(f, i)
  <2>1. CASE UNCHANGED <<commitClaimed, outcome>>
    <3>1. \A g \in Flows : LooksTheSame(g)
      BY <1>3, <2>1 DEF WorkerPublish, LooksTheSame, Begun, Present
    <3> QED BY <3>1, Quiet DEF PromiseStep
  <2>2. CASE /\ commitClaimed[f]
             /\ outcome' = [outcome EXCEPT ![f] =
                               IF worker[f][i] = "stored" THEN "linked" ELSE "failed"]
             /\ commitClaimed' = [commitClaimed EXCEPT ![f] = FALSE]
    <3>1. \A g \in Flows \ {f} : LooksTheSame(g)
      BY <1>3, <2>2 DEF IInv, TypeOK, WorkerPublish, LooksTheSame, Begun, Present
    <3>2. commits'[f] = commits[f] /\ commits[f] = IF worker[f][i] = "stored" THEN 1 ELSE 0
      BY <1>3 DEF IInv, FlowInv, InvCommit, Committing, WorkerPublish
    <3>3. PromiseOf(f) = IF worker[f][i] = "stored" THEN "kept" ELSE "committing"
      BY <2>2, <3>2, PromiseCases DEF PromiseIs
    <3>4. Decided(f)' /\ outcome'[f] = IF worker[f][i] = "stored" THEN "linked" ELSE "failed"
      BY <2>2 DEF IInv, TypeOK, Decided, Verdicts
    <3>5. PromiseOf(f)' = IF worker[f][i] = "stored" THEN "linked" ELSE "failed"
      BY <3>4, PromiseCasesNext DEF PromiseIs
    <3> QED BY <3>1, <3>2, <3>3, <3>5, PromiseSteps DEF PromiseStep
  <2> QED BY <1>3, <2>1, <2>2 DEF WorkerPublish
<1> QED BY <1>1, <1>2, <1>3

\* A claimed cleanup takes a login that is open or decided, and no other.
LEMMA ClaimPromise ==
    ASSUME IInv, IInv', NEW f \in Flows, NEW who \in Cleaners,
           ClaimCleanup(f, who) \/ (Detach(f, who) /\ Present(f) /\ ~commitClaimed[f]),
           UNCHANGED commits, \A g \in Flows : Begun(g)' = Begun(g)
    PROVE  PromiseStep
<1>1. TypeOK /\ FlowInv(f)
  BY DEF IInv
<1>2. /\ commitClaimed' = commitClaimed
      /\ \A g \in Flows \ {f} : pending'[g] = pending[g] /\ outcome'[g] = outcome[g]
  BY <1>1, ClaimValues
<1>3. \A g \in Flows \ {f} : LooksTheSame(g)
  BY <1>2 DEF LooksTheSame, Present
<1>4. CASE UNCHANGED <<pending, outcome>>
  <2>1. \A g \in Flows : LooksTheSame(g)
    BY <1>2, <1>4 DEF LooksTheSame, Present
  <2> QED BY <2>1, Quiet DEF PromiseStep
<1>5. CASE /\ pending'[f] = "absent" /\ Begun(f) /\ ~commitClaimed[f] /\ Present(f)
           /\ outcome[f] \in {"open", "linked", "mfa", "failed"}
  <2>1. PromiseOf(f) \in {"open", "linked", "mfa", "failed"}
    BY <1>5, PromiseCases DEF PromiseIs, Decided, Verdicts
  <2>2. PromiseOf(f)' = "gone"
    BY <1>5, PromiseCasesNext DEF PromiseIs, Present
  <2> QED BY <1>3, <2>1, <2>2, PromiseSteps DEF PromiseStep
<1>6. outcome[f] \in {"open", "linked", "mfa", "failed"} => Present(f)
  BY <1>1 DEF FlowInv, InvEntry, Present
<1>7. \/ UNCHANGED <<pending, outcome>>
      \/ /\ pending'[f] = "absent" /\ Begun(f) /\ ~commitClaimed[f]
         /\ outcome[f] \in {"open", "linked", "mfa", "failed"}
  BY <1>1, ClaimValues
<1> QED BY <1>4, <1>5, <1>6, <1>7

\* Shutdown gives up every login no commit owns, all at once.
LEMMA SealPromise ==
    ASSUME IInv, IInv', ShutdownSeal
    PROVE  PromiseStep
<1> DEFINE taken == {f \in Flows : Present(f) /\ ~commitClaimed[f]}
<1>1. /\ pending' = [f \in Flows |-> IF f \in taken THEN "absent" ELSE pending[f]]
      /\ outcome' = [f \in Flows |-> IF f \in taken THEN "absent" ELSE outcome[f]]
      /\ UNCHANGED <<commitClaimed, commits, expirer>>
  BY DEF ShutdownSeal, DownRest
<1>2. \A f \in taken : /\ PromiseOf(f) \in {"open", "linked", "mfa", "failed"}
                       /\ PromiseOf(f)' = "gone"
  <2> TAKE f \in taken
  <2>1. Begun(f) /\ Begun(f)' /\ ~Present(f)'
    BY <1>1 DEF IInv, FlowInv, InvUnborn, Begun, Present
  <2>2. PromiseOf(f)' = "gone"
    BY <2>1, PromiseCasesNext DEF PromiseIs
  <2>3. PromiseOf(f) \in {"open", "linked", "mfa", "failed"}
    BY PromiseCases DEF PromiseIs, Decided, Verdicts
  <2> QED BY <2>2, <2>3
<1>3. \A f \in Flows \ taken : PromiseOf(f)' = PromiseOf(f)
  <2> TAKE f \in Flows \ taken
  <2>1. LooksTheSame(f)
    BY <1>1 DEF LooksTheSame, Begun, Present
  <2> QED BY <2>1 DEF LooksTheSame, PromiseOf, Decided
<1>4. Promise!Retire(taken)
  <2>1. Shown' = [f \in Flows |-> IF f \in taken THEN "gone" ELSE Shown[f]]
    BY <1>2, <1>3 DEF Shown
  <2>2. \A f \in taken : Shown[f] \in {"open", "linked", "mfa", "failed"}
    BY <1>2 DEF Shown
  <2>3. UNCHANGED Kept
    BY <1>1 DEF Kept
  <2> QED BY <2>1, <2>2, <2>3 DEF Promise!Retire, Shown, Kept
<1> QED BY <1>4 DEF Promise!Next, PromiseStep
\* What a step of one login's goroutines leaves alone, when no look can tell it: the
\* launches, the browser, the relay, the waits that go on and the cleanup.
LEMMA QuietPromise ==
    ASSUME IInv, NEW f \in Flows,
           \/ Expire(f) \/ RetainedClose(f) \/ Launch(f) \/ Cleanup(f)
           \/ \E i \in Attempts : \/ LaunchAdmit(f, i) \/ WorkerFinish(f, i)
                                  \/ WorkerClose(f, i) \/ WorkerPrepareFails(f, i)
           \/ RelayStart(f) \/ RelayStop(f) \/ RelayFail(f) \/ RelayClose(f)
           \/ WaitBegin(f) \/ WaitReturn(f) \/ CancelReturn(f) \/ ExpirerReturn(f)
    PROVE  PromiseStep
<1>1. CASE \/ Expire(f) \/ RetainedClose(f) \/ Launch(f) \/ Cleanup(f)
           \/ \E i \in Attempts : LaunchAdmit(f, i) \/ WorkerClose(f, i) \/ WorkerPrepareFails(f, i)
           \/ RelayStart(f) \/ RelayStop(f) \/ RelayClose(f)
           \/ WaitBegin(f) \/ WaitReturn(f) \/ CancelReturn(f)
  <2>1. UNCHANGED <<pending, outcome, commitClaimed, commits, expirer>>
    BY <1>1 DEF Expire, RetainedClose, Launch, LaunchReplace, LaunchChrome, LaunchInstall, Cleanup,
       CleanupCancel, CleanupClose, CleanupJoin, CleanupRest, LaunchAdmit, WorkerClose,
       WorkerPrepareFails, WorkerRest, RelayStart, RelayStop, RelayClose, RelayRest, WaitBegin,
       WaitReturn, WaitRest, CancelReturn, CancelRest, tableVars
  <2>2. \A g \in Flows : LooksTheSame(g)
    BY <2>1 DEF LooksTheSame, Begun, Present
  <2> QED BY <2>2, Quiet DEF PromiseStep
<1>2. CASE RelayFail(f) \/ \E i \in Attempts : WorkerFinish(f, i)
  <2>1. UNCHANGED <<outcome, commitClaimed, commits, expirer>>
    BY <1>2 DEF RelayFail, RelayRest, WorkerFinish, WorkerRest, Seal, tableVars
  <2>2. \A g \in Flows : Present(g)' = Present(g)
    <3>1. \/ UNCHANGED pending
          \/ Present(f) /\ pending' = [pending EXCEPT ![f] = "scrubbed"]
      BY <1>2 DEF RelayFail, WorkerFinish, Live, Seal, tableVars
    <3> QED BY <3>1 DEF IInv, TypeOK, Present
  <2>3. \A g \in Flows : LooksTheSame(g)
    BY <2>1, <2>2 DEF LooksTheSame, Begun
  <2> QED BY <2>3, Quiet DEF PromiseStep
<1>3. CASE ExpirerReturn(f)
  <2>1. /\ UNCHANGED <<pending, outcome, commitClaimed, commits>>
        /\ \A g \in Flows : Begun(g)' = Begun(g)
    BY <1>3 DEF IInv, TypeOK, ExpirerReturn, ExpirerRest, tableVars, Begun
  <2>2. \A g \in Flows : LooksTheSame(g)
    BY <2>1 DEF LooksTheSame, Present
  <2> QED BY <2>2, Quiet DEF PromiseStep
<1> QED BY <1>1, <1>2, <1>3

\* Whatever ends a login by itself, by its user or by the end of the wait claims its
\* cleanup.
LEMMA EndPromise ==
    ASSUME IInv, IInv', NEW f \in Flows,
           \/ WaitPoll(f) \/ WaitCancel(f) \/ Cancel(f) \/ ExpirerFire(f) \/ JanitorRun(f)
           \/ ShutdownCommitted(f)
    PROVE  PromiseStep
<1>1. CASE WaitPoll(f) \/ WaitCancel(f) \/ Cancel(f) \/ JanitorRun(f) \/ ShutdownCommitted(f)
  <2>1. UNCHANGED <<commits, expirer>>
    BY <1>1 DEF WaitPoll, WaitCancel, WaitLeave, WaitRest, Cancel, CancelRest, JanitorRun, ExpirerRest,
       ShutdownCommitted, DownRest
  <2>2. \A g \in Flows : Begun(g)' = Begun(g)
    BY <2>1 DEF Begun
  <2>3. CASE UNCHANGED <<tableVars, cleanVars>>
    <3>1. \A g \in Flows : LooksTheSame(g)
      BY <2>1, <2>2, <2>3 DEF tableVars, LooksTheSame, Present
    <3> QED BY <3>1, Quiet DEF PromiseStep
  <2>4. CASE \E who \in Cleaners : \/ ClaimCleanup(f, who)
                                   \/ Detach(f, who) /\ Present(f) /\ ~commitClaimed[f]
    BY <2>1, <2>2, <2>4, ClaimPromise
  <2>5. {"waiter", "canceller", "janitor", "shutdown"} \subseteq Cleaners
    BY DEF Cleaners
  <2> QED BY <1>1, <2>3, <2>4, <2>5 DEF WaitPoll, WaitCancel, Cancel, JanitorRun, ShutdownCommitted
<1>2. CASE ExpirerFire(f)
  <2>1. UNCHANGED commits /\ \A g \in Flows : Begun(g)' = Begun(g)
    BY <1>2 DEF IInv, TypeOK, ExpirerFire, ExpirerRest, Begun
  <2>2. "expirer" \in Cleaners /\ ClaimCleanup(f, "expirer")
    BY <1>2 DEF ExpirerFire, Cleaners
  <2> QED BY <2>1, <2>2, ClaimPromise
<1> QED BY <1>1, <1>2

\* Every step of the goroutines is a step of the promise, or shows nothing.
LEMMA StepPromise ==
    ASSUME IInv, IInv', [Next]_vars
    PROVE  PromiseStep
<1>1. CASE ShutdownSeal
  BY <1>1, SealPromise
<1>2. CASE \/ ShutdownCancel \/ ShutdownDrain \/ ShutdownFinish \/ UNCHANGED vars
  <2>1. UNCHANGED <<pending, outcome, commitClaimed, commits, expirer>>
    BY <1>2 DEF ShutdownCancel, ShutdownDrain, ShutdownFinish, DownRest, tableVars, vars
  <2>2. \A g \in Flows : LooksTheSame(g)
    BY <2>1 DEF LooksTheSame, Begun, Present
  <2> QED BY <2>2, Quiet DEF PromiseStep
<1>3. ASSUME NEW f \in Flows, NEW i \in Attempts,
             WorkerReject(f, i) \/ WorkerMFA(f, i)
      PROVE  PromiseStep
  <2>1. UNCHANGED <<commits, expirer>>
    BY <1>3 DEF WorkerReject, WorkerMFA, WorkerRest
  <2>2. CASE UNCHANGED tableVars
    <3>1. \A g \in Flows : LooksTheSame(g)
      BY <2>1, <2>2 DEF tableVars, LooksTheSame, Begun, Present
    <3> QED BY <3>1, Quiet DEF PromiseStep
  <2>3. CASE Publish(f, "failed") \/ Publish(f, "mfa")
    BY <2>1, <2>3, PublishPromise
  <2> QED BY <1>3, <2>2, <2>3 DEF WorkerReject, WorkerMFA
<1>4. ASSUME NEW f \in Flows, RelayReject(f)
      PROVE  PromiseStep
  BY <1>4, PublishPromise DEF RelayReject, RelayRest
<1>5. ASSUME NEW f \in Flows,
             \/ Begin(f) \/ Expire(f)
             \/ \E i \in Attempts : LaunchAdmit(f, i) \/ WorkerFinish(f, i)
             \/ Launch(f) \/ RetainedClose(f) \/ Worker(f)
             \/ RelayStart(f) \/ RelayStop(f) \/ RelayFail(f) \/ Relay(f)
             \/ WaitBegin(f) \/ WaitCancel(f) \/ Waiter(f)
             \/ Cancel(f) \/ CancelReturn(f)
             \/ Expirer(f) \/ JanitorRun(f) \/ Cleanup(f)
      PROVE  PromiseStep
  <2>1. CASE Begin(f)
    BY <2>1, BeginPromise
  <2>2. CASE Worker(f)
    BY <2>2, <1>3, CommitPromise, QuietPromise DEF Worker
  <2>3. CASE Relay(f)
    BY <2>3, <1>4, QuietPromise DEF Relay
  <2>4. CASE WaitCancel(f) \/ Waiter(f)
    BY <2>4, EndPromise, QuietPromise DEF Waiter
  <2>5. CASE Cancel(f) \/ Expirer(f) \/ JanitorRun(f)
    BY <2>5, EndPromise, QuietPromise DEF Expirer
  <2>6. CASE \/ Expire(f) \/ \E i \in Attempts : LaunchAdmit(f, i) \/ WorkerFinish(f, i)
             \/ Launch(f) \/ RetainedClose(f) \/ RelayStart(f) \/ RelayStop(f) \/ RelayFail(f)
             \/ WaitBegin(f) \/ CancelReturn(f) \/ Cleanup(f)
    BY <2>6, QuietPromise
  <2> QED BY <1>5, <2>1, <2>2, <2>3, <2>4, <2>5, <2>6
<1> QED BY <1>1, <1>2, <1>5, EndPromise DEF Next, Shutdown

\* At the start every login is absent and no account is stored.
LEMMA InitPromise == Init => Promise!Init
<1> SUFFICES ASSUME Init PROVE Promise!Init
  OBVIOUS
<1>1. \A f \in Flows : PromiseOf(f) = "absent"
  <2> TAKE f \in Flows
  <2>1. ~Decided(f) /\ ~Begun(f) /\ ~Present(f) /\ ~commitClaimed[f]
    BY DEF Init, Decided, Begun, Present, Verdicts
  <2> QED BY <2>1 DEF PromiseOf
<1>2. \A f \in Flows : (commits[f] > 0) = FALSE
  BY DEF Init
<1> QED BY <1>1, <1>2 DEF Promise!Init

\* The goroutines that race over a login keep what LoginPromise promises its user: the
\* commit is claimed, made and published in that order, a login whose commit is claimed is
\* not given up, "linked" is shown exactly of a stored account, and a login that is gone
\* stays gone (captcha.go, captcha_launch.go, shutdown.go).
THEOREM Refinement == Spec => KeepsPromise
<1>1. IInv /\ IInv' /\ [Next]_vars => [Promise!Next]_<<Shown, Kept>>
  BY StepPromise DEF PromiseStep
<1>2. IInv /\ IInv' /\ [Next]_vars =>
         [Promise!Next]_<<[f \in Flows |-> PromiseOf(f)], [f \in Flows |-> commits[f] > 0]>>
  BY <1>1 DEF Shown, Kept
<1> QED BY <1>2, InitPromise, Invariance, PTL DEF Spec, KeepsPromise, Promise!Spec
=============================================================================
