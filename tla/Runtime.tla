------------------------------ MODULE Runtime -------------------------------
(***************************************************************************)
(* Processes of the bot (pkg/valorantbot/bot.go, cmd/bot): what Bot.Run    *)
(* opens and starts, what ends it, and the order in which it stops, joins  *)
(* and closes.  The components themselves are the other modules; here they *)
(* are seen by the work they admit and by what that work needs: the store  *)
(* and the Discord session.                                                *)
(*                                                                         *)
(* Work is a pass of the scheduler, an interaction or a login.  It may     *)
(* still be under way when the ten seconds of the bounded shutdown are     *)
(* over, but obeys its context, except for the interactions that add to a  *)
(* wishlist: they may have to load the index of the skins, and do so with  *)
(* a context and an HTTP client without a deadline, while they hold the    *)
(* lock that every other user of the index waits for.                      *)
(***************************************************************************)
EXTENDS Naturals, FiniteSets

CONSTANTS
    Procs,     \* processes started on one database and one port
    MaxCrash   \* bound: processes that are killed

ASSUME RuntimeAssumption == "none" \notin Procs /\ MaxCrash \in Nat

VARIABLES
    at,        \* where each Bot.Run stands
    asked,     \* did a signal cancel its context?
    canceled,  \* runCtx
    failed,    \* would Run return an error?
    http,      \* httpSrv: none, open, shut
    serve,     \* the serve goroutine: none, serving, failed, closed
    taken,     \* was its result taken from serveDone?
    handlers,  \* Handlers: none, open, sealed
    auth,      \* authweb.Server: none, open, sealed
    sched,     \* schedulerTask: none, running, stopping, ended
    work,      \* what is under way: pass, interaction, wish (an addition to a wishlist), login
    lock,      \* the process that holds bot.lock
    store,     \* the processes whose store is open
    gateway,   \* the processes whose Discord session is open
    crashes

runVars == <<at, asked, canceled, failed>>
httpVars == <<http, serve, taken>>
partVars == <<handlers, auth, sched, work>>
sharedVars == <<lock, store, gateway>>
vars == <<runVars, httpVars, partVars, sharedVars, crashes>>

All(value) == [p \in Procs |-> value]

Init ==
    /\ at = All("off")
    /\ asked = All(FALSE) /\ canceled = All(FALSE) /\ failed = All(FALSE)
    /\ http = All("none") /\ serve = All("none") /\ taken = All(FALSE)
    /\ handlers = All("none") /\ auth = All("none") /\ sched = All("none")
    /\ work = All({})
    /\ lock = "none" /\ store = {} /\ gateway = {}
    /\ crashes = 0

-----------------------------------------------------------------------------
Go(p, phase) == at' = [at EXCEPT ![p] = phase]
Fail(p) == failed' = [failed EXCEPT ![p] = TRUE]
GiveUp(p, phase) == Go(p, phase) /\ Fail(p)
CancelRun(p) == canceled' = [canceled EXCEPT ![p] = TRUE]

\* the phases of the deferred functions, in their order
Closing == {"joining scheduler", "closing http", "closing handlers", "closing auth",
            "closing gateway", "closing store", "releasing"}
\* ... and those before the last work is joined
Open == {"joining scheduler", "closing http", "closing handlers", "closing auth"}
Up == {"registering", "running", "stopping", "collecting"}

-----------------------------------------------------------------------------
(* Run comes up.                                                           *)

\* main: New may refuse the configuration
Start(p) ==
    /\ at[p] = "off"
    /\ \/ Go(p, "locking") /\ UNCHANGED failed
       \/ GiveUp(p, "ended")
    /\ UNCHANGED <<asked, canceled, httpVars, partVars, sharedVars, crashes>>

\* acquireInstanceLock does not wait
Lock(p) ==
    /\ at[p] = "locking"
    /\ \/ lock = "none" /\ lock' = p /\ Go(p, "listening") /\ UNCHANGED failed
       \/ GiveUp(p, "ended") /\ UNCHANGED lock
    /\ UNCHANGED <<asked, canceled, httpVars, partVars, store, gateway, crashes>>

Listen(p) ==
    /\ at[p] = "listening"
    /\ \/ Go(p, "opening") /\ UNCHANGED failed
       \/ GiveUp(p, "releasing")
    /\ UNCHANGED <<asked, canceled, httpVars, partVars, sharedVars, crashes>>

OpenStore(p) ==
    /\ at[p] = "opening"
    /\ \/ Go(p, "preparing") /\ store' = store \cup {p} /\ UNCHANGED failed
       \/ GiveUp(p, "releasing") /\ UNCHANGED store
    /\ UNCHANGED <<asked, canceled, httpVars, partVars, lock, gateway, crashes>>

\* crypto, the Discord session, then the parts; client version and skins may be missing
Prepare(p) ==
    /\ at[p] = "preparing"
    /\ \/ /\ Go(p, "connecting") /\ UNCHANGED failed
          /\ auth' = [auth EXCEPT ![p] = "open"]
          /\ handlers' = [handlers EXCEPT ![p] = "open"]
          /\ http' = [http EXCEPT ![p] = "open"]
       \/ GiveUp(p, "joining scheduler") /\ UNCHANGED <<auth, handlers, http>>
    /\ UNCHANGED <<asked, canceled, serve, taken, sched, work, sharedVars, crashes>>

\* openDiscord, then the goroutine that serves HTTP
Connect(p) ==
    /\ at[p] = "connecting"
    /\ \/ /\ Go(p, "registering") /\ UNCHANGED failed
          /\ gateway' = gateway \cup {p}
          /\ serve' = [serve EXCEPT ![p] = "serving"]
       \/ GiveUp(p, "joining scheduler") /\ UNCHANGED <<gateway, serve>>
    /\ UNCHANGED <<asked, canceled, http, taken, partVars, lock, store, crashes>>

\* the commands are registered as far as runCtx lets them; whoever is stopped by then
\* starts no scheduler
Register(p) ==
    /\ at[p] = "registering"
    /\ ~asked[p] /\ serve[p] = "serving"
    /\ Go(p, "running")
    /\ sched' = [sched EXCEPT ![p] = "running"]
    /\ UNCHANGED <<asked, canceled, failed, httpVars, handlers, auth, work, sharedVars, crashes>>

-----------------------------------------------------------------------------
(* What ends it.                                                           *)

Signal(p) ==
    /\ at[p] \notin {"off", "ended"} /\ ~asked[p]
    /\ asked' = [asked EXCEPT ![p] = TRUE]
    /\ CancelRun(p)
    /\ UNCHANGED <<at, failed, httpVars, partVars, sharedVars, crashes>>

\* Serve returns before anybody asked it to, and cancels runCtx
ServeFails(p) ==
    /\ serve[p] = "serving" /\ http[p] = "open"
    /\ serve' = [serve EXCEPT ![p] = "failed"]
    /\ CancelRun(p)
    /\ UNCHANGED <<at, asked, failed, http, taken, partVars, sharedVars, crashes>>

\* the scheduler's own error is kept until it is joined
SchedulerFails(p) ==
    /\ sched[p] = "running" /\ "pass" \notin work[p]
    /\ sched' = [sched EXCEPT ![p] = "ended"]
    /\ Fail(p)
    /\ UNCHANGED <<at, asked, canceled, httpVars, handlers, auth, work, sharedVars, crashes>>

\* the select of Run: the signal first, or the failure; both may be there
StopOnSignal(p) ==
    /\ at[p] \in {"registering", "running"} /\ asked[p]
    /\ Go(p, "stopping") /\ CancelRun(p)
    /\ UNCHANGED <<asked, failed, httpVars, partVars, sharedVars, crashes>>

StopOnFailure(p) ==
    /\ at[p] \in {"registering", "running"} /\ serve[p] = "failed"
    /\ GiveUp(p, "stopping") /\ CancelRun(p)
    /\ taken' = [taken EXCEPT ![p] = TRUE]
    /\ UNCHANGED <<asked, http, serve, partVars, sharedVars, crashes>>

-----------------------------------------------------------------------------
(* The parts are shut down together, then one by one.                      *)

\* http.Server.Shutdown or Close: Serve returns ErrServerClosed, and cancels runCtx
ShutHTTP(p) ==
    /\ http[p] = "open" /\ at[p] \in {"stopping", "closing http"}
    /\ http' = [http EXCEPT ![p] = "shut"]
    /\ serve' = [serve EXCEPT ![p] = IF @ = "serving" THEN "closed" ELSE @]
    /\ IF serve[p] = "serving" THEN CancelRun(p) ELSE UNCHANGED canceled
    /\ UNCHANGED <<at, asked, failed, taken, partVars, sharedVars, crashes>>

SealHandlers(p) ==
    /\ handlers[p] = "open" /\ at[p] \in {"stopping", "closing handlers"}
    /\ handlers' = [handlers EXCEPT ![p] = "sealed"]
    /\ UNCHANGED <<runVars, httpVars, auth, sched, work, sharedVars, crashes>>

\* Shutdown seals in a goroutine of its own, which may be late
SealAuth(p) ==
    /\ auth[p] = "open"
    /\ at[p] \in {"stopping", "collecting", "joining scheduler", "closing http",
                 "closing handlers", "closing auth"}
    /\ auth' = [auth EXCEPT ![p] = "sealed"]
    /\ UNCHANGED <<runVars, httpVars, handlers, sched, work, sharedVars, crashes>>

Callbacks == {"interaction", "wish"}
HandlersDone(p) == handlers[p] \in {"none", "sealed"} /\ work[p] \cap Callbacks = {}
AuthDone(p) == auth[p] \in {"none", "sealed"} /\ "login" \notin work[p]
SchedulerDone(p) == sched[p] \in {"none", "ended"}

\* mutation: the result of the serve goroutine is awaited also when it was taken
JoinCollects(p) ==
    /\ at[p] = "stopping"
    /\ http[p] = "shut" /\ handlers[p] = "sealed"
    /\ Go(p, "collecting")
    /\ \/ Fail(p)
       \/ HandlersDone(p) /\ AuthDone(p) /\ SchedulerDone(p) /\ UNCHANGED failed
    /\ UNCHANGED <<asked, canceled, httpVars, partVars, sharedVars, crashes>>

\* all four answers, some of them "deadline exceeded"; requests of HTTP may be among them
Join(p) ==
    /\ at[p] = "stopping"
    /\ http[p] = "shut" /\ handlers[p] = "sealed"
    /\ Go(p, IF taken[p] THEN "joining scheduler" ELSE "collecting")
    /\ \/ Fail(p)
       \/ HandlersDone(p) /\ AuthDone(p) /\ SchedulerDone(p) /\ UNCHANGED failed
    /\ UNCHANGED <<asked, canceled, httpVars, partVars, sharedVars, crashes>>

\* mutation: what the serve goroutine says after an intended stop is not looked at
CollectBlindly(p) ==
    /\ at[p] = "collecting"
    /\ serve[p] \in {"closed", "failed"} /\ ~taken[p]
    /\ Go(p, "joining scheduler")
    /\ taken' = [taken EXCEPT ![p] = TRUE]
    /\ UNCHANGED <<asked, canceled, failed, http, serve, partVars, sharedVars, crashes>>

\* an intended stop takes the result of the serve goroutine last
Collect(p) ==
    /\ at[p] = "collecting"
    /\ serve[p] \in {"closed", "failed"} /\ ~taken[p]
    /\ Go(p, "joining scheduler")
    /\ taken' = [taken EXCEPT ![p] = TRUE]
    /\ IF serve[p] = "failed" THEN Fail(p) ELSE UNCHANGED failed
    /\ UNCHANGED <<asked, canceled, http, serve, partVars, sharedVars, crashes>>

-----------------------------------------------------------------------------
(* closeRuntimeAfterScheduler: nothing here has a deadline.                *)

CloseRest == UNCHANGED <<asked, canceled, failed, httpVars, partVars, crashes>>

CloseAfterScheduler(p) ==
    /\ at[p] = "joining scheduler" /\ SchedulerDone(p)
    /\ Go(p, "closing http")
    /\ UNCHANGED sharedVars /\ CloseRest

CloseHTTP(p) ==
    /\ at[p] = "closing http" /\ http[p] # "open"
    /\ Go(p, "closing handlers")
    /\ UNCHANGED sharedVars /\ CloseRest

CloseHandlers(p) ==
    /\ at[p] = "closing handlers" /\ HandlersDone(p)
    /\ Go(p, "closing auth")
    /\ UNCHANGED sharedVars /\ CloseRest

\* mutation: the wait for the logins under way is not waited for
CloseAuthAtOnce(p) ==
    /\ at[p] = "closing auth"
    /\ Go(p, "closing gateway")
    /\ UNCHANGED sharedVars /\ CloseRest

CloseAuth(p) ==
    /\ at[p] = "closing auth" /\ AuthDone(p)
    /\ Go(p, "closing gateway")
    /\ UNCHANGED sharedVars /\ CloseRest

CloseGateway(p) ==
    /\ at[p] = "closing gateway"
    /\ Go(p, "closing store")
    /\ gateway' = gateway \ {p}
    /\ UNCHANGED <<lock, store>> /\ CloseRest

CloseStore(p) ==
    /\ at[p] = "closing store"
    /\ Go(p, "releasing")
    /\ store' = store \ {p}
    /\ UNCHANGED <<lock, gateway>> /\ CloseRest

\* the listener, if nobody serves on it, and the lock
Release(p) ==
    /\ at[p] = "releasing"
    /\ Go(p, "ended")
    /\ lock' = IF lock = p THEN "none" ELSE lock
    /\ UNCHANGED <<store, gateway>> /\ CloseRest

-----------------------------------------------------------------------------
(* What the parts do meanwhile.                                            *)

WorkRest == UNCHANGED <<runVars, httpVars, handlers, auth, sharedVars, crashes>>

Begin(p, job) ==
    /\ job \notin work[p]
    /\ CASE job = "pass" -> sched[p] = "running"
         [] job \in Callbacks -> p \in gateway /\ handlers[p] = "open"
         [] job = "login" -> auth[p] = "open" /\ ("interaction" \in work[p] \/ serve[p] # "none")
    /\ work' = [work EXCEPT ![p] = @ \cup {job}]
    /\ UNCHANGED sched /\ WorkRest

End(p, job) ==
    /\ job \in work[p]
    /\ work' = [work EXCEPT ![p] = @ \ {job}]
    /\ UNCHANGED sched /\ WorkRest

\* runCronUntilCanceled: no new pass begins once the cron is stopped, and the one that
\* is under way is waited for
SchedulerStops(p) ==
    /\ sched[p] = "running" /\ canceled[p]
    /\ sched' = [sched EXCEPT ![p] = "stopping"]
    /\ UNCHANGED work /\ WorkRest

SchedulerEnds(p) ==
    /\ sched[p] = "stopping" /\ "pass" \notin work[p]
    /\ sched' = [sched EXCEPT ![p] = "ended"]
    /\ UNCHANGED work /\ WorkRest

\* the process is killed: the system closes its files, its lock and its connections
Crash(p) ==
    /\ at[p] \notin {"off", "ended"}
    /\ crashes < MaxCrash
    /\ crashes' = crashes + 1
    /\ GiveUp(p, "ended") /\ CancelRun(p)
    /\ http' = [http EXCEPT ![p] = "none"]
    /\ serve' = [serve EXCEPT ![p] = "none"]
    /\ handlers' = [handlers EXCEPT ![p] = "none"]
    /\ auth' = [auth EXCEPT ![p] = "none"]
    /\ sched' = [sched EXCEPT ![p] = "none"]
    /\ work' = [work EXCEPT ![p] = {}]
    /\ lock' = IF lock = p THEN "none" ELSE lock
    /\ store' = store \ {p} /\ gateway' = gateway \ {p}
    /\ UNCHANGED <<asked, taken>>

-----------------------------------------------------------------------------
Jobs == {"pass", "interaction", "wish", "login"}

RunStep(p) ==
    \/ Lock(p) \/ Listen(p) \/ OpenStore(p) \/ Prepare(p) \/ Connect(p) \/ Register(p)
    \/ StopOnSignal(p) \/ StopOnFailure(p) \/ Join(p) \/ Collect(p)
    \/ CloseAfterScheduler(p) \/ CloseHTTP(p) \/ CloseHandlers(p) \/ CloseAuth(p)
    \/ CloseGateway(p) \/ CloseStore(p) \/ Release(p)
SchedulerStep(p) == SchedulerStops(p) \/ SchedulerEnds(p)
PartStep(p) == ShutHTTP(p) \/ SealHandlers(p) \/ SealAuth(p)

Next ==
    \E p \in Procs :
        \/ Start(p) \/ Signal(p) \/ RunStep(p) \/ PartStep(p) \/ SchedulerStep(p)
        \/ ServeFails(p) \/ SchedulerFails(p) \/ Crash(p)
        \/ \E job \in Jobs : Begin(p, job) \/ End(p, job)

Spec == Init /\ [][Next]_vars

\* Run and its goroutines run, and work ends when its context does, unless it waits for
\* an addition to a wishlist to give Cache.mu back; that addition owes nobody an end, and
\* nobody needs to start a process, to stop it, or to give it work
Fairness ==
    \A p \in Procs :
        /\ WF_vars(RunStep(p)) /\ WF_vars(PartStep(p)) /\ WF_vars(SchedulerStep(p))
        /\ WF_vars(canceled[p] /\ "wish" \notin work[p] /\ End(p, "pass"))
        /\ WF_vars(handlers[p] = "sealed" /\ "wish" \notin work[p] /\ End(p, "interaction"))
        /\ WF_vars(auth[p] = "sealed" /\ End(p, "login"))

FairSpec == Spec /\ Fairness

-----------------------------------------------------------------------------
TypeOK ==
    /\ at \in [Procs -> {"off", "locking", "listening", "opening", "preparing", "connecting",
                         "ended"} \cup Up \cup Closing]
    /\ asked \in [Procs -> BOOLEAN] /\ canceled \in [Procs -> BOOLEAN]
    /\ failed \in [Procs -> BOOLEAN] /\ taken \in [Procs -> BOOLEAN]
    /\ http \in [Procs -> {"none", "open", "shut"}]
    /\ serve \in [Procs -> {"none", "serving", "failed", "closed"}]
    /\ handlers \in [Procs -> {"none", "open", "sealed"}]
    /\ auth \in [Procs -> {"none", "open", "sealed"}]
    /\ sched \in [Procs -> {"none", "running", "stopping", "ended"}]
    /\ work \in [Procs -> SUBSET Jobs]
    /\ lock \in Procs \cup {"none"}
    /\ store \subseteq Procs /\ gateway \subseteq Procs
    /\ crashes \in 0..MaxCrash

\* Whatever is under way has its store and its Discord session, also when it outlives
\* the bounded shutdown (bot.go: "still joins before the ... dependencies disappear").
WorkHasItsParts ==
    \A p \in Procs : work[p] # {} => p \in store /\ p \in gateway

\* Who has the store or the session has the lock, and has it until both are given back.
PartsAreLocked ==
    \A p \in store \cup gateway : lock = p

\* Which phases hold what: the lock, the store, the session, and what may be under way.
Phases(p) ==
    /\ lock = p <=> at[p] \notin {"off", "locking", "ended"}
    /\ p \in store <=> at[p] \in {"preparing", "connecting", "closing gateway", "closing store"}
                                 \cup Up \cup Open
    /\ p \in gateway => at[p] \in {"closing gateway"} \cup Up \cup Open
    /\ at[p] \in Up => p \in gateway
    /\ serve[p] # "none" =>
          /\ at[p] \in Up \cup Closing \cup {"ended"}
          /\ at[p] \in Up \cup Open => p \in gateway
    /\ sched[p] \in {"running", "stopping"} =>
          p \in gateway /\ at[p] \in {"running", "stopping", "collecting", "joining scheduler"}
    /\ "pass" \in work[p] => sched[p] \in {"running", "stopping"}
    /\ handlers[p] = "open" => at[p] \in {"connecting"} \cup Up \cup (Open \ {"closing auth"})
    /\ work[p] \cap Callbacks # {} =>
          p \in gateway /\ at[p] \in Up \cup (Open \ {"closing auth"})
    /\ auth[p] = "open" => at[p] \in {"connecting"} \cup Up \cup Open
    /\ "login" \in work[p] => p \in gateway /\ at[p] \in Up \cup Open

\* What is known of the end of a run before Run returns it.
Report(p) ==
    /\ at[p] \in {"stopping", "collecting"} => failed[p] \/ asked[p]
    /\ taken[p] /\ at[p] \notin Closing \cup {"ended"} => failed[p]
    /\ at[p] \in Closing \cup {"ended"} => failed[p] \/ (asked[p] /\ serve[p] = "closed")

\* What the order of the deferred functions of Run keeps, and why: inductive.
IInv ==
    /\ TypeOK /\ WorkHasItsParts /\ PartsAreLocked
    /\ \A p \in Procs : Phases(p) /\ Report(p)

\* Run returns no error only if it was asked to stop and the HTTP server served until then.
FailureReported ==
    \A p \in Procs : at[p] = "ended" /\ ~failed[p] => asked[p] /\ serve[p] = "closed"

\* A process that is stopped, or whose HTTP server fails, comes to its end, unless an
\* addition to a wishlist never gets its index: Run joins the handlers without a deadline,
\* and neither their seal nor the canceled context reaches that load.
RunEnds == \A p \in Procs : canceled[p] ~> (at[p] = "ended" \/ []("wish" \in work[p]))
=============================================================================
