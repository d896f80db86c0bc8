--------------------------- MODULE RuntimeProofs ----------------------------
(***************************************************************************)
(* Proofs about Runtime, for any number of processes and crashes.          *)
(***************************************************************************)
EXTENDS Runtime, TLAPS

LEMMA InitInv == Init => IInv
<1> USE RuntimeAssumption DEF Init, All
<1>1. Init => TypeOK BY DEF TypeOK, Closing, Up, Jobs
<1>2. Init => WorkHasItsParts /\ PartsAreLocked BY DEF WorkHasItsParts, PartsAreLocked
<1>3. ASSUME Init, NEW p \in Procs PROVE Phases(p) /\ Report(p)
  BY <1>3 DEF Phases, Report, Closing, Open, Up
<1>4. QED BY <1>1, <1>2, <1>3 DEF IInv

\* The two invariants a reader cares for follow from what each phase holds.
LEMMA PhasesSuffice ==
    ASSUME TypeOK', \A p \in Procs : Phases(p)', \A p \in Procs : Report(p)'
    PROVE  IInv'
<1>1. ASSUME NEW p \in Procs, work'[p] # {} PROVE p \in store' /\ p \in gateway'
  <2>1. PICK job \in Jobs : job \in work'[p] BY <1>1 DEF TypeOK
  <2>2. p \in gateway' BY <2>1 DEF Phases, Jobs, Callbacks
  <2>3. QED BY <2>2 DEF Phases, Up, Open
<1>2. ASSUME NEW p \in (store \cup gateway)' PROVE lock' = p
  <2>1. p \in Procs BY DEF TypeOK
  <2>2. p \in store' BY <2>1 DEF Phases, Up, Open
  <2>3. QED BY <2>1, <2>2 DEF Phases, Up, Open
<1>3. QED BY <1>1, <1>2 DEF IInv, WorkHasItsParts, PartsAreLocked

\* A process that a step leaves alone stays as it is, also if another takes the lock.
LEMMA OthersUntouched ==
    ASSUME NEW q \in Procs, Phases(q), Report(q),
           at'[q] = at[q], asked'[q] = asked[q], failed'[q] = failed[q], serve'[q] = serve[q],
           taken'[q] = taken[q], handlers'[q] = handlers[q], auth'[q] = auth[q],
           sched'[q] = sched[q], work'[q] = work[q],
           lock' = q <=> lock = q, q \in store' <=> q \in store, q \in gateway' <=> q \in gateway
    PROVE  Phases(q)' /\ Report(q)'
BY DEF Phases, Report

\* Coming up, a process holds what it has opened and nothing else.
LEMMA UpInv ==
    ASSUME IInv, NEW p \in Procs,
           Start(p) \/ Lock(p) \/ Listen(p) \/ OpenStore(p)
           \/ Prepare(p) \/ Connect(p) \/ Register(p)
    PROVE  IInv'
<1> USE RuntimeAssumption
        DEF CloseRest, WorkRest, runVars, httpVars, partVars, sharedVars,
            HandlersDone, AuthDone, SchedulerDone, Callbacks
<1>0. TypeOK /\ Phases(p) /\ Report(p) BY DEF IInv
<1>1. CASE Start(p)
  <2>0. /\ at[p] = "off"
        /\ \/ at'[p] = "locking" /\ failed' = failed
           \/ at'[p] = "ended" /\ failed'[p] = TRUE
    BY <1>0, <1>1 DEF Start, Go, Fail, GiveUp, TypeOK
  <2>1. TypeOK' BY <1>0, <1>1 DEF Start, Go, Fail, GiveUp, TypeOK, Closing, Up
  <2>2. Phases(p)' BY <1>0, <1>1, <2>0 DEF Start, TypeOK, Phases, Closing, Up, Open
  <2>3. Report(p)' BY <1>0, <1>1, <2>0 DEF Start, TypeOK, Report, Closing, Phases
  <2>4. ASSUME NEW q \in Procs, q # p PROVE Phases(q)' /\ Report(q)'
    BY <1>0, <1>1, <2>4, OthersUntouched
    DEF Start, Go, Fail, GiveUp, TypeOK, IInv
  <2>5. QED BY <2>1, <2>2, <2>3, <2>4, PhasesSuffice
<1>2. CASE Lock(p)
  <2>0. /\ at[p] = "locking"
        /\ \/ at'[p] = "listening" /\ failed' = failed /\ lock = "none" /\ lock' = p
           \/ at'[p] = "ended" /\ failed'[p] = TRUE /\ lock' = lock
    BY <1>0, <1>2 DEF Lock, Go, Fail, GiveUp, TypeOK
  <2>1. TypeOK' BY <1>0, <1>2 DEF Lock, Go, Fail, GiveUp, TypeOK, Closing, Up
  <2>2. Phases(p)' BY <1>0, <1>2, <2>0 DEF Lock, TypeOK, Phases, Closing, Up, Open
  <2>3. Report(p)' BY <1>0, <1>2, <2>0 DEF Lock, TypeOK, Report, Closing, Phases
  <2>4. ASSUME NEW q \in Procs, q # p PROVE Phases(q)' /\ Report(q)'
    BY <1>0, <1>2, <2>4, OthersUntouched
    DEF Lock, Go, Fail, GiveUp, TypeOK, IInv
  <2>5. QED BY <2>1, <2>2, <2>3, <2>4, PhasesSuffice
<1>3. CASE Listen(p)
  <2>0. /\ at[p] = "listening"
        /\ \/ at'[p] = "opening" /\ failed' = failed
           \/ at'[p] = "releasing" /\ failed'[p] = TRUE
    BY <1>0, <1>3 DEF Listen, Go, Fail, GiveUp, TypeOK
  <2>1. TypeOK' BY <1>0, <1>3 DEF Listen, Go, Fail, GiveUp, TypeOK, Closing, Up
  <2>2. Phases(p)' BY <1>0, <1>3, <2>0 DEF Listen, TypeOK, Phases, Closing, Up, Open
  <2>3. Report(p)' BY <1>0, <1>3, <2>0 DEF Listen, TypeOK, Report, Closing, Phases
  <2>4. ASSUME NEW q \in Procs, q # p PROVE Phases(q)' /\ Report(q)'
    BY <1>0, <1>3, <2>4, OthersUntouched
    DEF Listen, Go, Fail, GiveUp, TypeOK, IInv
  <2>5. QED BY <2>1, <2>2, <2>3, <2>4, PhasesSuffice
<1>4. CASE OpenStore(p)
  <2>0. /\ at[p] = "opening"
        /\ \/ at'[p] = "preparing" /\ failed' = failed /\ store' = store \cup {p}
           \/ at'[p] = "releasing" /\ failed'[p] = TRUE /\ store' = store
    BY <1>0, <1>4 DEF OpenStore, Go, Fail, GiveUp, TypeOK
  <2>1. TypeOK' BY <1>0, <1>4 DEF OpenStore, Go, Fail, GiveUp, TypeOK, Closing, Up
  <2>2. Phases(p)' BY <1>0, <1>4, <2>0 DEF OpenStore, TypeOK, Phases, Closing, Up, Open
  <2>3. Report(p)' BY <1>0, <1>4, <2>0 DEF OpenStore, TypeOK, Report, Closing, Phases
  <2>4. ASSUME NEW q \in Procs, q # p PROVE Phases(q)' /\ Report(q)'
    BY <1>0, <1>4, <2>4, OthersUntouched
    DEF OpenStore, Go, Fail, GiveUp, TypeOK, IInv
  <2>5. QED BY <2>1, <2>2, <2>3, <2>4, PhasesSuffice
<1>5. CASE Prepare(p)
  <2>0. /\ at[p] = "preparing"
        /\ \/ at'[p] = "connecting" /\ failed' = failed
           \/ at'[p] = "joining scheduler" /\ failed'[p] = TRUE /\ UNCHANGED <<auth, handlers, http>>
    BY <1>0, <1>5 DEF Prepare, Go, Fail, GiveUp, TypeOK
  <2>1. TypeOK' BY <1>0, <1>5 DEF Prepare, Go, Fail, GiveUp, TypeOK, Closing, Up
  <2>2. Phases(p)' BY <1>0, <1>5, <2>0 DEF Prepare, TypeOK, Phases, Closing, Up, Open
  <2>3. Report(p)' BY <1>0, <1>5, <2>0 DEF Prepare, TypeOK, Report, Closing, Phases
  <2>4. ASSUME NEW q \in Procs, q # p PROVE Phases(q)' /\ Report(q)'
    <3>1. auth'[q] = auth[q] /\ handlers'[q] = handlers[q] /\ at'[q] = at[q] /\ failed'[q] = failed[q]
      BY <1>0, <1>5, <2>4 DEF Prepare, Go, Fail, GiveUp, TypeOK
    <3>2. QED BY <1>5, <3>1, OthersUntouched DEF Prepare, IInv
  <2>5. QED BY <2>1, <2>2, <2>3, <2>4, PhasesSuffice
<1>6. CASE Connect(p)
  <2>0. /\ at[p] = "connecting"
        /\ \/ at'[p] = "registering" /\ failed' = failed /\ gateway' = gateway \cup {p}
           \/ at'[p] = "joining scheduler" /\ failed'[p] = TRUE /\ UNCHANGED <<gateway, serve>>
    BY <1>0, <1>6 DEF Connect, Go, Fail, GiveUp, TypeOK
  <2>1. TypeOK' BY <1>0, <1>6 DEF Connect, Go, Fail, GiveUp, TypeOK, Closing, Up
  <2>2. Phases(p)' BY <1>0, <1>6, <2>0 DEF Connect, TypeOK, Phases, Closing, Up, Open
  <2>3. Report(p)' BY <1>0, <1>6, <2>0 DEF Connect, TypeOK, Report, Closing, Phases
  <2>4. ASSUME NEW q \in Procs, q # p PROVE Phases(q)' /\ Report(q)'
    BY <1>0, <1>6, <2>4, OthersUntouched
    DEF Connect, Go, Fail, GiveUp, TypeOK, IInv
  <2>5. QED BY <2>1, <2>2, <2>3, <2>4, PhasesSuffice
<1>7. CASE Register(p)
  <2>1. TypeOK' BY <1>0, <1>7 DEF Register, Go, TypeOK, Closing, Up
  <2>2. Phases(p)' BY <1>0, <1>7 DEF Register, Go, TypeOK, Phases, Closing, Up, Open
  <2>3. Report(p)' BY <1>0, <1>7 DEF Register, Go, TypeOK, Report, Closing, Phases
  <2>4. ASSUME NEW q \in Procs, q # p PROVE Phases(q)' /\ Report(q)'
    BY <1>0, <1>7, <2>4, OthersUntouched DEF Register, Go, TypeOK, IInv
  <2>5. QED BY <2>1, <2>2, <2>3, <2>4, PhasesSuffice
<1>8. QED BY <1>1, <1>2, <1>3, <1>4, <1>5, <1>6, <1>7

\* What ends a run: the reason is recorded before anything is shut down.
LEMMA StopInv ==
    ASSUME IInv, NEW p \in Procs,
           Signal(p) \/ ServeFails(p) \/ SchedulerFails(p) \/ StopOnSignal(p)
           \/ StopOnFailure(p)
    PROVE  IInv'
<1> USE RuntimeAssumption
        DEF Go, Fail, GiveUp, CancelRun, CloseRest, WorkRest, runVars, httpVars, partVars, sharedVars,
            HandlersDone, AuthDone, SchedulerDone, Callbacks
<1>0. TypeOK /\ Phases(p) /\ Report(p) BY DEF IInv
<1>1. CASE Signal(p)
  <2>1. TypeOK' BY <1>0, <1>1 DEF Signal, TypeOK, Closing, Up
  <2>2. Phases(p)' BY <1>0, <1>1 DEF Signal, TypeOK, Phases, Closing, Up, Open
  <2>3. Report(p)' BY <1>0, <1>1 DEF Signal, TypeOK, Report, Closing, Phases
  <2>4. ASSUME NEW q \in Procs, q # p PROVE Phases(q)' /\ Report(q)'
    BY <1>0, <1>1, <2>4, OthersUntouched DEF Signal, TypeOK, IInv
  <2>5. QED BY <2>1, <2>2, <2>3, <2>4, PhasesSuffice
<1>2. CASE ServeFails(p)
  <2>1. TypeOK' BY <1>0, <1>2 DEF ServeFails, TypeOK, Closing, Up
  <2>2. Phases(p)' BY <1>0, <1>2 DEF ServeFails, TypeOK, Phases, Closing, Up, Open
  <2>3. Report(p)' BY <1>0, <1>2 DEF ServeFails, TypeOK, Report, Closing, Phases
  <2>4. ASSUME NEW q \in Procs, q # p PROVE Phases(q)' /\ Report(q)'
    BY <1>0, <1>2, <2>4, OthersUntouched DEF ServeFails, TypeOK, IInv
  <2>5. QED BY <2>1, <2>2, <2>3, <2>4, PhasesSuffice
<1>3. CASE SchedulerFails(p)
  <2>1. TypeOK' BY <1>0, <1>3 DEF SchedulerFails, TypeOK, Closing, Up
  <2>2. Phases(p)' BY <1>0, <1>3 DEF SchedulerFails, TypeOK, Phases, Closing, Up, Open
  <2>3. Report(p)' BY <1>0, <1>3 DEF SchedulerFails, TypeOK, Report, Closing, Phases
  <2>4. ASSUME NEW q \in Procs, q # p PROVE Phases(q)' /\ Report(q)'
    BY <1>0, <1>3, <2>4, OthersUntouched DEF SchedulerFails, TypeOK, IInv
  <2>5. QED BY <2>1, <2>2, <2>3, <2>4, PhasesSuffice
<1>4. CASE StopOnSignal(p)
  <2>1. TypeOK' BY <1>0, <1>4 DEF StopOnSignal, TypeOK, Closing, Up
  <2>2. Phases(p)' BY <1>0, <1>4 DEF StopOnSignal, TypeOK, Phases, Closing, Up, Open
  <2>3. Report(p)' BY <1>0, <1>4 DEF StopOnSignal, TypeOK, Report, Closing, Phases
  <2>4. ASSUME NEW q \in Procs, q # p PROVE Phases(q)' /\ Report(q)'
    BY <1>0, <1>4, <2>4, OthersUntouched DEF StopOnSignal, TypeOK, IInv
  <2>5. QED BY <2>1, <2>2, <2>3, <2>4, PhasesSuffice
<1>5. CASE StopOnFailure(p)
  <2>1. TypeOK' BY <1>0, <1>5 DEF StopOnFailure, TypeOK, Closing, Up
  <2>2. Phases(p)' BY <1>0, <1>5 DEF StopOnFailure, TypeOK, Phases, Closing, Up, Open
  <2>3. Report(p)' BY <1>0, <1>5 DEF StopOnFailure, TypeOK, Report, Closing, Phases
  <2>4. ASSUME NEW q \in Procs, q # p PROVE Phases(q)' /\ Report(q)'
    BY <1>0, <1>5, <2>4, OthersUntouched DEF StopOnFailure, TypeOK, IInv
  <2>5. QED BY <2>1, <2>2, <2>3, <2>4, PhasesSuffice
<1>6. QED BY <1>1, <1>2, <1>3, <1>4, <1>5

\* The bounded shutdown and the collection of the server's result.
LEMMA ShutInv ==
    ASSUME IInv, NEW p \in Procs,
           ShutHTTP(p) \/ SealHandlers(p) \/ SealAuth(p) \/ Join(p)
           \/ Collect(p)
    PROVE  IInv'
<1> USE RuntimeAssumption
        DEF Go, Fail, GiveUp, CancelRun, CloseRest, WorkRest, runVars, httpVars, partVars, sharedVars,
            HandlersDone, AuthDone, SchedulerDone, Callbacks
<1>0. TypeOK /\ Phases(p) /\ Report(p) BY DEF IInv
<1>1. CASE ShutHTTP(p)
  <2>1. TypeOK' BY <1>0, <1>1 DEF ShutHTTP, TypeOK, Closing, Up
  <2>2. Phases(p)' BY <1>0, <1>1 DEF ShutHTTP, TypeOK, Phases, Closing, Up, Open
  <2>3. Report(p)' BY <1>0, <1>1 DEF ShutHTTP, TypeOK, Report, Closing, Phases
  <2>4. ASSUME NEW q \in Procs, q # p PROVE Phases(q)' /\ Report(q)'
    BY <1>0, <1>1, <2>4, OthersUntouched DEF ShutHTTP, TypeOK, IInv
  <2>5. QED BY <2>1, <2>2, <2>3, <2>4, PhasesSuffice
<1>2. CASE SealHandlers(p)
  <2>1. TypeOK' BY <1>0, <1>2 DEF SealHandlers, TypeOK, Closing, Up
  <2>2. Phases(p)' BY <1>0, <1>2 DEF SealHandlers, TypeOK, Phases, Closing, Up, Open
  <2>3. Report(p)' BY <1>0, <1>2 DEF SealHandlers, TypeOK, Report, Closing, Phases
  <2>4. ASSUME NEW q \in Procs, q # p PROVE Phases(q)' /\ Report(q)'
    BY <1>0, <1>2, <2>4, OthersUntouched DEF SealHandlers, TypeOK, IInv
  <2>5. QED BY <2>1, <2>2, <2>3, <2>4, PhasesSuffice
<1>3. CASE SealAuth(p)
  <2>1. TypeOK' BY <1>0, <1>3 DEF SealAuth, TypeOK, Closing, Up
  <2>2. Phases(p)' BY <1>0, <1>3 DEF SealAuth, TypeOK, Phases, Closing, Up, Open
  <2>3. Report(p)' BY <1>0, <1>3 DEF SealAuth, TypeOK, Report, Closing, Phases
  <2>4. ASSUME NEW q \in Procs, q # p PROVE Phases(q)' /\ Report(q)'
    BY <1>0, <1>3, <2>4, OthersUntouched DEF SealAuth, TypeOK, IInv
  <2>5. QED BY <2>1, <2>2, <2>3, <2>4, PhasesSuffice
<1>4. CASE Join(p)
  <2>1. TypeOK' BY <1>0, <1>4 DEF Join, TypeOK, Closing, Up
  <2>2. Phases(p)' BY <1>0, <1>4 DEF Join, TypeOK, Phases, Closing, Up, Open
  <2>3. Report(p)' BY <1>0, <1>4 DEF Join, TypeOK, Report, Closing, Phases
  <2>4. ASSUME NEW q \in Procs, q # p PROVE Phases(q)' /\ Report(q)'
    BY <1>0, <1>4, <2>4, OthersUntouched DEF Join, TypeOK, IInv
  <2>5. QED BY <2>1, <2>2, <2>3, <2>4, PhasesSuffice
<1>5. CASE Collect(p)
  <2>1. TypeOK' BY <1>0, <1>5 DEF Collect, TypeOK, Closing, Up
  <2>2. Phases(p)' BY <1>0, <1>5 DEF Collect, TypeOK, Phases, Closing, Up, Open
  <2>3. Report(p)' BY <1>0, <1>5 DEF Collect, TypeOK, Report, Closing, Phases
  <2>4. ASSUME NEW q \in Procs, q # p PROVE Phases(q)' /\ Report(q)'
    BY <1>0, <1>5, <2>4, OthersUntouched DEF Collect, TypeOK, IInv
  <2>5. QED BY <2>1, <2>2, <2>3, <2>4, PhasesSuffice
<1>6. QED BY <1>1, <1>2, <1>3, <1>4, <1>5

\* The deferred functions, each waiting for the work that needs what is closed next.
LEMMA CloseInv ==
    ASSUME IInv, NEW p \in Procs,
           CloseAfterScheduler(p) \/ CloseHTTP(p) \/ CloseHandlers(p) \/ CloseAuth(p)
           \/ CloseGateway(p) \/ CloseStore(p) \/ Release(p)
    PROVE  IInv'
<1> USE RuntimeAssumption
        DEF Go, Fail, GiveUp, CancelRun, CloseRest, WorkRest, runVars, httpVars, partVars, sharedVars,
            HandlersDone, AuthDone, SchedulerDone, Callbacks
<1>0. TypeOK /\ Phases(p) /\ Report(p) BY DEF IInv
<1>1. CASE CloseAfterScheduler(p)
  <2>1. TypeOK' BY <1>0, <1>1 DEF CloseAfterScheduler, TypeOK, Closing, Up
  <2>2. Phases(p)' BY <1>0, <1>1 DEF CloseAfterScheduler, TypeOK, Phases, Closing, Up, Open
  <2>3. Report(p)' BY <1>0, <1>1 DEF CloseAfterScheduler, TypeOK, Report, Closing, Phases
  <2>4. ASSUME NEW q \in Procs, q # p PROVE Phases(q)' /\ Report(q)'
    BY <1>0, <1>1, <2>4, OthersUntouched DEF CloseAfterScheduler, TypeOK, IInv
  <2>5. QED BY <2>1, <2>2, <2>3, <2>4, PhasesSuffice
<1>2. CASE CloseHTTP(p)
  <2>1. TypeOK' BY <1>0, <1>2 DEF CloseHTTP, TypeOK, Closing, Up
  <2>2. Phases(p)' BY <1>0, <1>2 DEF CloseHTTP, TypeOK, Phases, Closing, Up, Open
  <2>3. Report(p)' BY <1>0, <1>2 DEF CloseHTTP, TypeOK, Report, Closing, Phases
  <2>4. ASSUME NEW q \in Procs, q # p PROVE Phases(q)' /\ Report(q)'
    BY <1>0, <1>2, <2>4, OthersUntouched DEF CloseHTTP, TypeOK, IInv
  <2>5. QED BY <2>1, <2>2, <2>3, <2>4, PhasesSuffice
<1>3. CASE CloseHandlers(p)
  <2>1. TypeOK' BY <1>0, <1>3 DEF CloseHandlers, TypeOK, Closing, Up
  <2>2. Phases(p)' BY <1>0, <1>3 DEF CloseHandlers, TypeOK, Phases, Closing, Up, Open
  <2>3. Report(p)' BY <1>0, <1>3 DEF CloseHandlers, TypeOK, Report, Closing, Phases
  <2>4. ASSUME NEW q \in Procs, q # p PROVE Phases(q)' /\ Report(q)'
    BY <1>0, <1>3, <2>4, OthersUntouched DEF CloseHandlers, TypeOK, IInv
  <2>5. QED BY <2>1, <2>2, <2>3, <2>4, PhasesSuffice
<1>4. CASE CloseAuth(p)
  <2>1. TypeOK' BY <1>0, <1>4 DEF CloseAuth, TypeOK, Closing, Up
  <2>2. Phases(p)' BY <1>0, <1>4 DEF CloseAuth, TypeOK, Phases, Closing, Up, Open
  <2>3. Report(p)' BY <1>0, <1>4 DEF CloseAuth, TypeOK, Report, Closing, Phases
  <2>4. ASSUME NEW q \in Procs, q # p PROVE Phases(q)' /\ Report(q)'
    BY <1>0, <1>4, <2>4, OthersUntouched DEF CloseAuth, TypeOK, IInv
  <2>5. QED BY <2>1, <2>2, <2>3, <2>4, PhasesSuffice
<1>5. CASE CloseGateway(p)
  <2>1. TypeOK' BY <1>0, <1>5 DEF CloseGateway, TypeOK, Closing, Up
  <2>2. Phases(p)' BY <1>0, <1>5 DEF CloseGateway, TypeOK, Phases, Closing, Up, Open
  <2>3. Report(p)' BY <1>0, <1>5 DEF CloseGateway, TypeOK, Report, Closing, Phases
  <2>4. ASSUME NEW q \in Procs, q # p PROVE Phases(q)' /\ Report(q)'
    BY <1>0, <1>5, <2>4, OthersUntouched DEF CloseGateway, TypeOK, IInv
  <2>5. QED BY <2>1, <2>2, <2>3, <2>4, PhasesSuffice
<1>6. CASE CloseStore(p)
  <2>1. TypeOK' BY <1>0, <1>6 DEF CloseStore, TypeOK, Closing, Up
  <2>2. Phases(p)' BY <1>0, <1>6 DEF CloseStore, TypeOK, Phases, Closing, Up, Open
  <2>3. Report(p)' BY <1>0, <1>6 DEF CloseStore, TypeOK, Report, Closing, Phases
  <2>4. ASSUME NEW q \in Procs, q # p PROVE Phases(q)' /\ Report(q)'
    BY <1>0, <1>6, <2>4, OthersUntouched DEF CloseStore, TypeOK, IInv
  <2>5. QED BY <2>1, <2>2, <2>3, <2>4, PhasesSuffice
<1>7. CASE Release(p)
  <2>1. TypeOK' BY <1>0, <1>7 DEF Release, TypeOK, Closing, Up
  <2>2. Phases(p)' BY <1>0, <1>7 DEF Release, TypeOK, Phases, Closing, Up, Open
  <2>3. Report(p)' BY <1>0, <1>7 DEF Release, TypeOK, Report, Closing, Phases
  <2>4. ASSUME NEW q \in Procs, q # p PROVE Phases(q)' /\ Report(q)'
    BY <1>0, <1>7, <2>4, OthersUntouched DEF Release, TypeOK, IInv
  <2>5. QED BY <2>1, <2>2, <2>3, <2>4, PhasesSuffice
<1>8. QED BY <1>1, <1>2, <1>3, <1>4, <1>5, <1>6, <1>7

\* Work begins only while its part is open.
LEMMA WorkInv ==
    ASSUME IInv, NEW p \in Procs,
           SchedulerStops(p) \/ SchedulerEnds(p) \/ Crash(p)
    PROVE  IInv'
<1> USE RuntimeAssumption
        DEF Go, Fail, GiveUp, CancelRun, CloseRest, WorkRest, runVars, httpVars, partVars, sharedVars,
            HandlersDone, AuthDone, SchedulerDone, Callbacks
<1>0. TypeOK /\ Phases(p) /\ Report(p) BY DEF IInv
<1>1. CASE SchedulerStops(p)
  <2>1. TypeOK' BY <1>0, <1>1 DEF SchedulerStops, TypeOK, Closing, Up
  <2>2. Phases(p)' BY <1>0, <1>1 DEF SchedulerStops, TypeOK, Phases, Closing, Up, Open
  <2>3. Report(p)' BY <1>0, <1>1 DEF SchedulerStops, TypeOK, Report, Closing, Phases
  <2>4. ASSUME NEW q \in Procs, q # p PROVE Phases(q)' /\ Report(q)'
    BY <1>0, <1>1, <2>4, OthersUntouched DEF SchedulerStops, TypeOK, IInv
  <2>5. QED BY <2>1, <2>2, <2>3, <2>4, PhasesSuffice
<1>2. CASE SchedulerEnds(p)
  <2>1. TypeOK' BY <1>0, <1>2 DEF SchedulerEnds, TypeOK, Closing, Up
  <2>2. Phases(p)' BY <1>0, <1>2 DEF SchedulerEnds, TypeOK, Phases, Closing, Up, Open
  <2>3. Report(p)' BY <1>0, <1>2 DEF SchedulerEnds, TypeOK, Report, Closing, Phases
  <2>4. ASSUME NEW q \in Procs, q # p PROVE Phases(q)' /\ Report(q)'
    BY <1>0, <1>2, <2>4, OthersUntouched DEF SchedulerEnds, TypeOK, IInv
  <2>5. QED BY <2>1, <2>2, <2>3, <2>4, PhasesSuffice
<1>3. CASE Crash(p)
  <2>1. TypeOK'
    <3>1. crashes' \in 0..MaxCrash BY <1>0, <1>3 DEF Crash, TypeOK
    <3>2. lock' \in Procs \cup {"none"} /\ store' \subseteq Procs /\ gateway' \subseteq Procs
      BY <1>0, <1>3 DEF Crash, TypeOK
    <3>3. at' \in [Procs -> {"off", "locking", "listening", "opening", "preparing",
                             "connecting", "ended"} \cup Up \cup Closing]
      BY <1>0, <1>3 DEF Crash, TypeOK
    <3>4. work' \in [Procs -> SUBSET Jobs] BY <1>0, <1>3 DEF Crash, TypeOK
    <3>5. QED BY <1>0, <1>3, <3>1, <3>2, <3>3, <3>4 DEF Crash, TypeOK
  <2>2. Phases(p)' BY <1>0, <1>3 DEF Crash, TypeOK, Phases, Closing, Up, Open
  <2>3. Report(p)' BY <1>0, <1>3 DEF Crash, TypeOK, Report, Closing, Phases
  <2>4. ASSUME NEW q \in Procs, q # p PROVE Phases(q)' /\ Report(q)'
    BY <1>0, <1>3, <2>4, OthersUntouched DEF Crash, TypeOK, IInv
  <2>5. QED BY <2>1, <2>2, <2>3, <2>4, PhasesSuffice
<1>4. QED BY <1>1, <1>2, <1>3

LEMMA JobInv ==
    ASSUME IInv, NEW p \in Procs, NEW job \in Jobs, Begin(p, job) \/ End(p, job)
    PROVE  IInv'
<1> USE DEF WorkRest, runVars, httpVars, sharedVars
<1>0. TypeOK /\ Phases(p) /\ Report(p) BY DEF IInv
<1>1. CASE Begin(p, job)
  <2>1. TypeOK' BY <1>0, <1>1 DEF Begin, TypeOK
  <2>2. Phases(p)'
    <3>1. CASE job = "pass"
      BY <1>0, <1>1, <3>1 DEF Begin, TypeOK, Phases, Callbacks
    <3>2. CASE job \in Callbacks
      BY <1>0, <1>1, <3>2 DEF Begin, TypeOK, Phases, Callbacks, Closing, Up, Open
    <3>3. CASE job = "login"
      BY <1>0, <1>1, <3>3 DEF Begin, TypeOK, Phases, Callbacks, Closing, Up, Open
    <3>4. QED BY <3>1, <3>2, <3>3 DEF Jobs, Callbacks
  <2>3. Report(p)' BY <1>0, <1>1 DEF Begin, Report
  <2>4. ASSUME NEW q \in Procs, q # p PROVE Phases(q)' /\ Report(q)'
    BY <1>0, <1>1, <2>4, OthersUntouched DEF Begin, TypeOK, IInv
  <2>5. QED BY <2>1, <2>2, <2>3, <2>4, PhasesSuffice
<1>2. CASE End(p, job)
  <2>1. TypeOK' BY <1>0, <1>2 DEF End, TypeOK
  <2>2. Phases(p)' BY <1>0, <1>2 DEF End, TypeOK, Phases
  <2>3. Report(p)' BY <1>0, <1>2 DEF End, Report
  <2>4. ASSUME NEW q \in Procs, q # p PROVE Phases(q)' /\ Report(q)'
    BY <1>0, <1>2, <2>4, OthersUntouched DEF End, TypeOK, IInv
  <2>5. QED BY <2>1, <2>2, <2>3, <2>4, PhasesSuffice
<1>3. QED BY <1>1, <1>2

-----------------------------------------------------------------------------
LEMMA NextInv == IInv /\ [Next]_vars => IInv'
<1> SUFFICES ASSUME IInv, [Next]_vars PROVE IInv' OBVIOUS
<1>1. CASE UNCHANGED vars
  BY <1>1 DEF vars, runVars, httpVars, partVars, sharedVars,
              IInv, TypeOK, WorkHasItsParts, PartsAreLocked, Phases, Report
<1>2. CASE Next
  <2>1. PICK p \in Procs :
          \/ Start(p) \/ Signal(p) \/ RunStep(p) \/ PartStep(p) \/ SchedulerStep(p)
          \/ ServeFails(p) \/ SchedulerFails(p) \/ Crash(p)
          \/ \E job \in Jobs : Begin(p, job) \/ End(p, job)
    BY <1>2 DEF Next
  <2>2. QED BY <2>1, UpInv, StopInv, ShutInv, CloseInv, WorkInv, JobInv
            DEF RunStep, PartStep, SchedulerStep
<1>3. QED BY <1>1, <1>2

\* Work under way has its store and its Discord session, and only the holder of the
\* instance lock has either, for any number of processes (Bot.Run, acquireInstanceLock).
THEOREM RuntimeInvariance == Spec => []IInv
BY InitInv, NextInv, PTL DEF Spec

\* Run returns without an error only after it was asked to stop and its HTTP server
\* served until it was shut down (Bot.Run's error paths).
THEOREM FailuresAreReported == Spec => []FailureReported
<1>1. IInv => FailureReported
  <2>1. ASSUME IInv, NEW p \in Procs, at[p] = "ended", ~failed[p]
        PROVE  asked[p] /\ serve[p] = "closed"
    BY <2>1 DEF IInv, Report
  <2>2. QED BY <2>1 DEF FailureReported
<1>2. QED BY <1>1, RuntimeInvariance, PTL

=============================================================================
