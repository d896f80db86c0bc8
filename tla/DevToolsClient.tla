--------------------------- MODULE DevToolsClient ---------------------------
(***************************************************************************)
(* The DevTools client of one Riot browser                                 *)
(* (internal/authweb/captcha_devtools_client.go): any number of calls      *)
(* share one writer goroutine, one reader goroutine and one private pipe   *)
(* to Chrome; a call whose page session is lost recovers it and is sent    *)
(* once more (recoverRiotPageSession in captcha_riot_browser.go).  The     *)
(* events Chrome sends are left out, as is the channel they are kept in.   *)
(*                                                                         *)
(* Every action is one critical section, one channel operation or one      *)
(* branch of a select.  A command is known by its call and the round it is *)
(* sent in: a call sends one command at a time and nextID is never used    *)
(* twice.                                                                  *)
(***************************************************************************)
EXTENDS Integers

CONSTANTS
    Callers,      \* calls of page commands
    Opener,       \* attachRiotPage, which RunRiotLogin calls before any of them
    MaxLost       \* bound: the times Chrome ends the sessions of the page

ASSUME DevToolsAssumption ==
    /\ Opener \notin Callers
    /\ "none" \notin Callers \cup {Opener}
    /\ MaxLost \in Nat

Calls == Callers \cup {Opener}

VARIABLES
    at,         \* where each call stands in send
    round,      \* the command it sends now
    canceled,   \* the calls whose context is canceled
    pending,    \* the calls whose command is registered in c.pending
    response,   \* the response channel of the command, of capacity one
    carried,    \* the session the command was sent in, 0 for none
    granted,    \* the session Chrome attached for it, 0 for none
    reported,   \* writeRequest.done, of capacity one
    recoverMu,  \* who holds recoverMu
    sessionID,  \* c.sessionID, 0 before the page is attached
    sessions,   \* the sessions Chrome has attached
    dead,       \* those it has ended: a page that goes takes all of them with it
    losses,     \* how often it has
    transport,  \* open, terminated and about to be closed, or closed
    writer,     \* writeLoop
    request,    \* the command it holds
    wire,       \* the commands Chrome has received and not answered
    reader      \* readLoop

callVars == <<at, round, recoverMu, sessionID>>
channelVars == <<response, carried, granted, reported>>
commandVars == <<pending, channelVars>>
chromeVars == <<sessions, dead, losses, wire>>
loopVars == <<writer, request, reader>>
vars == <<callVars, commandVars, canceled, chromeVars, loopVars, transport>>

Init ==
    /\ at = [c \in Calls |-> "idle"]
    /\ round = [c \in Calls |-> IF c = Opener THEN "discover" ELSE "first"]
    /\ canceled = {}
    /\ pending = {}
    /\ response = [c \in Calls |-> "none"]
    /\ carried = [c \in Calls |-> 0]
    /\ granted = [c \in Calls |-> 0]
    /\ reported = [c \in Calls |-> "none"]
    /\ recoverMu = "none"
    /\ sessionID = 0
    /\ sessions = 0
    /\ dead = 0
    /\ losses = 0
    /\ transport = "open"
    /\ writer = "idle"
    /\ request = "none"
    /\ wire = {}
    /\ reader = "reading"

-----------------------------------------------------------------------------
\* c.closed; terminate closes closedSignal with it and shutdownTransport follows
closed == transport # "open"

\* c.activeWrite
active == IF writer \in {"active", "reached"} THEN request ELSE "none"

-----------------------------------------------------------------------------
(* Call, attachRiotPage and recoverRiotPageSession: what follows when send *)
(* returns.                                                                *)

Continue(c, next) == /\ at' = [at EXCEPT ![c] = "sending"]
                     /\ round' = [round EXCEPT ![c] = next]

End(c) == at' = [at EXCEPT ![c] = "done"] /\ UNCHANGED round

Unlock(c) == recoverMu' = IF recoverMu = c THEN "none" ELSE recoverMu

\* attachRiotPage; a list without Riot's page is asked for again after a tick
OpenerReturn(c, outcome) ==
    /\ \/ /\ round[c] = "discover" /\ outcome \in {"found", "empty"}
          /\ Continue(c, IF outcome = "found" THEN "join" ELSE "discover")
          /\ UNCHANGED sessionID
       \/ /\ round[c] = "join" /\ outcome = "attached"
          /\ End(c)
          /\ sessionID' = granted[c]
       \/ /\ outcome \notin {"found", "empty", "attached"}
          /\ End(c)
          /\ UNCHANGED sessionID
    /\ UNCHANGED recoverMu

\* Call: one recovery and one more attempt; whatever goes wrong ends it
CallerReturn(c, outcome) ==
    \/ /\ round[c] = "first" /\ outcome = "lost"
       /\ at' = [at EXCEPT ![c] = "locking"]
       /\ UNCHANGED <<round, recoverMu, sessionID>>
    \/ /\ round[c] = "targets" /\ outcome = "found"
       /\ Continue(c, "attach")
       /\ UNCHANGED <<recoverMu, sessionID>>
    \/ /\ round[c] = "attach" /\ outcome = "attached"
       /\ Continue(c, "again")
       /\ sessionID' = granted[c]
       /\ Unlock(c)
    \/ /\ <<round[c], outcome>> \notin {<<"first", "lost">>, <<"targets", "found">>,
                                       <<"attach", "attached">>}
       /\ End(c)
       /\ Unlock(c)
       /\ UNCHANGED sessionID

\* the channels of a command go with it
Return(c, outcome) ==
    /\ IF c = Opener THEN OpenerReturn(c, outcome) ELSE CallerReturn(c, outcome)
    /\ response' = [response EXCEPT ![c] = "none"]
    /\ reported' = [reported EXCEPT ![c] = "none"]
    /\ carried' = [carried EXCEPT ![c] = 0]
    /\ granted' = [granted EXCEPT ![c] = 0]

Start(c) ==
    /\ at[c] = "idle"
    /\ c \in Callers => sessionID # 0
    /\ at' = [at EXCEPT ![c] = "sending"]
    /\ UNCHANGED <<round, recoverMu, sessionID, commandVars, canceled, chromeVars,
                   loopVars, transport>>

\* mutation: recoveries are not serialised
LockUnserialised(c) ==
    /\ at[c] = "locking"
    /\ Continue(c, "targets")
    /\ UNCHANGED <<recoverMu, sessionID, commandVars, canceled, chromeVars, loopVars, transport>>

\* recoverMu is taken; the wait for it does not look at the context
Lock(c) ==
    /\ at[c] = "locking"
    /\ recoverMu = "none"
    /\ recoverMu' = c
    /\ Continue(c, "targets")
    /\ UNCHANGED <<sessionID, commandVars, canceled, chromeVars, loopVars, transport>>

Cancel(c) ==
    /\ at[c] \notin {"idle", "done"}
    /\ canceled' = canceled \cup {c}
    /\ UNCHANGED <<callVars, commandVars, chromeVars, loopVars, transport>>

-----------------------------------------------------------------------------
(* terminate and shutdownTransport.                                        *)

Terminated ==
    /\ transport' = "closing"
    /\ pending' = {}
    /\ response' = [c \in Calls |-> IF c \in pending THEN "closed" ELSE response[c]]

\* a second termination finds the client closed
Terminate == \/ ~closed /\ Terminated
             \/ closed /\ UNCHANGED <<transport, pending, response>>

\* mutation: the transport is closed in turn with the writes
TransportClosesInTurn ==
    /\ transport = "closing"
    /\ active = "none"
    /\ transport' = "closed"
    /\ UNCHANGED <<callVars, commandVars, canceled, chromeVars, loopVars>>

TransportCloses ==
    /\ transport = "closing"
    /\ transport' = "closed"
    /\ UNCHANGED <<callVars, commandVars, canceled, chromeVars, loopVars>>

-----------------------------------------------------------------------------
(* send.                                                                   *)

Go(c, next) == /\ at' = [at EXCEPT ![c] = next]
               /\ UNCHANGED <<round, recoverMu, sessionID, channelVars>>

RemovePending(c) == pending' = pending \ {c}

SendRest == UNCHANGED <<canceled, chromeVars, loopVars, transport>>

Enter(c) ==
    /\ pending' = pending \cup {c}
    /\ carried' = [carried EXCEPT ![c] = IF round[c] \in {"first", "again"} THEN sessionID ELSE 0]
    /\ at' = [at EXCEPT ![c] = "queueing"]
    /\ UNCHANGED <<round, recoverMu, sessionID, response, granted, reported>>

\* a context that ends between the two looks ends the call at the queue
Register(c) ==
    /\ at[c] = "sending"
    /\ \/ c \in canceled /\ UNCHANGED pending /\ Return(c, "canceled")
       \/ closed /\ UNCHANGED pending /\ Return(c, "closed")
       \/ c \notin canceled /\ ~closed /\ Enter(c)
    /\ SendRest

\* writeQueue is unbuffered: the writer takes the request as it is offered
HandOver(c) ==
    /\ at[c] = "queueing"
    /\ writer = "idle"
    /\ writer' = "taken"
    /\ request' = c
    /\ Go(c, "writing")
    /\ UNCHANGED <<pending, canceled, chromeVars, reader, transport>>

NotQueued(c) ==
    /\ at[c] = "queueing"
    /\ \/ c \in canceled /\ RemovePending(c) /\ Return(c, "canceled")
       \/ closed /\ UNCHANGED pending /\ Return(c, "closed")
    /\ SendRest

\* the second select; the context is looked at before the outcome
Written(c) ==
    /\ at[c] = "writing"
    /\ reported[c] # "none"
    /\ \/ c \in canceled /\ RemovePending(c) /\ Return(c, "canceled")
       \/ c \notin canceled /\ reported[c] # "ok" /\ UNCHANGED pending /\ Return(c, "closed")
       \/ c \notin canceled /\ reported[c] = "ok" /\ UNCHANGED pending /\ Go(c, "waiting")
    /\ SendRest

NotWritten(c) ==
    /\ at[c] = "writing"
    /\ \/ c \in canceled /\ RemovePending(c) /\ Go(c, "aborting")
       \/ c \notin canceled /\ closed /\ UNCHANGED pending /\ Return(c, "closed")
    /\ SendRest

\* abortWrite; the timer of chromeDevToolsWriteCancelGrace may fire at any time (that it
\* may in a client closed before changes nothing: terminate acts once)
Abort(c) ==
    /\ at[c] = "aborting"
    /\ \/ (reported[c] # "none" \/ closed \/ active # c) /\ Return(c, "canceled")
       \/ active = c /\ ~closed /\ Go(c, "killing")
    /\ UNCHANGED pending
    /\ SendRest

AbortKills(c) ==
    /\ at[c] = "killing"
    /\ Terminate
    /\ at' = [at EXCEPT ![c] = "aborting"]
    /\ UNCHANGED <<round, recoverMu, sessionID, carried, granted, reported, canceled, chromeVars,
                   loopVars>>

\* the third select
Answered(c) ==
    /\ at[c] = "waiting"
    /\ response[c] # "none"
    /\ Return(c, IF c \in canceled THEN "canceled" ELSE response[c])
    /\ UNCHANGED pending
    /\ SendRest

\* whoever removed the command from the table has sent what the call drains
NotAnswered(c) ==
    /\ at[c] = "waiting"
    /\ \/ c \in canceled \cap pending /\ RemovePending(c) /\ Return(c, "canceled")
       \/ c \in canceled \ pending /\ UNCHANGED pending /\ Go(c, "draining")
       \/ closed /\ UNCHANGED pending /\ Return(c, "closed")
    /\ SendRest

Drain(c) ==
    /\ at[c] = "draining"
    /\ response[c] # "none"
    /\ Return(c, IF response[c] = "closed" THEN "closed" ELSE "canceled")
    /\ UNCHANGED pending
    /\ SendRest

-----------------------------------------------------------------------------
(* writeLoop.                                                              *)

\* a channel whose call is gone holds the report for nobody
Report(what) == reported' = IF at[request] \in {"writing", "aborting", "killing"}
                            THEN [reported EXCEPT ![request] = what] ELSE reported

Idle == writer' = "idle" /\ request' = "none"

Hold(next) == writer' = next /\ UNCHANGED <<request, reported>>

WriterRest == UNCHANGED <<callVars, pending, response, carried, granted, canceled, sessions, dead,
                          losses, reader, transport>>

WriterChecks ==
    /\ writer = "taken"
    /\ \/ request \in canceled /\ Idle /\ Report("canceled")
       \/ request \notin canceled /\ closed
          /\ writer' = "stopped" /\ Report("closed") /\ UNCHANGED request
       \/ request \notin canceled /\ ~closed /\ Hold("checked")
    /\ UNCHANGED wire
    /\ WriterRest

\* mutation: the context is not looked at again under writesMu
WriterActivatesUnchecked ==
    /\ writer = "checked"
    /\ Hold("active")
    /\ UNCHANGED wire
    /\ WriterRest

\* under writesMu, as abortWrite's look at activeWrite
WriterActivates ==
    /\ writer = "checked"
    /\ \/ request \in canceled /\ Idle /\ Report("canceled")
       \/ request \notin canceled /\ Hold("active")
    /\ UNCHANGED wire
    /\ WriterRest

\* Chrome may read the command before WriteJSON returns, or never
WriteReaches ==
    /\ writer = "active"
    /\ transport # "closed"
    /\ wire' = wire \cup {request}
    /\ Hold("reached")
    /\ WriterRest

WriteReturns ==
    /\ writer = "reached"
    /\ Hold("wrote")
    /\ UNCHANGED wire
    /\ WriterRest

WriterReports ==
    /\ writer = "wrote"
    /\ Idle
    /\ Report("ok")
    /\ UNCHANGED wire
    /\ WriterRest

\* WriteJSON fails, at the latest when the transport is closed under it
WriteFails ==
    /\ writer = "active"
    /\ Terminate
    /\ Report("closed")
    /\ writer' = "stopped"
    /\ UNCHANGED <<callVars, carried, granted, canceled, chromeVars, request, reader>>

WriterStops ==
    /\ writer = "idle"
    /\ closed
    /\ Hold("stopped")
    /\ UNCHANGED wire
    /\ WriterRest

-----------------------------------------------------------------------------
(* readLoop, and Chrome at the other end of the pipe.                      *)

\* what Chrome answers; a page command's own errors are answers like any other, and for
\* a recovery a list without Riot's page is one more error
Kinds(c) ==
    CASE round[c] \in {"first", "again"} -> IF carried[c] <= dead THEN {"lost"} ELSE {"ok"}
      [] round[c] = "discover" -> {"found", "empty", "error"}
      [] round[c] = "targets" -> {"found", "error"}
      [] OTHER -> {"attached", "error"}

\* an answer whose command was removed from the table is dropped
Deliver(c, kind) ==
    /\ response' = IF c \in pending THEN [response EXCEPT ![c] = kind] ELSE response
    /\ pending' = pending \ {c}

Answer(c) ==
    /\ reader = "reading"
    /\ transport # "closed"
    /\ c \in wire
    /\ wire' = wire \ {c}
    /\ \E kind \in Kinds(c) :
          /\ Deliver(c, kind)
          /\ sessions' = IF kind = "attached" THEN sessions + 1 ELSE sessions
          /\ granted' = [granted EXCEPT ![c] = IF kind = "attached" THEN sessions + 1 ELSE @]
    /\ UNCHANGED <<callVars, carried, reported, canceled, dead, losses, loopVars, transport>>

SessionEnds ==
    /\ dead # sessions
    /\ losses < MaxLost
    /\ dead' = sessions
    /\ losses' = losses + 1
    /\ UNCHANGED <<callVars, commandVars, canceled, sessions, wire, loopVars, transport>>

\* the pipe ends, a frame is damaged or too long, or the transport was closed
ReadFails ==
    /\ reader = "reading"
    /\ reader' = "stopped"
    /\ Terminate
    /\ UNCHANGED <<callVars, carried, granted, reported, canceled, chromeVars, writer, request>>

-----------------------------------------------------------------------------
(* Close.                                                                  *)

\* what Close waits for afterwards under its context is EverythingEnds
Close ==
    /\ ~closed
    /\ Terminate
    /\ UNCHANGED <<callVars, carried, granted, reported, canceled, chromeVars, loopVars>>

-----------------------------------------------------------------------------
\* the steps of a call that the client takes by itself
Step(c) == \/ Lock(c) \/ Register(c) \/ HandOver(c) \/ NotQueued(c)
           \/ Written(c) \/ NotWritten(c) \/ Abort(c) \/ AbortKills(c)
           \/ Answered(c) \/ NotAnswered(c) \/ Drain(c)

WriterStep == \/ WriterChecks \/ WriterActivates \/ WriteReturns \/ WriterReports \/ WriterStops

Chrome == \/ WriteReaches \/ SessionEnds
          \/ \E c \in Calls : Answer(c)

Next ==
    \/ \E c \in Calls : Start(c) \/ Cancel(c) \/ Step(c)
    \/ WriterStep \/ WriteFails \/ ReadFails \/ TransportCloses
    \/ Chrome
    \/ Close

Spec == Init /\ [][Next]_vars

\* each at most once: the transport is closed, and with it a read and a write fail
TransportDown == \/ TransportCloses
                 \/ transport = "closed" /\ (WriteFails \/ ReadFails)

\* Chrome owes nothing: it may stop reading, answering and sending.  A read or
\* a write fails only once the transport is closed.  Every call ends after finitely many
\* steps, so one condition on what the client can do is enough.
Fairness == WF_vars((\E c \in Calls : Step(c)) \/ WriterStep \/ TransportDown)

FairSpec == Spec /\ Fairness

-----------------------------------------------------------------------------
(* Properties.                                                             *)

TypeOK ==
    /\ at \in [Calls -> {"idle", "sending", "queueing", "writing", "aborting",
                         "killing", "waiting", "draining", "locking", "done"}]
    /\ round \in [Calls -> {"discover", "join", "first", "targets", "attach", "again"}]
    /\ canceled \subseteq Calls /\ pending \subseteq Calls /\ wire \subseteq Calls
    /\ response \in [Calls -> {"none", "ok", "error", "lost", "found", "empty", "attached",
                              "closed"}]
    /\ carried \in [Calls -> Nat] /\ granted \in [Calls -> Nat]
    /\ reported \in [Calls -> {"none", "ok", "canceled", "closed"}]
    /\ recoverMu \in Calls \cup {"none"}
    /\ sessions \in Nat /\ sessionID \in Nat /\ dead \in 0..sessions /\ losses \in 0..MaxLost
    /\ transport \in {"open", "closing", "closed"}
    /\ writer \in {"idle", "taken", "checked", "active", "reached", "wrote", "stopped"}
    /\ request \in Calls \cup {"none"}
    /\ reader \in {"reading", "stopped"}

\* The reader and terminate send on a response channel while they hold c.mu:
\* a channel whose command is still registered has room, so neither can block
\* every call of the client (readLoop, terminate, removePending).
SendersNeverBlock == \A c \in pending : response[c] = "none"

\* A call that was canceled but found its command already taken from the table
\* receives without looking at its context: what it waits for has been sent.
DrainsFull == \A c \in Calls : at[c] = "draining" => response[c] # "none"

\* After terminate nothing is registered that nobody would ever finish.
TerminatedClean == closed => pending = {}

\* A write that blocks is always watched: its call is still there to abort it,
\* or the client is closed and with it the pipe (abortWrite and the second
\* look writeLoop takes at the context under writesMu).
WritesAreWatched ==
    active # "none" => at[active] \in {"writing", "aborting", "killing"} \/ closed

\* recoverMu is held through the two commands of one recovery
RecoveryHoldsMu ==
    \A c \in Calls : recoverMu = c <=> /\ round[c] \in {"targets", "attach"}
                                       /\ at[c] # "done"

\* A command is in the table until it is answered, ended or given up by its call, and
\* a call between two commands has left nothing in its channels.
TableKnowsCalls ==
    \A c \in Calls :
        /\ at[c] \in {"queueing", "writing", "waiting"} => (c \in pending <=> response[c] = "none")
        /\ at[c] \notin {"queueing", "writing", "waiting"} => c \notin pending
        /\ at[c] \in {"idle", "sending", "locking", "done"} =>
              response[c] = "none" /\ reported[c] = "none"
        /\ at[c] = "queueing" => reported[c] = "none"

\* What a call is told of its context and of the client is so.
ReportsAreTrue ==
    \A c \in Calls : /\ reported[c] = "canceled" => c \in canceled
                     /\ "closed" \in {reported[c], response[c]} => closed
                     /\ at[c] \in {"aborting", "killing", "draining"} => c \in canceled

\* The writer's request belongs to a call that waits for its report, or that has ended
\* because it was canceled or the client closed.
RequestHasCall ==
    writer \in {"taken", "checked", "active", "reached", "wrote"} =>
        /\ request \in Calls
        /\ \/ at[request] \in {"writing", "aborting", "killing"} /\ reported[request] = "none"
           \/ at[request] = "done" /\ (closed \/ request \in canceled)

\* A call that goes on to its next command has none with Chrome: an answer is never taken
\* for that of another command.
OneCommandAtChrome ==
    \A c \in Calls :
        /\ c \in wire => /\ at[c] \notin {"idle", "sending", "queueing", "locking"}
                         /\ response[c] \in {"none", "closed"}
        /\ at[c] = "queueing" => response[c] \in {"none", "closed"}
        /\ request = c /\ writer \in {"taken", "checked", "active"} =>
              c \notin wire /\ response[c] \in {"none", "closed"}

\* attachRiotPage runs its own commands, before any call runs those of Call.
OpenerFirst ==
    /\ round[Opener] \in {"discover", "join"}
    /\ \A c \in Callers : round[c] \in {"first", "targets", "attach", "again"}
    /\ \A c \in Calls : at[c] = "locking" => round[c] = "first"
    /\ sessionID # 0 => at[Opener] = "done"
    /\ \A c \in Callers : at[c] # "idle" => sessionID # 0

\* A session a call was granted and has yet to store is not older than the one in use.
GrantsAreNew ==
    /\ sessionID <= sessions
    /\ \A c \in Calls : granted[c] <= sessions
    /\ \A c \in Calls : response[c] = "attached" =>
          round[c] \in {"join", "attach"} /\ granted[c] >= 1 /\ granted[c] >= sessionID

Inv == SendersNeverBlock /\ DrainsFull /\ TerminatedClean /\ WritesAreWatched /\ RecoveryHoldsMu

\* Inductive: what the tables, the writer, the wire and the sessions know of each call.
IInv == /\ TypeOK /\ Inv
        /\ TableKnowsCalls /\ ReportsAreTrue /\ RequestHasCall
        /\ OneCommandAtChrome /\ OpenerFirst /\ GrantsAreNew

Running == {c \in Calls : at[c] \notin {"idle", "done"}}
Ending == closed \/ (Running # {} /\ Running \subseteq canceled)
Ended == /\ Running = {}
         /\ closed => reader = "stopped" /\ writer = "stopped" /\ transport = "closed"

\* Recoveries that overlap never put back a session older than the one in use
\* (recoverMu in recoverRiotPageSession, setSessionID).
SessionNeverGoesBack == [][sessionID' >= sessionID]_vars

\* What ends is canceled or closed, and whatever Chrome does it comes to an end: when the
\* client is closed, or every call under way is canceled, all of them return (unless
\* another one is started), and of a closed client the reader, the writer and the pipe
\* are down, also if a write was blocked.  A call that waits for recoverMu is released
\* by the other recovery.
EverythingEnds == Ending ~> (~Ending \/ Ended)
=============================================================================
