---------------------------- MODULE FrameStream ----------------------------
(***************************************************************************)
(* The frames and the input of one remote CAPTCHA: internal/authweb/       *)
(* captcha_remote_stream.go, the acknowledgements, the writer and the      *)
(* reader of captcha_remote_ws.go, and the viewer's script in              *)
(* captcha_remote_http.go.  One goroutine captures, one writes to the      *)
(* connection, one reads from it; connections follow one another, the      *)
(* stream stays.  A connection is lost at any time; a viewer reconnects.   *)
(*                                                                         *)
(* A frame is its generation (0: none).  Its picture, size and binding     *)
(* belong to the generation; a change of the surface under a frame is a    *)
(* nondeterministic answer of the guard.  The input rate limit is a        *)
(* nondeterministic refusal; the input fence is never contended, because   *)
(* the one reader dispatches and releases.  Ping and pong only end         *)
(* connections.                                                            *)
(*                                                                         *)
(* chromePressed is Chrome's own idea of the button (external).            *)
(***************************************************************************)
EXTENDS Integers, Sequences

CONSTANTS MaxGeneration,  \* bound: frames captured in one behaviour
          MaxConnections, \* bound: connections in one behaviour
          MaxInputs       \* bound: inputs of the viewer in one behaviour

ASSUME FrameStreamAssumption ==
    MaxGeneration \in Nat /\ MaxConnections \in Nat /\ MaxInputs \in Nat

VARIABLES
    capture,        \* runCapture, with queueFrame and finish
    nextGeneration, \* stream.nextGeneration, also the generation of lastOutput
    frames,         \* stream.frames, a channel of one frame
    terminal,       \* stream.terminal
    relayCause,     \* why relay.ctx is canceled: "completed", "ended", or "none"
    document,       \* Riot's challenge document is there (external)
    lastGeneration, \* stream.lastGeneration, the frame that input is bound to
    pointerPressed, \* stream.pointerPressed
    chromePressed,
    inputIgnored,   \* Input.setIgnoreInputEvents (external)
    pending,        \* acknowledgements: pending.Generation
    pendingSent,
    active,         \* acknowledgements: active.Generation, acknowledged
    writer, writing,         \* the writer and the frame it holds
    reader, input, result,   \* the reader, the input it dispatches and how that went
    violation,      \* what the protocol violation was, or "none"
    link, toViewer, toServer, \* the connection
    viewer,         \* the viewer's script
    connections, inputs \* how many there were

streamVars == <<capture, nextGeneration, frames, terminal, document>>
pointerVars == <<lastGeneration, pointerPressed, chromePressed, inputIgnored>>
ackVars    == <<pending, pendingSent, active>>
writerVars == <<writer, writing>>
readerVars == <<reader, input, result, violation>>
wireVars   == <<link, toViewer, toServer>>
countVars  == <<connections, inputs>>
vars == <<streamVars, pointerVars, ackVars, writerVars, readerVars, wireVars, viewer, relayCause, countVars>>

Phases == {"down", "move", "up"}
Message == [type : Phases \cup {"frameAck"}, generation : 0..MaxGeneration]
Announcement == {"metadata", "binary"} \X (0..MaxGeneration)
ViewerState == [latest : 0..MaxGeneration, decoding : 0..MaxGeneration, waiting : 0..MaxGeneration,
                displayed : 0..MaxGeneration, down : BOOLEAN]
NoInput == [type |-> "frameAck", generation |-> 0]
Blank == [latest |-> 0, decoding |-> 0, waiting |-> 0, displayed |-> 0, down |-> FALSE]

\* newRemoteCaptchaCaptureStream has armed the input curtain
Init ==
    /\ capture = "idle" /\ nextGeneration = 0 /\ frames = 0
    /\ terminal = "none" /\ document = TRUE /\ relayCause = "none"
    /\ lastGeneration = 0 /\ pointerPressed = FALSE /\ chromePressed = FALSE
    /\ inputIgnored = TRUE
    /\ pending = 0 /\ pendingSent = FALSE /\ active = 0
    /\ writer = "done" /\ writing = 0
    /\ reader = "ended" /\ input = NoInput /\ result = "ok" /\ violation = "none"
    /\ link = FALSE /\ toViewer = <<>> /\ toServer = <<>>
    /\ viewer = Blank
    /\ connections = 0 /\ inputs = 0

-----------------------------------------------------------------------------
streamDone     == capture = "done"
relayCanceled  == relayCause # "none"
\* the stream's own context: it ends with the relay, and finish cancels it
streamCanceled == relayCanceled \/ streamDone

\* How a call to Chrome may end.  "lost": lostChromeDevToolsSession; "teardown":
\* isExpectedRemoteCaptchaTeardown; "error": a timeout, a cancellation, anything else
CallOutcome == {"ok", "lost", "error"} \cup (IF document THEN {} ELSE {"teardown"})

-----------------------------------------------------------------------------
(* The capture goroutine.                                                  *)

CaptureRest == /\ UNCHANGED <<pointerVars, ackVars, writerVars, readerVars, wireVars>>
               /\ UNCHANGED <<viewer, relayCause, countVars, document>>

\* captureSanitizedFrame, newOutputFrame, and lastOutput in queueFrame; a surface
\* that changes during the capture yields no frame
Capture ==
    /\ capture = "idle" /\ ~relayCanceled
    /\ document /\ nextGeneration < MaxGeneration
    /\ nextGeneration' = nextGeneration + 1
    /\ capture' = "queueing"
    /\ UNCHANGED <<frames, terminal>>
    /\ CaptureRest

\* queueFrame: into an empty channel, or drop the frame that is there ...
Offer ==
    /\ capture = "queueing"
    /\ \/ frames = 0 /\ frames' = nextGeneration /\ capture' = "idle"
       \/ frames # 0 /\ frames' = 0 /\ capture' = "drained"
    /\ UNCHANGED <<nextGeneration, terminal>>
    /\ CaptureRest

\* ... and send the newest one, unless the stream is canceled
Replace ==
    /\ capture = "drained"
    /\ \/ frames' = nextGeneration /\ capture' = "idle" /\ UNCHANGED terminal
       \/ relayCanceled /\ terminal' = "canceled" /\ capture' = "finishing" /\ UNCHANGED frames
    /\ UNCHANGED nextGeneration
    /\ CaptureRest

\* runCapture leaves its loop and finish publishes why, before it cancels anything
CaptureEnds ==
    /\ capture = "idle"
    /\ \/ ~document /\ terminal' = "teardown"
       \/ relayCanceled /\ terminal' = "canceled"
       \/ terminal' = "error"
    /\ capture' = "finishing"
    /\ UNCHANGED <<nextGeneration, frames>>
    /\ CaptureRest

\* finish: cancel, close(frames), close(done)
CaptureFinish ==
    /\ capture = "finishing"
    /\ capture' = "done"
    /\ UNCHANGED <<nextGeneration, frames, terminal>>
    /\ CaptureRest

\* Riot replaces the challenge document
DocumentEnds ==
    /\ document
    /\ document' = FALSE
    /\ UNCHANGED <<capture, nextGeneration, frames, terminal, pointerVars, ackVars, writerVars>>
    /\ UNCHANGED <<readerVars, wireVars, viewer, relayCause, countVars>>

\* claimPasswordFinalization by the worker whose login is complete, or any other end
\* of the viewer, the login or the server, cancels relay.ctx
RelayCancel ==
    /\ ~relayCanceled
    /\ relayCause' \in {"completed", "ended"}
    /\ UNCHANGED <<streamVars, pointerVars, ackVars, writerVars, readerVars, wireVars, viewer, countVars>>

-----------------------------------------------------------------------------
(* The connection.                                                         *)

\* The viewer connects, again after a loss.  Timing assumption: the viewer waits
\* reconnectDelayMs, and the capture goroutine is not suspended inside queueFrame
\* for that second.
Connect ==
    /\ reader = "ended" /\ violation = "none" /\ ~relayCanceled
    /\ connections < MaxConnections
    /\ capture \notin {"queueing", "drained"}
    /\ connections' = connections + 1
    /\ pending' = 0 /\ pendingSent' = FALSE /\ active' = 0
    /\ writer' = "first" /\ writing' = 0
    /\ reader' = "read"
    /\ link' = TRUE /\ toViewer' = <<>> /\ toServer' = <<>>
    /\ viewer' = Blank
    /\ UNCHANGED <<streamVars, pointerVars, input, result, violation, relayCause, inputs>>

\* the network, a deadline, or the viewer's page is gone
Lose ==
    /\ link
    /\ link' = FALSE
    /\ UNCHANGED <<streamVars, pointerVars, ackVars, writerVars, readerVars, toViewer, toServer>>
    /\ UNCHANGED <<viewer, relayCause, countVars>>

-----------------------------------------------------------------------------
(* writeRemoteCaptchaWebSocketWithAcknowledgements.                        *)

WriterRest == /\ UNCHANGED <<capture, nextGeneration, terminal, document, pointerVars, active>>
              /\ UNCHANGED <<readerVars, toServer, viewer, relayCause, countVars>>

\* the receive from the channel, in either select
Receive ==
    \/ /\ frames # 0
       /\ writing' = frames /\ frames' = 0 /\ writer' = "publish"
    \/ /\ frames = 0 /\ streamDone
       /\ writer' = "closing"
       /\ UNCHANGED <<writing, frames>>

\* the first select: a frame, or else the last one again ...
WriterFirst ==
    /\ writer = "first"
    /\ \/ Receive
       \/ /\ frames = 0 /\ ~streamDone
          /\ writer' = "replay"
          /\ UNCHANGED <<writing, frames>>
    /\ UNCHANGED <<pending, pendingSent, link, toViewer>>
    /\ WriterRest

\* mutation: nothing is replayed
WriterReplayNone ==
    /\ writer = "replay"
    /\ writer' = "loop"
    /\ UNCHANGED <<writing, frames, pending, pendingSent, link, toViewer>>
    /\ WriterRest

\* ... ReplayFrame
WriterReplay ==
    /\ writer = "replay"
    /\ writing' = nextGeneration
    /\ writer' = IF nextGeneration = 0 THEN "loop" ELSE "publish"
    /\ UNCHANGED <<frames, pending, pendingSent, link, toViewer>>
    /\ WriterRest

\* mutation: the writer does not watch its context, nor the end of the frames
WriterLoopForever ==
    /\ writer = "loop"
    /\ frames # 0
    /\ Receive
    /\ UNCHANGED <<pending, pendingSent, link, toViewer>>
    /\ WriterRest

\* the loop; stopWriter cancels its context too
WriterLoop ==
    /\ writer = "loop"
    /\ \/ Receive
       \/ /\ relayCanceled \/ reader = "joining" \/ ~link
          /\ writer' = "closing"
          /\ UNCHANGED <<writing, frames>>
    /\ UNCHANGED <<pending, pendingSent, link, toViewer>>
    /\ WriterRest

\* exactPublishedDuplicate
Published == writing \in {pending, active}

\* writeRemoteCaptchaFrame up to the metadata: a frame that was published is skipped,
\* an older one is refused by prepareFrame, and the connection with it
Publish ==
    /\ writer = "publish"
    /\ \/ /\ Published
          /\ writer' = "loop"
          /\ UNCHANGED <<pending, pendingSent, toViewer>>
       \/ /\ ~Published /\ (writing < pending \/ writing < active)
          /\ writer' = "closing"
          /\ UNCHANGED <<pending, pendingSent, toViewer>>
       \/ /\ writing > pending /\ writing > active
          /\ pending' = writing
          /\ pendingSent' = FALSE
          /\ \/ link /\ toViewer' = Append(toViewer, <<"metadata", writing>>) /\ writer' = "binary"
             \/ ~link /\ writer' = "closing" /\ UNCHANGED toViewer
    /\ UNCHANGED <<writing, frames, link>>
    /\ WriterRest

\* writeBinaryFrame: the write and its record are one critical section
WriteBinary ==
    /\ writer = "binary"
    /\ \/ /\ link
          /\ toViewer' = Append(toViewer, <<"binary", writing>>)
          /\ pendingSent' = TRUE
          /\ writer' = "loop"
       \/ /\ ~link
          /\ writer' = "closing"
          /\ UNCHANGED <<pendingSent, toViewer>>
    /\ UNCHANGED <<writing, frames, pending, link>>
    /\ WriterRest

\* the writer has returned, and its goroutine closes the connection
WriterClose ==
    /\ writer = "closing"
    /\ writer' = "done"
    /\ link' = FALSE
    /\ UNCHANGED <<writing, frames, pending, pendingSent, toViewer>>
    /\ WriterRest

Writer == WriterFirst \/ WriterReplay \/ WriterLoop \/ Publish \/ WriteBinary \/ WriterClose

-----------------------------------------------------------------------------
(* The viewer's script, while its socket is open.                          *)

ViewerRest == /\ UNCHANGED <<streamVars, pointerVars, ackVars, writerVars, readerVars>>
              /\ UNCHANGED <<link, relayCause, connections>>

\* the message listener: a picture waits for the one being decoded
ViewerReceive ==
    /\ link /\ toViewer # <<>>
    /\ LET generation == Head(toViewer)[2]
       IN \/ /\ Head(toViewer)[1] = "metadata"
             /\ viewer' = [viewer EXCEPT !.latest = generation]
          \/ /\ Head(toViewer)[1] = "binary" /\ viewer.decoding = 0
             /\ viewer' = [viewer EXCEPT !.decoding = generation]
          \/ /\ Head(toViewer)[1] = "binary" /\ viewer.decoding # 0
             /\ viewer' = [viewer EXCEPT !.waiting = generation]
    /\ toViewer' = Tail(toViewer)
    /\ UNCHANGED <<toServer, inputs>>
    /\ ViewerRest

\* decodeFrame: the picture is shown and acknowledged if it is still the latest
ViewerDecoded ==
    /\ link /\ viewer.decoding # 0
    /\ LET done == [viewer EXCEPT !.decoding = viewer.waiting, !.waiting = 0]
       IN \/ /\ viewer.decoding = viewer.latest
             /\ viewer' = [done EXCEPT !.displayed = viewer.decoding]
             /\ toServer' = Append(toServer, [type |-> "frameAck", generation |-> viewer.decoding])
          \/ /\ viewer.decoding # viewer.latest
             /\ viewer' = done
             /\ UNCHANGED toServer
    /\ UNCHANGED <<toViewer, inputs>>
    /\ ViewerRest

\* the pointer listeners; a wheel is relayed like a move
ViewerInput(phase) ==
    /\ link /\ viewer.displayed # 0 /\ inputs < MaxInputs
    /\ phase = "up" => viewer.down
    /\ viewer' = IF phase = "move" THEN viewer ELSE [viewer EXCEPT !.down = phase = "down"]
    /\ toServer' = Append(toServer, [type |-> phase, generation |-> viewer.displayed])
    /\ inputs' = inputs + 1
    /\ UNCHANGED toViewer
    /\ ViewerRest

-----------------------------------------------------------------------------
(* serveRemoteCaptchaWebSocket reads.                                      *)

ReaderRest == /\ UNCHANGED <<streamVars, pending, pendingSent, writerVars, toViewer>>
              /\ UNCHANGED <<viewer, countVars>>
Go(pc) == reader' = pc /\ UNCHANGED <<input, result, violation>>

\* mutation: the frame becomes active, but input stays bound to the one before
AcknowledgeUnbound(generation) ==
    /\ active' = IF generation = pending /\ pendingSent THEN generation ELSE active
    /\ Go("read")
    /\ UNCHANGED lastGeneration

\* AcknowledgeFrame: input is bound to this frame from now on
Bind(generation) ==
    \/ /\ generation \in lastGeneration..nextGeneration
       /\ lastGeneration' = generation
       /\ Go("read")
    \/ /\ generation \notin lastGeneration..nextGeneration
       /\ violation' = "ack" /\ reader' = "release"
       /\ UNCHANGED <<lastGeneration, input, result>>

\* acknowledge: a late or repeated one is ignored, one of a frame that was never sent
\* is a violation
Acknowledge(generation) ==
    \/ /\ generation < pending \/ generation = active
       /\ Go("read")
       /\ UNCHANGED <<active, lastGeneration>>
    \/ /\ generation >= pending /\ generation # active
       /\ generation # pending \/ ~pendingSent
       /\ violation' = "ack" /\ reader' = "release"
       /\ UNCHANGED <<active, lastGeneration, input, result>>
    \/ /\ generation = pending /\ generation # active /\ pendingSent
       /\ active' = pending
       /\ Bind(generation)

\* DispatchInput returns r: a failure after the teardown was published is the
\* teardown (normalizeInputTerminal), an input that is refused or whose page session
\* is lost is dropped, and any other failure is a violation
Returns(r) ==
    /\ input' = NoInput /\ result' = "ok"
    /\ \/ /\ r = "ok" \/ (r = "lost" /\ terminal # "teardown")
          /\ reader' = "read" /\ UNCHANGED violation
       \/ /\ r = "teardown" \/ (r \in {"lost", "error"} /\ terminal = "teardown")
          /\ reader' = "release" /\ UNCHANGED violation
       \/ /\ r = "error" /\ terminal # "teardown"
          /\ reader' = "release" /\ violation' = "input"

\* DispatchInput up to the input fence
Admit(message) ==
    \/ streamCanceled /\ Returns("error")
    \/ ~streamCanceled /\ message.generation # lastGeneration /\ Returns("lost")
    \/ /\ ~streamCanceled /\ message.generation = lastGeneration
       /\ \/ message.type = "up" /\ ~pointerPressed /\ Returns("ok")
          \/ message.type # "up" /\ Returns("lost")
          \/ /\ message.type = "up" => pointerPressed
             /\ reader' = "arm" /\ input' = message
             /\ UNCHANGED <<result, violation>>

\* authorizeInput: an input for another frame than the acknowledged one is dropped
Accept(message) ==
    \/ (active = 0 \/ message.generation # active) /\ Go("read")
    \/ active # 0 /\ message.generation = active /\ Admit(message)

\* a message; what the connection had received is read even after it was closed
Read ==
    /\ reader = "read" /\ toServer # <<>>
    /\ toServer' = Tail(toServer)
    /\ \/ Head(toServer).type = "frameAck" /\ Acknowledge(Head(toServer).generation)
       \/ /\ Head(toServer).type \in Phases
          /\ Accept(Head(toServer))
          /\ UNCHANGED <<active, lastGeneration>>
    /\ UNCHANGED <<pointerPressed, chromePressed, inputIgnored, link, relayCause>>
    /\ ReaderRest

ReadFails ==
    /\ reader = "read" /\ ~link
    /\ Go("release")
    /\ UNCHANGED <<pointerVars, active, wireVars, relayCause>>
    /\ ReaderRest

-----------------------------------------------------------------------------
(* DispatchInput behind the input fence.                                   *)

DispatchRest == /\ UNCHANGED <<lastGeneration, active, link, toServer, relayCause>>
                /\ ReaderRest

\* setInputIgnored(true)
Arm ==
    /\ reader = "arm"
    /\ \E r \in CallOutcome :
          /\ r = "ok" => ~streamCanceled
          /\ IF r = "ok" THEN Go("check") ELSE Returns(r)
          /\ inputIgnored' = (inputIgnored \/ r = "ok")
    /\ UNCHANGED <<pointerPressed, chromePressed>>
    /\ DispatchRest

\* captureProvider and inputGuard: is the surface still the one in the frame?
Check ==
    /\ reader = "check"
    /\ \/ document /\ Go("open")
       \/ Returns("lost")
       \/ ~document /\ Returns("teardown")
    /\ UNCHANGED <<pointerPressed, chromePressed, inputIgnored>>
    /\ DispatchRest

\* setInputIgnored(false)
Open ==
    /\ reader = "open"
    /\ \E r \in CallOutcome :
          /\ IF r = "ok" THEN Go("dispatch") ELSE Returns(r)
          /\ \/ inputIgnored' = (inputIgnored /\ r # "ok")
             \/ r = "error" /\ inputIgnored' = FALSE
    /\ UNCHANGED <<pointerPressed, chromePressed>>
    /\ DispatchRest

Pressing(phase, before) == IF phase = "move" THEN before ELSE phase = "down"

\* Input.dispatchMouseEvent; a call that timed out may have reached Chrome
Dispatch ==
    /\ reader = "dispatch"
    /\ \E r \in CallOutcome :
          /\ result' = r
          /\ pointerPressed' = IF r = "ok" THEN Pressing(input.type, pointerPressed) ELSE pointerPressed
          /\ \/ r \in {"ok", "error"} /\ chromePressed' = Pressing(input.type, chromePressed)
             \/ r # "ok" /\ UNCHANGED chromePressed
    /\ reader' = "restore"
    /\ UNCHANGED <<input, violation, inputIgnored>>
    /\ DispatchRest

\* the deferred setInputIgnored(true), whose failure joins that of the dispatch
Restore ==
    /\ reader = "restore"
    /\ \E r \in CallOutcome :
          /\ Returns(IF "teardown" \in {r, result} THEN "teardown"
                     ELSE IF r \in {"ok", "lost"} THEN result
                     ELSE IF result = "lost" THEN "lost" ELSE "error")
          /\ inputIgnored' = (inputIgnored \/ r = "ok")
    /\ UNCHANGED <<pointerPressed, chromePressed>>
    /\ DispatchRest

-----------------------------------------------------------------------------
(* ReleasePointer, and the end of serveRemoteCaptchaWebSocket.             *)

\* an error is held against the viewer, unless the relay was canceled anyway
ReleaseFailed ==
    /\ reader' = "close"
    /\ violation' = IF relayCanceled THEN violation ELSE "release"
    /\ UNCHANGED <<input, result>>

\* mutation: the button is left as it is
ReleaseNothing ==
    /\ reader = "release"
    /\ Go("close")
    /\ UNCHANGED <<pointerPressed, chromePressed, inputIgnored>>
    /\ DispatchRest

\* nothing is pressed, or the document is gone; otherwise setInputIgnored(false)
Release ==
    /\ reader = "release"
    /\ \/ /\ ~pointerPressed \/ (streamDone /\ terminal = "teardown")
          /\ Go("close")
          /\ pointerPressed' = FALSE
          /\ UNCHANGED inputIgnored
       \/ /\ pointerPressed /\ ~(streamDone /\ terminal = "teardown")
          /\ \E r \in CallOutcome :
                \/ r = "ok" /\ Go("releasing") /\ inputIgnored' = FALSE /\ UNCHANGED pointerPressed
                \/ r = "teardown" /\ Go("close") /\ pointerPressed' = FALSE /\ UNCHANGED inputIgnored
                \/ /\ r \in {"lost", "error"} /\ ReleaseFailed
                   /\ UNCHANGED <<pointerPressed, inputIgnored>>
    /\ UNCHANGED chromePressed
    /\ DispatchRest

\* Input.dispatchMouseEvent, then the deferred setInputIgnored(true)
ReleaseDispatch ==
    /\ reader = "releasing"
    /\ \E sent, restored \in CallOutcome :
          /\ pointerPressed' = (pointerPressed /\ sent \notin {"ok", "teardown"})
          /\ chromePressed' = (chromePressed /\ sent # "ok")
          /\ inputIgnored' = (restored = "ok")
          /\ IF {sent, restored} \subseteq {"ok", "teardown"} THEN Go("close") ELSE ReleaseFailed
    /\ DispatchRest

\* stopWriter and connection.Close ...
CloseConnection ==
    /\ reader = "close"
    /\ Go("joining")
    /\ link' = FALSE
    /\ UNCHANGED <<pointerVars, active, toServer, relayCause>>
    /\ ReaderRest

\* ... <-writerDone; a violation ends the login, and with it the relay
JoinWriter ==
    /\ reader = "joining" /\ writer = "done"
    /\ Go("ended")
    /\ relayCause' = IF violation # "none" /\ ~relayCanceled THEN "ended" ELSE relayCause
    /\ UNCHANGED <<pointerVars, active, wireVars>>
    /\ ReaderRest

Reader == \/ Read \/ ReadFails \/ Arm \/ Check \/ Open \/ Dispatch \/ Restore
          \/ Release \/ ReleaseDispatch \/ CloseConnection \/ JoinWriter

-----------------------------------------------------------------------------
Next ==
    \/ Capture \/ Offer \/ Replace \/ CaptureEnds \/ CaptureFinish
    \/ DocumentEnds \/ RelayCancel \/ Connect \/ Lose
    \/ Writer \/ Reader
    \/ ViewerReceive \/ ViewerDecoded \/ \E phase \in Phases : ViewerInput(phase)

Spec == Init /\ [][Next]_vars

\* Goroutines run, calls to Chrome end within remoteCaptchaCommandTimeout, an open
\* connection delivers and the viewer's page decodes.  Nothing has to end or be lost,
\* no frame has to be captured, and the viewer need not touch anything.  A canceled
\* stream's capture does end.  One goroutine or page, one condition.
FairSpec ==
    /\ Spec
    /\ WF_vars(Offer \/ Replace \/ (relayCanceled /\ CaptureEnds) \/ CaptureFinish)
    /\ WF_vars(Writer) /\ WF_vars(Reader)
    /\ WF_vars(ViewerReceive \/ ViewerDecoded)

-----------------------------------------------------------------------------
(* Properties.                                                             *)

TypeOK ==
    /\ capture \in {"idle", "queueing", "drained", "finishing", "done"}
    /\ nextGeneration \in 0..MaxGeneration /\ frames \in 0..MaxGeneration
    /\ lastGeneration \in 0..MaxGeneration /\ writing \in 0..MaxGeneration
    /\ pending \in 0..MaxGeneration /\ active \in 0..MaxGeneration
    /\ terminal \in {"none", "teardown", "canceled", "error"}
    /\ relayCause \in {"none", "completed", "ended"}
    /\ document \in BOOLEAN /\ link \in BOOLEAN /\ pendingSent \in BOOLEAN
    /\ pointerPressed \in BOOLEAN /\ chromePressed \in BOOLEAN /\ inputIgnored \in BOOLEAN
    /\ writer \in {"first", "replay", "loop", "publish", "binary", "closing", "done"}
    /\ reader \in {"read", "arm", "check", "open", "dispatch", "restore",
                   "release", "releasing", "close", "joining", "ended"}
    /\ input \in Message
    /\ result \in {"ok", "lost", "error", "teardown"}
    /\ violation \in {"none", "ack", "input", "release"}
    /\ toViewer \in Seq(Announcement)
    /\ toServer \in Seq(Message)
    /\ viewer \in ViewerState
    /\ connections \in 0..MaxConnections
    /\ inputs \in 0..MaxInputs

\* a picture of this generation has been sent in full
Sent(generation) == generation < pending \/ (generation = pending /\ pendingSent)

\* The channel holds the newest frame or none while nothing is being queued; a new
\* connection therefore starts no further back than input is bound.
InvQueue ==
    /\ capture \notin {"queueing", "drained"} => frames \in {0, nextGeneration}
    /\ capture = "drained" => frames = 0
    /\ frames <= nextGeneration
    /\ writer = "first" /\ frames # 0 => frames >= lastGeneration
    /\ writer \in {"first", "replay"} => pending = 0
    /\ writer \in {"publish", "binary"} => writing \in 1..nextGeneration
    /\ writer \in {"publish", "binary"} /\ pending = 0 => writing >= lastGeneration
    /\ writer = "loop" /\ pending = 0 => lastGeneration = 0
    /\ lastGeneration <= nextGeneration

\* What was published and what was acknowledged, for the writer and the reader.
InvAcks ==
    /\ active <= pending /\ pending <= nextGeneration
    /\ pending # 0 => lastGeneration <= pending
    /\ active # 0 => active = lastGeneration /\ Sent(active)
    /\ writer = "binary" => writing = pending /\ ~pendingSent

\* What of it is under way to the viewer, at the viewer, and on the way back.
InvWire ==
    /\ \A i \in DOMAIN toViewer : /\ toViewer[i][2] <= pending
                                  /\ toViewer[i][1] = "binary" => Sent(toViewer[i][2])
    /\ viewer.latest <= pending
    /\ Sent(viewer.decoding) \/ viewer.decoding = 0
    /\ Sent(viewer.waiting) \/ viewer.waiting = 0
    /\ \A i \in DOMAIN toServer : toServer[i].type = "frameAck" => Sent(toServer[i].generation)

\* While the document is there, Chrome's button is down only if the stream knows it,
\* until a call fails and the login is given up; when the reader is through with
\* releasing, it is up.  An input in flight is bound to the acknowledged frame.
InvPointer ==
    /\ terminal = "teardown" => ~document
    /\ capture \in {"finishing", "done"} => terminal # "none"
    /\ document /\ chromePressed /\ violation = "none" =>
          \/ reader \notin {"close", "joining", "ended"} /\ pointerPressed
          \/ reader = "restore" /\ result = "error"
          \/ reader \in {"close", "joining", "ended"} /\ relayCanceled
    /\ reader = "restore" /\ result = "teardown" => ~document
    /\ reader \in {"arm", "check", "open", "dispatch", "restore"} =>
          input.type \in Phases /\ input.generation = lastGeneration

\* An acknowledgement by the viewer's own script is never a protocol violation, which
\* would give up the login, however late it is and whatever is written meanwhile.
\* captcha_remote_ws.go acknowledge, AcknowledgeFrame.
HonestAcksAccepted == violation # "ack"

\* Within a connection pictures are announced in the order they were captured, each
\* once, although they come from the channel and from the replay.
\* writeRemoteCaptchaFrame, prepareFrame, exactPublishedDuplicate.
FramesInOrder ==
    /\ \A i \in DOMAIN toViewer : toViewer[i][1] = "metadata" => viewer.latest < toViewer[i][2]
    /\ \A i, j \in DOMAIN toViewer :
          i < j /\ toViewer[i][1] = "metadata" /\ toViewer[j][1] = "metadata" => toViewer[i][2] < toViewer[j][2]

\* The type invariant, the invariants above and the two properties they serve: the
\* inductive invariant.
IInv == TypeOK /\ InvQueue /\ InvAcks /\ InvWire /\ InvPointer /\ HonestAcksAccepted /\ FramesInOrder

\* A connection that ends and leaves the login to a reconnecting viewer leaves no button
\* down in Chrome.  ReleasePointer, DispatchInput.
PointerReleased ==
    reader = "ended" /\ violation = "none" /\ ~relayCanceled /\ document => ~chromePressed

\* Once the challenge document's end is published, or the stream has ended for it, an
\* input in flight is no violation.  finish, normalizeInputTerminal.
TeardownSparesLogin ==
    [][violation' = "input" /\ violation # "input" /\ (streamDone \/ terminal = "teardown")
          => terminal \in {"canceled", "error"}]_vars

\* When the capture pauses, a viewer that stays connected sees the newest frame and may
\* act on it, unless its connection ends.  queueFrame, ReplayFrame, the writer, decodeFrame.
NewestCanBeActedOn ==
    [](nextGeneration = MaxGeneration /\ link => <>(active = MaxGeneration \/ ~link))

\* A connection does not outlive its relay or its stream, nor wait for its viewer.
\* The writer's loop, and serveRemoteCaptchaWebSocket after it.
ServingEnds == (relayCanceled \/ streamDone) ~> reader = "ended"

=============================================================================
