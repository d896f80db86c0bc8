------------------------- MODULE FrameStreamProofs -------------------------
(***************************************************************************)
(* Proofs about the frames and the input of one remote CAPTCHA, for every  *)
(* number of frames, connections and inputs: IInv is inductive, and        *)
(* implies the safety properties of FrameStream.                           *)
(***************************************************************************)
EXTENDS FrameStream, TLAPS

-----------------------------------------------------------------------------
(* Sequences.                                                              *)

\* What is in a queue after a message was added.
LEMMA AppendElements ==
    ASSUME NEW S, NEW s \in Seq(S), NEW e \in S
    PROVE  /\ Append(s, e) \in Seq(S)
           /\ DOMAIN Append(s, e) = 1..Len(s) + 1
           /\ DOMAIN s = 1..Len(s)
           /\ Len(s) \in Nat
           /\ \A i \in 1..Len(s) : Append(s, e)[i] = s[i]
           /\ Append(s, e)[Len(s) + 1] = e
OBVIOUS

\* What is in a queue after a message was taken.
LEMMA TailElements ==
    ASSUME NEW S, NEW s \in Seq(S), s # <<>>
    PROVE  /\ Tail(s) \in Seq(S)
           /\ Len(s) \in Nat \ {0}
           /\ DOMAIN s = 1..Len(s)
           /\ DOMAIN Tail(s) = 1..Len(s) - 1
           /\ \A i \in 1..Len(s) - 1 : Tail(s)[i] = s[i + 1]
           /\ Head(s) = s[1]
           /\ Head(s) \in S
OBVIOUS

-----------------------------------------------------------------------------
(* What leaves the parts of the invariant alone.                           *)

\* Nothing is queued and nothing is taken.
LEMMA QueueUntouched ==
    ASSUME InvQueue,
           UNCHANGED <<capture, nextGeneration, frames, lastGeneration, pending, writer, writing>>
    PROVE  InvQueue'
BY DEF InvQueue

\* Nothing is published or acknowledged.
LEMMA AcksUntouched ==
    ASSUME InvAcks,
           UNCHANGED <<active, pending, pendingSent, lastGeneration, writer, writing, nextGeneration>>
    PROVE  InvAcks'
BY DEF InvAcks, Sent

\* Nothing is sent or received.
LEMMA WireUntouched ==
    ASSUME InvWire, UNCHANGED <<toViewer, toServer, viewer, pending, pendingSent>>
    PROVE  InvWire'
BY DEF InvWire, Sent

\* Nothing happens to the pointer, the reader or the stream's end.
LEMMA PointerUntouched ==
    ASSUME InvPointer,
           UNCHANGED <<capture, terminal, document, pointerPressed, chromePressed, lastGeneration>>,
           UNCHANGED <<reader, input, result, violation, relayCause>>
    PROVE  InvPointer'
BY DEF InvPointer, relayCanceled

\* Nothing is announced.
LEMMA OrderUntouched ==
    ASSUME FramesInOrder, UNCHANGED <<toViewer, viewer>>
    PROVE  FramesInOrder'
BY DEF FramesInOrder

-----------------------------------------------------------------------------
(* The invariant holds at first.                                           *)

\* The stream starts with nothing captured and nobody connected.
LEMMA InitInv == Init => IInv
<1> SUFFICES ASSUME Init PROVE IInv OBVIOUS
<1> USE FrameStreamAssumption DEF Init
<1>1. TypeOK
  <2>1. NoInput \in Message
    BY DEF Message, Phases, NoInput
  <2>2. Blank \in ViewerState
    BY DEF Blank, ViewerState
  <2>3. <<>> \in Seq(Message) /\ <<>> \in Seq(Announcement)
    OBVIOUS
  <2>4. 0 \in 0..MaxGeneration /\ 0 \in 0..MaxConnections /\ 0 \in 0..MaxInputs
    OBVIOUS
  <2>5. toViewer \in Seq(Announcement) /\ toServer \in Seq(Message) /\ viewer \in ViewerState /\ input \in Message
    BY <2>1, <2>2, <2>3
  <2>6. QED BY <2>4, <2>5 DEF TypeOK
<1>2. InvQueue BY DEF InvQueue
<1>3. InvAcks BY DEF InvAcks
<1>4. InvWire BY DEF InvWire, Sent, Blank
<1>5. InvPointer BY DEF InvPointer
<1>6. HonestAcksAccepted /\ FramesInOrder
  BY DEF HonestAcksAccepted, FramesInOrder
<1>7. QED BY <1>1, <1>2, <1>3, <1>4, <1>5, <1>6 DEF IInv

-----------------------------------------------------------------------------
(* The capture goroutine and what surrounds it.                            *)

\* What the capture, the document and the relay do not touch.
LEMMA CaptureLeaves ==
    ASSUME IInv,
           UNCHANGED <<pointerVars, ackVars, writerVars, readerVars, wireVars, viewer>>
    PROVE  InvWire' /\ HonestAcksAccepted' /\ FramesInOrder'
<1> USE DEF IInv, pointerVars, ackVars, writerVars, readerVars, wireVars
<1>1. InvWire' BY WireUntouched
<1>2. FramesInOrder' BY OrderUntouched
<1>3. HonestAcksAccepted' BY DEF HonestAcksAccepted
<1>4. QED BY <1>1, <1>2, <1>3

\* Capturing and queueing keep the invariant.
LEMMA CaptureInv ==
    ASSUME IInv, Capture \/ Offer \/ Replace \/ CaptureEnds \/ CaptureFinish
    PROVE  IInv'
<1> USE FrameStreamAssumption
<1>0. CaptureRest
  BY DEF Capture, Offer, Replace, CaptureEnds, CaptureFinish
<1> USE <1>0 DEF CaptureRest, pointerVars, ackVars, writerVars, readerVars, wireVars, countVars
<1>1. InvWire' /\ HonestAcksAccepted' /\ FramesInOrder'
  BY CaptureLeaves
<1>2. TypeOK'
  BY DEF IInv, TypeOK, Capture, Offer, Replace, CaptureEnds, CaptureFinish
<1>3. InvQueue'
  <2>1. CASE Capture BY <2>1 DEF IInv, TypeOK, InvQueue, Capture
  <2>2. CASE Offer BY <2>2 DEF IInv, TypeOK, InvQueue, InvAcks, Offer
  <2>3. CASE Replace BY <2>3 DEF IInv, TypeOK, InvQueue, Replace
  <2>4. CASE CaptureEnds \/ CaptureFinish
    BY <2>4 DEF IInv, InvQueue, CaptureEnds, CaptureFinish
  <2>5. QED BY <2>1, <2>2, <2>3, <2>4
<1>4. InvAcks'
  <2>1. CASE Capture BY <2>1 DEF IInv, TypeOK, InvAcks, Capture, Sent
  <2>2. CASE Offer \/ Replace \/ CaptureEnds \/ CaptureFinish
    BY <2>2, AcksUntouched DEF IInv, Offer, Replace, CaptureEnds, CaptureFinish
  <2>3. QED BY <2>1, <2>2
<1>5. InvPointer'
  BY DEF IInv, InvPointer, relayCanceled, Capture, Offer, Replace, CaptureEnds, CaptureFinish
<1>6. QED BY <1>1, <1>2, <1>3, <1>4, <1>5 DEF IInv

\* So do the end of the document, the end of the relay, and a lost connection.
LEMMA SurroundingsInv ==
    ASSUME IInv, DocumentEnds \/ RelayCancel \/ Lose
    PROVE  IInv'
<1>1. UNCHANGED <<capture, nextGeneration, frames, terminal, pointerVars, ackVars, writerVars>>
      /\ UNCHANGED <<readerVars, toViewer, toServer, viewer, countVars>>
  BY DEF DocumentEnds, RelayCancel, Lose, streamVars, wireVars
<1> USE <1>1 DEF pointerVars, ackVars, writerVars, readerVars, countVars
<1>2. TypeOK'
  <2>1. document' \in BOOLEAN /\ link' \in BOOLEAN /\ relayCause' \in {"none", "completed", "ended"}
    BY DEF IInv, TypeOK, DocumentEnds, RelayCancel, Lose, streamVars, wireVars
  <2>2. QED BY <2>1 DEF IInv, TypeOK
<1>3. InvQueue' BY QueueUntouched DEF IInv
<1>4. InvAcks' BY AcksUntouched DEF IInv
<1>5. InvWire' BY WireUntouched DEF IInv
<1>6. InvPointer'
  BY DEF IInv, InvPointer, relayCanceled, DocumentEnds, RelayCancel, Lose, streamVars
<1>7. HonestAcksAccepted' BY DEF IInv, HonestAcksAccepted
<1>8. FramesInOrder' BY OrderUntouched DEF IInv
<1>9. QED BY <1>2, <1>3, <1>4, <1>5, <1>6, <1>7, <1>8 DEF IInv

\* A new connection starts from nothing, and no further back than input is bound.
LEMMA ConnectInv ==
    ASSUME IInv, Connect
    PROVE  IInv'
<1> USE FrameStreamAssumption
<1>0. /\ UNCHANGED <<capture, nextGeneration, frames, terminal, document, lastGeneration, pointerPressed>>
      /\ UNCHANGED <<chromePressed, inputIgnored, input, result, violation, relayCause, inputs>>
      /\ pending' = 0 /\ pendingSent' = FALSE /\ active' = 0 /\ writer' = "first" /\ writing' = 0
      /\ reader' = "read" /\ link' = TRUE /\ toViewer' = <<>> /\ toServer' = <<>> /\ viewer' = Blank
  BY DEF Connect, streamVars, pointerVars
<1>1. TypeOK'
  <2>1. Blank \in ViewerState
    BY DEF Blank, ViewerState
  <2>2. <<>> \in Seq(Message) /\ <<>> \in Seq(Announcement)
    OBVIOUS
  <2>3. connections' \in 0..MaxConnections
    BY DEF IInv, TypeOK, Connect
  <2>4. toViewer' \in Seq(Announcement) /\ toServer' \in Seq(Message) /\ viewer' \in ViewerState
    BY <1>0, <2>1, <2>2
  <2>5. /\ pending' \in 0..MaxGeneration /\ active' \in 0..MaxGeneration /\ writing' \in 0..MaxGeneration
        /\ link' \in BOOLEAN /\ pendingSent' \in BOOLEAN
        /\ writer' \in {"first", "replay", "loop", "publish", "binary", "closing", "done"}
        /\ reader' \in {"read", "arm", "check", "open", "dispatch", "restore",
                        "release", "releasing", "close", "joining", "ended"}
    <3>1. 0 \in 0..MaxGeneration
      OBVIOUS
    <3>2. link' \in BOOLEAN /\ pendingSent' \in BOOLEAN
      BY <1>0
    <3>3. QED BY <1>0, <3>1, <3>2
  <2>6. /\ UNCHANGED <<capture, nextGeneration, frames, terminal, document, lastGeneration, pointerPressed>>
        /\ UNCHANGED <<chromePressed, inputIgnored, input, result, violation, relayCause, inputs>>
    BY <1>0
  <2>7. QED BY <2>3, <2>4, <2>5, <2>6 DEF IInv, TypeOK
<1>2. InvQueue' BY <1>0 DEF IInv, TypeOK, InvQueue, Connect
<1>3. InvAcks' BY <1>0 DEF IInv, TypeOK, InvAcks
<1>4. InvWire' BY <1>0 DEF InvWire, Sent, Blank
<1>5. InvPointer' BY <1>0 DEF IInv, InvPointer, relayCanceled, Connect
<1>6. HonestAcksAccepted' BY <1>0 DEF IInv, HonestAcksAccepted
<1>7. FramesInOrder' BY <1>0 DEF FramesInOrder
<1>8. QED BY <1>1, <1>2, <1>3, <1>4, <1>5, <1>6, <1>7 DEF IInv

-----------------------------------------------------------------------------
(* The writer.                                                             *)

\* What the writer does not touch.
LEMMA WriterLeaves ==
    ASSUME IInv, WriterRest
    PROVE  InvPointer' /\ HonestAcksAccepted'
<1> USE DEF IInv, WriterRest, pointerVars, readerVars
<1>1. InvPointer' BY PointerUntouched
<1>2. HonestAcksAccepted' BY DEF HonestAcksAccepted
<1>3. QED BY <1>1, <1>2

\* Taking a frame to publish, or deciding to stop, publishes nothing yet.
LEMMA WriterTakeInv ==
    ASSUME IInv, WriterFirst \/ WriterReplay \/ WriterLoop \/ WriterClose
    PROVE  IInv'
<1>0. WriterRest /\ UNCHANGED <<pending, pendingSent, toViewer>>
  BY DEF WriterFirst, WriterReplay, WriterLoop, WriterClose
<1>1. InvPointer' /\ HonestAcksAccepted'
  BY <1>0, WriterLeaves
<1> USE <1>0 DEF WriterRest, pointerVars, readerVars, countVars
<1>2. TypeOK'
  <2>1. /\ frames' \in 0..MaxGeneration /\ writing' \in 0..MaxGeneration /\ link' \in BOOLEAN
        /\ writer' \in {"first", "replay", "loop", "publish", "binary", "closing", "done"}
    <3>0. /\ frames \in 0..MaxGeneration /\ writing \in 0..MaxGeneration /\ link \in BOOLEAN
          /\ nextGeneration \in 0..MaxGeneration /\ 0 \in 0..MaxGeneration
      BY FrameStreamAssumption DEF IInv, TypeOK
    <3>1. CASE WriterFirst BY <3>0, <3>1 DEF WriterFirst, Receive
    <3>2. CASE WriterReplay BY <3>0, <3>2 DEF WriterReplay
    <3>3. CASE WriterLoop BY <3>0, <3>3 DEF WriterLoop, Receive
    <3>4. CASE WriterClose BY <3>0, <3>4 DEF WriterClose
    <3>5. QED BY <3>1, <3>2, <3>3, <3>4
  <2>2. QED BY <2>1 DEF IInv, TypeOK
<1>3. InvQueue'
  <2>1. CASE WriterFirst BY <2>1 DEF IInv, TypeOK, InvQueue, WriterFirst, Receive, streamDone
  <2>2. CASE WriterReplay BY <2>2 DEF IInv, TypeOK, InvQueue, WriterReplay
  <2>3. CASE WriterLoop BY <2>3 DEF IInv, TypeOK, InvQueue, WriterLoop, Receive
  <2>4. CASE WriterClose BY <2>4 DEF IInv, InvQueue, WriterClose
  <2>5. QED BY <2>1, <2>2, <2>3, <2>4
<1>4. InvAcks'
  BY DEF IInv, InvAcks, Sent, WriterFirst, WriterReplay, WriterLoop, WriterClose, Receive
<1>5. InvWire' BY WireUntouched DEF IInv
<1>6. FramesInOrder' BY OrderUntouched DEF IInv
<1>7. QED BY <1>1, <1>2, <1>3, <1>4, <1>5, <1>6 DEF IInv

\* What is under way, and what the viewer holds.
LEMMA WireTypes ==
    ASSUME IInv
    PROVE  /\ \A i \in DOMAIN toViewer : toViewer[i][2] \in 0..MaxGeneration
           /\ \A i \in DOMAIN toServer : toServer[i] \in Message
           /\ viewer.latest \in 0..MaxGeneration /\ viewer.decoding \in 0..MaxGeneration
           /\ viewer.waiting \in 0..MaxGeneration /\ viewer.displayed \in 0..MaxGeneration
           /\ pending \in 0..MaxGeneration
<1>1. toViewer \in Seq(Announcement) /\ toServer \in Seq(Message)
  BY DEF IInv, TypeOK
<1>2. \A i \in DOMAIN toViewer : toViewer[i][2] \in 0..MaxGeneration
  <2>1. \A i \in DOMAIN toViewer : toViewer[i] \in Announcement
    BY <1>1
  <2>2. QED BY <2>1 DEF Announcement
<1>3. \A i \in DOMAIN toServer : toServer[i] \in Message
  BY <1>1
<1>4. /\ viewer.latest \in 0..MaxGeneration /\ viewer.decoding \in 0..MaxGeneration
      /\ viewer.waiting \in 0..MaxGeneration /\ viewer.displayed \in 0..MaxGeneration
      /\ pending \in 0..MaxGeneration
  BY DEF IInv, TypeOK, ViewerState
<1>5. QED BY <1>2, <1>3, <1>4

\* Something newer than all that was sent is added to what is under way.
LEMMA AnnounceWire ==
    ASSUME IInv, NEW kind \in {"metadata", "binary"}, NEW generation \in 0..MaxGeneration,
           toViewer' = Append(toViewer, <<kind, generation>>)
    PROVE  /\ toViewer' \in Seq(Announcement)
           /\ DOMAIN toViewer' = 1..Len(toViewer) + 1
           /\ DOMAIN toViewer = 1..Len(toViewer)
           /\ Len(toViewer) \in Nat
           /\ \A i \in 1..Len(toViewer) : toViewer'[i] = toViewer[i] /\ toViewer[i][2] \in Nat
           /\ toViewer'[Len(toViewer) + 1][1] = kind
           /\ toViewer'[Len(toViewer) + 1][2] = generation
<1>1. toViewer \in Seq(Announcement) /\ <<kind, generation>> \in Announcement
  BY DEF IInv, TypeOK, Announcement
<1>2. \A i \in 1..Len(toViewer) : toViewer[i] \in Announcement
  BY <1>1
<1>3. \A i \in 1..Len(toViewer) : toViewer[i][2] \in Nat
  BY <1>2, FrameStreamAssumption DEF Announcement
<1>4. QED
  BY <1>1, <1>3, AppendElements

\* What was sent stays sent while more is; what is added to it is sent, too.
LEMMA WireGrows ==
    ASSUME IInv, pending' \in 0..MaxGeneration, pending <= pending',
           \A g \in 0..MaxGeneration : Sent(g) => Sent(g)',
           UNCHANGED <<toServer, viewer>>,
           \A i \in DOMAIN toViewer' :
              \/ i \in DOMAIN toViewer /\ toViewer'[i] = toViewer[i]
              \/ /\ toViewer'[i][2] = pending'
                 /\ toViewer'[i][1] = "binary" => pendingSent'
    PROVE  InvWire'
<1> USE FrameStreamAssumption
<1>1. \A i \in DOMAIN toViewer : toViewer[i][2] \in 0..MaxGeneration
  BY WireTypes
<1>2. \A i \in DOMAIN toServer : toServer[i].generation \in 0..MaxGeneration
  BY WireTypes DEF Message
<1>3. /\ viewer.latest \in 0..MaxGeneration /\ viewer.decoding \in 0..MaxGeneration
      /\ viewer.waiting \in 0..MaxGeneration /\ pending \in 0..MaxGeneration
  BY WireTypes
<1>4. ASSUME NEW i \in DOMAIN toViewer'
      PROVE  /\ toViewer'[i][2] <= pending'
             /\ toViewer'[i][1] = "binary" => Sent(toViewer[i][2])'
  <2>1. CASE i \in DOMAIN toViewer /\ toViewer'[i] = toViewer[i]
    <3>1. toViewer[i][2] <= pending /\ (toViewer[i][1] = "binary" => Sent(toViewer[i][2]))
      BY <2>1 DEF IInv, InvWire
    <3>2. QED BY <1>1, <1>3, <2>1, <3>1 DEF Sent
  <2>2. CASE toViewer'[i][2] = pending' /\ (toViewer'[i][1] = "binary" => pendingSent')
    BY <2>2, <1>3 DEF Sent
  <2>3. QED BY <2>1, <2>2
<1>5. viewer'.latest <= pending' /\ (Sent(viewer.decoding)' \/ viewer'.decoding = 0)
      /\ (Sent(viewer.waiting)' \/ viewer'.waiting = 0)
  BY <1>3 DEF IInv, InvWire, Sent
<1>6. ASSUME NEW i \in DOMAIN toServer', toServer'[i].type = "frameAck"
      PROVE  Sent(toServer[i].generation)'
  BY <1>2, <1>6 DEF IInv, InvWire, Sent
<1>7. QED BY <1>4, <1>5, <1>6 DEF InvWire

\* Publishing a frame: only one that is newer than what was published.
LEMMA PublishInv ==
    ASSUME IInv, Publish
    PROVE  IInv'
<1> USE FrameStreamAssumption
<1>0. WriterRest /\ UNCHANGED <<writing, frames, link>>
  BY DEF Publish
<1>1. InvPointer' /\ HonestAcksAccepted'
  BY <1>0, WriterLeaves
<1>2. InvQueue'
  BY <1>0 DEF IInv, TypeOK, InvQueue, InvAcks, Publish, Published, WriterRest, pointerVars
<1>3. InvAcks'
  BY <1>0 DEF IInv, TypeOK, InvAcks, InvQueue, Sent, Publish, Published, WriterRest, pointerVars
<1>4. /\ pending' \in 0..MaxGeneration /\ pending <= pending' /\ pendingSent' \in BOOLEAN
      /\ \A g \in 0..MaxGeneration : Sent(g) => Sent(g)'
      /\ writer' \in {"first", "replay", "loop", "publish", "binary", "closing", "done"}
  <2>1. /\ pending' \in 0..MaxGeneration /\ pending \in 0..MaxGeneration
        /\ pendingSent \in BOOLEAN /\ pendingSent' \in BOOLEAN
    BY DEF IInv, TypeOK, Publish
  <2>2. pending < pending' \/ (pending = pending' /\ (pendingSent => pendingSent'))
    BY <2>1 DEF Publish
  <2>3. \A g \in 0..MaxGeneration : Sent(g) => Sent(g)'
    BY <2>1, <2>2 DEF Sent
  <2>4. writer' \in {"first", "replay", "loop", "publish", "binary", "closing", "done"}
    BY DEF Publish
  <2>5. QED BY <2>1, <2>2, <2>3, <2>4
<1>5. CASE UNCHANGED toViewer
  <2>1. TypeOK'
    BY <1>0, <1>4, <1>5 DEF IInv, TypeOK, WriterRest, pointerVars, readerVars, countVars
  <2>2. InvWire'
    BY <1>0, <1>4, <1>5, WireGrows DEF WriterRest
  <2>3. FramesInOrder'
    BY <1>0, <1>5, OrderUntouched DEF IInv, WriterRest
  <2>4. QED BY <1>1, <1>2, <1>3, <2>1, <2>2, <2>3 DEF IInv
<1>6. CASE toViewer' = Append(toViewer, <<"metadata", writing>>) /\ pending' = writing /\ writing > pending
  <2>0. writing \in 0..MaxGeneration /\ pending \in 0..MaxGeneration
    BY DEF IInv, TypeOK
  <2>1. /\ toViewer' \in Seq(Announcement)
        /\ DOMAIN toViewer' = 1..Len(toViewer) + 1
        /\ DOMAIN toViewer = 1..Len(toViewer)
        /\ Len(toViewer) \in Nat
        /\ \A i \in 1..Len(toViewer) : toViewer'[i] = toViewer[i] /\ toViewer[i][2] \in Nat
        /\ toViewer'[Len(toViewer) + 1][1] = "metadata"
        /\ toViewer'[Len(toViewer) + 1][2] = writing
    BY <1>6, <2>0, AnnounceWire
  <2>2. TypeOK'
    BY <1>0, <1>4, <2>1 DEF IInv, TypeOK, WriterRest, pointerVars, readerVars, countVars
  <2>3. \A i \in DOMAIN toViewer' : i \in DOMAIN toViewer \/ i = Len(toViewer) + 1
    BY <2>1
  <2>4. InvWire'
    BY <1>0, <1>4, <1>6, <2>1, <2>3, WireGrows DEF WriterRest
  <2>5. ASSUME NEW i \in DOMAIN toViewer PROVE toViewer[i][2] < writing
    <3>1. toViewer[i][2] <= pending
      BY DEF IInv, InvWire
    <3>2. QED BY <1>6, <2>0, <2>1, <3>1
  <2>6. viewer.latest < writing /\ viewer' = viewer
    BY <1>0, <1>6, <2>0 DEF IInv, TypeOK, ViewerState, InvWire, WriterRest
  <2>7. FramesInOrder'
    BY <2>1, <2>3, <2>5, <2>6 DEF IInv, FramesInOrder
  <2>8. QED BY <1>1, <1>2, <1>3, <2>2, <2>4, <2>7 DEF IInv
<1>7. QED BY <1>5, <1>6 DEF Publish

\* Sending the picture of the frame that was announced.
LEMMA WriteBinaryInv ==
    ASSUME IInv, WriteBinary
    PROVE  IInv'
<1> USE FrameStreamAssumption
<1>0. WriterRest /\ UNCHANGED <<writing, frames, pending, link>> /\ writing = pending
  BY DEF WriteBinary, IInv, InvAcks
<1>1. InvPointer' /\ HonestAcksAccepted'
  BY <1>0, WriterLeaves
<1>2. InvQueue'
  BY <1>0 DEF IInv, TypeOK, InvQueue, WriteBinary, WriterRest, pointerVars
<1>3. InvAcks'
  BY <1>0 DEF IInv, TypeOK, InvAcks, Sent, WriteBinary, WriterRest, pointerVars
<1>4. /\ pending' \in 0..MaxGeneration /\ pending <= pending' /\ pendingSent' \in BOOLEAN
      /\ \A g \in 0..MaxGeneration : Sent(g) => Sent(g)'
      /\ writer' \in {"first", "replay", "loop", "publish", "binary", "closing", "done"}
  <2>1. /\ pending' \in 0..MaxGeneration /\ pending \in 0..MaxGeneration
        /\ pendingSent \in BOOLEAN /\ pendingSent' \in BOOLEAN
    BY <1>0 DEF IInv, TypeOK, WriteBinary
  <2>2. pending < pending' \/ (pending = pending' /\ (pendingSent => pendingSent'))
    BY <1>0, <2>1 DEF WriteBinary
  <2>3. \A g \in 0..MaxGeneration : Sent(g) => Sent(g)'
    BY <2>1, <2>2 DEF Sent
  <2>4. writer' \in {"first", "replay", "loop", "publish", "binary", "closing", "done"}
    BY DEF WriteBinary
  <2>5. QED BY <2>1, <2>2, <2>3, <2>4
<1>5. CASE UNCHANGED toViewer
  <2>1. TypeOK'
    BY <1>0, <1>4, <1>5 DEF IInv, TypeOK, WriterRest, pointerVars, readerVars, countVars
  <2>2. InvWire'
    BY <1>0, <1>4, <1>5, WireGrows DEF WriterRest
  <2>3. FramesInOrder'
    BY <1>0, <1>5, OrderUntouched DEF IInv, WriterRest
  <2>4. QED BY <1>1, <1>2, <1>3, <2>1, <2>2, <2>3 DEF IInv
<1>6. CASE toViewer' = Append(toViewer, <<"binary", writing>>) /\ pendingSent'
  <2>0. writing \in 0..MaxGeneration
    BY DEF IInv, TypeOK
  <2>1. /\ toViewer' \in Seq(Announcement)
        /\ DOMAIN toViewer' = 1..Len(toViewer) + 1
        /\ DOMAIN toViewer = 1..Len(toViewer)
        /\ Len(toViewer) \in Nat
        /\ \A i \in 1..Len(toViewer) : toViewer'[i] = toViewer[i] /\ toViewer[i][2] \in Nat
        /\ toViewer'[Len(toViewer) + 1][1] = "binary"
        /\ toViewer'[Len(toViewer) + 1][2] = writing
    BY <1>6, <2>0, AnnounceWire
  <2>2. TypeOK'
    BY <1>0, <1>4, <2>1 DEF IInv, TypeOK, WriterRest, pointerVars, readerVars, countVars
  <2>3. \A i \in DOMAIN toViewer' : i \in DOMAIN toViewer \/ i = Len(toViewer) + 1
    BY <2>1
  <2>4. InvWire'
    BY <1>0, <1>4, <1>6, <2>1, <2>3, WireGrows DEF WriterRest
  <2>5. viewer' = viewer
    BY <1>0 DEF WriterRest
  <2>6. FramesInOrder'
    BY <2>1, <2>3, <2>5 DEF IInv, FramesInOrder
  <2>7. QED BY <1>1, <1>2, <1>3, <2>2, <2>4, <2>6 DEF IInv
<1>7. QED BY <1>5, <1>6 DEF WriteBinary

-----------------------------------------------------------------------------
(* The viewer.                                                             *)

\* What the viewer does not touch.
LEMMA ViewerLeaves ==
    ASSUME IInv, ViewerRest
    PROVE  InvQueue' /\ InvAcks' /\ InvPointer' /\ HonestAcksAccepted'
<1> USE DEF IInv, ViewerRest, streamVars, pointerVars, ackVars, writerVars, readerVars
<1>1. InvQueue' BY QueueUntouched
<1>2. InvAcks' BY AcksUntouched
<1>3. InvPointer' BY PointerUntouched
<1>4. HonestAcksAccepted' BY DEF HonestAcksAccepted
<1>5. QED BY <1>1, <1>2, <1>3, <1>4

\* Nor does it touch any type but those of what it sends, takes and holds.
LEMMA ViewerTypes ==
    ASSUME IInv, ViewerRest, toViewer' \in Seq(Announcement), toServer' \in Seq(Message),
           viewer' \in ViewerState, inputs' \in 0..MaxInputs
    PROVE  TypeOK'
BY DEF IInv, TypeOK, ViewerRest, streamVars, pointerVars, ackVars, writerVars, readerVars

\* A message of the viewer, an acknowledgement only of what was sent.
LEMMA SendWire ==
    ASSUME IInv, NEW m \in Message, toServer' = Append(toServer, m),
           UNCHANGED <<pending, pendingSent>>, m.type = "frameAck" => Sent(m.generation)
    PROVE  /\ toServer' \in Seq(Message)
           /\ \A i \in DOMAIN toServer' :
                 toServer'[i].type = "frameAck" => Sent(toServer[i].generation)'
<1>1. toServer \in Seq(Message)
  BY DEF IInv, TypeOK
<1>2. /\ toServer' \in Seq(Message)
      /\ DOMAIN toServer' = 1..Len(toServer) + 1
      /\ DOMAIN toServer = 1..Len(toServer)
      /\ Len(toServer) \in Nat
      /\ \A i \in 1..Len(toServer) : toServer'[i] = toServer[i]
      /\ toServer'[Len(toServer) + 1] = m
  BY <1>1, AppendElements
<1>3. \A i \in DOMAIN toServer : toServer[i].type = "frameAck" => Sent(toServer[i].generation)
  BY DEF IInv, InvWire
<1>4. ASSUME NEW i \in DOMAIN toServer', toServer'[i].type = "frameAck"
      PROVE  Sent(toServer[i].generation)'
  <2>1. i \in DOMAIN toServer \/ i = Len(toServer) + 1
    BY <1>2
  <2>2. CASE i \in DOMAIN toServer BY <1>2, <1>3, <1>4, <2>2 DEF Sent
  <2>3. CASE i = Len(toServer) + 1 BY <1>2, <1>4, <2>3 DEF Sent
  <2>4. QED BY <2>1, <2>2, <2>3
<1>5. QED BY <1>2, <1>4

\* A picture that arrives was sent; what is announced next is newer.
LEMMA ViewerReceiveInv ==
    ASSUME IInv, ViewerReceive
    PROVE  IInv'
<1> USE FrameStreamAssumption
<1>0. ViewerRest /\ UNCHANGED <<toServer, inputs, pending, pendingSent>> /\ toViewer # <<>>
      /\ toViewer' = Tail(toViewer)
  BY DEF ViewerReceive, ViewerRest, ackVars
<1>1. InvQueue' /\ InvAcks' /\ InvPointer' /\ HonestAcksAccepted'
  BY <1>0, ViewerLeaves
<1>2. toViewer \in Seq(Announcement)
  BY DEF IInv, TypeOK
<1>3. /\ toViewer' \in Seq(Announcement)
      /\ Len(toViewer) \in Nat \ {0}
      /\ DOMAIN toViewer = 1..Len(toViewer)
      /\ DOMAIN toViewer' = 1..Len(toViewer) - 1
      /\ \A i \in 1..Len(toViewer) - 1 : toViewer'[i] = toViewer[i + 1]
      /\ Head(toViewer) = toViewer[1]
  BY <1>0, <1>2, TailElements
<1> DEFINE g == toViewer[1][2]
<1>4. /\ 1 \in DOMAIN toViewer /\ g \in 0..MaxGeneration
      /\ \A i \in DOMAIN toViewer' : i \in Nat /\ i + 1 \in DOMAIN toViewer /\ 1 < i + 1
                                  /\ toViewer'[i] = toViewer[i + 1]
  BY <1>3, WireTypes
<1>5. /\ viewer \in ViewerState /\ viewer' \in ViewerState
      /\ \/ /\ toViewer[1][1] = "metadata" /\ viewer'.latest = g
            /\ viewer'.decoding = viewer.decoding /\ viewer'.waiting = viewer.waiting
         \/ /\ toViewer[1][1] = "binary" /\ viewer'.latest = viewer.latest
            /\ viewer'.decoding \in {viewer.decoding, g} /\ viewer'.waiting \in {viewer.waiting, g}
  <2>1. viewer \in ViewerState
    BY DEF IInv, TypeOK
  <2>2. QED BY <1>3, <1>4, <2>1 DEF ViewerReceive, ViewerState
<1>6. TypeOK'
  <2>1. inputs' \in 0..MaxInputs /\ toServer' \in Seq(Message)
    BY <1>0 DEF IInv, TypeOK
  <2>2. QED BY <1>0, <1>3, <1>5, <2>1, ViewerTypes
<1>7. InvWire'
  <2>1. \A i \in DOMAIN toViewer : /\ toViewer[i][2] <= pending
                                   /\ toViewer[i][1] = "binary" => Sent(toViewer[i][2])
    BY DEF IInv, InvWire
  <2>2. \A i \in DOMAIN toViewer' : /\ toViewer'[i][2] <= pending'
                                    /\ toViewer'[i][1] = "binary" => Sent(toViewer[i][2])'
    BY <1>0, <1>4, <2>1 DEF Sent
  <2>3. viewer'.latest <= pending'
    BY <1>0, <1>4, <1>5, <2>1 DEF IInv, InvWire
  <2>4. (Sent(viewer.decoding)' \/ viewer'.decoding = 0) /\ (Sent(viewer.waiting)' \/ viewer'.waiting = 0)
    BY <1>0, <1>4, <1>5, <2>1 DEF IInv, InvWire, Sent
  <2>5. \A i \in DOMAIN toServer' : toServer'[i].type = "frameAck" => Sent(toServer[i].generation)'
    BY <1>0 DEF IInv, InvWire, Sent
  <2>6. QED BY <2>2, <2>3, <2>4, <2>5 DEF InvWire
<1>8. FramesInOrder'
  <2>1. \A i \in DOMAIN toViewer : toViewer[i][1] = "metadata" => viewer.latest < toViewer[i][2]
    BY DEF IInv, FramesInOrder
  <2>2. \A i, j \in DOMAIN toViewer :
           i < j /\ toViewer[i][1] = "metadata" /\ toViewer[j][1] = "metadata" => toViewer[i][2] < toViewer[j][2]
    BY DEF IInv, FramesInOrder
  <2>3. \A i \in DOMAIN toViewer' : toViewer'[i][1] = "metadata" => viewer'.latest < toViewer'[i][2]
    BY <1>4, <1>5, <2>1, <2>2
  <2>4. \A i, j \in DOMAIN toViewer' :
           i < j /\ toViewer'[i][1] = "metadata" /\ toViewer'[j][1] = "metadata" => toViewer'[i][2] < toViewer'[j][2]
    BY <1>4, <2>2
  <2>5. QED BY <2>3, <2>4 DEF FramesInOrder
<1>9. QED BY <1>1, <1>6, <1>7, <1>8 DEF IInv

\* A picture that is shown is acknowledged, and it was sent.
LEMMA ViewerDecodedInv ==
    ASSUME IInv, ViewerDecoded
    PROVE  IInv'
<1> USE FrameStreamAssumption
<1>0. ViewerRest /\ UNCHANGED <<toViewer, inputs, pending, pendingSent>> /\ viewer.decoding # 0
  BY DEF ViewerDecoded, ViewerRest, ackVars
<1>1. InvQueue' /\ InvAcks' /\ InvPointer' /\ HonestAcksAccepted'
  BY <1>0, ViewerLeaves
<1>2. /\ viewer \in ViewerState /\ viewer' \in ViewerState /\ viewer'.latest = viewer.latest
      /\ viewer'.decoding = viewer.waiting /\ viewer'.waiting = 0
  <2>1. viewer \in ViewerState /\ 0 \in 0..MaxGeneration
    BY DEF IInv, TypeOK
  <2>2. QED BY <2>1 DEF ViewerDecoded, ViewerState
<1>3. Sent(viewer.decoding)
  BY <1>0 DEF IInv, InvWire
<1>4. /\ toServer' \in Seq(Message)
      /\ \A i \in DOMAIN toServer' : toServer'[i].type = "frameAck" => Sent(toServer[i].generation)'
  <2>1. CASE UNCHANGED toServer
    BY <1>0, <2>1 DEF IInv, TypeOK, InvWire, Sent
  <2>2. CASE toServer' = Append(toServer, [type |-> "frameAck", generation |-> viewer.decoding])
    <3>1. [type |-> "frameAck", generation |-> viewer.decoding] \in Message
      BY <1>2 DEF Message, ViewerState
    <3>2. QED BY <1>0, <1>3, <2>2, <3>1, SendWire
  <2>3. QED BY <2>1, <2>2 DEF ViewerDecoded
<1>5. TypeOK'
  <2>1. inputs' \in 0..MaxInputs /\ toViewer' \in Seq(Announcement)
    BY <1>0 DEF IInv, TypeOK
  <2>2. QED BY <1>0, <1>2, <1>4, <2>1, ViewerTypes
<1>6. InvWire'
  BY <1>0, <1>2, <1>4 DEF IInv, InvWire, Sent
<1>7. FramesInOrder'
  BY <1>0, <1>2 DEF IInv, FramesInOrder
<1>8. QED BY <1>1, <1>5, <1>6, <1>7 DEF IInv

\* The viewer's input acknowledges nothing.
LEMMA ViewerInputInv ==
    ASSUME IInv, NEW phase \in Phases, ViewerInput(phase)
    PROVE  IInv'
<1> USE FrameStreamAssumption
<1> DEFINE m == [type |-> phase, generation |-> viewer.displayed]
<1>0. ViewerRest /\ UNCHANGED <<toViewer, pending, pendingSent>> /\ toServer' = Append(toServer, m)
  BY DEF ViewerInput, ViewerRest, ackVars
<1>1. InvQueue' /\ InvAcks' /\ InvPointer' /\ HonestAcksAccepted'
  BY <1>0, ViewerLeaves
<1>2. /\ viewer' \in ViewerState /\ viewer'.latest = viewer.latest
      /\ viewer'.decoding = viewer.decoding /\ viewer'.waiting = viewer.waiting
  <2>1. viewer \in ViewerState
    BY DEF IInv, TypeOK
  <2>2. (phase = "down") \in BOOLEAN
    OBVIOUS
  <2>3. QED BY <2>1, <2>2 DEF ViewerInput, ViewerState
<1>3. /\ toServer' \in Seq(Message)
      /\ \A i \in DOMAIN toServer' : toServer'[i].type = "frameAck" => Sent(toServer[i].generation)'
  <2>1. m \in Message /\ m.type # "frameAck"
    BY WireTypes DEF Message, Phases
  <2>2. QED BY <1>0, <2>1, SendWire
<1>4. TypeOK'
  <2>1. inputs' \in 0..MaxInputs /\ toViewer' \in Seq(Announcement)
    BY <1>0 DEF IInv, TypeOK, ViewerInput
  <2>2. QED BY <1>0, <1>2, <1>3, <2>1, ViewerTypes
<1>5. InvWire'
  BY <1>0, <1>2, <1>3 DEF IInv, InvWire, Sent
<1>6. FramesInOrder'
  BY <1>0, <1>2 DEF IInv, FramesInOrder
<1>7. QED BY <1>1, <1>4, <1>5, <1>6 DEF IInv

-----------------------------------------------------------------------------
(* The reader.                                                             *)

\* The types of what the reader changes.
ReaderTypes ==
    /\ reader' \in {"read", "arm", "check", "open", "dispatch", "restore",
                    "release", "releasing", "close", "joining", "ended"}
    /\ input' \in Message
    /\ result' \in {"ok", "lost", "error", "teardown"}
    /\ violation' \in {"none", "ack", "input", "release"}

\* What the reader does not touch is of its type.
LEMMA ReaderRestTypes ==
    ASSUME IInv, ReaderRest, ReaderTypes, toServer' \in Seq(Message),
           active' \in 0..MaxGeneration, lastGeneration' \in 0..MaxGeneration,
           pointerPressed' \in BOOLEAN, chromePressed' \in BOOLEAN, inputIgnored' \in BOOLEAN,
           link' \in BOOLEAN, relayCause' \in {"none", "completed", "ended"}
    PROVE  TypeOK'
BY DEF IInv, TypeOK, ReaderTypes, ReaderRest, streamVars, writerVars, countVars

\* While the reader dispatches, releases or ends, nothing is acknowledged or sent.
LEMMA ReaderLeaves ==
    ASSUME IInv, ReaderRest, UNCHANGED <<toServer, active, lastGeneration>>
    PROVE  InvQueue' /\ InvAcks' /\ InvWire' /\ FramesInOrder'
<1> USE DEF IInv, ReaderRest, streamVars, writerVars
<1>1. InvQueue' BY QueueUntouched
<1>2. InvAcks' BY AcksUntouched
<1>3. InvWire' BY WireUntouched
<1>4. FramesInOrder' BY OrderUntouched
<1>5. QED BY <1>1, <1>2, <1>3, <1>4

\* What DispatchInput leaves behind when it returns.
LEMMA ReturnsFacts ==
    ASSUME IInv, NEW r \in {"ok", "lost", "error", "teardown"}, Returns(r)
    PROVE  /\ ReaderTypes
           /\ reader' \in {"read", "release"}
           /\ violation' \in {violation, "input"}
           /\ violation' # violation => r = "error" /\ terminal # "teardown"
           /\ r = "error" => violation' = "input" \/ terminal = "teardown"
<1>1. violation \in {"none", "ack", "input", "release"} /\ NoInput \in Message
  BY FrameStreamAssumption DEF IInv, TypeOK, NoInput, Message, Phases
<1>2. input' = NoInput /\ result' = "ok" /\ reader' \in {"read", "release"} /\ violation' \in {violation, "input"}
  BY DEF Returns
<1>3. /\ violation' # violation => r = "error" /\ terminal # "teardown"
      /\ r = "error" => violation' = "input" \/ terminal = "teardown"
  BY DEF Returns
<1>4. QED BY <1>1, <1>2, <1>3 DEF ReaderTypes

\* So does a plain step to the next place.
LEMMA GoFacts ==
    ASSUME IInv,
           NEW pc \in {"read", "arm", "check", "open", "dispatch", "restore",
                       "release", "releasing", "close", "joining", "ended"},
           Go(pc)
    PROVE  ReaderTypes /\ reader' = pc /\ UNCHANGED <<input, result, violation>>
BY DEF IInv, TypeOK, Go, ReaderTypes

\* How a call to Chrome ended, and what that says of the document.
LEMMA OutcomeFacts ==
    ASSUME NEW r \in CallOutcome
    PROVE  r \in {"ok", "lost", "error", "teardown"} /\ (r = "teardown" => ~document)
BY DEF CallOutcome

\* What is left to show of a step behind the input fence.
LEMMA DispatchInv ==
    ASSUME IInv, DispatchRest, ReaderTypes, violation' # "ack", InvPointer',
           pointerPressed' \in BOOLEAN, chromePressed' \in BOOLEAN, inputIgnored' \in BOOLEAN
    PROVE  IInv'
<1>1. ReaderRest /\ UNCHANGED <<toServer, active, lastGeneration, link, relayCause>>
  BY DEF DispatchRest
<1>2. InvQueue' /\ InvAcks' /\ InvWire' /\ FramesInOrder'
  BY <1>1, ReaderLeaves
<1>3. TypeOK'
  <2>1. /\ toServer' \in Seq(Message) /\ active' \in 0..MaxGeneration /\ lastGeneration' \in 0..MaxGeneration
        /\ link' \in BOOLEAN /\ relayCause' \in {"none", "completed", "ended"}
    BY <1>1 DEF IInv, TypeOK
  <2>2. QED BY <1>1, <2>1, ReaderRestTypes
<1>4. QED BY <1>2, <1>3 DEF IInv, HonestAcksAccepted

\* What such a step does not touch of the pointer.
LEMMA DispatchLeaves ==
    ASSUME DispatchRest
    PROVE  UNCHANGED <<capture, terminal, document, lastGeneration, relayCause>>
BY DEF DispatchRest, ReaderRest, streamVars

\* While an input is in flight and no call has failed, Chrome's button is down only if
\* the stream knows it.
LEMMA PressedKnown ==
    ASSUME IInv, reader \in {"arm", "check", "open", "dispatch", "release", "releasing"},
           document, chromePressed, violation = "none"
    PROVE  pointerPressed
BY DEF IInv, InvPointer

\* Arming, checking and opening the curtain do not touch the button.
LEMMA CurtainInv ==
    ASSUME IInv, Arm \/ Check \/ Open
    PROVE  IInv'
<1>0. /\ DispatchRest /\ UNCHANGED <<pointerPressed, chromePressed>>
      /\ reader \in {"arm", "check", "open"}
  BY DEF Arm, Check, Open
<1>1. \/ reader' \in {"check", "open", "dispatch"} /\ Go(reader')
      \/ \E r \in {"ok", "lost", "error", "teardown"} : Returns(r)
  BY OutcomeFacts DEF Arm, Check, Open, Go
<1>2. inputIgnored' \in BOOLEAN
  BY DEF IInv, TypeOK, Arm, Check, Open
<1>3. /\ ReaderTypes /\ violation' \in {violation, "input"}
      /\ \/ reader' \in {"check", "open", "dispatch"} /\ UNCHANGED <<input, result>>
         \/ reader' \in {"read", "release"}
  <2>1. CASE reader' \in {"check", "open", "dispatch"} /\ Go(reader')
    BY <2>1, GoFacts
  <2>2. CASE \E r \in {"ok", "lost", "error", "teardown"} : Returns(r)
    BY <2>2, ReturnsFacts
  <2>3. QED BY <1>1, <2>1, <2>2
<1>4. violation' # "ack" /\ pointerPressed' \in BOOLEAN /\ chromePressed' \in BOOLEAN
  BY <1>0, <1>3 DEF IInv, TypeOK, HonestAcksAccepted
<1>5. InvPointer'
  BY <1>0, <1>3, DispatchLeaves, PressedKnown DEF IInv, InvPointer
<1>6. QED BY <1>0, <1>2, <1>3, <1>4, <1>5, DispatchInv

\* An input that Chrome took and that was reported is known to the stream.
LEMMA DispatchStepInv ==
    ASSUME IInv, Dispatch
    PROVE  IInv'
<1>0. DispatchRest /\ UNCHANGED <<input, violation, inputIgnored>> /\ reader = "dispatch" /\ reader' = "restore"
  BY DEF Dispatch
<1>1. PICK r \in CallOutcome :
         /\ result' = r
         /\ pointerPressed' = IF r = "ok" THEN Pressing(input.type, pointerPressed) ELSE pointerPressed
         /\ \/ r \in {"ok", "error"} /\ chromePressed' = Pressing(input.type, chromePressed)
            \/ r # "ok" /\ UNCHANGED chromePressed
  BY DEF Dispatch
<1>2. r \in {"ok", "lost", "error", "teardown"} /\ (r = "teardown" => ~document)
  BY OutcomeFacts
<1>3. ReaderTypes /\ inputIgnored' \in BOOLEAN
  BY <1>0, <1>1, <1>2 DEF IInv, TypeOK, ReaderTypes
<1>4. pointerPressed' \in BOOLEAN /\ chromePressed' \in BOOLEAN
  BY <1>1 DEF IInv, TypeOK, Pressing
<1>5. violation' # "ack"
  BY <1>0 DEF IInv, HonestAcksAccepted
<1>6. /\ document' /\ chromePressed' /\ violation' = "none" => pointerPressed' \/ result' = "error"
  <2>1. CASE r = "ok"
    BY <1>0, <1>1, <2>1, PressedKnown, DispatchLeaves DEF Pressing
  <2>2. CASE r \in {"lost", "teardown"}
    BY <1>0, <1>1, <1>2, <2>2, PressedKnown, DispatchLeaves
  <2>3. CASE r = "error"
    BY <1>1, <2>3
  <2>4. QED BY <1>2, <2>1, <2>2, <2>3
<1>7. InvPointer'
  BY <1>0, <1>1, <1>2, <1>6, DispatchLeaves DEF IInv, InvPointer
<1>8. QED BY <1>0, <1>3, <1>4, <1>5, <1>7, DispatchInv

\* A failure of the dispatch is not forgotten when the curtain is armed again.
LEMMA RestoreInv ==
    ASSUME IInv, Restore
    PROVE  IInv'
<1>0. DispatchRest /\ UNCHANGED <<pointerPressed, chromePressed>> /\ reader = "restore"
  BY DEF Restore
<1>1. PICK r \in CallOutcome :
         /\ Returns(IF "teardown" \in {r, result} THEN "teardown"
                    ELSE IF r \in {"ok", "lost"} THEN result
                    ELSE IF result = "lost" THEN "lost" ELSE "error")
         /\ inputIgnored' = (inputIgnored \/ r = "ok")
  BY DEF Restore
<1> DEFINE joined == IF "teardown" \in {r, result} THEN "teardown"
                     ELSE IF r \in {"ok", "lost"} THEN result
                     ELSE IF result = "lost" THEN "lost" ELSE "error"
<1>2. /\ r \in {"ok", "lost", "error", "teardown"} /\ (r = "teardown" => ~document)
      /\ result \in {"ok", "lost", "error", "teardown"} /\ (result = "teardown" => ~document)
  BY <1>0, OutcomeFacts DEF IInv, TypeOK, InvPointer
<1>3. /\ joined \in {"ok", "lost", "error", "teardown"}
      /\ result = "error" => joined = "error" \/ ~document
  BY <1>2
<1>4. /\ ReaderTypes /\ reader' \in {"read", "release"} /\ violation' \in {violation, "input"}
      /\ joined = "error" => violation' = "input" \/ terminal = "teardown"
  BY <1>1, <1>3, ReturnsFacts
<1>5. /\ violation' # "ack" /\ pointerPressed' \in BOOLEAN /\ chromePressed' \in BOOLEAN
      /\ inputIgnored' \in BOOLEAN
  BY <1>0, <1>1, <1>4 DEF IInv, TypeOK, HonestAcksAccepted
<1>6. document /\ chromePressed /\ violation' = "none" => pointerPressed
  <2>1. document /\ chromePressed /\ violation = "none" => pointerPressed \/ result = "error"
    BY <1>0 DEF IInv, InvPointer
  <2>2. terminal = "teardown" => ~document
    BY DEF IInv, InvPointer
  <2>3. QED BY <1>3, <1>4, <2>1, <2>2
<1>7. InvPointer'
  BY <1>0, <1>4, <1>6, DispatchLeaves DEF IInv, InvPointer
<1>8. QED BY <1>0, <1>4, <1>5, <1>7, DispatchInv

\* A failed release is held against the viewer, unless the relay is canceled anyway.
LEMMA ReleaseFailedFacts ==
    ASSUME IInv, ReleaseFailed
    PROVE  /\ ReaderTypes /\ reader' = "close" /\ violation' # "ack"
           /\ violation' = "none" => relayCanceled /\ violation = "none"
BY DEF IInv, TypeOK, HonestAcksAccepted, ReleaseFailed, ReaderTypes

\* Releasing the button lets it go in Chrome, or gives the login up.
LEMMA ReleaseInv ==
    ASSUME IInv, Release
    PROVE  IInv'
<1>0. DispatchRest /\ UNCHANGED chromePressed /\ reader = "release"
  BY DEF Release
<1>1. \/ /\ ~pointerPressed \/ terminal = "teardown"
         /\ Go("close") /\ pointerPressed' = FALSE /\ UNCHANGED inputIgnored
      \/ Go("releasing") /\ inputIgnored' = FALSE /\ UNCHANGED pointerPressed
      \/ Go("close") /\ pointerPressed' = FALSE /\ UNCHANGED inputIgnored /\ ~document
      \/ ReleaseFailed /\ UNCHANGED <<pointerPressed, inputIgnored>>
  BY OutcomeFacts DEF Release
<1>2. ReaderTypes /\ violation' # "ack"
  BY <1>1, GoFacts, ReleaseFailedFacts DEF IInv, HonestAcksAccepted
<1>3. pointerPressed' \in BOOLEAN /\ chromePressed' \in BOOLEAN /\ inputIgnored' \in BOOLEAN
  BY <1>0, <1>1 DEF IInv, TypeOK
<1>4. /\ reader' \in {"close", "releasing"}
      /\ document /\ chromePressed /\ violation' = "none" =>
            \/ reader' = "releasing" /\ pointerPressed'
            \/ reader' = "close" /\ relayCanceled
  <2>1. document /\ chromePressed /\ violation = "none" => pointerPressed
    BY <1>0, PressedKnown
  <2>2. terminal = "teardown" => ~document
    BY DEF IInv, InvPointer
  <2>3. QED BY <1>1, <2>1, <2>2, GoFacts, ReleaseFailedFacts
<1>5. InvPointer'
  BY <1>0, <1>4, DispatchLeaves DEF IInv, InvPointer, relayCanceled
<1>6. QED BY <1>0, <1>2, <1>3, <1>5, DispatchInv

\* So does the release that Chrome was sent.
LEMMA ReleaseDispatchInv ==
    ASSUME IInv, ReleaseDispatch
    PROVE  IInv'
<1>0. DispatchRest /\ reader = "releasing"
  BY DEF ReleaseDispatch
<1>1. PICK sent, restored \in CallOutcome :
          /\ pointerPressed' = (pointerPressed /\ sent \notin {"ok", "teardown"})
          /\ chromePressed' = (chromePressed /\ sent # "ok")
          /\ inputIgnored' = (restored = "ok")
          /\ IF {sent, restored} \subseteq {"ok", "teardown"} THEN Go("close") ELSE ReleaseFailed
  BY DEF ReleaseDispatch
<1>2. sent = "teardown" => ~document
  BY OutcomeFacts
<1>3. ReaderTypes /\ violation' # "ack" /\ reader' = "close"
  BY <1>1, GoFacts, ReleaseFailedFacts DEF IInv, HonestAcksAccepted
<1>4. pointerPressed' \in BOOLEAN /\ chromePressed' \in BOOLEAN /\ inputIgnored' \in BOOLEAN
  BY <1>1
<1>5. document /\ chromePressed' /\ violation' = "none" => relayCanceled
  <2>1. CASE {sent, restored} \subseteq {"ok", "teardown"}
    BY <1>1, <1>2, <2>1
  <2>2. CASE ReleaseFailed
    BY <2>2, ReleaseFailedFacts
  <2>3. QED BY <1>1, <2>1, <2>2
<1>6. InvPointer'
  BY <1>0, <1>3, <1>5, DispatchLeaves DEF IInv, InvPointer, relayCanceled
<1>7. QED BY <1>0, <1>3, <1>4, <1>6, DispatchInv

\* Ending the connection touches neither the button nor what was acknowledged.
LEMMA EndInv ==
    ASSUME IInv, ReadFails \/ CloseConnection \/ JoinWriter
    PROVE  IInv'
<1>0. /\ ReaderRest /\ UNCHANGED <<pointerVars, active, toServer>>
      /\ \/ reader = "read" /\ Go("release")
         \/ reader = "close" /\ Go("joining")
         \/ reader = "joining" /\ Go("ended")
  BY DEF ReadFails, CloseConnection, JoinWriter, wireVars
<1>1. /\ ReaderTypes /\ UNCHANGED <<input, result, violation>>
      /\ \/ reader = "read" /\ reader' = "release"
         \/ reader = "close" /\ reader' = "joining"
         \/ reader = "joining" /\ reader' = "ended"
  BY <1>0, GoFacts
<1>2. link' \in BOOLEAN /\ relayCause' \in {"none", "completed", "ended"} /\ (relayCanceled => relayCanceled')
  BY DEF IInv, TypeOK, ReadFails, CloseConnection, JoinWriter, wireVars, relayCanceled
<1>3. TypeOK'
  <2>1. /\ toServer' \in Seq(Message) /\ active' \in 0..MaxGeneration /\ lastGeneration' \in 0..MaxGeneration
        /\ pointerPressed' \in BOOLEAN /\ chromePressed' \in BOOLEAN /\ inputIgnored' \in BOOLEAN
    BY <1>0 DEF IInv, TypeOK, pointerVars
  <2>2. QED BY <1>0, <1>1, <1>2, <2>1, ReaderRestTypes
<1>4. InvQueue' /\ InvAcks' /\ InvWire' /\ FramesInOrder'
  BY <1>0, ReaderLeaves DEF pointerVars
<1>5. InvPointer'
  <2>1. UNCHANGED <<capture, terminal, document, pointerPressed, chromePressed, lastGeneration>>
    BY <1>0 DEF ReaderRest, streamVars, pointerVars
  <2>2. QED BY <1>1, <1>2, <2>1 DEF IInv, InvPointer
<1>6. HonestAcksAccepted'
  BY <1>1 DEF IInv, HonestAcksAccepted
<1>7. QED BY <1>3, <1>4, <1>5, <1>6 DEF IInv

\* An acknowledgement of a frame that was sent is late, repeated, or binds input to it.
LEMMA AcknowledgeFacts ==
    ASSUME IInv, NEW generation \in 0..MaxGeneration, Sent(generation), Acknowledge(generation)
    PROVE  /\ Go("read")
           /\ \/ UNCHANGED <<active, lastGeneration>>
              \/ active' = pending /\ lastGeneration' = pending /\ pending # 0 /\ pendingSent
<1>1. /\ pending \in 0..MaxGeneration /\ active \in 0..MaxGeneration /\ active <= pending
      /\ lastGeneration \in 0..MaxGeneration /\ nextGeneration \in 0..MaxGeneration
      /\ pending <= nextGeneration /\ (pending # 0 => lastGeneration <= pending)
      /\ MaxGeneration \in Nat
  BY FrameStreamAssumption DEF IInv, TypeOK, InvAcks
<1>2. generation < pending \/ (generation = pending /\ pendingSent)
  BY DEF Sent
<1>3. CASE generation < pending \/ generation = active
  BY <1>1, <1>2, <1>3 DEF Acknowledge
<1>4. CASE ~(generation < pending \/ generation = active)
  <2>1. generation = pending /\ pendingSent /\ pending # active /\ pending # 0
    BY <1>1, <1>2, <1>4
  <2>2. active' = pending /\ Bind(pending)
    BY <1>1, <1>4, <2>1 DEF Acknowledge
  <2>3. pending \in lastGeneration..nextGeneration
    BY <1>1, <2>1
  <2>4. QED BY <2>1, <2>2, <2>3 DEF Bind
<1>5. QED BY <1>3, <1>4

\* Reading a message: an acknowledgement is accepted, an input waits for the curtain or
\* is over.
LEMMA ReadInv ==
    ASSUME IInv, Read
    PROVE  IInv'
<1> USE FrameStreamAssumption
<1> DEFINE m == toServer[1]
<1>0. /\ ReaderRest /\ reader = "read" /\ toServer # <<>> /\ toServer' = Tail(toServer)
      /\ UNCHANGED <<pointerPressed, chromePressed, inputIgnored, link, relayCause>>
  BY DEF Read
<1>1. /\ toServer' \in Seq(Message) /\ Head(toServer) = m /\ m \in Message /\ 1 \in DOMAIN toServer
      /\ \A i \in DOMAIN toServer' : i + 1 \in DOMAIN toServer /\ toServer'[i] = toServer[i + 1]
  <2>1. toServer \in Seq(Message)
    BY DEF IInv, TypeOK
  <2>2. QED BY <1>0, <2>1, TailElements
<1>2. m.generation \in 0..MaxGeneration /\ m.type \in Phases \cup {"frameAck"}
  BY <1>1 DEF Message
<1>3. \/ /\ Go("read")
         /\ active' = pending /\ lastGeneration' = pending /\ pending # 0 /\ pendingSent
      \/ /\ UNCHANGED <<active, lastGeneration>>
         /\ \/ Go("read")
            \/ \E r \in {"ok", "lost", "error", "teardown"} : Returns(r)
            \/ /\ reader' = "arm" /\ input' = m /\ UNCHANGED <<result, violation>>
               /\ m.type \in Phases /\ m.generation = lastGeneration
  <2>1. CASE m.type = "frameAck" /\ Acknowledge(m.generation)
    <3>1. Sent(m.generation)
      BY <1>1, <2>1 DEF IInv, InvWire
    <3>2. QED BY <1>2, <2>1, <3>1, AcknowledgeFacts
  <2>2. CASE m.type \in Phases /\ Accept(m) /\ UNCHANGED <<active, lastGeneration>>
    BY <2>2 DEF Accept, Admit
  <2>3. QED BY <1>1, <2>1, <2>2 DEF Read
<1>4. /\ ReaderTypes /\ violation' # "ack"
      /\ \/ reader' \in {"read", "release"} /\ (violation' = "none" => violation = "none")
         \/ /\ reader' = "arm" /\ UNCHANGED violation
            /\ input'.type \in Phases /\ input'.generation = lastGeneration
            /\ UNCHANGED lastGeneration
  <2>1. violation # "ack" /\ violation \in {"none", "ack", "input", "release"}
        /\ result \in {"ok", "lost", "error", "teardown"}
    BY DEF IInv, TypeOK, HonestAcksAccepted
  <2>2. CASE Go("read")
    BY <2>1, <2>2, GoFacts
  <2>3. CASE \E r \in {"ok", "lost", "error", "teardown"} : Returns(r)
    BY <2>1, <2>3, ReturnsFacts
  <2>4. CASE /\ reader' = "arm" /\ input' = m /\ UNCHANGED <<result, violation>>
             /\ m.type \in Phases /\ m.generation = lastGeneration /\ UNCHANGED <<active, lastGeneration>>
    BY <1>1, <2>1, <2>4 DEF ReaderTypes
  <2>5. QED BY <1>3, <2>2, <2>3, <2>4
<1>5. TypeOK'
  <2>1. active' \in 0..MaxGeneration /\ lastGeneration' \in 0..MaxGeneration
    BY <1>3 DEF IInv, TypeOK
  <2>2. /\ pointerPressed' \in BOOLEAN /\ chromePressed' \in BOOLEAN /\ inputIgnored' \in BOOLEAN
        /\ link' \in BOOLEAN /\ relayCause' \in {"none", "completed", "ended"}
    BY <1>0 DEF IInv, TypeOK
  <2>3. QED BY <1>0, <1>1, <1>4, <2>1, <2>2, ReaderRestTypes
<1>6. UNCHANGED <<capture, nextGeneration, frames, terminal, document, pending, pendingSent, writer, writing, toViewer, viewer>>
  BY <1>0 DEF ReaderRest, streamVars, writerVars
<1>7. ASSUME active' = pending, lastGeneration' = pending, pending # 0, pendingSent
      PROVE  InvQueue' /\ InvAcks'
  <2>1. InvQueue'
    BY <1>6, <1>7 DEF IInv, TypeOK, InvQueue, InvAcks
  <2>2. InvAcks'
    BY <1>6, <1>7 DEF IInv, TypeOK, InvAcks, Sent
  <2>3. QED BY <2>1, <2>2
<1>8. ASSUME UNCHANGED <<active, lastGeneration>>
      PROVE  InvQueue' /\ InvAcks'
  BY <1>6, <1>8, QueueUntouched, AcksUntouched DEF IInv
<1>9. InvWire'
  <2>1. \A i \in DOMAIN toServer' : toServer'[i].type = "frameAck" => Sent(toServer[i].generation)'
    BY <1>1, <1>6 DEF IInv, InvWire, Sent
  <2>2. QED BY <1>6, <2>1 DEF IInv, InvWire, Sent
<1>10. FramesInOrder'
  BY <1>6, OrderUntouched DEF IInv
<1>11. InvPointer'
  BY <1>0, <1>4, <1>6 DEF IInv, InvPointer
<1>12. QED BY <1>3, <1>4, <1>5, <1>7, <1>8, <1>9, <1>10, <1>11 DEF IInv, HonestAcksAccepted

-----------------------------------------------------------------------------
(* The theorems.                                                           *)

\* Every step keeps the invariant.
LEMMA StepInv == IInv /\ [Next]_vars => IInv'
<1> SUFFICES ASSUME IInv, [Next]_vars PROVE IInv' OBVIOUS
<1>1. CASE Capture \/ Offer \/ Replace \/ CaptureEnds \/ CaptureFinish
  BY <1>1, CaptureInv
<1>2. CASE DocumentEnds \/ RelayCancel \/ Lose
  BY <1>2, SurroundingsInv
<1>3. CASE Connect
  BY <1>3, ConnectInv
<1>4. CASE Writer
  BY <1>4, WriterTakeInv, PublishInv, WriteBinaryInv DEF Writer
<1>5. CASE Reader
  BY <1>5, ReadInv, EndInv, CurtainInv, DispatchStepInv, RestoreInv, ReleaseInv, ReleaseDispatchInv DEF Reader
<1>6. CASE ViewerReceive
  BY <1>6, ViewerReceiveInv
<1>7. CASE ViewerDecoded
  BY <1>7, ViewerDecodedInv
<1>8. CASE \E phase \in Phases : ViewerInput(phase)
  BY <1>8, ViewerInputInv
<1>9. CASE UNCHANGED vars
  <2> USE <1>9 DEF vars, streamVars, pointerVars, ackVars, writerVars, readerVars, wireVars, countVars, IInv
  <2>1. TypeOK' BY DEF TypeOK
  <2>2. InvQueue' BY QueueUntouched
  <2>3. InvAcks' BY AcksUntouched
  <2>4. InvWire' BY WireUntouched
  <2>5. InvPointer' BY PointerUntouched
  <2>6. FramesInOrder' BY OrderUntouched
  <2>7. HonestAcksAccepted' BY DEF HonestAcksAccepted
  <2>8. QED BY <2>1, <2>2, <2>3, <2>4, <2>5, <2>6, <2>7
<1>10. QED BY <1>1, <1>2, <1>3, <1>4, <1>5, <1>6, <1>7, <1>8, <1>9 DEF Next

\* Types, the queue of one frame, what was published, acknowledged, sent and is under
\* way, and the button's state in Chrome fit together at every moment.
THEOREM Invariance == Spec => []IInv
<1>1. QED BY InitInv, StepInv, PTL DEF Spec

\* captcha_remote_ws.go acknowledge, AcknowledgeFrame: the viewer's own script is never
\* refused an acknowledgement, however long the connection and however many frames.
THEOREM AcksAccepted == Spec => []HonestAcksAccepted
<1>1. IInv => HonestAcksAccepted
  BY DEF IInv
<1>2. QED BY <1>1, Invariance, PTL

\* writeRemoteCaptchaFrame: pictures are announced in order and once.
THEOREM InOrder == Spec => []FramesInOrder
<1>1. IInv => FramesInOrder
  BY DEF IInv
<1>2. QED BY <1>1, Invariance, PTL

\* ReleasePointer: a connection that ends for a reconnect leaves no button down.
THEOREM Released == Spec => []PointerReleased
<1>1. IInv => PointerReleased
  BY DEF IInv, InvPointer, PointerReleased
<1>2. QED BY <1>1, Invariance, PTL

\* An input is held against the viewer only if the end of the document was not published.
LEMMA InputViolation ==
    ASSUME IInv, [Next]_vars, violation' = "input", violation # "input"
    PROVE  terminal # "teardown" /\ UNCHANGED <<capture, terminal>>
<1>1. CASE Reader
  <2>1. UNCHANGED <<capture, terminal>>
    BY <1>1 DEF Reader, Read, ReadFails, Arm, Check, Open, Dispatch, Restore, Release, ReleaseDispatch,
                CloseConnection, JoinWriter, DispatchRest, ReaderRest, streamVars
  <2>2. CASE Read
    BY <2>1, <2>2 DEF Read, Acknowledge, Bind, Accept, Admit, Returns, Go
  <2>3. CASE Arm
    BY <2>1, <2>3 DEF Arm, Returns, Go
  <2>4. CASE Check \/ Open
    BY <2>1, <2>4 DEF Check, Open, Returns, Go
  <2>5. CASE Restore
    BY <2>1, <2>5 DEF Restore, Returns
  <2>6. CASE Dispatch \/ Release \/ ReleaseDispatch \/ ReadFails \/ CloseConnection \/ JoinWriter
    BY <2>1, <2>6 DEF Dispatch, Release, ReleaseDispatch, ReadFails, CloseConnection, JoinWriter, ReleaseFailed, Go
  <2>7. QED BY <1>1, <2>1, <2>2, <2>3, <2>4, <2>5, <2>6 DEF Reader
<1>2. CASE ~Reader
  <2>1. UNCHANGED violation
    BY <1>2 DEF Next, Capture, Offer, Replace, CaptureEnds, CaptureFinish, CaptureRest, DocumentEnds,
                RelayCancel, Connect, Lose, Writer, WriterFirst, WriterReplay, WriterLoop, Publish,
                WriteBinary, WriterClose, WriterRest, ViewerReceive, ViewerDecoded, ViewerInput,
                ViewerRest, readerVars, vars
  <2>2. QED BY <2>1
<1>3. QED BY <1>1, <1>2

\* finish, normalizeInputTerminal: after the stream has ended, an input in flight is held
\* against the viewer only if the document did not end it.
THEOREM TeardownSpared == Spec => TeardownSparesLogin
<1> DEFINE Step == violation' = "input" /\ violation # "input" /\ (streamDone \/ terminal = "teardown")
                      => terminal \in {"canceled", "error"}
<1>1. IInv /\ [Next]_vars => [Step]_vars
  <2> SUFFICES ASSUME IInv, [Next]_vars,
                      violation' = "input", violation # "input", streamDone \/ terminal = "teardown"
               PROVE  terminal \in {"canceled", "error"}
    OBVIOUS
  <2>1. terminal # "teardown"
    BY InputViolation
  <2>2. terminal # "none"
    BY <2>1 DEF IInv, InvPointer, streamDone
  <2>3. QED BY <2>1, <2>2 DEF IInv, TypeOK
<1>2. QED BY <1>1, Invariance, PTL DEF Spec, TeardownSparesLogin
=============================================================================
