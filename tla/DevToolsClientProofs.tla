------------------------ MODULE DevToolsClientProofs ------------------------
(***************************************************************************)
(* The invariant of DevToolsClient is inductive, for any number of calls   *)
(* and of lost pages: no send blocks, no answer is waited for in vain, a   *)
(* blocked write is watched; and the page session never goes back.         *)
(***************************************************************************)
EXTENDS DevToolsClient, TLAPS


\* It holds at the start.
LEMMA InitInv == Init => IInv
<1> SUFFICES ASSUME Init PROVE IInv  OBVIOUS
<1> USE DevToolsAssumption DEF IInv, Inv, Calls, closed, active, Init
<1>1. TypeOK
  BY DEF TypeOK
<1>2. SendersNeverBlock
  BY DEF SendersNeverBlock, TypeOK
<1>3. DrainsFull
  BY DEF DrainsFull, TypeOK
<1>4. TerminatedClean
  BY DEF TerminatedClean, TypeOK
<1>5. WritesAreWatched
  BY DEF WritesAreWatched, TypeOK
<1>6. RecoveryHoldsMu
  BY DEF RecoveryHoldsMu, TypeOK
<1>7. TableKnowsCalls
  BY DEF TableKnowsCalls, TypeOK
<1>8. ReportsAreTrue
  BY DEF ReportsAreTrue, TypeOK
<1>9. RequestHasCall
  BY DEF RequestHasCall, TypeOK
<1>10. OneCommandAtChrome
  BY DEF OneCommandAtChrome, TypeOK
<1>11. OpenerFirst
  BY DEF OpenerFirst, TypeOK
<1>12. GrantsAreNew
  <2>1. \A c \in Calls : response[c] # "attached"
    OBVIOUS
  <2>2. sessionID <= sessions /\ \A c \in Calls : granted[c] <= sessions
    BY SMT
  <2> QED BY <2>1, <2>2, Zenon DEF GrantsAreNew
<1> QED BY <1>1, <1>2, <1>3, <1>4, <1>5, <1>6, <1>7, <1>8, <1>9, <1>10, <1>11, <1>12

\* A call begins.
LEMMA StartInv ==
    ASSUME IInv, NEW c \in Calls, Start(c)
    PROVE  IInv'
<1> USE DevToolsAssumption DEF IInv, Inv, Calls, closed, active, Start, callVars, commandVars,
   channelVars, chromeVars, loopVars
<1>1. (SendersNeverBlock /\ TerminatedClean /\ GrantsAreNew)'
  BY DEF SendersNeverBlock, TerminatedClean, GrantsAreNew
<1>2. TypeOK'
  BY DEF TypeOK
<1>3. DrainsFull'
  BY DEF DrainsFull, TypeOK
<1>4. WritesAreWatched'
  BY DEF WritesAreWatched, TypeOK
<1>5. RecoveryHoldsMu'
  BY DEF RecoveryHoldsMu, TypeOK
<1>6. TableKnowsCalls'
  BY DEF TableKnowsCalls, TypeOK
<1>7. ReportsAreTrue'
  BY DEF ReportsAreTrue, TypeOK
<1>8. RequestHasCall'
  BY DEF RequestHasCall, TypeOK
<1>9. OneCommandAtChrome'
  BY DEF OneCommandAtChrome, TypeOK
<1>10. OpenerFirst'
  BY DEF OpenerFirst, TypeOK
<1> QED BY <1>1, <1>2, <1>3, <1>4, <1>5, <1>6, <1>7, <1>8, <1>9, <1>10

\* A context ends.
LEMMA CancelInv ==
    ASSUME IInv, NEW c \in Calls, Cancel(c)
    PROVE  IInv'
<1> USE DevToolsAssumption DEF IInv, Inv, Calls, closed, active, Cancel, callVars, commandVars,
   channelVars, chromeVars, loopVars
<1>1. (SendersNeverBlock /\ DrainsFull /\ TerminatedClean /\ WritesAreWatched /\ RecoveryHoldsMu
       /\ TableKnowsCalls /\ OneCommandAtChrome /\ OpenerFirst /\ GrantsAreNew)'
  BY DEF SendersNeverBlock, DrainsFull, TerminatedClean, WritesAreWatched, RecoveryHoldsMu,
     TableKnowsCalls, OneCommandAtChrome, OpenerFirst, GrantsAreNew
<1>2. TypeOK'
  BY DEF TypeOK
<1>3. ReportsAreTrue'
  BY DEF ReportsAreTrue, TypeOK
<1>4. RequestHasCall'
  BY DEF RequestHasCall, TypeOK
<1> QED BY <1>1, <1>2, <1>3, <1>4

\* A recovery begins.
LEMMA LockInv ==
    ASSUME IInv, NEW c \in Calls, Lock(c)
    PROVE  IInv'
<1> USE DevToolsAssumption DEF IInv, Inv, Calls, closed, active, Lock, Continue, callVars,
   commandVars, channelVars, chromeVars, loopVars
<1>1. (SendersNeverBlock /\ TerminatedClean)'
  BY DEF SendersNeverBlock, TerminatedClean
<1>2. TypeOK'
  BY DEF TypeOK
<1>3. DrainsFull'
  BY DEF DrainsFull, TypeOK
<1>4. WritesAreWatched'
  BY DEF WritesAreWatched, TypeOK
<1>5. RecoveryHoldsMu'
  BY DEF RecoveryHoldsMu, TypeOK
<1>6. TableKnowsCalls'
  BY DEF TableKnowsCalls, TypeOK
<1>7. ReportsAreTrue'
  BY DEF ReportsAreTrue, TypeOK
<1>8. RequestHasCall'
  BY DEF RequestHasCall, TypeOK
<1>9. OneCommandAtChrome'
  BY DEF OneCommandAtChrome, TypeOK
<1>10. OpenerFirst'
  BY DEF OpenerFirst, TypeOK
<1>11. GrantsAreNew'
  BY DEF TypeOK, GrantsAreNew, TableKnowsCalls
<1> QED BY <1>1, <1>2, <1>3, <1>4, <1>5, <1>6, <1>7, <1>8, <1>9, <1>10, <1>11

\* A command is registered.
LEMMA EnterInv ==
    ASSUME IInv, NEW c \in Calls, at[c] = "sending", c \notin canceled, ~closed, Enter(c), SendRest
    PROVE  IInv'
<1> USE DevToolsAssumption DEF IInv, Inv, Calls, closed, active, Enter, SendRest, callVars,
   commandVars, channelVars, chromeVars, loopVars
<1>1. TypeOK'
  BY DEF TypeOK
<1>2. SendersNeverBlock'
  BY DEF TypeOK, SendersNeverBlock, TableKnowsCalls
<1>3. DrainsFull'
  BY DEF DrainsFull, TypeOK
<1>4. TerminatedClean'
  BY DEF TerminatedClean, TypeOK
<1>5. WritesAreWatched'
  BY DEF TypeOK, WritesAreWatched, RequestHasCall
<1>6. RecoveryHoldsMu'
  BY DEF RecoveryHoldsMu, TypeOK
<1>7. TableKnowsCalls'
  BY DEF TypeOK, SendersNeverBlock, TableKnowsCalls
<1>8. ReportsAreTrue'
  BY DEF ReportsAreTrue, TypeOK
<1>9. RequestHasCall'
  BY DEF RequestHasCall, TypeOK
<1>10. OneCommandAtChrome'
  BY DEF TypeOK, OneCommandAtChrome, TableKnowsCalls
<1>11. OpenerFirst'
  BY DEF OpenerFirst, TypeOK
<1>12. GrantsAreNew'
  BY DEF GrantsAreNew, TypeOK
<1> QED BY <1>1, <1>2, <1>3, <1>4, <1>5, <1>6, <1>7, <1>8, <1>9, <1>10, <1>11, <1>12

\* The writer takes a command.
LEMMA HandOverInv ==
    ASSUME IInv, NEW c \in Calls, HandOver(c)
    PROVE  IInv'
<1> USE DevToolsAssumption DEF IInv, Inv, Calls, closed, active, HandOver, Go, callVars,
   commandVars, channelVars, chromeVars, loopVars
<1>1. (SendersNeverBlock /\ TerminatedClean /\ GrantsAreNew)'
  BY DEF SendersNeverBlock, TerminatedClean, GrantsAreNew
<1>2. TypeOK'
  BY DEF TypeOK
<1>3. DrainsFull'
  BY DEF DrainsFull, TypeOK
<1>4. WritesAreWatched'
  BY DEF WritesAreWatched, TypeOK
<1>5. RecoveryHoldsMu'
  BY DEF RecoveryHoldsMu, TypeOK
<1>6. TableKnowsCalls'
  BY DEF TableKnowsCalls, TypeOK
<1>7. ReportsAreTrue'
  BY DEF ReportsAreTrue, TypeOK
<1>8. RequestHasCall'
  BY DEF TypeOK, RequestHasCall, TableKnowsCalls
<1>9. OneCommandAtChrome'
  BY DEF OneCommandAtChrome, TypeOK
<1>10. OpenerFirst'
  BY DEF OpenerFirst, TypeOK
<1> QED BY <1>1, <1>2, <1>3, <1>4, <1>5, <1>6, <1>7, <1>8, <1>9, <1>10

\* The writer looks at the context and at the client.
LEMMA WriterChecksInv ==
    ASSUME IInv, WriterChecks
    PROVE  IInv'
<1> USE DevToolsAssumption DEF IInv, Inv, Calls, closed, active, WriterChecks, Report, Idle,
   Hold, WriterRest, callVars, commandVars, channelVars, chromeVars, loopVars
<1>1. (SendersNeverBlock /\ DrainsFull /\ TerminatedClean /\ RecoveryHoldsMu /\ OpenerFirst /\
       GrantsAreNew)'
  BY DEF SendersNeverBlock, DrainsFull, TerminatedClean, RecoveryHoldsMu, OpenerFirst,
     GrantsAreNew
<1>2. TypeOK'
  BY DEF TypeOK
<1>3. WritesAreWatched'
  BY DEF WritesAreWatched, TypeOK
<1>4. TableKnowsCalls'
  BY DEF TableKnowsCalls, TypeOK
<1>5. ReportsAreTrue'
  BY DEF ReportsAreTrue, TypeOK
<1>6. RequestHasCall'
  BY DEF RequestHasCall, TypeOK
<1>7. OneCommandAtChrome'
  BY DEF OneCommandAtChrome, TypeOK
<1> QED BY <1>1, <1>2, <1>3, <1>4, <1>5, <1>6, <1>7

\* It looks at the context again, and the write begins.
LEMMA WriterActivatesInv ==
    ASSUME IInv, WriterActivates
    PROVE  IInv'
<1> USE DevToolsAssumption DEF IInv, Inv, Calls, closed, active, WriterActivates, Report, Idle,
   Hold, WriterRest, callVars, commandVars, channelVars, chromeVars, loopVars
<1>1. (SendersNeverBlock /\ DrainsFull /\ TerminatedClean /\ RecoveryHoldsMu /\ OpenerFirst /\
       GrantsAreNew)'
  BY DEF SendersNeverBlock, DrainsFull, TerminatedClean, RecoveryHoldsMu, OpenerFirst,
     GrantsAreNew
<1>2. TypeOK'
  BY DEF TypeOK
<1>3. WritesAreWatched'
  BY DEF TypeOK, WritesAreWatched, RequestHasCall
<1>4. TableKnowsCalls'
  BY DEF TableKnowsCalls, TypeOK
<1>5. ReportsAreTrue'
  BY DEF ReportsAreTrue, TypeOK
<1>6. RequestHasCall'
  BY DEF RequestHasCall, TypeOK
<1>7. OneCommandAtChrome'
  BY DEF OneCommandAtChrome, TypeOK
<1> QED BY <1>1, <1>2, <1>3, <1>4, <1>5, <1>6, <1>7

\* Chrome reads the command.
LEMMA WriteReachesInv ==
    ASSUME IInv, WriteReaches
    PROVE  IInv'
<1> USE DevToolsAssumption DEF IInv, Inv, Calls, closed, active, WriteReaches, Hold, WriterRest,
   callVars, commandVars, channelVars, chromeVars, loopVars
<1>1. (SendersNeverBlock /\ DrainsFull /\ TerminatedClean /\ RecoveryHoldsMu /\ TableKnowsCalls
       /\ ReportsAreTrue /\ OpenerFirst /\ GrantsAreNew)'
  BY DEF SendersNeverBlock, DrainsFull, TerminatedClean, RecoveryHoldsMu, TableKnowsCalls,
     ReportsAreTrue, OpenerFirst, GrantsAreNew
<1>2. TypeOK'
  BY DEF TypeOK, RequestHasCall
<1>3. WritesAreWatched'
  BY DEF WritesAreWatched, TypeOK
<1>4. RequestHasCall'
  BY DEF RequestHasCall, TypeOK
<1>5. OneCommandAtChrome'
  BY DEF TypeOK, OneCommandAtChrome, RequestHasCall, TableKnowsCalls
<1> QED BY <1>1, <1>2, <1>3, <1>4, <1>5

\* The write returns.
LEMMA WriteReturnsInv ==
    ASSUME IInv, WriteReturns
    PROVE  IInv'
<1> USE DevToolsAssumption DEF IInv, Inv, Calls, closed, active, WriteReturns, Hold, WriterRest,
   callVars, commandVars, channelVars, chromeVars, loopVars
<1>1. (SendersNeverBlock /\ DrainsFull /\ TerminatedClean /\ RecoveryHoldsMu /\ TableKnowsCalls
       /\ ReportsAreTrue /\ OpenerFirst /\ GrantsAreNew)'
  BY DEF SendersNeverBlock, DrainsFull, TerminatedClean, RecoveryHoldsMu, TableKnowsCalls,
     ReportsAreTrue, OpenerFirst, GrantsAreNew
<1>2. TypeOK'
  BY DEF TypeOK
<1>3. WritesAreWatched'
  BY DEF WritesAreWatched, TypeOK
<1>4. RequestHasCall'
  BY DEF RequestHasCall, TypeOK
<1>5. OneCommandAtChrome'
  BY DEF OneCommandAtChrome, TypeOK
<1> QED BY <1>1, <1>2, <1>3, <1>4, <1>5

\* It is reported.
LEMMA WriterReportsInv ==
    ASSUME IInv, WriterReports
    PROVE  IInv'
<1> USE DevToolsAssumption DEF IInv, Inv, Calls, closed, active, WriterReports, Report, Idle,
   WriterRest, callVars, commandVars, channelVars, chromeVars, loopVars
<1>1. (SendersNeverBlock /\ DrainsFull /\ TerminatedClean /\ RecoveryHoldsMu /\ OpenerFirst /\
       GrantsAreNew)'
  BY DEF SendersNeverBlock, DrainsFull, TerminatedClean, RecoveryHoldsMu, OpenerFirst,
     GrantsAreNew
<1>2. TypeOK'
  BY DEF TypeOK
<1>3. WritesAreWatched'
  BY DEF WritesAreWatched, TypeOK
<1>4. TableKnowsCalls'
  BY DEF TableKnowsCalls, TypeOK
<1>5. ReportsAreTrue'
  BY DEF ReportsAreTrue, TypeOK
<1>6. RequestHasCall'
  BY DEF RequestHasCall, TypeOK
<1>7. OneCommandAtChrome'
  BY DEF OneCommandAtChrome, TypeOK
<1> QED BY <1>1, <1>2, <1>3, <1>4, <1>5, <1>6, <1>7

\* The write fails.
LEMMA WriteFailsInv ==
    ASSUME IInv, WriteFails
    PROVE  IInv'
<1> USE DevToolsAssumption DEF IInv, Inv, Calls, closed, active, WriteFails, Terminate,
   Terminated, Report, callVars, commandVars, channelVars, chromeVars, loopVars
<1>1. (RecoveryHoldsMu /\ OpenerFirst)'
  BY DEF RecoveryHoldsMu, OpenerFirst
<1>2. TypeOK'
  BY DEF TypeOK
<1>3. SendersNeverBlock'
  BY DEF SendersNeverBlock, TypeOK
<1>4. DrainsFull'
  BY DEF DrainsFull, TypeOK
<1>5. TerminatedClean'
  BY DEF TerminatedClean, TypeOK
<1>6. WritesAreWatched'
  BY DEF WritesAreWatched, TypeOK
<1>7. TableKnowsCalls'
  BY DEF TableKnowsCalls, TypeOK
<1>8. ReportsAreTrue'
  BY DEF ReportsAreTrue, TypeOK
<1>9. RequestHasCall'
  BY DEF RequestHasCall, TypeOK
<1>10. OneCommandAtChrome'
  BY DEF OneCommandAtChrome, TypeOK
<1>11. GrantsAreNew'
  BY DEF GrantsAreNew, TypeOK
<1> QED BY <1>1, <1>2, <1>3, <1>4, <1>5, <1>6, <1>7, <1>8, <1>9, <1>10, <1>11

\* The writer ends with the client.
LEMMA WriterStopsInv ==
    ASSUME IInv, WriterStops
    PROVE  IInv'
<1> USE DevToolsAssumption DEF IInv, Inv, Calls, closed, active, WriterStops, Hold, WriterRest,
   callVars, commandVars, channelVars, chromeVars, loopVars
<1>1. (SendersNeverBlock /\ DrainsFull /\ TerminatedClean /\ RecoveryHoldsMu /\ TableKnowsCalls
       /\ ReportsAreTrue /\ OpenerFirst /\ GrantsAreNew)'
  BY DEF SendersNeverBlock, DrainsFull, TerminatedClean, RecoveryHoldsMu, TableKnowsCalls,
     ReportsAreTrue, OpenerFirst, GrantsAreNew
<1>2. TypeOK'
  BY DEF TypeOK
<1>3. WritesAreWatched'
  BY DEF WritesAreWatched, TypeOK
<1>4. RequestHasCall'
  BY DEF RequestHasCall, TypeOK
<1>5. OneCommandAtChrome'
  BY DEF OneCommandAtChrome, TypeOK
<1> QED BY <1>1, <1>2, <1>3, <1>4, <1>5

\* Chrome answers a command.
LEMMA AnswerInv ==
    ASSUME IInv, NEW c \in Calls, Answer(c)
    PROVE  IInv'
<1> USE DevToolsAssumption DEF IInv, Inv, Calls, closed, active, Answer, Deliver, Kinds,
   callVars, commandVars, channelVars, chromeVars, loopVars
<1>1. (WritesAreWatched /\ RecoveryHoldsMu /\ RequestHasCall /\ OpenerFirst)'
  BY DEF WritesAreWatched, RecoveryHoldsMu, RequestHasCall, OpenerFirst
<1>2. TypeOK'
  BY DEF TypeOK
<1>3. SendersNeverBlock'
  BY DEF SendersNeverBlock, TypeOK
<1>4. DrainsFull'
  BY DEF DrainsFull, TypeOK
<1>5. TerminatedClean'
  BY DEF TerminatedClean, TypeOK
<1>6. TableKnowsCalls'
  BY DEF TableKnowsCalls, TypeOK
<1>7. ReportsAreTrue'
  BY DEF ReportsAreTrue, TypeOK
<1>8. OneCommandAtChrome'
  BY DEF OneCommandAtChrome, TypeOK
<1>9. GrantsAreNew'
  BY DEF GrantsAreNew, TypeOK
<1> QED BY <1>1, <1>2, <1>3, <1>4, <1>5, <1>6, <1>7, <1>8, <1>9

\* The page loses its sessions.
LEMMA SessionEndsInv ==
    ASSUME IInv, SessionEnds
    PROVE  IInv'
<1> USE DevToolsAssumption DEF IInv, Inv, Calls, closed, active, SessionEnds, callVars,
   commandVars, channelVars, chromeVars, loopVars
<1>1. (SendersNeverBlock /\ DrainsFull /\ TerminatedClean /\ WritesAreWatched /\ RecoveryHoldsMu
       /\ TableKnowsCalls /\ ReportsAreTrue /\ RequestHasCall /\ OneCommandAtChrome /\ OpenerFirst
       /\ GrantsAreNew)'
  BY DEF SendersNeverBlock, DrainsFull, TerminatedClean, WritesAreWatched, RecoveryHoldsMu,
     TableKnowsCalls, ReportsAreTrue, RequestHasCall, OneCommandAtChrome, OpenerFirst,
     GrantsAreNew
<1>2. TypeOK'
  BY DEF TypeOK
<1> QED BY <1>1, <1>2

\* The reader ends.
LEMMA ReadFailsInv ==
    ASSUME IInv, ReadFails
    PROVE  IInv'
<1> USE DevToolsAssumption DEF IInv, Inv, Calls, closed, active, ReadFails, Terminate,
   Terminated, callVars, commandVars, channelVars, chromeVars, loopVars
<1>1. (RecoveryHoldsMu /\ OpenerFirst)'
  BY DEF RecoveryHoldsMu, OpenerFirst
<1>2. TypeOK'
  BY DEF TypeOK
<1>3. SendersNeverBlock'
  BY DEF SendersNeverBlock, TypeOK
<1>4. DrainsFull'
  BY DEF DrainsFull, TypeOK
<1>5. TerminatedClean'
  BY DEF TerminatedClean, TypeOK
<1>6. WritesAreWatched'
  BY DEF WritesAreWatched, TypeOK
<1>7. TableKnowsCalls'
  BY DEF TableKnowsCalls, TypeOK
<1>8. ReportsAreTrue'
  BY DEF ReportsAreTrue, TypeOK
<1>9. RequestHasCall'
  BY DEF RequestHasCall, TypeOK
<1>10. OneCommandAtChrome'
  BY DEF OneCommandAtChrome, TypeOK
<1>11. GrantsAreNew'
  BY DEF GrantsAreNew, TypeOK
<1> QED BY <1>1, <1>2, <1>3, <1>4, <1>5, <1>6, <1>7, <1>8, <1>9, <1>10, <1>11

\* The pipe is closed.
LEMMA TransportClosesInv ==
    ASSUME IInv, TransportCloses
    PROVE  IInv'
<1> USE DevToolsAssumption DEF IInv, Inv, Calls, closed, active, TransportCloses, callVars,
   commandVars, channelVars, chromeVars, loopVars
<1>1. (SendersNeverBlock /\ DrainsFull /\ RecoveryHoldsMu /\ TableKnowsCalls /\
       OneCommandAtChrome /\ OpenerFirst /\ GrantsAreNew)'
  BY DEF SendersNeverBlock, DrainsFull, RecoveryHoldsMu, TableKnowsCalls, OneCommandAtChrome,
     OpenerFirst, GrantsAreNew
<1>2. TypeOK'
  BY DEF TypeOK
<1>3. TerminatedClean'
  BY DEF TerminatedClean, TypeOK
<1>4. WritesAreWatched'
  BY DEF WritesAreWatched, TypeOK
<1>5. ReportsAreTrue'
  BY DEF ReportsAreTrue, TypeOK
<1>6. RequestHasCall'
  BY DEF RequestHasCall, TypeOK
<1> QED BY <1>1, <1>2, <1>3, <1>4, <1>5, <1>6

\* The client is closed.
LEMMA CloseInv ==
    ASSUME IInv, Close
    PROVE  IInv'
<1> USE DevToolsAssumption DEF IInv, Inv, Calls, closed, active, Close, Terminate, Terminated,
   callVars, commandVars, channelVars, chromeVars, loopVars
<1>1. (RecoveryHoldsMu /\ OpenerFirst)'
  BY DEF RecoveryHoldsMu, OpenerFirst
<1>2. TypeOK'
  BY DEF TypeOK
<1>3. SendersNeverBlock'
  BY DEF SendersNeverBlock, TypeOK
<1>4. DrainsFull'
  BY DEF DrainsFull, TypeOK
<1>5. TerminatedClean'
  BY DEF TerminatedClean, TypeOK
<1>6. WritesAreWatched'
  BY DEF WritesAreWatched, TypeOK
<1>7. TableKnowsCalls'
  BY DEF TableKnowsCalls, TypeOK
<1>8. ReportsAreTrue'
  BY DEF ReportsAreTrue, TypeOK
<1>9. RequestHasCall'
  BY DEF RequestHasCall, TypeOK
<1>10. OneCommandAtChrome'
  BY DEF OneCommandAtChrome, TypeOK
<1>11. GrantsAreNew'
  BY DEF GrantsAreNew, TypeOK
<1> QED BY <1>1, <1>2, <1>3, <1>4, <1>5, <1>6, <1>7, <1>8, <1>9, <1>10, <1>11

\* A blocked write is ended with its client.
LEMMA AbortKillsInv ==
    ASSUME IInv, NEW c \in Calls, AbortKills(c)
    PROVE  IInv'
<1> USE DevToolsAssumption DEF IInv, Inv, Calls, closed, active, AbortKills, Terminate,
   Terminated, callVars, commandVars, channelVars, chromeVars, loopVars
<1>1. TypeOK'
  BY DEF TypeOK
<1>2. SendersNeverBlock'
  BY DEF SendersNeverBlock, TypeOK
<1>3. DrainsFull'
  BY DEF DrainsFull, TypeOK
<1>4. TerminatedClean'
  BY DEF TerminatedClean, TypeOK
<1>5. WritesAreWatched'
  BY DEF WritesAreWatched, TypeOK
<1>6. RecoveryHoldsMu'
  BY DEF RecoveryHoldsMu, TypeOK
<1>7. TableKnowsCalls'
  BY DEF TableKnowsCalls, TypeOK
<1>8. ReportsAreTrue'
  BY DEF ReportsAreTrue, TypeOK
<1>9. RequestHasCall'
  BY DEF RequestHasCall, TypeOK
<1>10. OneCommandAtChrome'
  BY DEF OneCommandAtChrome, TypeOK
<1>11. OpenerFirst'
  BY DEF OpenerFirst, TypeOK
<1>12. GrantsAreNew'
  BY DEF GrantsAreNew, TypeOK
<1> QED BY <1>1, <1>2, <1>3, <1>4, <1>5, <1>6, <1>7, <1>8, <1>9, <1>10, <1>11, <1>12

\* Nothing changes.
LEMMA StutterInv ==
    ASSUME IInv, UNCHANGED vars
    PROVE  IInv'
<1> USE DevToolsAssumption DEF IInv, Inv, Calls, closed, active, vars, callVars, commandVars,
   channelVars, chromeVars, loopVars
<1>1. (SendersNeverBlock /\ DrainsFull /\ TerminatedClean /\ WritesAreWatched /\ RecoveryHoldsMu
       /\ TableKnowsCalls /\ ReportsAreTrue /\ RequestHasCall /\ OneCommandAtChrome /\ OpenerFirst
       /\ GrantsAreNew)'
  BY DEF SendersNeverBlock, DrainsFull, TerminatedClean, WritesAreWatched, RecoveryHoldsMu,
     TableKnowsCalls, ReportsAreTrue, RequestHasCall, OneCommandAtChrome, OpenerFirst,
     GrantsAreNew
<1>2. TypeOK'
  BY DEF TypeOK
<1> QED BY <1>1, <1>2

\* Where a call is after a return: it has ended,
Moves(c, place, command) == at' = [at EXCEPT ![c] = place] /\ round' = [round EXCEPT ![c] = command]

Ends(c) ==
    /\ Moves(c, "done", round[c])
    /\ sessionID' = sessionID
    /\ recoverMu' = IF recoverMu = c THEN "none" ELSE recoverMu

\* or it has taken an answer and goes on to its next command, or to recoverMu,
GoesOn(c) ==
    /\ \/ /\ c = Opener /\ round[c] = "discover"
          /\ \E next \in {"discover", "join"} : Moves(c, "sending", next)
       \/ c \in Callers /\ round[c] = "first" /\ Moves(c, "locking", "first")
       \/ c \in Callers /\ round[c] = "targets" /\ Moves(c, "sending", "attach")
    /\ UNCHANGED <<sessionID, recoverMu>>

\* or it stores the session it was granted.
Stores(c) ==
    /\ response[c] = "attached"
    /\ \/ /\ c = Opener /\ round[c] = "join" /\ Moves(c, "done", "join")
          /\ UNCHANGED recoverMu
       \/ /\ c \in Callers /\ round[c] = "attach" /\ Moves(c, "sending", "again")
          /\ recoverMu = c /\ recoverMu' = "none"
    /\ sessionID' = granted[c]

\* A return is one of these.
LEMMA ReturnCases ==
    ASSUME IInv, NEW c \in Calls, NEW outcome, Return(c, outcome), SendRest,
           at[c] \in {"sending", "queueing", "writing", "aborting", "waiting", "draining"},
           pending' = pending \ {c},
           outcome = "canceled" => c \in canceled,
           outcome = "closed" => closed,
           active # c \/ closed,
           \/ outcome \in {"canceled", "closed"}
           \/ at[c] = "waiting" /\ outcome = response[c] /\ outcome # "none"
    PROVE  \/ Ends(c)
           \/ /\ at[c] = "waiting" /\ response[c] \notin {"none", "closed"}
              /\ GoesOn(c) \/ Stores(c)
<1> USE DevToolsAssumption DEF IInv, Inv, Calls, closed, active, Return, Moves, Unlock, Continue,
              End, Ends
<1>1. CASE c = Opener
  BY <1>1 DEF OpenerReturn, TypeOK, OpenerFirst, RecoveryHoldsMu, GoesOn, Stores
<1>2. CASE c # Opener
  BY <1>2 DEF CallerReturn, TypeOK, OpenerFirst, RecoveryHoldsMu, GoesOn, Stores
<1> QED BY <1>1, <1>2

\* A command returns to its call; only a session newer than the one in use is stored.
LEMMA ReturnInv ==
    ASSUME IInv, NEW c \in Calls, NEW outcome, Return(c, outcome), SendRest,
           at[c] \in {"sending", "queueing", "writing", "aborting", "waiting", "draining"},
           pending' = pending \ {c},
           outcome = "canceled" => c \in canceled,
           outcome = "closed" => closed,
           active # c \/ closed,
           \/ outcome \in {"canceled", "closed"}
           \/ at[c] = "waiting" /\ outcome = response[c] /\ outcome # "none"
    PROVE  IInv' /\ sessionID' >= sessionID
<1> USE DevToolsAssumption DEF IInv, Inv, Calls, closed, active, SendRest, Moves, callVars,
   commandVars, channelVars, chromeVars, loopVars
<1>1. /\ response' = [response EXCEPT ![c] = "none"] /\ reported' = [reported EXCEPT ![c] = "none"]
      /\ carried' = [carried EXCEPT ![c] = 0] /\ granted' = [granted EXCEPT ![c] = 0]
  BY DEF Return
<1>2. CASE Ends(c)
  <2>1. TypeOK'
    BY <1>1, <1>2 DEF Ends, TypeOK
  <2>2. SendersNeverBlock'
    BY <1>1, <1>2 DEF Ends, SendersNeverBlock, TypeOK
  <2>3. DrainsFull'
    BY <1>1, <1>2 DEF Ends, DrainsFull, TypeOK
  <2>4. TerminatedClean'
    BY <1>1, <1>2 DEF Ends, TerminatedClean, TypeOK
  <2>5. WritesAreWatched'
    BY <1>1, <1>2 DEF Ends, WritesAreWatched, TypeOK
  <2>6. RecoveryHoldsMu'
    BY <1>1, <1>2 DEF Ends, RecoveryHoldsMu, TypeOK
  <2>7. TableKnowsCalls'
    BY <1>1, <1>2 DEF Ends, TableKnowsCalls, TypeOK
  <2>8. ReportsAreTrue'
    BY <1>1, <1>2 DEF Ends, ReportsAreTrue, TypeOK
  <2>9. RequestHasCall'
    BY <1>1, <1>2 DEF Ends, RequestHasCall, TypeOK
  <2>10. OneCommandAtChrome'
    BY <1>1, <1>2 DEF Ends, OneCommandAtChrome, TypeOK
  <2>11. OpenerFirst'
    BY <1>1, <1>2 DEF Ends, OpenerFirst, TypeOK
  <2>12. GrantsAreNew'
    BY <1>1, <1>2 DEF Ends, GrantsAreNew, TypeOK
  <2>13. sessionID' >= sessionID
    BY <1>1, <1>2 DEF Ends, GrantsAreNew, TypeOK
  <2> QED BY <2>1, <2>2, <2>3, <2>4, <2>5, <2>6, <2>7, <2>8, <2>9, <2>10, <2>11, <2>12, <2>13
<1>3. CASE at[c] = "waiting" /\ response[c] \notin {"none", "closed"} /\ GoesOn(c)
  <2>1. TypeOK'
    BY <1>1, <1>3 DEF GoesOn, TypeOK
  <2>2. SendersNeverBlock'
    BY <1>1, <1>3 DEF GoesOn, SendersNeverBlock, TypeOK
  <2>3. DrainsFull'
    BY <1>1, <1>3 DEF GoesOn, DrainsFull, TypeOK
  <2>4. TerminatedClean'
    BY <1>1, <1>3 DEF GoesOn, TerminatedClean, TypeOK
  <2>5. WritesAreWatched'
    BY <1>1, <1>3 DEF GoesOn, WritesAreWatched, TypeOK
  <2>6. RecoveryHoldsMu'
    BY <1>1, <1>3 DEF GoesOn, RecoveryHoldsMu, TypeOK
  <2>7. TableKnowsCalls'
    BY <1>1, <1>3 DEF GoesOn, TableKnowsCalls, TypeOK
  <2>8. ReportsAreTrue'
    BY <1>1, <1>3 DEF GoesOn, ReportsAreTrue, TypeOK
  <2>9. RequestHasCall'
    BY <1>1, <1>3 DEF GoesOn, RequestHasCall, TypeOK
  <2>10. OneCommandAtChrome'
    BY <1>1, <1>3 DEF GoesOn, OneCommandAtChrome, TypeOK
  <2>11. OpenerFirst'
    BY <1>1, <1>3 DEF GoesOn, OpenerFirst, TypeOK
  <2>12. GrantsAreNew'
    BY <1>1, <1>3 DEF GoesOn, GrantsAreNew, TypeOK
  <2>13. sessionID' >= sessionID
    BY <1>1, <1>3 DEF GoesOn, GrantsAreNew, TypeOK
  <2> QED BY <2>1, <2>2, <2>3, <2>4, <2>5, <2>6, <2>7, <2>8, <2>9, <2>10, <2>11, <2>12, <2>13
<1>4. CASE at[c] = "waiting" /\ Stores(c)
  <2>1. TypeOK'
    BY <1>1, <1>4 DEF Stores, TypeOK
  <2>2. SendersNeverBlock'
    BY <1>1, <1>4 DEF Stores, SendersNeverBlock, TypeOK
  <2>3. DrainsFull'
    BY <1>1, <1>4 DEF Stores, DrainsFull, TypeOK
  <2>4. TerminatedClean'
    BY <1>1, <1>4 DEF Stores, TerminatedClean, TypeOK
  <2>5. WritesAreWatched'
    BY <1>1, <1>4 DEF Stores, WritesAreWatched, TypeOK
  <2>6. RecoveryHoldsMu'
    BY <1>1, <1>4 DEF Stores, RecoveryHoldsMu, TypeOK
  <2>7. TableKnowsCalls'
    BY <1>1, <1>4 DEF Stores, TableKnowsCalls, TypeOK
  <2>8. ReportsAreTrue'
    BY <1>1, <1>4 DEF Stores, ReportsAreTrue, TypeOK
  <2>9. RequestHasCall'
    BY <1>1, <1>4 DEF Stores, RequestHasCall, TypeOK
  <2>10. OneCommandAtChrome'
    BY <1>1, <1>4 DEF Stores, OneCommandAtChrome, TypeOK
  <2>11. OpenerFirst'
    BY <1>1, <1>4 DEF Stores, OpenerFirst, GrantsAreNew, TypeOK
  <2>12. GrantsAreNew'
    <3>1. granted[c] >= 1 /\ granted[c] <= sessions
      BY <1>4 DEF Stores, GrantsAreNew
    <3>2. \A d \in Calls \ {c} : response[d] # "attached"
      BY <1>4 DEF Stores, GrantsAreNew, OpenerFirst, RecoveryHoldsMu, TableKnowsCalls
    <3> QED BY <1>1, <1>4, <3>1, <3>2 DEF Stores, GrantsAreNew, TypeOK
  <2>13. sessionID' >= sessionID
    BY <1>1, <1>4 DEF Stores, GrantsAreNew, TypeOK
  <2> QED BY <2>1, <2>2, <2>3, <2>4, <2>5, <2>6, <2>7, <2>8, <2>9, <2>10, <2>11, <2>12, <2>13
<1> QED BY ReturnCases, <1>2, <1>3, <1>4

\* A written command waits for its answer.
LEMMA WaitsInv ==
    ASSUME IInv, NEW c \in Calls, at[c] = "writing", reported[c] = "ok",
           UNCHANGED pending, Go(c, "waiting"), SendRest
    PROVE  IInv'
<1> USE DevToolsAssumption DEF IInv, Inv, Calls, closed, active, Go, SendRest, RemovePending,
   callVars, commandVars, channelVars, chromeVars, loopVars
<1>1. (SendersNeverBlock /\ TerminatedClean /\ GrantsAreNew)'
  BY DEF SendersNeverBlock, TerminatedClean, GrantsAreNew
<1>2. TypeOK'
  BY DEF TypeOK
<1>3. DrainsFull'
  BY DEF DrainsFull, TypeOK
<1>4. WritesAreWatched'
  BY DEF TypeOK, WritesAreWatched, RequestHasCall
<1>5. RecoveryHoldsMu'
  BY DEF RecoveryHoldsMu, TypeOK
<1>6. TableKnowsCalls'
  BY DEF TableKnowsCalls, TypeOK
<1>7. ReportsAreTrue'
  BY DEF ReportsAreTrue, TypeOK
<1>8. RequestHasCall'
  BY DEF RequestHasCall, TypeOK
<1>9. OneCommandAtChrome'
  BY DEF OneCommandAtChrome, TypeOK
<1>10. OpenerFirst'
  BY DEF OpenerFirst, TypeOK
<1> QED BY <1>1, <1>2, <1>3, <1>4, <1>5, <1>6, <1>7, <1>8, <1>9, <1>10

\* A canceled call gives up its write.
LEMMA AbortsInv ==
    ASSUME IInv, NEW c \in Calls, at[c] = "writing", c \in canceled,
           RemovePending(c), Go(c, "aborting"), SendRest
    PROVE  IInv'
<1> USE DevToolsAssumption DEF IInv, Inv, Calls, closed, active, Go, SendRest, RemovePending,
   callVars, commandVars, channelVars, chromeVars, loopVars
<1>1. TypeOK'
  BY DEF TypeOK
<1>2. SendersNeverBlock'
  BY DEF SendersNeverBlock, TypeOK
<1>3. DrainsFull'
  BY DEF DrainsFull, TypeOK
<1>4. TerminatedClean'
  BY DEF TerminatedClean, TypeOK
<1>5. WritesAreWatched'
  BY DEF WritesAreWatched, TypeOK
<1>6. RecoveryHoldsMu'
  BY DEF RecoveryHoldsMu, TypeOK
<1>7. TableKnowsCalls'
  BY DEF TableKnowsCalls, TypeOK
<1>8. ReportsAreTrue'
  BY DEF ReportsAreTrue, TypeOK
<1>9. RequestHasCall'
  BY DEF RequestHasCall, TypeOK
<1>10. OneCommandAtChrome'
  BY DEF OneCommandAtChrome, TypeOK
<1>11. OpenerFirst'
  BY DEF OpenerFirst, TypeOK
<1>12. GrantsAreNew'
  BY DEF GrantsAreNew, TypeOK
<1> QED BY <1>1, <1>2, <1>3, <1>4, <1>5, <1>6, <1>7, <1>8, <1>9, <1>10, <1>11, <1>12

\* The grace of the write is over.
LEMMA KillsInv ==
    ASSUME IInv, NEW c \in Calls, at[c] = "aborting", active = c,
           UNCHANGED pending, Go(c, "killing"), SendRest
    PROVE  IInv'
<1> USE DevToolsAssumption DEF IInv, Inv, Calls, closed, active, Go, SendRest, RemovePending,
   callVars, commandVars, channelVars, chromeVars, loopVars
<1>1. (SendersNeverBlock /\ TerminatedClean /\ GrantsAreNew)'
  BY DEF SendersNeverBlock, TerminatedClean, GrantsAreNew
<1>2. TypeOK'
  BY DEF TypeOK
<1>3. DrainsFull'
  BY DEF DrainsFull, TypeOK
<1>4. WritesAreWatched'
  BY DEF WritesAreWatched, TypeOK
<1>5. RecoveryHoldsMu'
  BY DEF RecoveryHoldsMu, TypeOK
<1>6. TableKnowsCalls'
  BY DEF TableKnowsCalls, TypeOK
<1>7. ReportsAreTrue'
  BY DEF ReportsAreTrue, TypeOK
<1>8. RequestHasCall'
  BY DEF RequestHasCall, TypeOK
<1>9. OneCommandAtChrome'
  BY DEF OneCommandAtChrome, TypeOK
<1>10. OpenerFirst'
  BY DEF OpenerFirst, TypeOK
<1> QED BY <1>1, <1>2, <1>3, <1>4, <1>5, <1>6, <1>7, <1>8, <1>9, <1>10

\* A canceled call finds its command taken.
LEMMA DrainsInv ==
    ASSUME IInv, NEW c \in Calls, at[c] = "waiting", c \in canceled \ pending,
           UNCHANGED pending, Go(c, "draining"), SendRest
    PROVE  IInv'
<1> USE DevToolsAssumption DEF IInv, Inv, Calls, closed, active, Go, SendRest, RemovePending,
   callVars, commandVars, channelVars, chromeVars, loopVars
<1>1. (SendersNeverBlock /\ TerminatedClean /\ GrantsAreNew)'
  BY DEF SendersNeverBlock, TerminatedClean, GrantsAreNew
<1>2. TypeOK'
  BY DEF TypeOK
<1>3. DrainsFull'
  BY DEF TypeOK, DrainsFull, TableKnowsCalls
<1>4. WritesAreWatched'
  BY DEF TypeOK, WritesAreWatched, RequestHasCall
<1>5. RecoveryHoldsMu'
  BY DEF RecoveryHoldsMu, TypeOK
<1>6. TableKnowsCalls'
  BY DEF TableKnowsCalls, TypeOK
<1>7. ReportsAreTrue'
  BY DEF ReportsAreTrue, TypeOK
<1>8. RequestHasCall'
  BY DEF RequestHasCall, TypeOK
<1>9. OneCommandAtChrome'
  BY DEF OneCommandAtChrome, TypeOK
<1>10. OpenerFirst'
  BY DEF OpenerFirst, TypeOK
<1> QED BY <1>1, <1>2, <1>3, <1>4, <1>5, <1>6, <1>7, <1>8, <1>9, <1>10

\* What a call does by itself.
LEMMA StepInv ==
    ASSUME IInv, NEW c \in Calls, Step(c)
    PROVE  IInv' /\ sessionID' >= sessionID
<1> USE DEF closed, RemovePending
<1>1. /\ closed => pending = {}
      /\ at[c] \in {"sending", "queueing", "waiting", "draining"} => active # c
      /\ reported[c] # "none" => active # c
      /\ reported[c] \in {"none", "ok", "canceled", "closed"} /\ response[c] # "canceled"
      /\ reported[c] = "closed" \/ response[c] = "closed" => closed
      /\ reported[c] = "canceled" => c \in canceled
      /\ at[c] \in {"sending", "aborting", "draining"} => c \notin pending
      /\ at[c] \in {"waiting", "draining"} /\ response[c] # "none" => c \notin pending
      /\ at[c] \in {"aborting", "draining"} => c \in canceled
  BY DevToolsAssumption DEF IInv, Inv, Calls, active, TypeOK, TerminatedClean, RequestHasCall,
     TableKnowsCalls, ReportsAreTrue
<1>2. sessionID' = sessionID => sessionID' >= sessionID
  BY DEF IInv, TypeOK
<1>13. CASE Lock(c)  BY <1>2, <1>13, LockInv DEF Lock
<1>3. CASE Register(c)
  <2>1. CASE c \in canceled /\ UNCHANGED pending /\ Return(c, "canceled")
    BY <1>1, <1>3, <2>1, ReturnInv DEF Register
  <2>2. CASE closed /\ UNCHANGED pending /\ Return(c, "closed")
    BY <1>1, <1>3, <2>2, ReturnInv DEF Register
  <2>3. CASE c \notin canceled /\ ~closed /\ Enter(c)
    BY <1>2, <1>3, <2>3, EnterInv DEF Register, Enter
  <2> QED BY <1>3, <2>1, <2>2, <2>3 DEF Register
<1>4. CASE HandOver(c)  BY <1>2, <1>4, HandOverInv DEF HandOver, Go
<1>5. CASE NotQueued(c)
  <2>1. CASE c \in canceled /\ RemovePending(c) /\ Return(c, "canceled")
    BY <1>1, <1>5, <2>1, ReturnInv DEF NotQueued
  <2>2. CASE closed /\ UNCHANGED pending /\ Return(c, "closed")
    BY <1>1, <1>5, <2>2, ReturnInv DEF NotQueued
  <2> QED BY <1>5, <2>1, <2>2 DEF NotQueued
<1>6. CASE Written(c)
  <2>1. CASE c \in canceled /\ RemovePending(c) /\ Return(c, "canceled")
    BY <1>1, <1>6, <2>1, ReturnInv DEF Written
  <2>2. CASE c \notin canceled /\ reported[c] # "ok" /\ UNCHANGED pending /\ Return(c, "closed")
    BY <1>1, <1>6, <2>2, ReturnInv DEF Written
  <2>3. CASE c \notin canceled /\ reported[c] = "ok" /\ UNCHANGED pending /\ Go(c, "waiting")
    BY <1>2, <1>6, <2>3, WaitsInv DEF Written, Go
  <2> QED BY <1>6, <2>1, <2>2, <2>3 DEF Written
<1>7. CASE NotWritten(c)
  <2>1. CASE c \in canceled /\ RemovePending(c) /\ Go(c, "aborting")
    BY <1>2, <1>7, <2>1, AbortsInv DEF NotWritten, Go
  <2>2. CASE c \notin canceled /\ closed /\ UNCHANGED pending /\ Return(c, "closed")
    BY <1>1, <1>7, <2>2, ReturnInv DEF NotWritten
  <2> QED BY <1>7, <2>1, <2>2 DEF NotWritten
<1>8. CASE Abort(c)
  <2>1. CASE (reported[c] # "none" \/ closed \/ active # c) /\ Return(c, "canceled")
    BY <1>1, <1>8, <2>1, ReturnInv DEF Abort
  <2>2. CASE active = c /\ Go(c, "killing")
    BY <1>2, <1>8, <2>2, KillsInv DEF Abort, Go
  <2> QED BY <1>8, <2>1, <2>2 DEF Abort
<1>9. CASE AbortKills(c)  BY <1>2, <1>9, AbortKillsInv DEF AbortKills
<1>10. CASE Answered(c)
  <2>1. CASE c \in canceled
    BY <1>1, <1>10, <2>1, ReturnInv DEF Answered
  <2>2. CASE c \notin canceled
    BY <1>1, <1>10, <2>2, ReturnInv DEF Answered
  <2> QED BY <2>1, <2>2
<1>11. CASE NotAnswered(c)
  <2>1. CASE c \in canceled \cap pending /\ RemovePending(c) /\ Return(c, "canceled")
    BY <1>1, <1>11, <2>1, ReturnInv DEF NotAnswered
  <2>2. CASE c \in canceled \ pending /\ UNCHANGED pending /\ Go(c, "draining")
    BY <1>2, <1>11, <2>2, DrainsInv DEF NotAnswered, Go
  <2>3. CASE closed /\ UNCHANGED pending /\ Return(c, "closed")
    BY <1>1, <1>11, <2>3, ReturnInv DEF NotAnswered
  <2> QED BY <1>11, <2>1, <2>2, <2>3 DEF NotAnswered
<1>12. CASE Drain(c)
  <2>1. CASE response[c] = "closed"
    BY <1>1, <1>12, <2>1, ReturnInv DEF Drain
  <2>2. CASE response[c] # "closed"
    BY <1>1, <1>12, <2>2, ReturnInv DEF Drain
  <2> QED BY <2>1, <2>2
<1> QED BY <1>13, <1>3, <1>4, <1>5, <1>6, <1>7, <1>8, <1>9, <1>10, <1>11, <1>12 DEF Step

\* Every step keeps it, and the session.
LEMMA NextInv ==
    ASSUME IInv, [Next]_vars
    PROVE  IInv' /\ sessionID' >= sessionID
<1> USE DEF callVars
<1>1. sessionID' = sessionID => sessionID' >= sessionID
  BY DEF IInv, TypeOK
<1>2. CASE \E c \in Calls : Start(c) \/ Cancel(c) \/ Step(c)
  BY <1>1, <1>2, StartInv, CancelInv, StepInv DEF Start, Cancel
<1>3. CASE WriterStep
  <2>1. sessionID' = sessionID
    BY <1>3 DEF WriterStep, WriterChecks, WriterActivates, WriteReturns, WriterReports, WriterStops,
          WriterRest
  <2> QED BY <1>1, <1>3, <2>1, WriterChecksInv, WriterActivatesInv, WriteReturnsInv, WriterReportsInv,
             WriterStopsInv DEF WriterStep
<1>4. CASE WriteFails \/ ReadFails \/ TransportCloses
  BY <1>1, <1>4, WriteFailsInv, ReadFailsInv, TransportClosesInv
     DEF WriteFails, ReadFails, TransportCloses
<1>5. CASE Chrome
  <2>1. sessionID' = sessionID
    BY <1>5 DEF Chrome, WriteReaches, WriterRest, SessionEnds, Answer
  <2> QED BY <1>1, <1>5, <2>1, WriteReachesInv, SessionEndsInv, AnswerInv DEF Chrome
<1>6. CASE Close  BY <1>1, <1>6, CloseInv DEF Close
<1>7. CASE UNCHANGED vars  BY <1>1, <1>7, StutterInv DEF vars
<1> QED BY <1>2, <1>3, <1>4, <1>5, <1>6, <1>7 DEF Next

\* Whatever the calls, the writer, the reader and Chrome do, the tables and the channels
\* agree with what each call is about to do: a send on a response channel has room, a
\* receive without a context has something to receive, and a write under way is watched
\* (send, writeLoop, readLoop, terminate, abortWrite).
THEOREM ClientKeepsItsTables == Spec => []IInv
<1> QED BY InitInv, NextInv, PTL DEF Spec

\* Recoveries that overlap never put back a session older than the one in use
\* (recoverRiotPageSession, setSessionID).
THEOREM SessionsAreRenewed == Spec => SessionNeverGoesBack
<1>1. IInv /\ [Next]_vars => [sessionID' >= sessionID]_vars
  BY NextInv
<1> QED BY <1>1, ClientKeepsItsTables, PTL DEF Spec, SessionNeverGoesBack

=============================================================================
