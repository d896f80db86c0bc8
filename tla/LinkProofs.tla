------------------------------ MODULE LinkProofs ------------------------------
(***************************************************************************)
(* Proofs about the two components that link an account without the worker *)
(* of a password login: the second factor (MFAFlow), for every set of      *)
(* submissions, and the QR and legacy browser logins (PendingAuth), for    *)
(* any number of logins, callbacks and crashes.                            *)
(***************************************************************************)
EXTENDS MFAFlow, PendingAuth, TLAPS

-----------------------------------------------------------------------------
(* The second factor: its invariant is inductive.                          *)


\* The inductive invariant holds before the continuation is opened.
LEMMA MFAInitInv == MFAInit => MFAInv
<1> SUFFICES ASSUME MFAInit PROVE MFAInv OBVIOUS
<1> USE DEF MFAInit
<1>1. MFATypeOK BY DEF MFATypeOK, Holding
<1>2. Joined /\ Drained BY DEF Joined, Drained, Holding
<1>3. LinkBelongsToTaker BY DEF LinkBelongsToTaker
<1>4. TakersJoin BY <1>2 DEF TakersJoin
<1>5. ChallengeUsedOnce BY DEF ChallengeUsedOnce
<1>6. \A s \in Submitters : submission[s] = "idle" /\ answer[s] = "none" OBVIOUS
<1>7. QED BY <1>1, <1>3, <1>4, <1>5, <1>6 DEF MFAInv, Holding

\* A submission that gets in, is refused or waits for submitMu preserves it.
LEMMA SubmitStartInv ==
    ASSUME MFAInv, NEW s \in Submitters, SubmitEnroll(s) \/ SubmitAdmit(s) \/ SubmitLock(s)
    PROVE  MFAInv'
<1> USE MFAFlowAssumption DEF MFAInv, MFATypeOK, LinkBelongsToTaker, TakersJoin, ChallengeUsedOnce,
        Live, Joined, Drained, Holding, SubmitRest, flowVars, Finish, SubmitMuFree, sealed
<1>1. CASE SubmitEnroll(s)
  BY <1>1 DEF SubmitEnroll
<1>2. CASE SubmitAdmit(s)
  BY <1>2 DEF SubmitAdmit
<1>3. CASE SubmitLock(s)
  BY <1>3 DEF SubmitLock
<1>4. QED BY <1>1, <1>2, <1>3

\* So does what a submission does with Riot's answer.
LEMMA SubmitAnswerInv ==
    ASSUME MFAInv, NEW s \in Submitters,
           SubmitAnswered(s) \/ SubmitRecheck(s) \/ SubmitConsume(s) \/ SubmitRelease(s)
    PROVE  MFAInv'
<1> USE MFAFlowAssumption DEF MFAInv, MFATypeOK, LinkBelongsToTaker, TakersJoin, ChallengeUsedOnce,
        Live, Joined, Drained, Holding, SubmitRest, flowVars, Finish, TakeEntry
<1>1. CASE SubmitAnswered(s)
  BY <1>1 DEF SubmitAnswered
<1>2. CASE SubmitRecheck(s)
  BY <1>2 DEF SubmitRecheck
<1>3. CASE SubmitConsume(s)
  BY <1>3 DEF SubmitConsume
<1>4. CASE SubmitRelease(s)
  BY <1>4 DEF SubmitRelease
<1>5. QED BY <1>1, <1>2, <1>3, <1>4

\* So does linking the account.
LEMMA SubmitLinkInv ==
    ASSUME MFAInv, NEW s \in Submitters, SubmitPrepare(s) \/ SubmitCommit(s)
    PROVE  MFAInv'
<1> USE MFAFlowAssumption DEF MFAInv, MFATypeOK, LinkBelongsToTaker, TakersJoin, ChallengeUsedOnce,
        Live, Joined, Drained, Holding, SubmitRest, flowVars, Finish
<1>1. CASE SubmitPrepare(s)
  BY <1>1 DEF SubmitPrepare
<1>2. CASE SubmitCommit(s)
  BY <1>2 DEF SubmitCommit
<1>3. QED BY <1>1, <1>2

\* Opening the continuation, its TTL and the goroutines that take it away preserve it.
LEMMA TakersInv ==
    ASSUME MFAInv, Open \/ Expire \/ Cancel \/ Canceller \/ Expirer \/ ShutdownSeal \/ Shutdown
    PROVE  MFAInv'
<1> USE MFAFlowAssumption DEF MFAInv, MFATypeOK, LinkBelongsToTaker, TakersJoin, ChallengeUsedOnce,
        Live, Joined, Drained, Holding, TakerRest, flowVars, TakeEntry, sealed
<1>1. CASE Open
  BY <1>1 DEF Open
<1>2. CASE Expire
  BY <1>2 DEF Expire
<1>3. CASE Cancel
  BY <1>3 DEF Cancel
<1>4. CASE CancelFlow
  BY <1>4 DEF CancelFlow
<1>5. CASE CancelReturn
  BY <1>5 DEF CancelReturn
<1>6. CASE ExpirerFire
  BY <1>6 DEF ExpirerFire
<1>7. CASE ExpirerWake
  BY <1>7 DEF ExpirerWake
<1>8. CASE ExpirerCancel
  BY <1>8 DEF ExpirerCancel
<1>9. CASE ExpirerReturn
  BY <1>9 DEF ExpirerReturn
<1>10. CASE ShutdownSeal
  BY <1>10 DEF ShutdownSeal
<1>11. CASE ShutdownCancel
  BY <1>11 DEF ShutdownCancel
<1>12. CASE ShutdownJoin
  BY <1>12 DEF ShutdownJoin
<1>13. CASE ShutdownDrain
  BY <1>13 DEF ShutdownDrain
<1>14. QED
  BY <1>1, <1>2, <1>3, <1>4, <1>5, <1>6, <1>7, <1>8, <1>9, <1>10, <1>11, <1>12, <1>13
     DEF Canceller, Expirer, Shutdown

\* A step that changes nothing preserves it.
LEMMA MFAStutterInv == ASSUME MFAInv, UNCHANGED mfaVars PROVE MFAInv'
BY DEF mfaVars, flowVars, MFAInv, MFATypeOK, LinkBelongsToTaker, TakersJoin, ChallengeUsedOnce, Live,
       Joined, Drained, Holding

\* The invariant of the continuation: in every reachable state, for every set of
\* submissions.
THEOREM MFAInvariance == MFASpec => []MFAInv
<1>1. ASSUME MFAInv, [MFANext]_mfaVars PROVE MFAInv'
  <2>1. ASSUME NEW s \in Submitters, Submission(s) \/ SubmitEnroll(s) \/ SubmitAnswered(s)
        PROVE  MFAInv'
    BY <1>1, <2>1, SubmitStartInv, SubmitAnswerInv, SubmitLinkInv DEF Submission
  <2>2. QED BY <1>1, <2>1, TakersInv, MFAStutterInv DEF MFANext
<1>2. QED BY <1>1, MFAInitInv, PTL DEF MFASpec

\* Only the submission that took the continuation stores an account, at most one, and it
\* is the one told so (CompletePasswordMFA).
THEOREM OnlyTheTakerLinks == MFASpec => []LinkBelongsToTaker
<1>1. MFAInv => LinkBelongsToTaker BY DEF MFAInv
<1>2. QED BY <1>1, MFAInvariance, PTL

\* Whoever took the continuation away has joined the submissions when it returns
\* (CancelPasswordMFA, cleanupMFAState, shutdown).
THEOREM TakersHaveJoined == MFASpec => []TakersJoin
<1>1. MFAInv => TakersJoin BY DEF MFAInv
<1>2. QED BY <1>1, MFAInvariance, PTL

\* Riot is not asked again about a challenge it has used up (submitMu, liveMFAState).
THEOREM NoSecondSubmission == MFASpec => []ChallengeUsedOnce
<1>1. MFAInv => ChallengeUsedOnce BY DEF MFAInv
<1>2. QED BY <1>1, MFAInvariance, PTL

-----------------------------------------------------------------------------
(* QR and legacy browser logins.                                           *)

Inv == IInv /\ ShutdownRollsBack

LEMMA InitInv == Init => Inv
<1> USE PendingAuthAssumption DEF Init, Logins, Workers, closed,
        Phases, BeginPhases, Outcomes, Returns, Answers
<1>1. Init => TypeOK
  <2> SUFFICES ASSUME Init PROVE TypeOK OBVIOUS
  <2>1. at \in [Workers -> Phases] OBVIOUS
  <2>2. told \in [Workers -> Answers] OBVIOUS
  <2>3. \A c \in Callbacks : at[c] = "idle" OBVIOUS
  <2>4. links \in [Logins -> Nat] /\ crashes \in 0..MaxCrash OBVIOUS
  <2>5. target \in [Callbacks -> Browser \cup {"none"}] OBVIOUS
  <2>6. /\ begun \in [Browser -> BeginPhases]
        /\ outcomes \in [Browser -> Outcomes]
        /\ waiter \in [Browser -> Returns]
    OBVIOUS
  <2>7. QED BY <2>1, <2>2, <2>3, <2>4, <2>5, <2>6 DEF TypeOK
<1>2. Init => RowOwnsLink BY DEF RowOwnsLink, Committers
<1>3. Init => QRPhases /\ BegunBefore BY DEF QRPhases, QRPhase, Left, BegunBefore
<1>4. Init => RowsAreKnown /\ StaysDrained /\ ShutdownRollsBack
  BY DEF RowsAreKnown, StaysDrained, ShutdownRollsBack
<1>5. QED BY <1>1, <1>2, <1>3, <1>4 DEF Inv, IInv

-----------------------------------------------------------------------------
(* What a step leaves as it was.                                           *)

Committing(w) == at[w] \in {"preparing", "committing"}

\* Whoever does not store, claim or put a row cannot disturb who owns it.
LEMMA OwnershipKept ==
    ASSUME RowOwnsLink, links' = links, row' \subseteq row,
           \A w \in Workers : Committing(w)' => Committing(w) /\ LoginOf(w)' = LoginOf(w)
    PROVE  RowOwnsLink'
<1>1. ASSUME NEW l \in Logins PROVE Committers(l)' \subseteq Committers(l)
  BY DEF Committers, Committing
<1>2. QED BY <1>1 DEF RowOwnsLink

LEMMA PhaseKept ==
    ASSUME NEW q \in QR, QRPhase(q), at'[q] = at[q], told'[q] = told[q], links'[q] = links[q],
           q \in row' => q \in row, q \in session' <=> q \in session, closed' <=> closed,
           crashes' = crashes
    PROVE  QRPhase(q)'
BY DEF QRPhase, Left

LEMMA DrainedKept ==
    ASSUME StaysDrained, down' = down, Enrolled' \subseteq Enrolled \/ Enrolled # {} \/ ~closed
    PROVE  StaysDrained'
BY DEF StaysDrained, closed

\* what the browser logins do not see
LEMMA BrowserKept ==
    ASSUME BegunBefore, RowsAreKnown, ShutdownRollsBack,
           UNCHANGED <<target, begun, outcomes, down, failed, crashes>>,
           \A b \in Browser : links'[b] = links[b] /\ (b \in row' => b \in row)
    PROVE  BegunBefore' /\ RowsAreKnown' /\ ShutdownRollsBack'
BY DEF BegunBefore, RowsAreKnown, ShutdownRollsBack

-----------------------------------------------------------------------------
(* A QR login, up to and after its completion.                             *)

LEMMA BeginQRAuthInv ==
    ASSUME Inv, NEW q \in QR, BeginQRAuth(q)
    PROVE  Inv'
<1> USE PendingAuthAssumption
        DEF Phases, BeginPhases, Outcomes, Returns, Answers, Inv, IInv,
            QRRest, authVars, downVars, Logins, Workers
<1>1. /\ at[q] = "idle"
      /\ \/ ~closed /\ at'[q] = "starting" /\ told'[q] = told[q]
         \/ closed /\ at'[q] = "ended" /\ told'[q] = "closed"
      /\ UNCHANGED <<row, session>>
  BY DEF BeginQRAuth, Go, Tell, Stop, TypeOK, QRPhases, QRPhase, Left
<1>2. /\ \A v \in Workers : v # q => at'[v] = at[v] /\ told'[v] = told[v]
      /\ UNCHANGED <<target, links, begun, outcomes, waiter, down, failed, crashes>>
  BY DEF BeginQRAuth, Go, Tell, Stop, TypeOK
<1>3. TypeOK'
  <2>1. at' \in [Workers -> Phases]
    <3>1. PICK next \in {"ended", "starting"} : at' = [at EXCEPT ![q] = next]
      BY DEF BeginQRAuth, Go, Stop
    <3>2. QED BY <3>1 DEF TypeOK
  <2>2. told' \in [Workers -> Answers]
    BY DEF BeginQRAuth, Tell, Stop, TypeOK
  <2>3. \A c \in Callbacks : at'[c] = at[c] BY <1>2
  <2>4. QED BY <1>1, <1>2, <2>1, <2>2, <2>3 DEF TypeOK
<1>4. RowOwnsLink' BY <1>1, <1>2, OwnershipKept DEF Committing, LoginOf
<1>5. QRPhases'
  <2>1. QRPhase(q)' BY <1>1, <1>2 DEF TypeOK, QRPhases, QRPhase, Left, closed
  <2>2. ASSUME NEW v \in QR, v # q PROVE QRPhase(v)'
    BY <1>1, <1>2, <2>2, PhaseKept DEF QRPhases, closed
  <2>3. QED BY <2>1, <2>2 DEF QRPhases
<1>6. BegunBefore' /\ RowsAreKnown' /\ ShutdownRollsBack'
  BY <1>1, <1>2, BrowserKept
<1>7. StaysDrained' BY <1>1, <1>2, DrainedKept DEF Enrolled, closed
<1>8. QED BY <1>3, <1>4, <1>5, <1>6, <1>7

LEMMA StartQRSessionInv ==
    ASSUME Inv, NEW q \in QR, StartQRSession(q)
    PROVE  Inv'
<1> USE PendingAuthAssumption
        DEF Phases, BeginPhases, Outcomes, Returns, Answers, Inv, IInv,
            QRRest, authVars, downVars, Logins, Workers
<1>1. /\ at[q] = "starting"
      /\ \/ at'[q] = "storing" /\ told'[q] = told[q]
         \/ at'[q] = "ended" /\ told'[q] = "failed"
      /\ UNCHANGED <<row, session>>
  BY DEF StartQRSession, Go, Tell, Stop, TypeOK, QRPhases, QRPhase, Left
<1>2. /\ \A v \in Workers : v # q => at'[v] = at[v] /\ told'[v] = told[v]
      /\ UNCHANGED <<target, links, begun, outcomes, waiter, down, failed, crashes>>
  BY DEF StartQRSession, Go, Tell, Stop, TypeOK
<1>3. TypeOK'
  <2>1. at' \in [Workers -> Phases]
    BY DEF StartQRSession, Go, Stop, TypeOK
  <2>2. told' \in [Workers -> Answers]
    BY DEF StartQRSession, Tell, Stop, TypeOK
  <2>3. \A c \in Callbacks : at'[c] = at[c] BY <1>2
  <2>4. QED BY <1>1, <1>2, <2>1, <2>2, <2>3 DEF TypeOK
<1>4. RowOwnsLink' BY <1>1, <1>2, OwnershipKept DEF Committing, LoginOf
<1>5. QRPhases'
  <2>1. QRPhase(q)' BY <1>1, <1>2 DEF TypeOK, QRPhases, QRPhase, Left, closed
  <2>2. ASSUME NEW v \in QR, v # q PROVE QRPhase(v)'
    BY <1>1, <1>2, <2>2, PhaseKept DEF QRPhases, closed
  <2>3. QED BY <2>1, <2>2 DEF QRPhases
<1>6. BegunBefore' /\ RowsAreKnown' /\ ShutdownRollsBack'
  BY <1>1, <1>2, BrowserKept
<1>7. StaysDrained' BY <1>1, <1>2, DrainedKept DEF Enrolled, closed
<1>8. QED BY <1>3, <1>4, <1>5, <1>6, <1>7

LEMMA PutRowInv ==
    ASSUME Inv, NEW q \in QR, PutRow(q)
    PROVE  Inv'
<1> USE PendingAuthAssumption
        DEF Phases, BeginPhases, Outcomes, Returns, Answers, Inv, IInv,
            QRRest, authVars, downVars, Logins, Workers
<1>1. /\ at[q] = "storing"
      /\ \/ at'[q] = "registering" /\ row' = row \cup {q}
         \/ at'[q] = "ended" /\ told'[q] = "failed" /\ row' = row
      /\ UNCHANGED session
      /\ told'[q] = "unknown" => told[q] = "unknown"
  BY DEF PutRow, Go, Tell, Stop, TypeOK, QRPhases, QRPhase, Left
<1>2. /\ \A v \in Workers : v # q => at'[v] = at[v] /\ told'[v] = told[v]
      /\ UNCHANGED <<target, links, begun, outcomes, waiter, down, failed, crashes>>
  BY DEF PutRow, Go, Tell, Stop, TypeOK
<1>3. TypeOK'
  <2>1. at' \in [Workers -> Phases]
    BY DEF PutRow, Go, Stop, TypeOK
  <2>2. told' \in [Workers -> Answers]
    BY DEF PutRow, Tell, Stop, TypeOK
  <2>3. \A c \in Callbacks : at'[c] = at[c] BY <1>2
  <2>4. QED BY <1>1, <1>2, <2>1, <2>2, <2>3 DEF TypeOK
<1>4. RowOwnsLink'
  <2>1. links[q] = 0 /\ Committers(q) = {}
    <3>1. ASSUME NEW w \in Workers, Committing(w), LoginOf(w) = q PROVE w = q
      BY <3>1 DEF LoginOf, TypeOK, Committing
    <3>2. Committers(q) = {} BY <1>1, <3>1 DEF Committers, Committing
    <3>3. links[q] \in Nat /\ ~(links[q] > 0) BY <1>1 DEF TypeOK, QRPhases, QRPhase, Left
    <3>4. QED BY <3>2, <3>3
  <2>2. ASSUME NEW l \in Logins PROVE Committers(l)' \subseteq Committers(l)
    BY <1>1, <1>2 DEF Committers, LoginOf
  <2>3. QED BY <1>1, <1>2, <2>1, <2>2 DEF RowOwnsLink
<1>5. QRPhases'
  <2>1. QRPhase(q)' BY <1>1, <1>2 DEF TypeOK, QRPhases, QRPhase, Left, closed
  <2>2. ASSUME NEW v \in QR, v # q PROVE QRPhase(v)'
    BY <1>1, <1>2, <2>2, PhaseKept DEF QRPhases, closed
  <2>3. QED BY <2>1, <2>2 DEF QRPhases
<1>6. BegunBefore' /\ RowsAreKnown' /\ ShutdownRollsBack'
  BY <1>1, <1>2, BrowserKept
<1>7. StaysDrained' BY <1>1, <1>2, DrainedKept DEF Enrolled, closed
<1>8. QED BY <1>3, <1>4, <1>5, <1>6, <1>7

LEMMA RegisterInv ==
    ASSUME Inv, NEW q \in QR, Register(q)
    PROVE  Inv'
<1> USE PendingAuthAssumption
        DEF Phases, BeginPhases, Outcomes, Returns, Answers, Inv, IInv,
            QRRest, authVars, downVars, Logins, Workers
<1>1. /\ at[q] = "registering"
      /\ \/ closed /\ at'[q] = "ended" /\ told'[q] = "closed" /\ session' = session
         \/ ~closed /\ at'[q] = "encoding" /\ session' = session \cup {q}
      /\ UNCHANGED row
      /\ told'[q] = "unknown" => told[q] = "unknown"
  BY DEF Register, Go, Tell, Stop, TypeOK, QRPhases, QRPhase, Left
<1>2. /\ \A v \in Workers : v # q => at'[v] = at[v] /\ told'[v] = told[v]
      /\ UNCHANGED <<target, links, begun, outcomes, waiter, down, failed, crashes>>
  BY DEF Register, Go, Tell, Stop, TypeOK
<1>3. TypeOK'
  <2>1. at' \in [Workers -> Phases]
    <3>1. PICK next \in {"ended", "encoding"} : at' = [at EXCEPT ![q] = next]
      BY DEF Register, Go, Stop
    <3>2. QED BY <3>1 DEF TypeOK
  <2>2. told' \in [Workers -> Answers]
    BY DEF Register, Tell, Stop, TypeOK
  <2>3. \A c \in Callbacks : at'[c] = at[c] BY <1>2
  <2>4. QED BY <1>1, <1>2, <2>1, <2>2, <2>3 DEF TypeOK
<1>4. RowOwnsLink' BY <1>1, <1>2, OwnershipKept DEF Committing, LoginOf
<1>5. QRPhases'
  <2>1. QRPhase(q)' BY <1>1, <1>2 DEF TypeOK, QRPhases, QRPhase, Left, closed
  <2>2. ASSUME NEW v \in QR, v # q PROVE QRPhase(v)'
    BY <1>1, <1>2, <2>2, PhaseKept DEF QRPhases, closed
  <2>3. QED BY <2>1, <2>2 DEF QRPhases
<1>6. BegunBefore' /\ RowsAreKnown' /\ ShutdownRollsBack'
  BY <1>1, <1>2, BrowserKept
<1>7. StaysDrained' BY <1>1, <1>2, DrainedKept DEF Enrolled, closed
<1>8. QED BY <1>3, <1>4, <1>5, <1>6, <1>7

LEMMA EncodeInv ==
    ASSUME Inv, NEW q \in QR, Encode(q)
    PROVE  Inv'
<1> USE PendingAuthAssumption
        DEF Phases, BeginPhases, Outcomes, Returns, Answers, Inv, IInv,
            QRRest, authVars, downVars, Logins, Workers
<1>1. /\ at[q] = "encoding"
      /\ \/ at'[q] = "showing"
         \/ at'[q] = "ended" /\ told'[q] = "unscanned"
      /\ UNCHANGED <<row, session>>
      /\ told'[q] = "unknown" => told[q] = "unknown"
  BY DEF Encode, Go, Tell, Stop, TypeOK, QRPhases, QRPhase, Left
<1>2. /\ \A v \in Workers : v # q => at'[v] = at[v] /\ told'[v] = told[v]
      /\ UNCHANGED <<target, links, begun, outcomes, waiter, down, failed, crashes>>
  BY DEF Encode, Go, Tell, Stop, TypeOK
<1>3. TypeOK'
  <2>1. at' \in [Workers -> Phases]
    BY DEF Encode, Go, Stop, TypeOK
  <2>2. told' \in [Workers -> Answers]
    BY DEF Encode, Tell, Stop, TypeOK
  <2>3. \A c \in Callbacks : at'[c] = at[c] BY <1>2
  <2>4. QED BY <1>1, <1>2, <2>1, <2>2, <2>3 DEF TypeOK
<1>4. RowOwnsLink' BY <1>1, <1>2, OwnershipKept DEF Committing, LoginOf
<1>5. QRPhases'
  <2>1. QRPhase(q)' BY <1>1, <1>2 DEF TypeOK, QRPhases, QRPhase, Left, closed
  <2>2. ASSUME NEW v \in QR, v # q PROVE QRPhase(v)'
    BY <1>1, <1>2, <2>2, PhaseKept DEF QRPhases, closed
  <2>3. QED BY <2>1, <2>2 DEF QRPhases
<1>6. BegunBefore' /\ RowsAreKnown' /\ ShutdownRollsBack'
  BY <1>1, <1>2, BrowserKept
<1>7. StaysDrained' BY <1>1, <1>2, DrainedKept DEF Enrolled, closed
<1>8. QED BY <1>3, <1>4, <1>5, <1>6, <1>7

LEMMA ShowInv ==
    ASSUME Inv, NEW q \in QR, Show(q)
    PROVE  Inv'
<1> USE PendingAuthAssumption
        DEF Phases, BeginPhases, Outcomes, Returns, Answers, Inv, IInv,
            QRRest, authVars, downVars, Logins, Workers
<1>1. /\ at[q] = "showing"
      /\ \/ at'[q] \in {"canceling", "waiting"}
         \/ at'[q] = "ended" /\ told'[q] = "unwatched"
      /\ UNCHANGED <<row, session>>
      /\ told'[q] = "unknown" => told[q] = "unknown"
  BY DEF Show, Go, Tell, Stop, TypeOK, QRPhases, QRPhase, Left
<1>2. /\ \A v \in Workers : v # q => at'[v] = at[v] /\ told'[v] = told[v]
      /\ UNCHANGED <<target, links, begun, outcomes, waiter, down, failed, crashes>>
  BY DEF Show, Go, Tell, Stop, TypeOK
<1>3. TypeOK'
  <2>1. at' \in [Workers -> Phases]
    BY DEF Show, Go, Stop, TypeOK
  <2>2. told' \in [Workers -> Answers]
    BY DEF Show, Tell, Stop, TypeOK
  <2>3. \A c \in Callbacks : at'[c] = at[c] BY <1>2
  <2>4. QED BY <1>1, <1>2, <2>1, <2>2, <2>3 DEF TypeOK
<1>4. RowOwnsLink' BY <1>1, <1>2, OwnershipKept DEF Committing, LoginOf
<1>5. QRPhases'
  <2>1. QRPhase(q)' BY <1>1, <1>2 DEF TypeOK, QRPhases, QRPhase, Left, closed
  <2>2. ASSUME NEW v \in QR, v # q PROVE QRPhase(v)'
    BY <1>1, <1>2, <2>2, PhaseKept DEF QRPhases, closed
  <2>3. QED BY <2>1, <2>2 DEF QRPhases
<1>6. BegunBefore' /\ RowsAreKnown' /\ ShutdownRollsBack'
  BY <1>1, <1>2, BrowserKept
<1>7. StaysDrained' BY <1>1, <1>2, DrainedKept DEF Enrolled, closed
<1>8. QED BY <1>3, <1>4, <1>5, <1>6, <1>7

LEMMA CancelRowInv ==
    ASSUME Inv, NEW q \in QR, CancelRow(q)
    PROVE  Inv'
<1> USE PendingAuthAssumption
        DEF Phases, BeginPhases, Outcomes, Returns, Answers, Inv, IInv,
            QRRest, authVars, downVars, Logins, Workers
<1>1. /\ at[q] = "canceling"
      /\ \/ at'[q] = "forgetting" /\ row' = row \ {q}
         \/ at'[q] = "ended" /\ told'[q] = "unstored" /\ row' = row
      /\ UNCHANGED session
      /\ told'[q] = "unknown" => told[q] = "unknown"
  BY DEF CancelRow, Go, Tell, Stop, TypeOK, QRPhases, QRPhase, Left
<1>2. /\ \A v \in Workers : v # q => at'[v] = at[v] /\ told'[v] = told[v]
      /\ UNCHANGED <<target, links, begun, outcomes, waiter, down, failed, crashes>>
  BY DEF CancelRow, Go, Tell, Stop, TypeOK
<1>3. TypeOK'
  <2>1. at' \in [Workers -> Phases]
    BY DEF CancelRow, Go, Stop, TypeOK
  <2>2. told' \in [Workers -> Answers]
    BY DEF CancelRow, Tell, Stop, TypeOK
  <2>3. \A c \in Callbacks : at'[c] = at[c] BY <1>2
  <2>4. QED BY <1>1, <1>2, <2>1, <2>2, <2>3 DEF TypeOK
<1>4. RowOwnsLink' BY <1>1, <1>2, OwnershipKept DEF Committing, LoginOf
<1>5. QRPhases'
  <2>1. QRPhase(q)' BY <1>1, <1>2 DEF TypeOK, QRPhases, QRPhase, Left, closed
  <2>2. ASSUME NEW v \in QR, v # q PROVE QRPhase(v)'
    BY <1>1, <1>2, <2>2, PhaseKept DEF QRPhases, closed
  <2>3. QED BY <2>1, <2>2 DEF QRPhases
<1>6. BegunBefore' /\ RowsAreKnown' /\ ShutdownRollsBack'
  BY <1>1, <1>2, BrowserKept
<1>7. StaysDrained' BY <1>1, <1>2, DrainedKept DEF Enrolled, closed
<1>8. QED BY <1>3, <1>4, <1>5, <1>6, <1>7

LEMMA CancelSessionInv ==
    ASSUME Inv, NEW q \in QR, CancelSession(q)
    PROVE  Inv'
<1> USE PendingAuthAssumption
        DEF Phases, BeginPhases, Outcomes, Returns, Answers, Inv, IInv,
            QRRest, authVars, downVars, Logins, Workers
<1>1. /\ at[q] = "forgetting"
      /\ at'[q] = "ended" /\ told'[q] = "canceled"
      /\ session' = session \ {q} /\ UNCHANGED row
  BY DEF CancelSession, Go, Tell, Stop, TypeOK, QRPhases, QRPhase, Left
<1>2. /\ \A v \in Workers : v # q => at'[v] = at[v] /\ told'[v] = told[v]
      /\ UNCHANGED <<target, links, begun, outcomes, waiter, down, failed, crashes>>
  BY DEF CancelSession, Go, Tell, Stop, TypeOK
<1>3. TypeOK'
  <2>1. at' \in [Workers -> Phases]
    BY DEF CancelSession, Go, Stop, TypeOK
  <2>2. told' \in [Workers -> Answers]
    BY DEF CancelSession, Tell, Stop, TypeOK
  <2>3. \A c \in Callbacks : at'[c] = at[c] BY <1>2
  <2>4. QED BY <1>1, <1>2, <2>1, <2>2, <2>3 DEF TypeOK
<1>4. RowOwnsLink' BY <1>1, <1>2, OwnershipKept DEF Committing, LoginOf
<1>5. QRPhases'
  <2>1. QRPhase(q)' BY <1>1, <1>2 DEF TypeOK, QRPhases, QRPhase, Left, closed
  <2>2. ASSUME NEW v \in QR, v # q PROVE QRPhase(v)'
    BY <1>1, <1>2, <2>2, PhaseKept DEF QRPhases, closed
  <2>3. QED BY <2>1, <2>2 DEF QRPhases
<1>6. BegunBefore' /\ RowsAreKnown' /\ ShutdownRollsBack'
  BY <1>1, <1>2, BrowserKept
<1>7. StaysDrained' BY <1>1, <1>2, DrainedKept DEF Enrolled, closed
<1>8. QED BY <1>3, <1>4, <1>5, <1>6, <1>7

LEMMA WaitQRLoginInv ==
    ASSUME Inv, NEW q \in QR, WaitQRLogin(q)
    PROVE  Inv'
<1> USE PendingAuthAssumption
        DEF Phases, BeginPhases, Outcomes, Returns, Answers, Inv, IInv,
            QRRest, authVars, downVars, Logins, Workers
<1>1. /\ at[q] = "waiting"
      /\ \/ closed /\ at'[q] = "speaking" /\ told'[q] = "closed"
         \/ ~closed /\ at'[q] = "looking"
      /\ UNCHANGED <<row, session>>
      /\ told'[q] = "unknown" => told[q] = "unknown"
  BY DEF WaitQRLogin, Go, Tell, Stop, TypeOK, QRPhases, QRPhase, Left
<1>2. /\ \A v \in Workers : v # q => at'[v] = at[v] /\ told'[v] = told[v]
      /\ UNCHANGED <<target, links, begun, outcomes, waiter, down, failed, crashes>>
  BY DEF WaitQRLogin, Go, Tell, Stop, TypeOK
<1>3. TypeOK'
  <2>1. at' \in [Workers -> Phases]
    <3>1. PICK next \in {"speaking", "looking"} : at' = [at EXCEPT ![q] = next]
      BY DEF WaitQRLogin, Go, Stop
    <3>2. QED BY <3>1 DEF TypeOK
  <2>2. told' \in [Workers -> Answers]
    BY DEF WaitQRLogin, Tell, Stop, TypeOK
  <2>3. \A c \in Callbacks : at'[c] = at[c] BY <1>2
  <2>4. QED BY <1>1, <1>2, <2>1, <2>2, <2>3 DEF TypeOK
<1>4. RowOwnsLink' BY <1>1, <1>2, OwnershipKept DEF Committing, LoginOf
<1>5. QRPhases'
  <2>1. QRPhase(q)' BY <1>1, <1>2 DEF TypeOK, QRPhases, QRPhase, Left, closed
  <2>2. ASSUME NEW v \in QR, v # q PROVE QRPhase(v)'
    BY <1>1, <1>2, <2>2, PhaseKept DEF QRPhases, closed
  <2>3. QED BY <2>1, <2>2 DEF QRPhases
<1>6. BegunBefore' /\ RowsAreKnown' /\ ShutdownRollsBack'
  BY <1>1, <1>2, BrowserKept
<1>7. StaysDrained' BY <1>1, <1>2, DrainedKept DEF Enrolled, closed
<1>8. QED BY <1>3, <1>4, <1>5, <1>6, <1>7

LEMMA LookUpInv ==
    ASSUME Inv, NEW q \in QR, LookUp(q)
    PROVE  Inv'
<1> USE PendingAuthAssumption
        DEF Phases, BeginPhases, Outcomes, Returns, Answers, Inv, IInv,
            QRRest, authVars, downVars, Logins, Workers
<1>1. /\ at[q] = "looking"
      /\ \/ q \notin session /\ closed /\ at'[q] = "speaking" /\ told'[q] = "unknown"
         \/ q \in session /\ at'[q] = "polling" /\ told'[q] = told[q]
      /\ UNCHANGED <<row, session>>
  BY DEF LookUp, Go, Tell, Stop, TypeOK, QRPhases, QRPhase, Left
<1>2. /\ \A v \in Workers : v # q => at'[v] = at[v] /\ told'[v] = told[v]
      /\ UNCHANGED <<target, links, begun, outcomes, waiter, down, failed, crashes>>
  BY DEF LookUp, Go, Tell, Stop, TypeOK
<1>3. TypeOK'
  <2>1. at' \in [Workers -> Phases]
    <3>1. PICK next \in {"speaking", "polling"} : at' = [at EXCEPT ![q] = next]
      BY DEF LookUp, Go, Stop
    <3>2. QED BY <3>1 DEF TypeOK
  <2>2. told' \in [Workers -> Answers]
    BY DEF LookUp, Tell, Stop, TypeOK
  <2>3. \A c \in Callbacks : at'[c] = at[c] BY <1>2
  <2>4. QED BY <1>1, <1>2, <2>1, <2>2, <2>3 DEF TypeOK
<1>4. RowOwnsLink' BY <1>1, <1>2, OwnershipKept DEF Committing, LoginOf
<1>5. QRPhases'
  <2>1. QRPhase(q)' BY <1>1, <1>2 DEF TypeOK, QRPhases, QRPhase, Left, closed
  <2>2. ASSUME NEW v \in QR, v # q PROVE QRPhase(v)'
    BY <1>1, <1>2, <2>2, PhaseKept DEF QRPhases, closed
  <2>3. QED BY <2>1, <2>2 DEF QRPhases
<1>6. BegunBefore' /\ RowsAreKnown' /\ ShutdownRollsBack'
  BY <1>1, <1>2, BrowserKept
<1>7. StaysDrained' BY <1>1, <1>2, DrainedKept DEF Enrolled, closed
<1>8. QED BY <1>3, <1>4, <1>5, <1>6, <1>7

LEMMA PollInv ==
    ASSUME Inv, NEW q \in QR, Poll(q)
    PROVE  Inv'
<1> USE PendingAuthAssumption
        DEF Phases, BeginPhases, Outcomes, Returns, Answers, Inv, IInv,
            QRRest, authVars, downVars, Logins, Workers
<1>1. /\ at[q] = "polling"
      /\ \/ at'[q] = "taking"
         \/ at'[q] = "leaving" /\ told'[q] # "done"
      /\ UNCHANGED <<row, session>>
      /\ told'[q] = "unknown" => told[q] = "unknown"
  BY DEF Poll, Go, Tell, Stop, TypeOK, QRPhases, QRPhase, Left
<1>2. /\ \A v \in Workers : v # q => at'[v] = at[v] /\ told'[v] = told[v]
      /\ UNCHANGED <<target, links, begun, outcomes, waiter, down, failed, crashes>>
  BY DEF Poll, Go, Tell, Stop, TypeOK
<1>3. TypeOK'
  <2>1. at' \in [Workers -> Phases]
    BY DEF Poll, Go, Stop, TypeOK
  <2>2. told' \in [Workers -> Answers]
    BY DEF Poll, Tell, Stop, TypeOK
  <2>3. \A c \in Callbacks : at'[c] = at[c] BY <1>2
  <2>4. QED BY <1>1, <1>2, <2>1, <2>2, <2>3 DEF TypeOK
<1>4. RowOwnsLink' BY <1>1, <1>2, OwnershipKept DEF Committing, LoginOf
<1>5. QRPhases'
  <2>1. QRPhase(q)' BY <1>1, <1>2 DEF TypeOK, QRPhases, QRPhase, Left, closed
  <2>2. ASSUME NEW v \in QR, v # q PROVE QRPhase(v)'
    BY <1>1, <1>2, <2>2, PhaseKept DEF QRPhases, closed
  <2>3. QED BY <2>1, <2>2 DEF QRPhases
<1>6. BegunBefore' /\ RowsAreKnown' /\ ShutdownRollsBack'
  BY <1>1, <1>2, BrowserKept
<1>7. StaysDrained' BY <1>1, <1>2, DrainedKept DEF Enrolled, closed
<1>8. QED BY <1>3, <1>4, <1>5, <1>6, <1>7

LEMMA LeaveInv ==
    ASSUME Inv, NEW q \in QR, Leave(q)
    PROVE  Inv'
<1> USE PendingAuthAssumption
        DEF Phases, BeginPhases, Outcomes, Returns, Answers, Inv, IInv,
            QRRest, authVars, downVars, Logins, Workers
<1>1. /\ at[q] = "leaving"
      /\ \/ row' = row \ {q}
         \/ row' = row /\ told[q] # "done" /\ told'[q] = "unstored"
         \/ row' = row /\ told[q] = "done" /\ told'[q] = "done"
      /\ at'[q] = "speaking" /\ session' = session \ {q}
      /\ told'[q] = "unknown" => told[q] = "unknown"
  BY DEF Leave, Go, Tell, Stop, TypeOK, QRPhases, QRPhase, Left
<1>2. /\ \A v \in Workers : v # q => at'[v] = at[v] /\ told'[v] = told[v]
      /\ UNCHANGED <<target, links, begun, outcomes, waiter, down, failed, crashes>>
  BY DEF Leave, Go, Tell, Stop, TypeOK
<1>3. TypeOK'
  <2>1. at' \in [Workers -> Phases]
    BY DEF Leave, Go, Stop, TypeOK
  <2>2. told' \in [Workers -> Answers]
    BY DEF Leave, Tell, Stop, TypeOK
  <2>3. \A c \in Callbacks : at'[c] = at[c] BY <1>2
  <2>4. QED BY <1>1, <1>2, <2>1, <2>2, <2>3 DEF TypeOK
<1>4. RowOwnsLink' BY <1>1, <1>2, OwnershipKept DEF Committing, LoginOf
<1>5. QRPhases'
  <2>1. QRPhase(q)' BY <1>1, <1>2 DEF TypeOK, QRPhases, QRPhase, Left, closed
  <2>2. ASSUME NEW v \in QR, v # q PROVE QRPhase(v)'
    BY <1>1, <1>2, <2>2, PhaseKept DEF QRPhases, closed
  <2>3. QED BY <2>1, <2>2 DEF QRPhases
<1>6. BegunBefore' /\ RowsAreKnown' /\ ShutdownRollsBack'
  BY <1>1, <1>2, BrowserKept
<1>7. StaysDrained' BY <1>1, <1>2, DrainedKept DEF Enrolled, closed
<1>8. QED BY <1>3, <1>4, <1>5, <1>6, <1>7

LEMMA SpeakInv ==
    ASSUME Inv, NEW q \in QR, Speak(q)
    PROVE  Inv'
<1> USE PendingAuthAssumption
        DEF Phases, BeginPhases, Outcomes, Returns, Answers, Inv, IInv,
            QRRest, authVars, downVars, Logins, Workers
<1>1. /\ at[q] = "speaking"
      /\ at'[q] = "ended" /\ told'[q] = told[q]
      /\ UNCHANGED <<row, session>>
  BY DEF Speak, Go, Tell, Stop, TypeOK, QRPhases, QRPhase, Left
<1>2. /\ \A v \in Workers : v # q => at'[v] = at[v] /\ told'[v] = told[v]
      /\ UNCHANGED <<target, links, begun, outcomes, waiter, down, failed, crashes>>
  BY DEF Speak, Go, Tell, Stop, TypeOK
<1>3. TypeOK'
  <2>1. at' \in [Workers -> Phases]
    BY DEF Speak, Go, Stop, TypeOK
  <2>2. told' \in [Workers -> Answers]
    BY DEF Speak, Tell, Stop, TypeOK
  <2>3. \A c \in Callbacks : at'[c] = at[c] BY <1>2
  <2>4. QED BY <1>1, <1>2, <2>1, <2>2, <2>3 DEF TypeOK
<1>4. RowOwnsLink' BY <1>1, <1>2, OwnershipKept DEF Committing, LoginOf
<1>5. QRPhases'
  <2>1. QRPhase(q)' BY <1>1, <1>2 DEF TypeOK, QRPhases, QRPhase, Left, closed
  <2>2. ASSUME NEW v \in QR, v # q PROVE QRPhase(v)'
    BY <1>1, <1>2, <2>2, PhaseKept DEF QRPhases, closed
  <2>3. QED BY <2>1, <2>2 DEF QRPhases
<1>6. BegunBefore' /\ RowsAreKnown' /\ ShutdownRollsBack'
  BY <1>1, <1>2, BrowserKept
<1>7. StaysDrained' BY <1>1, <1>2, DrainedKept DEF Enrolled, closed
<1>8. QED BY <1>3, <1>4, <1>5, <1>6, <1>7

-----------------------------------------------------------------------------
(* A browser login.                                                        *)

LEMMA BeginAuthInv ==
    ASSUME Inv, NEW b \in Browser, BeginAuth(b)
    PROVE  Inv'
<1> USE PendingAuthAssumption
        DEF Phases, BeginPhases, Outcomes, Returns, Answers, Inv, IInv, BrowserRest, downVars, Logins, Workers
<1>1. /\ begun[b] = "idle" /\ begun'[b] = IF closed THEN "refused" ELSE "storing"
      /\ UNCHANGED <<row, outcomes, waiter>>
  BY DEF BeginAuth, TypeOK
<1>2. /\ \A d \in Browser : d # b => /\ begun'[d] = begun[d] /\ outcomes'[d] = outcomes[d]
                                     /\ waiter'[d] = waiter[d]
      /\ UNCHANGED <<at, target, told, links, session, down, failed, crashes>>
  BY DEF BeginAuth, TypeOK
<1>3. TypeOK'
  <2>1. begun' \in [Browser -> BeginPhases]
    BY DEF BeginAuth, TypeOK
  <2>2. outcomes' \in [Browser -> Outcomes]
    BY DEF BeginAuth, TypeOK
  <2>3. QED BY <1>1, <1>2, <2>1, <2>2 DEF TypeOK
<1>4. RowOwnsLink' BY <1>1, <1>2, OwnershipKept DEF Committing, LoginOf
<1>5. QRPhases'
  <2>1. ASSUME NEW q \in QR PROVE q \in row' => q \in row BY <1>1
  <2>2. QED BY <1>2, <2>1, PhaseKept DEF QRPhases, closed
<1>6. BegunBefore' BY <1>1, <1>2 DEF TypeOK, BegunBefore
<1>7. RowsAreKnown' BY <1>1, <1>2 DEF RowsAreKnown, closed
<1>8. StaysDrained' BY <1>1, <1>2, DrainedKept DEF Enrolled, closed
<1>9. ShutdownRollsBack' BY <1>1, <1>2 DEF ShutdownRollsBack, StaysDrained, Enrolled, closed
<1>10. QED BY <1>3, <1>4, <1>5, <1>6, <1>7, <1>8, <1>9

LEMMA BeginPutRowInv ==
    ASSUME Inv, NEW b \in Browser, BeginPutRow(b)
    PROVE  Inv'
<1> USE PendingAuthAssumption
        DEF Phases, BeginPhases, Outcomes, Returns, Answers, Inv, IInv, BrowserRest, downVars, Logins, Workers
<1>1. /\ begun[b] = "storing"
      /\ \/ begun'[b] = "registering" /\ row' = row \cup {b}
         \/ begun'[b] = "refused" /\ row' = row
      /\ UNCHANGED <<outcomes, waiter>>
  BY DEF BeginPutRow, TypeOK
<1>2. /\ \A d \in Browser : d # b => /\ begun'[d] = begun[d] /\ outcomes'[d] = outcomes[d]
                                     /\ waiter'[d] = waiter[d]
      /\ UNCHANGED <<at, target, told, links, session, down, failed, crashes>>
  BY DEF BeginPutRow, TypeOK
<1>3. TypeOK'
  <2>1. begun' \in [Browser -> BeginPhases]
    BY DEF BeginPutRow, TypeOK
  <2>2. outcomes' \in [Browser -> Outcomes]
    BY DEF BeginPutRow, TypeOK
  <2>3. QED BY <1>1, <1>2, <2>1, <2>2 DEF TypeOK
<1>4. RowOwnsLink'
  <2>1. links[b] = 0
    <3>1. links[b] \in Nat /\ ~(links[b] > 0) BY <1>1 DEF TypeOK, BegunBefore
    <3>2. QED BY <3>1
  <2>2. Committers(b) = {}
    <3>1. ASSUME NEW w \in Workers, Committing(w), LoginOf(w) = b PROVE FALSE
      BY <1>1, <3>1 DEF LoginOf, BegunBefore
    <3>2. QED BY <3>1 DEF Committers, Committing
  <2>3. ASSUME NEW l \in Logins PROVE Committers(l)' \subseteq Committers(l)
    BY <1>2 DEF Committers, LoginOf
  <2>4. QED BY <1>1, <1>2, <2>1, <2>2, <2>3 DEF RowOwnsLink
<1>5. QRPhases'
  <2>1. ASSUME NEW q \in QR PROVE q \in row' => q \in row BY <1>1
  <2>2. QED BY <1>2, <2>1, PhaseKept DEF QRPhases, closed
<1>6. BegunBefore' BY <1>1, <1>2 DEF TypeOK, BegunBefore
<1>7. RowsAreKnown'
  <2>1. ASSUME crashes = 0, down # "done", NEW d \in Browser, d \in row'
        PROVE  outcomes'[d] # "absent" \/ begun'[d] \in {"registering", "rolling back", "unstored"}
    <3>1. CASE d = b /\ begun'[b] = "registering" BY <3>1
    <3>2. CASE d \in row /\ d # b BY <1>2, <2>1, <3>2 DEF RowsAreKnown
    <3>3. CASE d = b /\ begun'[b] = "refused" /\ row' = row
      BY <1>1, <1>2, <2>1, <3>3 DEF RowsAreKnown
    <3>4. d = b \/ d \in row BY <1>1, <2>1
    <3>5. QED BY <1>1, <2>1, <3>1, <3>2, <3>3, <3>4
  <2>2. QED BY <1>2, <2>1 DEF RowsAreKnown
<1>8. StaysDrained' BY <1>1, <1>2, DrainedKept DEF Enrolled, closed
<1>9. ShutdownRollsBack' BY <1>1, <1>2 DEF ShutdownRollsBack, StaysDrained, Enrolled, closed
<1>10. QED BY <1>3, <1>4, <1>5, <1>6, <1>7, <1>8, <1>9

LEMMA BeginRegisterInv ==
    ASSUME Inv, NEW b \in Browser, BeginRegister(b)
    PROVE  Inv'
<1> USE PendingAuthAssumption
        DEF Phases, BeginPhases, Outcomes, Returns, Answers, Inv, IInv, BrowserRest, downVars, Logins, Workers
<1>1. /\ begun[b] = "registering"
      /\ \/ closed /\ begun'[b] = "rolling back" /\ outcomes' = outcomes
         \/ ~closed /\ begun'[b] = "open" /\ outcomes'[b] = "waiting"
      /\ UNCHANGED <<row, waiter>>
  BY DEF BeginRegister, TypeOK
<1>2. /\ \A d \in Browser : d # b => /\ begun'[d] = begun[d] /\ outcomes'[d] = outcomes[d]
                                     /\ waiter'[d] = waiter[d]
      /\ UNCHANGED <<at, target, told, links, session, down, failed, crashes>>
  BY DEF BeginRegister, TypeOK
<1>3. TypeOK'
  <2>1. begun' \in [Browser -> BeginPhases]
    <3>1. PICK next \in {"rolling back", "open"} : begun' = [begun EXCEPT ![b] = next]
      BY DEF BeginRegister
    <3>2. QED BY <3>1 DEF TypeOK
  <2>2. outcomes' \in [Browser -> Outcomes]
    <3>1. outcomes' = outcomes \/ outcomes' = [outcomes EXCEPT ![b] = "waiting"]
      BY DEF BeginRegister
    <3>2. QED BY <3>1 DEF TypeOK
  <2>3. QED BY <1>1, <1>2, <2>1, <2>2 DEF TypeOK
<1>4. RowOwnsLink' BY <1>1, <1>2, OwnershipKept DEF Committing, LoginOf
<1>5. QRPhases'
  <2>1. ASSUME NEW q \in QR PROVE q \in row' => q \in row BY <1>1
  <2>2. QED BY <1>2, <2>1, PhaseKept DEF QRPhases, closed
<1>6. BegunBefore' BY <1>1, <1>2 DEF TypeOK, BegunBefore
<1>7. RowsAreKnown' BY <1>1, <1>2 DEF RowsAreKnown, closed
<1>8. StaysDrained' BY <1>1, <1>2, DrainedKept DEF Enrolled, closed
<1>9. ShutdownRollsBack' BY <1>1, <1>2 DEF ShutdownRollsBack, StaysDrained, Enrolled, closed
<1>10. QED BY <1>3, <1>4, <1>5, <1>6, <1>7, <1>8, <1>9

LEMMA BeginRollBackInv ==
    ASSUME Inv, NEW b \in Browser, BeginRollBack(b)
    PROVE  Inv'
<1> USE PendingAuthAssumption
        DEF Phases, BeginPhases, Outcomes, Returns, Answers, Inv, IInv, BrowserRest, downVars, Logins, Workers
<1>1. /\ begun[b] = "rolling back"
      /\ \/ begun'[b] = "refused" /\ row' = row \ {b}
         \/ begun'[b] = "unstored" /\ row' = row
      /\ UNCHANGED <<outcomes, waiter>>
  BY DEF BeginRollBack, TypeOK
<1>2. /\ \A d \in Browser : d # b => /\ begun'[d] = begun[d] /\ outcomes'[d] = outcomes[d]
                                     /\ waiter'[d] = waiter[d]
      /\ UNCHANGED <<at, target, told, links, session, down, failed, crashes>>
  BY DEF BeginRollBack, TypeOK
<1>3. TypeOK'
  <2>1. begun' \in [Browser -> BeginPhases]
    BY DEF BeginRollBack, TypeOK
  <2>2. outcomes' \in [Browser -> Outcomes]
    BY DEF BeginRollBack, TypeOK
  <2>3. QED BY <1>1, <1>2, <2>1, <2>2 DEF TypeOK
<1>4. RowOwnsLink' BY <1>1, <1>2, OwnershipKept DEF Committing, LoginOf
<1>5. QRPhases'
  <2>1. ASSUME NEW q \in QR PROVE q \in row' => q \in row BY <1>1
  <2>2. QED BY <1>2, <2>1, PhaseKept DEF QRPhases, closed
<1>6. BegunBefore' BY <1>1, <1>2 DEF TypeOK, BegunBefore
<1>7. RowsAreKnown' BY <1>1, <1>2 DEF RowsAreKnown, closed
<1>8. StaysDrained' BY <1>1, <1>2, DrainedKept DEF Enrolled, closed
<1>9. ShutdownRollsBack' BY <1>1, <1>2 DEF ShutdownRollsBack, StaysDrained, Enrolled, closed
<1>10. QED BY <1>3, <1>4, <1>5, <1>6, <1>7, <1>8, <1>9

LEMMA WaitBrowserLoginInv ==
    ASSUME Inv, NEW b \in Browser, WaitBrowserLogin(b)
    PROVE  Inv'
<1> USE PendingAuthAssumption
        DEF Phases, BeginPhases, Outcomes, Returns, Answers, Inv, IInv, BrowserRest, downVars, Logins, Workers
<1>1. /\ begun[b] = "open" /\ ~closed
      /\ UNCHANGED <<row, begun, outcomes>>
  BY DEF WaitBrowserLogin, TypeOK
<1>2. /\ \A d \in Browser : d # b => /\ begun'[d] = begun[d] /\ outcomes'[d] = outcomes[d]
                                     /\ waiter'[d] = waiter[d]
      /\ UNCHANGED <<at, target, told, links, session, down, failed, crashes>>
  BY DEF WaitBrowserLogin, TypeOK
<1>3. TypeOK'
  <2>1. waiter' \in [Browser -> Returns]
    BY DEF WaitBrowserLogin, TypeOK
  <2>2. outcomes' \in [Browser -> Outcomes]
    BY DEF WaitBrowserLogin, TypeOK
  <2>3. QED BY <1>1, <1>2, <2>1, <2>2 DEF TypeOK
<1>4. RowOwnsLink' BY <1>1, <1>2, OwnershipKept DEF Committing, LoginOf
<1>5. QRPhases'
  <2>1. ASSUME NEW q \in QR PROVE q \in row' => q \in row BY <1>1
  <2>2. QED BY <1>2, <2>1, PhaseKept DEF QRPhases, closed
<1>6. BegunBefore' BY <1>1, <1>2 DEF TypeOK, BegunBefore
<1>7. RowsAreKnown' BY <1>1, <1>2 DEF RowsAreKnown, closed
<1>8. StaysDrained' BY <1>1, <1>2, DrainedKept DEF Enrolled, closed
<1>9. ShutdownRollsBack' BY <1>1, <1>2 DEF ShutdownRollsBack, StaysDrained, Enrolled, closed
<1>10. QED BY <1>3, <1>4, <1>5, <1>6, <1>7, <1>8, <1>9

LEMMA WaitReturnsInv ==
    ASSUME Inv, NEW b \in Browser, WaitReturns(b)
    PROVE  Inv'
<1> USE PendingAuthAssumption
        DEF Phases, BeginPhases, Outcomes, Returns, Answers, Inv, IInv, BrowserRest, downVars, Logins, Workers
<1>1. /\ waiter'[b] # "waiting"
      /\ UNCHANGED <<row, begun, outcomes>>
  BY DEF WaitReturns, TypeOK
<1>2. /\ \A d \in Browser : d # b => /\ begun'[d] = begun[d] /\ outcomes'[d] = outcomes[d]
                                     /\ waiter'[d] = waiter[d]
      /\ UNCHANGED <<at, target, told, links, session, down, failed, crashes>>
  BY DEF WaitReturns, TypeOK
<1>3. TypeOK'
  <2>1. waiter' \in [Browser -> Returns]
    BY DEF WaitReturns, TypeOK
  <2>2. outcomes' \in [Browser -> Outcomes]
    BY DEF WaitReturns, TypeOK
  <2>3. QED BY <1>1, <1>2, <2>1, <2>2 DEF TypeOK
<1>4. RowOwnsLink' BY <1>1, <1>2, OwnershipKept DEF Committing, LoginOf
<1>5. QRPhases'
  <2>1. ASSUME NEW q \in QR PROVE q \in row' => q \in row BY <1>1
  <2>2. QED BY <1>2, <2>1, PhaseKept DEF QRPhases, closed
<1>6. BegunBefore' BY <1>1, <1>2 DEF TypeOK, BegunBefore
<1>7. RowsAreKnown' BY <1>1, <1>2 DEF RowsAreKnown, closed
<1>8. StaysDrained' BY <1>1, <1>2, DrainedKept DEF Enrolled, closed
<1>9. ShutdownRollsBack' BY <1>1, <1>2 DEF ShutdownRollsBack, StaysDrained, Enrolled, closed
<1>10. QED BY <1>3, <1>4, <1>5, <1>6, <1>7, <1>8, <1>9

-----------------------------------------------------------------------------
(* Callbacks.                                                              *)

LEMMA CallbackInv ==
    ASSUME Inv, NEW c \in Callbacks, Callback(c)
    PROVE  Inv'
<1> USE PendingAuthAssumption
        DEF Phases, BeginPhases, Outcomes, Returns, Answers, Inv, IInv, authVars, downVars, Logins, Workers
<1>1. PICK b \in Browser :
         /\ begun[b] = "open"
         /\ target' = [target EXCEPT ![c] = b]
         /\ IF closed THEN Stop(c, "ended", "closed") ELSE Go(c, "taking") /\ UNCHANGED told
  BY DEF Callback
<1>2. /\ UNCHANGED <<row, links, begun, session, outcomes, waiter, down, failed, crashes>>
      /\ closed => at'[c] = "ended"
      /\ at'[c] \in {"ended", "taking"}
      /\ \A v \in Workers : v # c => at'[v] = at[v] /\ told'[v] = told[v]
  <2>1. UNCHANGED <<row, links, begun, session, outcomes, waiter, down, failed, crashes>>
    BY DEF Callback
  <2>2. PICK next \in {"ended", "taking"} :
          at' = [at EXCEPT ![c] = next] /\ (closed => next = "ended")
    BY <1>1 DEF Go, Stop
  <2>3. told' = told \/ told' = [told EXCEPT ![c] = "closed"] BY <1>1 DEF Stop, Tell
  <2>4. \A v \in Workers : v # c => told'[v] = told[v] BY <2>3 DEF TypeOK
  <2>5. QED BY <2>1, <2>2, <2>4 DEF TypeOK
<1>3. TypeOK'
  <2>1. at' \in [Workers -> Phases]
    <3>1. PICK next \in {"ended", "taking"} : at' = [at EXCEPT ![c] = next] BY <1>1 DEF Go, Stop
    <3>2. QED BY <3>1 DEF TypeOK
  <2>2. told' \in [Workers -> Answers]
    BY <1>1 DEF Tell, Stop, TypeOK
  <2>3. /\ target' \in [Callbacks -> Browser \cup {"none"}]
        /\ target'[c] \in Browser
        /\ \A d \in Callbacks : d # c => target'[d] = target[d]
    BY <1>1 DEF TypeOK
  <2>4. QED BY <1>2, <2>1, <2>2, <2>3 DEF TypeOK
<1>4. RowOwnsLink'
  <2>1. ASSUME NEW w \in Workers, Committing(w)'
        PROVE  Committing(w) /\ LoginOf(w)' = LoginOf(w)
    BY <1>1, <1>2, <2>1 DEF Committing, LoginOf, TypeOK
  <2>2. QED BY <1>2, <2>1, OwnershipKept
<1>5. QRPhases' BY <1>2, PhaseKept DEF QRPhases, closed
<1>6. BegunBefore' BY <1>1, <1>2 DEF TypeOK, BegunBefore
<1>7. RowsAreKnown' /\ ShutdownRollsBack' BY <1>2 DEF RowsAreKnown, ShutdownRollsBack
<1>8. StaysDrained' BY <1>2, DrainedKept DEF Enrolled
<1>9. QED BY <1>3, <1>4, <1>5, <1>6, <1>7, <1>8

LEMMA PublishInv ==
    ASSUME Inv, NEW c \in Callbacks, Publish(c)
    PROVE  Inv'
<1> USE PendingAuthAssumption
        DEF Phases, BeginPhases, Outcomes, Returns, Answers, Inv, IInv, Logins, Workers
<1>1. /\ UNCHANGED <<target, row, told, links, begun, session, waiter, down, failed, crashes>>
      /\ at[c] = "publishing" /\ at' = [at EXCEPT ![c] = "ended"]
  BY DEF Publish, Go, downVars
<1>2. PICK result \in {outcomes[target[c]], "ok", "failed"} :
         outcomes' = [outcomes EXCEPT ![target[c]] = result]
  BY DEF Publish
<1>3. target[c] \in Browser BY <1>1 DEF TypeOK
<1>4. TypeOK'
  <2>1. outcomes' \in [Browser -> Outcomes]
    BY <1>2, <1>3 DEF TypeOK
  <2>2. QED BY <1>1, <2>1 DEF TypeOK
<1>5. RowOwnsLink' BY <1>1, OwnershipKept DEF Committing, LoginOf, TypeOK
<1>6. QRPhases' BY <1>1, PhaseKept DEF QRPhases, closed, TypeOK
<1>7. BegunBefore' /\ ShutdownRollsBack' BY <1>1 DEF BegunBefore, ShutdownRollsBack
<1>8. RowsAreKnown' BY <1>1, <1>2, <1>3 DEF RowsAreKnown, TypeOK
<1>9. StaysDrained' BY <1>1, DrainedKept DEF Enrolled, TypeOK
<1>10. QED BY <1>4, <1>5, <1>6, <1>7, <1>8, <1>9

-----------------------------------------------------------------------------
(* The completion both kinds share.                                        *)

\* who completes a login has one
LEMMA WorkerHasLogin ==
    ASSUME TypeOK, NEW w \in Workers, at[w] \in {"taking", "preparing", "committing"}
    PROVE  LoginOf(w) \in Logins /\ (w \in Callbacks => LoginOf(w) \in Browser)
BY PendingAuthAssumption DEF TypeOK, LoginOf, Logins, Workers

LEMMA CountUp ==
    ASSUME NEW S, NEW f \in [S -> Nat], NEW x \in S, NEW g, g = [f EXCEPT ![x] = @ + 1]
    PROVE  g \in [S -> Nat] /\ g[x] = f[x] + 1 /\ \A y \in S : y # x => g[y] = f[y]
OBVIOUS

LEMMA CompleteInv ==
    ASSUME Inv, NEW w \in Workers, Complete(w)
    PROVE  Inv'
<1> USE PendingAuthAssumption
        DEF Phases, BeginPhases, Outcomes, Returns, Answers, Inv, IInv
<1>0. PICK l \in Logins : LoginOf(w) = l /\ (w \in Callbacks => l \in Browser)
  <2>1. at[w] \in {"taking", "preparing", "committing"}
    BY DEF Complete, Take, Prepare, Commit
  <2>2. QED BY <2>1, WorkerHasLogin
<1>1. /\ UNCHANGED <<target, begun, session, outcomes, waiter, down, failed, crashes>>
      /\ \/ /\ at[w] = "taking" /\ at'[w] = "preparing" /\ UNCHANGED <<told, links>>
            /\ l \in row /\ row' = row \ {l}
         \/ /\ at[w] = "preparing" /\ at'[w] = "committing" /\ UNCHANGED <<row, told, links>>
         \/ /\ at[w] = "committing" /\ at'[w] = Over(w) /\ told'[w] = "done"
            /\ row' = row /\ links' = [links EXCEPT ![l] = @ + 1]
         \/ /\ at[w] \in {"taking", "preparing", "committing"}
            /\ at'[w] = Over(w) /\ told'[w] = "failed" /\ UNCHANGED <<row, links>>
      /\ \A v \in Workers : v # w => at'[v] = at[v] /\ told'[v] = told[v]
  BY <1>0 DEF Complete, Take, Prepare, Commit, CompleteRest, authVars, downVars,
              Go, Tell, Stop, TypeOK
<1>2. /\ LoginOf(w) = l /\ links[l] \in Nat
      /\ w \in Callbacks => l \in Browser /\ l = target[w]
      /\ w \in QR => l = w
  BY <1>0 DEF LoginOf, TypeOK
<1> USE DEF Workers
<1>3. TypeOK'
  <2>1. at' \in [Workers -> Phases]
    <3>1. PICK next \in {"preparing", "committing", "leaving", "publishing"} :
            at' = [at EXCEPT ![w] = next]
      BY DEF Complete, Take, Prepare, Commit, Go, Stop, Over
    <3>2. QED BY <3>1 DEF TypeOK
  <2>2. told' \in [Workers -> Answers]
    <3>1. told' = told \/ \E what \in {"done", "failed"} : told' = [told EXCEPT ![w] = what]
      BY DEF Complete, Take, Prepare, Commit, Tell, Stop
    <3>2. QED BY <3>1 DEF TypeOK
  <2>3. links' \in [Logins -> Nat]
    <3>1. links \in [Logins -> Nat] BY DEF TypeOK
    <3>2. CASE links' = links BY <3>1, <3>2
    <3>3. CASE links' = [links EXCEPT ![l] = @ + 1] BY ONLY <3>1, <3>3, CountUp, l \in Logins
    <3>4. QED BY <1>1, <3>2, <3>3
  <2>4. \A c \in Callbacks : at'[c] \notin {"idle", "ended"} => at[c] \notin {"idle", "ended"}
    BY <1>1
  <2>5. QED BY <1>1, <2>1, <2>2, <2>3, <2>4 DEF TypeOK
<1>4. RowOwnsLink'
  <2>1. ASSUME NEW v \in Workers PROVE LoginOf(v)' = LoginOf(v) BY <1>1 DEF LoginOf
  <2>2. CASE UNCHANGED <<row, links>>
    BY <1>1, <2>1, <2>2, OwnershipKept DEF Committing, Over
  <2>3. CASE at'[w] = "preparing"
    <3>1. /\ l \in row /\ row' = row \ {l} /\ links' = links
          /\ links[l] = 0 /\ Committers(l) = {}
      BY <1>1, <1>2, <2>3 DEF RowOwnsLink, Over
    <3>2. Committers(l)' \subseteq {w}
      BY <1>1, <2>1, <3>1 DEF Committers
    <3>3. ASSUME NEW k \in Logins, k # l PROVE Committers(k)' \subseteq Committers(k)
      <4>1. LoginOf(w)' # k BY <1>2, <2>1, <3>3
      <4>2. QED BY <1>1, <2>1, <4>1 DEF Committers
    <3>4. QED BY <3>1, <3>2, <3>3 DEF RowOwnsLink
  <2>4. CASE at[w] = "committing" /\ links' = [links EXCEPT ![l] = @ + 1] /\ row' = row
    <3>1. w \in Committers(l) BY <1>2, <2>4 DEF Committers
    <3>2. l \notin row /\ links[l] = 0
      <4>1. links[l] \in Nat /\ links[l] <= 1 /\ links[l] # 1
        BY <1>2, <3>1 DEF TypeOK, RowOwnsLink
      <4>2. QED BY <1>2, <3>1, <4>1 DEF RowOwnsLink
    <3>3. links'[l] = 1 /\ \A k \in Logins : k # l => links'[k] = links[k]
      <4>1. links \in [Logins -> Nat] BY DEF TypeOK
      <4>2. links'[l] = links[l] + 1 /\ \A k \in Logins : k # l => links'[k] = links[k]
        BY ONLY <2>4, <4>1, CountUp, l \in Logins
      <4>3. QED BY <3>2, <4>2
    <3>4. at'[w] \notin {"preparing", "committing"} BY <1>1, <2>4 DEF Over
    <3>5. ASSUME NEW k \in Logins PROVE Committers(k)' \subseteq Committers(k) \ {w}
      BY <1>1, <2>1, <3>4 DEF Committers
    <3>6. Committers(l)' = {}
      BY <1>2, <3>1, <3>5 DEF RowOwnsLink
    <3>7. QED BY <2>4, <3>2, <3>3, <3>5, <3>6 DEF RowOwnsLink
  <2>5. QED BY <1>1, <2>2, <2>3, <2>4
<1>5. QRPhases'
  <2>1. ASSUME NEW q \in QR, q # w PROVE QRPhase(q)'
    <3>1. l # q BY <1>2, <2>1
    <3>2. links'[q] = links[q]
      <4>1. CASE links' = links BY <4>1
      <4>2. CASE links' = [links EXCEPT ![l] = @ + 1] BY <3>1, <4>2, CountUp DEF TypeOK, Logins
      <4>3. QED BY <1>1, <4>1, <4>2
    <3>3. QED BY <1>1, <2>1, <3>1, <3>2, PhaseKept DEF QRPhases, closed
  <2>2. ASSUME w \in QR PROVE QRPhase(w)'
    BY <1>1, <1>2, <2>2 DEF QRPhases, QRPhase, Left, Over, TypeOK, closed
  <2>3. QED BY <2>1, <2>2 DEF QRPhases
<1>6. BegunBefore'
  <2>1. w \in Callbacks => begun[l] = "open" BY <1>2 DEF BegunBefore, LoginOf
  <2>2. \A b \in Browser : links'[b] > 0 => links[b] > 0 \/ (w \in Callbacks /\ b = l)
    <3>1. CASE links' = links BY <3>1
    <3>2. CASE links' = [links EXCEPT ![l] = @ + 1]
      <4>1. \A b \in Browser : b # l => links'[b] = links[b] BY <3>2, CountUp DEF TypeOK, Logins
      <4>2. l \in Browser => w \in Callbacks BY <1>2, PendingAuthAssumption
      <4>3. QED BY <4>1, <4>2
    <3>3. QED BY <1>1, <3>1, <3>2
  <2>3. QED BY <1>1, <2>1, <2>2 DEF BegunBefore
<1>7. RowsAreKnown' /\ ShutdownRollsBack'
  <2>1. row' \subseteq row BY <1>1
  <2>2. QED BY <1>1, <2>1 DEF RowsAreKnown, ShutdownRollsBack
<1>8. StaysDrained'
  <2>1. w \in Enrolled BY <1>1 DEF Enrolled
  <2>2. QED BY <1>1, <2>1, DrainedKept
<1>9. QED BY <1>3, <1>4, <1>5, <1>6, <1>7, <1>8

-----------------------------------------------------------------------------
(* Shutdown and crash.                                                     *)

LEMMA ShutdownInv ==
    ASSUME Inv, Seal \/ Drain
    PROVE  Inv'
<1> USE PendingAuthAssumption
        DEF Phases, BeginPhases, Outcomes, Returns, Answers, Inv, IInv, authVars
<1>1. /\ UNCHANGED <<at, target, row, told, links, begun, outcomes, waiter, failed, crashes>>
      /\ session' \subseteq session
      /\ \/ down = "open" /\ down' = "sealed"
         \/ down = "sealed" /\ down' = "drained" /\ Enrolled = {} /\ session' = session
  BY DEF Seal, Drain
<1>2. TypeOK' BY <1>1 DEF TypeOK
<1>3. RowOwnsLink' BY <1>1, OwnershipKept DEF Committing, LoginOf
<1>4. QRPhases'
  <2>1. session' = {} \/ (session' = session /\ closed /\ closed')
    BY DEF Seal, Drain, closed
  <2>2. closed' BY <1>1 DEF closed
  <2>3. SUFFICES ASSUME NEW q \in QR PROVE QRPhase(q)' BY DEF QRPhases
  <2>4. QED BY <1>1, <2>1, <2>2 DEF QRPhases, QRPhase, Left
<1>5. BegunBefore' /\ RowsAreKnown' /\ ShutdownRollsBack'
  BY <1>1 DEF BegunBefore, RowsAreKnown, ShutdownRollsBack
<1>6. StaysDrained' BY <1>1 DEF StaysDrained, Enrolled
<1>7. QED BY <1>2, <1>3, <1>4, <1>5, <1>6

\* only what every BeginAuth has handed over is left, and that is taken back
LEMMA RollBackInv ==
    ASSUME Inv, RollBack
    PROVE  Inv'
<1> USE PendingAuthAssumption
        DEF Phases, BeginPhases, Outcomes, Returns, Answers, Inv, IInv
<1>1. PICK kept \in SUBSET ({b \in Browser : outcomes[b] # "absent"} \cap row) :
         /\ row' = row \ ({b \in Browser : outcomes[b] # "absent"} \ kept)
         /\ failed' = (kept # {})
  BY DEF RollBack
<1>2. /\ UNCHANGED <<at, target, told, links, begun, session, waiter, crashes>>
      /\ down = "drained" /\ down' = "done"
      /\ outcomes' = [b \in Browser |-> "absent"]
  BY DEF RollBack
<1>3. TypeOK' BY <1>1, <1>2 DEF TypeOK
<1>4. RowOwnsLink' BY <1>1, <1>2, OwnershipKept DEF Committing, LoginOf
<1>5. QRPhases' BY <1>1, <1>2, PhaseKept DEF QRPhases, closed
<1>6. BegunBefore' /\ RowsAreKnown' BY <1>2 DEF BegunBefore, RowsAreKnown
<1>7. StaysDrained' BY <1>2 DEF StaysDrained, Enrolled
<1>8. ShutdownRollsBack'
  <2>1. ASSUME ~failed', crashes = 0, NEW b \in Browser, b \in row' PROVE begun[b] = "unstored"
    <3>1. outcomes[b] = "absent" /\ b \in row BY <1>1, <2>1
    <3>2. begun[b] \in {"registering", "rolling back", "unstored"}
      BY <1>2, <2>1, <3>1 DEF RowsAreKnown
    <3>3. b \notin Enrolled BY <1>2 DEF StaysDrained
    <3>4. QED BY <3>2, <3>3 DEF Enrolled
  <2>2. QED BY <1>2, <2>1 DEF ShutdownRollsBack
<1>9. QED BY <1>3, <1>4, <1>5, <1>6, <1>7, <1>8

LEMMA CrashInv ==
    ASSUME Inv, Crash
    PROVE  Inv'
<1>0. crashes' \in 0..MaxCrash /\ crashes' # 0
  <2>1. crashes < MaxCrash /\ crashes' = crashes + 1 BY DEF Crash
  <2>2. crashes \in 0..MaxCrash BY DEF Phases, BeginPhases, Outcomes, Returns, Answers, Inv, IInv, TypeOK
  <2>3. QED BY <2>1, <2>2, PendingAuthAssumption
<1> USE PendingAuthAssumption
        DEF Phases, BeginPhases, Outcomes, Returns, Answers, Inv, IInv, Crash, Logins, Workers
<1>1. TypeOK'
  <2>2. told' \in [Workers -> Answers]
    BY DEF TypeOK
  <2>4. waiter' \in [Browser -> Returns]
    BY DEF TypeOK
  <2>5. at' \in [Workers -> Phases]
    BY DEF TypeOK
  <2>6. begun' \in [Browser -> BeginPhases]
    BY DEF TypeOK
  <2>7. \A c \in Callbacks : at'[c] \in {"idle", "ended"} OBVIOUS
  <2>8. QED BY <1>0, <2>2, <2>4, <2>5, <2>6, <2>7 DEF TypeOK
<1>2. RowOwnsLink' BY OwnershipKept DEF Committing
<1>3. QRPhases'
  <2>1. SUFFICES ASSUME NEW q \in QR PROVE QRPhase(q)' BY DEF QRPhases
  <2>2. /\ at'[q] = IF at[q] = "idle" THEN "idle" ELSE "ended"
        /\ told'[q] = IF at[q] \in {"idle", "ended"} THEN told[q] ELSE "crash"
    BY DEF TypeOK
  <2>3. crashes' > 0 BY <1>0
  <2>4. QED BY <2>2, <2>3 DEF QRPhases, QRPhase, Left, closed
<1>4. BegunBefore' BY DEF BegunBefore, TypeOK
<1>6. RowsAreKnown' /\ ShutdownRollsBack' BY <1>0 DEF RowsAreKnown, ShutdownRollsBack
<1>7. StaysDrained' BY DEF StaysDrained
<1>8. QED BY <1>1, <1>2, <1>3, <1>4, <1>6, <1>7

-----------------------------------------------------------------------------
LEMMA UnchangedInv == Inv /\ UNCHANGED vars => Inv'
<1> SUFFICES ASSUME Inv, UNCHANGED vars PROVE Inv' OBVIOUS
<1> USE DEF Phases, BeginPhases, Outcomes, Returns, Answers, Inv, IInv, vars, authVars, downVars
<1>1. TypeOK' BY DEF TypeOK
<1>2. RowOwnsLink' BY OwnershipKept DEF Committing, LoginOf
<1>3. QRPhases' BY PhaseKept DEF QRPhases, closed
<1>4. BegunBefore' /\ RowsAreKnown' /\ ShutdownRollsBack'
  BY DEF BegunBefore, RowsAreKnown, ShutdownRollsBack
<1>5. StaysDrained' BY DEF StaysDrained, Enrolled
<1>6. QED BY <1>1, <1>2, <1>3, <1>4, <1>5

LEMMA NextInv == Inv /\ [Next]_vars => Inv'
<1> SUFFICES ASSUME Inv, [Next]_vars PROVE Inv' OBVIOUS
<1>1. ASSUME NEW q \in QR, BeginQRAuth(q) \/ QRStep(q) PROVE Inv'
  BY <1>1, BeginQRAuthInv, StartQRSessionInv, PutRowInv, RegisterInv, EncodeInv, ShowInv, CancelRowInv,
     CancelSessionInv, WaitQRLoginInv, LookUpInv, PollInv, CompleteInv, LeaveInv, SpeakInv
     DEF QRStep, Workers
<1>2. ASSUME NEW b \in Browser, BeginAuth(b) \/ WaitBrowserLogin(b) \/ BrowserStep(b) PROVE Inv'
  BY <1>2, BeginAuthInv, WaitBrowserLoginInv, BeginPutRowInv, BeginRegisterInv,
     BeginRollBackInv, WaitReturnsInv
     DEF BrowserStep
<1>3. ASSUME NEW c \in Callbacks, Callback(c) \/ CallbackStep(c) PROVE Inv'
  BY <1>3, CallbackInv, CompleteInv, PublishInv DEF CallbackStep, Workers
<1>4. QED BY <1>1, <1>2, <1>3, ShutdownInv, RollBackInv, CrashInv, UnchangedInv DEF Next

\* A row, a completion under way and a stored account of one login exclude each other,
\* for any number of callbacks that race for it (TakeAuthPending, commitAccountLink).
THEOREM PendingAuthInvariance == Spec => []IInv
<1>1. Inv => IInv BY DEF Inv
<1>2. QED BY <1>1, InitInv, NextInv, PTL DEF Spec

\* A QR login that is over has taken its row and its session with it (CancelQRAuth,
\* WaitQRLogin), unless it learned why it could not; that its session is unknown, which
\* leaves the row, it learns only from a server that closed while it was looking.
THEOREM QRLeavesNothingBehind == Spec => []QRLeavesNothing
<1>1. IInv => QRLeavesNothing BY DEF IInv, QRPhases, QRPhase, QRLeavesNothing
<1>2. QED BY <1>1, PendingAuthInvariance, PTL

\* Shutdown takes back the row of every browser login, whatever BeginAuth was doing
\* (rollbackPendingAuth).
THEOREM RowsRolledBack == Spec => []ShutdownRollsBack
<1>1. Inv => ShutdownRollsBack BY DEF Inv
<1>2. QED BY <1>1, InitInv, NextInv, PTL DEF Spec

\* Once Shutdown has joined the lifecycle operations nobody stores an account.
THEOREM NothingStoredAfterDrain == Spec => NoLinkAfterShutdown
<1>1. ASSUME IInv, [Next]_vars, down \in {"drained", "done"} PROVE UNCHANGED links
  <2>1. ASSUME NEW w \in Workers, Commit(w) PROVE FALSE
    BY <1>1, <2>1 DEF IInv, StaysDrained, Enrolled, Commit
  <2>2. QED BY <1>1, <2>1
     DEF Next, QRStep, BrowserStep, CallbackStep, Complete, Workers, QRRest, BrowserRest,
         BeginQRAuth, StartQRSession, PutRow, Register, Encode, Show, CancelRow, CancelSession,
         WaitQRLogin, LookUp, Poll, Leave, Speak, BeginAuth, BeginPutRow, BeginRegister, BeginRollBack,
         WaitBrowserLogin, WaitReturns, Callback, Publish, Take, Prepare,
         Seal, Drain, RollBack, Crash, vars
<1>2. IInv /\ [Next]_vars => [(down \in {"drained", "done"}) => UNCHANGED links]_vars
  BY <1>1
<1>3. QED BY <1>2, PendingAuthInvariance, PTL DEF Spec, NoLinkAfterShutdown
=============================================================================
