-------------------------- MODULE UnlockFlowProofs --------------------------
(***************************************************************************)
(* Theorems about UnlockFlow, for any number of dials, approvals and       *)
(* errands.  What no is said after and when the window ends an approval    *)
(* holds whatever the flow has lost hold of; what becomes of a session,    *)
(* until it first does.                                                    *)
(***************************************************************************)
EXTENDS UnlockFlow, TLAPS

(* A machine that has been told something is one the session has answered. *)
Told == \A s \in Sessions : said[s] # "no, answer" /\ (said[s] # "nothing" => answered[s])

(* Only the window in the field is running, and not past the moment at     *)
(* which the latest approval begins to answer.                             *)
Windows ==
    /\ \A s \in Sessions : expiry[s] = "armed" => approveExpiry = s
    /\ \A s \in Sessions : expiry[s] = "armed" /\ approveRun # None => run[approveRun] \notin Answering
    /\ ExpiredAnswersNothing

Live(r, s) == run[r] # "none" /\ of[r] = s

(* While a dial lasts it is the one in flight, the field has no other      *)
(* session, nobody approves it yet, and the screen asks for no approval.   *)
DialAlone ==
    \A s \in Sessions : dial[s] # "idle" =>
        /\ inFlight = s /\ session \in {None, s} /\ screen # "approve"
        /\ \A r \in Runs : ~Live(r, s)

(* The field names a dial that goes on.                                    *)
FlightIsReal == inFlight # None => dial[inFlight] # "idle"

(* The home screen has nothing of an exchange behind it.                   *)
HomeIsEmpty == screen = "ready" => inFlight = None /\ session = None

(* The session in hand has one approval at most, and none while its screen *)
(* asks for one.                                                           *)
OneApproval ==
    session # None =>
        /\ \A r, q \in Runs : Live(r, session) /\ Live(q, session) => r = q
        /\ screen = "approve" => \A r \in Runs : ~Live(r, session)

Requested(r) == run[r] \in {"prepare", "prompt"} /\ Held(of[r])

(* An approval that has the machine waiting is the latest, and on screen.  *)
RequestOnScreen == \A r \in Runs : Requested(r) => screen = "working" /\ approveRun = r

Covered(s) == expiry[s] # "off" \/ \E e \in Errands : errand[e] \in Leaving

(* So is the machine whose request is on the screen with no approval yet.  *)
ScreenIsCovered == screen = "approve" /\ Held(session) => Covered(session)

InHand ==
    /\ SessionsAreReached /\ WindowCoversRequest
    /\ DialAlone /\ FlightIsReal /\ HomeIsEmpty
    /\ OneApproval /\ RequestOnScreen /\ ScreenIsCovered

(* The inductive invariant.                                                *)
FlowInv == TypeOK /\ Told /\ Windows /\ (mishaps = {} => InHand)

-----------------------------------------------------------------------------
(* What the operations on a session and on the fields do.                  *)

USE UnlockAssumption

Says(s) == said'[s] # "no, answer" /\ (said'[s] # "nothing" => answered'[s])

LEMMA DeclineTells ==
  ASSUME TypeOK, NEW s \in Sessions \cup {None}, Decline(s)
  PROVE  /\ answered' \in [Sessions -> BOOLEAN]
         /\ said' \in [Sessions -> {"nothing", "no", "answer", "no, answer"}]
         /\ Told => \A t \in Sessions : Says(t)
<1>1. CASE UNCHANGED <<answered, said>>
  BY <1>1 DEF TypeOK, Told, Says
<1>2. CASE /\ s \in Sessions
           /\ answered' = [answered EXCEPT ![s] = TRUE]
           /\ said' = [said EXCEPT ![s] = IF @ = "nothing" THEN "no" ELSE @]
  <2>1. answered' \in [Sessions -> BOOLEAN]
    BY <1>2 DEF TypeOK
  <2>2. said[s] \in {"nothing", "no", "answer", "no, answer"}
    BY <1>2 DEF TypeOK
  <2>3. said' \in [Sessions -> {"nothing", "no", "answer", "no, answer"}]
    BY <1>2, <2>2 DEF TypeOK
  <2>4. ASSUME Told, NEW t \in Sessions PROVE Says(t)
    <3>1. CASE t = s
      <4>1. answered'[s] = TRUE
        BY <1>2 DEF TypeOK
      <4>2. said'[s] = IF said[s] = "nothing" THEN "no" ELSE said[s]
        BY <1>2 DEF TypeOK
      <4>3. said[s] # "no, answer"
        BY <1>2, <2>4 DEF Told
      <4> QED
        BY <3>1, <4>1, <4>2, <4>3 DEF Says
    <3>2. CASE t # s
      BY <1>2, <2>4, <3>2 DEF TypeOK, Told, Says
    <3> QED
      BY <3>1, <3>2
  <2> QED
    BY <2>1, <2>3, <2>4
<1> QED
  BY <1>1, <1>2 DEF Decline

LEMMA ClosingForgets ==
  ASSUME TypeOK, CloseHeld
  PROVE  /\ conn' \in [Sessions -> {"none", "open"}] /\ answered' \in [Sessions -> BOOLEAN]
         /\ said' \in [Sessions -> {"nothing", "no", "answer", "no, answer"}]
         /\ \A s \in Sessions : conn'[s] = "open" => conn[s] = "open"
         /\ Told => \A t \in Sessions : Says(t)
<1>1. CASE session = None
  BY <1>1 DEF CloseHeld, TypeOK, Told, Says, goVars
<1>2. CASE session # None
  <2>1. /\ session \in Sessions
        /\ conn' = [conn EXCEPT ![session] = "none"]
        /\ answered' = [answered EXCEPT ![session] = FALSE]
        /\ said' = [said EXCEPT ![session] = "nothing"]
    BY <1>2 DEF CloseHeld, TypeOK
  <2>2. /\ conn' \in [Sessions -> {"none", "open"}] /\ answered' \in [Sessions -> BOOLEAN]
        /\ said' \in [Sessions -> {"nothing", "no", "answer", "no, answer"}]
    BY <2>1 DEF TypeOK
  <2>3. \A s \in Sessions : conn'[s] = "open" => conn[s] = "open"
    BY <2>1 DEF TypeOK
  <2>4. ASSUME Told, NEW t \in Sessions PROVE Says(t)
    BY <2>1, <2>4 DEF TypeOK, Told, Says
  <2> QED
    BY <2>2, <2>3, <2>4
<1> QED
  BY <1>1, <1>2

LEMMA DisarmsTheWindow ==
  ASSUME TypeOK, Disarm
  PROVE  /\ expiry' \in [Sessions -> {"off", "armed"} \cup Leaving]
         /\ approveExpiry' = None
         /\ \A s \in Sessions : expiry'[s] \in {"off", expiry[s]}
         /\ Windows => \A s \in Sessions : expiry'[s] # "armed"
  BY DEF TypeOK, Disarm, Windows

LEMMA RunMoves ==
  ASSUME TypeOK, NEW r \in Runs, NEW step \in RunSteps, RunGoes(r, step)
  PROVE  /\ run' \in [Runs -> RunSteps] /\ run'[r] = step
         /\ \A q \in Runs \ {r} : run'[q] = run[q]
         /\ UNCHANGED <<of, expired, approveRun>>
  BY DEF TypeOK, RunGoes

LEMMA RunStops ==
  ASSUME TypeOK, NEW r \in Runs, RunIsOver(r)
  PROVE  /\ run' \in [Runs -> RunSteps] /\ of' \in [Runs -> Sessions \cup {None}]
         /\ expired' \in [Runs -> BOOLEAN]
         /\ run'[r] = "none" /\ ~expired'[r]
         /\ \A q \in Runs \ {r} : run'[q] = run[q] /\ of'[q] = of[q] /\ expired'[q] = expired[q]
         /\ approveRun' = IF approveRun = r THEN None ELSE approveRun
  BY DEF TypeOK, RunIsOver, RunSteps

(* Types. *)

LEMMA TypesStep == TypeOK /\ Next => TypeOK'
<1> SUFFICES ASSUME TypeOK, Next PROVE TypeOK'
  OBVIOUS
<1> USE DEF TypeOK, Screens, Busy, Leaving, Answering, RunSteps, MishapKinds,
        SetSession, Overwrites, Meddles, Disarm, StartRun, DialDone, RunGoes, RunIsOver,
        dialVars, goVars, runVars, expiryVars
<1>1. ASSUME NEW s \in Sessions, TapUnlock(s) PROVE TypeOK'
  BY <1>1 DEF TapUnlock
<1>2. ASSUME NEW s \in Sessions, DialCloses(s) PROVE TypeOK'
  BY <1>2, ClosingForgets DEF DialCloses
<1>3. ASSUME NEW s \in Sessions, DialClears(s) PROVE TypeOK'
  BY <1>3 DEF DialClears
<1>4. ASSUME NEW s \in Sessions, DialReturns(s) PROVE TypeOK'
  BY <1>4 DEF DialReturns
<1>5. ASSUME NEW s \in Sessions, NEW r \in Runs, DialAsks(s, r) PROVE TypeOK'
  BY <1>5 DEF DialAsks
<1>6. ASSUME NEW s \in Sessions, DialTooLate(s) PROVE TypeOK'
  BY <1>6 DEF DialTooLate
<1>7. ASSUME NEW s \in Sessions, DialRefuses(s) PROVE TypeOK'
  BY <1>7, DeclineTells DEF DialRefuses
<1>8. ASSUME NEW s \in Sessions, DialFails(s) PROVE TypeOK'
  <2>1. dial' \in [Sessions -> {"idle", "start", "startClear", "dialling", "connected",
                                 "failing", "home"} \cup Leaving]
    <3>1. dial' = [dial EXCEPT ![s] = "home"] \/ dial' = [dial EXCEPT ![s] = "idle"]
      BY <1>8 DEF DialFails
    <3>2. CASE dial' = [dial EXCEPT ![s] = "home"]
      BY <3>2
    <3>3. CASE dial' = [dial EXCEPT ![s] = "idle"]
      BY <3>3
    <3> QED
      BY <3>1, <3>2, <3>3
  <2>2. inFlight' \in Sessions \cup {None} /\ cancelled' \in [Sessions -> BOOLEAN]
    BY <1>8 DEF DialFails
  <2>3. screen' \in Screens
    BY <1>8 DEF DialFails
  <2> QED
    BY <1>8, <2>1, <2>2, <2>3 DEF DialFails
<1>9. ASSUME NEW s \in Sessions, DialGoesHome(s) PROVE TypeOK'
  BY <1>9 DEF DialGoesHome
<1>10. ASSUME NEW s \in Sessions, ExpiryFires(s) PROVE TypeOK'
  BY <1>10 DEF ExpiryFires
<1>11. ASSUME NEW s \in Sessions, ExpiryRefuses(s) PROVE TypeOK'
  BY <1>11, DeclineTells DEF ExpiryRefuses
<1>12. ASSUME NEW s \in Sessions, ExpiryCloses(s) PROVE TypeOK'
  BY <1>12, ClosingForgets DEF ExpiryCloses
<1>13. ASSUME NEW s \in Sessions, ExpiryEnds(s) PROVE TypeOK'
  BY <1>13 DEF ExpiryEnds
<1>14. ASSUME NEW r \in Runs, TapApprove(r) PROVE TypeOK'
  BY <1>14 DEF TapApprove
<1>15. ASSUME NEW r \in Runs, PromptSucceeds(r) PROVE TypeOK'
  BY <1>15 DEF PromptSucceeds
<1>16. ASSUME NEW r \in Runs, PromptDismissed(r) PROVE TypeOK'
  BY <1>16 DEF PromptDismissed
<1>17. ASSUME NEW r \in Runs, PromptFails(r) PROVE TypeOK'
  BY <1>17 DEF PromptFails
<1>18. ASSUME NEW r \in Runs, RunPrepares(r) PROVE TypeOK'
  <2>1. /\ run' \in [Runs -> RunSteps] /\ of' \in [Runs -> Sessions \cup {None}]
        /\ expired' \in [Runs -> BOOLEAN] /\ approveRun' \in Runs \cup {None}
    <3>1. CASE RunGoes(r, "prompt")
      BY <3>1
    <3>2. CASE RunGoes(r, "deny")
      BY <3>2
    <3>3. CASE RunIsOver(r)
      BY <3>3
    <3> QED
      BY <1>18, <3>1, <3>2, <3>3 DEF RunPrepares
  <2>2. expiry' \in [Sessions -> {"off", "armed"} \cup Leaving]
    BY <1>18, DisarmsTheWindow DEF RunPrepares
  <2>3. approveExpiry' \in Sessions \cup {None}
    BY <1>18 DEF RunPrepares
  <2>4. mishaps' \subseteq MishapKinds
    <3>1. CASE UNCHANGED mishaps
      BY <3>1
    <3>2. CASE Meddles(of[r])
      BY <3>2
    <3>3. CASE mishaps' = mishaps \cup IF approveExpiry # None THEN {"swallowed"} ELSE {}
      BY <3>3
    <3> QED
      BY <1>18, <3>1, <3>2, <3>3 DEF RunPrepares
  <2> QED
    BY <1>18, <2>1, <2>2, <2>3, <2>4 DEF RunPrepares
<1>19. ASSUME NEW r \in Runs, PromptExpires(r) PROVE TypeOK'
  BY <1>19 DEF PromptExpires
<1>20. ASSUME NEW r \in Runs, RunAnswers(r) PROVE TypeOK'
  <2>1. run' \in [Runs -> RunSteps] /\ UNCHANGED <<of, expired, approveRun>>
    BY <1>20, RunMoves DEF RunAnswers
  <2>2. screen' \in Screens /\ answered' \in [Sessions -> BOOLEAN]
    BY <1>20 DEF RunAnswers
  <2>3. said' \in [Sessions -> {"nothing", "no", "answer", "no, answer"}]
    <3>1. CASE said' = said
      BY <3>1
    <3>2. ASSUME NEW new \in {"no, answer", "answer"}, said' = [said EXCEPT ![of[r]] = new]
          PROVE  said' \in [Sessions -> {"nothing", "no", "answer", "no, answer"}]
      BY <3>2
    <3>3. \/ said' = said
          \/ said' = [said EXCEPT ![of[r]] = IF said[of[r]] = "no" THEN "no, answer" ELSE "answer"]
      BY <1>20 DEF RunAnswers
    <3> QED
      BY <3>1, <3>2, <3>3
  <2>4. mishaps' \subseteq MishapKinds
    BY <1>20 DEF RunAnswers
  <2> QED
    BY <1>20, <2>1, <2>2, <2>3, <2>4 DEF RunAnswers
<1>21. ASSUME NEW r \in Runs, RunHearsVerdict(r) PROVE TypeOK'
  BY <1>21 DEF RunHearsVerdict
<1>22. ASSUME NEW r \in Runs, RunDenies(r) PROVE TypeOK'
  <2>1. run' \in [Runs -> RunSteps] /\ UNCHANGED <<of, expired, approveRun>>
    BY <1>22, RunMoves DEF RunDenies
  <2>2. of[r] \in Sessions \cup {None} /\ Decline(of[r])
    BY <1>22 DEF RunDenies
  <2> QED
    BY <1>22, <2>1, <2>2, DeclineTells DEF RunDenies
<1>23. ASSUME NEW r \in Runs, RunCloses(r) PROVE TypeOK'
  <2>1. run' \in [Runs -> RunSteps] /\ UNCHANGED <<of, expired, approveRun>>
    BY <1>23, RunMoves DEF RunCloses
  <2>2. /\ conn' \in [Sessions -> {"none", "open"}] /\ answered' \in [Sessions -> BOOLEAN]
        /\ said' \in [Sessions -> {"nothing", "no", "answer", "no, answer"}]
    BY <1>23, ClosingForgets DEF RunCloses
  <2>3. mishaps' \subseteq MishapKinds
    BY <1>23 DEF RunCloses
  <2>4. UNCHANGED <<screen, session, dialVars, expiryVars, errand, resetting>>
    BY <1>23 DEF RunCloses
  <2> QED
    BY <2>1, <2>2, <2>3, <2>4
<1>24. ASSUME NEW r \in Runs, RunEnds(r) PROVE TypeOK'
  BY <1>24 DEF RunEnds
<1>25. ASSUME NEW e \in Errands, TapCancel(e) PROVE TypeOK'
  <2>1. expiry' \in [Sessions -> {"off", "armed"} \cup Leaving] /\ approveExpiry' = None
    BY <1>25, DisarmsTheWindow DEF TapCancel
  <2>2. cancelled' \in [Sessions -> BOOLEAN]
    BY <1>25 DEF TapCancel
  <2>3. errand' \in [Errands -> {"idle", "home"} \cup Leaving]
    BY <1>25 DEF TapCancel
  <2> QED
    BY <1>25, <2>1, <2>2, <2>3 DEF TapCancel
<1>26. ASSUME NEW e \in Errands, TapHome(e) PROVE TypeOK'
  BY <1>26 DEF TapHome
<1>27. ASSUME NEW e \in Errands, ErrandRefuses(e) PROVE TypeOK'
  BY <1>27, DeclineTells DEF ErrandRefuses
<1>28. ASSUME NEW e \in Errands, ErrandCloses(e) PROVE TypeOK'
  BY <1>28, ClosingForgets DEF ErrandCloses
<1>29. ASSUME NEW e \in Errands, ErrandClears(e) PROVE TypeOK'
  BY <1>29 DEF ErrandClears
<1>30. ASSUME NEW e \in Errands, ErrandEnds(e) PROVE TypeOK'
  BY <1>30 DEF ErrandEnds
<1>31. CASE KeyCheckFinds
  BY <1>31 DEF KeyCheckFinds
<1>32. CASE KeyCheckEnds
  BY <1>32 DEF KeyCheckEnds
<1> QED
  BY <1>1, <1>2, <1>3, <1>4, <1>5, <1>6, <1>7, <1>8, <1>9, <1>10, <1>11, <1>12,
     <1>13, <1>14, <1>15, <1>16, <1>17, <1>18, <1>19, <1>20, <1>21, <1>22,
     <1>23, <1>24, <1>25, <1>26, <1>27, <1>28, <1>29, <1>30, <1>31, <1>32
     DEF Next, DialStep, ExpiryStep, PromptAnswered, RunStep, ErrandStep

(* A no is final: only an answer is said after it, and the session knows.  *)
LEMMA ToldStep == TypeOK /\ Told /\ Next => Told'
<1> SUFFICES ASSUME TypeOK, Told, Next PROVE Told'
  OBVIOUS
<1>1. CASE UNCHANGED <<answered, said>>
  BY <1>1 DEF Told
<1>2. CASE CloseHeld
  BY <1>2, ClosingForgets DEF Told, Says
<1>3. ASSUME NEW s \in Sessions \cup {None}, Decline(s) PROVE Told'
  BY <1>3, DeclineTells DEF Told, Says
<1>4. ASSUME NEW r \in Runs, RunAnswers(r) PROVE Told'
  <2>1. CASE UNCHANGED <<answered, said>>
    BY <2>1 DEF Told
  <2>2. CASE /\ ~answered[of[r]]
             /\ answered' = [answered EXCEPT ![of[r]] = TRUE]
             /\ said' = [said EXCEPT ![of[r]] = IF @ = "no" THEN "no, answer" ELSE "answer"]
    <3> SUFFICES ASSUME NEW s \in Sessions PROVE Says(s)
      BY DEF Told, Says
    <3>1. CASE s = of[r]
      <4>1. said[s] = "nothing"
        BY <2>2, <3>1 DEF Told
      <4>2. answered'[s] = TRUE
        BY <2>2, <3>1 DEF TypeOK
      <4>3. said'[s] = IF said[s] = "no" THEN "no, answer" ELSE "answer"
        BY <2>2, <3>1 DEF TypeOK
      <4>4. said'[s] = "answer"
        BY <4>1, <4>3
      <4> QED
        BY <4>2, <4>4 DEF Says
    <3>2. CASE s # of[r]
      <4>1. said'[s] = said[s] /\ answered'[s] = answered[s]
        BY <2>2, <3>2 DEF TypeOK
      <4> QED
        BY <4>1 DEF Told, Says
    <3> QED
      BY <3>1, <3>2
  <2> QED
    BY <1>4, <2>1, <2>2 DEF RunAnswers
<1>5. ASSUME NEW s \in Sessions, DialStep(s) \/ ExpiryStep(s) \/ TapUnlock(s) PROVE Told'
  BY <1>1, <1>2, <1>3, <1>5
     DEF DialStep, ExpiryStep, TapUnlock, DialCloses, DialClears, DialReturns, DialAsks,
         DialTooLate, DialRefuses, DialFails, DialGoesHome, ExpiryFires, ExpiryRefuses,
         ExpiryCloses, ExpiryEnds, goVars, TypeOK
<1>6. ASSUME NEW r \in Runs, RunStep(r) \/ PromptAnswered(r) \/ TapApprove(r) PROVE Told'
  <2>1. of[r] \in Sessions \cup {None}
    BY DEF TypeOK
  <2> QED
    BY <1>1, <1>2, <1>3, <1>4, <1>6, <2>1
       DEF RunStep, PromptAnswered, TapApprove, RunPrepares, PromptExpires, PromptSucceeds,
           PromptDismissed, PromptFails, RunHearsVerdict, RunDenies, RunCloses, RunEnds, goVars
<1>7. ASSUME NEW e \in Errands, ErrandStep(e) \/ TapCancel(e) \/ TapHome(e) PROVE Told'
  <2>1. session \in Sessions \cup {None}
    BY DEF TypeOK
  <2> QED
    BY <1>1, <1>2, <1>3, <1>7, <2>1
       DEF ErrandStep, TapCancel, TapHome, ErrandRefuses, ErrandCloses, ErrandClears, ErrandEnds,
           goVars
<1>8. CASE KeyCheckFinds \/ KeyCheckEnds
  BY <1>1, <1>8 DEF KeyCheckFinds, KeyCheckEnds, goVars
<1> QED
  BY <1>5, <1>6, <1>7, <1>8 DEF Next

(* The window.                                                             *)

(* One approval ends or goes on, and does not begin to answer.             *)
LEMMA RunKeepsWindows ==
  ASSUME TypeOK, Windows, NEW r \in Runs,
         UNCHANGED expiryVars,
         \A q \in Runs \ {r} : run'[q] = run[q] /\ expired'[q] = expired[q],
         run'[r] \in Answering => run[r] \in Answering /\ expired'[r] = expired[r],
         approveRun' \in {approveRun, None}
  PROVE  Windows'
<1>1. \A q \in Runs : run'[q] \in Answering => run[q] \in Answering /\ expired'[q] = expired[q]
  OBVIOUS
<1>2. ExpiredAnswersNothing'
  BY <1>1 DEF Windows, ExpiredAnswersNothing
<1>3. \A s \in Sessions : expiry'[s] = "armed" => approveExpiry' = s
  BY DEF Windows, expiryVars
<1>4. \A s \in Sessions :
        expiry'[s] = "armed" /\ approveRun' # None => run'[approveRun'] \notin Answering
  <2> SUFFICES ASSUME NEW s \in Sessions, expiry'[s] = "armed", approveRun' # None
               PROVE  run'[approveRun] \notin Answering /\ approveRun' = approveRun
    OBVIOUS
  <2>1. expiry[s] = "armed" /\ approveRun' = approveRun /\ approveRun \in Runs
    BY DEF expiryVars, TypeOK
  <2>2. run[approveRun] \notin Answering
    BY <2>1 DEF Windows, TypeOK
  <2> QED
    BY <1>1, <2>1, <2>2
<1> QED
  BY <1>2, <1>3, <1>4 DEF Windows

(* Nothing is armed, and nobody begins to answer who may not.              *)
LEMMA DisarmedKeepsWindows ==
  ASSUME Windows,
         \A s \in Sessions : expiry'[s] # "armed",
         \A q \in Runs : expired'[q] /\ run'[q] \in Answering =>
                         expired[q] /\ run[q] \in Answering
  PROVE  Windows'
  BY DEF Windows, ExpiredAnswersNothing

LEMMA WindowsStep == TypeOK /\ Windows /\ Next => Windows'
<1> SUFFICES ASSUME TypeOK, Windows, Next PROVE Windows'
  OBVIOUS
<1> USE DEF RunSteps, Answering, Leaving
<1>1. CASE UNCHANGED <<expiryVars, runVars>>
  BY <1>1 DEF Windows, ExpiredAnswersNothing, expiryVars, runVars
<1>2. ASSUME NEW s \in Sessions, ExpiryFires(s) PROVE Windows'
  <2>1. CASE WaitingForAnswer
    <3>1. \A t \in Sessions : expiry'[t] # "armed"
      BY <1>2, <2>1 DEF ExpiryFires, Windows, TypeOK
    <3>2. approveRun # None => run[approveRun] \notin Answering
      BY <1>2 DEF ExpiryFires, Windows
    <3>3. ExpiredAnswersNothing'
      <4> SUFFICES ASSUME NEW q \in Runs, expired'[q] PROVE run'[q] \notin Answering
        BY DEF ExpiredAnswersNothing
      <4>1. run' = run /\ (expired[q] \/ q = approveRun)
        BY <1>2 DEF ExpiryFires
      <4> QED
        BY <3>2, <4>1, UnlockAssumption DEF Windows, ExpiredAnswersNothing
    <3> QED
      BY <3>1, <3>3 DEF Windows
  <2>2. CASE ~WaitingForAnswer
    <3>1. \A t \in Sessions : expiry'[t] # "armed"
      BY <1>2, <2>2 DEF ExpiryFires, Windows, TypeOK
    <3>2. run' = run /\ \A q \in Runs : expired'[q] = expired[q]
      BY <1>2, <2>2 DEF ExpiryFires
    <3> QED
      BY <3>1, <3>2, DisarmedKeepsWindows
  <2> QED
    BY <2>1, <2>2
<1>3. ASSUME NEW s \in Sessions, NEW r \in Runs, DialAsks(s, r) PROVE Windows'
  BY <1>3 DEF DialAsks, StartRun, Windows, ExpiredAnswersNothing, TypeOK
<1>4. ASSUME NEW s \in Sessions, TapUnlock(s) PROVE Windows'
  <2>1. \A t \in Sessions : expiry'[t] # "armed"
    BY <1>4, DisarmsTheWindow DEF TapUnlock
  <2> QED
    BY <1>4, <2>1, DisarmedKeepsWindows DEF TapUnlock, runVars
<1>5. ASSUME NEW e \in Errands, TapCancel(e) PROVE Windows'
  <2>1. \A t \in Sessions : expiry'[t] # "armed"
    BY <1>5, DisarmsTheWindow DEF TapCancel
  <2> QED
    BY <1>5, <2>1, DisarmedKeepsWindows DEF TapCancel, runVars
<1>6. ASSUME NEW s \in Sessions, ExpiryRefuses(s) \/ ExpiryCloses(s) \/ ExpiryEnds(s)
      PROVE  Windows'
  <2>1. expiry[s] # "armed" /\ UNCHANGED runVars
    BY <1>6 DEF ExpiryRefuses, ExpiryCloses, ExpiryEnds
  <2>2. expiry'[s] # "armed" /\ \A t \in Sessions \ {s} : expiry'[t] = expiry[t]
    BY <1>6 DEF ExpiryRefuses, ExpiryCloses, ExpiryEnds, TypeOK
  <2>3. approveExpiry # s => approveExpiry' = approveExpiry
    BY <1>6 DEF ExpiryRefuses, ExpiryCloses, ExpiryEnds
  <2> QED
    BY <2>1, <2>2, <2>3 DEF Windows, ExpiredAnswersNothing, runVars
<1>7. ASSUME NEW r \in Runs, TapApprove(r) PROVE Windows'
  BY <1>7 DEF TapApprove, StartRun, Windows, ExpiredAnswersNothing, expiryVars, TypeOK
<1>8. ASSUME NEW r \in Runs, RunIsOver(r), UNCHANGED expiryVars PROVE Windows'
  BY <1>8, RunStops, RunKeepsWindows
<1>9. ASSUME NEW r \in Runs, NEW step \in RunSteps, RunGoes(r, step), UNCHANGED expiryVars,
             step \in Answering => run[r] \in Answering
      PROVE  Windows'
  BY <1>9, RunMoves, RunKeepsWindows
<1>10. ASSUME NEW r \in Runs, RunGoes(r, "deny") \/ (RunGoes(r, "unwrap") /\ ~expired[r]),
              Disarm
       PROVE  Windows'
  <2>1. \A t \in Sessions : expiry'[t] # "armed"
    BY <1>10, DisarmsTheWindow
  <2>2. \A q \in Runs : expired'[q] = expired[q] /\ (q # r => run'[q] = run[q])
    BY <1>10, RunMoves
  <2>3. run'[r] \in Answering => ~expired[r]
    BY <1>10, RunMoves
  <2> QED
    BY <2>1, <2>2, <2>3, DisarmedKeepsWindows
<1>11. ASSUME NEW r \in Runs, RunIsOver(r), Disarm PROVE Windows'
  <2>1. \A t \in Sessions : expiry'[t] # "armed"
    BY <1>11, DisarmsTheWindow
  <2> QED
    BY <1>11, <2>1, RunStops, DisarmedKeepsWindows
<1>12. ASSUME NEW r \in Runs, RunStep(r) \/ PromptAnswered(r) PROVE Windows'
  <2>1. CASE RunPrepares(r)
    BY <1>9, <1>10, <1>11, <2>1 DEF RunPrepares
  <2>2. CASE PromptExpires(r)
    BY <1>8, <2>2 DEF PromptExpires
  <2>3. CASE RunAnswers(r)
    BY <1>9, <2>3 DEF RunAnswers
  <2>4. CASE RunHearsVerdict(r)
    BY <1>9, <2>4 DEF RunHearsVerdict
  <2>5. CASE RunDenies(r)
    <3>1. RunGoes(r, IF run[r] = "deny" THEN "denyClose" ELSE "close") /\ UNCHANGED expiryVars
      BY <2>5 DEF RunDenies
    <3> QED
      BY <1>9, <2>5, <3>1 DEF RunDenies
  <2>6. CASE RunCloses(r)
    BY <1>9, <2>6 DEF RunCloses
  <2>7. CASE RunEnds(r)
    BY <1>8, <2>7 DEF RunEnds
  <2>8. CASE PromptAnswered(r)
    BY <1>8, <1>10, <2>8
       DEF PromptAnswered, PromptSucceeds, PromptDismissed, PromptFails
  <2> QED
    BY <1>12, <2>1, <2>2, <2>3, <2>4, <2>5, <2>6, <2>7, <2>8 DEF RunStep
<1>13. ASSUME NEW s \in Sessions, DialStep(s) \/ ExpiryStep(s) PROVE Windows'
  BY <1>1, <1>2, <1>3, <1>6, <1>13
     DEF DialStep, ExpiryStep, DialCloses, DialClears, DialReturns, DialTooLate, DialRefuses,
         DialFails, DialGoesHome
<1>14. ASSUME NEW e \in Errands, ErrandStep(e) \/ TapHome(e) PROVE Windows'
  BY <1>1, <1>14 DEF ErrandStep, TapHome, ErrandRefuses, ErrandCloses, ErrandClears, ErrandEnds
<1>15. CASE KeyCheckFinds \/ KeyCheckEnds
  BY <1>1, <1>15 DEF KeyCheckFinds, KeyCheckEnds
<1> QED
  BY <1>4, <1>5, <1>7, <1>12, <1>13, <1>14, <1>15 DEF Next

-----------------------------------------------------------------------------
(* While nothing is lost.  Most steps are one of a few kinds.              *)

Asking == {"prepare", "prompt"}

(* No dial begins or ends, no session opens and nobody takes one up.       *)
Keeps ==
    /\ inFlight' = inFlight
    /\ \A s \in Sessions : /\ dial'[s] = "idle" <=> dial[s] = "idle"
                           /\ dial[s] = "connected" => dial'[s] = "connected"
                           /\ conn'[s] = "open" => conn[s] = "open"
    /\ \A r \in Runs, s \in Sessions : run'[r] # "none" /\ of'[r] = s => Live(r, s)

(* Nothing that matters changes, but that a window may begin to close.     *)
Calm ==
    /\ Keeps
    /\ session' = session /\ screen' = screen
    /\ \A r \in Runs : run'[r] \in Asking =>
          /\ run[r] \in Asking /\ of'[r] = of[r]
          /\ approveRun = r => approveRun' = r
    /\ \A s \in Sessions : Covered(s) => Covered(s)'

(* The field is cleared.                                                   *)
Empties ==
    /\ Keeps
    /\ session' = None /\ ~Held(session)
    /\ screen' \in {screen, "failed"}

(* An approval turns to its session, and does not ask for anything more.   *)
Turns(r) ==
    /\ Keeps
    /\ session' = session /\ session \in {None, of[r]}
    /\ run[r] # "none" /\ run'[r] \notin Asking
    /\ \A q \in Runs \ {r} : run'[q] = run[q] /\ of'[q] = of[q]
    /\ screen' \in {screen, "failed", "done"}

(* A screen is put up where there is nothing in hand.                      *)
Rests ==
    /\ Keeps
    /\ session = None /\ session' = None /\ inFlight = None
    /\ screen' \in {"ready", "failed"}

(* Whoever asks for the session in an approval's hands asks for the one in *)
(* the field.                                                              *)
LEMMA RequestsAreInHand ==
  ASSUME TypeOK, InHand, NEW r \in Runs, run[r] # "none", Held(of[r])
  PROVE  /\ of[r] = session /\ session \in Sessions
         /\ \A s \in Sessions : dial[s] # "idle" => s # session
         /\ \A q \in Runs : Live(q, session) => q = r
<1>1. of[r] \in Sessions /\ Live(r, of[r])
  BY DEF TypeOK, Held, Live
<1>2. dial[of[r]] = "idle"
  BY <1>1 DEF InHand, DialAlone
<1>3. of[r] = session
  BY <1>1, <1>2 DEF InHand, SessionsAreReached
<1>4. session # None
  BY <1>1, <1>3
<1> QED
  BY <1>1, <1>2, <1>3, <1>4 DEF InHand, OneApproval

LEMMA HeldStays ==
  ASSUME TypeOK, Keeps, NEW s, Held(s)', s \in Sessions
  PROVE  Held(s)
  BY DEF Held, Keeps

LEMMA CalmStep == ASSUME TypeOK, InHand, Calm PROVE InHand'
<1>1. /\ inFlight' = inFlight /\ session' = session /\ screen' = screen
      /\ session \in Sessions \cup {None} /\ inFlight \in Sessions \cup {None}
  BY DEF Calm, Keeps, TypeOK
<1>2. \A s \in Sessions : /\ dial'[s] = "idle" <=> dial[s] = "idle"
                          /\ dial[s] = "connected" => dial'[s] = "connected"
                          /\ Held(s)' => Held(s)
                          /\ Covered(s) => Covered(s)'
  BY DEF Calm, Keeps, Held
<1>3. \A r \in Runs, s \in Sessions : Live(r, s)' => Live(r, s)
  BY DEF Calm, Keeps, Live
<1>4. \A r \in Runs : Requested(r)' =>
        Requested(r) /\ of'[r] = of[r] /\ of[r] \in Sessions /\ (approveRun = r => approveRun' = r)
  <2> SUFFICES ASSUME NEW r \in Runs, Requested(r)'
               PROVE  /\ Requested(r) /\ of'[r] = of[r] /\ of[r] \in Sessions
                      /\ approveRun = r => approveRun' = r
    OBVIOUS
  <2>1. run'[r] \in Asking /\ of'[r] # None /\ conn'[of'[r]] = "open"
    BY DEF Requested, Held, Asking
  <2>2. run[r] \in Asking /\ of'[r] = of[r] /\ (approveRun = r => approveRun' = r)
    BY <2>1 DEF Calm
  <2>3. of[r] \in Sessions
    BY <2>1, <2>2 DEF TypeOK
  <2>4. conn[of[r]] = "open"
    BY <2>1, <2>2, <2>3 DEF Calm, Keeps
  <2> QED
    BY <2>1, <2>2, <2>3, <2>4 DEF Requested, Held, Asking
<1>5. SessionsAreReached'
  BY <1>1, <1>2 DEF InHand, SessionsAreReached
<1>6. WindowCoversRequest'
  <2> SUFFICES ASSUME NEW r \in Runs, Requested(r)' PROVE Covered(of[r])'
    BY DEF WindowCoversRequest, Requested, Covered
  <2>1. Covered(of[r]) /\ of'[r] = of[r] /\ of[r] \in Sessions
    BY <1>4 DEF InHand, WindowCoversRequest, Requested, Covered
  <2>2. expiry'[of[r]] # "off" \/ \E e \in Errands : errand'[e] \in Leaving
    BY <1>2, <2>1 DEF Covered
  <2> QED
    BY <2>1, <2>2 DEF Covered
<1>7. DialAlone'
  BY <1>1, <1>2, <1>3 DEF InHand, DialAlone
<1>8. FlightIsReal' /\ HomeIsEmpty'
  BY <1>1, <1>2 DEF InHand, FlightIsReal, HomeIsEmpty
<1>9. OneApproval'
  <2> SUFFICES ASSUME session # None
               PROVE  /\ \A r, q \in Runs : Live(r, session)' /\ Live(q, session)' => r = q
                      /\ screen = "approve" => \A r \in Runs : ~Live(r, session)'
    BY <1>1 DEF OneApproval, Live
  <2>1. session \in Sessions
    BY <1>1
  <2>2. \A r \in Runs : Live(r, session)' => Live(r, session)
    BY <1>1, <1>3, <2>1 DEF Live
  <2> QED
    BY <2>2 DEF InHand, OneApproval
<1>10. RequestOnScreen'
  BY <1>1, <1>4 DEF InHand, RequestOnScreen
<1>11. ScreenIsCovered'
  <2> SUFFICES ASSUME screen = "approve", Held(session)' PROVE Covered(session)'
    BY <1>1 DEF ScreenIsCovered
  <2>1. session \in Sessions /\ Held(session)
    BY <1>1, <1>2 DEF Held
  <2> QED
    BY <1>1, <1>2, <2>1 DEF InHand, ScreenIsCovered, Covered
<1> QED
  BY <1>5, <1>6, <1>7, <1>8, <1>9, <1>10, <1>11 DEF InHand

(* What holds when nobody asks for anything.                               *)
LEMMA NobodyAsks ==
  ASSUME \A r \in Runs : ~Requested(r)'
  PROVE  WindowCoversRequest' /\ RequestOnScreen'
  BY DEF WindowCoversRequest, RequestOnScreen, Requested

(* Nothing of the last session is left when the field is empty.            *)
LEMMA EmptyHand ==
  ASSUME TypeOK, TypeOK', InHand, Keeps, ~Held(session), session' = None
  PROVE  /\ \A r \in Runs : ~Requested(r)'
         /\ OneApproval' /\ ScreenIsCovered' /\ SessionsAreReached'
<1>1. \A r \in Runs : ~Requested(r)'
  <2> SUFFICES ASSUME NEW r \in Runs, Requested(r)' PROVE FALSE
    OBVIOUS
  <2>1. run'[r] # "none" /\ of'[r] # None /\ conn'[of'[r]] = "open"
    BY DEF Requested, Held
  <2>2. CASE of'[r] \in Sessions
    <3>1. Live(r, of'[r]) /\ conn[of'[r]] = "open"
      BY <2>1, <2>2 DEF Keeps
    <3>2. Held(of[r]) /\ run[r] # "none"
      BY <2>1, <3>1 DEF Live, Held
    <3> QED
      BY <3>2, RequestsAreInHand
  <2>3. of'[r] \in Sessions
    BY <2>1 DEF TypeOK
  <2> QED
    BY <2>2, <2>3
<1>2. OneApproval'
  BY DEF OneApproval
<1>3. ScreenIsCovered'
  BY DEF ScreenIsCovered, Held
<1>4. SessionsAreReached'
  <2> SUFFICES ASSUME NEW s \in Sessions, Held(s)' PROVE dial'[s] = "connected"
    BY DEF SessionsAreReached
  <2>1. Held(s)
    BY HeldStays
  <2> QED
    BY <2>1 DEF Keeps, InHand, SessionsAreReached
<1> QED
  BY <1>1, <1>2, <1>3, <1>4

LEMMA DialsGoOn ==
  ASSUME TypeOK, InHand, Keeps,
         session' \in {session, None}, screen' = "approve" => screen = "approve"
  PROVE  DialAlone' /\ FlightIsReal'
<1>1. FlightIsReal'
  BY DEF InHand, FlightIsReal, Keeps, TypeOK
<1>2. DialAlone'
  <2> SUFFICES ASSUME NEW s \in Sessions, dial'[s] # "idle"
               PROVE  /\ inFlight' = s /\ session' \in {None, s} /\ screen' # "approve"
                      /\ \A r \in Runs : ~(run'[r] # "none" /\ of'[r] = s)
    BY DEF DialAlone, Live
  <2>1. dial[s] # "idle"
    BY DEF Keeps
  <2>2. /\ inFlight = s /\ session \in {None, s} /\ screen # "approve"
        /\ \A r \in Runs : ~Live(r, s)
    BY <2>1 DEF InHand, DialAlone
  <2> QED
    BY <2>2 DEF Keeps
<1> QED
  BY <1>1, <1>2

LEMMA EmptiesStep == ASSUME TypeOK, TypeOK', InHand, Empties PROVE InHand'
<1>1. /\ \A r \in Runs : ~Requested(r)'
      /\ OneApproval' /\ ScreenIsCovered' /\ SessionsAreReached'
  BY EmptyHand DEF Empties
<1>2. DialAlone' /\ FlightIsReal'
  BY DialsGoOn DEF Empties
<1>3. HomeIsEmpty'
  BY DEF Empties, Keeps, InHand, HomeIsEmpty
<1> QED
  BY <1>1, <1>2, <1>3, NobodyAsks DEF InHand

LEMMA RestsStep == ASSUME TypeOK, TypeOK', InHand, Rests PROVE InHand'
<1>1. /\ \A r \in Runs : ~Requested(r)'
      /\ OneApproval' /\ ScreenIsCovered' /\ SessionsAreReached'
  BY EmptyHand DEF Rests, Held
<1>2. DialAlone' /\ FlightIsReal'
  BY DialsGoOn DEF Rests
<1>3. HomeIsEmpty'
  BY DEF Rests, Keeps, HomeIsEmpty
<1> QED
  BY <1>1, <1>2, <1>3, NobodyAsks DEF InHand

(* What another approval has in hand is not what this one turns to.        *)
LEMMA OthersDoNotAsk ==
  ASSUME TypeOK, TypeOK', InHand, NEW r \in Runs, Keeps,
         session \in {None, of[r]}, run[r] # "none", run'[r] \notin Asking,
         \A q \in Runs \ {r} : run'[q] = run[q] /\ of'[q] = of[q]
  PROVE  \A q \in Runs : ~Requested(q)'
<1> SUFFICES ASSUME NEW q \in Runs, Requested(q)' PROVE FALSE
  OBVIOUS
<1>1. run'[q] \in Asking /\ of'[q] # None /\ conn'[of'[q]] = "open"
  BY DEF Requested, Held, Asking
<1>2. q # r /\ run[q] # "none" /\ of'[q] = of[q] /\ of[q] \in Sessions
  BY <1>1 DEF Asking, TypeOK
<1>3. Held(of[q])
  BY <1>1, <1>2 DEF Keeps, Held
<1>4. of[q] = session /\ session \in Sessions /\ \A p \in Runs : Live(p, session) => p = q
  BY <1>2, <1>3, RequestsAreInHand
<1>5. Live(r, session)
  BY <1>4 DEF Live
<1> QED
  BY <1>2, <1>4, <1>5

LEMMA HandStays ==
  ASSUME TypeOK, InHand, Keeps, session' = session
  PROVE  /\ SessionsAreReached'
         /\ session # None => \A r, q \in Runs : Live(r, session)' /\ Live(q, session)' => r = q
<1>1. SessionsAreReached'
  <2> SUFFICES ASSUME NEW s \in Sessions, Held(s)' PROVE s = session' \/ dial'[s] = "connected"
    BY DEF SessionsAreReached
  <2>1. Held(s)
    BY HeldStays
  <2> QED
    BY <2>1 DEF Keeps, InHand, SessionsAreReached
<1>2. ASSUME session # None, NEW r \in Runs, NEW q \in Runs,
             Live(r, session)', Live(q, session)'
      PROVE  r = q
  <2>1. session \in Sessions
    BY <1>2 DEF TypeOK
  <2>2. Live(r, session) /\ Live(q, session)
    BY <1>2, <2>1 DEF Keeps, Live
  <2> QED
    BY <1>2, <2>2 DEF InHand, OneApproval
<1> QED
  BY <1>1, <1>2

LEMMA TurnsStep == ASSUME TypeOK, TypeOK', InHand, NEW r \in Runs, Turns(r) PROVE InHand'
<1>1. \A q \in Runs : ~Requested(q)'
  BY OthersDoNotAsk DEF Turns
<1>2. SessionsAreReached'
  BY HandStays DEF Turns
<1>3. DialAlone' /\ FlightIsReal'
  BY DialsGoOn DEF Turns
<1>4. HomeIsEmpty'
  BY DEF Turns, Keeps, InHand, HomeIsEmpty
<1>5. screen' = "approve" => session = None
  <2> SUFFICES ASSUME screen' = "approve", session # None PROVE FALSE
    OBVIOUS
  <2>1. screen = "approve" /\ Live(r, session)
    BY DEF Turns, Live
  <2> QED
    BY <2>1 DEF InHand, OneApproval
<1>6. OneApproval' /\ ScreenIsCovered'
  <2>1. session' = session
    BY DEF Turns
  <2>2. session # None => \A p, q \in Runs : Live(p, session)' /\ Live(q, session)' => p = q
    BY HandStays DEF Turns
  <2> QED
    BY <1>5, <2>1, <2>2 DEF OneApproval, ScreenIsCovered, Held
<1> QED
  BY <1>1, <1>2, <1>3, <1>4, <1>6, NobodyAsks DEF InHand

(* A mishap is remembered.                                                 *)
LEMMA MishapsStay == Next => mishaps \subseteq mishaps'
<1> SUFFICES ASSUME Next PROVE mishaps \subseteq mishaps'
  OBVIOUS
<1>1. CASE UNCHANGED mishaps
  BY <1>1
<1>2. ASSUME NEW s, SetSession(s) \/ Overwrites(s) \/ Meddles(s) PROVE mishaps \subseteq mishaps'
  BY <1>2 DEF SetSession, Overwrites, Meddles
<1>3. ASSUME NEW r \in Runs, RunPrepares(r) PROVE mishaps \subseteq mishaps'
  BY <1>1, <1>2, <1>3 DEF RunPrepares
<1> QED
  BY <1>1, <1>2, <1>3
     DEF Next, DialStep, ExpiryStep, PromptAnswered, RunStep, ErrandStep,
         TapUnlock, DialCloses, DialClears, DialReturns, DialAsks, DialTooLate, DialRefuses,
         DialFails, DialGoesHome, ExpiryFires, ExpiryRefuses, ExpiryCloses, ExpiryEnds,
         TapApprove, PromptSucceeds, PromptDismissed, PromptFails, PromptExpires, RunAnswers,
         RunHearsVerdict, RunDenies, RunCloses, RunEnds, TapCancel, TapHome, ErrandRefuses,
         ErrandCloses, ErrandClears, ErrandEnds, KeyCheckFinds, KeyCheckEnds

LEMMA NoMishap ==
  ASSUME mishaps' = {}
  PROVE  /\ \A s : SetSession(s) => ~Held(session) /\ session' = s
         /\ \A s : Overwrites(s) => session = None /\ inFlight \in {s, None}
         /\ \A s : Meddles(s) => session \in {None, s}
  BY DEF SetSession, Overwrites, Meddles

(* The dial that is over was the only one.                                 *)
LEMMA DialEnds ==
  ASSUME TypeOK, InHand, NEW s \in Sessions, dial[s] # "idle", DialDone(s)
  PROVE  /\ DialAlone' /\ FlightIsReal' /\ inFlight' = None
         /\ inFlight = s /\ session \in {None, s}
         /\ \A t \in Sessions : dial'[t] = "idle" /\ (t # s => dial[t] = "idle")
         /\ \A r \in Runs : ~Live(r, s)
<1>1. /\ inFlight = s /\ session \in {None, s} /\ \A r \in Runs : ~Live(r, s)
      /\ \A t \in Sessions : t # s => dial[t] = "idle"
  BY DEF InHand, DialAlone
<1>2. inFlight' = None /\ \A t \in Sessions : dial'[t] = "idle"
  BY <1>1 DEF DialDone, TypeOK
<1> QED
  BY <1>1, <1>2 DEF DialAlone, FlightIsReal

(* Runs and connections as they were: nobody asks who did not.             *)
LEMMA NobodyNewAsks ==
  ASSUME UNCHANGED <<run, of, conn>>
  PROVE  \A r \in Runs : Requested(r)' => Requested(r)
  BY DEF Requested, Held

LEMMA UnlockStep ==
  ASSUME TypeOK, InHand, NEW s \in Sessions, TapUnlock(s) PROVE InHand'
<1>1. inFlight = None /\ session = None /\ \A t \in Sessions : dial[t] = "idle"
  BY DEF TapUnlock, InHand, HomeIsEmpty, DialAlone
<1>2. /\ inFlight' = s /\ dial'[s] = "start" /\ screen' = "connecting" /\ session' = None
      /\ \A t \in Sessions \ {s} : dial'[t] = "idle"
      /\ UNCHANGED <<run, of, conn>>
  BY <1>1 DEF TapUnlock, TypeOK, runVars, goVars
<1>3. \A r \in Runs : ~Requested(r)'
  <2>1. \A r \in Runs : ~Requested(r)
    BY <1>1, RequestsAreInHand DEF Requested
  <2> QED
    BY <1>2, <2>1, NobodyNewAsks
<1>4. SessionsAreReached'
  BY <1>1, <1>2 DEF InHand, SessionsAreReached, Held
<1>5. DialAlone' /\ FlightIsReal'
  <2>1. \A r \in Runs : ~Live(r, s)
    BY DEF TapUnlock, Unused, Live
  <2> QED
    BY <1>2, <2>1 DEF DialAlone, FlightIsReal, Live
<1>6. HomeIsEmpty' /\ OneApproval' /\ ScreenIsCovered'
  BY <1>2 DEF HomeIsEmpty, OneApproval, ScreenIsCovered
<1> QED
  BY <1>3, <1>4, <1>5, <1>6, NobodyAsks DEF InHand

LEMMA ReturnStep ==
  ASSUME TypeOK, InHand, NEW s \in Sessions, DialReturns(s) PROVE InHand'
<1>1. /\ inFlight = s /\ session \in {None, s} /\ screen # "approve" /\ dial[s] # "idle"
      /\ \A r \in Runs : ~Live(r, s)
  BY DEF DialReturns, InHand, DialAlone
<1>2. /\ UNCHANGED <<run, of, session, inFlight, screen, approveRun>>
      /\ dial'[s] \in {"connected", "failing"}
      /\ dial'[s] = "failing" => conn' = conn
      /\ \A t \in Sessions \ {s} : dial'[t] = dial[t] /\ conn'[t] = conn[t]
  BY DEF DialReturns, runVars, TypeOK
<1>3. \A r \in Runs : ~Requested(r)'
  <2> SUFFICES ASSUME NEW r \in Runs, Requested(r)' PROVE FALSE
    OBVIOUS
  <2>1. run[r] # "none" /\ of[r] \in Sessions /\ conn'[of[r]] = "open"
    BY <1>2 DEF Requested, Held, TypeOK
  <2>2. of[r] # s
    BY <1>1, <2>1 DEF Live
  <2>3. Held(of[r])
    BY <1>2, <2>1, <2>2 DEF Held
  <2> QED
    BY <1>1, <2>1, <2>2, <2>3, RequestsAreInHand
<1>4. SessionsAreReached'
  BY <1>2 DEF InHand, SessionsAreReached, Held, DialReturns
<1>5. DialAlone' /\ FlightIsReal'
  BY <1>1, <1>2 DEF InHand, DialAlone, FlightIsReal, Live
<1>6. HomeIsEmpty' /\ OneApproval' /\ ScreenIsCovered'
  BY <1>1, <1>2 DEF InHand, HomeIsEmpty, OneApproval, ScreenIsCovered, Live
<1> QED
  BY <1>3, <1>4, <1>5, <1>6, NobodyAsks DEF InHand

LEMMA AsksStep ==
  ASSUME TypeOK, InHand, mishaps' = {}, NEW s \in Sessions, NEW r \in Runs, DialAsks(s, r)
  PROVE  InHand'
<1>1. dial[s] = "connected" /\ DialDone(s) /\ ~Held(session) /\ session' = s /\ conn' = conn
  BY NoMishap DEF DialAsks, goVars
<1>2. /\ DialAlone' /\ FlightIsReal' /\ \A q \in Runs : ~Live(q, s)
      /\ \A t \in Sessions : t # s => dial[t] = "idle"
  BY <1>1, DialEnds
<1>3. /\ run'[r] = "prepare" /\ of'[r] = s /\ approveRun' = r /\ screen' = "working"
      /\ run[r] = "none" /\ \A q \in Runs \ {r} : run'[q] = run[q] /\ of'[q] = of[q]
  BY DEF DialAsks, StartRun, TypeOK
<1>4. expiry'[s] # "off"
  BY DEF DialAsks, TypeOK
<1>5. \A q \in Runs : Requested(q)' => q = r
  <2> SUFFICES ASSUME NEW q \in Runs, Requested(q)', q # r PROVE FALSE
    OBVIOUS
  <2>1. Requested(q)
    BY <1>1, <1>3 DEF Requested, Held
  <2> QED
    BY <1>1, <2>1, RequestsAreInHand DEF Requested
<1>6. WindowCoversRequest'
  <2> SUFFICES ASSUME NEW q \in Runs, Requested(q)' PROVE expiry'[of'[q]] # "off"
    BY DEF WindowCoversRequest, Requested
  <2> QED
    BY <1>3, <1>4, <1>5
<1>7. RequestOnScreen'
  BY <1>3, <1>5 DEF RequestOnScreen
<1>8. SessionsAreReached'
  BY <1>1, <1>2 DEF InHand, SessionsAreReached, Held
<1>9. HomeIsEmpty' /\ OneApproval' /\ ScreenIsCovered'
  BY <1>1, <1>2, <1>3 DEF HomeIsEmpty, OneApproval, ScreenIsCovered, Live
<1> QED
  BY <1>2, <1>6, <1>7, <1>8, <1>9 DEF InHand

LEMMA TooLateStep ==
  ASSUME TypeOK, InHand, mishaps' = {}, NEW s \in Sessions, DialTooLate(s)
  PROVE  InHand'
<1>1. /\ inFlight = s /\ session \in {None, s} /\ screen # "approve"
      /\ \A r \in Runs : ~Live(r, s)
      /\ \A t \in Sessions : t # s => dial[t] = "idle"
  BY DEF DialTooLate, InHand, DialAlone
<1>2. /\ ~Held(session) /\ session' = s /\ UNCHANGED <<run, of, conn, inFlight, screen>>
      /\ dial'[s] = "refuse" /\ \A t \in Sessions \ {s} : dial'[t] = dial[t]
  BY NoMishap DEF DialTooLate, goVars, runVars, TypeOK
<1>3. \A r \in Runs : ~Requested(r)'
  <2>1. \A r \in Runs : ~Requested(r)
    BY <1>2, RequestsAreInHand DEF Requested
  <2> QED
    BY <1>2, <2>1, NobodyNewAsks
<1>4. SessionsAreReached'
  BY <1>1, <1>2 DEF InHand, SessionsAreReached, Held
<1>5. DialAlone' /\ FlightIsReal'
  BY <1>1, <1>2 DEF DialAlone, FlightIsReal, Live
<1>6. HomeIsEmpty' /\ OneApproval' /\ ScreenIsCovered'
  BY <1>1, <1>2 DEF InHand, HomeIsEmpty, OneApproval, ScreenIsCovered, Live
<1> QED
  BY <1>3, <1>4, <1>5, <1>6, NobodyAsks DEF InHand

LEMMA FailsStep ==
  ASSUME TypeOK, InHand, NEW s \in Sessions, DialFails(s), ~cancelled[s]
  PROVE  InHand'
<1>1. /\ dial[s] = "failing" /\ DialDone(s) /\ screen' = "failed"
      /\ UNCHANGED <<session, run, of, conn>>
  BY DEF DialFails, goVars, runVars
<1>2. /\ DialAlone' /\ FlightIsReal' /\ session \in {None, s}
      /\ \A t \in Sessions : t # s => dial[t] = "idle"
  BY <1>1, DialEnds
<1>3. \A r \in Runs : ~Requested(r)'
  <2>1. \A r \in Runs : ~Requested(r)
    BY <1>1, <1>2, RequestsAreInHand DEF Requested
  <2> QED
    BY <1>1, <2>1, NobodyNewAsks
<1>4. SessionsAreReached'
  BY <1>1, <1>2 DEF InHand, SessionsAreReached, Held
<1>5. HomeIsEmpty' /\ OneApproval' /\ ScreenIsCovered'
  BY <1>1 DEF InHand, HomeIsEmpty, OneApproval, ScreenIsCovered, Live
<1> QED
  BY <1>2, <1>3, <1>4, <1>5, NobodyAsks DEF InHand

LEMMA GoesHomeStep ==
  ASSUME TypeOK, InHand, mishaps' = {}, NEW s \in Sessions, DialGoesHome(s)
  PROVE  InHand'
<1>1. /\ dial[s] = "home" /\ DialDone(s) /\ session = None
      /\ UNCHANGED <<session, run, of, conn>>
  BY NoMishap DEF DialGoesHome, goVars, runVars
<1>2. /\ DialAlone' /\ FlightIsReal' /\ inFlight' = None
      /\ \A t \in Sessions : t # s => dial[t] = "idle"
  BY <1>1, DialEnds
<1>3. \A r \in Runs : ~Requested(r)'
  <2>1. \A r \in Runs : ~Requested(r)
    BY <1>1, RequestsAreInHand DEF Requested
  <2> QED
    BY <1>1, <2>1, NobodyNewAsks
<1>4. SessionsAreReached'
  BY <1>1, <1>2 DEF InHand, SessionsAreReached, Held
<1>5. HomeIsEmpty' /\ OneApproval' /\ ScreenIsCovered'
  BY <1>1, <1>2 DEF HomeIsEmpty, OneApproval, ScreenIsCovered, Held
<1> QED
  BY <1>2, <1>3, <1>4, <1>5, NobodyAsks DEF InHand

(* A window that ends over nothing covers nothing.                         *)
LEMMA QuietWindowStep ==
  ASSUME TypeOK, InHand, NEW s \in Sessions, ExpiryFires(s), ~WaitingForAnswer
  PROVE  InHand'
<1>1. /\ UNCHANGED <<screen, session, inFlight, dial, conn, run, of, approveRun, errand>>
      /\ screen # "approve"
  BY DEF ExpiryFires, dialVars, goVars, WaitingForAnswer
<1>2. \A r \in Runs : ~Requested(r)'
  <2> SUFFICES ASSUME NEW r \in Runs, Requested(r)' PROVE FALSE
    OBVIOUS
  <2>1. Requested(r)
    BY <1>1, NobodyNewAsks
  <2>2. screen = "working" /\ approveRun = r /\ run[r] \in {"prepare", "prompt"}
    BY <2>1 DEF InHand, RequestOnScreen, Requested
  <2>3. WaitingForAnswer
    BY <2>2, UnlockAssumption DEF WaitingForAnswer, Answering
  <2> QED
    BY <2>3
<1>3. SessionsAreReached' /\ DialAlone' /\ FlightIsReal' /\ HomeIsEmpty' /\ OneApproval'
  BY <1>1 DEF InHand, SessionsAreReached, Held, DialAlone, FlightIsReal, HomeIsEmpty,
              OneApproval, Live
<1>4. ScreenIsCovered'
  BY <1>1 DEF ScreenIsCovered
<1> QED
  BY <1>2, <1>3, <1>4, NobodyAsks DEF InHand

LEMMA ApproveStep ==
  ASSUME TypeOK, InHand, NEW r \in Runs, TapApprove(r) PROVE InHand'
<1>1. /\ screen = "approve" /\ session \in Sessions /\ run[r] = "none"
      /\ UNCHANGED <<session, inFlight, dial, conn, expiry, errand>>
      /\ screen' = "working" /\ approveRun' = r
      /\ run'[r] = "prepare" /\ of'[r] = session
      /\ \A q \in Runs \ {r} : run'[q] = run[q] /\ of'[q] = of[q]
  BY DEF TapApprove, StartRun, TypeOK, dialVars, goVars, expiryVars
<1>2. \A q \in Runs : ~Live(q, session)
  BY <1>1 DEF InHand, OneApproval, TypeOK
<1>3. \A s \in Sessions : dial[s] = "idle"
  BY <1>1 DEF InHand, DialAlone
<1>4. \A q \in Runs : Requested(q)' => q = r
  <2> SUFFICES ASSUME NEW q \in Runs, Requested(q)', q # r PROVE FALSE
    OBVIOUS
  <2>1. Requested(q)
    BY <1>1 DEF Requested, Held
  <2> QED
    BY <1>1, <2>1 DEF InHand, RequestOnScreen
<1>5. WindowCoversRequest'
  <2> SUFFICES ASSUME NEW q \in Runs, Requested(q)' PROVE Covered(of[q])'
    BY DEF WindowCoversRequest, Requested, Covered
  <2>1. q = r /\ Held(session)
    BY <1>1, <1>4 DEF Requested, Held
  <2>2. Covered(session)
    BY <1>1, <2>1 DEF InHand, ScreenIsCovered
  <2> QED
    BY <1>1, <2>1, <2>2 DEF Covered
<1>6. RequestOnScreen'
  BY <1>1, <1>4 DEF RequestOnScreen
<1>7. SessionsAreReached' /\ DialAlone' /\ FlightIsReal' /\ HomeIsEmpty'
  BY <1>1, <1>3 DEF InHand, SessionsAreReached, Held, DialAlone, FlightIsReal, HomeIsEmpty
<1>8. OneApproval'
  BY <1>1, <1>2 DEF OneApproval, Live
<1>9. ScreenIsCovered'
  BY <1>1 DEF ScreenIsCovered
<1> QED
  BY <1>5, <1>6, <1>7, <1>8, <1>9 DEF InHand

LEMMA DismissedStep ==
  ASSUME TypeOK, TypeOK', InHand, mishaps' = {}, NEW r \in Runs, PromptDismissed(r)
  PROVE  InHand'
<1>1. /\ run[r] = "prompt" /\ session \in {None, of[r]} /\ RunIsOver(r)
      /\ UNCHANGED <<session, inFlight, dial, conn, expiry, errand>>
      /\ screen' = IF session = None THEN "failed" ELSE "approve"
  BY NoMishap DEF PromptDismissed, dialVars, goVars, expiryVars
<1>2. /\ run'[r] = "none" /\ \A q \in Runs \ {r} : run'[q] = run[q] /\ of'[q] = of[q]
  BY <1>1, RunStops
<1>3. Keeps
  BY <1>1, <1>2 DEF Keeps, Live
<1>4. CASE session = None
  <2>1. Turns(r)
    BY <1>1, <1>2, <1>3, <1>4 DEF Turns, Asking
  <2> QED
    BY <2>1, TurnsStep
<1>5. CASE session # None
  <2>1. session = of[r] /\ session \in Sessions /\ Live(r, session) /\ screen' = "approve"
    BY <1>1, <1>5 DEF TypeOK, Live
  <2>2. \A s \in Sessions : dial[s] = "idle"
    BY <1>5, <2>1 DEF InHand, DialAlone
  <2>3. \A q \in Runs : ~Requested(q)'
    BY <1>1, <1>2, <1>3, OthersDoNotAsk DEF Asking
  <2>4. /\ SessionsAreReached'
        /\ \A p, q \in Runs : Live(p, session)' /\ Live(q, session)' => p = q
    BY <1>1, <1>3, <1>5, HandStays
  <2>5. DialAlone' /\ FlightIsReal'
    BY <1>1, <2>2 DEF InHand, DialAlone, FlightIsReal
  <2>6. HomeIsEmpty'
    BY <2>1 DEF HomeIsEmpty
  <2>7. \A q \in Runs : ~Live(q, session)'
    <3> SUFFICES ASSUME NEW q \in Runs, Live(q, session)' PROVE FALSE
      OBVIOUS
    <3>1. q # r /\ Live(q, session)
      BY <1>1, <1>2 DEF Live
    <3> QED
      BY <1>5, <2>1, <3>1 DEF InHand, OneApproval
  <2>8. OneApproval'
    BY <1>1, <2>7 DEF OneApproval, Live
  <2>9. ScreenIsCovered'
    <3> SUFFICES ASSUME Held(session)' PROVE Covered(session)'
      BY DEF ScreenIsCovered
    <3>1. Held(of[r])
      BY <1>1, <2>1 DEF Held
    <3>2. Covered(session)
      BY <1>1, <2>1, <3>1 DEF InHand, WindowCoversRequest, Covered
    <3> QED
      BY <1>1, <3>2 DEF Covered
  <2> QED
    BY <2>3, <2>4, <2>5, <2>6, <2>8, <2>9, NobodyAsks DEF InHand
<1> QED
  BY <1>4, <1>5

LEMMA CancelStep ==
  ASSUME TypeOK, InHand, NEW e \in Errands, TapCancel(e) PROVE InHand'
<1>1. /\ screen \in {"connecting", "approve"}
      /\ UNCHANGED <<screen, session, inFlight, dial, conn, run, of>>
  BY DEF TapCancel, goVars, runVars
<1>2. \A r \in Runs : ~Requested(r)'
  BY <1>1, NobodyNewAsks DEF InHand, RequestOnScreen
<1>3. SessionsAreReached' /\ DialAlone' /\ FlightIsReal' /\ HomeIsEmpty' /\ OneApproval'
  BY <1>1 DEF InHand, SessionsAreReached, Held, DialAlone, FlightIsReal, HomeIsEmpty,
              OneApproval, Live
<1>4. ScreenIsCovered'
  <2> SUFFICES ASSUME screen = "approve" PROVE errand'[e] = "refuse"
    BY <1>1 DEF ScreenIsCovered, Covered, Leaving
  <2>1. inFlight = None
    BY DEF InHand, FlightIsReal, DialAlone, TypeOK
  <2> QED
    BY <2>1 DEF TapCancel, TypeOK
<1> QED
  BY <1>2, <1>3, <1>4, NobodyAsks DEF InHand

(* The other steps of each part of the flow.                               *)
LEMMA DialsInHand ==
  ASSUME TypeOK, TypeOK', InHand, mishaps' = {}, NEW s \in Sessions, DialStep(s)
  PROVE  InHand'
<1>1. CASE DialCloses(s)
  <2>1. \A t \in Sessions : conn'[t] = "open" => conn[t] = "open"
    BY <1>1, ClosingForgets DEF DialCloses
  <2>2. Calm
    BY <1>1, <2>1 DEF DialCloses, Calm, Keeps, Live, Covered, runVars, expiryVars, TypeOK
  <2> QED
    BY <2>2, CalmStep
<1>2. CASE DialClears(s)
  <2>1. Empties
    BY <1>2, NoMishap DEF DialClears, Empties, Keeps, Live, goVars, runVars, TypeOK
  <2> QED
    BY <2>1, EmptiesStep
<1>3. CASE DialReturns(s)
  BY <1>3, ReturnStep
<1>4. CASE \E r \in Runs : DialAsks(s, r)
  BY <1>4, AsksStep
<1>5. CASE DialTooLate(s)
  BY <1>5, TooLateStep
<1>6. CASE DialRefuses(s)
  <2>1. Calm
    BY <1>6 DEF DialRefuses, Calm, Keeps, Live, Covered, runVars, expiryVars, TypeOK
  <2> QED
    BY <2>1, CalmStep
<1>7. CASE DialFails(s) /\ cancelled[s]
  <2>1. Calm
    BY <1>7 DEF DialFails, Calm, Keeps, Live, Covered, goVars, runVars, expiryVars, TypeOK
  <2> QED
    BY <2>1, CalmStep
<1>8. CASE DialFails(s) /\ ~cancelled[s]
  BY <1>8, FailsStep
<1>9. CASE DialGoesHome(s)
  BY <1>9, GoesHomeStep
<1> QED
  BY <1>1, <1>2, <1>3, <1>4, <1>5, <1>6, <1>7, <1>8, <1>9 DEF DialStep

LEMMA WindowsInHand ==
  ASSUME TypeOK, TypeOK', InHand, mishaps' = {}, NEW s \in Sessions, ExpiryStep(s)
  PROVE  InHand'
<1>1. CASE ExpiryFires(s) /\ WaitingForAnswer
  <2>1. /\ UNCHANGED <<screen, session, dialVars, goVars, run, of, approveRun, errand>>
        /\ \A t \in Sessions : expiry[t] # "off" => expiry'[t] # "off"
    <3>1. expiry' = [expiry EXCEPT ![s] = "refuse"]
      BY <1>1 DEF ExpiryFires
    <3>2. expiry \in [Sessions -> {"off", "armed"} \cup Leaving]
      BY DEF TypeOK
    <3> QED
      BY <1>1, <3>1, <3>2 DEF ExpiryFires
  <2>2. Calm
    BY <2>1 DEF Calm, Keeps, Live, Covered, dialVars, goVars
  <2> QED
    BY <2>2, CalmStep
<1>2. CASE ExpiryFires(s) /\ ~WaitingForAnswer
  BY <1>2, QuietWindowStep
<1>3. CASE ExpiryRefuses(s)
  <2>1. Calm
    BY <1>3 DEF ExpiryRefuses, Calm, Keeps, Live, Covered, dialVars, runVars, TypeOK
  <2> QED
    BY <2>1, CalmStep
<1>4. CASE ExpiryCloses(s)
  <2>1. \A t \in Sessions : conn'[t] = "open" => conn[t] = "open"
    BY <1>4, ClosingForgets DEF ExpiryCloses
  <2>2. Calm
    BY <1>4, <2>1 DEF ExpiryCloses, Calm, Keeps, Live, Covered, dialVars, runVars, TypeOK
  <2> QED
    BY <2>2, CalmStep
<1>5. CASE ExpiryEnds(s)
  <2>1. Empties
    BY <1>5, NoMishap DEF ExpiryEnds, Empties, Keeps, Live, dialVars, goVars, runVars
  <2> QED
    BY <2>1, EmptiesStep
<1> QED
  BY <1>1, <1>2, <1>3, <1>4, <1>5 DEF ExpiryStep

LEMMA ErrandsInHand ==
  ASSUME TypeOK, TypeOK', InHand, mishaps' = {}, NEW e \in Errands, ErrandStep(e) \/ TapHome(e)
  PROVE  InHand'
<1>0. DOMAIN errand = Errands
  BY DEF TypeOK
<1>1. CASE ErrandRefuses(e) \/ TapHome(e)
  <2>1. \A f \in Errands : errand[f] \in Leaving => errand'[f] \in Leaving
    <3>1. \A f \in Errands : f # e => errand'[f] = errand[f]
      BY <1>1, <1>0 DEF ErrandRefuses, TapHome
    <3>2. (errand[e] = "refuse" /\ errand'[e] = "close") \/ errand[e] = "idle"
      BY <1>1, <1>0 DEF ErrandRefuses, TapHome
    <3> QED
      BY <3>1, <3>2 DEF Leaving
  <2>2. Calm
    BY <1>1, <2>1 DEF ErrandRefuses, TapHome, Calm, Keeps, Live, Covered, dialVars, goVars,
                      runVars, expiryVars
  <2> QED
    BY <2>2, CalmStep
<1>2. CASE ErrandCloses(e)
  <2>1. \A t \in Sessions : conn'[t] = "open" => conn[t] = "open"
    BY <1>2, ClosingForgets DEF ErrandCloses
  <2>2. \A f \in Errands : errand[f] \in Leaving => errand'[f] \in Leaving
    <3>1. /\ \A f \in Errands : f # e => errand'[f] = errand[f]
          /\ errand'[e] = "clear"
      BY <1>2, <1>0 DEF ErrandCloses
    <3> QED
      BY <3>1 DEF Leaving
  <2>3. Calm
    BY <1>2, <2>1, <2>2 DEF ErrandCloses, Calm, Keeps, Live, Covered, dialVars, runVars, expiryVars
  <2> QED
    BY <2>3, CalmStep
<1>3. CASE ErrandClears(e)
  <2>1. Empties
    BY <1>3, NoMishap DEF ErrandClears, Empties, Keeps, Live, dialVars, goVars, runVars
  <2> QED
    BY <2>1, EmptiesStep
<1>4. CASE ErrandEnds(e)
  <2>1. Rests
    BY <1>4, NoMishap DEF ErrandEnds, Rests, Keeps, Live, dialVars, goVars, runVars
  <2> QED
    BY <2>1, RestsStep
<1> QED
  BY <1>1, <1>2, <1>3, <1>4 DEF ErrandStep

LEMMA KeyIsReady ==
  ASSUME TypeOK, TypeOK', InHand, mishaps' = {}, NEW r \in Runs, RunPrepares(r)
  PROVE  InHand'
<1> USE DEF Answering, RunSteps
<1>1. /\ run[r] = "prepare"
      /\ UNCHANGED <<screen, session, inFlight, dial, conn, errand>>
  BY DEF RunPrepares, dialVars, goVars
<1>2. CASE RunGoes(r, "prompt") /\ UNCHANGED expiryVars
  <2>1. /\ run'[r] = "prompt" /\ \A q \in Runs \ {r} : run'[q] = run[q]
        /\ UNCHANGED <<of, approveRun, expiry>>
    BY <1>2, RunMoves DEF expiryVars
  <2>2. Calm
    BY <1>1, <2>1 DEF Calm, Keeps, Live, Covered, Asking
  <2> QED
    BY <2>2, CalmStep
<1>3. CASE RunGoes(r, "deny") /\ Meddles(of[r])
  <2>1. /\ run'[r] = "deny" /\ \A q \in Runs \ {r} : run'[q] = run[q]
        /\ of' = of /\ session \in {None, of[r]}
    BY <1>3, RunMoves, NoMishap
  <2>2. Turns(r)
    BY <1>1, <2>1 DEF Turns, Keeps, Live, Asking
  <2> QED
    BY <2>2, TurnsStep
<1>4. CASE RunIsOver(r) /\ Disarm /\ approveExpiry = None
  <2>1. /\ run'[r] = "none" /\ \A q \in Runs \ {r} : run'[q] = run[q] /\ of'[q] = of[q]
        /\ approveRun' = IF approveRun = r THEN None ELSE approveRun
    BY <1>4, RunStops
  <2>2. \A s \in Sessions : expiry'[s] = expiry[s]
    <3>1. \A s \in Sessions : s # approveExpiry
      BY <1>4, UnlockAssumption
    <3> QED
      BY <1>4, <3>1 DEF Disarm
  <2>3. Calm
    BY <1>1, <2>1, <2>2 DEF Calm, Keeps, Live, Covered, Asking
  <2> QED
    BY <2>3, CalmStep
<1>5. ASSUME mishaps' = mishaps \cup IF approveExpiry # None THEN {"swallowed"} ELSE {}
      PROVE  approveExpiry = None
  BY <1>5
<1> QED
  BY <1>2, <1>3, <1>4, <1>5 DEF RunPrepares

LEMMA ApprovalsInHand ==
  ASSUME TypeOK, TypeOK', InHand, mishaps' = {}, NEW r \in Runs, RunStep(r) \/ PromptAnswered(r)
  PROVE  InHand'
<1> USE DEF Answering, RunSteps
<1>1. CASE RunPrepares(r)
  BY <1>1, KeyIsReady
<1>2. CASE PromptExpires(r)
  <2>1. /\ run'[r] = "none" /\ \A q \in Runs \ {r} : run'[q] = run[q] /\ of'[q] = of[q]
        /\ approveRun' = IF approveRun = r THEN None ELSE approveRun
    BY <1>2, RunStops DEF PromptExpires
  <2>2. Calm
    BY <1>2, <2>1 DEF PromptExpires, Calm, Keeps, Live, Covered, Asking, dialVars, goVars, expiryVars
  <2> QED
    BY <2>2, CalmStep
<1>3. CASE PromptDismissed(r)
  BY <1>3, DismissedStep
<1>4. ASSUME NEW step \in RunSteps, RunGoes(r, step), Meddles(of[r]), run[r] # "none",
             step \notin Asking,
             UNCHANGED <<session, inFlight, dial>>, screen' \in {screen, "failed", "done"},
             \A t \in Sessions : conn'[t] = "open" => conn[t] = "open"
      PROVE  InHand'
  <2>1. /\ run'[r] = step /\ \A q \in Runs \ {r} : run'[q] = run[q]
        /\ of' = of /\ session \in {None, of[r]}
    BY <1>4, RunMoves, NoMishap
  <2>2. Turns(r)
    BY <1>4, <2>1 DEF Turns, Keeps, Live
  <2> QED
    BY <2>2, TurnsStep
<1>5. CASE PromptSucceeds(r)
  BY <1>4, <1>5 DEF PromptSucceeds, Asking, dialVars, goVars
<1>6. CASE PromptFails(r)
  BY <1>4, <1>6 DEF PromptFails, Asking, dialVars, goVars
<1>7. CASE RunAnswers(r)
  BY <1>4, <1>7 DEF RunAnswers, Asking, dialVars
<1>8. CASE RunHearsVerdict(r)
  BY <1>4, <1>8 DEF RunHearsVerdict, Asking, dialVars, goVars
<1>9. CASE RunDenies(r)
  BY <1>4, <1>9 DEF RunDenies, Asking, dialVars
<1>10. CASE RunCloses(r)
  <2>1. \A t \in Sessions : conn'[t] = "open" => conn[t] = "open"
    BY <1>10, ClosingForgets DEF RunCloses
  <2> QED
    BY <1>4, <1>10, <2>1 DEF RunCloses, Asking, dialVars
<1>11. CASE RunEnds(r)
  <2>1. run'[r] = "none" /\ \A q \in Runs \ {r} : run'[q] = run[q] /\ of'[q] = of[q]
    BY <1>11, RunStops DEF RunEnds
  <2>2. Empties
    BY <1>11, <2>1, NoMishap DEF RunEnds, Empties, Keeps, Live, dialVars, goVars
  <2> QED
    BY <2>2, EmptiesStep
<1> QED
  BY <1>1, <1>2, <1>3, <1>5, <1>6, <1>7, <1>8, <1>9, <1>10, <1>11 DEF RunStep, PromptAnswered

LEMMA InHandStep ==
  ASSUME TypeOK, TypeOK', InHand, mishaps' = {}, Next PROVE InHand'
<1>1. CASE \E s \in Sessions : TapUnlock(s) \/ DialStep(s) \/ ExpiryStep(s)
  BY <1>1, UnlockStep, DialsInHand, WindowsInHand
<1>2. CASE \E r \in Runs : TapApprove(r) \/ PromptAnswered(r) \/ RunStep(r)
  BY <1>2, ApproveStep, ApprovalsInHand
<1>3. CASE \E e \in Errands : TapCancel(e) \/ TapHome(e) \/ ErrandStep(e)
  BY <1>3, CancelStep, ErrandsInHand
<1>4. CASE KeyCheckFinds
  <2>1. Calm
    BY <1>4 DEF KeyCheckFinds, Calm, Keeps, Live, Covered, dialVars, goVars, runVars, expiryVars
  <2> QED
    BY <2>1, CalmStep
<1>5. CASE KeyCheckEnds
  <2>1. Rests
    BY <1>5, NoMishap DEF KeyCheckEnds, Rests, Keeps, Live, dialVars, goVars, runVars
  <2> QED
    BY <2>1, RestsStep
<1> QED
  BY <1>1, <1>2, <1>3, <1>4, <1>5 DEF Next

-----------------------------------------------------------------------------
LEMMA InitEstablishes == Init => FlowInv
<1> SUFFICES ASSUME Init PROVE FlowInv
  OBVIOUS
<1>1. TypeOK
  BY DEF Init, TypeOK, Screens, Busy, RunSteps, MishapKinds
<1>2. Told /\ Windows
  BY DEF Init, Told, Windows, ExpiredAnswersNothing
<1>3. InHand
  BY DEF Init, InHand, SessionsAreReached, WindowCoversRequest, Held, DialAlone, FlightIsReal,
         HomeIsEmpty, OneApproval, RequestOnScreen, Requested, ScreenIsCovered
<1> QED
  BY <1>1, <1>2, <1>3 DEF FlowInv

LEMMA NextKeeps == FlowInv /\ [Next]_vars => FlowInv'
<1> SUFFICES ASSUME FlowInv, [Next]_vars PROVE FlowInv'
  OBVIOUS
<1>1. TypeOK /\ Told /\ Windows /\ (mishaps = {} => InHand)
  BY DEF FlowInv
<1>2. CASE Next
  <2>1. TypeOK' /\ Told' /\ Windows'
    BY <1>1, <1>2, TypesStep, ToldStep, WindowsStep
  <2>2. ASSUME mishaps' = {} PROVE InHand'
    <3>1. mishaps = {}
      BY <1>2, <2>2, MishapsStay
    <3> QED
      BY <1>1, <1>2, <2>1, <2>2, <3>1, InHandStep
  <2> QED
    BY <2>1, <2>2 DEF FlowInv
<1>3. CASE UNCHANGED vars
  <2>1. TypeOK'
    BY <1>1, <1>3 DEF TypeOK, vars, dialVars, goVars, runVars, expiryVars
  <2>2. Told' /\ Windows'
    BY <1>1, <1>3 DEF Told, Windows, ExpiredAnswersNothing, vars, dialVars, goVars, runVars, expiryVars
  <2>3. ASSUME mishaps' = {} PROVE InHand'
    <3>1. InHand
      BY <1>1, <1>3, <2>3 DEF vars
    <3>2. Calm
      BY <1>3 DEF Calm, Keeps, Live, Covered, vars, dialVars, goVars, runVars, expiryVars
    <3> QED
      BY <1>1, <3>1, <3>2, CalmStep
  <2> QED
    BY <2>1, <2>2, <2>3 DEF FlowInv
<1> QED
  BY <1>2, <1>3

(* The flow keeps its invariant.                                           *)
THEOREM FlowInvariant == Spec => []FlowInv
<1>1. Init => FlowInv
  BY InitEstablishes
<1>2. FlowInv /\ [Next]_vars => FlowInv'
  BY NextKeeps
<1> QED
  BY <1>1, <1>2, PTL DEF Spec

(* Whatever the person taps and however the blocking calls, the windows    *)
(* and the prompts interleave: nothing is answered that was refused        *)
(* (Session.Decline), no approval begins to answer once its window has     *)
(* ended (armApproveExpiry), and while nothing is lost hold of, every open *)
(* session can be closed and every waiting machine has a window.           *)
THEOREM FlowKeepsHold == Spec => []IInv
<1>1. FlowInv => IInv
  BY DEF FlowInv, IInv, Told, NoIsFinal, Windows, InHand
<1> QED
  BY <1>1, FlowInvariant, PTL
=============================================================================
