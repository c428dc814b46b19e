----------------------------- MODULE UnlockFlow -----------------------------
(***************************************************************************)
(* The phone's unlock screen: UnlockFlow.kt and the taps SynctangApp.kt    *)
(* gives it.  Everything but the blocking calls runs on one thread, so an  *)
(* action is a turn of that thread, from one suspension to the next, or    *)
(* the effect of a blocking call on a thread of its own.  What makes it    *)
(* hard is that a coroutine outlives the screen that started it, and that  *)
(* all of them share four fields: the screen, the session, the dial in     *)
(* flight and the expiry that is armed.                                    *)
(*                                                                         *)
(* A session is the Go Session under MachineSession; Exchange has its      *)
(* conversation with the machine, and here it is what the flow can do to   *)
(* it: a decline and an answer, under the session's mutex.                 *)
(***************************************************************************)

CONSTANTS Sessions,  \* dials the flow may still be busy with; ids are reused
          Runs,      \* approvals that may still be running; ids are reused
          Errands,   \* coroutines of cancel() and refresh(); ids are reused
          None       \* null

ASSUME UnlockAssumption == None \notin Sessions \cup Runs

(* The ways the flow can lose hold of a session.                           *)
(*   overwritten  home() or the key check ends late and puts its screen     *)
(*                over an exchange, which the expiry then takes for over    *)
(*   dropped      the field is cleared, or set, while it holds another      *)
(*                open session                                              *)
(*   stale        what was started for one session acts on the next         *)
(*   swallowed    the cancellation of an approval that was still preparing  *)
(*                the key is caught as a failure, and disarms an expiry     *)
MishapKinds == {"overwritten", "dropped", "stale", "swallowed"}

VARIABLES
    screen,         \* _state
    session,        \* the session field: what approve, decline and close use
    inFlight,       \* the dial cancel() interrupts
    dial,           \* where connect()'s coroutine is, per session
    cancelled,      \* InFlight.cancelled, per session
    conn,           \* the Go session's connection
    answered,       \* the Go session's answered
    said,           \* history: what the machine has been told, the first first
    run,            \* where approveAndAnswer is, per approval
    of,             \* the session an approval captured (active)
    expired,        \* ApproveRun.expired: the window ended, the job is cancelled
    approveRun,     \* the approveRun field: the latest approval
    expiry,         \* where the expiry armed for a session is
    approveExpiry,  \* the approveExpiry field: the session it was armed for
    errand,         \* where a coroutine of cancel() or refresh() is
    resetting,      \* runKeyCheck has found the key dead and is replacing it
    mishaps         \* history: the ways the flow has lost hold of a session

dialVars == <<inFlight, dial, cancelled>>
goVars == <<conn, answered, said>>
runVars == <<run, of, expired, approveRun>>
expiryVars == <<expiry, approveExpiry>>
vars == <<screen, session, dialVars, goVars, runVars, expiryVars,
          errand, resetting, mishaps>>

Busy == {"connecting", "working", "approve"}
Screens == Busy \cup {"ready", "done", "failed"}
Leaving == {"refuse", "close", "clear"}    \* decline, then closeSession
Answering == {"unwrap", "takeBack", "verdict", "close", "clear"}
RunSteps == {"none", "prepare", "prompt", "deny", "denyClose", "denyClear"}
            \cup Answering

TypeOK ==
    /\ screen \in Screens
    /\ session \in Sessions \cup {None} /\ inFlight \in Sessions \cup {None}
    /\ dial \in [Sessions -> {"idle", "start", "startClear", "dialling",
                              "connected", "failing", "home"} \cup Leaving]
    /\ cancelled \in [Sessions -> BOOLEAN]
    /\ conn \in [Sessions -> {"none", "open"}]
    /\ answered \in [Sessions -> BOOLEAN]
    /\ said \in [Sessions -> {"nothing", "no", "answer", "no, answer"}]
    /\ run \in [Runs -> RunSteps] /\ of \in [Runs -> Sessions \cup {None}]
    /\ expired \in [Runs -> BOOLEAN] /\ approveRun \in Runs \cup {None}
    /\ expiry \in [Sessions -> {"off", "armed"} \cup Leaving]
    /\ approveExpiry \in Sessions \cup {None}
    /\ errand \in [Errands -> {"idle", "home"} \cup Leaving]
    /\ resetting \in BOOLEAN
    /\ mishaps \subseteq MishapKinds

(* The first refresh() is already under way (UnlockViewModel's init). *)
Init ==
    /\ screen = "working" /\ session = None /\ inFlight = None
    /\ dial = [s \in Sessions |-> "idle"]
    /\ cancelled = [s \in Sessions |-> FALSE]
    /\ conn = [s \in Sessions |-> "none"]
    /\ answered = [s \in Sessions |-> FALSE]
    /\ said = [s \in Sessions |-> "nothing"]
    /\ run = [r \in Runs |-> "none"] /\ of = [r \in Runs |-> None]
    /\ expired = [r \in Runs |-> FALSE] /\ approveRun = None
    /\ expiry = [s \in Sessions |-> "off"] /\ approveExpiry = None
    /\ \E e \in Errands :
          errand = [f \in Errands |-> IF f = e THEN "home" ELSE "idle"]
    /\ resetting = FALSE /\ mishaps = {}

-----------------------------------------------------------------------------
(* What the flow does to a Go session, on an io thread.                    *)

(* No answer holds the session's mutex while it waits for its verdict. *)
Free(s) == \A r \in Runs : of[r] = s => run[r] # "verdict"

(* Mutant of Decline: the session does not remember that it has declined. *)
DeclineUnremembered(s) ==
    IF s = None \/ conn[s] # "open"
    THEN UNCHANGED <<answered, said>>
    ELSE /\ Free(s)
         /\ said' = [said EXCEPT ![s] = IF @ = "nothing" THEN "no" ELSE @]
         /\ UNCHANGED answered

(* Decline fails, and nobody minds, without a connection that works. *)
Decline(s) ==
    IF s = None \/ conn[s] # "open"
    THEN UNCHANGED <<answered, said>>
    ELSE /\ Free(s)
         /\ answered' = [answered EXCEPT ![s] = TRUE]
         /\ said' = [said EXCEPT ![s] = IF @ = "nothing" THEN "no" ELSE @]

(* closeSession() closes what the field holds, and then clears the field,  *)
(* which may hold another session by now.                                  *)
CloseHeld ==
    IF session = None THEN UNCHANGED goVars
    ELSE /\ Free(session)
         /\ conn' = [conn EXCEPT ![session] = "none"]
         /\ answered' = [answered EXCEPT ![session] = FALSE]
         /\ said' = [said EXCEPT ![session] = "nothing"]

Held(s) == s # None /\ conn[s] = "open"

(* A session that leaves the field open has nobody to close it. *)
SetSession(s) ==
    /\ session' = s
    /\ mishaps' = mishaps \cup IF Held(session) THEN {"dropped"} ELSE {}

(* A screen without the session is shown while there is one, or a dial. *)
Overwrites(s) ==
    mishaps' = mishaps \cup IF session # None \/ inFlight \notin {s, None}
                            THEN {"overwritten"} ELSE {}

(* What was started for session s outlived it, and what it does to the     *)
(* shared fields (disarm, decline, close) hits the next one.               *)
Meddles(s) ==
    mishaps' = mishaps \cup IF session \notin {None, s} THEN {"stale"} ELSE {}

(* disarmApproveExpiry: an expiry in the middle of declining goes on with  *)
(* that, but not to its last line.                                         *)
Disarm ==
    /\ approveExpiry' = None
    /\ expiry' = [s \in Sessions |->
                    IF s = approveExpiry /\ expiry[s] = "armed" THEN "off"
                    ELSE expiry[s]]

-----------------------------------------------------------------------------
(* Taps.  The biometric prompt is in front of every screen.                *)

CanTap == \A r \in Runs : run[r] # "prompt"

Unused(s) ==
    /\ dial[s] = "idle" /\ expiry[s] = "off" /\ ~Held(s)
    /\ s \notin {session, inFlight}
    /\ \A r \in Runs : of[r] = s => run[r] = "none"

(* connect(gate), which SynctangApp always gives a gate. *)
TapUnlock(s) ==
    /\ screen = "ready" /\ CanTap /\ Unused(s)
    /\ Disarm
    /\ inFlight' = s
    /\ dial' = [dial EXCEPT ![s] = "start"]
    /\ screen' = "connecting"
    /\ UNCHANGED <<session, cancelled, goVars, runVars, errand, resetting, mishaps>>

(* approve(): one approval per Approve screen. *)
StartRun(r, s) ==
    /\ run[r] = "none"
    /\ run' = [run EXCEPT ![r] = "prepare"]
    /\ of' = [of EXCEPT ![r] = s]
    /\ approveRun' = r
    /\ UNCHANGED expired
    /\ screen' = "working"

TapApprove(r) ==
    /\ screen = "approve" /\ CanTap /\ session # None
    /\ StartRun(r, session)
    /\ UNCHANGED <<session, dialVars, goVars, expiryVars, errand, resetting,
                   mishaps>>

(* cancel(): Decline, Cancel and back. *)
TapCancel(e) ==
    /\ screen \in {"connecting", "approve"} /\ CanTap
    /\ Disarm
    /\ IF inFlight # None
       THEN /\ cancelled' = [cancelled EXCEPT ![inFlight] = TRUE]
            /\ UNCHANGED errand
       ELSE /\ errand[e] = "idle"
            /\ errand' = [errand EXCEPT ![e] = "refuse"]
            /\ UNCHANGED cancelled
    /\ UNCHANGED <<screen, session, inFlight, dial, goVars, runVars,
                   resetting, mishaps>>

TapHome(e) ==
    /\ screen \in {"done", "failed"} /\ CanTap
    /\ errand[e] = "idle"
    /\ errand' = [errand EXCEPT ![e] = "home"]
    /\ UNCHANGED <<screen, session, dialVars, goVars, runVars, expiryVars,
                   resetting, mishaps>>

-----------------------------------------------------------------------------
(* declineAndGoHome() and refresh(): three blocking calls and a screen.    *)

ErrandRefuses(e) ==
    /\ errand[e] = "refuse"
    /\ Decline(session)
    /\ errand' = [errand EXCEPT ![e] = "close"]
    /\ UNCHANGED <<screen, session, dialVars, conn, runVars, expiryVars,
                   resetting, mishaps>>

ErrandCloses(e) ==
    /\ errand[e] = "close"
    /\ CloseHeld
    /\ errand' = [errand EXCEPT ![e] = "clear"]
    /\ UNCHANGED <<screen, session, dialVars, runVars,
                   expiryVars, resetting, mishaps>>

ErrandClears(e) ==
    /\ errand[e] = "clear"
    /\ SetSession(None)
    /\ errand' = [errand EXCEPT ![e] = "home"]
    /\ UNCHANGED <<screen, dialVars, goVars, runVars, expiryVars, resetting>>

(* home(): the identity is there, or its key is not as it should be. *)
ErrandEnds(e) ==
    /\ errand[e] = "home"
    /\ errand' = [errand EXCEPT ![e] = "idle"]
    /\ screen' \in {"ready", "failed"}
    /\ Overwrites(None)
    /\ UNCHANGED <<session, dialVars, goVars, runVars, expiryVars, resetting>>

ErrandStep(e) ==
    ErrandRefuses(e) \/ ErrandCloses(e) \/ ErrandClears(e) \/ ErrandEnds(e)

-----------------------------------------------------------------------------
(* connect()'s coroutine. *)

DialCloses(s) ==
    /\ dial[s] \in {"start", "close"}
    /\ CloseHeld
    /\ dial' = [dial EXCEPT ![s] =
                  IF @ = "start" THEN "startClear" ELSE "clear"]
    /\ UNCHANGED <<screen, session, inFlight, cancelled,
                   runVars, expiryVars, errand, resetting, mishaps>>

DialClears(s) ==
    /\ dial[s] \in {"startClear", "clear"}
    /\ SetSession(None)
    /\ dial' = [dial EXCEPT ![s] =
                  IF @ = "startClear" THEN "dialling" ELSE "home"]
    /\ UNCHANGED <<screen, inFlight, cancelled, goVars, runVars, expiryVars,
                   errand, resetting>>

(* Session.Connect returns: Exchange has what it does until then. *)
DialReturns(s) ==
    /\ dial[s] = "dialling"
    /\ \/ /\ dial' = [dial EXCEPT ![s] = "connected"]
          /\ conn' = [conn EXCEPT ![s] = "open"]
       \/ /\ dial' = [dial EXCEPT ![s] = "failing"]
          /\ UNCHANGED conn
    /\ UNCHANGED <<screen, session, inFlight, cancelled, answered, said,
                   runVars, expiryVars, errand, resetting, mishaps>>

DialDone(s) ==
    /\ dial' = [dial EXCEPT ![s] = "idle"]
    /\ inFlight' = IF inFlight = s THEN None ELSE inFlight
    /\ cancelled' = [cancelled EXCEPT ![s] = FALSE]

(* The request is there: arm the window, and approve in the same turn. *)
DialAsks(s, r) ==
    /\ dial[s] = "connected" /\ ~cancelled[s]
    /\ SetSession(s)
    /\ expiry' = [t \in Sessions |->
                    IF t = s THEN "armed"
                    ELSE IF t = approveExpiry /\ expiry[t] = "armed" THEN "off"
                    ELSE expiry[t]]
    /\ approveExpiry' = s
    /\ StartRun(r, s)
    /\ DialDone(s)
    /\ UNCHANGED <<goVars, errand, resetting>>

(* Cancelled just as the dial succeeded: the machine is told. *)
DialTooLate(s) ==
    /\ dial[s] = "connected" /\ cancelled[s]
    /\ SetSession(s)
    /\ dial' = [dial EXCEPT ![s] = "refuse"]
    /\ UNCHANGED <<screen, inFlight, cancelled, goVars, runVars, expiryVars,
                   errand, resetting>>

DialRefuses(s) ==
    /\ dial[s] = "refuse"
    /\ Decline(session)
    /\ dial' = [dial EXCEPT ![s] = "close"]
    /\ UNCHANGED <<screen, session, inFlight, cancelled, conn, runVars,
                   expiryVars, errand, resetting, mishaps>>

(* After the status lookup, a dial cancelled meanwhile goes home. *)
DialFails(s) ==
    /\ dial[s] = "failing"
    /\ IF cancelled[s]
       THEN /\ dial' = [dial EXCEPT ![s] = "home"]
            /\ UNCHANGED <<screen, inFlight, cancelled>>
       ELSE screen' = "failed" /\ DialDone(s)
    /\ UNCHANGED <<session, goVars, runVars, expiryVars, errand, resetting,
                   mishaps>>

DialGoesHome(s) ==
    /\ dial[s] = "home"
    /\ screen' \in {"ready", "failed"}
    /\ Overwrites(s)
    /\ DialDone(s)
    /\ UNCHANGED <<session, goVars, runVars, expiryVars, errand, resetting>>

DialStep(s) ==
    \/ DialCloses(s) \/ DialClears(s) \/ DialReturns(s)
    \/ \E r \in Runs : DialAsks(s, r)
    \/ DialTooLate(s) \/ DialRefuses(s) \/ DialFails(s) \/ DialGoesHome(s)

-----------------------------------------------------------------------------
(* approveAndAnswer(): prepare the key, ask for the fingerprint, answer.   *)

RunGoes(r, step) ==
    /\ run' = [run EXCEPT ![r] = step]
    /\ UNCHANGED <<of, expired, approveRun>>

(* Forgets the approval; a field that still names it says no more than null. *)
RunIsOver(r) ==
    /\ run' = [run EXCEPT ![r] = "none"]
    /\ of' = [of EXCEPT ![r] = None]
    /\ expired' = [expired EXCEPT ![r] = FALSE]
    /\ approveRun' = IF approveRun = r THEN None ELSE approveRun

(* The key is ready, or it is not and the machine is to be told.  An       *)
(* approval whose window ended meanwhile resumes with a cancellation,      *)
(* which the same catch takes: it disarms whatever is armed by now, and    *)
(* declining throws.                                                       *)
RunPrepares(r) ==
    /\ run[r] = "prepare"
    /\ \/ ~expired[r] /\ RunGoes(r, "prompt") /\ UNCHANGED <<expiryVars, mishaps>>
       \/ ~expired[r] /\ RunGoes(r, "deny") /\ Disarm /\ Meddles(of[r])
       \/ /\ expired[r] /\ RunIsOver(r) /\ Disarm
          /\ mishaps' = mishaps \cup
                IF approveExpiry # None THEN {"swallowed"} ELSE {}
    /\ UNCHANGED <<screen, session, dialVars, goVars, errand, resetting>>

(* The prompt is dismissed with its coroutine, or returns in spite of it. *)
PromptExpires(r) ==
    /\ run[r] = "prompt" /\ expired[r]
    /\ RunIsOver(r)
    /\ UNCHANGED <<screen, session, dialVars, goVars, expiryVars, errand, resetting, mishaps>>

PromptSucceeds(r) ==
    /\ run[r] = "prompt" /\ ~expired[r]
    /\ RunGoes(r, "unwrap")
    /\ Disarm /\ Meddles(of[r])
    /\ UNCHANGED <<screen, session, dialVars, goVars, errand, resetting>>

(* Back to the request, if it is still there (describe). *)
PromptDismissed(r) ==
    /\ run[r] = "prompt" /\ ~expired[r]
    /\ RunIsOver(r)
    /\ screen' = IF session = None THEN "failed" ELSE "approve"
    /\ Meddles(of[r])
    /\ UNCHANGED <<session, dialVars, goVars, expiryVars, errand, resetting>>

PromptFails(r) ==
    /\ run[r] = "prompt" /\ ~expired[r]
    /\ RunGoes(r, "deny")
    /\ Disarm /\ Meddles(of[r])
    /\ UNCHANGED <<screen, session, dialVars, goVars, errand, resetting>>

(* The unwrapping fails, and the machine is told; or the answer goes out   *)
(* and its verdict is waited for; or either fails otherwise, as Go does    *)
(* when it has answered already.                                           *)
RunAnswers(r) ==
    LET s == of[r] IN
    /\ run[r] = "unwrap"
    /\ \/ RunGoes(r, "takeBack") /\ UNCHANGED <<screen, answered, said>>
       \/ /\ conn[s] = "open" /\ ~answered[s] /\ Free(s)
          /\ RunGoes(r, "verdict")
          /\ answered' = [answered EXCEPT ![s] = TRUE]
          /\ said' = [said EXCEPT ![s] =
                          IF @ = "no" THEN "no, answer" ELSE "answer"]
          /\ UNCHANGED screen
       \/ /\ RunGoes(r, "close")
          /\ screen' = "failed"
          /\ UNCHANGED <<answered, said>>
    /\ Meddles(of[r])
    /\ UNCHANGED <<session, dialVars, conn,
                   expiryVars, errand, resetting>>

RunHearsVerdict(r) ==
    /\ run[r] = "verdict"
    /\ screen' \in {"done", "failed"}
    /\ RunGoes(r, "close")
    /\ Meddles(of[r])
    /\ UNCHANGED <<session, dialVars, goVars, expiryVars, errand, resetting>>

(* declineQuietly(active), before or instead of an answer. *)
RunDenies(r) ==
    /\ run[r] \in {"deny", "takeBack"}
    /\ Decline(of[r])
    /\ RunGoes(r, IF run[r] = "deny" THEN "denyClose" ELSE "close")
    /\ screen' = IF run[r] = "deny" THEN screen ELSE "failed"
    /\ Meddles(of[r])
    /\ UNCHANGED <<session, dialVars, conn,
                   expiryVars, errand, resetting>>

RunCloses(r) ==
    /\ run[r] \in {"denyClose", "close"}
    /\ CloseHeld /\ Meddles(of[r])
    /\ RunGoes(r, IF run[r] = "close" THEN "clear" ELSE "denyClear")
    /\ UNCHANGED <<screen, session, dialVars, expiryVars, errand, resetting>>

RunEnds(r) ==
    /\ run[r] \in {"denyClear", "clear"}
    /\ SetSession(None)
    /\ RunIsOver(r)
    /\ screen' = IF run[r] = "denyClear" THEN "failed" ELSE screen
    /\ UNCHANGED <<dialVars, goVars, expiryVars,
                   errand, resetting>>

PromptAnswered(r) == PromptSucceeds(r) \/ PromptDismissed(r) \/ PromptFails(r)

RunStep(r) ==
    \/ RunPrepares(r) \/ PromptExpires(r) \/ RunAnswers(r)
    \/ RunHearsVerdict(r) \/ RunDenies(r) \/ RunCloses(r) \/ RunEnds(r)

-----------------------------------------------------------------------------
(* armApproveExpiry's coroutine. *)

(* Mutant of WaitingForAnswer: the window watches the Approve screen only,  *)
(* and a prompt that is up outlives it.                                    *)
WaitingOnScreenOnly == screen = "approve"

(* Still waiting for an answer: decided by the screen and the latest run.  *)
WaitingForAnswer ==
    \/ screen = "approve"
    \/ /\ screen = "working" /\ approveRun # None
       /\ run[approveRun] \notin {"none"} \cup Answering

ExpiryFires(s) ==
    /\ expiry[s] = "armed"
    /\ expiry' = [expiry EXCEPT ![s] =
                    IF WaitingForAnswer THEN "refuse" ELSE "off"]
    /\ expired' = [r \in Runs |->
                    IF WaitingForAnswer /\ r = approveRun /\ run[r] # "none"
                    THEN TRUE ELSE expired[r]]
    /\ approveExpiry' = IF WaitingForAnswer THEN approveExpiry ELSE None
    /\ UNCHANGED <<screen, session, dialVars, goVars, run, of, approveRun,
                   errand, resetting, mishaps>>

ExpiryRefuses(s) ==
    /\ expiry[s] = "refuse"
    /\ Decline(session) /\ Meddles(s)
    /\ expiry' = [expiry EXCEPT ![s] = "close"]
    /\ UNCHANGED <<screen, session, dialVars, conn, runVars, approveExpiry,
                   errand, resetting>>

ExpiryCloses(s) ==
    /\ expiry[s] = "close"
    /\ CloseHeld /\ Meddles(s)
    /\ expiry' = [expiry EXCEPT ![s] = "clear"]
    /\ UNCHANGED <<screen, session, dialVars, runVars,
                   approveExpiry, errand, resetting>>

(* Disarmed meanwhile, it says nothing. *)
ExpiryEnds(s) ==
    /\ expiry[s] = "clear"
    /\ expiry' = [expiry EXCEPT ![s] = "off"]
    /\ SetSession(None)
    /\ screen' = IF approveExpiry = s THEN "failed" ELSE screen
    /\ approveExpiry' = IF approveExpiry = s THEN None ELSE approveExpiry
    /\ UNCHANGED <<dialVars, goVars, runVars, errand, resetting>>

ExpiryStep(s) ==
    ExpiryFires(s) \/ ExpiryRefuses(s) \/ ExpiryCloses(s) \/ ExpiryEnds(s)

-----------------------------------------------------------------------------
(* runKeyCheck(): a key retired by a change to the phone's biometrics.     *)

(* It was found dead while the home screen was up; a check that finds      *)
(* nothing, or ends on another screen, does nothing.                       *)
KeyCheckFinds ==
    /\ screen = "ready" /\ ~resetting
    /\ resetting' = TRUE
    /\ UNCHANGED <<screen, session, dialVars, goVars, runVars, expiryVars,
                   errand, mishaps>>

KeyCheckEnds ==
    /\ resetting
    /\ resetting' = FALSE
    /\ screen' = "failed"
    /\ Overwrites(None)
    /\ UNCHANGED <<session, dialVars, goVars, runVars, expiryVars, errand>>

-----------------------------------------------------------------------------
Next ==
    \/ \E s \in Sessions : TapUnlock(s) \/ DialStep(s) \/ ExpiryStep(s)
    \/ \E r \in Runs : TapApprove(r) \/ PromptAnswered(r) \/ RunStep(r)
    \/ \E e \in Errands : TapCancel(e) \/ TapHome(e) \/ ErrandStep(e)
    \/ KeyCheckFinds \/ KeyCheckEnds

Spec == Init /\ [][Next]_vars

(* Blocking calls return: the Go ones and the two uses of the key have     *)
(* limits of their own, home()'s look at the key has none and is assumed   *)
(* to.  The window's timer fires.  Nothing is assumed of the person, who   *)
(* may leave every screen and the prompt alone.                            *)
Fairness ==
    /\ \A s \in Sessions : WF_vars(DialStep(s)) /\ WF_vars(ExpiryStep(s))
    /\ \A r \in Runs : WF_vars(RunStep(r))
    /\ \A e \in Errands : WF_vars(ErrandStep(e))

LiveSpec == Spec /\ Fairness

-----------------------------------------------------------------------------
(* A machine that has been told no is not answered afterwards: declining   *)
(* takes time, and the Approve screen stays while it lasts (Session.Decline *)
(* and answerXOnly share a flag).                                          *)
NoIsFinal == \A s \in Sessions : said[s] # "no, answer"

(* Once the window has ended an approval does not begin to answer, and one *)
(* that is answering is not ended by the window.                           *)
ExpiredAnswersNothing ==
    \A r \in Runs : expired[r] => run[r] \notin Answering

(* Whoever opened a session, the field has it or its dial is about to put  *)
(* it there, so that the next closeSession reaches it.                     *)
SessionsAreReached ==
    \A s \in Sessions : Held(s) => s = session \/ dial[s] = "connected"

(* While an approval has the machine waiting for the person, the window is *)
(* running or its expiry is under way, or somebody has said no already.    *)
WindowCoversRequest ==
    \A r \in Runs :
        /\ run[r] \in {"prepare", "prompt"} /\ Held(of[r])
        => \/ expiry[of[r]] # "off"
           \/ \E e \in Errands : errand[e] \in Leaving

(* What the flow keeps to while it has hold of its session. *)
IInv ==
    /\ TypeOK /\ NoIsFinal /\ ExpiredAnswersNothing
    /\ mishaps = {} => SessionsAreReached /\ WindowCoversRequest

(* Every session that was opened is closed, and so the machine is not left *)
(* waiting, though nobody touches the phone again; unless the flow lost    *)
(* hold of it in one of the ways mishaps names.                            *)
SessionsEnd ==
    \A s \in Sessions : Held(s) ~> (~Held(s) \/ mishaps # {})

(* And a screen that shows the flow busy moves on.                         *)
ScreensMoveOn == screen \in Busy ~> (screen \notin Busy \/ mishaps # {})

(* An Approve screen that nobody answers gives up (armApproveExpiry), and  *)
(* so does everything else that has the person or the machine wait.        *)
WaitingEnds == SessionsEnd /\ ScreensMoveOn

=============================================================================
