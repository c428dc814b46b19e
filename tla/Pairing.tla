------------------------------ MODULE Pairing -------------------------------
(***************************************************************************)
(* One pairing window: "synctang-unlocker pair" at the machine, which      *)
(* shows a one-time code and enrols the key holder that answers it, and    *)
(* the key holders' mobile.Pairer calls that do.                           *)
(*                                                                         *)
(* What a volume's token holds for a key holder is a subset of {"old",     *)
(* "new"}: the key it is pairing with is "new", one that it had before is  *)
(* "old".  The cryptsetup calls behind Enrol and Revoke are the subject of *)
(* module Enrolment; here a call either does its work, fails without       *)
(* effect, or fails with the token removed and not written again.          *)
(*                                                                         *)
(* Timers may fire whenever they are armed.  A timer's function runs in a  *)
(* goroutine of its own, so stopping it too late leaves a close pending:   *)
(* closing and pClosing.                                                   *)
(***************************************************************************)
EXTENDS Link

CONSTANTS
  NoSession,    \* the machine has no connection
  Befores,      \* what the token may hold for a key holder at the start
  Shows,        \* which of ShowKinds the key holders may send
  Faults        \* which of FaultKinds may happen, to bound what TLC explores

(* The right proof and a usable key; a proof made with another code; a     *)
(* right proof of a public key that is no point of the curve.              *)
ShowKinds == {"right", "wrongCode", "badPoint"}

(* The network dies, the transport joins only one end, a process dies, the *)
(* person cancels, a cryptsetup call fails, or fails with the token gone.  *)
FaultKinds == {"linkDies", "lonelyEnd", "killed", "cancel", "stepFails", "tokenLost"}

Keys == {"old", "new"}

ASSUME PairingAssumption ==
  /\ NoSession \notin Sessions
  /\ Befores \subseteq SUBSET Keys /\ Befores # {}
  /\ Shows \subseteq ShowKinds
  /\ Faults \subseteq FaultKinds

VARIABLES
  mpc,        \* where runPair's loop and runPairOnce are
  peer,       \* the session at the other end of the connection
  window,     \* the window's ctx is done
  assumeYes,  \* --yes, fixed
  closing,    \* a timer has fired: its goroutine will close the connection
  req,        \* what the PairRequest it read shows
  reply,      \* the PairResult to send, or sent
  entry,      \* the keys the token holds for each key holder
  before,     \* the same when the window opened
  tokenGone,  \* the token was removed and not written again (history)
  agreed,     \* the key holders the operator agreed to enrol (history)
  ppc,        \* where Pairer.Pair is
  shows,      \* what its request will show, "none" outside Pair
  dialDone,   \* its dialCtx is done
  waitDone,   \* the wait for the operator has reached its deadline
  cancelled,  \* Pairer.cancelled
  pClosing,   \* an AfterFunc has fired and will close the connection
  proved,     \* the key holders that sent a right proof (history)
  outcome     \* how Pair ended

machineVars == <<mpc, peer, window, assumeYes, closing, req, reply>>
headerVars == <<entry, before, tokenGone, agreed>>
phoneVars == <<ppc, shows, dialDone, waitDone, cancelled, pClosing, proved, outcome>>
vars == <<machineVars, headerVars, phoneVars, linkVars>>

Challenge == [type |-> "challenge"]
Request(k) == [type |-> "request", shows |-> k]
Result(r) == [type |-> "result", reply |-> r]

Refusals == {"codeMismatch", "invalidKey", "declined", "enrolFailed"}
ToPhone == {Challenge} \cup {Result(r) : r \in Refusals \cup {"ok"}}
ToMachine == {Request(k) : k \in ShowKinds}

(* runPairOnce between accepting a connection and returning. *)
Attending == {"challenge", "request", "read", "judge", "ask", "enrol", "revoke",
              "tell", "linger"}
Judging == {"read", "judge", "ask", "enrol", "revoke"}
Ended == {"paired", "nobody", "killed"}
MachineSteps == Attending \cup Ended \cup {"listen"}

(* pairOnce on a connection; dialCtx closes it in the first two.           *)
Connected == {"challenge", "prove", "wait"}
Running == Connected \cup {"dialling", "failed"}
PhoneSteps == Running \cup {"idle", "over"}

Outcomes == {"none", "enrolled", "codeMismatch", "declined", "refused",
             "notConfirmed", "unreachable", "cancelled"}

-----------------------------------------------------------------------------
(* The machine. *)

(* Mutant of Returns: whatever was told, the command reports a pairing. *)
ReturnsPaired(ok) ==
  /\ MachineCloses(peer)
  /\ peer' = NoSession /\ req' = "none" /\ reply' = "none" /\ closing' = FALSE
  /\ mpc' = IF window /\ ~ok THEN "nobody" ELSE IF reply # "none" THEN "paired" ELSE "listen"

(* runPairOnce returns: its deferred Close, and runPair's loop decides.    *)
(* After a timer has closed a connection that came over the relay, that    *)
(* Close panics, and the command is gone.                                  *)
Returns(ok) ==
  /\ MachineCloses(peer)
  /\ peer' = NoSession /\ req' = "none" /\ reply' = "none" /\ closing' = FALSE
  /\ \/ mpc' = IF ok THEN "paired" ELSE IF window THEN "nobody" ELSE "listen"
     \/ ClosingAgainPanics(peer) /\ mpc' = "killed"

ListenEnds ==
  /\ mpc = "listen" /\ window
  /\ mpc' = "nobody"
  /\ UNCHANGED <<peer, window, assumeYes, closing, req, reply, headerVars, phoneVars, linkVars>>

(* The challenge goes out and the timers that bound the read are armed.    *)
SendChallenge ==
  /\ mpc = "challenge"
  /\ \/ /\ MachineWrites(peer, Challenge)
        /\ mpc' = "request" /\ closing' = window
        /\ UNCHANGED <<peer, req, reply, mOpen>>
     \/ ~Deliverable(peer) /\ Returns(FALSE)
  /\ UNCHANGED <<window, assumeYes, headerVars, phoneVars, up, pOpen, toM>>

ReadRequest ==
  /\ mpc = "request"
  /\ \E k \in ShowKinds : MachineReads(peer, Request(k)) /\ req' = k
  /\ mpc' = "read"
  /\ UNCHANGED <<peer, window, assumeYes, closing, reply, headerVars, phoneVars,
                 up, mOpen, pOpen, toP>>

ReadRequestFails ==
  /\ mpc = "request"
  /\ MachineReadFails(peer)
  /\ Returns(FALSE)
  /\ UNCHANGED <<window, assumeYes, headerVars, phoneVars, up, pOpen>>

(* Both timers are stopped; a close already under way is not. *)
StopTimers ==
  /\ mpc = "read"
  /\ mpc' = "judge"
  /\ UNCHANGED <<peer, window, assumeYes, closing, req, reply, headerVars, phoneVars, linkVars>>

Replies(r) == reply' = r /\ mpc' = "tell"

(* Mutant of JudgeRequest: the proof is not looked at. *)
JudgeAnything ==
  /\ mpc = "judge"
  /\ mpc' = "ask" /\ UNCHANGED reply
  /\ UNCHANGED <<peer, window, assumeYes, closing, req, headerVars, phoneVars, linkVars>>

(* The proof, the key and the plan: a key holder enrolled twice has to be  *)
(* repaired first, one enrolled with this key needs nothing, and for any   *)
(* other the operator decides.                                             *)
JudgeRequest ==
  /\ mpc = "judge"
  /\ \/ req = "wrongCode" /\ Replies("codeMismatch")
     \/ req = "badPoint" /\ Replies("invalidKey")
     \/ /\ req = "right"
        /\ entry[peer] = Keys \/ "stepFails" \in Faults
        /\ Replies("enrolFailed")
     \/ req = "right" /\ entry[peer] = {"new"} /\ Replies("ok")
     \/ req = "right" /\ "new" \notin entry[peer] /\ mpc' = "ask" /\ UNCHANGED reply
  /\ UNCHANGED <<peer, window, assumeYes, closing, req, headerVars, phoneVars, linkVars>>

(* confirm and confirmReplace.  Nothing bounds the question: the window    *)
(* may end while it is open.  --yes answers it.                            *)
OperatorDecides(yes) ==
  /\ mpc = "ask"
  /\ \/ yes /\ mpc' = "enrol" /\ UNCHANGED reply
     \/ ~yes /\ ~assumeYes /\ Replies("declined")
  /\ agreed' = IF yes /\ ~assumeYes THEN agreed \cup {peer} ELSE agreed
  /\ UNCHANGED <<peer, window, assumeYes, closing, req, entry, before, tokenGone,
                 phoneVars, linkVars>>

(* A cryptsetup call fails, at worst with the token removed. *)
StepFails ==
  /\ \/ "stepFails" \in Faults /\ UNCHANGED <<entry, tokenGone>>
     \/ /\ "tokenLost" \in Faults
        /\ \E s \in Sessions : entry[s] # {}
        /\ entry' = [s \in Sessions |-> {}] /\ tokenGone' = TRUE
  /\ Replies("enrolFailed")

(* Mutant of Enrol: the old key is revoked before the new one is there. *)
EnrolAfterRevoking ==
  /\ mpc = "enrol"
  /\ \/ /\ entry' = [entry EXCEPT ![peer] = {"new"}]
        /\ Replies("ok") /\ UNCHANGED tokenGone
     \/ /\ "stepFails" \in Faults
        /\ entry' = [entry EXCEPT ![peer] = {}]
        /\ Replies("enrolFailed") /\ UNCHANGED tokenGone
  /\ UNCHANGED <<peer, window, assumeYes, closing, req, before, agreed, phoneVars, linkVars>>

(* Mutant of Enrol: the error of enrolRecipient is dropped. *)
EnrolUnchecked ==
  /\ mpc = "enrol"
  /\ \/ entry' = [entry EXCEPT ![peer] = @ \cup {"new"}]
     \/ "stepFails" \in Faults /\ UNCHANGED entry
  /\ Replies("ok")
  /\ UNCHANGED <<peer, window, assumeYes, closing, req, before, tokenGone, agreed,
                 phoneVars, linkVars>>

(* enrolRecipient: alone for a new key holder, and before the old key is   *)
(* revoked for one that replaces its key.                                  *)
Enrol ==
  /\ mpc = "enrol"
  /\ \/ /\ entry' = [entry EXCEPT ![peer] = @ \cup {"new"}]
        /\ IF entry[peer] = {} THEN Replies("ok") ELSE mpc' = "revoke" /\ UNCHANGED reply
        /\ UNCHANGED tokenGone
     \/ StepFails
  /\ UNCHANGED <<peer, window, assumeYes, closing, req, before, agreed, phoneVars, linkVars>>

(* replaceRecipient's second half.  If it fails both keys stay enrolled.   *)
Revoke ==
  /\ mpc = "revoke"
  /\ \/ /\ entry' = [entry EXCEPT ![peer] = {"new"}]
        /\ Replies("ok") /\ UNCHANGED tokenGone
     \/ StepFails
  /\ UNCHANGED <<peer, window, assumeYes, closing, req, before, agreed, phoneVars, linkVars>>

(* The result is written.  An "ok" that cannot be written makes this an    *)
(* attempt that failed, enrolled or not; a refusal that cannot, does not   *)
(* matter.                                                                 *)
SendResult ==
  /\ mpc = "tell"
  /\ \/ /\ MachineWrites(peer, Result(reply))
        /\ mpc' = "linger"
        /\ UNCHANGED <<peer, closing, req, reply, mOpen>>
     \/ ~Deliverable(peer) /\ reply = "ok" /\ Returns(FALSE)
     \/ /\ MachineWriteFails(peer) /\ reply # "ok"
        /\ mpc' = "linger"
        /\ UNCHANGED <<peer, closing, req, reply, mOpen>>
  /\ UNCHANGED <<window, assumeYes, headerVars, phoneVars, up, pOpen, toM>>

(* waitForPeerClose ends, the peer gone or not. *)
LingerEnds ==
  /\ mpc = "linger"
  /\ Returns(reply = "ok")
  /\ UNCHANGED <<window, assumeYes, headerVars, phoneVars, up, pOpen, toM>>

(* pairRequestTimeout, armed until the request has been read. *)
RequestTimer ==
  /\ mpc \in {"request", "read"} /\ ~closing
  /\ closing' = TRUE
  /\ UNCHANGED <<mpc, peer, window, assumeYes, req, reply, headerVars, phoneVars, linkVars>>

(* --timeout: it ends a Listen and closes under a read, and nothing else.  *)
WindowEnds ==
  /\ mpc \notin Ended /\ ~window
  /\ window' = TRUE
  /\ closing' = (closing \/ mpc \in {"request", "read"})
  /\ UNCHANGED <<mpc, peer, assumeYes, req, reply, headerVars, phoneVars, linkVars>>

(* Mutant of TimerCloses: the timers fire and close nothing. *)
TimerClosesNothing == mpc = "none" /\ UNCHANGED vars

TimerCloses ==
  /\ closing /\ mOpen[peer]
  /\ MachineCloses(peer)
  /\ UNCHANGED <<machineVars, headerVars, phoneVars, up, pOpen, toM>>

(* Ctrl-C, or worse, at any step. *)
MachineKilled ==
  /\ "killed" \in Faults
  /\ mpc \notin Ended
  /\ mpc' = "killed"
  /\ \/ peer \in Sessions /\ MachineCloses(peer)
     \/ peer = NoSession /\ UNCHANGED <<mOpen, toP>>
  /\ peer' = NoSession /\ req' = "none" /\ reply' = "none" /\ closing' = FALSE
  /\ UNCHANGED <<window, assumeYes, headerVars, phoneVars, up, pOpen, toM>>

-----------------------------------------------------------------------------
(* The connection. *)

Establish(s) ==
  /\ mpc = "listen" /\ ~window
  /\ ppc[s] = "dialling" /\ ~dialDone[s]
  /\ FreshLink(s, TRUE, TRUE)
  /\ mpc' = "challenge" /\ peer' = s
  /\ ppc' = [ppc EXCEPT ![s] = "challenge"]
  /\ UNCHANGED <<window, assumeYes, closing, req, reply, headerVars, shows, dialDone,
                 waitDone, cancelled, pClosing, proved, outcome>>

(* Each side settles on a leg of its own: an end can be handed out alone.  *)
MachineEndOnly(s) ==
  /\ "lonelyEnd" \in Faults
  /\ mpc = "listen" /\ ~window
  /\ ppc[s] = "dialling"
  /\ FreshLink(s, TRUE, FALSE)
  /\ mpc' = "challenge" /\ peer' = s
  /\ UNCHANGED <<window, assumeYes, closing, req, reply, headerVars, phoneVars>>

PhoneEndOnly(s) ==
  /\ "lonelyEnd" \in Faults
  /\ ppc[s] = "dialling" /\ ~dialDone[s] /\ peer # s
  /\ \E m \in BOOLEAN : FreshLink(s, m, TRUE)
  /\ ppc' = [ppc EXCEPT ![s] = "challenge"]
  /\ UNCHANGED <<machineVars, headerVars, shows, dialDone, waitDone, cancelled, pClosing,
                 proved, outcome>>

(* Neither end is told, and what was in flight may be lost. *)
LinkDies(s) ==
  /\ "linkDies" \in Faults
  /\ up[s] /\ (mOpen[s] \/ pOpen[s])
  /\ up' = [up EXCEPT ![s] = FALSE]
  /\ \E lostP, lostM \in BOOLEAN :
       /\ toP' = IF lostP THEN [toP EXCEPT ![s] = <<>>] ELSE toP
       /\ toM' = IF lostM THEN [toM EXCEPT ![s] = <<>>] ELSE toM
  /\ UNCHANGED <<machineVars, headerVars, phoneVars, mOpen, pOpen>>

-----------------------------------------------------------------------------
(* The key holder. *)

Goto(s, step) == ppc' = [ppc EXCEPT ![s] = step]
(* Pair returns, and its arguments and contexts are no more. *)
Ends(s, how) ==
  /\ Goto(s, "over")
  /\ outcome' = [outcome EXCEPT ![s] = how]
  /\ shows' = [shows EXCEPT ![s] = "none"]
  /\ dialDone' = [dialDone EXCEPT ![s] = FALSE]
Continues(s, step) == Goto(s, step) /\ UNCHANGED <<outcome, shows, dialDone>>

(* Pair on a new Pairer, unless Cancel came first. *)
Pair(s) ==
  /\ ppc[s] = "idle"
  /\ \/ cancelled[s] /\ Ends(s, "cancelled")
     \/ /\ ~cancelled[s]
        /\ \E k \in Shows : shows' = [shows EXCEPT ![s] = k]
        /\ Goto(s, "dialling")
        /\ UNCHANGED <<dialDone, outcome>>
  /\ UNCHANGED <<machineVars, headerVars, waitDone, cancelled, pClosing,
                 proved, linkVars>>

(* The person scans, or types, again. *)
PairAgain(s) ==
  /\ ppc[s] = "over"
  /\ Goto(s, "idle")
  /\ outcome' = [outcome EXCEPT ![s] = "none"]
  /\ cancelled' = [cancelled EXCEPT ![s] = FALSE]
  /\ UNCHANGED <<machineVars, headerVars, shows, dialDone, waitDone, pClosing, proved, linkVars>>

DialFails(s) ==
  /\ ppc[s] = "dialling"
  /\ Goto(s, "failed")
  /\ UNCHANGED <<machineVars, headerVars, shows, dialDone, waitDone, cancelled, pClosing,
                 proved, outcome, linkVars>>

ReadChallenge(s) ==
  /\ ppc[s] = "challenge"
  /\ PhoneReads(s, Challenge)
  /\ Goto(s, "prove")
  /\ UNCHANGED <<machineVars, headerVars, shows, dialDone, waitDone, cancelled, pClosing,
                 proved, outcome, up, mOpen, pOpen, toM>>

(* pairOnce returns: its deferred Close, stop and cancelWait. *)
HangUp(s) ==
  /\ PhoneCloses(s)
  /\ pClosing' = [pClosing EXCEPT ![s] = FALSE]
  /\ waitDone' = [waitDone EXCEPT ![s] = FALSE]

(* The proof goes out, and the wait for the operator gets its own budget.  *)
SendProof(s) ==
  /\ ppc[s] = "prove"
  /\ \/ /\ PhoneWrites(s, Request(shows[s]))
        /\ Goto(s, "wait")
        /\ proved' = IF shows[s] = "right" THEN proved \cup {s} ELSE proved
        /\ UNCHANGED <<waitDone, pClosing, pOpen, toP>>
     \/ /\ PhoneWriteFails(s)
        /\ Goto(s, "failed") /\ HangUp(s)
        /\ UNCHANGED proved
  /\ UNCHANGED <<machineVars, headerVars, shows, dialDone, cancelled, outcome,
                 up, mOpen>>

(* The kinds Pair gives the machine's refusals; a cancel goes first. *)
RefusalKind(r) == IF r \in {"codeMismatch", "declined"} THEN r ELSE "refused"

ReadResult(s) ==
  /\ ppc[s] = "wait"
  /\ pOpen[s] /\ toP[s] # <<>>
  /\ \/ Head(toP[s]) = Result("ok") /\ Ends(s, "enrolled")
     \/ \E r \in Refusals :
          /\ Head(toP[s]) = Result(r)
          /\ Ends(s, IF cancelled[s] THEN "cancelled" ELSE RefusalKind(r))
  /\ HangUp(s)
  /\ UNCHANGED <<machineVars, headerVars, cancelled, proved, up, mOpen, toM>>

(* A read that fails ends the attempt; one that fails because the wait for *)
(* the operator has run out ends Pair.                                     *)
PairReadFails(s) ==
  /\ ppc[s] \in {"challenge", "wait"}
  /\ PhoneReadFails(s)
  /\ IF ppc[s] = "wait" /\ waitDone[s] /\ ~cancelled[s]
       THEN Ends(s, "notConfirmed")
       ELSE Continues(s, "failed")
  /\ HangUp(s)
  /\ UNCHANGED <<machineVars, headerVars, cancelled, proved, up, mOpen, toM>>

(* Between attempts: Cancel, the dial budget, another try. *)
Retry(s) ==
  /\ ppc[s] = "failed"
  /\ \/ cancelled[s] /\ Ends(s, "cancelled")
     \/ ~cancelled[s] /\ dialDone[s] /\ Ends(s, "unreachable")
     \/ ~cancelled[s] /\ ~dialDone[s] /\ Continues(s, "dialling")
  /\ UNCHANGED <<machineVars, headerVars, waitDone, cancelled, pClosing, proved, linkVars>>

(* The dial budget closes the connection only until the proof is sent. *)
DialDeadline(s) ==
  /\ ppc[s] \in Running /\ ~dialDone[s]
  /\ dialDone' = [dialDone EXCEPT ![s] = TRUE]
  /\ pClosing' = [pClosing EXCEPT ![s] = @ \/ ppc[s] \in {"challenge", "prove"}]
  /\ UNCHANGED <<machineVars, headerVars, ppc, shows, waitDone, cancelled,
                 proved, outcome, linkVars>>

(* Mutant of OperatorWaitEnds: the wait for the operator has no bound. *)
OperatorWaitNeverEnds(s) == ppc[s] = "none" /\ UNCHANGED vars

(* pairOperatorWait. *)
OperatorWaitEnds(s) ==
  /\ ppc[s] = "wait" /\ ~waitDone[s]
  /\ waitDone' = [waitDone EXCEPT ![s] = TRUE]
  /\ pClosing' = [pClosing EXCEPT ![s] = TRUE]
  /\ UNCHANGED <<machineVars, headerVars, ppc, shows, dialDone, cancelled,
                 proved, outcome, linkVars>>

(* Cancel ends the ctx both others come from; before Pair it is remembered.*)
Cancel(s) ==
  /\ "cancel" \in Faults
  /\ ppc[s] # "over" /\ ~cancelled[s]
  /\ cancelled' = [cancelled EXCEPT ![s] = TRUE]
  /\ dialDone' = [dialDone EXCEPT ![s] = @ \/ ppc[s] \in Running]
  /\ pClosing' = [pClosing EXCEPT ![s] = @ \/ ppc[s] \in Connected]
  /\ UNCHANGED <<machineVars, headerVars, ppc, shows, waitDone, proved, outcome,
                 linkVars>>

ContextCloses(s) ==
  /\ pClosing[s] /\ pOpen[s]
  /\ PhoneCloses(s)
  /\ UNCHANGED <<machineVars, headerVars, phoneVars, up, mOpen, toM>>

(* The app dies, and its connection with it. *)
PhoneKilled(s) ==
  /\ "killed" \in Faults
  /\ ppc[s] \in Running
  /\ Ends(s, "none")
  /\ HangUp(s)
  /\ UNCHANGED <<machineVars, headerVars, cancelled, proved, up, mOpen, toM>>

-----------------------------------------------------------------------------
Init ==
  /\ LinkInit
  /\ mpc = "listen" /\ peer = NoSession
  /\ window = FALSE /\ assumeYes \in BOOLEAN /\ closing = FALSE
  /\ req = "none" /\ reply = "none"
  /\ before \in [Sessions -> Befores] /\ entry = before
  /\ tokenGone = FALSE /\ agreed = {} /\ proved = {}
  /\ ppc = [s \in Sessions |-> "idle"]
  /\ shows = [s \in Sessions |-> "none"]
  /\ dialDone = [s \in Sessions |-> FALSE]
  /\ waitDone = [s \in Sessions |-> FALSE]
  /\ cancelled = [s \in Sessions |-> FALSE]
  /\ pClosing = [s \in Sessions |-> FALSE]
  /\ outcome = [s \in Sessions |-> "none"]

(* What the command does by itself; with --yes it answers, too. *)
MachineStep ==
  \/ ListenEnds \/ SendChallenge \/ ReadRequest \/ ReadRequestFails \/ StopTimers
  \/ JudgeRequest \/ Enrol \/ Revoke \/ SendResult \/ LingerEnds
  \/ assumeYes /\ OperatorDecides(TRUE)

PhoneStep(s) ==
  \/ DialFails(s) \/ ReadChallenge(s) \/ SendProof(s) \/ ReadResult(s)
  \/ PairReadFails(s) \/ Retry(s)

PhoneTimers(s) == DialDeadline(s) \/ OperatorWaitEnds(s) \/ ContextCloses(s)

Next ==
  \/ MachineStep \/ RequestTimer \/ WindowEnds \/ TimerCloses \/ MachineKilled
  \/ \E yes \in BOOLEAN : OperatorDecides(yes)
  \/ \E s \in Sessions :
       \/ Pair(s) \/ PairAgain(s) \/ Cancel(s) \/ PhoneKilled(s)
       \/ PhoneStep(s) \/ PhoneTimers(s)
       \/ Establish(s) \/ MachineEndOnly(s) \/ PhoneEndOnly(s) \/ LinkDies(s)

Spec == Init /\ [][Next]_vars

(* A read from a connection that has died may never return. *)
MachineReadsDeadLink == mpc = "request" /\ mOpen[peer] /\ ~up[peer] /\ toM[peer] = <<>>
PhoneReadsDeadLink(s) ==
  ppc[s] \in {"challenge", "wait"} /\ pOpen[s] /\ ~up[s] /\ toP[s] = <<>>

(* Goroutines are scheduled and timers fire.  Nothing is assumed of the    *)
(* operator, the persons with the phones, or the network.                  *)
FairSpec ==
  /\ Spec
  /\ WF_vars(~MachineReadsDeadLink /\ MachineStep)
  /\ WF_vars(RequestTimer) /\ WF_vars(WindowEnds) /\ WF_vars(TimerCloses)
  /\ \A s \in Sessions :
       /\ WF_vars(~PhoneReadsDeadLink(s) /\ PhoneStep(s))
       /\ WF_vars(DialDeadline(s)) /\ WF_vars(OperatorWaitEnds(s)) /\ WF_vars(ContextCloses(s))

-----------------------------------------------------------------------------
(* Properties. *)

(* Every variable stays in its type, and the machine has a peer exactly    *)
(* while runPairOnce attends to one.                                       *)
TypeOK ==
  /\ mpc \in MachineSteps
  /\ peer \in Sessions \cup {NoSession}
  /\ mpc \in Attending <=> peer \in Sessions
  /\ window \in BOOLEAN /\ assumeYes \in BOOLEAN /\ closing \in BOOLEAN
  /\ closing => peer \in Sessions
  /\ req \in ShowKinds \cup {"none"}
  /\ mpc \in Judging => req \in ShowKinds
  /\ reply \in Refusals \cup {"ok", "none"}
  /\ reply # "none" <=> mpc \in {"tell", "linger"}
  /\ entry \in [Sessions -> SUBSET Keys] /\ before \in [Sessions -> SUBSET Keys]
  /\ tokenGone \in BOOLEAN
  /\ agreed \subseteq Sessions /\ proved \subseteq Sessions
  /\ ppc \in [Sessions -> PhoneSteps]
  /\ shows \in [Sessions -> ShowKinds \cup {"none"}]
  /\ \A s \in Sessions : ppc[s] \in Running => shows[s] \in ShowKinds
  /\ dialDone \in [Sessions -> BOOLEAN] /\ waitDone \in [Sessions -> BOOLEAN]
  /\ cancelled \in [Sessions -> BOOLEAN] /\ pClosing \in [Sessions -> BOOLEAN]
  /\ outcome \in [Sessions -> Outcomes]
  /\ up \in [Sessions -> BOOLEAN]
  /\ mOpen \in [Sessions -> BOOLEAN] /\ pOpen \in [Sessions -> BOOLEAN]
  /\ toP \in [Sessions -> Seq(ToPhone)]
  /\ toM \in [Sessions -> Seq(ToMachine)]

(* A key is added to the volume only for a key holder that proved the code *)
(* and that the operator agreed to, --yes aside: a stranger who reaches    *)
(* the port gets a challenge and a rejection (runPairOnce).                *)
NothingWithoutConsent == \A s \in Sessions :
  "new" \in entry[s] \ before[s] => s \in proved /\ (s \in agreed \/ assumeYes)

(* A phone told that it is enrolled is, with this key alone, and stays so  *)
(* while the window lasts.                                                 *)
ToldEnrolledIsEnrolled == \A s \in Sessions :
  outcome[s] = "enrolled" => entry[s] = {"new"}

(* A phone told that the operator said no has not been enrolled by this    *)
(* window, by no earlier attempt of it either, whose reply may have been   *)
(* lost (the retry finds the key already there, planAlready).              *)
DeclinedIsNotEnrolled == \A s \in Sessions :
  outcome[s] = "declined" => "new" \notin entry[s]

(* Replacing a key leaves "never a moment with neither" (runPairOnce), and *)
(* an attempt that fails takes nothing away, short of losing the token.    *)
NeverWithNeither == \A s \in Sessions :
  before[s] # {} => entry[s] # {} \/ tokenGone

(* "paired. The key holder can now unlock this volume." is printed only if *)
(* one that proved the code is enrolled (runPair).                         *)
PairedMeansEnrolled ==
  mpc = "paired" => \E s \in proved : entry[s] = {"new"}

(* The window accepts one key holder: of those that answer one code, at    *)
(* most one is told that it has been enrolled, in whatever order they      *)
(* dial, fail and come back (runPair).                                     *)
OneHolderPerWindow == \A s, t \in Sessions :
  outcome[s] = "enrolled" /\ outcome[t] = "enrolled" => s = t

(* The command ends: no silent, absent or persistent key holder holds the  *)
(* window, and only an operator who never answers can keep it waiting      *)
(* (pairRequestTimeout, --timeout).                                        *)
PairEnds == <>(mpc \in Ended) \/ <>[](mpc = "ask")

(* Pair returns whatever the machine, its operator and the network do.     *)
PhoneEnds == \A s \in Sessions : (ppc[s] \in Running) ~> (ppc[s] = "over")

-----------------------------------------------------------------------------
(* Why the safety properties are invariant. *)

(* A right proof is one that was sent; nobody is asked about another, or   *)
(* about a key the token holds; and the answer comes before the enrolment. *)
ConsentGiven ==
  /\ \A s \in Sessions : Request("right") \in InFlight(toM[s]) => s \in proved
  /\ mpc \in Judging /\ req = "right" => peer \in proved
  /\ mpc \in {"ask", "enrol", "revoke"} => req = "right"
  /\ mpc \in {"ask", "enrol"} => "new" \notin entry[peer]
  /\ mpc \in {"enrol", "revoke"} => peer \in agreed \/ assumeYes
  /\ mpc = "revoke" => "new" \in entry[peer]

Pending(s, r) == Result(r) \in InFlight(toP[s])

(* What is told, or about to be, of a key holder agrees with the header.   *)
RepliesAgree ==
  /\ reply = "ok" => peer \in proved /\ entry[peer] = {"new"}
  /\ reply = "declined" => "new" \notin entry[peer]
  /\ \A s \in Sessions :
       /\ Pending(s, "ok") => entry[s] = {"new"}
       /\ Pending(s, "declined") => "new" \notin entry[s]
       /\ outcome[s] # "none" => ppc[s] = "over"
       /\ (Pending(s, "declined") \/ outcome[s] = "declined") /\ peer = s => mpc = "linger"

(* An "ok" that has been written is the last thing the command does.       *)
ToldOk(s) == Pending(s, "ok") \/ outcome[s] = "enrolled"
OkIsFinal ==
  /\ \A s \in Sessions :
       ToldOk(s) => \/ mpc = "linger" /\ peer = s /\ reply = "ok"
                   \/ mpc \in {"paired", "killed"}
  /\ \A s, t \in Sessions : ToldOk(s) /\ ToldOk(t) => s = t

(* The inductive invariant: what runPairOnce has established, what is in   *)
(* flight and what the phones were told agree with the token.              *)
IInv ==
  /\ TypeOK
  /\ ConsentGiven
  /\ RepliesAgree
  /\ OkIsFinal
  /\ NothingWithoutConsent
  /\ ToldEnrolledIsEnrolled
  /\ DeclinedIsNotEnrolled
  /\ NeverWithNeither
  /\ PairedMeansEnrolled
=============================================================================
