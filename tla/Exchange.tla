------------------------------ MODULE Exchange ------------------------------
(***************************************************************************)
(* One volume, the machine's agent that waits to unlock it, and the key    *)
(* holders' sessions that dial it.                                         *)
(*                                                                         *)
(* Machine: cmd/synctang-unlocker, the agent loop, serveOneExchange and    *)
(* runExchange.  Key holder: mobile.Session (Connect, AnswerWithScalar,    *)
(* Decline, Cancel, Close).  Between them is a connection that can die     *)
(* without either end noticing: a write into it is accepted and goes       *)
(* nowhere.                                                                *)
(*                                                                         *)
(* Every timer of the code is an action that may happen whenever the       *)
(* timer is armed, so the checks cover every relative speed of the two     *)
(* sides, the timers and the human.                                        *)
(***************************************************************************)
EXTENDS Link

CONSTANTS
  NoSession,    \* the agent has no connection
  Challenges,   \* challenge points X = C + E; a new e makes another one
  NoChallenge,  \* no challenge has been made, or received
  Prompts,      \* which ask-password requests can be pending, see PromptKinds
  Holdings,     \* which of Enrolments the sessions may have
  Faults,       \* which of FaultKinds may happen, to bound what TLC explores
  OneShot       \* TRUE: "synctang-unlocker open", FALSE: the boot-time agent

(* A pending request that names this volume, one whose Id the agent does   *)
(* not understand, of whichever volume, and one that names another volume. *)
PromptKinds == {"own", "vague", "other"}

(* What the token and the key holder's storage hold for a session:         *)
(*   live        one recipient, the key holder's key, a live keyslot       *)
(*   otherKey    one recipient, but enrolled with a key since replaced     *)
(*   deadSlot    one recipient, whose keyslot was killed                   *)
(*   duplicate   two recipients with this transport id                     *)
(*   mismatched  the phone's scalar is not that of its public point        *)
Enrolments == {"live", "otherKey", "deadSlot", "duplicate", "mismatched"}

(* The network dies, the transport joins only one end, a process dies or   *)
(* is told to stop, the person cancels.  The timers are always there.      *)
FaultKinds == {"linkDies", "lonelyEnd", "killed", "stop", "cancel"}

ASSUME ConstantsAssumption ==
  /\ NoSession \notin Sessions
  /\ Challenges # {} /\ NoChallenge \notin Challenges
  /\ Prompts \subseteq PromptKinds
  /\ Holdings \subseteq Enrolments /\ Holdings # {}
  /\ Faults \subseteq FaultKinds
  /\ OneShot \in BOOLEAN

VARIABLES
  mpc,        \* where the agent is in its loop
  peer,       \* the session at the other end of its connection
  chal,       \* the challenge of the exchange under way (e and X)
  resp,       \* the RecoverResponse it read
  verdict,    \* the outcome report() was called with
  stopping,   \* the agent's ctx is done (SIGTERM, or open's --timeout)
  prompts,    \* the ask-password requests pending
  opened,     \* the volume has been opened
  sentTo,     \* the requests sent key material, with the session it is of (history)
  enrolled,   \* the session's Enrolments value, fixed
  spc,        \* where the session is
  x,          \* Session.x, the challenge it holds
  answered,   \* Session.answered
  cancelled,  \* Session.cancelled
  ctxDone,    \* the ctx of the session's Connect is done
  outcome,    \* how the attempt ended for the person
  settled,    \* what the machine did with the session's answer (history)
  disturbed   \* something other than the peer ended a wait (history)

agentVars == <<mpc, peer, chal, resp, verdict, stopping>>
volumeVars == <<prompts, opened, sentTo>>
sessionVars == <<spc, x, answered, cancelled, ctxDone, outcome>>
historyVars == <<settled, disturbed>>
vars == <<agentVars, volumeVars, enrolled, sessionVars, linkVars, historyVars>>

NoAnswer == [type |-> "none"]
Hello == [type |-> "hello"]
Request(c) == [type |-> "request", x |-> c]
Result(ok) == [type |-> "result", ok |-> ok]
Answer(c, key) == [type |-> "answer", x |-> c, key |-> key]
Declined == [type |-> "declined"]

ToPhone == {Hello} \cup {Request(c) : c \in Challenges} \cup {Result(ok) : ok \in BOOLEAN}
ToMachine == {Answer(c, key) : c \in Challenges, key \in {"right", "wrong"}} \cup {Declined}

AgentSteps == {"rest", "listen", "greet", "request", "await", "finish",
               "verify", "deliver", "report", "linger", "stopped", "crashed"}
InExchange == AgentSteps \ {"rest", "listen", "stopped", "crashed"}

SessionSteps == {"new", "dialling", "hello", "request", "returning", "backoff",
                 "failed", "ready", "verdict", "over", "done", "closed"}
(* Connect is running and has armed Cancel and its deadline. *)
Connecting == {"dialling", "hello", "request", "returning", "backoff"}
(* Connect is running on a connection that its ctx closes. *)
Reading == {"hello", "request", "returning"}

Outcomes == {"nothing", "unlocked", "rejected", "unknown", "hungUp",
             "keyMismatch", "declined", "unreachable", "cancelled"}

-----------------------------------------------------------------------------
(* The connection (Link) that dies. *)

Mark(s) == disturbed' = [disturbed EXCEPT ![s] = TRUE]

(* The network between the two ends dies, with or without what was in      *)
(* flight.  Neither end is told.                                           *)
LinkDies(s) ==
  /\ "linkDies" \in Faults
  /\ up[s] /\ (mOpen[s] \/ pOpen[s])
  /\ up' = [up EXCEPT ![s] = FALSE]
  /\ \E lostP, lostM \in BOOLEAN :
       /\ toP' = IF lostP THEN [toP EXCEPT ![s] = <<>>] ELSE toP
       /\ toM' = IF lostM THEN [toM EXCEPT ![s] = <<>>] ELSE toM
  /\ Mark(s)
  /\ UNCHANGED <<agentVars, volumeVars, enrolled, sessionVars, mOpen, pOpen, settled>>

-----------------------------------------------------------------------------
(* The transport hands out connections.  The two sides race their legs     *)
(* independently, so an end can also be handed out alone: the other side   *)
(* settled on a different leg and has closed, or abandoned, this one.      *)

Establish(s) ==
  /\ mpc = "listen" /\ ~stopping
  /\ spc[s] = "dialling" /\ ~ctxDone[s]
  /\ FreshLink(s, TRUE, TRUE)
  /\ mpc' = "greet" /\ peer' = s
  /\ spc' = [spc EXCEPT ![s] = "hello"]
  /\ UNCHANGED <<chal, resp, verdict, stopping, volumeVars, enrolled,
                 x, answered, cancelled, ctxDone, outcome, historyVars>>

MachineEndOnly(s) ==
  /\ "lonelyEnd" \in Faults
  /\ mpc = "listen" /\ ~stopping
  /\ spc[s] = "dialling"
  /\ FreshLink(s, TRUE, FALSE)
  /\ mpc' = "greet" /\ peer' = s
  /\ UNCHANGED <<chal, resp, verdict, stopping, volumeVars, enrolled, sessionVars, historyVars>>

(* The machine's end may be left open by nobody in particular: an accepted *)
(* connection no one reads.  Only while the agent is not itself still on   *)
(* an older connection of s.                                               *)
PhoneEndOnly(s) ==
  /\ "lonelyEnd" \in Faults
  /\ spc[s] = "dialling" /\ ~ctxDone[s] /\ peer # s
  /\ \E m \in BOOLEAN : FreshLink(s, m, TRUE)
  /\ spc' = [spc EXCEPT ![s] = "hello"]
  /\ UNCHANGED <<agentVars, volumeVars, enrolled, x, answered, cancelled, ctxDone,
                 outcome, historyVars>>

-----------------------------------------------------------------------------
(* The agent. *)

(* The top of the loop: read the header and the token, and listen.  A      *)
(* header that cannot be read, or a token that names nobody, is reported,  *)
(* and the loop goes round again.                                          *)
StartAttempt ==
  /\ mpc = "rest"
  /\ mpc' \in IF stopping THEN {"stopped"} ELSE {"listen", "rest"}
  /\ UNCHANGED <<peer, chal, resp, verdict, stopping, volumeVars, enrolled,
                 sessionVars, linkVars, historyVars>>

(* Listen fails, or its ctx ends.  Only the ctx ends the loop.             *)
ListenEnds ==
  /\ mpc = "listen"
  /\ mpc' = "rest"
  /\ UNCHANGED <<peer, chal, resp, verdict, stopping, volumeVars, enrolled,
                 sessionVars, linkVars, historyVars>>

(* Mutant of HangUp: "open" ends with its first exchange, however it went. *)
HangUpForGood(success) ==
  /\ MachineCloses(peer)
  /\ mpc' = IF OneShot THEN "stopped" ELSE "rest"
  /\ peer' = NoSession /\ resp' = NoAnswer /\ verdict' = FALSE

(* runExchange returns: serveOneExchange's deferred Close, then the loop   *)
(* goes round, except that "open" ends after a success.  A connection that *)
(* the timer or the ctx has closed already is closed twice, which ends the *)
(* process when it came over the relay.                                    *)
HangUp(success) ==
  /\ MachineCloses(peer)
  /\ \/ mpc' = IF success /\ OneShot THEN "stopped" ELSE "rest"
     \/ ClosingAgainPanics(peer) /\ mpc' = "crashed"
  /\ peer' = NoSession
  /\ resp' = NoAnswer
  /\ verdict' = FALSE

(* Mutant of SendHello: the first of two recipients sharing a transport id *)
(* is taken, as an earlier version of matchRecipient did.                  *)
SendHelloToAnyone ==
  /\ mpc = "greet"
  /\ \/ MachineWrites(peer, Hello) /\ mpc' = "request" /\ UNCHANGED <<peer, resp, verdict, mOpen>>
     \/ ~Deliverable(peer) /\ HangUp(FALSE)
  /\ UNCHANGED <<chal, stopping, volumeVars, enrolled, sessionVars, up, pOpen, toM, historyVars>>

(* matchRecipient refuses a transport id that two recipients share before  *)
(* anything is sent; otherwise Hello goes out.                             *)
SendHello ==
  /\ mpc = "greet"
  /\ \/ /\ enrolled[peer] # "duplicate"
        /\ MachineWrites(peer, Hello)
        /\ mpc' = "request"
        /\ UNCHANGED <<peer, resp, verdict, mOpen>>
     \/ /\ enrolled[peer] = "duplicate" \/ ~Deliverable(peer)
        /\ HangUp(FALSE)
  /\ UNCHANGED <<chal, stopping, volumeVars, enrolled, sessionVars, up, pOpen, toM, historyVars>>

(* Mutant of SendRequest: the request carries the previous challenge. *)
SendStaleRequest ==
  /\ mpc = "request"
  /\ \E c \in Challenges :
       /\ c # chal \/ Challenges = {chal}
       /\ chal' = c
       /\ \/ /\ MachineWrites(peer, Request(chal))
             /\ mpc' = "await"
             /\ UNCHANGED <<peer, resp, verdict, mOpen>>
          \/ ~Deliverable(peer) /\ HangUp(FALSE)
  /\ UNCHANGED <<stopping, volumeVars, enrolled, sessionVars, up, pOpen, toM, historyVars>>

(* ChallengeStart draws a fresh e, so X differs from the one before. *)
SendRequest ==
  /\ mpc = "request"
  /\ \E c \in Challenges :
       /\ c # chal \/ Challenges = {chal}
       /\ chal' = c
       /\ \/ /\ MachineWrites(peer, Request(c))
             /\ mpc' = "await"
             /\ UNCHANGED <<peer, resp, verdict, mOpen>>
          \/ ~Deliverable(peer) /\ HangUp(FALSE)
  /\ UNCHANGED <<stopping, volumeVars, enrolled, sessionVars, up, pOpen, toM, historyVars>>

ReadResponse ==
  /\ mpc = "await"
  /\ \E m \in ToMachine :
       /\ MachineReads(peer, m)
       /\ \/ /\ m.type = "answer"
             /\ resp' = m
             /\ mpc' = "finish"
             /\ UNCHANGED <<peer, verdict, mOpen, toP>>
          \/ m.type = "declined" /\ HangUp(FALSE)
  /\ UNCHANGED <<chal, stopping, volumeVars, enrolled, sessionVars, up, pOpen, historyVars>>

ReadResponseFails ==
  /\ mpc = "await"
  /\ MachineReadFails(peer)
  /\ HangUp(FALSE)
  /\ UNCHANGED <<chal, stopping, volumeVars, enrolled, sessionVars, up, pOpen, historyVars>>

(* Mutant of Settles: the key holder is told of success in any case. *)
SettlesOnlyGoodNews(ok) ==
  /\ verdict' = TRUE
  /\ settled' = [settled EXCEPT ![peer] = IF ok THEN "delivered" ELSE "refused"]
  /\ mpc' = "report"

(* report(): remember what the key holder is to be told. *)
Settles(ok) ==
  /\ verdict' = ok
  /\ settled' = [settled EXCEPT ![peer] = IF ok THEN "delivered" ELSE "refused"]
  /\ mpc' = "report"

(* FinishXOnly: the AEAD opens only for this challenge and the key this    *)
(* recipient was enrolled with.                                            *)
Opens(r) == r.x = chal /\ r.key = "right"

Finish ==
  /\ mpc = "finish"
  /\ \/ Opens(resp) /\ mpc' = "verify" /\ UNCHANGED <<verdict, settled>>
     \/ ~Opens(resp) /\ Settles(FALSE)
  /\ UNCHANGED <<peer, chal, resp, stopping, volumeVars, enrolled, sessionVars,
                 linkVars, disturbed>>

(* cryptsetup --test-passphrase against the header as it is now.  It can   *)
(* fail for reasons of its own, which are reported like a wrong secret.    *)
VerifyPassphrase ==
  /\ mpc = "verify"
  /\ \/ enrolled[peer] # "deadSlot" /\ mpc' = "deliver" /\ UNCHANGED <<verdict, settled>>
     \/ Settles(FALSE)
  /\ UNCHANGED <<peer, chal, resp, stopping, volumeVars, enrolled, sessionVars,
                 linkVars, disturbed>>

(* selectAskRequest: the request that names the volume, else the first. *)
Chosen(p) == p \in prompts /\ ("own" \in prompts => p = "own")

(* Mutant of AnswerAskPassword: a failed send is taken for a delivery. *)
AnswerAskPasswordUnchecked ==
  /\ mpc = "deliver" /\ ~OneShot
  /\ Settles(TRUE)
  /\ UNCHANGED <<volumeVars, peer, chal, resp, stopping, enrolled, sessionVars, linkVars, disturbed>>

(* Whoever waits behind the request p may or may not open this volume with *)
(* the secret sent there; another volume's prompt cannot.                  *)
MayOpen(p) == opened' = opened \/ (p # "other" /\ opened' = TRUE)

(* The agent's deliver: answerAskPasswordFor.  Sending to a request can    *)
(* fail, its socket gone; having sent is success, whatever the volume that *)
(* the request is for makes of it.                                         *)
AnswerAskPassword ==
  /\ mpc = "deliver" /\ ~OneShot
  /\ \/ \E p \in Prompts :
          /\ Chosen(p)
          /\ prompts' = prompts \ {p}
          /\ sentTo' = sentTo \cup {<<p, peer>>}
          /\ MayOpen(p)
          /\ Settles(TRUE)
     \/ Settles(FALSE) /\ UNCHANGED volumeVars
  /\ UNCHANGED <<peer, chal, resp, stopping, enrolled, sessionVars, linkVars, disturbed>>

(* The deliver of "open": cryptsetup open, which fails on an open volume. *)
OpenVolume ==
  /\ mpc = "deliver" /\ OneShot
  /\ \/ ~opened /\ opened' = TRUE /\ Settles(TRUE)
     \/ Settles(FALSE) /\ UNCHANGED opened
  /\ UNCHANGED <<peer, chal, resp, stopping, prompts, sentTo, enrolled, sessionVars,
                 linkVars, disturbed>>

(* Mutant of Report: no waitForPeerClose, the verdict goes with the close. *)
ReportAndHangUp ==
  /\ mpc = "report"
  /\ HangUp(verdict)
  /\ UNCHANGED <<chal, stopping, volumeVars, enrolled, sessionVars, up, pOpen, toM, historyVars>>

Report ==
  /\ mpc = "report"
  /\ MachineWrites(peer, Result(verdict)) \/ MachineWriteFails(peer)
  /\ mpc' = "linger"
  /\ UNCHANGED <<peer, chal, resp, verdict, stopping, volumeVars, enrolled,
                 sessionVars, up, mOpen, pOpen, toM, historyVars>>

(* waitForPeerClose: anything still arriving is read and ignored. *)
LingerReads ==
  /\ mpc = "linger"
  /\ \E m \in ToMachine : MachineReads(peer, m)
  /\ UNCHANGED <<agentVars, volumeVars, enrolled, sessionVars, up, mOpen, pOpen, toP, historyVars>>

PeerClosed ==
  /\ mpc = "linger"
  /\ MachineReadFails(peer)
  /\ HangUp(verdict)
  /\ UNCHANGED <<chal, stopping, volumeVars, enrolled, sessionVars, up, pOpen, historyVars>>

LingerTimeout ==
  /\ mpc = "linger"
  /\ HangUp(verdict)
  /\ Mark(peer)
  /\ UNCHANGED <<chal, stopping, volumeVars, enrolled, sessionVars, up, pOpen, toM, settled>>

(* Mutant of ExchangeTimeout: nothing closes the connection. *)
ExchangeTimeoutNever == mpc = "none" /\ UNCHANGED vars

(* exchangeTimeout closes the connection under the exchange, which then    *)
(* runs on: a verification or delivery under way is not stopped.           *)
ExchangeTimeout ==
  /\ mpc \in InExchange /\ mOpen[peer]
  /\ MachineCloses(peer)
  /\ Mark(peer)
  /\ UNCHANGED <<agentVars, volumeVars, enrolled, sessionVars, up, pOpen, toM, settled>>

StopAgent ==
  /\ "stop" \in Faults
  /\ mpc \notin {"stopped", "crashed"} /\ ~stopping
  /\ stopping' = TRUE
  /\ \/ mpc \in InExchange /\ MachineCloses(peer) /\ Mark(peer)
     \/ mpc \notin InExchange /\ UNCHANGED <<mOpen, toP, disturbed>>
  /\ UNCHANGED <<mpc, peer, chal, resp, verdict, volumeVars, enrolled, sessionVars,
                 up, pOpen, toM, settled>>

-----------------------------------------------------------------------------
(* The prompts of this and other volumes come and go by themselves: they   *)
(* time out, are asked again, or are answered at the console.              *)

PromptAppears(p) ==
  /\ p \notin prompts
  /\ p = "own" => ~opened
  /\ prompts' = prompts \cup {p}
  /\ UNCHANGED <<agentVars, opened, sentTo, enrolled, sessionVars, linkVars, historyVars>>

PromptGoes(p) ==
  /\ p \in prompts
  /\ prompts' = prompts \ {p}
  /\ MayOpen(p)
  /\ UNCHANGED <<agentVars, sentTo, enrolled, sessionVars, linkVars, historyVars>>

-----------------------------------------------------------------------------
(* The key holder: Session.Connect.  The app makes one Session per attempt *)
(* and calls Connect once.                                                 *)

Goto(s, step) == spc' = [spc EXCEPT ![s] = step]
Ends(s, how) == outcome' = [outcome EXCEPT ![s] = how]

(* armCancel refuses when Cancel came first: nothing is dialled. *)
Connect(s) ==
  /\ spc[s] = "new"
  /\ \/ cancelled[s] /\ Goto(s, "failed") /\ Ends(s, "cancelled")
     \/ ~cancelled[s] /\ Goto(s, "dialling") /\ UNCHANGED outcome
  /\ UNCHANGED <<agentVars, volumeVars, enrolled, x, answered, cancelled, ctxDone,
                 linkVars, historyVars>>

DialFails(s) ==
  /\ spc[s] = "dialling"
  /\ Goto(s, "backoff")
  /\ UNCHANGED <<agentVars, volumeVars, enrolled, x, answered, cancelled, ctxDone,
                 outcome, linkVars, historyVars>>

ReadHello(s) ==
  /\ spc[s] = "hello"
  /\ PhoneReads(s, Hello)
  /\ Goto(s, "request")
  /\ UNCHANGED <<agentVars, volumeVars, enrolled, x, answered, cancelled, ctxDone,
                 outcome, up, mOpen, pOpen, toM, historyVars>>

ReadRequest(s) ==
  /\ spc[s] = "request"
  /\ \E c \in Challenges :
       /\ PhoneReads(s, Request(c))
       /\ x' = [x EXCEPT ![s] = c]
  /\ Goto(s, "returning")
  /\ UNCHANGED <<agentVars, volumeVars, enrolled, answered, cancelled, ctxDone,
                 outcome, up, mOpen, pOpen, toM, historyVars>>

(* closeLocked: a failed read leaves no connection behind. *)
ConnectReadFails(s) ==
  /\ spc[s] \in {"hello", "request"}
  /\ PhoneReadFails(s)
  /\ PhoneCloses(s)
  /\ Goto(s, "backoff")
  /\ UNCHANGED <<agentVars, volumeVars, enrolled, x, answered, cancelled, ctxDone,
                 outcome, up, mOpen, toM, historyVars>>

(* Between attempts Connect looks at Cancel, then at its deadline. *)
RetryConnect(s) ==
  /\ spc[s] = "backoff"
  /\ \/ cancelled[s] /\ Goto(s, "failed") /\ Ends(s, "cancelled")
     \/ ~cancelled[s] /\ ctxDone[s] /\ Goto(s, "failed") /\ Ends(s, "unreachable")
     \/ ~cancelled[s] /\ ~ctxDone[s] /\ Goto(s, "dialling") /\ UNCHANGED outcome
  /\ UNCHANGED <<agentVars, volumeVars, enrolled, x, answered, cancelled, ctxDone,
                 linkVars, historyVars>>

(* Connect returns nil once it holds a request, even if it was cancelled   *)
(* or ran out of time, its connection closed under it, a moment before.    *)
ConnectReturns(s) ==
  /\ spc[s] = "returning"
  /\ Goto(s, "ready")
  /\ UNCHANGED <<agentVars, volumeVars, enrolled, x, answered, cancelled, ctxDone,
                 outcome, linkVars, historyVars>>

(* Mutant of EndCtx: no AfterFunc closes the connection under the reads. *)
EndCtxOnly(s) ==
  /\ ctxDone' = [ctxDone EXCEPT ![s] = TRUE]
  /\ UNCHANGED <<pOpen, toP, disturbed>>

(* The ctx of a running Connect ends: whatever it is reading from closes. *)
EndCtx(s) ==
  /\ ctxDone' = [ctxDone EXCEPT ![s] = TRUE]
  /\ \/ spc[s] \in Reading /\ PhoneCloses(s) /\ Mark(s)
     \/ spc[s] \notin Reading /\ UNCHANGED <<pOpen, toP, disturbed>>

ConnectDeadline(s) ==
  /\ spc[s] \in Connecting /\ ~ctxDone[s]
  /\ EndCtx(s)
  /\ UNCHANGED <<agentVars, volumeVars, enrolled, spc, x, answered, cancelled,
                 outcome, up, mOpen, toM, settled>>

(* Cancel interrupts a running Connect and stops a later one.  It leaves a *)
(* connection that Connect has returned alone.                             *)
Cancel(s) ==
  /\ "cancel" \in Faults
  /\ ~cancelled[s]
  /\ cancelled' = [cancelled EXCEPT ![s] = TRUE]
  /\ \/ spc[s] \in Connecting /\ EndCtx(s)
     \/ spc[s] \notin Connecting /\ UNCHANGED <<ctxDone, pOpen, toP, disturbed>>
  /\ UNCHANGED <<agentVars, volumeVars, enrolled, spc, x, answered, outcome, up, mOpen,
                 toM, settled>>

-----------------------------------------------------------------------------
(* AnswerWithScalar, Decline, Close. *)

(* The person approves and the key is unwrapped.  A scalar that is not the *)
(* one the public point belongs to answers nothing.                        *)
AnswerWithScalar(s) ==
  /\ spc[s] = "ready"
  /\ \/ /\ enrolled[s] = "mismatched"
        /\ Goto(s, "over") /\ Ends(s, "keyMismatch")
        /\ UNCHANGED <<answered, toM>>
     \/ /\ enrolled[s] # "mismatched" /\ ~answered[s]
        /\ PhoneWrites(s, Answer(x[s], IF enrolled[s] = "otherKey" THEN "wrong" ELSE "right"))
        /\ answered' = [answered EXCEPT ![s] = TRUE]
        /\ Goto(s, "verdict")
        /\ UNCHANGED outcome
     \/ /\ enrolled[s] # "mismatched" /\ ~answered[s]
        /\ PhoneWriteFails(s)
        /\ Goto(s, "over") /\ Ends(s, "hungUp")
        /\ UNCHANGED answered
  /\ UNCHANGED <<agentVars, volumeVars, enrolled, x, cancelled, ctxDone, up, mOpen, pOpen,
                 toP, historyVars>>

ReadVerdict(s) ==
  /\ spc[s] = "verdict"
  /\ \E ok \in BOOLEAN :
       /\ PhoneReads(s, Result(ok))
       /\ Ends(s, IF ok THEN "unlocked" ELSE "rejected")
  /\ Goto(s, "over")
  /\ UNCHANGED <<agentVars, volumeVars, enrolled, x, answered, cancelled, ctxDone,
                 up, mOpen, pOpen, toM, historyVars>>

(* Mutant of VerdictLost: success on the strength of the write, as the app *)
(* once reported it.                                                       *)
VerdictAssumed(s) ==
  /\ spc[s] = "verdict"
  /\ PhoneReadFails(s)
  /\ Goto(s, "over") /\ Ends(s, "unlocked")
  /\ UNCHANGED <<agentVars, volumeVars, enrolled, x, answered, cancelled, ctxDone,
                 linkVars, historyVars>>

VerdictLost(s) ==
  /\ spc[s] = "verdict"
  /\ PhoneReadFails(s)
  /\ Goto(s, "over") /\ Ends(s, "unknown")
  /\ UNCHANGED <<agentVars, volumeVars, enrolled, x, answered, cancelled, ctxDone,
                 linkVars, historyVars>>

(* Mutant of ReplyTimeout: the wait for the verdict has no bound. *)
ReplyTimeoutNever(s) == spc[s] = "none" /\ UNCHANGED vars

ReplyTimeout(s) ==
  /\ spc[s] = "verdict" /\ pOpen[s]
  /\ PhoneCloses(s)
  /\ Mark(s)
  /\ UNCHANGED <<agentVars, volumeVars, enrolled, sessionVars, up, mOpen, toM, settled>>

(* Decline refuses a request, and does not look whether it was answered:   *)
(* the app also declines after an answer that failed on the phone, and a   *)
(* person's cancel that waited for the answer to end.                      *)
Decline(s) ==
  /\ spc[s] \in {"ready", "over"}
  /\ \/ PhoneWrites(s, Declined) /\ answered' = [answered EXCEPT ![s] = TRUE]
     \/ PhoneWriteFails(s) /\ UNCHANGED answered
  /\ Goto(s, "done")
  /\ \/ spc[s] = "ready" /\ Ends(s, "declined")
     \/ spc[s] = "over" /\ UNCHANGED outcome
  /\ UNCHANGED <<agentVars, volumeVars, enrolled, x, cancelled, ctxDone, up, mOpen, pOpen,
                 toP, historyVars>>

(* Close waits for a running call; a running Connect is cancelled first,   *)
(* which is the Cancel action.                                             *)
Close(s) ==
  /\ spc[s] \in {"new", "failed", "ready", "over", "done"}
  /\ Goto(s, "closed")
  /\ cancelled' = [cancelled EXCEPT ![s] = TRUE]
  /\ PhoneCloses(s)
  /\ UNCHANGED <<agentVars, volumeVars, enrolled, x, answered, ctxDone, outcome,
                 up, mOpen, toM, historyVars>>

(* The app dies, and its connection with it. *)
Killed(s) ==
  /\ "killed" \in Faults
  /\ spc[s] # "closed"
  /\ Goto(s, "closed")
  /\ PhoneCloses(s)
  /\ Mark(s)
  /\ UNCHANGED <<agentVars, volumeVars, enrolled, x, answered, cancelled, ctxDone, outcome,
                 up, mOpen, toM, settled>>

-----------------------------------------------------------------------------
Init ==
  /\ mpc = "rest" /\ peer = NoSession
  /\ chal = NoChallenge
  /\ resp = NoAnswer /\ verdict = FALSE /\ stopping = FALSE
  /\ prompts = Prompts \cap {"own", "other"} /\ opened = FALSE /\ sentTo = {}
  /\ enrolled \in [Sessions -> Holdings]
  /\ spc = [s \in Sessions |-> "new"]
  /\ x = [s \in Sessions |-> NoChallenge]
  /\ answered = [s \in Sessions |-> FALSE]
  /\ cancelled = [s \in Sessions |-> FALSE]
  /\ ctxDone = [s \in Sessions |-> FALSE]
  /\ outcome = [s \in Sessions |-> "nothing"]
  /\ up = [s \in Sessions |-> FALSE]
  /\ mOpen = [s \in Sessions |-> FALSE]
  /\ pOpen = [s \in Sessions |-> FALSE]
  /\ toP = [s \in Sessions |-> <<>>]
  /\ toM = [s \in Sessions |-> <<>>]
  /\ settled = [s \in Sessions |-> "open"]
  /\ disturbed = [s \in Sessions |-> FALSE]

(* What the agent's goroutine does by itself, its linger timer included.   *)
AgentStep ==
  \/ StartAttempt \/ ListenEnds
  \/ SendHello \/ SendRequest \/ ReadResponse \/ ReadResponseFails
  \/ Finish \/ VerifyPassphrase \/ AnswerAskPassword \/ OpenVolume \/ Report
  \/ LingerReads \/ PeerClosed \/ LingerTimeout

(* What a session does once called, without the person or a timer. *)
SessionStep(s) ==
  \/ DialFails(s) \/ ReadHello(s) \/ ReadRequest(s) \/ ConnectReadFails(s)
  \/ RetryConnect(s) \/ ConnectReturns(s) \/ ReadVerdict(s) \/ VerdictLost(s)

Person(s) ==
  \/ Connect(s) \/ Cancel(s) \/ AnswerWithScalar(s) \/ Decline(s) \/ Close(s)

Network(s) ==
  \/ Establish(s) \/ MachineEndOnly(s) \/ PhoneEndOnly(s) \/ LinkDies(s)

Next ==
  \/ AgentStep \/ ExchangeTimeout \/ StopAgent
  \/ \E p \in Prompts : PromptAppears(p) \/ PromptGoes(p)
  \/ \E s \in Sessions :
       \/ Person(s) \/ SessionStep(s) \/ Network(s)
       \/ ConnectDeadline(s) \/ ReplyTimeout(s) \/ Killed(s)

Spec == Init /\ [][Next]_vars

(* A read from a connection that has died may never return: nothing says   *)
(* that this end will ever notice.  Nor is it said that a header can ever  *)
(* be read, or that a Listen nobody answers fails.                         *)
AgentMayWait ==
  \/ mpc = "await" /\ mOpen[peer] /\ ~up[peer] /\ toM[peer] = <<>>
  \/ mpc \in {"rest", "listen"} /\ ~stopping
SessionReadsDeadLink(s) ==
  spc[s] \in {"hello", "request", "verdict"} /\ pOpen[s] /\ ~up[s] /\ toP[s] = <<>>

(* Goroutines are scheduled and timers fire.  Nothing is assumed of the    *)
(* person, the network, the prompts or the process's survival.             *)
FairSpec ==
  /\ Spec
  /\ WF_vars(~AgentMayWait /\ AgentStep)
  /\ WF_vars(ExchangeTimeout)
  /\ \A s \in Sessions :
       /\ WF_vars(~SessionReadsDeadLink(s) /\ SessionStep(s))
       /\ WF_vars(ConnectDeadline(s))
       /\ WF_vars(ReplyTimeout(s))

-----------------------------------------------------------------------------
(* Properties. *)

(* Every variable stays in its type; messages are only of the four kinds   *)
(* of the wire protocol (mrcore/wire.go), each in its own direction.       *)
TypeOK ==
  /\ mpc \in AgentSteps
  /\ peer \in Sessions \cup {NoSession}
  /\ mpc \in InExchange <=> peer \in Sessions
  /\ chal \in Challenges \cup {NoChallenge}
  /\ resp \in ToMachine \cup {NoAnswer}
  /\ verdict \in BOOLEAN /\ stopping \in BOOLEAN
  /\ prompts \subseteq Prompts /\ opened \in BOOLEAN /\ sentTo \subseteq Prompts \X Sessions
  /\ enrolled \in [Sessions -> Enrolments]
  /\ spc \in [Sessions -> SessionSteps]
  /\ x \in [Sessions -> Challenges \cup {NoChallenge}]
  /\ answered \in [Sessions -> BOOLEAN]
  /\ cancelled \in [Sessions -> BOOLEAN]
  /\ ctxDone \in [Sessions -> BOOLEAN]
  /\ outcome \in [Sessions -> Outcomes]
  /\ up \in [Sessions -> BOOLEAN]
  /\ mOpen \in [Sessions -> BOOLEAN]
  /\ pOpen \in [Sessions -> BOOLEAN]
  /\ toP \in [Sessions -> Seq(ToPhone)]
  /\ toM \in [Sessions -> Seq(ToMachine)]
  /\ settled \in [Sessions -> {"open", "delivered", "refused"}]
  /\ disturbed \in [Sessions -> BOOLEAN]

(* A person told "unlocked" was told so because the machine delivered the  *)
(* secret recovered from this very answer, and one told the machine could  *)
(* not use the answer was not lied to either: whatever died in between,    *)
(* the doubtful cases are reported as unknown (answerXOnly, report).       *)
VerdictTruthful == \A s \in Sessions :
  /\ outcome[s] = "unlocked" => settled[s] = "delivered"
  /\ outcome[s] = "rejected" => settled[s] = "refused"

(* Nothing is delivered for a key holder that did not approve, that        *)
(* declined, or whose enrolment is not the one live entry of its transport *)
(* id with an open keyslot (matchRecipient, FinishXOnly, verifyPassphrase).*)
DeliveredOnlyForLiveApproval == \A s \in Sessions :
  settled[s] = "delivered" =>
    /\ enrolled[s] = "live"
    /\ answered[s]
    /\ outcome[s] # "declined"

(* The lingering close: if the machine decided and nobody's timer, death   *)
(* or network interfered, the key holder learns the decision.  Closing     *)
(* straight after the write would lose it (report, waitForPeerClose).      *)
VerdictLostOnlyIfDisturbed == \A s \in Sessions :
  outcome[s] = "unknown" => disturbed[s]

(* The session's key is applied to one challenge only: it answers at most  *)
(* once, with the challenge its own connection brought, so an answer the   *)
(* machine reads is for the exchange it is running (answerXOnly).          *)
AnswerIsForThisChallenge ==
  mpc \in {"finish", "verify", "deliver"} => resp.type = "answer" /\ resp.x = chal

(* "open" has opened the volume, or the agent has sent the secret from     *)
(* this session to a request that waited for a passphrase.                 *)
KeySpent(s) == IF OneShot THEN opened ELSE \E p \in Prompts : <<p, s>> \in sentTo

(* A person told "unlocked" was told so because the secret of their own    *)
(* answer was put to use: "open" opened the volume, or the agent sent it   *)
(* to a request that waited for a passphrase.  A prompt that went while    *)
(* they approved, or a socket that refused it, is not reported as success  *)
(* (deliver, answerAskPasswordFor).                                        *)
UnlockedMeansKeySpent == \A s \in Sessions : outcome[s] = "unlocked" => KeySpent(s)

(* "open" gives up only when its time is up: an exchange that fails, or    *)
(* reports a failure, is followed by another (openOnDemand).               *)
OpenEndsOnlyOnSuccess == OneShot /\ mpc = "stopped" => opened \/ stopping

(* A key holder that stops talking does not hold the machine: every        *)
(* exchange ends, though its reads have no deadline, and the agent is back *)
(* at the top of its loop, or gone (exchangeTimeout).                      *)
ExchangeEnds == (mpc \in InExchange) ~> (mpc \notin InExchange)

(* Connect returns, however the machine, the network and Cancel behave.    *)
ConnectEnds == \A s \in Sessions : (spc[s] \in Connecting) ~> (spc[s] \notin Connecting)

(* Whoever sent an answer is told something about it (replyTimeout). *)
AnswerIsSettledForThePerson == \A s \in Sessions :
  (spc[s] = "verdict") ~> (outcome[s] # "nothing" \/ spc[s] = "closed")

-----------------------------------------------------------------------------
(* Why VerdictTruthful is invariant. *)

AnswerPending(s) == \E i \in DOMAIN toM[s] : toM[s][i].type = "answer"
AnswerInUse(s) == peer = s /\ mpc \in {"finish", "verify", "deliver"}
SettledAs(ok) == IF ok THEN "delivered" ELSE "refused"

(* A session holds a challenge when it may answer, has not answered before *)
(* it could, and has been told nothing while it is still waiting.          *)
SessionPhases == \A s \in Sessions :
  /\ spc[s] \in {"returning", "ready"} => x[s] \in Challenges
  /\ spc[s] \in Connecting \cup {"new", "ready", "failed"} => ~answered[s]
  /\ spc[s] \in Connecting \cup {"new", "ready", "verdict"} => outcome[s] = "nothing"

(* An answer is in flight, or in the machine's hands, or decided: one of   *)
(* these at a time, and none of them for a session that declined.          *)
AnsweredOnce == \A s \in Sessions :
  /\ AnswerPending(s) \/ AnswerInUse(s) => settled[s] = "open"
  /\ AnswerPending(s) \/ AnswerInUse(s) \/ settled[s] # "open"
       => answered[s] /\ outcome[s] # "declined"
  /\ ~(AnswerPending(s) /\ AnswerInUse(s))
  /\ \A i, j \in DOMAIN toM[s] :
       toM[s][i].type = "answer" /\ toM[s][j].type = "answer" => i = j

(* What the agent has established about the enrolment at each step. *)
EnrolmentChecked ==
  /\ mpc \in {"request", "await", "finish", "verify", "deliver"} => enrolled[peer] # "duplicate"
  /\ \A s \in Sessions : \A i \in DOMAIN toM[s] :
       toM[s][i].type = "answer" /\ toM[s][i].key = "right"
         => enrolled[s] \notin {"otherKey", "mismatched"}
  /\ mpc = "finish" => resp.type = "answer"
  /\ mpc = "finish" /\ resp.key = "right" => enrolled[peer] \notin {"otherKey", "mismatched"}
  /\ mpc = "verify" => enrolled[peer] \in {"live", "deadSlot"}
  /\ mpc = "deliver" => enrolled[peer] = "live"
  /\ \A s \in Sessions : settled[s] = "delivered" => enrolled[s] = "live"

(* A verdict being reported, or in flight, is the decision taken. *)
VerdictsAgree ==
  /\ mpc \in {"report", "linger"} => settled[peer] = SettledAs(verdict)
  /\ \A s \in Sessions : \A i \in DOMAIN toP[s] :
       toP[s][i].type = "result" => settled[s] = SettledAs(toP[s][i].ok)

(* The inductive invariant behind the safety properties: runExchange and   *)
(* answerXOnly agree about one answer, from its sending to its verdict.    *)
IInv ==
  /\ TypeOK
  /\ SessionPhases
  /\ AnsweredOnce
  /\ EnrolmentChecked
  /\ VerdictsAgree
  /\ VerdictTruthful

(* The exchange keeps the promise of an unlock attempt. *)
Promise == INSTANCE UnlockPromise WITH
  truth <- settled,
  told <- [s \in Sessions |->
             IF outcome[s] \in {"unlocked", "rejected", "unknown"} THEN outcome[s] ELSE "nothing"]
PromiseKept == Promise!Spec
=============================================================================
