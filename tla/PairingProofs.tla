--------------------------- MODULE PairingProofs ----------------------------
(* Proofs about Pairing, for any key holders, start of the token and faults. *)
EXTENDS Pairing, LinkProofs

USE PairingAssumption

MachineAction ==
  \/ MachineStep \/ RequestTimer \/ WindowEnds \/ TimerCloses \/ MachineKilled
  \/ \E yes \in BOOLEAN : OperatorDecides(yes)
PhoneAction(s) ==
  \/ Pair(s) \/ PairAgain(s) \/ Cancel(s) \/ PhoneKilled(s)
  \/ PhoneStep(s) \/ PhoneTimers(s)
NetworkAction(s) == Establish(s) \/ MachineEndOnly(s) \/ PhoneEndOnly(s) \/ LinkDies(s)

(* A step is the machine's, a key holder's, the network's, or a stutter.   *)
LEMMA NextCases ==
  ASSUME [Next]_vars
  PROVE  \/ MachineAction
         \/ \E s \in Sessions : PhoneAction(s) \/ NetworkAction(s)
         \/ UNCHANGED vars
  BY DEF Next, MachineAction, PhoneAction, NetworkAction

(* The messages each side sends are messages of its channel.               *)
LEMMA MessageTypes ==
  /\ Challenge \in ToPhone
  /\ \A r \in Refusals \cup {"ok"} : Result(r) \in ToPhone
  /\ \A k \in ShowKinds : Request(k) \in ToMachine
  BY DEF ToPhone, ToMachine

(* What a message is, its fields tell.                                     *)
LEMMA MessagesDiffer ==
  /\ \A r : Result(r) # Challenge
  /\ \A r, q : Result(r) = Result(q) => r = q
  /\ \A k, j : Request(k) = Request(j) => k = j
<1>1. \A r : Result(r) # Challenge
  BY DEF Result, Challenge
<1>2. ASSUME NEW r, NEW q, Result(r) = Result(q) PROVE r = q
  <2>1. Result(r).reply = r /\ Result(q).reply = q
    BY DEF Result
  <2>2. QED BY <1>2, <2>1
<1>3. ASSUME NEW k, NEW j, Request(k) = Request(j) PROVE k = j
  <2>1. Request(k).shows = k /\ Request(j).shows = j
    BY DEF Request
  <2>2. QED BY <1>3, <2>1
<1>4. QED BY <1>1, <1>2, <1>3

-----------------------------------------------------------------------------
(* Both channels: what a step can put into them. *)

(* Only the machine writes to its peer: a challenge, and the one result.   *)
NewToPhone(s, m) ==
  /\ peer = s
  /\ \/ m = Challenge
     \/ mpc = "tell" /\ mpc' = "linger" /\ reply' = reply /\ peer' = peer /\ m = Result(reply)

(* Only a key holder writes to the machine, and remembers a right proof.   *)
NewToMachine(s, m) == m = Request(shows[s]) /\ (shows[s] = "right" => s \in proved')

Traffic ==
  /\ toP' \in Channels(ToPhone) /\ toM' \in Channels(ToMachine)
  /\ \A s \in Sessions : \A m \in InFlight(toP'[s]) : m \in InFlight(toP[s]) \/ NewToPhone(s, m)
  /\ \A s \in Sessions : \A m \in InFlight(toM'[s]) : m \in InFlight(toM[s]) \/ NewToMachine(s, m)

LinkTyped ==
  /\ toP \in Channels(ToPhone) /\ toM \in Channels(ToMachine)
  /\ up \in [Sessions -> BOOLEAN]
  /\ mOpen \in [Sessions -> BOOLEAN] /\ pOpen \in [Sessions -> BOOLEAN]

LEMMA LinkTypes == TypeOK => LinkTyped
  BY DEF TypeOK, LinkTyped, Channels

(* A write adds its message to its own channel only.                       *)
LEMMA GainsOne ==
  ASSUME NEW new, NEW old, NEW s \in Sessions, NEW m, Gains(new, old, s, m)
  PROVE  \A t \in Sessions : \A n \in InFlight(new[t]) : n \in InFlight(old[t]) \/ (t = s /\ n = m)
  BY DEF Gains

LEMMA LosesOnly ==
  ASSUME NEW new, NEW old, Loses(new, old)
  PROVE  \A t \in Sessions : \A n \in InFlight(new[t]) : n \in InFlight(old[t])
  BY DEF Loses

LEMMA Quiet ==
  ASSUME TypeOK, Loses(toP', toP), Loses(toM', toM),
         toP' \in Channels(ToPhone), toM' \in Channels(ToMachine)
  PROVE  Traffic
  BY LosesOnly DEF Traffic

LEMMA MachineTraffic == TypeOK /\ MachineAction => Traffic
<1> SUFFICES ASSUME TypeOK, MachineAction PROVE Traffic
  OBVIOUS
<1>1. LinkTyped
  BY LinkTypes
<1>2. Loses(toP, toP) /\ Loses(toM, toM)
  BY DEF Loses
<1>3. ASSUME NEW s \in Sessions, MachineCloses(s), UNCHANGED toM PROVE Traffic
  <2>1. toP' \in Channels(ToPhone) /\ Loses(toP', toP)
    BY <1>1, <1>3, MachineEnd DEF LinkTyped
  <2>2. QED BY <1>1, <1>2, <1>3, <2>1, Quiet DEF LinkTyped
<1>4. CASE UNCHANGED <<toP, toM>>
  BY <1>1, <1>2, <1>4, Quiet DEF LinkTyped
<1>5. mpc \in Attending => peer \in Sessions
  BY DEF TypeOK
<1>6. CASE SendChallenge
  <2>1. peer \in Sessions
    BY <1>5, <1>6 DEF SendChallenge, Attending
  <2>2. ASSUME MachineWrites(peer, Challenge), UNCHANGED toM PROVE Traffic
    <3>1. toP' \in Channels(ToPhone) /\ Gains(toP', toP, peer, Challenge)
      BY <1>1, <2>1, <2>2, MachineEnd, MessageTypes DEF LinkTyped
    <3>2. QED BY <1>1, <2>1, <2>2, <3>1, GainsOne DEF Traffic, LinkTyped, NewToPhone
  <2>3. QED BY <1>3, <1>6, <2>1, <2>2 DEF SendChallenge, Returns
<1>7. CASE ReadRequest
  <2>1. peer \in Sessions
    BY <1>5, <1>7 DEF ReadRequest, Attending
  <2>2. PICK k \in ShowKinds : MachineReads(peer, Request(k))
    BY <1>7 DEF ReadRequest
  <2>3. toM' \in Channels(ToMachine) /\ Loses(toM', toM)
    BY <1>1, <2>1, <2>2, MachineEnd DEF LinkTyped
  <2>4. QED BY <1>1, <1>2, <1>7, <2>3, Quiet DEF LinkTyped, ReadRequest
<1>8. CASE ReadRequestFails \/ LingerEnds
  <2>1. peer \in Sessions /\ MachineCloses(peer) /\ UNCHANGED toM
    BY <1>5, <1>8 DEF ReadRequestFails, LingerEnds, Attending, Returns, MachineReadFails
  <2>2. QED BY <1>3, <2>1
<1>9. CASE SendResult
  <2>1. peer \in Sessions /\ mpc = "tell" /\ UNCHANGED toM
    BY <1>5, <1>9 DEF SendResult, Attending
  <2>2. ASSUME MachineWrites(peer, Result(reply)), mpc' = "linger", UNCHANGED <<peer, reply>>
        PROVE  Traffic
    <3>1. reply \in Refusals \cup {"ok"}
      BY <2>1 DEF TypeOK
    <3>2. toP' \in Channels(ToPhone) /\ Gains(toP', toP, peer, Result(reply))
      BY <1>1, <2>1, <2>2, <3>1, MachineEnd, MessageTypes DEF LinkTyped
    <3>3. QED BY <1>1, <2>1, <2>2, <3>2, GainsOne DEF Traffic, LinkTyped, NewToPhone
  <2>3. QED BY <1>3, <1>4, <1>9, <2>1, <2>2 DEF SendResult, Returns, MachineWriteFails
<1>10. CASE TimerCloses
  <2>1. peer \in Sessions /\ MachineCloses(peer) /\ UNCHANGED toM
    BY <1>10 DEF TimerCloses, TypeOK
  <2>2. QED BY <1>3, <2>1
<1>11. CASE MachineKilled
  BY <1>3, <1>4, <1>11 DEF MachineKilled
<1>12. CASE \/ ListenEnds \/ StopTimers \/ JudgeRequest \/ Enrol \/ Revoke \/ RequestTimer
            \/ WindowEnds \/ \E yes \in BOOLEAN : OperatorDecides(yes)
  <2>1. UNCHANGED linkVars
    BY <1>12 DEF ListenEnds, StopTimers, JudgeRequest, Enrol, Revoke, RequestTimer, WindowEnds,
                 OperatorDecides
  <2>2. QED BY <1>4, <2>1 DEF linkVars
<1>13. QED
  BY <1>6, <1>7, <1>8, <1>9, <1>10, <1>11, <1>12 DEF MachineAction, MachineStep

LEMMA PhoneTraffic == ASSUME NEW s \in Sessions PROVE TypeOK /\ PhoneAction(s) => Traffic
<1> SUFFICES ASSUME TypeOK, PhoneAction(s) PROVE Traffic
  OBVIOUS
<1>1. LinkTyped
  BY LinkTypes
<1>2. Loses(toP, toP) /\ Loses(toM, toM)
  BY DEF Loses
<1>3. CASE UNCHANGED <<toP, toM>>
  BY <1>1, <1>2, <1>3, Quiet DEF LinkTyped
<1>4. ASSUME PhoneCloses(s), UNCHANGED toM PROVE Traffic
  <2>1. toP' \in Channels(ToPhone) /\ Loses(toP', toP)
    BY <1>1, <1>4, PhoneEnd DEF LinkTyped
  <2>2. QED BY <1>1, <1>2, <1>4, <2>1, Quiet DEF LinkTyped
<1>5. CASE ReadChallenge(s)
  <2>1. PhoneReads(s, Challenge) /\ UNCHANGED toM
    BY <1>5 DEF ReadChallenge
  <2>2. toP' \in Channels(ToPhone) /\ Loses(toP', toP)
    BY <1>1, <2>1, PhoneEnd DEF LinkTyped
  <2>3. QED BY <1>1, <1>2, <2>1, <2>2, Quiet DEF LinkTyped
<1>6. CASE SendProof(s)
  <2>1. ASSUME PhoneWrites(s, Request(shows[s])), UNCHANGED toP,
               proved' = IF shows[s] = "right" THEN proved \cup {s} ELSE proved
        PROVE  Traffic
    <3>1. shows[s] \in ShowKinds
      BY <1>6 DEF SendProof, TypeOK, Running, Connected
    <3>2. toM' \in Channels(ToMachine) /\ Gains(toM', toM, s, Request(shows[s]))
      BY <1>1, <2>1, <3>1, PhoneEnd, MessageTypes DEF LinkTyped
    <3>3. shows[s] = "right" => s \in proved'
      BY <2>1
    <3>4. \A t \in Sessions : \A n \in InFlight(toM'[t]) :
            n \in InFlight(toM[t]) \/ (t = s /\ n = Request(shows[s]))
      BY <3>2, GainsOne
    <3>5. QED BY <1>1, <2>1, <3>2, <3>3, <3>4 DEF Traffic, LinkTyped, NewToMachine
  <2>2. QED BY <1>4, <1>6, <2>1 DEF SendProof, HangUp, PhoneWriteFails
<1>7. CASE ReadResult(s) \/ PairReadFails(s) \/ PhoneKilled(s) \/ ContextCloses(s)
  <2>1. PhoneCloses(s) /\ UNCHANGED toM
    BY <1>7 DEF ReadResult, PairReadFails, PhoneKilled, ContextCloses, HangUp
  <2>2. QED BY <1>4, <2>1
<1>8. CASE \/ Pair(s) \/ PairAgain(s) \/ Cancel(s) \/ DialFails(s) \/ Retry(s)
           \/ DialDeadline(s) \/ OperatorWaitEnds(s)
  <2>1. UNCHANGED linkVars
    BY <1>8 DEF Pair, PairAgain, Cancel, DialFails, Retry, DialDeadline, OperatorWaitEnds
  <2>2. QED BY <1>3, <2>1 DEF linkVars
<1>9. QED BY <1>5, <1>6, <1>7, <1>8 DEF PhoneAction, PhoneStep, PhoneTimers

LEMMA NetworkTraffic ==
  ASSUME NEW s \in Sessions
  PROVE  TypeOK /\ NetworkAction(s) =>
           /\ Traffic
           /\ ~LinkDies(s) => InFlight(toP'[s]) = {} /\ ppc[s] = "dialling"
<1> SUFFICES ASSUME TypeOK, NetworkAction(s)
             PROVE  Traffic /\ (~LinkDies(s) => InFlight(toP'[s]) = {} /\ ppc[s] = "dialling")
  OBVIOUS
<1>1. LinkTyped
  BY LinkTypes
<1>2. ASSUME NEW m \in BOOLEAN, NEW p \in BOOLEAN, FreshLink(s, m, p)
      PROVE  Traffic /\ InFlight(toP'[s]) = {}
  <2>1. /\ toP' \in Channels(ToPhone) /\ Loses(toP', toP) /\ InFlight(toP'[s]) = {}
        /\ toM' \in Channels(ToMachine) /\ Loses(toM', toM)
    BY <1>1, <1>2, Fresh DEF LinkTyped
  <2>2. QED BY <2>1, Quiet
<1>3. CASE Establish(s) \/ MachineEndOnly(s) \/ PhoneEndOnly(s)
  <2>1. /\ \E m, p \in BOOLEAN : FreshLink(s, m, p)
        /\ ppc[s] = "dialling"
    BY <1>3 DEF Establish, MachineEndOnly, PhoneEndOnly
  <2>2. QED BY <1>2, <2>1
<1>4. CASE LinkDies(s)
  <2>1. /\ toP' \in {toP, [toP EXCEPT ![s] = <<>>]}
        /\ toM' \in {toM, [toM EXCEPT ![s] = <<>>]}
    BY <1>4 DEF LinkDies
  <2>2. /\ Loses(toP, toP) /\ Loses(toM, toM)
        /\ [toP EXCEPT ![s] = <<>>] \in Channels(ToPhone)
        /\ Loses([toP EXCEPT ![s] = <<>>], toP)
    BY <1>1, ChannelChanges DEF LinkTyped
  <2>3. /\ [toM EXCEPT ![s] = <<>>] \in Channels(ToMachine)
        /\ Loses([toM EXCEPT ![s] = <<>>], toM) /\ Loses(toM, toM)
    BY <1>1, ChannelChanges DEF LinkTyped
  <2>4. toP' \in Channels(ToPhone) /\ Loses(toP', toP)
    <3>1. CASE toP' = toP
      BY <1>1, <2>2, <3>1 DEF LinkTyped
    <3>2. CASE toP' = [toP EXCEPT ![s] = <<>>]
      BY <2>2, <3>2
    <3>3. QED BY <2>1, <3>1, <3>2
  <2>5. toM' \in Channels(ToMachine) /\ Loses(toM', toM)
    <3>1. CASE toM' = toM
      BY <1>1, <2>3, <3>1 DEF LinkTyped
    <3>2. CASE toM' = [toM EXCEPT ![s] = <<>>]
      BY <2>3, <3>2
    <3>3. QED BY <2>1, <3>1, <3>2
  <2>6. QED BY <1>4, <2>4, <2>5, Quiet
<1>5. QED BY <1>3, <1>4 DEF NetworkAction

LEMMA StepTraffic == TypeOK /\ [Next]_vars => Traffic
<1>1. TypeOK /\ UNCHANGED vars => Traffic
  BY LinkTypes DEF vars, linkVars, Traffic, LinkTyped
<1>2. QED BY <1>1, NextCases, MachineTraffic, PhoneTraffic, NetworkTraffic

-----------------------------------------------------------------------------
(* Types. *)

(* Everything of TypeOK but the two channels. *)
ControlTypes ==
  /\ mpc \in MachineSteps
  /\ peer \in Sessions \cup {NoSession}
  /\ mpc \in Attending <=> peer \in Sessions
  /\ window \in BOOLEAN /\ assumeYes \in BOOLEAN /\ closing \in BOOLEAN
  /\ closing => peer \in Sessions
  /\ req \in ShowKinds \cup {"none"}
  /\ mpc \in Judging => req \in ShowKinds
  /\ reply \in Refusals \cup {"ok", "none"}
  /\ reply # "none" <=> mpc \in {"tell", "linger"}
HeaderTypes ==
  /\ entry \in [Sessions -> SUBSET Keys] /\ before \in [Sessions -> SUBSET Keys]
  /\ tokenGone \in BOOLEAN
  /\ agreed \subseteq Sessions
PhoneTypes ==
  /\ proved \subseteq Sessions
  /\ ppc \in [Sessions -> PhoneSteps]
  /\ shows \in [Sessions -> ShowKinds \cup {"none"}]
  /\ \A s \in Sessions : ppc[s] \in Running => shows[s] \in ShowKinds
  /\ dialDone \in [Sessions -> BOOLEAN] /\ waitDone \in [Sessions -> BOOLEAN]
  /\ cancelled \in [Sessions -> BOOLEAN] /\ pClosing \in [Sessions -> BOOLEAN]
  /\ outcome \in [Sessions -> Outcomes]
EndTypes ==
  /\ up \in [Sessions -> BOOLEAN]
  /\ mOpen \in [Sessions -> BOOLEAN] /\ pOpen \in [Sessions -> BOOLEAN]

LEMMA TypeParts == TypeOK <=> ControlTypes /\ HeaderTypes /\ PhoneTypes /\ EndTypes
                              /\ toP \in Channels(ToPhone) /\ toM \in Channels(ToMachine)
  BY DEF TypeOK, ControlTypes, HeaderTypes, PhoneTypes, EndTypes, Channels

NonChannelTypes == ControlTypes /\ HeaderTypes /\ PhoneTypes /\ EndTypes

LEMMA MachineTypes == NonChannelTypes /\ MachineAction => NonChannelTypes'
<1> SUFFICES ASSUME NonChannelTypes, MachineAction PROVE NonChannelTypes'
  OBVIOUS
<1> USE DEF NonChannelTypes, MachineSteps, Attending, Judging, Ended, machineVars, headerVars,
            phoneVars, linkVars, MachineCloses
<1>1. CASE ListenEnds
  BY <1>1 DEF ListenEnds, ControlTypes, HeaderTypes, PhoneTypes, EndTypes
<1>2. CASE SendChallenge
  BY <1>2 DEF SendChallenge, Returns, ControlTypes, HeaderTypes, PhoneTypes, EndTypes
<1>3. CASE ReadRequest
  BY <1>3 DEF ReadRequest, ControlTypes, HeaderTypes, PhoneTypes, EndTypes
<1>4. CASE ReadRequestFails
  BY <1>4 DEF ReadRequestFails, Returns, ControlTypes, HeaderTypes, PhoneTypes, EndTypes
<1>5. CASE StopTimers
  BY <1>5 DEF StopTimers, ControlTypes, HeaderTypes, PhoneTypes, EndTypes
<1>6. CASE JudgeRequest
  BY <1>6 DEF JudgeRequest, Replies, Refusals, ControlTypes, HeaderTypes, PhoneTypes, EndTypes
<1>7. ASSUME NEW yes \in BOOLEAN, OperatorDecides(yes) PROVE NonChannelTypes'
  BY <1>7 DEF OperatorDecides, Replies, Refusals, ControlTypes, HeaderTypes, PhoneTypes, EndTypes
<1>8. ASSUME StepFails PROVE /\ entry' \in [Sessions -> SUBSET Keys] /\ tokenGone' \in BOOLEAN
                             /\ reply' = "enrolFailed" /\ mpc' = "tell"
  BY <1>8 DEF StepFails, Replies, HeaderTypes
<1>9. CASE Enrol
  <2>1. entry' \in [Sessions -> SUBSET Keys] /\ tokenGone' \in BOOLEAN
    BY <1>8, <1>9 DEF Enrol, HeaderTypes, Keys, ControlTypes
  <2>2. \/ mpc' = "tell" /\ reply' \in {"ok", "enrolFailed"}
        \/ mpc' = "revoke" /\ UNCHANGED reply
    BY <1>8, <1>9 DEF Enrol, Replies
  <2>3. QED BY <1>9, <2>1, <2>2 DEF Enrol, Refusals, ControlTypes, HeaderTypes, PhoneTypes, EndTypes
<1>10. CASE Revoke
  <2>1. entry' \in [Sessions -> SUBSET Keys] /\ tokenGone' \in BOOLEAN
    BY <1>8, <1>10 DEF Revoke, HeaderTypes, Keys, ControlTypes
  <2>2. mpc' = "tell" /\ reply' \in {"ok", "enrolFailed"}
    BY <1>8, <1>10 DEF Revoke, Replies
  <2>3. QED BY <1>10, <2>1, <2>2 DEF Revoke, Refusals, ControlTypes, HeaderTypes, PhoneTypes, EndTypes
<1>11. CASE SendResult
  BY <1>11 DEF SendResult, Returns, ControlTypes, HeaderTypes, PhoneTypes, EndTypes
<1>12. CASE LingerEnds
  BY <1>12 DEF LingerEnds, Returns, ControlTypes, HeaderTypes, PhoneTypes, EndTypes
<1>13. CASE RequestTimer
  BY <1>13 DEF RequestTimer, ControlTypes, HeaderTypes, PhoneTypes, EndTypes
<1>14. CASE WindowEnds
  BY <1>14 DEF WindowEnds, ControlTypes, HeaderTypes, PhoneTypes, EndTypes
<1>15. CASE TimerCloses
  BY <1>15 DEF TimerCloses, ControlTypes, HeaderTypes, PhoneTypes, EndTypes
<1>16. CASE MachineKilled
  BY <1>16 DEF MachineKilled, ControlTypes, HeaderTypes, PhoneTypes, EndTypes
<1>17. QED
  BY <1>1, <1>2, <1>3, <1>4, <1>5, <1>6, <1>7, <1>9, <1>10, <1>11, <1>12, <1>13, <1>14, <1>15, <1>16
  DEF MachineAction, MachineStep

LEMMA PhoneTypesStep ==
  ASSUME NEW s \in Sessions PROVE NonChannelTypes /\ PhoneAction(s) => NonChannelTypes'
<1> SUFFICES ASSUME NonChannelTypes, PhoneAction(s) PROVE NonChannelTypes'
  OBVIOUS
<1>1. UNCHANGED <<machineVars, headerVars>> /\ UNCHANGED <<up, mOpen>>
  BY DEF PhoneAction, PhoneStep, PhoneTimers, Pair, PairAgain, Cancel, PhoneKilled, DialFails,
         ReadChallenge, SendProof, ReadResult, PairReadFails, Retry, DialDeadline,
         OperatorWaitEnds, ContextCloses, linkVars
<1>2. ControlTypes' /\ HeaderTypes'
  BY <1>1 DEF machineVars, headerVars, ControlTypes, HeaderTypes, NonChannelTypes
<1>3. pOpen' \in {pOpen, [pOpen EXCEPT ![s] = FALSE]}
  BY DEF PhoneAction, PhoneStep, PhoneTimers, Pair, PairAgain, Cancel, PhoneKilled, DialFails,
         ReadChallenge, SendProof, ReadResult, PairReadFails, Retry, DialDeadline,
         OperatorWaitEnds, ContextCloses, linkVars, HangUp, PhoneCloses
<1>4. EndTypes'
  BY <1>1, <1>3 DEF EndTypes, NonChannelTypes
<1>5. PhoneTypes'
  <2> USE DEF NonChannelTypes, PhoneTypes, PhoneSteps, Running, Connected, Outcomes, phoneVars,
              Goto, Ends, Continues, HangUp
  <2>1. CASE Pair(s)
    <3>1. CASE Ends(s, "cancelled")
      BY <2>1, <3>1 DEF Pair
    <3>2. ASSUME NEW k \in Shows, shows' = [shows EXCEPT ![s] = k], Goto(s, "dialling"),
                 UNCHANGED <<dialDone, outcome>>
          PROVE  PhoneTypes'
      <4>1. k \in ShowKinds
        BY PairingAssumption
      <4>2. UNCHANGED <<proved, dialDone, waitDone, cancelled, pClosing, outcome>>
        BY <2>1, <3>2 DEF Pair
      <4>3. /\ shows' \in [Sessions -> ShowKinds \cup {"none"}]
            /\ ppc' \in [Sessions -> PhoneSteps]
        BY <3>2, <4>1
      <4>4. ASSUME NEW r \in Sessions, ppc'[r] \in Running PROVE shows'[r] \in ShowKinds
        BY <3>2, <4>1, <4>4
      <4>5. QED BY <4>2, <4>3, <4>4
    <3>3. QED BY <2>1, <3>1, <3>2 DEF Pair
  <2>13. CASE PairAgain(s)
    BY <2>13 DEF PairAgain
  <2>2. CASE Cancel(s)
    BY <2>2 DEF Cancel
  <2>3. CASE PhoneKilled(s)
    BY <2>3 DEF PhoneKilled
  <2>4. CASE DialFails(s) \/ ReadChallenge(s)
    BY <2>4 DEF DialFails, ReadChallenge
  <2>5. CASE SendProof(s)
    BY <2>5 DEF SendProof
  <2>6. CASE ReadResult(s)
    <3>1. PICK how \in Outcomes : Ends(s, how)
      BY <2>6 DEF ReadResult, RefusalKind
    <3>2. QED BY <2>6, <3>1 DEF ReadResult
  <2>7. CASE PairReadFails(s)
    <3>1. /\ UNCHANGED <<cancelled, proved>> /\ ppc[s] \in Running
          /\ pClosing' = [pClosing EXCEPT ![s] = FALSE]
          /\ waitDone' = [waitDone EXCEPT ![s] = FALSE]
      BY <2>7 DEF PairReadFails
    <3>2. CASE Ends(s, "notConfirmed")
      BY <3>1, <3>2
    <3>3. CASE Continues(s, "failed")
      BY <3>1, <3>3
    <3>4. QED BY <2>7, <3>2, <3>3 DEF PairReadFails
  <2>8. CASE Retry(s)
    BY <2>8 DEF Retry
  <2>9. CASE DialDeadline(s)
    BY <2>9 DEF DialDeadline
  <2>10. CASE OperatorWaitEnds(s)
    BY <2>10 DEF OperatorWaitEnds
  <2>11. CASE ContextCloses(s)
    BY <2>11 DEF ContextCloses
  <2>12. QED
    BY <2>1, <2>2, <2>3, <2>4, <2>5, <2>6, <2>7, <2>8, <2>9, <2>10, <2>11, <2>13
    DEF PhoneAction, PhoneStep, PhoneTimers
<1>6. QED BY <1>2, <1>4, <1>5 DEF NonChannelTypes

LEMMA NetworkTypes ==
  ASSUME NEW s \in Sessions PROVE NonChannelTypes /\ NetworkAction(s) => NonChannelTypes'
<1> SUFFICES ASSUME NonChannelTypes, NetworkAction(s) PROVE NonChannelTypes'
  OBVIOUS
<1> USE DEF NonChannelTypes, ControlTypes, HeaderTypes, PhoneTypes, EndTypes, MachineSteps,
            Attending, Judging, PhoneSteps, Running, Connected, machineVars, headerVars,
            phoneVars, FreshLink
<1>1. CASE Establish(s)
  BY <1>1 DEF Establish
<1>2. CASE MachineEndOnly(s)
  BY <1>2 DEF MachineEndOnly
<1>3. CASE PhoneEndOnly(s)
  BY <1>3 DEF PhoneEndOnly
<1>4. CASE LinkDies(s)
  BY <1>4 DEF LinkDies
<1>5. QED BY <1>1, <1>2, <1>3, <1>4 DEF NetworkAction

LEMMA TypeStep == TypeOK /\ [Next]_vars => TypeOK'
<1> SUFFICES ASSUME TypeOK, [Next]_vars PROVE TypeOK'
  OBVIOUS
<1>1. NonChannelTypes
  BY TypeParts DEF NonChannelTypes
<1>2. toP' \in Channels(ToPhone) /\ toM' \in Channels(ToMachine)
  BY StepTraffic DEF Traffic
<1>3. CASE UNCHANGED vars
  BY <1>3 DEF vars, machineVars, headerVars, phoneVars, linkVars, TypeOK
<1>4. NonChannelTypes' => TypeOK'
  BY <1>2, TypeParts DEF NonChannelTypes, ControlTypes, HeaderTypes, PhoneTypes, EndTypes, TypeOK, Channels
<1>5. QED BY <1>1, <1>3, <1>4, NextCases, MachineTypes, PhoneTypesStep, NetworkTypes

-----------------------------------------------------------------------------
(* What each side leaves alone. *)

(* The command never touches a phone, and drops its peer at most.          *)
LEMMA MachineFrame ==
  MachineAction => /\ UNCHANGED <<phoneVars, before, assumeYes>>
                   /\ peer' \in {peer, NoSession}
                   /\ agreed \subseteq agreed'
  BY DEF MachineAction, MachineStep, ListenEnds, SendChallenge, ReadRequest, ReadRequestFails,
         StopTimers, JudgeRequest, OperatorDecides, Enrol, Revoke, SendResult, LingerEnds,
         RequestTimer, WindowEnds, TimerCloses, MachineKilled, Returns, headerVars, machineVars

(* A key holder never touches the machine or the token.                    *)
LEMMA PhoneFrame ==
  ASSUME NEW s \in Sessions, PhoneAction(s)
  PROVE  UNCHANGED <<machineVars, headerVars>> /\ proved \subseteq proved'
  BY DEF PhoneAction, PhoneStep, PhoneTimers, Pair, PairAgain, Cancel, PhoneKilled, DialFails,
         ReadChallenge, SendProof, ReadResult, PairReadFails, Retry, DialDeadline,
         OperatorWaitEnds, ContextCloses, phoneVars

(* The network gives a listening machine a peer, and changes no mind.      *)
LEMMA NetworkFrame ==
  ASSUME NEW s \in Sessions, NetworkAction(s)
  PROVE  /\ UNCHANGED <<headerVars, proved, outcome, req, reply, window, assumeYes>>
         /\ \/ UNCHANGED <<mpc, peer>>
            \/ mpc = "listen" /\ mpc' = "challenge" /\ peer' = s /\ ~LinkDies(s)
         /\ ppc' = ppc \/ (ppc[s] = "dialling" /\ ppc' = [ppc EXCEPT ![s] = "challenge"])
<1>1. CASE LinkDies(s)
  BY <1>1 DEF LinkDies, phoneVars, machineVars
<1>2. CASE Establish(s) /\ ~LinkDies(s)
  BY <1>2 DEF Establish
<1>3. CASE MachineEndOnly(s) /\ ~LinkDies(s)
  BY <1>3 DEF MachineEndOnly, phoneVars
<1>4. CASE PhoneEndOnly(s)
  BY <1>4 DEF PhoneEndOnly, machineVars
<1>5. QED BY <1>1, <1>2, <1>3, <1>4 DEF NetworkAction

(* What a phone is told it has read, and hearing it ends its Pair.         *)
LEMMA OutcomeStep ==
  ASSUME NEW s \in Sessions, TypeOK, PhoneAction(s)
  PROVE  \A t \in Sessions :
           /\ outcome'[t] = "enrolled" => outcome[t] = "enrolled" \/ Pending(t, "ok")
           /\ outcome'[t] = "declined" => outcome[t] = "declined" \/ Pending(t, "declined")
           /\ (outcome[t] # "none" => ppc[t] = "over") => (outcome'[t] # "none" => ppc'[t] = "over")
<1> USE DEF TypeOK
<1>1. CASE ReadResult(s)
  <2>1. Head(toP[s]) \in InFlight(toP[s])
    BY <1>1, ChannelChanges DEF ReadResult, Channels
  <2>2. /\ ppc' = [ppc EXCEPT ![s] = "over"]
        /\ \/ Pending(s, "ok") /\ outcome' = [outcome EXCEPT ![s] = "enrolled"]
           \/ Pending(s, "declined") /\ outcome' = [outcome EXCEPT ![s] = "declined"]
           \/ \E how \in {"cancelled", "codeMismatch", "refused"} :
                outcome' = [outcome EXCEPT ![s] = how]
    BY <1>1, <2>1 DEF ReadResult, Ends, Goto, Pending, RefusalKind
  <2>3. QED BY <2>2
<1>2. CASE Pair(s) \/ PairAgain(s) \/ Cancel(s) \/ PhoneKilled(s) \/ Retry(s) \/ PairReadFails(s)
  BY <1>2 DEF Pair, PairAgain, Cancel, PhoneKilled, Retry, PairReadFails, Ends, Continues, Goto,
              Running, Connected
<1>3. CASE DialFails(s) \/ ReadChallenge(s) \/ SendProof(s)
  BY <1>3 DEF DialFails, ReadChallenge, SendProof, Goto
<1>4. CASE DialDeadline(s) \/ OperatorWaitEnds(s) \/ ContextCloses(s)
  BY <1>4 DEF DialDeadline, OperatorWaitEnds, ContextCloses, phoneVars
<1>5. QED BY <1>1, <1>2, <1>3, <1>4 DEF PhoneAction, PhoneStep, PhoneTimers

(* A result is in flight because the machine just wrote it, or was already.*)
JustTold(s, r) ==
  mpc = "tell" /\ mpc' = "linger" /\ peer = s /\ peer' = s /\ reply = r /\ reply' = r

LEMMA PendingStep ==
  ASSUME TypeOK, [Next]_vars, NEW s \in Sessions, NEW r
  PROVE  Pending(s, r)' => Pending(s, r) \/ JustTold(s, r)
<1>1. Traffic
  BY StepTraffic
<1>2. \A m \in InFlight(toP'[s]) : m \in InFlight(toP[s]) \/ NewToPhone(s, m)
  BY <1>1 DEF Traffic
<1>3. NewToPhone(s, Result(r)) => JustTold(s, r)
  BY MessagesDiffer DEF NewToPhone, JustTold
<1>4. Pending(s, r)' <=> Result(r) \in InFlight(toP'[s])
  BY DEF Pending, InFlight, Result
<1>5. QED BY <1>2, <1>3, <1>4 DEF Pending

(* The token changes when the operator has agreed, and never otherwise.    *)
Written ==
  /\ mpc \in {"enrol", "revoke"} /\ mpc' \in {"revoke", "tell"}
  /\ peer \in Sessions /\ peer' = peer /\ UNCHANGED <<phoneVars, before, agreed, assumeYes, req>>
  /\ \/ /\ \E ks \in {entry[peer] \cup {"new"}, {"new"}} : entry' = [entry EXCEPT ![peer] = ks]
        /\ UNCHANGED tokenGone
     \/ entry' = [s \in Sessions |-> {}] /\ tokenGone' = TRUE
  /\ reply' = "ok" => entry'[peer] = {"new"}
  /\ reply' # "declined"
  /\ mpc' = "revoke" => "new" \in entry'[peer]

LEMMA Writing ==
  ASSUME TypeOK, Enrol \/ Revoke
  PROVE  Written \/ (reply' = "enrolFailed" /\ UNCHANGED <<entry, tokenGone, before>>)
<1>1. peer \in Sessions /\ reply # "declined" /\ entry \in [Sessions -> SUBSET Keys]
  BY DEF Enrol, Revoke, TypeOK, Attending
<1>2. CASE Enrol
  BY <1>1, <1>2 DEF Enrol, StepFails, Replies, Written, TypeOK
<1>3. CASE Revoke
  BY <1>1, <1>3 DEF Revoke, StepFails, Replies, Written
<1>4. QED BY <1>2, <1>3

LEMMA EntryStep ==
  ASSUME TypeOK, [Next]_vars
  PROVE  UNCHANGED <<entry, tokenGone, before>> \/ Written
<1>1. CASE Enrol \/ Revoke
  BY <1>1, Writing
<1>2. CASE MachineAction /\ ~Enrol /\ ~Revoke
  BY <1>2 DEF MachineAction, MachineStep, ListenEnds, SendChallenge, ReadRequest,
         ReadRequestFails, StopTimers, JudgeRequest, OperatorDecides, SendResult, LingerEnds,
         RequestTimer, WindowEnds, TimerCloses, MachineKilled, headerVars
<1>3. ASSUME NEW s \in Sessions, PhoneAction(s) \/ NetworkAction(s)
      PROVE  UNCHANGED <<entry, tokenGone, before>>
  BY <1>3, PhoneFrame, NetworkFrame DEF headerVars
<1>4. CASE UNCHANGED vars
  BY <1>4 DEF vars, headerVars
<1>5. QED BY <1>1, <1>2, <1>3, <1>4, NextCases

-----------------------------------------------------------------------------
(* The invariant. *)

(* Proofs and agreements are not forgotten, and --yes is fixed.            *)
LEMMA Remembered ==
  [Next]_vars => proved \subseteq proved' /\ agreed \subseteq agreed' /\ UNCHANGED assumeYes
<1>1. CASE MachineAction
  BY <1>1, MachineFrame DEF phoneVars
<1>2. ASSUME NEW s \in Sessions, PhoneAction(s)
      PROVE  proved \subseteq proved' /\ agreed \subseteq agreed' /\ UNCHANGED assumeYes
  BY <1>2, PhoneFrame DEF machineVars, headerVars
<1>3. ASSUME NEW s \in Sessions, NetworkAction(s)
      PROVE  proved \subseteq proved' /\ agreed \subseteq agreed' /\ UNCHANGED assumeYes
  BY <1>3, NetworkFrame DEF headerVars
<1>4. CASE UNCHANGED vars
  BY <1>4 DEF vars, machineVars, headerVars, phoneVars
<1>5. QED BY <1>1, <1>2, <1>3, <1>4, NextCases

(* ConsentGiven but for what is in flight. *)
Decided ==
  /\ mpc \in Judging /\ req = "right" => peer \in proved
  /\ mpc \in {"ask", "enrol", "revoke"} => req = "right"
  /\ mpc \in {"ask", "enrol"} => "new" \notin entry[peer]
  /\ mpc \in {"enrol", "revoke"} => peer \in agreed \/ assumeYes
  /\ mpc = "revoke" => "new" \in entry[peer]

(* What the proof, the plan and the operator have decided stays decided.   *)
LEMMA ConsentStep == TypeOK /\ ConsentGiven /\ [Next]_vars => ConsentGiven'
<1> SUFFICES ASSUME TypeOK, ConsentGiven, [Next]_vars PROVE ConsentGiven'
  OBVIOUS
<1>1. proved \subseteq proved' /\ agreed \subseteq agreed' /\ UNCHANGED assumeYes
  BY Remembered
<1>2. ASSUME NEW s \in Sessions, Request("right") \in InFlight(toM'[s]) PROVE s \in proved'
  <2>1. Traffic
    BY StepTraffic
  <2>2. Request("right") \in InFlight(toM[s]) \/ NewToMachine(s, Request("right"))
    BY <1>2, <2>1 DEF Traffic
  <2>3. NewToMachine(s, Request("right")) => s \in proved'
    BY MessagesDiffer DEF NewToMachine
  <2>4. QED BY <1>1, <2>2, <2>3 DEF ConsentGiven
<1>3. (\A s \in Sessions : Request("right") \in InFlight(toM[s]) => s \in proved)'
  BY <1>2 DEF InFlight, Request
<1>4. Decided
  BY DEF ConsentGiven, Decided
<1>5. ASSUME UNCHANGED <<mpc, peer, req, entry>> PROVE Decided'
  BY <1>1, <1>4, <1>5 DEF Decided
<1>6. ASSUME MachineAction PROVE Decided'
  <2> USE DEF Judging, Decided
  <2>1. UNCHANGED proved
    BY <1>6, MachineFrame DEF phoneVars
  <2>2. CASE ReadRequest
    <3>1. PICK k \in ShowKinds : MachineReads(peer, Request(k)) /\ req' = k
      BY <2>2 DEF ReadRequest
    <3>2. peer \in Sessions
      BY <2>2 DEF ReadRequest, TypeOK, Attending
    <3>3. Request(k) \in InFlight(toM[peer])
      BY <3>1, <3>2, MachineEnd, LinkTypes DEF LinkTyped
    <3>4. req' = "right" => peer \in proved
      BY <3>1, <3>2, <3>3 DEF ConsentGiven
    <3>5. mpc' = "read" /\ peer' = peer
      BY <2>2 DEF ReadRequest
    <3>6. QED BY <2>1, <3>4, <3>5
  <2>3. CASE JudgeRequest
    BY <1>4, <2>1, <2>3 DEF JudgeRequest, Replies, headerVars
  <2>4. ASSUME NEW yes \in BOOLEAN, OperatorDecides(yes) PROVE Decided'
    BY <1>4, <2>1, <2>4 DEF OperatorDecides, Replies, TypeOK, Attending
  <2>5. CASE Enrol \/ Revoke
    <3>1. mpc' \in {"revoke", "tell"} /\ UNCHANGED <<peer, req, agreed>>
      BY <2>5 DEF Enrol, Revoke, StepFails, Replies
    <3>2. mpc' = "revoke" => mpc = "enrol" /\ entry' = [entry EXCEPT ![peer] = @ \cup {"new"}]
      BY <2>5 DEF Enrol, Revoke, StepFails, Replies
    <3>3. mpc \in {"enrol", "revoke"} /\ peer \in Sessions /\ entry \in [Sessions -> SUBSET Keys]
      BY <2>5 DEF Enrol, Revoke, TypeOK, Attending
    <3>4. QED BY <1>1, <1>4, <2>1, <3>1, <3>2, <3>3
  <2>6. CASE StopTimers
    BY <1>4, <2>1, <2>6 DEF StopTimers, headerVars
  <2>7. CASE RequestTimer \/ WindowEnds \/ TimerCloses
    BY <1>5, <2>7 DEF RequestTimer, WindowEnds, TimerCloses, machineVars, headerVars
  <2>8. CASE \/ ListenEnds \/ SendChallenge \/ ReadRequestFails \/ SendResult \/ LingerEnds
             \/ MachineKilled
    BY <2>8 DEF ListenEnds, SendChallenge, ReadRequestFails, SendResult, LingerEnds,
                MachineKilled, Returns
  <2>9. QED
    BY <1>6, <2>2, <2>3, <2>4, <2>5, <2>6, <2>7, <2>8
    DEF MachineAction, MachineStep
<1>7. ASSUME NEW s \in Sessions, PhoneAction(s) \/ NetworkAction(s) PROVE Decided'
  <2>1. CASE mpc' = "challenge"
    BY <2>1 DEF Judging, Decided
  <2>2. UNCHANGED <<entry, req>> /\ (UNCHANGED <<mpc, peer>> \/ mpc' = "challenge")
    BY <1>7, PhoneFrame, NetworkFrame DEF machineVars, headerVars
  <2>3. QED BY <1>5, <2>1, <2>2
<1>8. ASSUME UNCHANGED vars PROVE Decided'
  BY <1>5, <1>8 DEF vars, machineVars, headerVars
<1>9. Decided'
  BY <1>6, <1>7, <1>8, NextCases
<1>10. QED BY <1>3, <1>9 DEF ConsentGiven, Decided

(* Whoever writes has proved the code and been agreed to.                  *)
LEMMA WrittenWithConsent ==
  TypeOK /\ ConsentGiven /\ Written => peer \in proved /\ (peer \in agreed \/ assumeYes)
  BY DEF ConsentGiven, Written, Judging

LEMMA NothingWithoutConsentStep ==
  TypeOK /\ ConsentGiven /\ NothingWithoutConsent /\ [Next]_vars => NothingWithoutConsent'
<1> SUFFICES ASSUME TypeOK, ConsentGiven, NothingWithoutConsent, [Next]_vars
             PROVE  NothingWithoutConsent'
  OBVIOUS
<1>1. proved \subseteq proved' /\ agreed \subseteq agreed' /\ UNCHANGED assumeYes
  BY Remembered
<1>2. CASE UNCHANGED <<entry, tokenGone, before>>
  BY <1>1, <1>2 DEF NothingWithoutConsent
<1>3. CASE Written
  <2>1. \A s \in Sessions : s # peer => entry'[s] \subseteq entry[s]
    BY <1>3 DEF Written, TypeOK
  <2>2. before' = before
    BY <1>3 DEF Written
  <2>3. QED BY <1>1, <1>3, <2>1, <2>2, WrittenWithConsent DEF NothingWithoutConsent
<1>4. QED BY <1>2, <1>3, EntryStep

(* Replacing adds before it takes away; a lost token is told apart.        *)
LEMMA NeverWithNeitherStep ==
  TypeOK /\ NeverWithNeither /\ [Next]_vars => NeverWithNeither'
<1> SUFFICES ASSUME TypeOK, NeverWithNeither, [Next]_vars PROVE NeverWithNeither'
  OBVIOUS
<1>1. CASE UNCHANGED <<entry, tokenGone, before>>
  BY <1>1 DEF NeverWithNeither
<1>2. CASE Written /\ ~tokenGone'
  <2>1. PICK ks \in {entry[peer] \cup {"new"}, {"new"}} : entry' = [entry EXCEPT ![peer] = ks]
    BY <1>2 DEF Written
  <2>2. ks # {} /\ entry'[peer] = ks /\ before' = before
    BY <1>2, <2>1 DEF Written, TypeOK
  <2>3. \A s \in Sessions : s # peer => entry'[s] = entry[s]
    BY <2>1 DEF TypeOK
  <2>4. tokenGone = tokenGone'
    BY <1>2 DEF Written
  <2>5. QED BY <1>2, <2>2, <2>3, <2>4 DEF NeverWithNeither
<1>3. CASE tokenGone'
  BY <1>3 DEF NeverWithNeither
<1>4. QED BY <1>1, <1>2, <1>3, EntryStep

(* An ok that has been written, and been heard, is the last there is: the  *)
(* command does nothing more to the token.                                 *)
LEMMA ToldOkStep ==
  ASSUME TypeOK, [Next]_vars, NEW s \in Sessions
  PROVE  ToldOk(s)' => ToldOk(s) \/ JustTold(s, "ok")
<1>1. Pending(s, "ok")' => Pending(s, "ok") \/ JustTold(s, "ok")
  BY PendingStep
<1>2. outcome'[s] = "enrolled" => ToldOk(s)
  <2>1. CASE UNCHANGED outcome
    BY <2>1 DEF ToldOk
  <2>2. ASSUME NEW t \in Sessions, PhoneAction(t) PROVE outcome'[s] = "enrolled" => ToldOk(s)
    BY <2>2, OutcomeStep DEF ToldOk
  <2>3. QED
    BY <2>1, <2>2, NextCases, MachineFrame, NetworkFrame DEF phoneVars, vars
<1>3. ToldOk(s)' <=> Pending(s, "ok")' \/ outcome'[s] = "enrolled"
  BY DEF ToldOk
<1>4. QED BY <1>1, <1>2, <1>3 DEF ToldOk

LEMMA ToldDeclinedStep ==
  ASSUME TypeOK, [Next]_vars, NEW s \in Sessions
  PROVE  Pending(s, "declined")' \/ outcome'[s] = "declined" =>
           Pending(s, "declined") \/ outcome[s] = "declined" \/ JustTold(s, "declined")
<1>1. Pending(s, "declined")' => Pending(s, "declined") \/ JustTold(s, "declined")
  BY PendingStep
<1>2. outcome'[s] = "declined" => Pending(s, "declined") \/ outcome[s] = "declined"
  <2>1. CASE UNCHANGED outcome
    BY <2>1
  <2>2. ASSUME NEW t \in Sessions, PhoneAction(t)
        PROVE  outcome'[s] = "declined" => Pending(s, "declined") \/ outcome[s] = "declined"
    BY <2>2, OutcomeStep
  <2>3. QED
    BY <2>1, <2>2, NextCases, MachineFrame, NetworkFrame DEF phoneVars, vars
<1>3. QED BY <1>1, <1>2

(* After the machine has written its result, it stays with this peer until *)
(* it returns, and returns with what it has written.                       *)
LEMMA LingerStep ==
  ASSUME TypeOK, [Next]_vars
  PROVE  /\ mpc = "linger" =>
              \/ UNCHANGED <<mpc, peer, reply>>
              \/ mpc' = "killed" /\ peer' = NoSession
              \/ peer' = NoSession /\ (reply = "ok" => mpc' = "paired")
         /\ mpc \in {"paired", "killed"} => mpc' = mpc
         /\ mpc' = "paired" => mpc = "paired" \/ (mpc = "linger" /\ reply = "ok")
<1>1. CASE MachineAction
  BY <1>1 DEF MachineAction, MachineStep, ListenEnds, SendChallenge, ReadRequest,
         ReadRequestFails, StopTimers, JudgeRequest, OperatorDecides, Enrol, Revoke, StepFails,
         Replies, SendResult, LingerEnds, Returns,
         RequestTimer, WindowEnds, TimerCloses, MachineKilled, machineVars, TypeOK, Attending, Ended
<1>2. ASSUME NEW s \in Sessions, PhoneAction(s) PROVE UNCHANGED <<mpc, peer, reply>>
  BY <1>2, PhoneFrame DEF machineVars
<1>3. ASSUME NEW s \in Sessions, NetworkAction(s)
      PROVE  UNCHANGED reply /\ (UNCHANGED <<mpc, peer>> \/ (mpc = "listen" /\ mpc' = "challenge"))
  BY <1>3, NetworkFrame
<1>4. CASE UNCHANGED vars
  BY <1>4 DEF vars, machineVars
<1>5. QED BY <1>1, <1>2, <1>3, <1>4, NextCases

LEMMA OkIsFinalStep == TypeOK /\ OkIsFinal /\ [Next]_vars => OkIsFinal'
<1> SUFFICES ASSUME TypeOK, OkIsFinal, [Next]_vars PROVE OkIsFinal'
  OBVIOUS
<1> DEFINE Last(s) == mpc = "linger" /\ peer = s /\ reply = "ok"
<1>1. \A s \in Sessions : ToldOk(s) => Last(s) \/ mpc \in {"paired", "killed"}
  BY DEF OkIsFinal
<1>2. \A s, t \in Sessions : ToldOk(s) /\ ToldOk(t) => s = t
  BY DEF OkIsFinal
<1>3. \A s \in Sessions : ToldOk(s)' => ToldOk(s) \/ JustTold(s, "ok")
  BY ToldOkStep
<1>4. ASSUME NEW s \in Sessions, ToldOk(s)' PROVE Last(s)' \/ mpc' \in {"paired", "killed"}
  <2>1. CASE JustTold(s, "ok")
    BY <2>1 DEF JustTold
  <2>2. CASE ToldOk(s)
    BY <1>1, <2>2, LingerStep
  <2>3. QED BY <1>3, <1>4, <2>1, <2>2
<1>5. ASSUME NEW s \in Sessions, NEW t \in Sessions, ToldOk(s)', ToldOk(t)' PROVE s = t
  BY <1>1, <1>2, <1>3, <1>5 DEF JustTold
<1>6. (\A s \in Sessions : ToldOk(s) => Last(s) \/ mpc \in {"paired", "killed"})'
  BY <1>4 DEF ToldOk, Pending, InFlight, Result
<1>7. (\A s, t \in Sessions : ToldOk(s) /\ ToldOk(t) => s = t)'
  BY <1>5 DEF ToldOk, Pending, InFlight, Result
<1>8. QED BY <1>6, <1>7 DEF OkIsFinal

(* While an ok is on its way or has been heard, nothing is written.        *)
LEMMA NothingAfterOk ==
  ASSUME TypeOK, OkIsFinal, [Next]_vars, NEW s \in Sessions, ToldOk(s)
  PROVE  entry' = entry
<1>1. ~Written
  BY DEF OkIsFinal, Written
<1>2. QED BY <1>1, EntryStep

(* What the machine is about to say is true when it decides to.            *)
Truthful ==
  /\ reply = "ok" => peer \in proved /\ entry[peer] = {"new"}
  /\ reply = "declined" => "new" \notin entry[peer]

LEMMA TruthfulStep ==
  TypeOK /\ ConsentGiven /\ Truthful /\ [Next]_vars => Truthful'
<1> SUFFICES ASSUME TypeOK, ConsentGiven, Truthful, [Next]_vars PROVE Truthful'
  OBVIOUS
<1>1. CASE Written
  <2>1. reply' # "declined" /\ peer' = peer /\ (reply' = "ok" => entry'[peer] = {"new"})
    BY <1>1 DEF Written
  <2>2. peer \in proved'
    BY <1>1, WrittenWithConsent, Remembered
  <2>3. QED BY <2>1, <2>2 DEF Truthful
<1>2. CASE UNCHANGED <<entry, peer, reply>>
  BY <1>2, Remembered DEF Truthful
<1>3. CASE reply' \notin {"ok", "declined"}
  BY <1>3 DEF Truthful
<1>4. CASE MachineAction /\ ~Written
  <2>1. UNCHANGED entry
    BY <1>4, EntryStep
  <2>2. CASE JudgeRequest
    <3>1. peer' = peer /\ (reply' = reply \/ reply' \in Refusals \ {"declined"}
                          \/ (reply' = "ok" /\ req = "right" /\ entry[peer] = {"new"}))
      BY <2>2 DEF JudgeRequest, Replies, Refusals
    <3>2. mpc \in Judging
      BY <2>2 DEF JudgeRequest, Judging
    <3>3. CASE reply' = "ok" /\ req = "right" /\ entry[peer] = {"new"}
      BY <2>1, <3>1, <3>2, <3>3, Remembered DEF ConsentGiven, Truthful
    <3>4. QED BY <1>2, <1>3, <2>1, <3>1, <3>3 DEF Refusals
  <2>3. ASSUME NEW yes \in BOOLEAN, OperatorDecides(yes) PROVE Truthful'
    <3>1. peer' = peer /\ (reply' = reply \/ reply' = "declined") /\ mpc = "ask"
      BY <2>3 DEF OperatorDecides, Replies
    <3>2. "new" \notin entry[peer]
      BY <3>1 DEF ConsentGiven
    <3>3. CASE reply' = "declined"
      BY <2>1, <3>1, <3>2, <3>3 DEF Truthful
    <3>4. QED BY <1>2, <2>1, <3>1, <3>3
  <2>4. CASE ~JudgeRequest /\ ~\E yes \in BOOLEAN : OperatorDecides(yes)
    <3>1. CASE Enrol \/ Revoke
      BY <1>1, <1>3, <3>1, Writing
    <3>2. CASE ~Enrol /\ ~Revoke
      <4>1. UNCHANGED <<peer, reply>> \/ reply' = "none"
        BY <1>4, <2>4, <3>2 DEF MachineAction, MachineStep, ListenEnds, SendChallenge,
           ReadRequest, ReadRequestFails, StopTimers, SendResult, LingerEnds, Returns,
           RequestTimer, WindowEnds, TimerCloses, MachineKilled, machineVars
      <4>2. QED BY <1>2, <1>3, <2>1, <4>1
    <3>3. QED BY <3>1, <3>2
  <2>5. QED BY <2>2, <2>3, <2>4
<1>5. ASSUME NEW s \in Sessions, PhoneAction(s) PROVE Truthful'
  BY <1>2, <1>5, PhoneFrame DEF machineVars, headerVars
<1>6. ASSUME NEW s \in Sessions, NetworkAction(s) PROVE Truthful'
  <2>1. UNCHANGED <<entry, reply>>
    BY <1>6, NetworkFrame DEF headerVars
  <2>2. UNCHANGED peer \/ mpc = "listen"
    BY <1>6, NetworkFrame
  <2>3. mpc = "listen" => reply = "none"
    BY DEF TypeOK
  <2>4. QED BY <1>2, <1>3, <2>1, <2>2, <2>3
<1>7. CASE UNCHANGED vars
  BY <1>2, <1>7 DEF vars, machineVars, headerVars
<1>8. QED BY <1>1, <1>4, <1>5, <1>6, <1>7, NextCases

LEMMA RepliesStep ==
  TypeOK /\ ConsentGiven /\ RepliesAgree /\ OkIsFinal /\ [Next]_vars => RepliesAgree'
<1> SUFFICES ASSUME TypeOK, ConsentGiven, RepliesAgree, OkIsFinal, [Next]_vars
             PROVE  RepliesAgree'
  OBVIOUS
<1>1. Truthful'
  BY TruthfulStep DEF RepliesAgree, Truthful
<1>2. ASSUME NEW s \in Sessions, Pending(s, "ok")' PROVE entry'[s] = {"new"}
  <2>1. CASE Pending(s, "ok")
    <3>1. entry' = entry
      BY <2>1, NothingAfterOk DEF ToldOk
    <3>2. QED BY <2>1, <3>1 DEF RepliesAgree
  <2>2. CASE JustTold(s, "ok")
    BY <1>1, <2>2 DEF JustTold, Truthful
  <2>3. QED BY <1>2, <2>1, <2>2, PendingStep
<1> DEFINE ToldNo(s) == Pending(s, "declined") \/ outcome[s] = "declined"
<1>3. ASSUME NEW s \in Sessions, ToldNo(s)
      PROVE  entry'[s] \subseteq entry[s] /\ (peer = s => mpc = "linger")
  <2>1. peer = s => mpc = "linger"
    BY <1>3 DEF RepliesAgree
  <2>2. CASE Written
    BY <2>1, <2>2 DEF Written, TypeOK
  <2>3. QED BY <2>1, <2>2, EntryStep
<1>4. ASSUME NEW s \in Sessions, Pending(s, "declined")' PROVE "new" \notin entry'[s]
  <2>1. CASE Pending(s, "declined")
    BY <1>3, <2>1 DEF RepliesAgree
  <2>2. CASE JustTold(s, "declined")
    BY <1>1, <2>2 DEF JustTold, Truthful
  <2>3. QED BY <1>4, <2>1, <2>2, PendingStep
<1>5. ASSUME NEW s \in Sessions, outcome'[s] # "none" PROVE ppc'[s] = "over"
  <2>1. outcome[s] # "none" => ppc[s] = "over"
    BY DEF RepliesAgree
  <2>2. CASE MachineAction \/ UNCHANGED vars
    BY <1>5, <2>1, <2>2, MachineFrame DEF phoneVars, vars
  <2>3. ASSUME NEW t \in Sessions, PhoneAction(t) PROVE ppc'[s] = "over"
    BY <1>5, <2>1, <2>3, OutcomeStep
  <2>4. ASSUME NEW t \in Sessions, NetworkAction(t) PROVE ppc'[s] = "over"
    BY <1>5, <2>1, <2>4, NetworkFrame DEF TypeOK
  <2>5. QED BY <2>2, <2>3, <2>4, NextCases
<1>6. ASSUME NEW s \in Sessions, ToldNo(s)', peer' = s PROVE mpc' = "linger"
  <2>1. ToldNo(s) \/ JustTold(s, "declined")
    BY <1>6, ToldDeclinedStep
  <2>2. CASE JustTold(s, "declined")
    BY <2>2 DEF JustTold
  <2>3. CASE ToldNo(s) /\ peer = s
    BY <1>3, <1>6, <2>3, LingerStep
  <2>4. CASE ToldNo(s) /\ peer # s
    <3>1. ~MachineAction
      BY <1>6, <2>4, MachineFrame
    <3>2. PICK t \in Sessions : PhoneAction(t) \/ NetworkAction(t)
      BY <1>6, <2>4, <3>1, NextCases DEF vars, machineVars
    <3>3. NetworkAction(t) /\ ~LinkDies(t) /\ t = s
      BY <1>6, <2>4, <3>2, PhoneFrame, NetworkFrame DEF machineVars
    <3>4. InFlight(toP'[s]) = {} /\ ppc[s] = "dialling" /\ outcome' = outcome
      BY <3>3, NetworkTraffic, NetworkFrame
    <3>5. outcome[s] # "declined"
      BY <3>4 DEF RepliesAgree
    <3>6. QED BY <1>6, <3>4, <3>5 DEF Pending
  <2>5. QED BY <2>1, <2>2, <2>3, <2>4
<1>7. QED BY <1>1, <1>2, <1>4, <1>5, <1>6 DEF RepliesAgree, Truthful, Pending, InFlight, Result

LEMMA ToldStep ==
  TypeOK /\ RepliesAgree /\ OkIsFinal /\ ToldEnrolledIsEnrolled /\ DeclinedIsNotEnrolled
    /\ [Next]_vars => ToldEnrolledIsEnrolled' /\ DeclinedIsNotEnrolled'
<1> SUFFICES ASSUME TypeOK, RepliesAgree, OkIsFinal, ToldEnrolledIsEnrolled,
                    DeclinedIsNotEnrolled, [Next]_vars
             PROVE  ToldEnrolledIsEnrolled' /\ DeclinedIsNotEnrolled'
  OBVIOUS
<1>1. ASSUME NEW s \in Sessions, outcome'[s] = "enrolled" PROVE entry'[s] = {"new"}
  <2>1. ToldOk(s) \/ JustTold(s, "ok")
    BY <1>1, ToldOkStep DEF ToldOk
  <2>2. CASE ToldOk(s)
    BY <2>2, NothingAfterOk DEF ToldOk, RepliesAgree, ToldEnrolledIsEnrolled
  <2>3. CASE JustTold(s, "ok")
    <3>1. entry' = entry
      BY <2>3, EntryStep DEF JustTold, Written
    <3>2. QED BY <2>3, <3>1 DEF JustTold, RepliesAgree
  <2>4. QED BY <2>1, <2>2, <2>3
<1>2. ASSUME NEW s \in Sessions, outcome'[s] = "declined" PROVE "new" \notin entry'[s]
  <2>1. Pending(s, "declined") \/ outcome[s] = "declined" \/ JustTold(s, "declined")
    BY <1>2, ToldDeclinedStep
  <2>2. CASE JustTold(s, "declined")
    <3>1. entry' = entry
      BY <2>2, EntryStep DEF JustTold, Written
    <3>2. QED BY <2>2, <3>1 DEF JustTold, RepliesAgree
  <2>3. CASE Pending(s, "declined") \/ outcome[s] = "declined"
    <3>1. "new" \notin entry[s] /\ (peer = s => mpc = "linger")
      BY <2>3 DEF RepliesAgree, DeclinedIsNotEnrolled
    <3>2. CASE Written
      BY <3>1, <3>2 DEF Written, TypeOK
    <3>3. QED BY <3>1, <3>2, EntryStep
  <2>4. QED BY <2>1, <2>2, <2>3
<1>3. QED BY <1>1, <1>2 DEF ToldEnrolledIsEnrolled, DeclinedIsNotEnrolled

LEMMA PairedStep ==
  TypeOK /\ RepliesAgree /\ PairedMeansEnrolled /\ [Next]_vars => PairedMeansEnrolled'
<1> SUFFICES ASSUME TypeOK, RepliesAgree, PairedMeansEnrolled, [Next]_vars, mpc' = "paired"
             PROVE  \E s \in proved' : entry'[s] = {"new"}
  BY DEF PairedMeansEnrolled
<1>1. mpc = "paired" \/ (mpc = "linger" /\ reply = "ok")
  BY LingerStep
<1>2. entry' = entry
  BY <1>1, EntryStep DEF Written
<1>3. \E s \in proved : entry[s] = {"new"}
  BY <1>1 DEF PairedMeansEnrolled, RepliesAgree
<1>4. QED BY <1>2, <1>3, Remembered

-----------------------------------------------------------------------------
(* Theorems. *)

LEMMA InitIInv == Init => IInv
<1> SUFFICES ASSUME Init PROVE IInv
  OBVIOUS
<1>1. entry = before /\ before \in [Sessions -> SUBSET Keys]
  BY PairingAssumption DEF Init
<1>2. TypeOK
  <2>1. ControlTypes
    BY DEF Init, ControlTypes, MachineSteps, Attending, Judging
  <2>2. HeaderTypes /\ PhoneTypes
    BY <1>1 DEF Init, HeaderTypes, PhoneTypes, PhoneSteps, Running, Connected, Outcomes
  <2>3. EndTypes /\ toP \in Channels(ToPhone) /\ toM \in Channels(ToMachine)
    BY DEF Init, LinkInit, EndTypes, Channels
  <2>4. QED BY <2>1, <2>2, <2>3, TypeParts
<1>3. \A s \in Sessions : InFlight(toM[s]) = {} /\ InFlight(toP[s]) = {}
  <2>1. \A s \in Sessions : toP[s] = <<>> /\ toM[s] = <<>>
    BY DEF Init, LinkInit
  <2>2. InFlight(<<>>) = {}
    BY DEF InFlight
  <2>3. QED BY <2>1, <2>2
<1>4. ConsentGiven
  BY <1>3 DEF Init, ConsentGiven, Judging
<1>5. RepliesAgree /\ OkIsFinal
  BY <1>3 DEF Init, RepliesAgree, OkIsFinal, ToldOk, Pending
<1>6. NothingWithoutConsent /\ NeverWithNeither
  BY <1>1 DEF NothingWithoutConsent, NeverWithNeither
<1>7. ToldEnrolledIsEnrolled /\ DeclinedIsNotEnrolled /\ PairedMeansEnrolled
  BY DEF Init, ToldEnrolledIsEnrolled, DeclinedIsNotEnrolled, PairedMeansEnrolled
<1>8. QED BY <1>2, <1>4, <1>5, <1>6, <1>7 DEF IInv

LEMMA IInvStep == IInv /\ [Next]_vars => IInv'
  BY TypeStep, ConsentStep, RepliesStep, OkIsFinalStep, NothingWithoutConsentStep,
     NeverWithNeitherStep, ToldStep, PairedStep
  DEF IInv

(* A pairing window keeps its inductive invariant: what runPairOnce has     *)
(* established, the replies in flight and what the phones were told agree   *)
(* with the token, whatever fails.                                          *)
THEOREM PairingInvariant == Spec => []IInv
  BY InitIInv, IInvStep, PTL DEF Spec

(* Every variable of a pairing window stays in its type.                    *)
THEOREM PairingTypes == Spec => []TypeOK
<1>1. IInv => TypeOK
  BY DEF IInv
<1>2. QED BY <1>1, PairingInvariant, PTL

(* runPairOnce enrols only a key holder that proved the code and that the   *)
(* operator agreed to (or --yes).                                           *)
THEOREM EnrolsWithConsent == Spec => []NothingWithoutConsent
<1>1. IInv => NothingWithoutConsent
  BY DEF IInv
<1>2. QED BY <1>1, PairingInvariant, PTL

(* What Pairer.Pair reports to the person is so: enrolled, with this key    *)
(* alone, if it says enrolled; not enrolled if it says declined.            *)
THEOREM PhonesToldTheTruth == Spec => [](ToldEnrolledIsEnrolled /\ DeclinedIsNotEnrolled)
<1>1. IInv => ToldEnrolledIsEnrolled /\ DeclinedIsNotEnrolled
  BY DEF IInv
<1>2. QED BY <1>1, PairingInvariant, PTL

(* A key holder that could unlock the volume when the window opened can     *)
(* throughout, unless cryptsetup loses the token (replaceRecipient).        *)
THEOREM ReplacingKeepsOne == Spec => []NeverWithNeither
<1>1. IInv => NeverWithNeither
  BY DEF IInv
<1>2. QED BY <1>1, PairingInvariant, PTL

(* runPair reports a pairing only if one was made.                          *)
THEOREM PairedIsTrue == Spec => []PairedMeansEnrolled
<1>1. IInv => PairedMeansEnrolled
  BY DEF IInv
<1>2. QED BY <1>1, PairingInvariant, PTL

(* Of any number of key holders that answer one code, at most one is told   *)
(* that it has been enrolled (runPair).                                     *)
THEOREM OneHolder == Spec => []OneHolderPerWindow
<1>1. IInv => OneHolderPerWindow
  BY DEF IInv, OkIsFinal, ToldOk, OneHolderPerWindow
<1>2. QED BY <1>1, PairingInvariant, PTL
=============================================================================
