--------------------------- MODULE ExchangeProofs ---------------------------
(* Proofs about Exchange, for any sessions, challenges, prompts and faults. *)
EXTENDS Exchange, LinkProofs

USE ConstantsAssumption

(* The messages each side sends are messages of its channel. *)
LEMMA MessageTypes ==
  /\ Hello \in ToPhone
  /\ \A c \in Challenges : Request(c) \in ToPhone
  /\ \A ok \in BOOLEAN : Result(ok) \in ToPhone
  /\ \A c \in Challenges : \A k \in {"right", "wrong"} : Answer(c, k) \in ToMachine
  /\ Declined \in ToMachine
  BY DEF ToPhone, ToMachine

(* The machine's writes, its closes and its reads keep the channels typed. *)
LEMMA MachineEndTyped ==
  ASSUME TypeOK, NEW s \in Sessions
  PROVE  /\ \A m \in ToPhone : MachineWrites(s, m) => toP' \in [Sessions -> Seq(ToPhone)]
         /\ MachineCloses(s) => /\ toP' \in [Sessions -> Seq(ToPhone)]
                                /\ mOpen' \in [Sessions -> BOOLEAN]
         /\ \A m : MachineReads(s, m) => toM' \in [Sessions -> Seq(ToMachine)]
<1>1. /\ toP \in Channels(ToPhone) /\ toM \in Channels(ToMachine)
      /\ mOpen \in [Sessions -> BOOLEAN]
  BY DEF TypeOK, Channels
<1>2. QED BY <1>1, MachineEnd DEF Channels

(* So do the key holder's writes, closes and reads, and a fresh link.      *)
LEMMA PhoneEndTyped ==
  ASSUME TypeOK, NEW s \in Sessions
  PROVE  /\ \A m \in ToMachine : PhoneWrites(s, m) => toM' \in [Sessions -> Seq(ToMachine)]
         /\ PhoneCloses(s) => /\ toP' \in [Sessions -> Seq(ToPhone)]
                              /\ pOpen' \in [Sessions -> BOOLEAN]
         /\ \A m : PhoneReads(s, m) => toP' \in [Sessions -> Seq(ToPhone)]
         /\ \A m, p \in BOOLEAN : FreshLink(s, m, p) =>
              /\ toP' \in [Sessions -> Seq(ToPhone)] /\ toM' \in [Sessions -> Seq(ToMachine)]
              /\ up' \in [Sessions -> BOOLEAN] /\ mOpen' \in [Sessions -> BOOLEAN]
              /\ pOpen' \in [Sessions -> BOOLEAN]
<1>1. /\ toP \in Channels(ToPhone) /\ toM \in Channels(ToMachine)
      /\ up \in [Sessions -> BOOLEAN] /\ mOpen \in [Sessions -> BOOLEAN]
      /\ pOpen \in [Sessions -> BOOLEAN]
  BY DEF TypeOK, Channels
<1>2. /\ \A m \in ToMachine : PhoneWrites(s, m) => toM' \in Channels(ToMachine)
      /\ \A m : PhoneReads(s, m) => toP' \in Channels(ToPhone)
      /\ PhoneCloses(s) => toP' \in Channels(ToPhone) /\ pOpen' \in [Sessions -> BOOLEAN]
  BY <1>1, PhoneEnd
<1>3. ASSUME NEW m \in BOOLEAN, NEW p \in BOOLEAN, FreshLink(s, m, p)
      PROVE  /\ toP' \in Channels(ToPhone) /\ toM' \in Channels(ToMachine)
             /\ up' \in [Sessions -> BOOLEAN] /\ mOpen' \in [Sessions -> BOOLEAN]
             /\ pOpen' \in [Sessions -> BOOLEAN]
  BY <1>1, <1>3, Fresh
<1>4. QED BY <1>2, <1>3 DEF Channels

(* A step keeps every variable in its type; AnswerWithScalar needs that    *)
(* the session holds a challenge by then.                                  *)
LEMMA TypeStep == TypeOK /\ SessionPhases /\ [Next]_vars => TypeOK'
<1> SUFFICES ASSUME TypeOK, SessionPhases, [Next]_vars PROVE TypeOK'
  OBVIOUS
<1> USE DEF TypeOK, agentVars, volumeVars, sessionVars, linkVars, historyVars, AgentSteps,
            InExchange, SessionSteps, Outcomes, Goto, Ends
<1>1. CASE StartAttempt
  BY <1>1 DEF StartAttempt
<1>2. CASE ListenEnds
  BY <1>2 DEF ListenEnds
<1>3. CASE SendHello
  BY <1>3, MessageTypes, MachineEndTyped DEF SendHello, HangUp
<1>4. CASE SendRequest
  BY <1>4, MessageTypes, MachineEndTyped DEF SendRequest, HangUp
<1>5. CASE ReadResponse
  BY <1>5, MachineEndTyped DEF ReadResponse, HangUp
<1>6. CASE ReadResponseFails
  BY <1>6, MachineEndTyped DEF ReadResponseFails, HangUp, MachineReadFails
<1>7. CASE Finish
  BY <1>7 DEF Finish, Settles
<1>8. CASE VerifyPassphrase
  BY <1>8 DEF VerifyPassphrase, Settles
<1>9. CASE AnswerAskPassword
  <2>1. peer \in Sessions
    BY <1>9 DEF AnswerAskPassword
  <2>2. opened' \in BOOLEAN
    BY <1>9 DEF AnswerAskPassword, MayOpen
  <2>3. prompts' \subseteq Prompts /\ sentTo' \subseteq Prompts \X Sessions
    <3>1. ASSUME NEW p \in Prompts, prompts' = prompts \ {p}, sentTo' = sentTo \cup {<<p, peer>>}
          PROVE  prompts' \subseteq Prompts /\ sentTo' \subseteq Prompts \X Sessions
      <4>1. <<p, peer>> \in Prompts \X Sessions
        BY <2>1
      <4>2. QED BY <3>1, <4>1
    <3>2. CASE UNCHANGED <<prompts, sentTo>>
      BY <3>2
    <3>3. QED BY <1>9, <3>1, <3>2 DEF AnswerAskPassword
  <2>4. QED BY <1>9, <2>2, <2>3 DEF AnswerAskPassword, Settles
<1>10. CASE OpenVolume
  BY <1>10 DEF OpenVolume, Settles
<1>11. CASE Report
  BY <1>11, MessageTypes, MachineEndTyped DEF Report, MachineWriteFails
<1>12. CASE LingerReads
  BY <1>12, MachineEndTyped DEF LingerReads
<1>13. CASE PeerClosed
  BY <1>13, MachineEndTyped DEF PeerClosed, HangUp, MachineReadFails
<1>14. CASE LingerTimeout
  BY <1>14, MachineEndTyped DEF LingerTimeout, HangUp, Mark
<1>15. CASE ExchangeTimeout
  BY <1>15, MachineEndTyped DEF ExchangeTimeout, Mark
<1>16. CASE StopAgent
  BY <1>16, MachineEndTyped DEF StopAgent, Mark
<1>17. ASSUME NEW p \in Prompts, PromptAppears(p) \/ PromptGoes(p) PROVE TypeOK'
  BY <1>17 DEF PromptAppears, PromptGoes, MayOpen
<1>18. ASSUME NEW s \in Sessions, DialFails(s) PROVE TypeOK'
  BY <1>18 DEF DialFails
<1>19. ASSUME NEW s \in Sessions, ReadHello(s) PROVE TypeOK'
  BY <1>19, MessageTypes, PhoneEndTyped DEF ReadHello
<1>20. ASSUME NEW s \in Sessions, ReadRequest(s) PROVE TypeOK'
  BY <1>20, MessageTypes, PhoneEndTyped DEF ReadRequest
<1>21. ASSUME NEW s \in Sessions, ConnectReadFails(s) PROVE TypeOK'
  BY <1>21, PhoneEndTyped DEF ConnectReadFails
<1>22. ASSUME NEW s \in Sessions, RetryConnect(s) PROVE TypeOK'
  <2>1. UNCHANGED <<agentVars, volumeVars, enrolled, x, answered, cancelled, ctxDone,
                    linkVars, historyVars>>
    BY <1>22 DEF RetryConnect
  <2>2. spc' \in [Sessions -> SessionSteps] /\ outcome' \in [Sessions -> Outcomes]
    <3>1. CASE Goto(s, "failed") /\ (Ends(s, "cancelled") \/ Ends(s, "unreachable"))
      BY <3>1
    <3>2. CASE Goto(s, "dialling") /\ UNCHANGED outcome
      BY <3>2
    <3>3. QED BY <1>22, <3>1, <3>2 DEF RetryConnect
  <2>3. QED BY <2>1, <2>2
<1>23. ASSUME NEW s \in Sessions, ConnectReturns(s) PROVE TypeOK'
  BY <1>23 DEF ConnectReturns
<1>24. ASSUME NEW s \in Sessions, ReadVerdict(s) PROVE TypeOK'
  BY <1>24, MessageTypes, PhoneEndTyped DEF ReadVerdict
<1>25. ASSUME NEW s \in Sessions, VerdictLost(s) PROVE TypeOK'
  BY <1>25 DEF VerdictLost
<1>26. ASSUME NEW s \in Sessions, Connect(s) PROVE TypeOK'
  <2>1. UNCHANGED <<agentVars, volumeVars, enrolled, x, answered, cancelled, linkVars,
                    historyVars>>
    BY <1>26 DEF Connect
  <2>2. /\ spc' \in [Sessions -> SessionSteps] /\ outcome' \in [Sessions -> Outcomes]
        /\ ctxDone' \in [Sessions -> BOOLEAN]
    BY <1>26 DEF Connect
  <2>3. QED BY <2>1, <2>2
<1>27. ASSUME NEW s \in Sessions, Cancel(s) PROVE TypeOK'
  <2>1. UNCHANGED <<agentVars, volumeVars, enrolled, spc, x, answered, outcome, up, mOpen,
                    toM, settled>>
    BY <1>27 DEF Cancel
  <2>2. PhoneCloses(s) \/ UNCHANGED <<pOpen, toP>>
    BY <1>27 DEF Cancel, EndCtx
  <2>3. toP' \in [Sessions -> Seq(ToPhone)] /\ pOpen' \in [Sessions -> BOOLEAN]
    BY <2>2, PhoneEndTyped
  <2>4. /\ ctxDone' \in [Sessions -> BOOLEAN] /\ disturbed' \in [Sessions -> BOOLEAN]
        /\ cancelled' \in [Sessions -> BOOLEAN]
    BY <1>27 DEF Cancel, EndCtx, Mark
  <2>5. QED BY <2>1, <2>3, <2>4
<1>28. ASSUME NEW s \in Sessions, AnswerWithScalar(s) PROVE TypeOK'
  <2> DEFINE m == Answer(x[s], IF enrolled[s] = "otherKey" THEN "wrong" ELSE "right")
  <2>1. m \in ToMachine
    BY <1>28, MessageTypes DEF AnswerWithScalar, SessionPhases
  <2>2. toM' \in [Sessions -> Seq(ToMachine)]
    <3> HIDE DEF m
    <3>1. PhoneWrites(s, m) => toM' \in [Sessions -> Seq(ToMachine)]
      BY <2>1, PhoneEndTyped
    <3>2. PhoneWrites(s, m) \/ UNCHANGED toM
      BY <1>28 DEF m, AnswerWithScalar, PhoneWriteFails
    <3>3. QED BY <3>1, <3>2
  <2>3. UNCHANGED <<agentVars, volumeVars, enrolled, x, cancelled, ctxDone, up, mOpen, pOpen,
                    toP, historyVars>>
    BY <1>28 DEF AnswerWithScalar
  <2>4. /\ spc' \in [Sessions -> SessionSteps] /\ outcome' \in [Sessions -> Outcomes]
        /\ answered' \in [Sessions -> BOOLEAN]
    <3>1. CASE Goto(s, "over") /\ (Ends(s, "keyMismatch") \/ Ends(s, "hungUp"))
               /\ UNCHANGED answered
      BY <3>1
    <3>2. CASE Goto(s, "verdict") /\ UNCHANGED outcome
               /\ answered' = [answered EXCEPT ![s] = TRUE]
      BY <3>2
    <3>3. QED BY <1>28, <3>1, <3>2 DEF AnswerWithScalar
  <2>5. QED BY <2>2, <2>3, <2>4
<1>29. ASSUME NEW s \in Sessions, Decline(s) PROVE TypeOK'
  <2>1. UNCHANGED <<agentVars, volumeVars, enrolled, x, cancelled, ctxDone, up, mOpen, pOpen,
                    toP, historyVars>>
    BY <1>29 DEF Decline
  <2>2. PhoneWrites(s, Declined) \/ UNCHANGED toM
    BY <1>29 DEF Decline, PhoneWriteFails
  <2>3. toM' \in [Sessions -> Seq(ToMachine)]
    BY <2>2, MessageTypes, PhoneEndTyped
  <2>4. /\ spc' \in [Sessions -> SessionSteps]
        /\ answered' \in [Sessions -> BOOLEAN]
        /\ outcome' \in [Sessions -> Outcomes]
    BY <1>29 DEF Decline, Goto, Ends, SessionSteps, Outcomes
  <2>5. QED BY <2>1, <2>3, <2>4 DEF agentVars, volumeVars, historyVars
<1>30. ASSUME NEW s \in Sessions, Close(s) PROVE TypeOK'
  BY <1>30, PhoneEndTyped DEF Close
<1>31. ASSUME NEW s \in Sessions, Establish(s) PROVE TypeOK'
  BY <1>31, PhoneEndTyped DEF Establish
<1>32. ASSUME NEW s \in Sessions, MachineEndOnly(s) PROVE TypeOK'
  BY <1>32, PhoneEndTyped DEF MachineEndOnly
<1>33. ASSUME NEW s \in Sessions, PhoneEndOnly(s) PROVE TypeOK'
  <2>1. PICK m \in BOOLEAN : FreshLink(s, m, TRUE)
    BY <1>33 DEF PhoneEndOnly
  <2>2. <<>> \in Seq(ToPhone) /\ <<>> \in Seq(ToMachine)
    OBVIOUS
  <2>3. /\ toP' \in [Sessions -> Seq(ToPhone)] /\ toM' \in [Sessions -> Seq(ToMachine)]
        /\ up' \in [Sessions -> BOOLEAN] /\ mOpen' \in [Sessions -> BOOLEAN]
        /\ pOpen' \in [Sessions -> BOOLEAN]
    BY <2>1, <2>2 DEF FreshLink
  <2>4. QED BY <1>33, <2>3 DEF PhoneEndOnly
<1>34. ASSUME NEW s \in Sessions, LinkDies(s) PROVE TypeOK'
  BY <1>34 DEF LinkDies, Mark
<1>35. ASSUME NEW s \in Sessions, ConnectDeadline(s) PROVE TypeOK'
  <2>1. UNCHANGED <<agentVars, volumeVars, enrolled, spc, x, answered, cancelled, outcome,
                    up, mOpen, toM, settled>>
    BY <1>35 DEF ConnectDeadline
  <2>2. PhoneCloses(s) \/ UNCHANGED <<pOpen, toP>>
    BY <1>35 DEF ConnectDeadline, EndCtx
  <2>3. toP' \in [Sessions -> Seq(ToPhone)] /\ pOpen' \in [Sessions -> BOOLEAN]
    BY <2>2, PhoneEndTyped
  <2>4. ctxDone' \in [Sessions -> BOOLEAN] /\ disturbed' \in [Sessions -> BOOLEAN]
    BY <1>35 DEF ConnectDeadline, EndCtx, Mark
  <2>5. QED BY <2>1, <2>3, <2>4
<1>36. ASSUME NEW s \in Sessions, ReplyTimeout(s) PROVE TypeOK'
  BY <1>36, PhoneEndTyped DEF ReplyTimeout, Mark
<1>37. ASSUME NEW s \in Sessions, Killed(s) PROVE TypeOK'
  BY <1>37, PhoneEndTyped DEF Killed, Mark
<1>38. CASE UNCHANGED vars
  BY <1>38 DEF vars
<1>39. QED
  BY <1>1, <1>2, <1>3, <1>4, <1>5, <1>6, <1>7, <1>8, <1>9, <1>10, <1>11, <1>12, <1>13, <1>14, <1>15, <1>16, <1>17, <1>18, <1>19, <1>20, <1>21, <1>22, <1>23, <1>24, <1>25, <1>26, <1>27, <1>28, <1>29, <1>30, <1>31, <1>32, <1>33, <1>34, <1>35, <1>36, <1>37, <1>38
  DEF Next, AgentStep, SessionStep, Person, Network

-----------------------------------------------------------------------------
(* What the two sides leave alone. *)

Prompting == \E p \in Prompts : PromptAppears(p) \/ PromptGoes(p)

(* The agent and the prompts never touch a session (agent.go).             *)
LEMMA AgentFrame ==
  AgentStep \/ ExchangeTimeout \/ StopAgent \/ Prompting => UNCHANGED <<sessionVars, enrolled>>
  BY DEF AgentStep, StartAttempt, ListenEnds, SendHello, SendRequest, ReadResponse,
         ReadResponseFails, Finish, VerifyPassphrase, AnswerAskPassword, OpenVolume, Report,
         LingerReads, PeerClosed, LingerTimeout, ExchangeTimeout, StopAgent, Prompting,
         PromptAppears, PromptGoes

SessionAction(s) ==
  SessionStep(s) \/ Person(s) \/ ConnectDeadline(s) \/ ReplyTimeout(s) \/ Killed(s)

(* A session never touches the agent or its decision (mobile.go).          *)
LEMMA SessionFrame ==
  ASSUME NEW s \in Sessions, SessionAction(s)
  PROVE  UNCHANGED <<agentVars, enrolled, settled>>
  BY DEF SessionAction, SessionStep, Person, DialFails, ReadHello, ReadRequest, ConnectReadFails,
         RetryConnect, ConnectReturns, ReadVerdict, VerdictLost, Connect, Cancel,
         AnswerWithScalar, Decline, Close, ConnectDeadline, ReplyTimeout, Killed, historyVars

(* The network moves no challenge, answer, outcome or decision.            *)
LEMMA NetworkFrame ==
  ASSUME NEW s \in Sessions, Network(s)
  PROVE  /\ UNCHANGED <<x, answered, outcome, enrolled, settled, resp, verdict>>
         /\ \/ UNCHANGED <<spc, peer, mpc>>
            \/ spc[s] = "dialling" /\ spc' \in {spc, [spc EXCEPT ![s] = "hello"]}
  BY DEF Network, Establish, MachineEndOnly, PhoneEndOnly, LinkDies, sessionVars, agentVars,
         historyVars

(* A step is the agent's, a session's, the network's, or a stutter.        *)
LEMMA NextCases ==
  ASSUME [Next]_vars
  PROVE  \/ AgentStep \/ ExchangeTimeout \/ StopAgent \/ Prompting
         \/ \E s \in Sessions : SessionAction(s) \/ Network(s)
         \/ UNCHANGED vars
  BY DEF Next, Prompting, SessionAction

-----------------------------------------------------------------------------
(* The phases of a session. *)

(* A session that may still answer has not answered or been told anything. *)
LEMMA SessionPhasesStep ==
  TypeOK /\ SessionPhases /\ [Next]_vars => SessionPhases'
<1> SUFFICES ASSUME TypeOK, SessionPhases, [Next]_vars PROVE SessionPhases'
  OBVIOUS
<1>1. CASE UNCHANGED <<spc, x, answered, outcome>>
  BY <1>1 DEF SessionPhases
<1>2. CASE AgentStep \/ ExchangeTimeout \/ StopAgent \/ Prompting \/ UNCHANGED vars
  BY <1>1, <1>2, AgentFrame DEF vars, sessionVars
<1>3. ASSUME NEW s \in Sessions, Network(s) PROVE SessionPhases'
  BY <1>3, NetworkFrame DEF SessionPhases, TypeOK, Connecting
<1>4. ASSUME NEW s \in Sessions, SessionAction(s) PROVE SessionPhases'
  <2> USE DEF SessionPhases, TypeOK, Connecting, Goto, Ends
  <2>1. CASE SessionStep(s)
    BY <2>1 DEF SessionStep, DialFails, ReadHello, ReadRequest, ConnectReadFails,
                RetryConnect, ConnectReturns, ReadVerdict, VerdictLost
  <2>2. CASE Connect(s) \/ Cancel(s) \/ Decline(s) \/ Close(s)
    BY <2>2 DEF Connect, Cancel, Decline, Close
  <2>3. CASE AnswerWithScalar(s)
    BY <2>3 DEF AnswerWithScalar
  <2>4. CASE ConnectDeadline(s) \/ ReplyTimeout(s) \/ Killed(s)
    BY <2>4 DEF ConnectDeadline, ReplyTimeout, Killed, sessionVars
  <2>5. QED BY <1>4, <2>1, <2>2, <2>3, <2>4 DEF SessionAction, Person
<1>5. QED BY <1>2, <1>3, <1>4, NextCases

-----------------------------------------------------------------------------
(* A channel loses messages, or its oldest is read: what remains was there. *)

Shrinks(new, old) == \A s \in Sessions :
  \/ new[s] = old[s]
  \/ new[s] = <<>>
  \/ old[s] # <<>> /\ new[s] = Tail(old[s])

(* The elements of a sequence that lost its head, or everything, are       *)
(* elements of the original, all shifted alike.                            *)
LEMMA ShrinkElements ==
  ASSUME NEW S, NEW q \in Seq(S), NEW r,
         r = q \/ r = <<>> \/ (q # <<>> /\ r = Tail(q))
  PROVE  \E d \in {0, 1} : \A i \in DOMAIN r : i \in Int /\ i + d \in DOMAIN q /\ r[i] = q[i + d]
<1>1. CASE r = q
  <2>1. \A i \in DOMAIN r : i \in Int /\ i + 0 \in DOMAIN q /\ r[i] = q[i + 0]
    BY <1>1
  <2>2. QED BY <2>1
<1>2. CASE r = <<>>
  BY <1>2
<1>3. CASE q # <<>> /\ r = Tail(q)
  <2>1. \A i \in DOMAIN r : i \in Int /\ i + 1 \in DOMAIN q /\ r[i] = q[i + 1]
    BY <1>3
  <2>2. QED BY <2>1
<1>4. QED BY <1>1, <1>2, <1>3

(* The elements of a sequence one longer are its own, and the new one.     *)
LEMMA AppendElements ==
  ASSUME NEW S, NEW q \in Seq(S), NEW m \in S
  PROVE  \A i \in DOMAIN Append(q, m) :
           \/ i \in DOMAIN q /\ Append(q, m)[i] = q[i]
           \/ i \notin DOMAIN q /\ i = Len(q) + 1 /\ Append(q, m)[i] = m
  OBVIOUS

(* ShrinkElements, of each session's channel.                              *)
LEMMA ShrinksElements ==
  ASSUME NEW S, NEW old \in [Sessions -> Seq(S)], NEW new, Shrinks(new, old), NEW s \in Sessions
  PROVE  \E d \in {0, 1} : \A i \in DOMAIN new[s] :
           i \in Int /\ i + d \in DOMAIN old[s] /\ new[s][i] = old[s][i + d]
<1>1. old[s] \in Seq(S)
  OBVIOUS
<1>2. new[s] = old[s] \/ new[s] = <<>> \/ (old[s] # <<>> /\ new[s] = Tail(old[s]))
  BY DEF Shrinks
<1>3. QED BY <1>1, <1>2, ShrinkElements

(* The agent only takes from the channel to it.                            *)
LEMMA AgentShrinks ==
  ASSUME TypeOK, AgentStep \/ ExchangeTimeout \/ StopAgent \/ Prompting
  PROVE  Shrinks(toM', toM)
<1> USE DEF TypeOK, Shrinks
<1>1. CASE UNCHANGED toM
  BY <1>1
<1>2. CASE ReadResponse
  <2>1. peer \in Sessions
    BY <1>2 DEF ReadResponse, InExchange
  <2>2. PICK m \in ToMachine : MachineReads(peer, m)
    BY <1>2 DEF ReadResponse
  <2>3. QED BY <2>1, <2>2 DEF MachineReads
<1>4. CASE LingerReads
  <2>1. peer \in Sessions
    BY <1>4 DEF LingerReads, InExchange
  <2>2. PICK m \in ToMachine : MachineReads(peer, m)
    BY <1>4 DEF LingerReads
  <2>3. QED BY <2>1, <2>2 DEF MachineReads
<1>5. CASE ReadResponseFails \/ PeerClosed
  BY <1>1, <1>5 DEF ReadResponseFails, PeerClosed, MachineReadFails
<1>3. QED
  BY <1>1, <1>2, <1>4, <1>5 DEF AgentStep, StartAttempt, ListenEnds, SendHello, SendRequest, Finish,
     VerifyPassphrase, AnswerAskPassword, OpenVolume, Report, LingerTimeout, linkVars,
     ExchangeTimeout, StopAgent, Prompting, PromptAppears, PromptGoes

(* Only AnswerWithScalar and Decline add to the channel to the machine.    *)
LEMMA OthersShrink ==
  ASSUME TypeOK, NEW s \in Sessions,
         Network(s) \/ (SessionAction(s) /\ ~AnswerWithScalar(s) /\ ~Decline(s))
  PROVE  Shrinks(toM', toM)
<1> USE DEF TypeOK, Shrinks
<1>1. CASE Network(s)
  <2>1. toM' = [toM EXCEPT ![s] = <<>>] \/ UNCHANGED toM
    BY <1>1 DEF Network, Establish, MachineEndOnly, PhoneEndOnly, LinkDies, FreshLink
  <2>2. QED BY <2>1
<1>2. CASE SessionAction(s) /\ ~AnswerWithScalar(s) /\ ~Decline(s)
  <2>1. UNCHANGED toM
    BY <1>2 DEF SessionAction, SessionStep, Person, DialFails, ReadHello, ReadRequest,
       ConnectReadFails, RetryConnect, ConnectReturns, ReadVerdict, VerdictLost, Connect, Cancel,
       Close, ConnectDeadline, ReplyTimeout, Killed, linkVars
  <2>2. QED BY <2>1
<1>3. QED BY <1>1, <1>2

-----------------------------------------------------------------------------
(* One answer, one place. *)

(* A step that only moves the answer out of the machine's hands, or out of *)
(* the channel, and decides nothing.                                       *)
LEMMA QuietAnswers ==
  ASSUME TypeOK, AnsweredOnce, Shrinks(toM', toM),
         \A s \in Sessions : AnswerInUse(s)' => AnswerInUse(s),
         \A s \in Sessions : outcome'[s] = "declined" => outcome[s] = "declined",
         UNCHANGED <<answered, settled>>
  PROVE  AnsweredOnce'
<1> SUFFICES ASSUME NEW s \in Sessions
             PROVE  /\ AnswerPending(s)' => AnswerPending(s)
                    /\ \A i, j \in DOMAIN toM'[s] :
                         toM'[s][i].type = "answer" /\ toM'[s][j].type = "answer" => i = j
  BY DEF AnsweredOnce
<1>1. toM \in [Sessions -> Seq(ToMachine)]
  BY DEF TypeOK
<1>2. PICK d \in {0, 1} : \A i \in DOMAIN toM'[s] :
        i \in Int /\ i + d \in DOMAIN toM[s] /\ toM'[s][i] = toM[s][i + d]
  BY <1>1, ShrinksElements
<1>3. AnswerPending(s)' => AnswerPending(s)
  BY <1>2 DEF AnswerPending
<1>4. ASSUME NEW i \in DOMAIN toM'[s], NEW j \in DOMAIN toM'[s],
             toM'[s][i].type = "answer", toM'[s][j].type = "answer"
      PROVE  i = j
  <2>1. i + d = j + d
    BY <1>2, <1>4 DEF AnsweredOnce
  <2>2. i \in Int /\ j \in Int /\ d \in Int
    BY <1>2
  <2>3. QED BY <2>1, <2>2
<1>5. QED BY <1>3, <1>4

(* At most one answer of a session exists: in flight, in use, or decided.  *)
LEMMA AnsweredOnceStep ==
  TypeOK /\ SessionPhases /\ AnsweredOnce /\ [Next]_vars => AnsweredOnce'
<1> SUFFICES ASSUME TypeOK, SessionPhases, AnsweredOnce, [Next]_vars PROVE AnsweredOnce'
  OBVIOUS
<1> USE DEF TypeOK
<1>1. ASSUME UNCHANGED <<answered, settled, outcome>>, Shrinks(toM', toM),
             \A s \in Sessions : AnswerInUse(s)' => AnswerInUse(s)
      PROVE  AnsweredOnce'
  BY <1>1, QuietAnswers
<1>2. CASE /\ StartAttempt \/ ListenEnds \/ SendHello \/ SendRequest \/ ReadResponseFails \/ Report
                \/ LingerReads \/ PeerClosed \/ LingerTimeout \/ ExchangeTimeout \/ StopAgent
                \/ Prompting
  <2>1. UNCHANGED <<answered, settled, outcome>>
    BY <1>2, AgentFrame DEF AgentStep, StartAttempt, ListenEnds, SendHello, SendRequest,
       ReadResponseFails, Report, LingerReads, PeerClosed, LingerTimeout, ExchangeTimeout,
       StopAgent, Prompting, PromptAppears, PromptGoes, sessionVars, historyVars
  <2>2. \A s \in Sessions : AnswerInUse(s)' => AnswerInUse(s)
    BY <1>2 DEF StartAttempt, ListenEnds, SendHello, SendRequest, ReadResponseFails, Report,
       LingerReads, PeerClosed, LingerTimeout, ExchangeTimeout, StopAgent, Prompting,
       PromptAppears, PromptGoes, HangUp, agentVars, AnswerInUse, InExchange
  <2>3. Shrinks(toM', toM)
    BY <1>2, AgentShrinks DEF AgentStep
  <2>4. QED BY <1>1, <2>1, <2>2, <2>3
<1>3. CASE ReadResponse
  <2>1. PICK m \in ToMachine :
          /\ MachineReads(peer, m)
          /\ \/ m.type = "answer" /\ mpc' = "finish" /\ UNCHANGED peer
             \/ m.type = "declined" /\ HangUp(FALSE)
    BY <1>3 DEF ReadResponse
  <2>2. /\ mpc = "await" /\ peer \in Sessions
        /\ UNCHANGED <<answered, settled, outcome>>
    BY <1>3 DEF ReadResponse, InExchange, sessionVars, historyVars
  <2>3. Shrinks(toM', toM)
    BY <2>1, <2>2 DEF MachineReads, Shrinks
  <2>4. CASE m.type = "declined"
    BY <1>1, <2>1, <2>2, <2>3, <2>4 DEF HangUp, AnswerInUse
  <2>5. CASE m.type = "answer"
    <3>1. 1 \in DOMAIN toM[peer] /\ toM[peer][1].type = "answer"
      BY <2>1, <2>2, <2>5 DEF MachineReads
    <3>2. AnswerPending(peer) /\ \A i \in DOMAIN toM[peer] : toM[peer][i].type = "answer" => i = 1
      BY <3>1, <2>2 DEF AnswerPending, AnsweredOnce
    <3>3. toM' = [toM EXCEPT ![peer] = Tail(@)] /\ toM[peer] \in Seq(ToMachine) /\ toM[peer] # <<>>
      BY <2>1, <2>2 DEF MachineReads
    <3>4. \A i \in DOMAIN toM'[peer] : i \in Nat \ {0} /\ i + 1 \in DOMAIN toM[peer] /\ toM'[peer][i] = toM[peer][i + 1]
      BY <3>3, <2>2
    <3>5. \A i \in DOMAIN toM'[peer] : toM'[peer][i].type # "answer"
      BY <3>2, <3>4
    <3>6. peer' = peer /\ mpc' = "finish"
      BY <2>1, <2>5 DEF HangUp
    <3> SUFFICES ASSUME NEW s \in Sessions
                 PROVE  /\ AnswerPending(s)' \/ AnswerInUse(s)' => settled[s] = "open"
                        /\ AnswerPending(s)' \/ AnswerInUse(s)' \/ settled[s] # "open"
                             => answered[s] /\ outcome[s] # "declined"
                        /\ ~(AnswerPending(s)' /\ AnswerInUse(s)')
                        /\ \A i, j \in DOMAIN toM'[s] :
                             toM'[s][i].type = "answer" /\ toM'[s][j].type = "answer" => i = j
      BY <2>2 DEF AnsweredOnce
    <3>7. CASE s = peer
      BY <2>2, <3>2, <3>5, <3>6, <3>7 DEF AnsweredOnce, AnswerPending, AnswerInUse
    <3>8. CASE s # peer
      BY <2>2, <3>3, <3>6, <3>8 DEF AnsweredOnce, AnswerPending, AnswerInUse
    <3>9. QED BY <3>7, <3>8
  <2>6. QED BY <2>1, <2>4, <2>5
<1>4. CASE Finish \/ VerifyPassphrase \/ AnswerAskPassword \/ OpenVolume
  <2>1. /\ AnswerInUse(peer) /\ peer \in Sessions
        /\ UNCHANGED <<peer, answered, outcome, toM>>
    BY <1>4 DEF Finish, VerifyPassphrase, AnswerAskPassword, OpenVolume, AnswerInUse, InExchange,
                sessionVars, linkVars
  <2>2. CASE UNCHANGED settled /\ mpc' \in {"verify", "deliver"}
    BY <2>1, <2>2 DEF AnsweredOnce, AnswerInUse, AnswerPending
  <2>3. CASE \E ok \in BOOLEAN : Settles(ok)
    BY <2>1, <2>3 DEF Settles, AnsweredOnce, AnswerInUse, AnswerPending
  <2>4. QED
    BY <1>4, <2>2, <2>3 DEF Finish, VerifyPassphrase, AnswerAskPassword, OpenVolume
<1>5. ASSUME NEW s \in Sessions, Network(s) PROVE AnsweredOnce'
  <2>1. \A t \in Sessions : AnswerInUse(t)' => AnswerInUse(t)
    BY <1>5 DEF Network, Establish, MachineEndOnly, PhoneEndOnly, LinkDies, AnswerInUse, agentVars
  <2>2. UNCHANGED <<answered, settled, outcome>>
    BY <1>5, NetworkFrame
  <2>3. QED BY <1>1, <1>5, <2>1, <2>2, OthersShrink
<1>6. ASSUME NEW s \in Sessions, SessionAction(s) PROVE AnsweredOnce'
  <2>1. UNCHANGED <<mpc, peer, settled>>
    BY <1>6, SessionFrame DEF agentVars
  <2>2. \A t \in Sessions : AnswerInUse(t)' <=> AnswerInUse(t)
    BY <2>1 DEF AnswerInUse
  <2>3. CASE AnswerWithScalar(s) \/ (Decline(s) /\ spc[s] = "ready")
    <3>1. /\ ~answered[s] /\ settled[s] = "open" /\ ~AnswerPending(s) /\ ~AnswerInUse(s)
          /\ outcome[s] = "nothing"
      BY <2>3 DEF AnswerWithScalar, Decline, SessionPhases, AnsweredOnce
    <3>2. CASE UNCHANGED <<answered, toM>>
      BY <2>1, <2>2, <2>3, <3>1, <3>2 DEF AnswerWithScalar, Decline, Ends, AnsweredOnce, AnswerPending
    <3>3. ASSUME NEW m \in ToMachine, PhoneWrites(s, m),
                 answered' = [answered EXCEPT ![s] = TRUE],
                 \/ m.type # "answer" /\ outcome' = [outcome EXCEPT ![s] = "declined"]
                 \/ UNCHANGED outcome
          PROVE  AnsweredOnce'
      <4>1. toM[s] \in Seq(ToMachine)
        OBVIOUS
      <4>2. \A i, j \in DOMAIN Append(toM[s], m) :
              Append(toM[s], m)[i].type = "answer" /\ Append(toM[s], m)[j].type = "answer"
                => i = j /\ m.type = "answer"
        BY <4>1, <3>1, AppendElements DEF AnswerPending
      <4>3. toM'[s] = toM[s] \/ toM'[s] = Append(toM[s], m)
        BY <3>3 DEF PhoneWrites
      <4>4. \A t \in Sessions : t # s => toM'[t] = toM[t]
        BY <3>3 DEF PhoneWrites
      <4>5. /\ AnswerPending(s)' => m.type = "answer"
            /\ \A i, j \in DOMAIN toM'[s] :
                 toM'[s][i].type = "answer" /\ toM'[s][j].type = "answer" => i = j
        <5>1. CASE toM'[s] = toM[s]
          <6>1. \A i \in DOMAIN toM'[s] : toM'[s][i].type # "answer"
            BY <5>1, <3>1 DEF AnswerPending
          <6>2. QED BY <6>1 DEF AnswerPending
        <5>2. CASE toM'[s] = Append(toM[s], m)
          <6> DEFINE new == Append(toM[s], m)
          <6>1. \A i, j \in DOMAIN new :
                  new[i].type = "answer" /\ new[j].type = "answer" => i = j /\ m.type = "answer"
            BY <4>2
          <6> HIDE DEF new
          <6>2. toM'[s] = new
            BY <5>2 DEF new
          <6>3. QED BY <6>1, <6>2 DEF AnswerPending
        <5>3. QED BY <4>3, <5>1, <5>2
      <4>6. \A t \in Sessions : t # s => (AnswerPending(t)' <=> AnswerPending(t))
        BY <4>4 DEF AnswerPending
      <4>7. QED BY <2>1, <2>2, <3>1, <3>3, <4>4, <4>5, <4>6 DEF AnsweredOnce
    <3>4. CASE AnswerWithScalar(s)
      <4> DEFINE m == Answer(x[s], IF enrolled[s] = "otherKey" THEN "wrong" ELSE "right")
      <4>1. m \in ToMachine
        BY <3>4, MessageTypes DEF AnswerWithScalar, SessionPhases
      <4> HIDE DEF m
      <4>2. \/ UNCHANGED <<answered, toM>>
            \/ /\ PhoneWrites(s, m) /\ answered' = [answered EXCEPT ![s] = TRUE]
               /\ UNCHANGED outcome
        BY <3>4 DEF AnswerWithScalar, PhoneWriteFails, m
      <4>3. QED BY <4>1, <4>2, <3>2, <3>3
    <3>5. CASE Decline(s)
      <4>1. \/ UNCHANGED <<answered, toM>>
            \/ /\ PhoneWrites(s, Declined) /\ answered' = [answered EXCEPT ![s] = TRUE]
               /\ outcome' = [outcome EXCEPT ![s] = "declined"]
        BY <2>3, <3>5 DEF Decline, AnswerWithScalar, PhoneWriteFails, Ends
      <4>2. Declined \in ToMachine /\ Declined.type # "answer"
        BY MessageTypes DEF Declined
      <4>3. QED BY <4>1, <4>2, <3>2, <3>3
    <3>6. QED BY <2>3, <3>4, <3>5
  <2>4. CASE ~AnswerWithScalar(s) /\ ~Decline(s)
    <3>1. /\ UNCHANGED <<answered, toM>>
          /\ \A t \in Sessions : outcome'[t] = "declined" => outcome[t] = "declined"
      BY <1>6, <2>4 DEF SessionAction, SessionStep, Person, DialFails, ReadHello, ReadRequest,
         ConnectReadFails, RetryConnect, ConnectReturns, ReadVerdict, VerdictLost, Connect,
         Cancel, Close, ConnectDeadline, ReplyTimeout, Killed, linkVars, sessionVars, Ends
    <3>2. QED BY <2>1, <2>2, <3>1, QuietAnswers DEF Shrinks
  <2>5. CASE Decline(s) /\ spc[s] = "over"
    <3>1. /\ UNCHANGED outcome
          /\ \A t \in Sessions : answered[t] => answered'[t]
          /\ PhoneWrites(s, Declined) \/ UNCHANGED toM
      BY <2>5 DEF Decline, PhoneWriteFails
    <3>2. toM[s] \in Seq(ToMachine) /\ Declined \in ToMachine /\ Declined.type # "answer"
      BY MessageTypes DEF Declined
    <3>3. \A t \in Sessions : toM'[t] = toM[t] \/ (t = s /\ toM'[t] = Append(toM[t], Declined))
      BY <3>1 DEF PhoneWrites
    <3>4. \A t \in Sessions : \A i \in DOMAIN toM'[t] :
            toM'[t][i].type = "answer" => i \in DOMAIN toM[t] /\ toM'[t][i] = toM[t][i]
      <4>1. \A i \in DOMAIN Append(toM[s], Declined) :
              Append(toM[s], Declined)[i].type = "answer"
                => i \in DOMAIN toM[s] /\ Append(toM[s], Declined)[i] = toM[s][i]
        BY <3>2, AppendElements
      <4> DEFINE new == Append(toM[s], Declined)
      <4>2. \A t \in Sessions : toM'[t] = toM[t] \/ (t = s /\ toM'[t] = new)
        BY <3>3
      <4>3. \A i \in DOMAIN new : new[i].type = "answer" => i \in DOMAIN toM[s] /\ new[i] = toM[s][i]
        BY <4>1
      <4> HIDE DEF new
      <4>4. QED BY <4>2, <4>3
    <3>5. QED BY <2>1, <2>2, <3>1, <3>4 DEF AnsweredOnce, AnswerPending
  <2>6. QED BY <2>3, <2>4, <2>5 DEF Decline
<1>7. CASE UNCHANGED vars
  BY <1>1, <1>7 DEF vars, agentVars, sessionVars, historyVars, linkVars, AnswerInUse, Shrinks
<1>8. QED BY <1>2, <1>3, <1>4, <1>5, <1>6, <1>7, NextCases DEF AgentStep

-----------------------------------------------------------------------------
(* What is known of the enrolment. *)

RightAnswersChecked == \A s \in Sessions : \A i \in DOMAIN toM[s] :
  toM[s][i].type = "answer" /\ toM[s][i].key = "right"
    => enrolled[s] \notin {"otherKey", "mismatched"}

(* An answer under the right key comes from a session that holds that key. *)
LEMMA RightAnswersStep ==
  TypeOK /\ SessionPhases /\ RightAnswersChecked /\ [Next]_vars => RightAnswersChecked'
<1> SUFFICES ASSUME TypeOK, SessionPhases, RightAnswersChecked, [Next]_vars
             PROVE  RightAnswersChecked'
  OBVIOUS
<1>1. toM \in [Sessions -> Seq(ToMachine)]
  BY DEF TypeOK
<1>2. ASSUME UNCHANGED enrolled, Shrinks(toM', toM) PROVE RightAnswersChecked'
  <2> SUFFICES ASSUME NEW s \in Sessions, NEW i \in DOMAIN toM'[s],
                      toM'[s][i].type = "answer", toM'[s][i].key = "right"
               PROVE  enrolled[s] \notin {"otherKey", "mismatched"}
    BY <1>2 DEF RightAnswersChecked
  <2>1. PICK d \in {0, 1} : i + d \in DOMAIN toM[s] /\ toM'[s][i] = toM[s][i + d]
    BY <1>1, <1>2, ShrinksElements
  <2>2. QED BY <2>1 DEF RightAnswersChecked
<1>3. CASE AgentStep \/ ExchangeTimeout \/ StopAgent \/ Prompting
  BY <1>2, <1>3, AgentShrinks, AgentFrame
<1>4. ASSUME NEW s \in Sessions, Network(s) PROVE RightAnswersChecked'
  BY <1>2, <1>4, OthersShrink, NetworkFrame
<1>5. ASSUME NEW s \in Sessions, SessionAction(s) PROVE RightAnswersChecked'
  <2>1. UNCHANGED enrolled
    BY <1>5, SessionFrame
  <2>2. ASSUME NEW m \in ToMachine, PhoneWrites(s, m) \/ UNCHANGED toM,
               m.type = "answer" /\ m.key = "right" => enrolled[s] \notin {"otherKey", "mismatched"}
        PROVE  RightAnswersChecked'
    <3> SUFFICES ASSUME NEW t \in Sessions, NEW i \in DOMAIN toM'[t],
                        toM'[t][i].type = "answer", toM'[t][i].key = "right"
                 PROVE  enrolled[t] \notin {"otherKey", "mismatched"}
      BY <2>1 DEF RightAnswersChecked
    <3>1. toM[t] \in Seq(ToMachine)
      BY <1>1
    <3>2. toM'[t] = toM[t] \/ (t = s /\ toM'[t] = Append(toM[t], m))
      BY <1>1, <2>2 DEF PhoneWrites
    <3>3. (i \in DOMAIN toM[t] /\ toM'[t][i] = toM[t][i]) \/ (t = s /\ toM'[t][i] = m)
      BY <3>1, <3>2, AppendElements
    <3>4. QED BY <3>3, <2>2 DEF RightAnswersChecked
  <2>3. CASE AnswerWithScalar(s)
    <3>1. CASE UNCHANGED toM
      BY <1>2, <2>1, <3>1 DEF Shrinks
    <3>2. CASE enrolled[s] # "mismatched"
      <4> DEFINE k == IF enrolled[s] = "otherKey" THEN "wrong" ELSE "right"
                 m == Answer(x[s], k)
      <4>1. m \in ToMachine
        BY <2>3, MessageTypes DEF AnswerWithScalar, SessionPhases
      <4>2. m.key = "right" => enrolled[s] \notin {"otherKey", "mismatched"}
        BY <3>2 DEF Answer
      <4>3. PhoneWrites(s, m) \/ UNCHANGED toM
        BY <2>3 DEF AnswerWithScalar, PhoneWriteFails
      <4> HIDE DEF m
      <4>4. QED BY <4>1, <4>2, <4>3, <2>2
    <3>3. QED BY <2>3, <3>1, <3>2 DEF AnswerWithScalar
  <2>4. CASE Decline(s)
    <3>1. Declined \in ToMachine /\ Declined.type # "answer"
      BY MessageTypes DEF Declined
    <3>2. PhoneWrites(s, Declined) \/ UNCHANGED toM
      BY <2>4 DEF Decline, PhoneWriteFails
    <3>3. QED BY <3>1, <3>2, <2>2
  <2>5. CASE ~AnswerWithScalar(s) /\ ~Decline(s)
    BY <1>2, <1>5, <2>1, <2>5, OthersShrink
  <2>6. QED BY <2>3, <2>4, <2>5
<1>6. CASE UNCHANGED vars
  BY <1>2, <1>6 DEF vars, linkVars, Shrinks
<1>7. QED BY <1>3, <1>4, <1>5, <1>6, NextCases

(* Each step of runExchange keeps what the earlier ones established.       *)
LEMMA EnrolmentCheckedStep ==
  TypeOK /\ SessionPhases /\ EnrolmentChecked /\ [Next]_vars => EnrolmentChecked'
<1> SUFFICES ASSUME TypeOK, SessionPhases, EnrolmentChecked, [Next]_vars
             PROVE  EnrolmentChecked'
  OBVIOUS
<1>1. RightAnswersChecked /\ RightAnswersChecked'
  BY RightAnswersStep DEF EnrolmentChecked, RightAnswersChecked
<1>2. enrolled \in [Sessions -> Enrolments] /\ UNCHANGED enrolled
  BY AgentFrame, NetworkFrame, SessionFrame, NextCases DEF TypeOK, vars
<1>3. peer \in Sessions <=> mpc \in InExchange
  BY DEF TypeOK
<1> USE <1>1, <1>2 DEF EnrolmentChecked, RightAnswersChecked
<1>4. CASE UNCHANGED <<mpc, peer, resp, settled>>
  BY <1>4
<1>5. ASSUME UNCHANGED settled, mpc' \in {"rest", "listen", "stopped", "crashed", "greet", "report", "linger"}
      PROVE  EnrolmentChecked'
  BY <1>5
<1>6. CASE StartAttempt \/ ListenEnds \/ ReadResponseFails \/ Report \/ PeerClosed \/ LingerTimeout
  BY <1>5, <1>6 DEF StartAttempt, ListenEnds, ReadResponseFails, Report, PeerClosed,
     LingerTimeout, HangUp, historyVars
<1>7. CASE SendHello
  BY <1>5, <1>7 DEF SendHello, HangUp, historyVars
<1>8. CASE SendRequest
  BY <1>5, <1>8 DEF SendRequest, HangUp, historyVars
<1>9. CASE ReadResponse
  <2>1. PICK m \in ToMachine :
          /\ MachineReads(peer, m)
          /\ \/ m.type = "answer" /\ mpc' = "finish" /\ resp' = m /\ UNCHANGED peer
             \/ m.type = "declined" /\ HangUp(FALSE)
    BY <1>9 DEF ReadResponse
  <2>2. mpc = "await" /\ peer \in Sessions /\ UNCHANGED settled
    BY <1>3, <1>9 DEF ReadResponse, historyVars, InExchange, AgentSteps
  <2>3. CASE m.type = "declined" /\ HangUp(FALSE)
    BY <1>5, <2>2, <2>3 DEF HangUp
  <2>4. CASE m.type = "answer" /\ mpc' = "finish" /\ resp' = m /\ UNCHANGED peer
    <3>1. toM[peer] \in Seq(ToMachine) /\ toM[peer] # <<>> /\ m = Head(toM[peer])
      BY <2>1, <2>2 DEF MachineReads, TypeOK
    <3>2. 1 \in DOMAIN toM[peer] /\ m = toM[peer][1]
      BY <3>1
    <3>3. m.key = "right" => enrolled[peer] \notin {"otherKey", "mismatched"}
      BY <2>2, <2>4, <3>2
    <3>4. QED BY <2>2, <2>4, <3>3
  <2>5. QED BY <2>1, <2>3, <2>4
<1>10. CASE Finish
  <2>1. peer \in Sessions /\ mpc = "finish" /\ UNCHANGED <<peer, resp>>
    BY <1>3, <1>10 DEF Finish, InExchange, AgentSteps
  <2>2. CASE Opens(resp) /\ mpc' = "verify" /\ UNCHANGED settled
    BY <2>1, <2>2 DEF Opens, Enrolments
  <2>3. CASE Settles(FALSE)
    BY <2>1, <2>3 DEF Settles, TypeOK
  <2>4. QED BY <1>10, <2>2, <2>3 DEF Finish
<1>11. CASE VerifyPassphrase
  <2>1. peer \in Sessions /\ mpc = "verify" /\ UNCHANGED <<peer, resp>>
    BY <1>3, <1>11 DEF VerifyPassphrase, InExchange, AgentSteps
  <2>2. CASE enrolled[peer] # "deadSlot" /\ mpc' = "deliver" /\ UNCHANGED settled
    BY <2>1, <2>2
  <2>3. CASE Settles(FALSE)
    BY <2>1, <2>3 DEF Settles, TypeOK
  <2>4. QED BY <1>11, <2>2, <2>3 DEF VerifyPassphrase
<1>12. CASE AnswerAskPassword \/ OpenVolume
  <2>1. peer \in Sessions /\ mpc = "deliver" /\ UNCHANGED <<peer, resp>>
    BY <1>3, <1>12 DEF AnswerAskPassword, OpenVolume, InExchange, AgentSteps
  <2>2. PICK ok \in BOOLEAN : Settles(ok)
    BY <1>12 DEF AnswerAskPassword, OpenVolume
  <2>3. QED BY <2>1, <2>2 DEF Settles, TypeOK
<1>13. CASE LingerReads \/ ExchangeTimeout \/ StopAgent \/ Prompting \/ UNCHANGED vars
  BY <1>4, <1>13 DEF LingerReads, ExchangeTimeout, StopAgent, Prompting, PromptAppears,
     PromptGoes, agentVars, historyVars, vars
<1>14. ASSUME NEW s \in Sessions, Network(s) PROVE EnrolmentChecked'
  BY <1>4, <1>5, <1>14 DEF Network, Establish, MachineEndOnly, PhoneEndOnly, LinkDies,
     agentVars, historyVars
<1>15. ASSUME NEW s \in Sessions, SessionAction(s) PROVE EnrolmentChecked'
  BY <1>4, <1>15, SessionFrame DEF agentVars
<1>16. QED
  BY <1>6, <1>7, <1>8, <1>9, <1>10, <1>11, <1>12, <1>13, <1>14, <1>15, NextCases DEF AgentStep

-----------------------------------------------------------------------------
(* What the machine has said is what it decided. *)

(* The channel to the key holder loses messages or gains the agent's; a    *)
(* result is sent in Report only.                                          *)
LEMMA ToPhoneChanges ==
  ASSUME TypeOK, [Next]_vars
  PROVE  \/ Shrinks(toP', toP)
         \/ \E m \in ToPhone :
              /\ peer \in Sessions /\ toP' = [toP EXCEPT ![peer] = Append(@, m)]
              /\ m.type # "result" \/ (mpc = "report" /\ m = Result(verdict))
<1> USE DEF TypeOK
<1>1. CASE UNCHANGED toP
  BY <1>1 DEF Shrinks
<1>2. ASSUME NEW s \in Sessions, toP' = [toP EXCEPT ![s] = <<>>] PROVE Shrinks(toP', toP)
  BY <1>2 DEF Shrinks
<1>3. CASE SendHello \/ SendRequest \/ Report
  <2>1. peer \in Sessions
    BY <1>3 DEF SendHello, SendRequest, Report, InExchange, AgentSteps
  <2>2. CASE HangUp(FALSE)
    BY <1>1, <1>2, <2>1, <2>2 DEF HangUp, MachineCloses
  <2>3. ASSUME NEW m \in ToPhone, MachineWrites(peer, m),
               m.type # "result" \/ (mpc = "report" /\ m = Result(verdict))
        PROVE  \/ UNCHANGED toP
               \/ \E n \in ToPhone :
                    /\ toP' = [toP EXCEPT ![peer] = Append(@, n)]
                    /\ n.type # "result" \/ (mpc = "report" /\ n = Result(verdict))
    BY <2>3 DEF MachineWrites
  <2>4. CASE SendHello
    <3>1. Hello \in ToPhone /\ Hello.type # "result"
      BY MessageTypes DEF Hello
    <3>2. MachineWrites(peer, Hello) \/ HangUp(FALSE)
      BY <2>4 DEF SendHello
    <3>3. QED BY <1>1, <2>1, <2>2, <2>3, <3>1, <3>2
  <2>5. CASE SendRequest
    <3>1. PICK c \in Challenges : MachineWrites(peer, Request(c)) \/ HangUp(FALSE)
      BY <2>5 DEF SendRequest
    <3>2. Request(c) \in ToPhone /\ Request(c).type # "result"
      BY MessageTypes DEF Request
    <3>3. QED BY <1>1, <2>1, <2>2, <2>3, <3>1, <3>2
  <2>6. CASE Report
    <3>1. Result(verdict) \in ToPhone /\ mpc = "report"
      BY <2>6, MessageTypes DEF Report
    <3>2. MachineWrites(peer, Result(verdict)) \/ UNCHANGED toP
      BY <2>6 DEF Report, MachineWriteFails
    <3>3. QED BY <1>1, <2>1, <2>3, <3>1, <3>2
  <2>7. QED BY <1>3, <2>4, <2>5, <2>6
<1>4. CASE ReadResponse \/ ReadResponseFails \/ PeerClosed \/ LingerTimeout \/ ExchangeTimeout
             \/ StopAgent
  <2>1. (peer \in Sessions /\ MachineCloses(peer)) \/ UNCHANGED toP
    BY <1>4 DEF ReadResponse, ReadResponseFails, PeerClosed, LingerTimeout, ExchangeTimeout,
       StopAgent, HangUp, InExchange, AgentSteps
  <2>2. QED BY <1>1, <1>2, <2>1 DEF MachineCloses
<1>5. CASE StartAttempt \/ ListenEnds \/ Finish \/ VerifyPassphrase \/ AnswerAskPassword
             \/ OpenVolume \/ LingerReads \/ Prompting \/ UNCHANGED vars
  BY <1>1, <1>5 DEF StartAttempt, ListenEnds, Finish, VerifyPassphrase, AnswerAskPassword,
     OpenVolume, LingerReads, Prompting, PromptAppears, PromptGoes, linkVars, vars
<1>6. ASSUME NEW s \in Sessions, Network(s) PROVE Shrinks(toP', toP)
  <2>1. UNCHANGED toP \/ toP' = [toP EXCEPT ![s] = <<>>]
    BY <1>6 DEF Network, Establish, MachineEndOnly, PhoneEndOnly, LinkDies, FreshLink
  <2>2. QED BY <1>2, <2>1 DEF Shrinks
<1>7. ASSUME NEW s \in Sessions, SessionAction(s) PROVE Shrinks(toP', toP)
  <2>1. ASSUME NEW m, PhoneReads(s, m) PROVE Shrinks(toP', toP)
    BY <2>1 DEF PhoneReads, Shrinks
  <2>2. \/ UNCHANGED toP
        \/ PhoneCloses(s)
        \/ \E m : PhoneReads(s, m)
    BY <1>7 DEF SessionAction, SessionStep, Person, DialFails, ReadHello, ReadRequest,
       ConnectReadFails, RetryConnect, ConnectReturns, ReadVerdict, VerdictLost, Connect,
       Cancel, AnswerWithScalar, Decline, Close, ConnectDeadline, ReplyTimeout, Killed, EndCtx,
       linkVars
  <2>3. QED BY <1>2, <2>1, <2>2 DEF PhoneCloses, Shrinks
<1>8. QED BY <1>3, <1>4, <1>5, <1>6, <1>7, NextCases DEF AgentStep

(* A result in flight was in flight before, or is the one being reported.  *)
LEMMA ResultsInFlight ==
  ASSUME TypeOK, [Next]_vars, NEW s \in Sessions, NEW i \in DOMAIN toP'[s],
         toP'[s][i].type = "result"
  PROVE  \/ \E j \in DOMAIN toP[s] : toP[s][j] = toP'[s][i]
         \/ s = peer /\ mpc = "report" /\ toP'[s][i] = Result(verdict)
<1>1. toP \in [Sessions -> Seq(ToPhone)]
  BY DEF TypeOK
<1>2. CASE Shrinks(toP', toP)
  BY <1>1, <1>2, ShrinksElements
<1>3. ASSUME NEW m \in ToPhone, peer \in Sessions, toP' = [toP EXCEPT ![peer] = Append(@, m)],
             m.type # "result" \/ (mpc = "report" /\ m = Result(verdict))
      PROVE  \/ \E j \in DOMAIN toP[s] : toP[s][j] = toP'[s][i]
             \/ s = peer /\ mpc = "report" /\ toP'[s][i] = Result(verdict)
  <2>1. CASE s # peer
    BY <1>1, <1>3, <2>1
  <2>2. CASE s = peer
    <3>1. toP[peer] \in Seq(ToPhone) /\ toP'[s] = Append(toP[peer], m)
      BY <1>1, <1>3, <2>2
    <3>2. (i \in DOMAIN toP[s] /\ toP'[s][i] = toP[s][i]) \/ toP'[s][i] = m
      BY <2>2, <3>1, AppendElements
    <3>3. QED BY <1>3, <2>2, <3>2
  <2>3. QED BY <2>1, <2>2
<1>4. QED BY <1>2, <1>3, ToPhoneChanges

(* A step of the agent decides an answer nobody decided before, or nothing.*)
LEMMA SettledOnce ==
  ASSUME TypeOK, AnsweredOnce, [Next]_vars
  PROVE  \/ UNCHANGED settled
         \/ /\ peer \in Sessions /\ settled[peer] = "open"
            /\ UNCHANGED <<peer, enrolled, sessionVars>>
            /\ \E ok \in BOOLEAN : Settles(ok)
<1>1. CASE Finish \/ VerifyPassphrase \/ AnswerAskPassword \/ OpenVolume
  <2>1. peer \in Sessions /\ AnswerInUse(peer)
    BY <1>1 DEF Finish, VerifyPassphrase, AnswerAskPassword, OpenVolume, AnswerInUse, TypeOK,
       InExchange, AgentSteps
  <2>2. settled[peer] = "open"
    BY <2>1 DEF AnsweredOnce
  <2>3. UNCHANGED settled \/ \E ok \in BOOLEAN : Settles(ok)
    BY <1>1 DEF Finish, VerifyPassphrase, AnswerAskPassword, OpenVolume
  <2>4. UNCHANGED <<peer, enrolled, sessionVars>>
    BY <1>1 DEF Finish, VerifyPassphrase, AnswerAskPassword, OpenVolume
  <2>5. QED BY <2>1, <2>2, <2>3, <2>4
<1>2. CASE ~(Finish \/ VerifyPassphrase \/ AnswerAskPassword \/ OpenVolume) /\ AgentStep
  BY <1>2 DEF AgentStep, StartAttempt, ListenEnds, SendHello, SendRequest, ReadResponse,
     ReadResponseFails, Report, LingerReads, PeerClosed, LingerTimeout, historyVars
<1>3. CASE ExchangeTimeout \/ StopAgent \/ Prompting \/ UNCHANGED vars
  BY <1>3 DEF ExchangeTimeout, StopAgent, Prompting, PromptAppears, PromptGoes, historyVars, vars
<1>4. ASSUME NEW s \in Sessions, Network(s) \/ SessionAction(s) PROVE UNCHANGED settled
  BY <1>4, NetworkFrame, SessionFrame
<1>5. QED BY <1>1, <1>2, <1>3, <1>4, NextCases

(* What is being reported, or in flight, is what was decided (report()).   *)
LEMMA VerdictsAgreeStep ==
  TypeOK /\ AnsweredOnce /\ VerdictsAgree /\ [Next]_vars => VerdictsAgree'
<1> SUFFICES ASSUME TypeOK, AnsweredOnce, VerdictsAgree, [Next]_vars PROVE VerdictsAgree'
  OBVIOUS
<1>1. settled \in [Sessions -> {"open", "delivered", "refused"}]
  BY DEF TypeOK
<1>2. \A s \in Sessions : settled[s] # "open" => settled'[s] = settled[s]
  BY <1>1, SettledOnce DEF Settles
<1>3. ASSUME NEW s \in Sessions, NEW i \in DOMAIN toP'[s], toP'[s][i].type = "result"
      PROVE  settled'[s] = SettledAs(toP'[s][i].ok)
  <2>1. ASSUME NEW j \in DOMAIN toP[s], toP[s][j] = toP'[s][i]
        PROVE  settled'[s] = SettledAs(toP'[s][i].ok)
    <3>1. settled[s] = SettledAs(toP'[s][i].ok)
      BY <1>3, <2>1 DEF VerdictsAgree
    <3>2. QED BY <1>2, <3>1 DEF SettledAs
  <2>2. CASE s = peer /\ mpc = "report" /\ toP'[s][i] = Result(verdict)
    <3>1. settled[s] = SettledAs(verdict)
      BY <2>2 DEF VerdictsAgree
    <3>2. QED BY <1>2, <2>2, <3>1 DEF Result, SettledAs
  <2>3. QED BY <1>3, <2>1, <2>2, ResultsInFlight
<1>4. mpc' \in {"report", "linger"} => settled'[peer'] = SettledAs(verdict')
  <2>1. CASE \E ok \in BOOLEAN : Settles(ok) /\ UNCHANGED peer /\ peer \in Sessions
    BY <1>1, <2>1 DEF Settles, SettledAs
  <2>2. CASE UNCHANGED settled
    <3>1. mpc' \in {"report", "linger"}
            => \/ mpc \in {"report", "linger"} /\ UNCHANGED <<peer, verdict>>
               \/ \E ok \in BOOLEAN : Settles(ok) /\ UNCHANGED peer /\ peer \in Sessions
      <4>1. CASE AgentStep
        BY <4>1 DEF AgentStep, StartAttempt, ListenEnds, SendHello, SendRequest, ReadResponse,
           ReadResponseFails, Finish, VerifyPassphrase, AnswerAskPassword, OpenVolume, Report,
           LingerReads, PeerClosed, LingerTimeout, HangUp, agentVars, TypeOK, InExchange,
           AgentSteps
      <4>2. CASE ExchangeTimeout \/ StopAgent \/ Prompting \/ UNCHANGED vars
        BY <4>2 DEF ExchangeTimeout, StopAgent, Prompting, PromptAppears, PromptGoes, agentVars,
           vars
      <4>3. ASSUME NEW s \in Sessions, Network(s)
            PROVE  mpc' \in {"report", "linger"}
                     => mpc \in {"report", "linger"} /\ UNCHANGED <<peer, verdict>>
        BY <4>3 DEF Network, Establish, MachineEndOnly, PhoneEndOnly, LinkDies, agentVars
      <4>4. ASSUME NEW s \in Sessions, SessionAction(s) PROVE UNCHANGED agentVars
        BY <4>4, SessionFrame
      <4>5. QED BY <4>1, <4>2, <4>3, <4>4, NextCases DEF agentVars
    <3>2. QED BY <2>1, <2>2, <3>1 DEF VerdictsAgree
  <2>3. QED BY <2>1, <2>2, SettledOnce
<1>5. QED BY <1>3, <1>4 DEF VerdictsAgree

-----------------------------------------------------------------------------
(* What the person is told. *)

Told(s, how) ==
  /\ outcome[s] = "nothing" /\ Ends(s, how)
  /\ how \in Outcomes
  /\ how = "unlocked" => \E i \in DOMAIN toP[s] : toP[s][i] = Result(TRUE)
  /\ how = "rejected" => \E i \in DOMAIN toP[s] : toP[s][i] = Result(FALSE)

(* A session is told something once, and a definite verdict only by a      *)
(* result that has arrived (answerXOnly).                                  *)
LEMMA OutcomeStep ==
  ASSUME TypeOK, SessionPhases, [Next]_vars
  PROVE  \/ UNCHANGED outcome
         \/ UNCHANGED settled /\ \E s \in Sessions, how \in Outcomes : Told(s, how)
<1>1. CASE AgentStep \/ ExchangeTimeout \/ StopAgent \/ Prompting \/ UNCHANGED vars
  BY <1>1, AgentFrame DEF sessionVars, vars
<1>2. ASSUME NEW s \in Sessions, Network(s) PROVE UNCHANGED outcome
  BY <1>2, NetworkFrame
<1>3. ASSUME NEW s \in Sessions, SessionAction(s)
      PROVE  UNCHANGED outcome \/ \E how \in Outcomes : Told(s, how)
  <2>1. CASE ReadVerdict(s)
    <3>1. PICK ok \in BOOLEAN :
            PhoneReads(s, Result(ok)) /\ Ends(s, IF ok THEN "unlocked" ELSE "rejected")
      BY <2>1 DEF ReadVerdict
    <3>2. toP[s] \in Seq(ToPhone) /\ toP[s] # <<>> /\ Result(ok) = Head(toP[s])
      BY <3>1 DEF PhoneReads, TypeOK
    <3>3. 1 \in DOMAIN toP[s] /\ toP[s][1] = Result(ok)
      BY <3>2
    <3>4. outcome[s] = "nothing"
      BY <2>1 DEF ReadVerdict, SessionPhases
    <3>5. CASE ok
      <4>1. Told(s, "unlocked")
        BY <3>1, <3>3, <3>4, <3>5 DEF Told, Outcomes
      <4>2. QED BY <4>1 DEF Outcomes
    <3>6. CASE ~ok
      <4>1. ok = FALSE
        BY <3>6
      <4>2. Told(s, "rejected")
        BY <3>1, <3>3, <3>4, <4>1 DEF Told, Outcomes
      <4>3. QED BY <4>2 DEF Outcomes
    <3>7. QED BY <3>5, <3>6
  <2>2. CASE ~ReadVerdict(s)
    <3>1. \/ UNCHANGED outcome
          \/ /\ outcome[s] = "nothing"
             /\ \E how \in Outcomes \ {"unlocked", "rejected"} : Ends(s, how)
      BY <1>3, <2>2 DEF SessionAction, SessionStep, Person, DialFails, ReadHello, ReadRequest,
         ConnectReadFails, RetryConnect, ConnectReturns, VerdictLost, Connect, Cancel,
         AnswerWithScalar, Decline, Close, ConnectDeadline, ReplyTimeout, Killed, sessionVars,
         SessionPhases, Connecting, Outcomes
    <3>2. QED BY <3>1 DEF Told
  <2>3. QED BY <2>1, <2>2
<1>4. QED BY <1>1, <1>2, <1>3, SessionFrame, NextCases

(* A step keeps what people were told true.                                *)
LEMMA VerdictTruthfulStep == IInv /\ [Next]_vars => VerdictTruthful'
<1> SUFFICES ASSUME IInv, [Next]_vars PROVE VerdictTruthful'
  OBVIOUS
<1>1. /\ outcome \in [Sessions -> Outcomes]
      /\ settled \in [Sessions -> {"open", "delivered", "refused"}]
  BY DEF IInv, TypeOK
<1>2. \A s \in Sessions : settled[s] # "open" => settled'[s] = settled[s]
  BY <1>1, SettledOnce DEF Settles, IInv
<1>3. CASE UNCHANGED outcome
  BY <1>2, <1>3 DEF IInv, VerdictTruthful
<1>4. ASSUME NEW s \in Sessions, NEW how \in Outcomes, Told(s, how), UNCHANGED settled
      PROVE  VerdictTruthful'
  <2>1. /\ how = "unlocked" => settled[s] = "delivered"
        /\ how = "rejected" => settled[s] = "refused"
    BY <1>4 DEF Told, IInv, VerdictsAgree, Result, SettledAs
  <2>2. QED BY <1>1, <1>4, <2>1 DEF Told, Ends, IInv, VerdictTruthful
<1>5. QED BY <1>3, <1>4, OutcomeStep DEF IInv

-----------------------------------------------------------------------------
(* The theorems. *)

(* The invariant holds initially.                                          *)
LEMMA InitIInv == Init => IInv
<1> SUFFICES ASSUME Init PROVE IInv
  OBVIOUS
<1>1. <<>> \in Seq(ToPhone) /\ <<>> \in Seq(ToMachine)
  OBVIOUS
<1>2. TypeOK
  BY <1>1 DEF Init, TypeOK, AgentSteps, InExchange, SessionSteps, Outcomes
<1>3. SessionPhases /\ AnsweredOnce /\ VerdictTruthful
  BY DEF Init, SessionPhases, AnsweredOnce, AnswerPending, AnswerInUse, VerdictTruthful
<1>4. EnrolmentChecked /\ VerdictsAgree
  BY DEF Init, EnrolmentChecked, VerdictsAgree
<1>5. QED BY <1>2, <1>3, <1>4 DEF IInv

(* Every step preserves the invariant.                                     *)
LEMMA IInvStep == IInv /\ [Next]_vars => IInv'
  BY TypeStep, SessionPhasesStep, AnsweredOnceStep, EnrolmentCheckedStep, VerdictsAgreeStep,
     VerdictTruthfulStep DEF IInv

(* The agent and every session agree about each answer, from its sending   *)
(* to its verdict, through any faults: runExchange decides an answer once, *)
(* and report() tells what it decided.                                     *)
THEOREM ExchangeInvariant == Spec => []IInv
<1>1. QED BY InitIInv, IInvStep, PTL DEF Spec

(* The variables keep their types and each channel carries only the wire   *)
(* messages of its direction.                                              *)
THEOREM TypeCorrect == Spec => []TypeOK
<1>1. IInv => TypeOK
  BY DEF IInv
<1>2. QED BY <1>1, ExchangeInvariant, PTL

(* answerXOnly never tells the person that the volume was unlocked, or     *)
(* that the machine refused, unless runExchange decided exactly that.      *)
THEOREM VerdictsAreTruthful == Spec => []VerdictTruthful
<1>1. IInv => VerdictTruthful
  BY DEF IInv
<1>2. QED BY <1>1, ExchangeInvariant, PTL

(* runExchange delivers a secret only for an approval given in this        *)
(* session by the one live enrolment of its transport id.                  *)
THEOREM DeliveryNeedsLiveApproval == Spec => []DeliveredOnlyForLiveApproval
<1>1. IInv => DeliveredOnlyForLiveApproval
  BY DEF IInv, AnsweredOnce, EnrolmentChecked, DeliveredOnlyForLiveApproval
<1>2. QED BY <1>1, ExchangeInvariant, PTL

(* The exchange implements the promise of an unlock attempt: every step    *)
(* decides an undecided answer, tells someone waiting the truth or that it *)
(* is not known, or is invisible at that level.                            *)
THEOREM ExchangeKeepsPromise == Spec => PromiseKept
<1> DEFINE told == [s \in Sessions |->
             IF outcome[s] \in {"unlocked", "rejected", "unknown"} THEN outcome[s] ELSE "nothing"]
<1>1. Init => Promise!Init
  BY DEF Init, Promise!Init
<1>2. IInv /\ [Next]_vars => [Promise!Next]_(Promise!promiseVars)
  <2> SUFFICES ASSUME IInv, [Next]_vars
               PROVE  Promise!Next \/ UNCHANGED Promise!promiseVars
    OBVIOUS
  <2>1. /\ outcome \in [Sessions -> Outcomes]
        /\ settled \in [Sessions -> {"open", "delivered", "refused"}]
    BY DEF IInv, TypeOK
  <2>2. CASE UNCHANGED outcome
    <3>1. CASE UNCHANGED settled
      BY <2>2, <3>1 DEF Promise!promiseVars
    <3>2. ASSUME NEW ok \in BOOLEAN, Settles(ok), peer \in Sessions, settled[peer] = "open"
          PROVE  Promise!Settle(peer)
      BY <2>1, <2>2, <3>2 DEF Settles, Promise!Settle
    <3>3. QED BY <3>1, <3>2, SettledOnce DEF Promise!Next, IInv
  <2>3. ASSUME NEW s \in Sessions, NEW how \in Outcomes, Told(s, how), UNCHANGED settled
        PROVE  Promise!Next \/ UNCHANGED Promise!promiseVars
    <3>1. /\ told[s] = "nothing"
          /\ told' = IF how \in {"unlocked", "rejected", "unknown"}
                       THEN [told EXCEPT ![s] = how] ELSE told
      BY <2>1, <2>3 DEF Told, Ends
    <3>2. /\ how = "unlocked" => settled[s] = "delivered"
          /\ how = "rejected" => settled[s] = "refused"
      BY <2>3 DEF Told, IInv, VerdictsAgree, Result, SettledAs
    <3>3. CASE how = "unlocked"
      BY <2>3, <3>1, <3>2, <3>3 DEF Promise!Next, Promise!TellUnlocked
    <3>4. CASE how = "rejected"
      BY <2>3, <3>1, <3>2, <3>4 DEF Promise!Next, Promise!TellRejected
    <3>5. CASE how = "unknown"
      BY <2>3, <3>1, <3>5 DEF Promise!Next, Promise!TellUnknown
    <3>6. CASE how \notin {"unlocked", "rejected", "unknown"}
      BY <2>3, <3>1, <3>6 DEF Promise!promiseVars
    <3>7. QED BY <3>3, <3>4, <3>5, <3>6
  <2>4. QED BY <2>2, <2>3, OutcomeStep DEF IInv
<1>3. QED BY <1>1, <1>2, ExchangeInvariant, PTL DEF Spec, PromiseKept, Promise!Spec

-----------------------------------------------------------------------------
(* One challenge at a time. *)

Asked(s) == \E m \in InFlight(toP[s]) : m.type = "request"

(* Until the request has gone out, the session at the other end has not    *)
(* been asked for anything, and nothing has come back.                     *)
NotAskedYet ==
  mpc \in {"greet", "request"} =>
    /\ toM[peer] = <<>> /\ ~Asked(peer)
    /\ spc[peer] \notin {"returning", "ready", "verdict", "over", "done"}

(* Whatever is on its way between the machine and its peer is about the    *)
(* challenge of the exchange under way, and so is what the peer holds and  *)
(* what the machine has read.                                              *)
OneChallenge ==
  mpc \in InExchange =>
    /\ \A m \in InFlight(toP[peer]) : m.type = "request" => m.x = chal
    /\ spc[peer] \in {"returning", "ready"} => x[peer] = chal
    /\ \A m \in InFlight(toM[peer]) : m.type = "answer" => m.x = chal
    /\ mpc \in {"finish", "verify", "deliver"} => resp.type = "answer" /\ resp.x = chal

ChallengeInv == NotAskedYet /\ OneChallenge

(* Where a session is once it has been asked.                              *)
HasBeenAsked(s) == spc[s] \in {"returning", "ready", "verdict", "over", "done"}

(* A step that starts no exchange, draws no challenge and passes none on.  *)
Quiet ==
  /\ mpc' \in InExchange => mpc \in InExchange /\ UNCHANGED <<peer, chal>>
  /\ mpc' \in {"greet", "request"} => mpc \in {"greet", "request"}
  /\ mpc' \in {"finish", "verify", "deliver"} =>
       mpc \in {"finish", "verify", "deliver"} /\ UNCHANGED resp
  /\ peer \in Sessions =>
       /\ \A m \in InFlight(toP'[peer]) : m.type = "request" => m \in InFlight(toP[peer])
       /\ \A m \in InFlight(toM'[peer]) : m.type = "answer" => m \in InFlight(toM[peer])
       /\ ~HasBeenAsked(peer) /\ toM[peer] = <<>> => toM'[peer] = <<>>
       /\ spc'[peer] \in {"returning", "ready"} =>
            spc[peer] \in {"returning", "ready"} /\ x'[peer] = x[peer]
       /\ spc'[peer] \in {"verdict", "over", "done"} => HasBeenAsked(peer)

LEMMA QuietStep ==
  ASSUME TypeOK, ChallengeInv, Quiet
  PROVE  ChallengeInv'
<1>1. CASE mpc' \notin InExchange
  BY <1>1 DEF ChallengeInv, NotAskedYet, OneChallenge, InExchange, AgentSteps
<1>2. CASE mpc' \in InExchange
  <2>1. mpc \in InExchange /\ peer' = peer /\ chal' = chal /\ peer \in Sessions
    BY <1>2 DEF Quiet, TypeOK
  <2>2. NotAskedYet'
    <3> SUFFICES ASSUME mpc' \in {"greet", "request"} PROVE NotAskedYet'
      BY DEF NotAskedYet
    <3>1. toM[peer] = <<>> /\ ~Asked(peer) /\ ~HasBeenAsked(peer)
      BY DEF Quiet, ChallengeInv, NotAskedYet, HasBeenAsked
    <3>2. toM'[peer] = <<>> /\ ~Asked(peer)' /\ ~HasBeenAsked(peer)'
      BY <2>1, <3>1 DEF Quiet, Asked, HasBeenAsked
    <3>3. QED BY <2>1, <3>2 DEF NotAskedYet, Asked, HasBeenAsked
  <2>3. OneChallenge'
    BY <2>1 DEF Quiet, ChallengeInv, OneChallenge
  <2>4. QED BY <2>2, <2>3 DEF ChallengeInv
<1>3. QED BY <1>1, <1>2

(* The channels as the lemmas about connections take them.                 *)
LEMMA TypedLinks ==
  TypeOK => /\ toP \in Channels(ToPhone) /\ toM \in Channels(ToMachine)
            /\ up \in [Sessions -> BOOLEAN] /\ mOpen \in [Sessions -> BOOLEAN]
            /\ pOpen \in [Sessions -> BOOLEAN]
  BY DEF TypeOK, Channels

(* What the operations do to the messages of the two channels.             *)
LEMMA LinkMessages ==
  ASSUME TypeOK, NEW s \in Sessions
  PROVE  /\ \A m \in ToPhone : MachineWrites(s, m) => Gains(toP', toP, s, m)
         /\ \A m : MachineReads(s, m) => Loses(toM', toM) /\ m \in InFlight(toM[s])
         /\ MachineCloses(s) => Loses(toP', toP)
         /\ \A m \in ToMachine : PhoneWrites(s, m) => Gains(toM', toM, s, m)
         /\ \A m : PhoneReads(s, m) => Loses(toP', toP) /\ m \in InFlight(toP[s])
         /\ PhoneCloses(s) => Loses(toP', toP)
         /\ UNCHANGED toP => Loses(toP', toP)
         /\ UNCHANGED toM => Loses(toM', toM)
<1>1. /\ \A m \in ToPhone : MachineWrites(s, m) => Gains(toP', toP, s, m)
      /\ \A m : MachineReads(s, m) => Loses(toM', toM) /\ m \in InFlight(toM[s])
      /\ MachineCloses(s) => Loses(toP', toP)
  BY TypedLinks, MachineEnd
<1>2. /\ \A m \in ToMachine : PhoneWrites(s, m) => Gains(toM', toM, s, m)
      /\ \A m : PhoneReads(s, m) => Loses(toP', toP) /\ m \in InFlight(toP[s])
      /\ PhoneCloses(s) => Loses(toP', toP)
  BY TypedLinks, PhoneEnd
<1>3. /\ UNCHANGED toP => Loses(toP', toP)
      /\ UNCHANGED toM => Loses(toM', toM)
  BY DEF Loses
<1>4. QED BY <1>1, <1>2, <1>3

(* Every step keeps challenges apart.                                      *)
LEMMA ChallengeInvStep == TypeOK /\ SessionPhases /\ ChallengeInv /\ [Next]_vars => ChallengeInv'
<1> SUFFICES ASSUME TypeOK, SessionPhases, ChallengeInv, [Next]_vars PROVE ChallengeInv'
  OBVIOUS
<1>0. /\ toP \in Channels(ToPhone) /\ toM \in Channels(ToMachine)
      /\ mOpen \in [Sessions -> BOOLEAN] /\ pOpen \in [Sessions -> BOOLEAN]
      /\ up \in [Sessions -> BOOLEAN]
      /\ spc \in [Sessions -> SessionSteps] /\ x \in [Sessions -> Challenges \cup {NoChallenge}]
      /\ mpc \in InExchange <=> peer \in Sessions
  BY TypedLinks DEF TypeOK
<1>1. CASE StartAttempt \/ ListenEnds \/ Finish \/ VerifyPassphrase \/ AnswerAskPassword
             \/ OpenVolume \/ Prompting
  <2>1. UNCHANGED <<toP, toM, spc, x>>
    BY <1>1 DEF StartAttempt, ListenEnds, Finish, VerifyPassphrase, AnswerAskPassword, OpenVolume,
       Prompting, PromptAppears, PromptGoes, linkVars, sessionVars
  <2>2. /\ mpc' \in InExchange => mpc \in InExchange /\ UNCHANGED <<peer, chal>>
        /\ mpc' \in {"greet", "request"} => mpc \in {"greet", "request"}
        /\ mpc' \in {"finish", "verify", "deliver"} =>
             mpc \in {"finish", "verify", "deliver"} /\ UNCHANGED resp
    BY <1>1 DEF StartAttempt, ListenEnds, Finish, VerifyPassphrase, AnswerAskPassword, OpenVolume,
       Prompting, PromptAppears, PromptGoes, agentVars, Settles, InExchange, AgentSteps
  <2>3. QED BY <2>1, <2>2, QuietStep DEF Quiet, HasBeenAsked
<1>2. CASE SendHello \/ Report \/ LingerReads \/ ReadResponseFails \/ PeerClosed
             \/ LingerTimeout \/ ExchangeTimeout \/ StopAgent
  <2>1. UNCHANGED <<spc, x>>
    BY <1>2 DEF SendHello, Report, LingerReads, ReadResponseFails, PeerClosed, LingerTimeout,
       ExchangeTimeout, StopAgent, sessionVars
  <2>2. /\ mpc' \in InExchange => mpc \in InExchange /\ UNCHANGED <<peer, chal>>
        /\ mpc' \in {"greet", "request"} => mpc \in {"greet", "request"}
        /\ mpc' \in {"finish", "verify", "deliver"} =>
             mpc \in {"finish", "verify", "deliver"} /\ UNCHANGED resp
    BY <1>2 DEF SendHello, Report, LingerReads, ReadResponseFails, PeerClosed, LingerTimeout,
       ExchangeTimeout, StopAgent, agentVars, HangUp, InExchange, AgentSteps
  <2>3. ASSUME peer \in Sessions
        PROVE  \A m \in InFlight(toP'[peer]) : m.type = "request" => m \in InFlight(toP[peer])
    <3>1. CASE UNCHANGED toP \/ MachineCloses(peer)
      BY <1>0, <2>3, <3>1, MachineEnd DEF Loses
    <3>2. ASSUME NEW n \in ToPhone, n.type # "request", MachineWrites(peer, n)
          PROVE  \A m \in InFlight(toP'[peer]) : m.type = "request" => m \in InFlight(toP[peer])
      <4>1. Gains(toP', toP, peer, n)
        BY <2>3, <3>2, LinkMessages
      <4>2. QED BY <2>3, <3>2, <4>1 DEF Gains
    <3>3. /\ Hello \in ToPhone /\ Hello.type # "request"
          /\ Result(verdict) \in ToPhone /\ Result(verdict).type # "request"
      BY MessageTypes DEF Hello, Result, TypeOK
    <3>4. QED
      BY <1>2, <3>1, <3>2, <3>3 DEF SendHello, Report, LingerReads, ReadResponseFails, PeerClosed,
         LingerTimeout, ExchangeTimeout, StopAgent, HangUp, MachineWriteFails
  <2>4. ASSUME peer \in Sessions
        PROVE  /\ InFlight(toM'[peer]) \subseteq InFlight(toM[peer])
               /\ toM[peer] = <<>> => toM'[peer] = <<>>
    <3>1. CASE UNCHANGED toM
      BY <3>1
    <3>2. ASSUME NEW m, MachineReads(peer, m)
          PROVE  /\ InFlight(toM'[peer]) \subseteq InFlight(toM[peer])
                 /\ toM[peer] = <<>> => toM'[peer] = <<>>
      BY <1>0, <2>4, <3>2, MachineEnd DEF Loses, MachineReads
    <3>3. QED
      BY <1>2, <3>1, <3>2 DEF SendHello, Report, LingerReads, ReadResponseFails, PeerClosed,
         LingerTimeout, ExchangeTimeout, StopAgent, MachineReadFails
  <2>5. QED BY <2>1, <2>2, <2>3, <2>4, QuietStep DEF Quiet, HasBeenAsked
<1>3. CASE SendRequest
  <2>1. PICK c \in Challenges :
          chal' = c /\ ((MachineWrites(peer, Request(c)) /\ mpc' = "await" /\ peer' = peer)
                        \/ HangUp(FALSE))
    BY <1>3 DEF SendRequest
  <2>2. mpc = "request" /\ peer \in Sessions /\ UNCHANGED <<toM, spc, x>>
    BY <1>0, <1>3 DEF SendRequest, InExchange, AgentSteps, sessionVars
  <2>3. CASE HangUp(FALSE)
    BY <2>3 DEF HangUp, ChallengeInv, NotAskedYet, OneChallenge, InExchange
  <2>4. CASE MachineWrites(peer, Request(c)) /\ mpc' = "await" /\ peer' = peer
    <3>1. toM[peer] = <<>> /\ ~Asked(peer) /\ spc[peer] \notin {"returning", "ready"}
      BY <2>2 DEF ChallengeInv, NotAskedYet
    <3>2. InFlight(toP'[peer]) \subseteq InFlight(toP[peer]) \cup {Request(c)}
      <4>1. Gains(toP', toP, peer, Request(c))
        BY <2>2, <2>4, LinkMessages, MessageTypes
      <4>2. QED BY <2>2, <4>1 DEF Gains
    <3>3. \A m \in InFlight(toP'[peer]) : m.type = "request" => m.x = c
      BY <3>1, <3>2 DEF Asked, Request
    <3>4. InFlight(toM'[peer]) = {}
      BY <2>2, <3>1, InFlightOf DEF InFlight
    <3>5. QED BY <2>1, <2>2, <2>4, <3>1, <3>3, <3>4 DEF ChallengeInv, NotAskedYet, OneChallenge
  <2>5. QED BY <2>1, <2>3, <2>4
<1>4. CASE ReadResponse
  <2>1. PICK m \in ToMachine :
          /\ MachineReads(peer, m)
          /\ \/ m.type = "answer" /\ resp' = m /\ mpc' = "finish" /\ UNCHANGED <<peer, toP>>
             \/ HangUp(FALSE)
    BY <1>4 DEF ReadResponse
  <2>2. mpc = "await" /\ peer \in Sessions /\ UNCHANGED <<chal, spc, x>>
    BY <1>0, <1>4 DEF ReadResponse, InExchange, AgentSteps, sessionVars
  <2>3. CASE HangUp(FALSE)
    BY <2>3 DEF HangUp, ChallengeInv, NotAskedYet, OneChallenge, InExchange
  <2>4. CASE m.type = "answer" /\ resp' = m /\ mpc' = "finish" /\ UNCHANGED <<peer, toP>>
    <3>1. m \in InFlight(toM[peer]) /\ InFlight(toM'[peer]) \subseteq InFlight(toM[peer])
      BY <1>0, <2>1, <2>2, MachineEnd DEF Loses
    <3>2. OneChallenge
      BY DEF ChallengeInv
    <3>3. QED BY <2>2, <2>4, <3>1, <3>2 DEF ChallengeInv, NotAskedYet, OneChallenge, InExchange,
                                         AgentSteps
  <2>5. QED BY <2>1, <2>3, <2>4
<1>5. ASSUME NEW s \in Sessions, Establish(s) \/ MachineEndOnly(s) PROVE ChallengeInv'
  <2>1. /\ mpc' = "greet" /\ peer' = s /\ spc'[s] \in {"hello", "dialling"}
        /\ toP'[s] = <<>> /\ toM'[s] = <<>>
    BY <1>0, <1>5 DEF Establish, MachineEndOnly, FreshLink, sessionVars, Channels
  <2>2. InFlight(<<>>) = {}
    BY InFlightOf DEF InFlight
  <2>3. QED BY <2>1, <2>2 DEF ChallengeInv, NotAskedYet, OneChallenge, Asked
<1>6. ASSUME NEW s \in Sessions, PhoneEndOnly(s) \/ LinkDies(s) PROVE ChallengeInv'
  <2>1. UNCHANGED <<mpc, peer, chal, resp, x>>
    BY <1>6 DEF PhoneEndOnly, LinkDies, agentVars, sessionVars
  <2>2. peer \in Sessions => spc'[peer] = spc[peer]
    BY <1>0, <1>6 DEF PhoneEndOnly, LinkDies, sessionVars
  <2>3. /\ toP' = toP \/ toP' = [toP EXCEPT ![s] = <<>>]
        /\ toM' = toM \/ toM' = [toM EXCEPT ![s] = <<>>]
    BY <1>6 DEF PhoneEndOnly, LinkDies, FreshLink
  <2>4. /\ Loses(toP', toP) /\ Loses(toM', toM)
        /\ \A t \in Sessions : toM[t] = <<>> => toM'[t] = <<>>
    <3>1. InFlight(<<>>) = {}
      BY InFlightOf DEF InFlight
    <3>2. QED BY <1>0, <2>3, <3>1 DEF Loses, Channels
  <2>5. QED BY <2>1, <2>2, <2>4, QuietStep DEF Quiet, HasBeenAsked, Loses
<1>7. ASSUME NEW s \in Sessions, SessionAction(s) PROVE ChallengeInv'
  <2>1. UNCHANGED <<mpc, peer, chal, resp>>
    BY <1>7, SessionFrame DEF agentVars
  <2>2. Loses(toP', toP)
    <3>1. UNCHANGED toP \/ PhoneCloses(s) \/ \E m : PhoneReads(s, m)
      BY <1>7 DEF SessionAction, SessionStep, Person, DialFails, ReadHello, ReadRequest,
         ConnectReadFails, RetryConnect, ConnectReturns, ReadVerdict, VerdictLost, Connect,
         Cancel, AnswerWithScalar, Decline, Close, ConnectDeadline, ReplyTimeout, Killed, EndCtx,
         linkVars
    <3>2. QED BY <3>1, LinkMessages
  <2>3. CASE ReadRequest(s)
    <3>1. PICK c \in Challenges : PhoneReads(s, Request(c)) /\ x' = [x EXCEPT ![s] = c]
      BY <2>3 DEF ReadRequest
    <3>2. Request(c) \in InFlight(toP[s])
      BY <1>0, <3>1, PhoneEnd
    <3>3. spc' = [spc EXCEPT ![s] = "returning"] /\ UNCHANGED toM
      BY <2>3 DEF ReadRequest, Goto
    <3>4. CASE peer # s
      BY <1>0, <2>1, <2>2, <3>1, <3>3, <3>4, QuietStep DEF Quiet, HasBeenAsked, Loses
    <3>5. CASE peer = s /\ mpc \in InExchange
      <4>1. mpc \notin {"greet", "request"}
        BY <3>2, <3>5 DEF ChallengeInv, NotAskedYet, Asked, Request
      <4>2. c = chal
        BY <3>2, <3>5 DEF ChallengeInv, OneChallenge, Request
      <4>3. x'[s] = chal
        BY <1>0, <3>1, <4>2
      <4>4. QED BY <2>1, <2>2, <3>3, <3>5, <4>1, <4>3
                DEF ChallengeInv, NotAskedYet, OneChallenge, Loses
    <3>6. QED BY <1>0, <3>4, <3>5
  <2>4. CASE AnswerWithScalar(s)
    <3> DEFINE m == Answer(x[s], IF enrolled[s] = "otherKey" THEN "wrong" ELSE "right")
    <3>1. /\ spc[s] = "ready" /\ spc' \in {[spc EXCEPT ![s] = "over"], [spc EXCEPT ![s] = "verdict"]}
          /\ UNCHANGED x
          /\ UNCHANGED toM \/ PhoneWrites(s, m)
      BY <2>4 DEF AnswerWithScalar, Goto, PhoneWriteFails
    <3>2. m \in ToMachine /\ m.type = "answer" /\ m.x = x[s]
      BY <3>1, MessageTypes DEF SessionPhases, Answer
    <3> HIDE DEF m
    <3>3. \A t \in Sessions :
            InFlight(toM'[t]) \subseteq InFlight(toM[t]) \cup (IF t = s THEN {m} ELSE {})
      <4>1. Gains(toM', toM, s, m) \/ UNCHANGED toM
        BY <3>1, <3>2, LinkMessages
      <4>2. QED BY <4>1 DEF Gains
    <3>4. CASE peer # s
      <4>1. peer \in Sessions => toM'[peer] = toM[peer] /\ spc'[peer] = spc[peer]
        <5>1. \A t \in Sessions : t # s => toM'[t] = toM[t]
          BY <1>0, <3>1 DEF PhoneWrites, Channels
        <5>2. \A t \in Sessions : t # s => spc'[t] = spc[t]
          BY <1>0, <3>1
        <5>3. QED BY <3>4, <5>1, <5>2
      <4>2. UNCHANGED x
        BY <3>1
      <4>3. QED BY <2>1, <2>2, <4>1, <4>2, QuietStep DEF Quiet, HasBeenAsked, Loses
    <3>5. CASE peer = s /\ mpc \in InExchange
      <4>1. mpc \notin {"greet", "request"} /\ x[s] = chal
        BY <3>1, <3>5 DEF ChallengeInv, NotAskedYet, OneChallenge
      <4>2. \A n \in InFlight(toM'[s]) : n.type = "answer" => n.x = chal
        BY <3>2, <3>3, <3>5, <4>1 DEF ChallengeInv, OneChallenge
      <4>3. spc'[s] \notin {"returning", "ready"}
        BY <1>0, <3>1
      <4>4. QED BY <2>1, <2>2, <3>1, <3>5, <4>1, <4>2, <4>3
                DEF ChallengeInv, NotAskedYet, OneChallenge, Loses
    <3>6. QED BY <1>0, <3>4, <3>5
  <2>5. CASE Decline(s)
    <3>1. /\ spc[s] \in {"ready", "over"} /\ spc' = [spc EXCEPT ![s] = "done"] /\ UNCHANGED x
          /\ UNCHANGED toM \/ PhoneWrites(s, Declined)
      BY <2>5 DEF Decline, Goto, PhoneWriteFails
    <3>2. Declined \in ToMachine /\ Declined.type # "answer"
      BY MessageTypes DEF Declined
    <3>3. \A t \in Sessions :
            InFlight(toM'[t]) \subseteq InFlight(toM[t]) \cup (IF t = s THEN {Declined} ELSE {})
      <4>1. Gains(toM', toM, s, Declined) \/ UNCHANGED toM
        BY <3>1, <3>2, LinkMessages
      <4>2. QED BY <4>1 DEF Gains
    <3>4. \A t \in Sessions : t # s => toM'[t] = toM[t]
      BY <1>0, <3>1 DEF PhoneWrites, Channels
    <3>5. QED BY <1>0, <2>1, <2>2, <3>1, <3>2, <3>3, <3>4, QuietStep DEF Quiet, HasBeenAsked, Loses
  <2>6. CASE ~ReadRequest(s) /\ ~AnswerWithScalar(s) /\ ~Decline(s)
    <3>1. /\ UNCHANGED <<toM, x>>
          /\ \A t \in Sessions :
               /\ spc'[t] \in {"returning", "ready"} => spc[t] \in {"returning", "ready"}
               /\ spc'[t] \in {"verdict", "over", "done"} => HasBeenAsked(t)
      BY <1>0, <1>7, <2>6 DEF SessionAction, SessionStep, Person, DialFails, ReadHello,
         ConnectReadFails, RetryConnect, ConnectReturns, ReadVerdict, VerdictLost, Connect,
         Cancel, Close, ConnectDeadline, ReplyTimeout, Killed, linkVars, sessionVars, Goto,
         HasBeenAsked
    <3>2. QED BY <2>1, <2>2, <3>1, QuietStep DEF Quiet, HasBeenAsked, Loses
  <2>7. QED BY <2>3, <2>4, <2>5, <2>6
<1>8. CASE UNCHANGED vars
  BY <1>8 DEF vars, agentVars, sessionVars, linkVars, ChallengeInv, NotAskedYet, OneChallenge, Asked
<1>9. QED
  BY <1>1, <1>2, <1>3, <1>4, <1>5, <1>6, <1>7, <1>8, NextCases DEF AgentStep, Network

-----------------------------------------------------------------------------
(* What the machine does for a session nothing has disturbed. *)

(* It waits for the session's answer, both ends open, nothing sent yet.    *)
Waits(s) == peer = s /\ mpc = "await" /\ Deliverable(s) /\ toM[s] = <<>>

(* It has the answer coming, in hand or decided, and holds the connection  *)
(* until the session has its verdict.                                      *)
Attends(s) ==
  /\ peer = s /\ Deliverable(s)
  /\ \/ /\ mpc = "await" /\ toM[s] # <<>>
        /\ \A m \in InFlight(toM[s]) : m.type = "answer"
     \/ mpc \in {"finish", "verify", "deliver", "report"}
     \/ mpc = "linger" /\ \E m \in InFlight(toP[s]) : m.type = "result"

(* A session that nothing disturbed has the machine's attention from the   *)
(* request to the verdict.                                                 *)
AttendedTo(s) == ~disturbed[s] =>
  /\ spc[s] \in {"returning", "ready"} => Waits(s)
  /\ spc[s] \in {"hello", "request"} /\ Asked(s) => Waits(s)
  /\ spc[s] = "verdict" => Attends(s)
  /\ outcome[s] # "unknown"

Attended == \A s \in Sessions : AttendedTo(s)

(* Such a session is owed something: a reading, or a verdict.              *)
Owed(s) == \/ spc[s] \in {"returning", "ready", "verdict"}
           \/ spc[s] \in {"hello", "request"} /\ Asked(s)

(* A session that is owed nothing, or that a step does not touch, is       *)
(* attended to after the step as it was before.                            *)
LEMMA NothingOwed ==
  ASSUME NEW t \in Sessions, AttendedTo(t), ~disturbed'[t] => ~disturbed[t],
         ~Owed(t), spc'[t] = spc[t], outcome'[t] = outcome[t], Asked(t)' => Asked(t)
  PROVE  AttendedTo(t)'
  BY DEF AttendedTo, Owed

LEMMA Untouched ==
  ASSUME NEW t \in Sessions, AttendedTo(t), ~disturbed'[t] => ~disturbed[t],
         UNCHANGED <<mpc, peer, spc[t], outcome[t], up[t], mOpen[t], pOpen[t], toP[t], toM[t]>>
  PROVE  AttendedTo(t)'
  BY DEF AttendedTo, Asked, Waits, Attends, Deliverable

(* What is owed, is owed by the machine on a link that works both ways.    *)
LEMMA OwedByPeer ==
  ASSUME NEW t \in Sessions, AttendedTo(t), ~disturbed[t], Owed(t)
  PROVE  /\ peer = t /\ Deliverable(t)
         /\ mpc \in {"await", "finish", "verify", "deliver", "report", "linger"}
         /\ Waits(t) \/ (spc[t] = "verdict" /\ Attends(t))
  BY DEF AttendedTo, Owed, Waits, Attends

(* A step marks a session as disturbed, and never takes that back.         *)
LEMMA DisturbedStays ==
  ASSUME TypeOK, [Next]_vars
  PROVE  \A t \in Sessions : disturbed[t] => disturbed'[t]
<1> USE DEF TypeOK, Mark
<1>1. CASE AgentStep \/ ExchangeTimeout \/ StopAgent \/ Prompting \/ UNCHANGED vars
  BY <1>1 DEF AgentStep, StartAttempt, ListenEnds, SendHello, SendRequest, ReadResponse,
     ReadResponseFails, Finish, VerifyPassphrase, AnswerAskPassword, OpenVolume, Report,
     LingerReads, PeerClosed, LingerTimeout, ExchangeTimeout, StopAgent, Prompting,
     PromptAppears, PromptGoes, historyVars, vars
<1>2. ASSUME NEW s \in Sessions, Network(s)
      PROVE  \A t \in Sessions : disturbed[t] => disturbed'[t]
  BY <1>2 DEF Network, Establish, MachineEndOnly, PhoneEndOnly, LinkDies, historyVars
<1>3. ASSUME NEW s \in Sessions, SessionAction(s)
      PROVE  \A t \in Sessions : disturbed[t] => disturbed'[t]
  BY <1>3 DEF SessionAction, SessionStep, Person, DialFails, ReadHello, ReadRequest,
     ConnectReadFails, RetryConnect, ConnectReturns, ReadVerdict, VerdictLost, Connect, Cancel,
     AnswerWithScalar, Decline, Close, ConnectDeadline, ReplyTimeout, Killed, EndCtx, historyVars
<1>4. QED BY <1>1, <1>2, <1>3, NextCases

(* The agent, and the prompts, leave the connections of everyone but the   *)
(* peer as they are, and change nothing of a session.                      *)
LEMMA AgentElsewhere ==
  ASSUME TypeOK, AgentStep \/ ExchangeTimeout \/ StopAgent \/ Prompting
  PROVE  \A t \in Sessions : t # peer => UNCHANGED <<toP[t], toM[t], up[t], mOpen[t], pOpen[t]>>
<1>1. /\ UNCHANGED <<up, pOpen>>
      /\ mOpen' = mOpen \/ mOpen' = [mOpen EXCEPT ![peer] = FALSE]
      /\ toP' = toP \/ toP' = [toP EXCEPT ![peer] = <<>>]
                    \/ \E m : toP' = [toP EXCEPT ![peer] = Append(@, m)]
      /\ toM' = toM \/ toM' = [toM EXCEPT ![peer] = Tail(@)]
  BY DEF AgentStep, StartAttempt, ListenEnds, SendHello, SendRequest, ReadResponse,
     ReadResponseFails, Finish, VerifyPassphrase, AnswerAskPassword, OpenVolume, Report,
     LingerReads, PeerClosed, LingerTimeout, ExchangeTimeout, StopAgent, Prompting,
     PromptAppears, PromptGoes, HangUp, MachineCloses, MachineWrites, MachineWriteFails,
     MachineReads, MachineReadFails, linkVars
<1>2. QED BY <1>1 DEF TypeOK

(* The agent attends to its peer.                                          *)
LEMMA AgentAttends ==
  ASSUME TypeOK, ChallengeInv, Attended, [Next]_vars,
         AgentStep \/ ExchangeTimeout \/ StopAgent \/ Prompting
  PROVE  Attended'
<1> SUFFICES ASSUME NEW t \in Sessions PROVE AttendedTo(t)'
  BY DEF Attended
<1>0. /\ AttendedTo(t) /\ (~disturbed'[t] => ~disturbed[t])
      /\ spc'[t] = spc[t] /\ outcome'[t] = outcome[t]
      /\ mpc \in InExchange <=> peer \in Sessions
  BY AgentFrame, DisturbedStays DEF Attended, sessionVars, TypeOK
<1>1. CASE peer # t
  <2>1. UNCHANGED <<toP[t], toM[t], up[t], mOpen[t], pOpen[t]>>
    BY <1>1, AgentElsewhere
  <2>2. CASE disturbed[t]
    BY <1>0, <2>2 DEF AttendedTo
  <2>3. CASE ~disturbed[t]
    <3>1. ~Owed(t)
      BY <1>0, <1>1, <2>3, OwedByPeer
    <3>2. QED BY <1>0, <2>1, <3>1, NothingOwed DEF Asked
  <2>4. QED BY <2>2, <2>3
<1>2. CASE peer = t /\ disturbed'[t]
  BY <1>2 DEF AttendedTo
<1>3. CASE peer = t /\ ~disturbed'[t]
  <2>0. ~disturbed[t]
    BY <1>0, <1>3
  <2>1. CASE StartAttempt \/ ListenEnds
    BY <1>0, <1>3, <2>1 DEF StartAttempt, ListenEnds, InExchange
  <2>2. CASE SendHello \/ SendRequest
    <3>1. toM[t] = <<>> /\ ~Asked(t) /\ ~Owed(t)
      BY <1>3, <2>2 DEF SendHello, SendRequest, ChallengeInv, NotAskedYet, Owed
    <3>2. CASE Loses(toP', toP)
      <4>1. ~Asked(t)'
        BY <3>1, <3>2 DEF Asked, Loses
      <4>2. QED BY <1>0, <3>1, <4>1, NothingOwed
    <3>3. CASE MachineWrites(t, Hello)
      <4>1. Gains(toP', toP, t, Hello)
        BY <3>3, LinkMessages, MessageTypes
      <4>2. ~Asked(t)'
        BY <3>1, <4>1 DEF Asked, Gains, Hello
      <4>3. QED BY <1>0, <3>1, <4>2, NothingOwed
    <3>4. ASSUME NEW c \in Challenges, MachineWrites(t, Request(c)), mpc' = "await",
                 UNCHANGED <<peer, mOpen, up, pOpen, toM>>
          PROVE  AttendedTo(t)'
      <4>1. CASE Deliverable(t)
        <5>1. Waits(t)'
          BY <1>3, <3>1, <3>4, <4>1 DEF Waits, Deliverable
        <5>2. QED BY <1>0, <3>1, <5>1 DEF AttendedTo, Owed
      <4>2. CASE ~Deliverable(t)
        <5>1. UNCHANGED toP
          BY <3>4, <4>2 DEF MachineWrites
        <5>2. QED BY <1>0, <3>1, <5>1, NothingOwed DEF Asked
      <4>3. QED BY <4>1, <4>2
    <3>5. HangUp(FALSE) => Loses(toP', toP)
      BY <1>3, LinkMessages DEF HangUp
    <3>6. CASE SendHello
      BY <1>3, <3>2, <3>3, <3>5, <3>6 DEF SendHello
    <3>7. CASE SendRequest
      BY <1>3, <3>2, <3>4, <3>5, <3>7 DEF SendRequest
    <3>8. QED BY <2>2, <3>6, <3>7
  <2>3. CASE ReadResponse
    <3>1. PICK m \in ToMachine :
            /\ MachineReads(t, m)
            /\ \/ m.type = "answer" /\ mpc' = "finish" /\ UNCHANGED <<peer, mOpen, toP>>
               \/ m.type = "declined" /\ HangUp(FALSE)
      BY <1>3, <2>3 DEF ReadResponse
    <3>2. mpc = "await" /\ toM[t] # <<>> /\ UNCHANGED <<up, pOpen>> /\ m \in InFlight(toM[t])
      BY <2>3, <3>1, LinkMessages DEF ReadResponse, MachineReads
    <3>3. Loses(toP', toP)
      BY <1>3, <3>1, LinkMessages DEF HangUp
    <3>4. CASE ~Owed(t)
      <4>1. Asked(t)' => Asked(t)
        BY <3>3 DEF Asked, Loses
      <4>2. QED BY <1>0, <3>4, <4>1, NothingOwed
    <3>5. CASE Owed(t)
      <4>1. spc[t] = "verdict" /\ Attends(t)
        BY <1>0, <2>0, <3>2, <3>5, OwedByPeer DEF Waits
      <4>2. m.type = "answer" /\ Deliverable(t)
        BY <3>2, <4>1 DEF Attends
      <4>3. mpc' = "finish" /\ UNCHANGED <<peer, mOpen>>
        BY <3>1, <4>2
      <4>4. Attends(t)'
        BY <1>3, <3>2, <4>2, <4>3 DEF Attends, Deliverable
      <4>5. QED BY <1>0, <2>0, <4>1, <4>4 DEF AttendedTo
    <3>6. QED BY <3>4, <3>5
  <2>4. CASE ReadResponseFails \/ PeerClosed
    <3>1. MachineReadFails(t) /\ HangUp(IF mpc = "await" THEN FALSE ELSE verdict)
          /\ mpc \in {"await", "linger"}
      BY <1>3, <2>4 DEF ReadResponseFails, PeerClosed
    <3>2. ~Owed(t)
      <4> SUFFICES ASSUME Owed(t) PROVE FALSE
        OBVIOUS
      <4>1. Deliverable(t) /\ (Waits(t) \/ Attends(t))
        BY <1>0, <2>0, OwedByPeer
      <4>2. QED BY <3>1, <4>1 DEF Deliverable, MachineReadFails, Waits, Attends
    <3>3. Loses(toP', toP)
      BY <1>3, <3>1, LinkMessages DEF HangUp
    <3>4. Asked(t)' => Asked(t)
      BY <3>3 DEF Asked, Loses
    <3>5. QED BY <1>0, <3>2, <3>4, NothingOwed
  <2>5. CASE Finish \/ VerifyPassphrase \/ AnswerAskPassword \/ OpenVolume
    <3>1. /\ mpc \in {"finish", "verify", "deliver"} /\ mpc' \in {"verify", "deliver", "report"}
          /\ UNCHANGED <<peer, up, mOpen, pOpen, toP, toM>>
      BY <2>5 DEF Finish, VerifyPassphrase, AnswerAskPassword, OpenVolume, Settles, linkVars
    <3>2. QED BY <1>0, <2>0, <3>1 DEF AttendedTo, Asked, Waits, Attends, Deliverable
  <2>6. CASE Report
    <3>1. /\ mpc = "report" /\ mpc' = "linger" /\ UNCHANGED <<peer, up, mOpen, pOpen, toM>>
          /\ MachineWrites(t, Result(verdict)) \/ MachineWriteFails(t)
      BY <1>3, <2>6 DEF Report
    <3>2. Result(verdict) \in ToPhone /\ Result(verdict).type = "result"
      BY MessageTypes DEF TypeOK, Result
    <3>3. CASE ~Owed(t)
      <4>1. Gains(toP', toP, t, Result(verdict)) \/ UNCHANGED toP
        BY <3>1, <3>2, LinkMessages DEF MachineWriteFails
      <4>2. Asked(t)' => Asked(t)
        BY <3>2, <4>1 DEF Asked, Gains
      <4>3. QED BY <1>0, <3>3, <4>2, NothingOwed
    <3>4. CASE Owed(t)
      <4>1. spc[t] = "verdict" /\ Deliverable(t)
        BY <1>0, <2>0, <3>1, <3>4, OwedByPeer DEF Waits
      <4>2. toP' = [toP EXCEPT ![t] = Append(@, Result(verdict))]
        BY <3>1, <4>1 DEF MachineWrites, MachineWriteFails
      <4>3. toP[t] \in Seq(ToPhone) /\ toP'[t] = Append(toP[t], Result(verdict))
        BY <4>2 DEF TypeOK
      <4>4. Result(verdict) \in InFlight(toP'[t])
        BY <3>2, <4>3, InFlightOf
      <4>5. Attends(t)'
        BY <1>3, <3>1, <3>2, <4>1, <4>4 DEF Attends, Deliverable
      <4>6. QED BY <1>0, <2>0, <4>1, <4>5 DEF AttendedTo
    <3>5. QED BY <3>3, <3>4
  <2>7. CASE LingerReads
    <3>1. mpc = "linger" /\ UNCHANGED <<mpc, peer, up, mOpen, pOpen, toP>>
      BY <2>7 DEF LingerReads, agentVars
    <3>2. QED BY <1>0, <2>0, <3>1 DEF AttendedTo, Asked, Waits, Attends, Deliverable
  <2>8. CASE LingerTimeout \/ ExchangeTimeout \/ (StopAgent /\ mpc \in InExchange)
    BY <1>3, <2>8 DEF LingerTimeout, ExchangeTimeout, StopAgent, Mark, TypeOK
  <2>9. CASE Prompting
    BY <1>0, <2>9, Untouched DEF Prompting, PromptAppears, PromptGoes, agentVars, linkVars
  <2>10. QED
    BY <1>0, <1>3, <2>1, <2>2, <2>3, <2>4, <2>5, <2>6, <2>7, <2>8, <2>9 DEF AgentStep
<1>4. QED BY <1>1, <1>2, <1>3

(* A session's own steps do not lose it the machine's attention, and it    *)
(* gives up on a verdict only when something has disturbed it.             *)
LEMMA SessionAttended ==
  ASSUME TypeOK, SessionPhases, Attended, [Next]_vars, NEW s \in Sessions, SessionAction(s)
  PROVE  Attended'
<1> SUFFICES ASSUME NEW t \in Sessions PROVE AttendedTo(t)'
  BY DEF Attended
<1>0. /\ AttendedTo(t) /\ (~disturbed'[t] => ~disturbed[t])
      /\ UNCHANGED <<mpc, peer>>
      /\ spc \in [Sessions -> SessionSteps] /\ outcome \in [Sessions -> Outcomes]
      /\ disturbed \in [Sessions -> BOOLEAN]
  BY SessionFrame, DisturbedStays DEF Attended, TypeOK, agentVars
<1>1. CASE t # s
  <2>1. /\ UNCHANGED <<up, mOpen>>
        /\ pOpen' = pOpen \/ pOpen' = [pOpen EXCEPT ![s] = FALSE]
        /\ \/ toP' = toP \/ toP' = [toP EXCEPT ![s] = <<>>] \/ toP' = [toP EXCEPT ![s] = Tail(@)]
        /\ toM' = toM \/ \E m : toM' = [toM EXCEPT ![s] = Append(@, m)]
        /\ spc' = spc \/ \E step : spc' = [spc EXCEPT ![s] = step]
        /\ outcome' = outcome \/ \E how : outcome' = [outcome EXCEPT ![s] = how]
    BY DEF SessionAction, SessionStep, Person, DialFails, ReadHello, ReadRequest,
       ConnectReadFails, RetryConnect, ConnectReturns, ReadVerdict, VerdictLost, Connect, Cancel,
       AnswerWithScalar, Decline, Close, ConnectDeadline, ReplyTimeout, Killed, EndCtx, linkVars,
       sessionVars, Goto, Ends, PhoneCloses, PhoneReads, PhoneWrites, PhoneWriteFails
  <2>2. UNCHANGED <<spc[t], outcome[t], up[t], mOpen[t], pOpen[t], toP[t], toM[t]>>
    BY <1>0, <1>1, <2>1, TypedLinks DEF Channels
  <2>3. QED BY <1>0, <2>2, Untouched
<1>2. CASE t = s /\ disturbed'[t]
  BY <1>2 DEF AttendedTo
<1>3. CASE t = s /\ ~disturbed'[t]
  <2>0. ~disturbed[s] /\ AttendedTo(s)
    BY <1>0, <1>3
  <2>1. ASSUME spc'[s] \in {"dialling", "backoff", "failed", "over", "done", "closed"},
               outcome'[s] # "unknown"
        PROVE  AttendedTo(t)'
    BY <1>3, <2>1 DEF AttendedTo
  <2>2. outcome[s] # "unknown"
    BY <2>0 DEF AttendedTo
  <2>3. CASE Connect(s) \/ DialFails(s) \/ ConnectReadFails(s) \/ RetryConnect(s) \/ ReadVerdict(s)
               \/ Decline(s) \/ Close(s)
    BY <1>0, <2>1, <2>2, <2>3 DEF Connect, DialFails, ConnectReadFails, RetryConnect, ReadVerdict,
       Decline, Close, Goto, Ends
  <2>4. CASE ReadHello(s) \/ ReadRequest(s) \/ ConnectReturns(s)
    <3>1. /\ UNCHANGED <<up, mOpen, pOpen, toM, outcome>>
          /\ spc'[s] \in {"request", "returning", "ready"}
      BY <1>0, <2>4 DEF ReadHello, ReadRequest, ConnectReturns, Goto, linkVars
    <3>2. Waits(s) => Waits(s)'
      BY <1>0, <3>1 DEF Waits, Deliverable
    <3>3. CASE ReadHello(s)
      <4>1. spc[s] = "hello" /\ spc'[s] = "request" /\ PhoneReads(s, Hello)
        BY <1>0, <3>3 DEF ReadHello, Goto
      <4>2. Loses(toP', toP)
        BY <4>1, LinkMessages
      <4>3. Asked(s)' => Asked(s)
        BY <4>2 DEF Asked, Loses
      <4>4. QED BY <1>3, <2>0, <2>2, <3>1, <3>2, <4>1, <4>3 DEF AttendedTo
    <3>4. CASE ReadRequest(s)
      <4>1. PICK c \in Challenges : PhoneReads(s, Request(c))
        BY <3>4 DEF ReadRequest
      <4>2. Asked(s)
        BY <4>1, LinkMessages DEF Asked, Request
      <4>3. Waits(s) /\ spc'[s] = "returning"
        BY <1>0, <2>0, <3>4, <4>2 DEF ReadRequest, AttendedTo, Goto
      <4>4. QED BY <1>3, <2>2, <3>1, <3>2, <4>3 DEF AttendedTo
    <3>5. CASE ConnectReturns(s)
      <4>1. Waits(s) /\ spc'[s] = "ready"
        BY <1>0, <2>0, <3>5 DEF ConnectReturns, AttendedTo, Goto
      <4>2. QED BY <1>3, <2>2, <3>1, <3>2, <4>1 DEF AttendedTo
    <3>6. QED BY <2>4, <3>3, <3>4, <3>5
  <2>5. CASE VerdictLost(s)
    <3>1. Attends(s) /\ PhoneReadFails(s)
      BY <2>0, <2>5 DEF VerdictLost, AttendedTo
    <3>2. Deliverable(s)
      BY <3>1 DEF Attends
    <3>3. toP[s] = <<>> /\ (~up[s] \/ ~mOpen[s])
      BY <3>1, <3>2 DEF PhoneReadFails, Deliverable
    <3>4. QED BY <3>2, <3>3 DEF Deliverable
  <2>6. CASE Cancel(s) \/ ConnectDeadline(s)
    <3>1. UNCHANGED <<spc, outcome, up, mOpen, toM>>
      BY <2>6 DEF Cancel, ConnectDeadline
    <3>2. CASE EndCtx(s) /\ spc[s] \in Connecting
      <4>1. spc[s] \notin Reading
        BY <1>0, <1>3, <3>2 DEF EndCtx, Mark
      <4>2. QED BY <1>3, <2>2, <3>1, <3>2, <4>1 DEF AttendedTo, Connecting, Reading
    <3>3. CASE UNCHANGED <<pOpen, toP>>
      BY <1>0, <1>3, <3>1, <3>3, Untouched
    <3>4. QED BY <2>6, <3>2, <3>3 DEF Cancel, ConnectDeadline
  <2>7. CASE AnswerWithScalar(s)
    <3> DEFINE m == Answer(x[s], IF enrolled[s] = "otherKey" THEN "wrong" ELSE "right")
    <3>1. spc[s] = "ready" /\ Waits(s)
      BY <2>0, <2>7 DEF AnswerWithScalar, AttendedTo
    <3>2. CASE Goto(s, "over") /\ (Ends(s, "keyMismatch") \/ Ends(s, "hungUp"))
      BY <1>0, <2>1, <3>2 DEF Goto, Ends
    <3>3. CASE PhoneWrites(s, m) /\ Goto(s, "verdict") /\ UNCHANGED outcome
      <4>1. m \in ToMachine /\ m.type = "answer"
        BY <3>1, MessageTypes DEF SessionPhases, Answer
      <4> HIDE DEF m
      <4>2. toM[s] = <<>> /\ Deliverable(s) /\ toM[s] \in Seq(ToMachine)
        BY <3>1 DEF Waits, TypeOK
      <4>3. toM' = [toM EXCEPT ![s] = Append(@, m)]
        BY <3>3, <4>2 DEF PhoneWrites
      <4>4. toM'[s] = Append(toM[s], m)
        BY <4>3 DEF TypeOK
      <4>5. toM'[s] # <<>> /\ InFlight(toM'[s]) = {m}
        <5>1. InFlight(toM'[s]) = InFlight(toM[s]) \cup {m}
          BY <4>1, <4>2, <4>4, InFlightOf
        <5>2. InFlight(<<>>) = {}
          BY DEF InFlight
        <5>3. QED BY <4>2, <5>1, <5>2
      <4>6. UNCHANGED <<up, mOpen, pOpen>>
        BY <2>7 DEF AnswerWithScalar
      <4>7. Attends(s)'
        BY <1>0, <3>1, <4>1, <4>2, <4>5, <4>6 DEF Attends, Waits, Deliverable
      <4>8. QED BY <1>0, <1>3, <2>2, <3>3, <4>7 DEF AttendedTo, Goto
    <3>4. QED BY <2>7, <3>2, <3>3 DEF AnswerWithScalar
  <2>8. CASE ReplyTimeout(s) \/ Killed(s)
    BY <1>0, <1>3, <2>8 DEF ReplyTimeout, Killed, Mark
  <2>9. QED
    BY <2>3, <2>4, <2>5, <2>6, <2>7, <2>8 DEF SessionAction, SessionStep, Person
<1>4. QED BY <1>1, <1>2, <1>3

(* A connection handed out, or dying, takes nothing from another session.  *)
LEMMA NetworkAttended ==
  ASSUME TypeOK, Attended, [Next]_vars, NEW s \in Sessions, Network(s)
  PROVE  Attended'
<1> SUFFICES ASSUME NEW t \in Sessions PROVE AttendedTo(t)'
  BY DEF Attended
<1>0. /\ AttendedTo(t) /\ (~disturbed'[t] => ~disturbed[t]) /\ UNCHANGED outcome
      /\ spc \in [Sessions -> SessionSteps] /\ disturbed \in [Sessions -> BOOLEAN]
      /\ mpc \in InExchange <=> peer \in Sessions
  BY NetworkFrame, DisturbedStays DEF Attended, TypeOK
<1>1. CASE disturbed'[t]
  BY <1>1 DEF AttendedTo
<1>2. CASE ~disturbed'[t] /\ t = s
  <2>1. CASE Establish(s) \/ MachineEndOnly(s) \/ PhoneEndOnly(s)
    <3>1. /\ spc'[s] \in {"dialling", "hello"} /\ toP'[s] = <<>>
      BY <1>0, <2>1, TypedLinks DEF Establish, MachineEndOnly, PhoneEndOnly, FreshLink,
         sessionVars, Channels
    <3>2. ~Asked(s)'
      BY <3>1, InFlightOf DEF Asked, InFlight
    <3>3. outcome[s] # "unknown"
      BY <1>0, <1>2 DEF AttendedTo
    <3>4. QED BY <1>0, <1>2, <3>1, <3>2, <3>3 DEF AttendedTo
  <2>2. CASE LinkDies(s)
    BY <1>0, <1>2, <2>2 DEF LinkDies, Mark
  <2>3. QED BY <2>1, <2>2 DEF Network
<1>3. CASE ~disturbed'[t] /\ t # s
  <2>1. UNCHANGED <<spc[t], outcome[t], up[t], mOpen[t], pOpen[t], toP[t], toM[t]>>
    <3>1. \/ spc' = spc
          \/ spc' = [spc EXCEPT ![s] = "hello"]
      BY DEF Network, Establish, MachineEndOnly, PhoneEndOnly, LinkDies, sessionVars
    <3>2. /\ toP' = toP \/ toP' = [toP EXCEPT ![s] = <<>>]
          /\ toM' = toM \/ toM' = [toM EXCEPT ![s] = <<>>]
          /\ \E b \in BOOLEAN : up' = [up EXCEPT ![s] = b]
          /\ mOpen' = mOpen \/ \E b \in BOOLEAN : mOpen' = [mOpen EXCEPT ![s] = b]
          /\ pOpen' = pOpen \/ \E b \in BOOLEAN : pOpen' = [pOpen EXCEPT ![s] = b]
      BY DEF Network, Establish, MachineEndOnly, PhoneEndOnly, LinkDies, FreshLink
    <3>3. QED BY <1>0, <1>3, <3>1, <3>2, TypedLinks DEF Channels
  <2>2. CASE Establish(s) \/ MachineEndOnly(s)
    <3>1. ~Owed(t)
      BY <1>0, <1>3, <2>2, OwedByPeer DEF Establish, MachineEndOnly, InExchange
    <3>2. QED BY <1>0, <2>1, <3>1, NothingOwed DEF Asked
  <2>3. CASE PhoneEndOnly(s) \/ LinkDies(s)
    <3>1. UNCHANGED <<mpc, peer>>
      BY <2>3 DEF PhoneEndOnly, LinkDies, agentVars
    <3>2. QED BY <1>0, <2>1, <3>1, Untouched
  <2>4. QED BY <2>2, <2>3 DEF Network
<1>4. QED BY <1>1, <1>2, <1>3

(* Every step keeps the machine attentive.                                 *)
LEMMA AttendedStep == TypeOK /\ SessionPhases /\ ChallengeInv /\ Attended /\ [Next]_vars => Attended'
<1> SUFFICES ASSUME TypeOK, SessionPhases, ChallengeInv, Attended, [Next]_vars PROVE Attended'
  OBVIOUS
<1>1. CASE AgentStep \/ ExchangeTimeout \/ StopAgent \/ Prompting
  BY <1>1, AgentAttends
<1>2. ASSUME NEW s \in Sessions, SessionAction(s) \/ Network(s) PROVE Attended'
  BY <1>2, SessionAttended, NetworkAttended
<1>3. CASE UNCHANGED vars
  BY <1>3 DEF vars, agentVars, sessionVars, linkVars, historyVars, Attended, AttendedTo, Asked,
     Waits, Attends, Deliverable
<1>4. QED BY <1>1, <1>2, <1>3, NextCases

-----------------------------------------------------------------------------
(* What a delivery does. *)

(* What was delivered was put to use for this session; "open" stops when   *)
(* the volume is open or it is told to.                                    *)
Spent ==
  /\ \A s \in Sessions : settled[s] = "delivered" => KeySpent(s)
  /\ OneShot /\ mpc = "stopped" => opened \/ stopping

(* A volume once open, and a key once sent, stay so; so does a stop.       *)
LEMMA VolumeFrame ==
  ASSUME TypeOK, [Next]_vars
  PROVE  /\ opened => opened'
         /\ sentTo \subseteq sentTo'
         /\ stopping => stopping'
         /\ \/ UNCHANGED settled
            \/ \E ok \in BOOLEAN : Settles(ok) /\ (ok => KeySpent(peer)' /\ peer' = peer)
<1>0. opened \in BOOLEAN /\ stopping \in BOOLEAN
  BY DEF TypeOK
<1>1. CASE Finish \/ VerifyPassphrase
  <2>1. UNCHANGED <<opened, sentTo, stopping>>
    BY <1>1 DEF Finish, VerifyPassphrase, volumeVars
  <2>2. UNCHANGED settled \/ Settles(FALSE)
    BY <1>1 DEF Finish, VerifyPassphrase
  <2>3. QED BY <2>1, <2>2
<1>2. CASE AnswerAskPassword
  <2>1. CASE Settles(FALSE) /\ UNCHANGED volumeVars
    BY <1>2, <2>1 DEF AnswerAskPassword, volumeVars
  <2>2. ASSUME NEW p \in Prompts, sentTo' = sentTo \cup {<<p, peer>>}, MayOpen(p), Settles(TRUE)
        PROVE  /\ opened => opened' /\ sentTo \subseteq sentTo'
               /\ \E ok \in BOOLEAN : Settles(ok) /\ (ok => KeySpent(peer)' /\ peer' = peer)
    <3>1. ~OneShot /\ peer' = peer
      BY <1>2 DEF AnswerAskPassword
    <3>2. opened => opened'
      BY <1>0, <2>2 DEF MayOpen
    <3>3. <<p, peer'>> \in sentTo'
      BY <2>2, <3>1
    <3>4. KeySpent(peer)'
      BY <2>2, <3>1, <3>3 DEF KeySpent
    <3>5. Settles(TRUE) /\ (TRUE => KeySpent(peer)' /\ peer' = peer)
      BY <2>2, <3>1, <3>4
    <3>6. QED BY <2>2, <3>2, <3>5
  <2>3. UNCHANGED stopping
    BY <1>2 DEF AnswerAskPassword
  <2>4. \/ Settles(FALSE) /\ UNCHANGED volumeVars
        \/ \E p \in Prompts : /\ sentTo' = sentTo \cup {<<p, peer>>}
                             /\ MayOpen(p) /\ Settles(TRUE)
    BY <1>2 DEF AnswerAskPassword
  <2>5. CASE \E p \in Prompts : /\ sentTo' = sentTo \cup {<<p, peer>>}
                                /\ MayOpen(p) /\ Settles(TRUE)
    <3>1. PICK p \in Prompts : /\ sentTo' = sentTo \cup {<<p, peer>>}
                              /\ MayOpen(p) /\ Settles(TRUE)
      BY <2>5
    <3>2. QED BY <2>2, <2>3, <3>1
  <2>6. QED BY <2>1, <2>4, <2>5
<1>3. CASE OpenVolume
  <2>1. UNCHANGED <<sentTo, stopping, peer>> /\ OneShot
    BY <1>3 DEF OpenVolume
  <2>2. CASE opened' = TRUE /\ Settles(TRUE)
    BY <2>1, <2>2 DEF KeySpent
  <2>3. CASE UNCHANGED opened /\ Settles(FALSE)
    BY <2>1, <2>3
  <2>4. QED BY <1>3, <2>2, <2>3 DEF OpenVolume
<1>4. CASE AgentStep /\ ~(Finish \/ VerifyPassphrase \/ AnswerAskPassword \/ OpenVolume)
  <2>1. UNCHANGED <<opened, sentTo, stopping, settled>>
    BY <1>4 DEF AgentStep, StartAttempt, ListenEnds, SendHello, SendRequest, ReadResponse,
       ReadResponseFails, Report, LingerReads, PeerClosed, LingerTimeout, historyVars, volumeVars, agentVars
  <2>2. QED BY <2>1
<1>5. CASE ExchangeTimeout \/ StopAgent \/ UNCHANGED vars
  BY <1>5 DEF ExchangeTimeout, StopAgent, historyVars, volumeVars, agentVars, vars
<1>6. CASE Prompting
  <2>1. UNCHANGED <<sentTo, stopping, settled>>
    BY <1>6 DEF Prompting, PromptAppears, PromptGoes, historyVars, agentVars
  <2>2. opened' = opened \/ opened' = TRUE
    BY <1>0, <1>6 DEF Prompting, PromptAppears, PromptGoes, MayOpen
  <2>3. QED BY <1>0, <2>1, <2>2
<1>7. ASSUME NEW s \in Sessions, Network(s)
      PROVE  UNCHANGED <<opened, sentTo, stopping, settled>>
  BY <1>7 DEF Network, Establish, MachineEndOnly, PhoneEndOnly, LinkDies, historyVars, volumeVars,
     agentVars
<1>8. ASSUME NEW s \in Sessions, SessionAction(s)
      PROVE  UNCHANGED <<opened, sentTo, stopping, settled>>
  <2>1. UNCHANGED <<stopping, settled>>
    BY <1>8, SessionFrame DEF agentVars
  <2>2. UNCHANGED volumeVars
    BY <1>8 DEF SessionAction, SessionStep, Person, DialFails, ReadHello, ReadRequest,
       ConnectReadFails, RetryConnect, ConnectReturns, ReadVerdict, VerdictLost, Connect, Cancel,
       AnswerWithScalar, Decline, Close, ConnectDeadline, ReplyTimeout, Killed
  <2>3. QED BY <2>1, <2>2 DEF volumeVars
<1>9. QED BY <1>1, <1>2, <1>3, <1>4, <1>5, <1>6, <1>7, <1>8, NextCases

(* Every step keeps account of what was delivered.                         *)
LEMMA SpentStep == TypeOK /\ VerdictsAgree /\ Spent /\ [Next]_vars => Spent'
<1> SUFFICES ASSUME TypeOK, VerdictsAgree, Spent, [Next]_vars PROVE Spent'
  OBVIOUS
<1>0. \A s \in Sessions : KeySpent(s) => KeySpent(s)'
  BY VolumeFrame DEF KeySpent
<1>1. \A s \in Sessions : settled'[s] = "delivered" => KeySpent(s)'
  <2>1. CASE UNCHANGED settled
    BY <1>0, <2>1 DEF Spent
  <2>2. ASSUME NEW ok \in BOOLEAN, Settles(ok), ok => KeySpent(peer)' /\ peer' = peer
        PROVE  \A s \in Sessions : settled'[s] = "delivered" => KeySpent(s)'
    <3> SUFFICES ASSUME NEW s \in Sessions, settled'[s] = "delivered" PROVE KeySpent(s)'
      OBVIOUS
    <3>1. CASE s # peer
      BY <1>0, <2>2, <3>1 DEF Settles, Spent, TypeOK
    <3>2. CASE s = peer /\ ok
      <4>1. s = peer'
        BY <2>2, <3>2
      <4>2. QED BY <2>2, <3>2, <4>1 DEF KeySpent
    <3>3. CASE s = peer /\ ~ok
      BY <2>2, <3>3 DEF Settles, TypeOK
    <3>4. QED BY <3>1, <3>2, <3>3
  <2>3. QED BY <2>1, <2>2, VolumeFrame
<1>2. ASSUME OneShot, mpc' = "stopped" PROVE opened' \/ stopping'
  <2>1. CASE mpc = "stopped"
    BY <1>2, <2>1, VolumeFrame DEF Spent
  <2>2. CASE mpc # "stopped"
    <3>1. StartAttempt \/ HangUp(FALSE) \/ ((PeerClosed \/ LingerTimeout) /\ HangUp(verdict))
      <4>1. CASE AgentStep
        BY <1>2, <2>2, <4>1 DEF AgentStep, StartAttempt, ListenEnds, SendHello, SendRequest,
           ReadResponse, ReadResponseFails, Finish, VerifyPassphrase, AnswerAskPassword,
           OpenVolume, Report, LingerReads, PeerClosed, LingerTimeout, Settles, agentVars
      <4>2. CASE ExchangeTimeout \/ StopAgent \/ Prompting \/ UNCHANGED vars
        BY <1>2, <2>2, <4>2 DEF ExchangeTimeout, StopAgent, Prompting, PromptAppears, PromptGoes,
           agentVars, vars
      <4>3. ASSUME NEW s \in Sessions, Network(s) PROVE FALSE
        BY <1>2, <2>2, <4>3 DEF Network, Establish, MachineEndOnly, PhoneEndOnly, LinkDies,
           agentVars
      <4>4. ASSUME NEW s \in Sessions, SessionAction(s) PROVE FALSE
        BY <1>2, <2>2, <4>4, SessionFrame DEF agentVars
      <4>5. QED BY <4>1, <4>2, <4>3, <4>4, NextCases
    <3>2. CASE StartAttempt
      BY <1>2, <3>2 DEF StartAttempt
    <3>3. CASE HangUp(FALSE)
      BY <1>2, <3>3 DEF HangUp
    <3>4. CASE (PeerClosed \/ LingerTimeout) /\ HangUp(verdict)
      <4>1. mpc = "linger" /\ verdict
        BY <1>2, <3>4 DEF PeerClosed, LingerTimeout, HangUp
      <4>2. peer \in Sessions /\ settled[peer] = "delivered"
        BY <4>1 DEF TypeOK, InExchange, AgentSteps, VerdictsAgree, SettledAs
      <4>3. QED BY <1>2, <4>2, VolumeFrame DEF Spent, KeySpent
    <3>5. QED BY <3>1, <3>2, <3>3, <3>4
  <2>3. QED BY <2>1, <2>2
<1>3. QED BY <1>1, <1>2 DEF Spent

-----------------------------------------------------------------------------
(* The theorems that rest on them. *)

FullInv == IInv /\ ChallengeInv /\ Attended /\ Spent

(* The invariant of the whole exchange: it holds at the start, and every   *)
(* step keeps it.                                                          *)
THEOREM FullInvariant == Spec => []FullInv
<1>1. Init => FullInv
  <2> SUFFICES ASSUME Init PROVE FullInv
    OBVIOUS
  <2>1. ChallengeInv /\ Spent
    BY DEF Init, ChallengeInv, NotAskedYet, OneChallenge, InExchange, Spent
  <2>2. Attended
    BY DEF Init, Attended, AttendedTo
  <2>3. QED BY <2>1, <2>2, InitIInv DEF FullInv
<1>2. FullInv /\ [Next]_vars => FullInv'
  BY IInvStep, ChallengeInvStep, AttendedStep, SpentStep DEF FullInv, IInv
<1>3. QED BY <1>1, <1>2, PTL DEF Spec

(* An answer the machine opens is for the challenge it has just drawn: no  *)
(* answer to an earlier exchange reaches FinishXOnly, whatever connections *)
(* failed in between.                                                      *)
THEOREM AnswersAreForThisChallenge == Spec => []AnswerIsForThisChallenge
<1>1. FullInv => AnswerIsForThisChallenge
  BY DEF FullInv, ChallengeInv, OneChallenge, AnswerIsForThisChallenge, InExchange, AgentSteps
<1>2. QED BY <1>1, FullInvariant, PTL

(* waitForPeerClose is enough: unless a timer fires, the network dies or a *)
(* process ends, the person who answered learns what the machine decided.  *)
THEOREM VerdictsArrive == Spec => []VerdictLostOnlyIfDisturbed
<1>1. FullInv => VerdictLostOnlyIfDisturbed
  BY DEF FullInv, Attended, AttendedTo, VerdictLostOnlyIfDisturbed
<1>2. QED BY <1>1, FullInvariant, PTL

(* "open" ends with the volume open, or because it was told to stop.       *)
THEOREM OpenEndsWithVolumeOpen == Spec => []OpenEndsOnlyOnSuccess
<1>1. FullInv => OpenEndsOnlyOnSuccess
  BY DEF FullInv, Spent, OpenEndsOnlyOnSuccess
<1>2. QED BY <1>1, FullInvariant, PTL

(* A person told "unlocked" was told so because the secret from their own  *)
(* answer opened the volume ("open"), or was sent to a request that waited *)
(* for a passphrase, whatever requests of whichever volumes come and go    *)
(* (the agent).                                                            *)
THEOREM UnlockedMeansSecretUsed == Spec => []UnlockedMeansKeySpent
<1>1. FullInv => UnlockedMeansKeySpent
  BY DEF FullInv, IInv, VerdictTruthful, Spent, UnlockedMeansKeySpent
<1>2. QED BY <1>1, FullInvariant, PTL
=============================================================================
