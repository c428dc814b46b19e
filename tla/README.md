# synctang in TLA+

synctang unlocks a LUKS2 volume with a key that never leaves another device. A
machine waiting at its disk prompt sends a blinded challenge to a *key holder*
(an Android phone or a laptop), a person approves, the key holder answers, and
the machine recovers the secret that opens the volume. Neither side talks to a
server that could unlock anything; they find each other on the LAN or through
Syncthing's relays and discovery.

This directory models the parts of that program whose correctness depends on
the order in which things happen. The modules are checked with TLC on small
instances and, where it matters most, proved with TLAPS for all instances.

## 1. Inventory

### Parts and how they meet

    systemd ask-password          LUKS2 header (keyslots, one mr-1 token)
            |  prompts, secret        |  luksDump, token export   | luksAddKey, luksKillSlot,
            |                         |                           | token remove / import
        [ agent / open ] -------------+                     [ enrol, pair ]
            | Listen                                              | Listen
        [ transport.Multi ]  races local discovery and the relay  |
            ~~~~~~~~ a connection that may die silently ~~~~~~~~~~~
        [ transport.Multi ]                                       |
            | Dial                                                | Dial
        [ mobile.Session ]  <- UnlockFlow (Android)         [ mobile.Pairer ]
        or synctang-keyholder (laptop)

| part | state it keeps | operations | meets the others by |
|---|---|---|---|
| agent (`cmd/synctang-unlocker` agent.go, main.go, open.go) | one exchange at a time: connection, challenge, answer | listen, greet, challenge, finish, verify, deliver, report, linger | four messages; the header; the prompt queue |
| `mobile.Session` | connection, challenge, answered, cancelled | Connect, AnswerWithScalar, Decline, Cancel, Close | the same messages; calls from several app threads |
| `transport.Multi` | an attempt per leg, their cancel functions, a channel of results | Dial, Listen, Close of the winner | goroutines, one channel, one mutex |
| enrolment (enrol.go, luksdump.go) | the header, and what a command has read of it | enrol, --replace, --remove, pair's agreement | cryptsetup calls, each atomic, nothing across two |
| pairing (pair.go, mobile/pair.go) | one window with one code; an attempt per connection | prove, ask the operator, enrol, report | three messages; enrolment |
| relay transport (syncthing_relay.go, relaypool.go) | the relay client, the relay registered with, the announced address, the session | join a pool, announce, accept an invitation, rejoin | relay and discovery servers; a channel, a stop channel and a ctx between four goroutines |
| dialling by relay (syncthing_relay.go, discovery_lookup.go, discovery_backoff.go) | the retry schedule, the addresses of one lookup, a race over them | look up, dial, join, shake hands, wait | the shared discovery server, which limits its users |
| local discovery (local_discovery.go) | sockets, readers, an accept goroutine, an announcer | announce, wait for an announcement, accept, shake hands | multicast, on which anybody may announce |
| MR-1 (mr1.go, group.go, mobile.go) | the recipient in the header, the ephemeral scalar, the key holder's two files | enrol, challenge, answer, finish | the points it is handed |
| Android flow (UnlockFlow.kt, UnlockViewModel.kt) | the screen, the session field, the dial in flight, the approval, the armed window | connect, approve, expire, cancel, refresh, key check | coroutines on one thread, blocking calls on others, the prompt |
| Android key (WrappedKeyStore.kt, KeyHolderKey.kt, KeyUse.kt) | two files and a Keystore key | create, load, use | the file system, a process that may die |
| status (machine_status.go, Readiness.kt) | the age of an announcement | poll, classify | discovery lookups and their rate limits |

### What is hard, and what makes each part correct

* **Agent and session.** The connection dies without telling anybody, either
  side's timer fires while the other writes, the prompt disappears during the
  minutes the exchange takes. Correct: the person is never told something the
  machine did not decide; the secret goes out only for a live enrolment that
  approved; a silent peer does not hold the machine; nobody waits for ever.
* **Multi.** Goroutines outlive the call that started them. Correct: the
  winner's context survives, no goroutine blocks, no connection leaks, a waiting
  machine never loses a leg.
* **Enrolment.** No transaction spans two cryptsetup calls, and there is no
  lock between two commands. Correct: the operator's passphrase always opens, a
  revoked secret never does, holders nobody named keep their access, there is
  one entry per transport id.
* **Pairing.** A result can be lost after the enrolment has happened, and both
  sides retry. Correct: exactly the holder the operator agreed to is enrolled,
  and both sides end with the same belief or with an honest "not known".
* **Relay.** The address the machine has announced goes stale, an invitation
  races the loss of the relay it came from, and the relay drops a session whose
  machine gives up its registration. Correct: the machine keeps its own
  session, is reachable again after any finite run of failures, and nothing of
  an attempt outlives it; a dial returns with one connection or none and leaves
  an overloaded server alone.
* **Local discovery.** Announcements and connections come from anybody.
  Correct: lies and intruders cost time and not the dial; no announcement names
  a port that is closed; everything is closed once cancelled.
* **MR-1.** An x-coordinate stands for two points, and the scalar is bytes from
  a file. Correct: an answer with the enrolled scalar recovers the secret
  whichever point is meant, and a changed file is noticed before it is used.
* **Android flow and key.** A coroutine outlives the screen that started it,
  and all share four fields; the process dies between two file writes. Correct:
  nothing is answered after the window has ended or the request was declined,
  the machine is not left waiting, no busy screen stays.

`PROJECT.json` lists every hazard at its line, with the properties that would
catch it.

## 2. What is modelled

### Link

The connection both Exchange and Pairing run over: which end is open, whether
the network still joins them, and what is in flight each way. It may die
without either end knowing; a write into a dead one fails or is silently lost;
closing the machine's end may take with it what the key holder has not yet
read, as the relay server does. Closing it a second time is harmless over TCP
and a panic over the relay; `ClosingAgainPanics` leaves open which it is.

### Exchange (with UnlockPromise)

One volume, its agent and any number of key-holder sessions. `mpc` is the
agent's place in `serveOneExchange` / `runExchange` (`rest`, `listen`, `greet`,
`request`, `await`, `finish`, `verify`, `deliver`, `report`, `linger`,
`stopped`, and `crashed`, of a second Close), `spc` a session's place in
`Connect` and `answerXOnly`. One action is one call that can block, fail or be
interleaved: sending Hello, sending the request, reading the response,
FinishXOnly, the test of the passphrase, the delivery, writing the result, each
read of the lingering close.

* Both ends race legs of their own, so either may be handed an end alone
  (`MachineEndOnly`, `PhoneEndOnly`): the other side settled on another leg.
* Timers (`exchangeTimeout`, `resultLingerTimeout`, `replyTimeout`, the
  deadline of Connect) are actions that may happen whenever they are armed, so
  every relative speed is covered.
* The cryptography is its effect: an answer opens the recipient's entry only
  if it was made for this challenge with the enrolled key (`Opens`). A wrong
  key, an entry whose keyslot is gone, two entries with one transport id and a
  phone whose scalar and public point disagree are values of `enrolled`.
* Prompts appear and go by themselves: this volume's, another's, and those
  whose Id the agent does not understand (`PromptKinds`). Which one gets the
  secret is `Chosen`, and `sentTo` remembers what was sent where, of whose
  answer. The agent takes a datagram sent for success; whether the volume is
  then open depends on who was waiting (`MayOpen`).
* An attempt that cannot read the header, finds nobody enrolled or whose Listen
  fails ends no more than that attempt: the loop logs it and goes round again
  (main.go:372-391 of synctang-unlocker), which is `rest`. Only the ctx ends
  the agent. `cryptsetup --test-passphrase` may fail for any reason and is then
  reported as a rejection.
* `OneShot` distinguishes `synctang-unlocker open` from the boot-time agent.
* `settled` and `disturbed` are history: what the machine did with a session's
  answer, and whether something other than the peer ended a wait.

`UnlockPromise` is what an attempt promises the person: the machine decides
once, a definite verdict is given only after the decision and agrees with it,
and the only other thing said is "not known". `PromiseKept` is the refinement.

### Pairing

One `pair` command and the key holders that answer its code. `mpc` is the place
in `runPair` / `runPairOnce` (`listen`, `challenge`, `request`, `read`,
`judge`, `ask`, `enrol`, `revoke`, `tell`, `linger`, and how it ended), `ppc` a
key holder's place in `Pairer.Pair` and `pairOnce`.

* A timer's function runs in a goroutine of its own (`closing`, `pClosing`):
  stopping a timer too late leaves a close pending, which may hit the
  connection while the operator is being asked. The pairing window is such a
  timer during the read of the request; later it only decides what the loop
  reports. A connection that a timer has closed is closed again by
  `runPairOnce`, which over the relay kills the command, at any of its returns.
* `Pair` has two budgets one after the other, `dialDone` and `waitDone`, and
  `Cancel`, which ends both and is remembered when it comes first. `PairAgain`
  is the person scanning again, on a new Pairer, with the same code.
* What a token holds for a key holder is a set of keys: the one it pairs with
  (`new`) and one it had before (`old`). Enrolling and revoking are single
  steps here, which may fail, at worst with the token lost: their inside is
  Enrolment's.
* `agreed` and `proved` are history: whom the operator said yes to, and who
  sent a right proof. `before` is the token when the window opened.

### MultiRace

One call of `Multi.Dial` or `Multi.Listen` over any finite set of legs. The
actors are `race()` itself (`race`), an attempt per leg and its restart (`leg`),
and `closeLateArrivals` (`drain`); they share the channel (`results`) and the
count under the mutex (`outstanding`). Receiving a success and acting on it are
two steps, because a restart goroutine may take the mutex between them. An
attempt's context is derived from the caller's, so it ends with that one too
(`AttemptCtxDone`).

### Enrolment

The keyslots (`slots`), the mr-1 tokens and any number of commands. A token has
two lists that belong together by position: its recipients (`tokens`), which
only the commands write, and its keyslots (`keyslots`), which cryptsetup knows
too. luksKillSlot takes the keyslot off the list of every token, so a removal
that stops there leaves lists of different length, and every later removal or
replacement refuses such a token (`Intact`, enrol.go:285). A command is a
program of cryptsetup calls; each call is an action, and between two of them
others run, the agent reads the header, or the command is interrupted. `mem`
and `copied` are what a command has read and so may be stale: the two lists,
the token's id, the free keyslot, the index of the entry it is about to
destroy. The kinds of command are enrol with a transport id and without, pair,
--replace with the same transport id and with another ("move"), and --remove,
the last three with any `--keyslot` or none. `replace` is the composition of
`enrolRecipient` and `removeRecipientAt` as the code has it, with the token
read three times. Secrets are named after the command that made them, so a
keyslot says whom it opens for.

### RelayListen

`SyncthingRelay.Listen`, attempt after attempt, with its four goroutines:
Listen itself (`listen`), the pool client and the relay it is registered with
(`pool`, `cur`, `untried`, and `inv` for an invitation in its forwarder),
`watchRelayLoss` (`watch`, `relayLost`) and the announce loop (`ann`), which
posts an address read earlier (`annAddr`) into `record`. `closing` and `closed`
are those who have called the connection's cleanup: the exchange's deferred
Close and the timer that bounds the exchange may both. cleanup cancels the pool
client and does not wait for it: its control connection (`leaving`) may last
into the next attempt, where the relay may refuse the new one for it, and drops
the machine's sessions when it notices that the old one is gone (`OldLeaves`).
The old watcher is cancelled and reports to a channel nobody reads.

### RelayDial

`dialRelay`: a lookup, the direct addresses one after another, a race over the
relay addresses, the handshake, and the wait before the next attempt. Time is
explicit, in tenths of a second, because what is claimed is arithmetic: the
schedule with its jitter, `Retry-After` up to a minute, the ctx's deadline. A
call takes any of `Durations`, a join any of `JoinDurations`, and is cut off by
its timeout (10 s; for a join 15 s of asking for the invitation and then 10 s of
joining the session) or the ctx. `open`
counts every connection anywhere: held, in the channel, or coming from a
goroutine of a race that is already won (`late`, `lateOpen`).

### LocalDiscovery

Both ends of the LAN leg and the network between them: the listener with its
accept goroutine and its announcer, the dial with a socket and a reader per
interface and the channel of addresses between them (`found`), both handshakes.
An announcement may be lost, late, or a lie (a dead address, or one where
another identity answers); a stranger may connect; a machine calls Listen
again, on a new port, as Multi makes it.

### MR1

The mathematics as operators over an abstract group (`GroupAssumption`, with a
prime order and nothing else), and the protocol as a state machine: making a
key, files that change under it, enrolment, the challenge, both kinds of
answer, the candidates for a missing sign, and the wipe of the ephemeral
scalar. `scalarInRange` is the byte-wise branch-free comparison of the code,
checked against the order of integers. Hashing, HKDF and the AEAD are injective.

### UnlockFlow

The phone's unlock screen. Everything but the blocking calls runs on one
thread, so an action is a turn of that thread between two suspensions, or the
effect of a blocking call on an io thread; closing the session and clearing the
field are two such effects, as nothing synchronises them with the main thread.
A dial (`dial`), an approval (`run`, with the session it captured in `of`), an
expiry (`expiry`) and an errand (`errand`: cancel and refresh) are coroutines
that may be running at once; `screen`, `session`, `inFlight` and
`approveExpiry` are the fields they share. A cancelled coroutine resumes with a
cancellation only at its next suspension: its blocking call goes on. The Go
session is its `conn`, `answered` and mutex (`Free`); what happens on the wire
is Exchange's. `said` (what the machine was told) and `mishaps` are history.
`mishaps` names the four ways the code can lose hold of a session (section 5),
and what the flow promises is stated up to the first of them.

### How the modules fit together

Exchange and Pairing run over Link and take from below what a `Conn` promises:
either end may be handed a connection the other does not hold (MultiRace, whose
drained late arrivals these are), it may die silently (RelayListen: the relay
drops it), and a second Close may panic (`ClosingAgainPanics`), which
RelayCloseTwice shows it does over the relay. MultiRace's attempts are the
`Listen` of RelayListen and LocalDiscovery, of which both models allow any
number one after another. Enrolment has the cryptsetup steps of which Pairing's
enrol and revoke are composed. MR1 justifies Exchange's `Opens`: a live entry's
scalar opens, and a phone whose files disagree does not answer. UnlockFlow's
dial, answer, decline and close are Exchange's Connect, AnswerWithScalar,
Decline and Close.

## 3. What is checked

| run | instance | shows |
|---|---|---|
| ExchangeOne | 1 session, 2 challenges, all enrolments, all faults, this volume's and another's prompt | the inductive invariant, the verdict is lost only if something interfered, answers are for this challenge, "unlocked" means that this answer's secret was sent to a waiting prompt, UnlockPromise is implemented; with fairness, every exchange ends, Connect ends, an answer is settled for the person |
| ExchangeOpen | 2 sessions, `open`, a live and a duplicated enrolment, link death and the timeout | truth and live approval between competing key holders; `open` ends on success or timeout only |
| PairOne | 1 key holder, new or with a changed key, all proofs, all faults, fairness | consent, truthful reports to the phone, never with neither key, "paired" is true; the command and Pair end |
| Multi | 3 legs, Dial and Listen, fairness | nobody waits in vain, the winner's context, the drain; a listening leg comes back |
| EnrolSequential | 3 commands of all kinds but "anon", one after another, 2 holders, 2 keys, 4 keyslots, interruptions | one entry per transport id, a removal destroys its own holder's keyslot or none, revocation is final, success means enrolled, bystanders keep access |
| RelayListen | 2 relays, 2 faults, both closers, overlapping attempts, fairness | the session keeps its registration, nothing outlives an attempt, reachable again and again |
| RelayDial | 90 s in tenths, 2 addresses of each kind, Retry-After of 0, 20 s and 20 min, jitter at both ends, calls and joins that take nothing or their timeout, cancellation, fairness | the inductive invariant, Retry-After honoured, at most ten lookups, ends with one session |
| LocalDiscovery | 2 interfaces, 3 calls of Listen, 2 troubles, fairness | the invariant (announcements name the open port, lies do not end the dial, connections are in one place, readers do not block), the machine is found, everything stops |
| MR1 | the group of order 5, all strings of 3 bits as scalars | the inductive invariant, the range check is exact |
| UnlockFlow | 2 dials, 2 approvals, 1 errand at once, to the first mishap, fairness | no answer after a no or after the window, sessions are in hand and under a window; sessions end and busy screens move on |

and two runs that end in a violation, each of a sentence in the repository's own
comments (section 5): RotationLockout and RelayCloseTwice.

**Bounds.** A session holds one connection at a time but `Connect` retries
without limit, so one session already gives any number of exchanges; the second
session of ExchangeOpen adds what one cannot: an exchange with somebody else in
between. Two challenges suffice to tell a fresh one from an old one, since only
equality matters. No queue needs a bound: each side writes at most twice per
connection. ExchangeOpen leaves out process death and cancellation, which
ExchangeOne has, to stay small. In PairOne one key holder already repeats Pair
without limit; several key holders are covered by the proofs (`OneHolder`).
Three legs are one more than the program uses and give a winner, a late arrival
and a leg that is restarting at once. Three commands over four keyslots give a
command that repeats an interrupted one after another has run, and a keyslot
that is freed and taken again; commands that overlap, which nothing in the
program forbids, are covered by `EnrolmentProofs`. EnrolSequential identifies
states by `LiveState`: what an ended or unstarted command has in memory is read
by no action and no property. "anon" differs from "enrol" only in that nobody
is looked up, and is in the proofs.

ExchangeOne's prompts are "own" and "other"; "vague" differs from "other" only
in that the secret may open the volume there, and is in the proofs.
`MaxFaults` of RelayListen also counts the refusals of a relay that has an old
connection: were they without limit, and each in step with a poll of
`watchRelayLoss`, the machine would never be registered. That the relay notices
an old client's end, and so stops refusing, is outside this repository; the
bound stands for it.

Two relays are enough to leave one for another and to find the first announced;
two faults (`MaxFaults`) to lose a relay while recovering from another failure.
A dial's numbers are the phone's, with its budget of 90 s (the laptop's default
is 2 min, main.go:273 of synctang-keyholder, where ten lookups are not claimed,
and a Connect that reconnects dials afresh, with a new schedule). Its bounds
are on what varies: two addresses make a race, one goroutine may be left of an
earlier race (`MaxLate`), the durations and jitters are the extremes. Two
interfaces are what tells one reader from all, three calls of Listen give a
stale port and a live one twice, two troubles a lie followed by another or by
an intruder. The group of order 5 has two pairs P, -P, and three bits hold more
strings than scalars. Two dials, two approvals: what is left of the last one
and the one that is current; ids are reused, so their number in a run has no
bound. One errand at once and `NoMishap` (a CONSTRAINT: what follows the first
mishap is not explored, and no property speaks of it) keep UnlockFlow finite in
practice.

`CHECK_DEADLOCK FALSE`: every one of these systems may really stop (the volume
is open and the agent told to stop; the race is over; the commands have run).

**Symmetry** permutes sessions and challenges (ExchangeOpen), holders, keys and
commands (EnrolSequential), relays (RelayCloseTwice): none has liveness
properties, and EnrolSequential's action properties are symmetric.

**Fairness.** ExchangeOne assumes that goroutines are scheduled (`AgentStep`,
`SessionStep`) and that timers fire: `exchangeTimeout`, the deadline of
Connect, `replyTimeout`. A read from a connection that has died silently is not
assumed ever to return (`AgentMayWait`, `SessionReadsDeadLink`): only the
timers end it. Nor is it assumed that the header can ever be read, or that a
Listen nobody answers returns. Nothing is assumed of the person, of the network
or of the process's survival. PairOne assumes the same of the pair command, its
timers (`pairRequestTimeout`, `--timeout`) and the phone's (dial budget,
`pairOperatorWait`); the operator may never answer, and then the command does
wait for ever, which `PairEnds` allows and nothing else. Multi assumes that
`race()` and `closeLateArrivals` run, that restart timers fire, that an attempt
whose context has ended returns, and that `select`, which chooses at random
among ready cases, does not pass over `ctx.Done()` for ever. Of an attempt with
a live context nothing is assumed: a LAN listen may block for hours.
RelayListen assumes that its goroutines run, that requests to the servers end
(they have timeouts) and that the exchange closes its connection, and that a
relay notices in the end that an old client is gone; faults are not fair.
Posting an announcement and ending the loop are strongly fair: they are cases
of a `select`, which falls due again and again and chooses at random. RelayDial
assumes that a call ends, within its timeout, and that the goroutines left of a
race do. LocalDiscovery assumes goroutines, timers and tickers; strong fairness
of hearing the machine's port says that multicast does not lose every
announcement. UnlockFlow assumes that blocking calls return (the Go ones and
the uses of the key have limits of their own; the look at the key on the way
home has none and is assumed to) and that the window's timer fires. Nothing is
assumed of the person, who may leave every screen and the prompt alone.

## 4. What is proved

Every proof holds for all values of the constants that satisfy the named
assumptions of the component (`ConstantsAssumption`, `PairingAssumption`,
`LegsAssumption`, `LocalAssumption`, `EnrolmentAssumption`, `RelayAssumption`,
`DialAssumption`, `UnlockAssumption`; `SizeAssumption`, `ByteAssumption`,
`NoneAssumption` and `GroupAssumption` for MR1): any number of sessions, key
holders, legs, commands, keyslots, relays, interfaces, dials, and any bound on
faults.

| module | about |
|---|---|
| LinkProofs | what a write, a read, a close and a fresh connection do to the messages of a channel; used by the next two |
| ExchangeProofs | Exchange, and that it implements UnlockPromise |
| PairingProofs | Pairing |
| MultiRaceProofs | MultiRace, and LocalDiscovery, a leg of it |
| EnrolmentProofs | Enrolment |
| RelayProofs | RelayDial and RelayListen, the two sides of the relay |
| MR1Proofs | MR1 |
| UnlockFlowProofs | UnlockFlow |

Two modules extend two components each, so the definitions of RelayListen and of
LocalDiscovery that every specification has carry a prefix (`ListenSpec`,
`LocalSpec`).

* **Exchange.** `VerdictTruthful` is not inductive: it says nothing of a
  verdict in flight, or of an answer the machine holds. `IInv` adds that a
  session's answer is in one place only (in flight, in the machine's hands, or
  settled: `AnsweredOnce`), what the agent has established about the enrolment
  at each step (`EnrolmentChecked`), that a result being reported or in flight
  is the decision taken (`VerdictsAgree`), and which session states may hold a
  challenge or have answered (`SessionPhases`). From it follow `TypeCorrect`,
  `VerdictsAreTruthful`, `DeliveryNeedsLiveApproval` and the refinement
  `ExchangeKeepsPromise`. `FullInv` adds three parts for what is left:
  * `ChallengeInv`. That the answer the machine finishes is for its challenge
    needs to know of everything on the way: until the request is out the peer
    has been asked nothing and nothing has come back (`NotAskedYet`, since a
    connection starts empty), and after that what is in flight either way, what
    the peer holds and what has been read are about one challenge
    (`OneChallenge`). Hence `AnswersAreForThisChallenge`.
  * `Attended`. A session that nothing has disturbed has, from the request to
    the verdict, the machine's attention: it is the peer, both ends are open,
    and the machine waits with nothing sent (`Waits`), or has the answer coming,
    in hand or decided and keeps the connection open until the verdict has been
    read (`Attends`). Hence `VerdictsArrive`: the lingering close is enough.
  * `Spent`. A settled "delivered" and a stopped `open` say where the key went.
    Hence `OpenEndsWithVolumeOpen` and, of a person told "unlocked",
    `UnlockedMeansSecretUsed`: `open` opened the volume, or the agent sent the
    secret of this person's own answer to a request that waited for one.
    Neither has a hypothesis on the prompts. More is not true of the agent: that
    request may have been another volume's (section 5, *Agent*).
* **Pairing.** That a phone told "enrolled" is enrolled is not inductive: the
  reply may be in flight while the machine serves somebody else, and the token
  may be rewritten meanwhile. `IInv` adds what the command has established at
  each step (`ConsentGiven`: a right proof in flight was sent by that key
  holder; the answer comes before the enrolment), that a reply, decided or in
  flight, agrees with the token (`RepliesAgree`), and the fact that makes both
  stable: an "ok" that has been written is the last thing the command does
  (`OkIsFinal`), since a successful `runPairOnce` ends the loop and an "ok"
  that could not be written is in no channel. `Traffic` says what a step can
  put into a channel, `EntryStep` when the token changes, and every conjunct is
  proved from those two. `OneHolder` is then a consequence.
* **MultiRace.** `WinnerInv` says that the channel holds at most one result per
  leg, of an attempt that has ended, and that while the race is on no running
  leg and no leg with a result waiting has been cancelled; so the winner has
  not been, and nothing that happens later can reach its context:
  `WinnerContextKept`, until Close or the end of the caller's ctx. `RaceInv`
  adds the arithmetic. `CountInv`: results, attempts and pending restarts are
  together at most the channel's capacity; while race() chooses, `outstanding`
  is the results plus the attempts, and once a Dial has won the drain is
  (`NoLateConnectionLeaks`). `WaitInv`: a leg that is done while race() waits
  has been heard, is in the channel, or was not restarted because the ctx is
  over, and a Dial that has heard every leg fail waits for nothing. Together
  they exclude a race() that waits and an attempt that cannot hand in its
  result (`RaceNeverStuck`).
* **LocalDiscovery.** `LocalInv` is made inductive by three facts
  (`LocalInductive`): a closed port has no queue, so a connection is never left
  in one that nobody accepts from (`QueueIsOpen`); whoever is served came out of
  the queue of this call (`GuestIsInside`); and sockets are open only while
  Dial waits, so no reader is left to block (`SocketsWhileWaiting`).
* **Enrolment.** With any number of commands, overlapping and interrupted:
  * `HeaderInv`: every secret has one life (not added yet, in its own keyslot,
    gone) and every entry, in a token or in a command's memory, however stale,
    names the keyslot of its own secret and never the operator's.
    `PassphraseIsSafe` and `RevocationIsFinal` follow. Its part `PairedInv` is
    about the two lists: the one of keyslots is never the longer one, and where
    they have the same length each entry is beside its own keyslot. So the
    length check of the code is what makes a position mean anything.
  * `HonestInv`: every entry, however stale, says truly whose secret it is, and
    no command aims at the keyslot of a key holder enrolled before it that it
    does not name. So such a keyslot survives everything
    (`KeyslotsOfOthersStay`).

  With one command at a time (`MaxRunning <= 1`, as an operator types them),
  still interrupted anywhere:
  * `SerialInv`: there is one token at most, what a command has read of it is
    what is there, and it is away only between `token remove` and `token import`.
  * `PlaceInv`: a holder nobody names, whose token was not lost, has one entry
    that opens its keyslot, in the token or in the list about to be written.
    With it `AccessOfOthersStays`, which states `BystandersKeepAccess`.

  * `FitInv`: two lists of the same length are never stale, in a token or in a
    command about to write one (`Writing`): each entry opens its keyslot,
    whatever was interrupted before. With it `RevocationHitsNobodyElse`: what a
    removal destroys is its own holder's.
  * `NeatInv`, until a command fails: every entry opens its keyslot, and no
    holder is listed twice but the one being replaced, between the two halves
    of the replacement, and one to whom --replace moved an entry while it had
    one of its own (`MovedTo`). Then `EnrolledOnce` and `SuccessIsTrue`. Both
    except the holder moved to, because the code does: `--replace OLD
    --recipient-transport-id NEW` does not look whether NEW is enrolled
    (section 5). No theorem restricts the kinds of command.
* **RelayListen.** That a session keeps its registration is not inductive: it
  hangs on `relayCtx`, which Listen, the ctx and two closers can end.
  `ListenInv` adds that the session that is up runs over the relay the machine is
  registered with (`SessionIsLive`), that `relayCtx` lives until the ctx ends or
  somebody cleans up (`AttemptIsLive`), and that whoever cleans up has ended the
  session first and stopped the loop (`CleaningStops`).
* **RelayDial.** Ten lookups in 90 s need to know how early the n-th retry can
  be: `Paced` bounds the time from below by the shortest waits of the schedule,
  `WaitsLongEnough` says what a wait still to come owes the server,
  `SessionsAccounted` where every open connection is. `TenLookups` takes a
  budget of at most 90 s and is otherwise for every jitter within the 20 %,
  every Retry-After and every duration.
* **MR1.** `RightAnswerOpens` is the algebra: multiplying commutes with
  blinding (`Blinding`), taking the blinding off leaves what was enrolled
  (`Cancels`), and the enrolled point's answer is one of the two its
  x-coordinate stands for (`Lifts`). The invariant adds what recipient,
  challenge and answer are made of (`Enrolled`, `Challenged`, `Answered`); in it
  are `EnrolledKeyRecovers` and `ShownPointAnswers`. They assume the group laws
  and a prime order, and of hashing and the AEAD that they are injective.
  `RangeCheckAgrees` is about numbers written byte by byte, of any length and in
  any even radix (256 in the code: `ByteAssumption`). The borrow that enters a
  byte is 1 exactly if the bytes below it are less than the order's
  (`BorrowCarries`, by `BorrowIsSign`: the top bit of the difference of two
  bytes and a borrow, taken in twice the width, is its sign). Induction along
  the bytes is done without the library's induction rule: were the fact wrong
  somewhere, there would be a least place where it is (`HasLeast`, from the
  well-foundedness of <), and the step contradicts that one. `Stepwise` gets
  the sequence of borrows and the value of a string the same way.
* **UnlockFlow.** `FlowInv` has three parts that hold whatever happens: the
  types; `Told`, a machine is told a thing once and only by a session that
  counts as answered; `Windows`, only the window of `approveExpiry` is armed,
  and it is not the window of an approval that has begun to answer. So
  `NoIsFinal` and `ExpiredAnswersNothing` are proved after mishaps too, where
  the run, which stops at the first, does not look. The fourth, `InHand`, lasts
  to the first mishap: a dial is the one in flight and alone (`DialAlone`,
  `FlightIsReal`), the session in the field has one approval at most, and none
  while the screen asks for one (`OneApproval`), an approval that has a machine
  waiting is the latest and its screen is up (`RequestOnScreen`), a machine whose
  request is on the screen has a window or somebody leaving (`ScreenIsCovered`),
  and the home screen has nothing (`HomeIsEmpty`). The two promises of the run,
  `SessionsAreReached` and `WindowCoversRequest`, are preserved only in that
  company.

Model-checked only: all liveness (`ExchangeEnds`, `ConnectEnds`,
`AnswerIsSettledForThePerson`, `KeepsListening`, `PairEnds`, `PhoneEnds`,
`KeepsReachable`, `EndsWithOneSession`, `FindsTheMachine`, `EverythingStops`,
`WaitingEnds`), which is out of the prover's reach. Every safety property of a
passing run is also proved. Four, all of Enrolment, are proved for commands
that run one at a time: `BystandersKeepAccess`, `OneRecipientPerTransportId`,
`SuccessMeansEnrolled` and `RevocationHitsItsOwn`; `AsksSparingly` is proved for
a budget of at most 90 s. `PassphraseIsSafe` and `KeyslotsOfOthersStay` are
proved only: no run has them.

## 5. Where code and words disagree

| run | what the words say | what the code does |
|---|---|---|
| RotationLockout | enrol.go:358, a replacement enrols the new key and then revokes the old, "so there is never a moment at which the key holder cannot unlock" | the two entries have one transport id, and the agent refuses a peer that two entries name (matchRecipient, agent.go:117): from the first token import to the second, and for good if the command is interrupted in between, neither key unlocks |
| RelayCloseTwice | syncthing_relay.go:531, the cleanup function is one "the caller must call exactly once" | it is the connection's onClose, and the agent closes twice when `exchangeTimeout` expires: the second call closes a closed channel and panics |

Also seen while modelling, without a run of their own:

*Enrolment and pairing.* Two first enrolments that overlap
make two tokens, of which the program only ever reads the one with the lower id
(luksdump.go:88 says there is at most one). Between `token remove` and `token
import` there is no token, and nobody can unlock. An interrupted removal leaves
a token whose two lists differ in length, which every later removal and
replacement refuses (enrol.go:285), of any holder in it, while `enrol` still
adds to it and the agent still answers from it; enrol answers "already enrolled"
for the entry whose keyslot is gone. `enrol --replace OLD
--recipient-transport-id NEW` does not look whether NEW is enrolled, so the
holder may get a second entry, and the agent then refuses it (enrol.go:169 keeps
one per transport id). pair.go:193 says of a result that could not be written
to "say so rather than implying nothing changed", but when the window has ended
by then runPair drops that error and prints "nobody paired" (pair.go:339). A
code "good once" enrols a second key holder if the first one's reply was lost,
because the loop goes on. Pair reports a machine that could not be reached
(failure.go:29) also when the connection broke after the proof had been sent and
the dial budget is over.

*Agent.* With another volume's request the only one pending, the agent hands it
the secret (`Chosen`, agent.go:465-469) and reports OK, since the datagram was
sent (agent.go:494): the person is told "unlocked" and the volume is not.
`UnlockedMeansKeySpent` says what is left: the secret went to some request that
was waiting. pair.go closes a connection twice as the agent does (pair.go:112
and pair.go:97), and with it, over the relay, may panic.

*Races and transports.* The restart goroutine of a failed leg launches it even
after another has won, with a context nobody holds (multi.go:191 against :15,
the losers are cancelled), and race()'s `ctx.Done()` branch drops a connection
that is in the channel (multi.go:133 against :232). A connection accepted just
as the ctx ends is left open in acceptWithContext's goroutine, and is the one
thing `EverythingStops` does not cover. A cleanup does not wait for the relay
client it cancels, so attempts overlap at the relay, which refuses the machine
as "already connected" meanwhile (STATUS.md:177, e2e-test.md:69). A local Dial
all of whose interfaces fail while it waits is deaf until its ctx ends. A
cleanup waits for a post in flight, up to its timeout.

*Unlock flow*, the mishaps of the model, all of which need a slow Keystore or
network call: `overwritten`, a home screen or key check that ends late shows its
screen over an exchange that has begun since, and the expiry, which decides by
the screen, then does nothing; `stale`, an approval or expiry that outlives its
session declines, closes or disarms the next one's; `dropped`, closeSession
closes and then clears the field from an io thread, and may clear a session put
there in between; `swallowed`, the `catch (e: Exception)` around the preparation
of the key (UnlockFlow.kt:918) also catches the cancellation by the window:
the approval goes on to disarm the expiry, which is then cut off before it shows
that the time ran out, and the screen stays at Working, where there is nothing
to tap (SynctangApp.kt:130); or it disarms the window of the next session.

## 6. What is not modelled

* Parsing and printing without state: network configuration, flags, tokens and
  `luksDump` text, QR codes, log formats, shell completion, the Android
  screens, progress and failure texts, the age of a record on the readiness
  screen. Nothing in them goes wrong between two calls.
* The initrd hooks, systemd units and the running of cryptsetup: one-shot
  sequences of I/O. What they do to the rest (SIGTERM at any moment, a command
  interrupted between two calls) is in Exchange and Enrolment.
* The discovery of the device and `ensureResolver` at the top of the agent's
  loop: they read the system once per attempt.
* Android's key storage (WrappedKeyStore, KeyHolderKey, KeyUse,
  BiometricGateImpl): what its files may hold after a crash is MR1's
  `FileChanges` and Exchange's `mismatched`; the Keystore's own states are the
  platform's.
* Of the unlock flow, the pairing branch (Pairing has its Pairer), the polling
  that redraws the screen it finds, `close()` when the screen is destroyed, and
  software-backed keys.
* The laptop's exchange loop: a straight line of the messages Exchange has,
  without a bound on any read, so it waits as long as its connection says
  nothing.
* TLS, certificates, the relay and discovery servers, systemd and Android are
  external: they appear as what the code can see of them.

## 7. Running

    tlc -config ExchangeOne.cfg MCExchange.tla      # likewise the other runs
    tlapm ExchangeProofs.tla                        # likewise the other proofs

Operators whose comment begins "Mutant of" are not part of the model: each is a
plausible bug in the definition it names, and with it in that definition's
place TLC finds the corresponding property violated.
