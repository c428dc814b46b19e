----------------------------- MODULE RelayDial -----------------------------
(***************************************************************************)
(* SyncthingRelay.Dial by way of discovery: look the machine up, try the   *)
(* direct addresses one by one, race the relay addresses, shake hands, and *)
(* on any failure wait and start over, until the dial's ctx ends.  The     *)
(* record lists stale addresses along with the live one, and the discovery *)
(* server is shared: it answers 429 to those who ask too often.            *)
(*                                                                         *)
(* Time is in tenths of a second and passes when a call ends or a wait     *)
(* does.  A goroutine per relay address joins a session; those still at it *)
(* when the race is won are drained in the background.                     *)
(***************************************************************************)
EXTENDS Integers, Sequences

CONSTANTS
  Budget,       \* of the whole dial
  RetryAfters,  \* what the discovery server may ask for
  Jitters,      \* where a delay of the schedule is moved to, in percent
  Durations,    \* what a call to the network may take, within its timeout
  JoinDurations,\* what joining a session over a relay may take
  CancelTimes,  \* when the caller may cancel it
  MaxAddresses, \* bounds the addresses of each kind in a record
  MaxLate,      \* bounds what is left of earlier races when one starts
  MaxLookups    \* what a dial may ask of the server, see AsksSparingly

CallTimeout == 100

(* A join is two round trips, each with a timeout of its own and neither   *)
(* bound by the ctx: the request for an invitation, and client.JoinSession *)
(* with the ten seconds of the library.                                    *)
defaultRelayTimeout == 150
JoinTimeout == defaultRelayTimeout + 100

ASSUME DialAssumption ==
  /\ Budget \in Nat /\ MaxAddresses \in Nat /\ MaxLookups \in Nat /\ MaxLate \in Nat
  /\ RetryAfters \subseteq Nat /\ Jitters \subseteq 80..120
  /\ Durations \subseteq 0..CallTimeout /\ JoinDurations \subseteq 0..JoinTimeout

VARIABLES
  dial,      \* where dialRelay is, or how it returned
  now,       \* the time since it was called
  deadline,  \* when its ctx ends
  retry,     \* failed attempts
  wait,      \* how long it sleeps
  lookups,   \* lookups sent
  resume,    \* when the server has said it may be asked again, 0 if it has not
  direct,    \* direct addresses still to try
  relays,    \* relay addresses in the record
  joining,   \* goroutines of the race that have not reported
  sessions,  \* in the results channel: sessions (who sent first is left open)
  errors,    \* and errors
  late,      \* goroutines of races already won
  lateOpen,  \* their sessions, waiting to be drained
  open       \* every connection to the machine that is open

timeVars == <<now, deadline>>
askVars == <<retry, wait, lookups, resume>>
channel == <<joining, sessions, errors>>
raceVars == <<direct, relays, channel>>
lateVars == <<late, lateOpen>>
vars == <<dial, timeVars, askVars, raceVars, lateVars, open>>

Least(a, b) == IF a <= b THEN a ELSE b
Greatest(a, b) == IF a >= b THEN a ELSE b

-----------------------------------------------------------------------------
(* Waiting (discovery_backoff.go).                                         *)

dialRetrySchedule == <<30, 50, 80, 120>>
dialRetryMax == 150
dialRetryAfterMax == 600

(* Mutant of dialRetryDelay: the schedule does not advance. *)
dialRetryDelayFirst(n) == {(30 * j) \div 100 : j \in Jitters}

(* The wait after the n-th failure: a step of the schedule, moved by a     *)
(* fifth either way, never above the cap.                                  *)
dialRetryDelay(n) ==
  LET base == IF n < Len(dialRetrySchedule) THEN dialRetrySchedule[n + 1] ELSE dialRetryMax
  IN  {Least((base * j) \div 100, dialRetryMax) : j \in Jitters}

(* Mutant of LimitedWait: a Retry-After only ever shortens the wait. *)
LimitedWaitShorter(backoff, told, remaining) == Least(backoff, told)

(* The wait after a 429: as told, within a minute and within what is left  *)
(* of the dial, if that is longer than the backoff.                        *)
LimitedWait(backoff, told, remaining) ==
  Greatest(backoff, Least(Least(told, dialRetryAfterMax), Greatest(remaining, 0)))

(* A call that looks at the ctx takes d, or ends with it.                  *)
Elapse(d) == now' = Least(now + d, Greatest(now, deadline)) /\ UNCHANGED deadline

(* One that does not takes what it takes.                                  *)
ElapseRegardless(d) == now' = now + d /\ UNCHANGED deadline

(* The attempt has failed: wait for the backoff.                           *)
AttemptFails ==
  /\ dial' = "wait" /\ wait' \in dialRetryDelay(retry)
  /\ direct' = 0 /\ relays' = 0
  /\ UNCHANGED <<retry, lookups>>

-----------------------------------------------------------------------------
(* An attempt.                                                             *)

(* The lookup fails, finds nothing, or finds no address; the ctx cuts it   *)
(* short.                                                                  *)
LookupFails ==
  /\ dial = "lookup"
  /\ \E d \in Durations : Elapse(d)
  /\ AttemptFails /\ resume' = 0
  /\ UNCHANGED <<channel, lateVars, open>>

LookupLimited ==
  /\ dial = "lookup" /\ now < deadline
  /\ \E d \in Durations, told \in RetryAfters, backoff \in dialRetryDelay(retry) :
       /\ Elapse(d)
       /\ wait' = LimitedWait(backoff, told, deadline - now')
       /\ resume' = now' + Least(told, dialRetryAfterMax)
  /\ dial' = "wait"
  /\ UNCHANGED <<retry, lookups, raceVars, lateVars, open>>

LookupFinds ==
  /\ dial = "lookup" /\ now < deadline
  /\ \E d \in Durations : Elapse(d)
  /\ direct' \in 0..MaxAddresses /\ relays' \in 0..MaxAddresses
  /\ direct' + relays' > 0
  /\ dial' = "direct" /\ resume' = 0
  /\ UNCHANGED <<retry, wait, lookups, channel, lateVars, open>>

(* Direct addresses are walked.                                            *)
DirectFails ==
  /\ dial = "direct" /\ direct > 0
  /\ \E d \in Durations : Elapse(d)
  /\ direct' = direct - 1
  /\ UNCHANGED <<dial, askVars, relays, channel, lateVars, open>>

DirectConnects ==
  /\ dial = "direct" /\ direct > 0 /\ now < deadline
  /\ \E d \in Durations : Elapse(d)
  /\ dial' = "handshake" /\ open' = open + 1
  /\ UNCHANGED <<askVars, raceVars, lateVars>>

NoDirectLeft ==
  /\ dial = "direct" /\ direct = 0 /\ relays = 0
  /\ AttemptFails
  /\ UNCHANGED <<timeVars, resume, channel, lateVars, open>>

(* Relay addresses are raced.                                              *)
StartRace ==
  /\ dial = "direct" /\ direct = 0 /\ relays > 0 /\ late + lateOpen <= MaxLate
  /\ dial' = "race" /\ joining' = relays
  /\ UNCHANGED <<timeVars, askVars, direct, relays, sessions, errors, lateVars, open>>

(* A join reports a session or an error, at the latest when its requests   *)
(* time out, whatever has become of the ctx.                               *)
JoinEnds ==
  /\ dial = "race" /\ joining > 0
  /\ joining' = joining - 1
  /\ \/ sessions' = sessions + 1 /\ open' = open + 1 /\ UNCHANGED errors
     \/ errors' = errors + 1 /\ UNCHANGED <<sessions, open>>
  /\ UNCHANGED <<dial, timeVars, askVars, direct, relays, lateVars>>

(* Mutant of Drains: only those still joining are drained. *)
DrainsJoining ==
  /\ late' = late + joining
  /\ UNCHANGED lateOpen

(* A goroutine takes all that the race has not received, whether it is in  *)
(* the channel already or still to come, and closes the sessions.          *)
Drains ==
  /\ late' = late + joining
  /\ lateOpen' = lateOpen + sessions - 1

(* The first session received decides the race.                            *)
RaceWon ==
  /\ dial = "race" /\ sessions > 0
  /\ \E d \in JoinDurations : ElapseRegardless(d)
  /\ dial' = "handshake"
  /\ Drains
  /\ joining' = 0 /\ sessions' = 0 /\ errors' = 0
  /\ UNCHANGED <<askVars, direct, relays, open>>

RaceLost ==
  /\ dial = "race" /\ errors = relays
  /\ \E d \in JoinDurations : ElapseRegardless(d)
  /\ AttemptFails
  /\ errors' = 0
  /\ UNCHANGED <<resume, joining, sessions, lateVars, open>>

LateJoinEnds ==
  /\ late > 0
  /\ late' = late - 1
  /\ \E ok \in {0, 1} : lateOpen' = lateOpen + ok /\ open' = open + ok
  /\ UNCHANGED <<dial, timeVars, askVars, raceVars>>

DrainCloses ==
  /\ lateOpen > 0
  /\ lateOpen' = lateOpen - 1 /\ open' = open - 1
  /\ UNCHANGED <<dial, timeVars, askVars, raceVars, late>>

(* The handshake has a timeout and no ctx.                                 *)
HandshakeSucceeds ==
  /\ dial = "handshake"
  /\ \E d \in Durations : ElapseRegardless(d)
  /\ dial' = "won"
  /\ UNCHANGED <<askVars, raceVars, lateVars, open>>

(* Mutant of ClosesRaw: the connection is left open. *)
ClosesRawNever == UNCHANGED open

ClosesRaw == open' = open - 1

(* Another identity, no certificate, a session cut off.                    *)
HandshakeFails ==
  /\ dial = "handshake"
  /\ \E d \in Durations : ElapseRegardless(d)
  /\ ClosesRaw
  /\ AttemptFails
  /\ UNCHANGED <<resume, channel, lateVars>>

-----------------------------------------------------------------------------
(* Between attempts.                                                       *)

Retry ==
  /\ dial = "wait" /\ now + wait < deadline
  /\ now' = now + wait /\ wait' = 0
  /\ dial' = "lookup" /\ lookups' = lookups + 1 /\ retry' = retry + 1
  /\ UNCHANGED <<deadline, resume, raceVars, lateVars, open>>

Woken == Greatest(now, deadline)

(* The ctx ends first.                                                     *)
GiveUp ==
  /\ dial = "wait" /\ now + wait >= deadline
  /\ now' = Woken
  /\ dial' = "lost"
  /\ UNCHANGED <<deadline, askVars, raceVars, lateVars, open>>

(* The caller cancels, or another leg of Multi has won.                    *)
Cancel ==
  /\ dial \notin {"won", "lost"} /\ now < deadline /\ now \in CancelTimes
  /\ deadline' = now
  /\ UNCHANGED <<dial, now, askVars, raceVars, lateVars, open>>

Init ==
  /\ dial = "lookup" /\ now = 0 /\ deadline = Budget
  /\ retry = 0 /\ wait = 0 /\ lookups = 1 /\ resume = 0
  /\ direct = 0 /\ relays = 0 /\ joining = 0 /\ sessions = 0 /\ errors = 0
  /\ late = 0 /\ lateOpen = 0 /\ open = 0

DialStep ==
  \/ LookupFails \/ LookupLimited \/ LookupFinds
  \/ DirectFails \/ DirectConnects \/ NoDirectLeft
  \/ StartRace \/ JoinEnds \/ RaceWon \/ RaceLost
  \/ HandshakeSucceeds \/ HandshakeFails
  \/ Retry \/ GiveUp

Next == DialStep \/ LateJoinEnds \/ DrainCloses \/ Cancel

Spec == Init /\ [][Next]_vars

(* Goroutines are scheduled, requests and joins have timeouts.             *)
FairSpec ==
  Spec /\ WF_vars(DialStep) /\ WF_vars(LateJoinEnds) /\ WF_vars(DrainCloses)

-----------------------------------------------------------------------------
(* Properties. *)

(* The connection of the attempt, or the one returned.                     *)
Held == IF dial \in {"handshake", "won"} THEN 1 ELSE 0

(* The channel has room for every goroutine, and each is counted once.     *)
TypeOK ==
  /\ dial \in {"lookup", "direct", "race", "handshake", "wait", "won", "lost"}
  /\ now \in Nat /\ deadline \in 0..Budget
  /\ retry \in Nat /\ wait \in Nat /\ lookups \in Nat /\ resume \in Nat
  /\ direct \in 0..MaxAddresses /\ relays \in 0..MaxAddresses
  /\ joining \in Nat /\ sessions \in Nat /\ errors \in Nat
  /\ joining + sessions + errors = IF dial = "race" THEN relays ELSE 0
  /\ late \in Nat /\ lateOpen \in Nat /\ open \in Nat

(* Every open connection is somebody's: the attempt's or the caller's, one *)
(* waiting in the channel of the race, or one about to be drained.  A      *)
(* session joined and forgotten would hold the relay and the machine.      *)
SessionsAccounted == open = Held + lateOpen + sessions

(* The dial outlives its ctx by a join and a handshake at the most, which  *)
(* are the calls that do not look at it.                                   *)
EndsInTime ==
  /\ dial \in {"lookup", "direct", "race"} => now <= deadline
  /\ dial = "handshake" => now <= deadline + JoinTimeout
  /\ now <= deadline + JoinTimeout + CallTimeout

(* A server that answered 429 is not asked again before the time it said,  *)
(* up to a minute, whatever the schedule says.                             *)
RetryAfterHonoured == dial = "lookup" => now >= resume

(* What a wait still to come owes the server.                              *)
WaitsLongEnough ==
  /\ dial = "wait" => now + wait >= Least(resume, deadline)
  /\ dial \in {"direct", "race", "handshake"} => resume = 0

(* The soonest the n-th retry can be: every wait the shortest it can be.   *)
Soonest(n) ==
  CASE n <= 4 -> <<0, 24, 64, 128, 224>>[n + 1]
    [] OTHER  -> 224 + 120 * (n - 4)

Paced ==
  /\ lookups = retry + 1
  /\ now >= Soonest(retry)
  /\ dial = "wait" => now + wait >= Soonest(retry + 1)
  /\ Soonest(retry) <= Budget

(* The inductive invariant.                                                *)
IInv ==
  /\ TypeOK /\ SessionsAccounted /\ EndsInTime
  /\ RetryAfterHonoured /\ WaitsLongEnough /\ Paced

(* discovery_backoff.go: "90 s is about ten lookups", however soon each    *)
(* fails and whichever way the jitter goes.                                *)
AsksSparingly == lookups <= MaxLookups

(* The dial returns, and in the end no connection is open but the one it   *)
(* returned.                                                               *)
EndsWithOneSession == <>[](dial \in {"won", "lost"} /\ open = Held)
=============================================================================
