----------------------------- MODULE MultiRace -----------------------------
(***************************************************************************)
(* transport.Multi: one call of Dial or Listen, racing its transports (the *)
(* legs: the local network, the relay).  race() runs an attempt per leg in *)
(* a goroutine, takes the first that succeeds, cancels the others and      *)
(* drains what they still report; Listen restarts a leg that failed.       *)
(*                                                                         *)
(* Goroutines: race itself, one per attempt, one per pending restart, and  *)
(* closeLateArrivals.  They share the results channel and, under mu, the   *)
(* cancel functions and the count of outstanding attempts.                 *)
(***************************************************************************)
EXTENDS Naturals, Sequences, FiniteSets

CONSTANTS
  Legs,       \* the transports raced
  Calls       \* which calls are made, of "Dial" and "Listen"

ASSUME LegsAssumption ==
  IsFiniteSet(Legs) /\ Legs # {} /\ Calls \subseteq {"Dial", "Listen"}

VARIABLES
  call,         \* the call race() serves; Listen restarts a failed leg
  race,         \* where race() is, or how it returned
  winner,       \* the legs (at most one) whose success race() took
  held,         \* the caller has the winner's connection, not closed yet
  ctxDone,      \* the caller's ctx is done
  leg,          \* what each leg's goroutine is doing
  cancelled,    \* the leg's attempt context has been cancelled by race()
                \* or by the Close of the winner
  results,      \* the channel
  outstanding,  \* attempts launched and not received
  stillRunning, \* outstanding, as it was when the winner was received
  failed,       \* the legs lastErr has an error of
  drain         \* results closeLateArrivals has still to receive

raceVars == <<call, race, winner, held, stillRunning, failed>>
vars == <<raceVars, ctxDone, leg, cancelled, results, outstanding, drain>>

Capacity == Cardinality(Legs)
Outcome(i, ok) == [leg |-> i, ok |-> ok]

-----------------------------------------------------------------------------
(* An attempt's context is derived from the caller's, and ends with it.    *)
AttemptCtxDone(i) == cancelled[i] \/ ctxDone

(* An attempt ends by itself, or because its context ended; one that is    *)
(* past the point of no return may still succeed after that.               *)
AttemptReturns(i) ==
  /\ leg[i] = "running"
  /\ Len(results) < Capacity
  /\ \E ok \in BOOLEAN : results' = Append(results, Outcome(i, ok))
  /\ leg' = [leg EXCEPT ![i] = "done"]
  /\ UNCHANGED <<raceVars, ctxDone, cancelled, outstanding, drain>>

(* Mutant of Received: the winner is counted as still running. *)
ReceivedUncounted ==
  /\ race = "select" /\ results # <<>>
  /\ results' = Tail(results)
  /\ outstanding' = outstanding

(* race() takes a result, and counts it off under mu. *)
Received ==
  /\ race = "select" /\ results # <<>>
  /\ results' = Tail(results)
  /\ outstanding' = outstanding - 1

(* On a success it notes how many attempts are still running ...          *)
ReceiveSuccess ==
  /\ Received
  /\ Head(results).ok
  /\ winner' = {Head(results).leg}
  /\ stillRunning' = outstanding'
  /\ race' = "winning"
  /\ UNCHANGED <<call, held, failed, ctxDone, leg, cancelled, drain>>

(* Mutant of CancelAllExcept: nobody is spared, as with a shared context. *)
CancelAll(spared) == cancelled' = [i \in Legs |-> TRUE]

CancelAllExcept(spared) == cancelled' = [i \in Legs |-> cancelled[i] \/ i \notin spared]

(* Mutant of Win: the late arrivals are left in the channel. *)
WinWithoutDrain ==
  /\ race = "winning" /\ race' = "won"
  /\ CancelAllExcept(winner)
  /\ held' = TRUE
  /\ UNCHANGED <<call, winner, stillRunning, failed, ctxDone, leg, results, outstanding, drain>>

(* ... then cancels the others, starts closeLateArrivals, and returns.     *)
Win ==
  /\ race = "winning" /\ race' = "won"
  /\ CancelAllExcept(winner)
  /\ drain' = stillRunning
  /\ held' = TRUE
  /\ UNCHANGED <<call, winner, stillRunning, failed, ctxDone, leg, results, outstanding>>

(* Mutant of AfterFailure: a leg that failed stays down. *)
AfterFailureForgetful(i) ==
  /\ UNCHANGED <<race, leg>>
  /\ cancelled' = [cancelled EXCEPT ![i] = TRUE]

(* Listen starts a goroutine that will restart the leg; Dial gives up once *)
(* every leg has failed.                                                   *)
AfterFailure(i) ==
  \/ /\ call = "Listen"
     /\ leg' = [leg EXCEPT ![i] = "retrying"]
     /\ cancelled' = [cancelled EXCEPT ![i] = TRUE]
     /\ UNCHANGED race
  \/ /\ call = "Dial" /\ failed' = Legs /\ outstanding' = 0
     /\ race' = "failed"
     /\ CancelAllExcept({})
     /\ UNCHANGED leg
  \/ /\ call = "Dial" /\ ~(failed' = Legs /\ outstanding' = 0)
     /\ cancelled' = [cancelled EXCEPT ![i] = TRUE]
     /\ UNCHANGED <<race, leg>>

ReceiveFailure ==
  /\ Received
  /\ ~Head(results).ok
  /\ failed' = failed \cup {Head(results).leg}
  /\ AfterFailure(Head(results).leg)
  /\ UNCHANGED <<call, winner, held, stillRunning, ctxDone, drain>>

(* select may take this branch even when a result is waiting. *)
GiveUp ==
  /\ race = "select" /\ ctxDone
  /\ race' = "gaveUp"
  /\ CancelAllExcept({})
  /\ UNCHANGED <<call, winner, held, stillRunning, failed, ctxDone, leg, results, outstanding, drain>>

(* The restart goroutine waits on the caller's ctx, not on the race: it    *)
(* launches the leg whatever has become of race() meanwhile.  When its     *)
(* timer and the ctx are both ready either may be taken.                   *)
Relaunch(i) ==
  /\ leg[i] = "retrying"
  /\ leg' = [leg EXCEPT ![i] = "running"]
  /\ cancelled' = [cancelled EXCEPT ![i] = FALSE]
  /\ outstanding' = outstanding + 1
  /\ UNCHANGED <<raceVars, ctxDone, results, drain>>

RetryAbandoned(i) ==
  /\ leg[i] = "retrying" /\ ctxDone
  /\ leg' = [leg EXCEPT ![i] = "done"]
  /\ UNCHANGED <<raceVars, ctxDone, cancelled, results, outstanding, drain>>

(* closeLateArrivals: a late connection is closed. *)
Drain ==
  /\ drain > 0 /\ results # <<>>
  /\ results' = Tail(results)
  /\ drain' = drain - 1
  /\ UNCHANGED <<raceVars, ctxDone, leg, cancelled, outstanding>>

(* cancelOnCloseConn. *)
CloseWinner ==
  /\ race = "won" /\ held
  /\ held' = FALSE
  /\ cancelled' = [i \in Legs |-> cancelled[i] \/ i \in winner]
  /\ UNCHANGED <<call, race, winner, stillRunning, failed, ctxDone, leg, results, outstanding, drain>>

CtxEnds ==
  /\ ~ctxDone /\ ctxDone' = TRUE
  /\ UNCHANGED <<raceVars, leg, cancelled, results, outstanding, drain>>

-----------------------------------------------------------------------------
Init ==
  /\ call \in Calls
  /\ race = "select" /\ winner = {} /\ held = FALSE
  /\ ctxDone = FALSE
  /\ leg = [i \in Legs |-> "running"]
  /\ cancelled = [i \in Legs |-> FALSE]
  /\ results = <<>> /\ outstanding = Cardinality(Legs) /\ stillRunning = 0
  /\ failed = {} /\ drain = 0

RaceStep == ReceiveSuccess \/ Win \/ ReceiveFailure \/ GiveUp

Next ==
  \/ RaceStep \/ Drain \/ CloseWinner \/ CtxEnds
  \/ \E i \in Legs : AttemptReturns(i) \/ Relaunch(i) \/ RetryAbandoned(i)

Spec == Init /\ [][Next]_vars

(* race() and closeLateArrivals are scheduled, retry timers fire, an       *)
(* attempt whose context is done returns, and select, which picks among    *)
(* its ready cases at random, does not pass over ctx.Done() for ever.      *)
(* Nothing is assumed of an attempt whose context is live: it may wait for *)
(* a key holder for hours.                                                 *)
FairSpec ==
  /\ Spec
  /\ WF_vars(RaceStep) /\ WF_vars(GiveUp) /\ WF_vars(Drain)
  /\ \A i \in Legs :
       /\ WF_vars(AttemptCtxDone(i) /\ AttemptReturns(i))
       /\ WF_vars(Relaunch(i) \/ RetryAbandoned(i))

-----------------------------------------------------------------------------
(* Properties. *)

(* The variables keep their types; the count of outstanding attempts is    *)
(* never negative and the channel never holds more than its capacity.      *)
TypeOK ==
  /\ call \in Calls
  /\ race \in {"select", "winning", "won", "failed", "gaveUp"}
  /\ winner \subseteq Legs /\ held \in BOOLEAN /\ ctxDone \in BOOLEAN
  /\ leg \in [Legs -> {"running", "retrying", "done"}]
  /\ cancelled \in [Legs -> BOOLEAN]
  /\ results \in Seq([leg : Legs, ok : BOOLEAN]) /\ Len(results) <= Capacity
  /\ outstanding \in 0 .. Capacity /\ stillRunning \in 0 .. Capacity
  /\ failed \subseteq Legs /\ drain \in 0 .. Capacity

(* The connection race() returned keeps its context, and with it its relay *)
(* control connection, until the caller closes it or ends the ctx it       *)
(* called with: cancelling the losers spares the winner, and nothing       *)
(* cancels it afterwards.                                                  *)
WinnerKeepsContext ==
  race = "won" /\ held /\ ~ctxDone => \A i \in winner : ~AttemptCtxDone(i)

(* After a Dial that won, every result still in the channel, or to come    *)
(* from a loser, is one closeLateArrivals waits for, so a connection that  *)
(* arrives late is closed.                                                 *)
LateArrivalsDrained ==
  call = "Dial" /\ race = "won" => drain = Len(results) + Cardinality({i \in Legs : leg[i] = "running"})

(* While race() waits there is something to wait for: the ctx, an attempt, *)
(* a result or a restart.  A Dial that missed its last failure, or a Listen *)
(* that lost a leg's restart, would wait on an empty channel.              *)
NeverWaitsForNothing ==
  race = "select" => \/ results # <<>> \/ ctxDone
                     \/ \E i \in Legs : leg[i] \in {"running", "retrying"}

(* The goroutine of an attempt can always hand in its result: the channel  *)
(* has room for it, even when nobody reads any more.                       *)
SendersNeverBlock ==
  \A i \in Legs : leg[i] = "running" => Len(results) < Capacity

(* Nobody waits for what will not come: neither race() for a result nor an  *)
(* attempt for room in the channel.                                        *)
NobodyWaitsInVain == NeverWaitsForNothing /\ SendersNeverBlock

(* A leg of a waiting machine never stays down: the machine used to go     *)
(* dark for the rest of the boot after one refused connection.             *)
KeepsListening == \A i \in Legs :
  call = "Listen" /\ leg[i] # "running" ~> leg[i] = "running" \/ race # "select" \/ ctxDone

=============================================================================
