-------------------------- MODULE MultiRaceProofs --------------------------
(***************************************************************************)
(* Proofs about MultiRace, for any set of legs, listening or dialling, and *)
(* at the end about LocalDiscovery, the leg that it starts again.          *)
(***************************************************************************)
EXTENDS MultiRace, LocalDiscovery, FiniteSetTheorems, TLAPS

USE LegsAssumption

Results == [leg : Legs, ok : BOOLEAN]

(* The leg of a result has nothing else to report, and as long as race()   *)
(* is still choosing, only failures that have been received have had their *)
(* context cancelled; the winner's is spared until its connection closes.  *)
WinnerInv ==
  /\ race \in {"select", "winning", "won", "failed", "gaveUp"}
  /\ winner \subseteq Legs
  /\ leg \in [Legs -> {"running", "retrying", "done"}]
  /\ cancelled \in [Legs -> BOOLEAN]
  /\ results \in Seq(Results)
  /\ \A k \in DOMAIN results : leg[results[k].leg] = "done"
  /\ \A k, l \in DOMAIN results : results[k].leg = results[l].leg => k = l
  /\ race = "select" =>
       /\ \A i \in Legs : leg[i] = "running" => ~cancelled[i]
       /\ \A k \in DOMAIN results : ~cancelled[results[k].leg]
  /\ race = "winning" \/ (race = "won" /\ held) =>
       \A i \in winner : leg[i] = "done" /\ ~cancelled[i]

(* Reading the channel leaves its results as they were, each shifted by    *)
(* one, and none of them is of the leg that was read.                      *)
LEMMA TailResults ==
  ASSUME WinnerInv, results # <<>>
  PROVE  /\ Head(results) \in Results
         /\ 1 \in DOMAIN results /\ Head(results) = results[1]
         /\ Tail(results) \in Seq(Results)
         /\ \A k \in DOMAIN Tail(results) :
              /\ k \in Nat /\ k + 1 \in DOMAIN results /\ k + 1 # 1
              /\ Tail(results)[k] = results[k + 1]
  BY DEF WinnerInv

(* The channel after a read still has one result per leg, of a leg that is *)
(* done, and none of the leg just read.                                    *)
LEMMA AfterRead ==
  ASSUME WinnerInv, results # <<>>
  PROVE  LET rest == Tail(results) IN
         /\ rest \in Seq(Results)
         /\ \A k \in DOMAIN rest : leg[rest[k].leg] = "done" /\ rest[k].leg \in Legs
         /\ \A k, l \in DOMAIN rest : rest[k].leg = rest[l].leg => k = l
         /\ \A k \in DOMAIN rest : rest[k].leg # Head(results).leg
         /\ race = "select" => \A k \in DOMAIN rest : ~cancelled[rest[k].leg]
<1> DEFINE rest == Tail(results)
<1>1. rest \in Seq(Results)
  BY TailResults
<1>2. \A k \in DOMAIN rest : rest[k] \in Results
  BY <1>1
<1>3. \A k \in DOMAIN rest : k \in Nat /\ k + 1 \in DOMAIN results /\ k + 1 # 1
                             /\ rest[k] = results[k + 1]
  BY TailResults
<1>4. \A k, l \in DOMAIN rest : rest[k].leg = rest[l].leg => k = l
  <2> SUFFICES ASSUME NEW k \in DOMAIN rest, NEW l \in DOMAIN rest, rest[k].leg = rest[l].leg
               PROVE  k = l
    OBVIOUS
  <2>1. k + 1 = l + 1
    BY <1>3 DEF WinnerInv
  <2>2. QED BY <1>3, <2>1
<1>5. \A k \in DOMAIN rest : rest[k].leg # Head(results).leg
  BY <1>3, TailResults DEF WinnerInv
<1>6. \A k \in DOMAIN rest : leg[rest[k].leg] = "done" /\ rest[k].leg \in Legs
  BY <1>2, <1>3 DEF WinnerInv, Results
<1>7. race = "select" => \A k \in DOMAIN rest : ~cancelled[rest[k].leg]
  BY <1>3 DEF WinnerInv
<1>8. QED BY <1>1, <1>4, <1>5, <1>6, <1>7

(* Every step keeps the invariant. *)
LEMMA WinnerInvStep == WinnerInv /\ [Next]_vars => WinnerInv'
<1> SUFFICES ASSUME WinnerInv, [Next]_vars PROVE WinnerInv'
  OBVIOUS
<1>1. ASSUME NEW i \in Legs, AttemptReturns(i) PROVE WinnerInv'
  <2>1. PICK ok \in BOOLEAN : results' = Append(results, Outcome(i, ok))
    BY <1>1 DEF AttemptReturns
  <2>2. Outcome(i, ok) \in Results
    BY DEF Outcome, Results
  <2>3. results \in Seq(Results) /\ \A k \in DOMAIN results : results[k] \in Results
    BY DEF WinnerInv
  <2>4. results' \in Seq(Results)
    BY <2>1, <2>2, <2>3
  <2>5. \A k \in DOMAIN results' :
          \/ k \in DOMAIN results /\ results'[k] = results[k]
          \/ k = Len(results) + 1 /\ results'[k] = Outcome(i, ok)
    BY <2>1, <2>2, <2>3
  <2>6. \A k \in DOMAIN results : results[k].leg # i /\ results[k].leg \in Legs
    BY <1>1, <2>3 DEF WinnerInv, AttemptReturns, Results
  <2>7. /\ \A k \in DOMAIN results' : leg'[results'[k].leg] = "done" /\ results'[k].leg \in Legs
        /\ \A k, l \in DOMAIN results' : results'[k].leg = results'[l].leg => k = l
    BY <1>1, <2>5, <2>6 DEF WinnerInv, AttemptReturns, Outcome
  <2>8. race = "select" => \A k \in DOMAIN results' : ~cancelled[results'[k].leg]
    BY <1>1, <2>5 DEF WinnerInv, AttemptReturns, Outcome
  <2>9. QED BY <1>1, <2>4, <2>7, <2>8 DEF WinnerInv, AttemptReturns, raceVars
<1>2. CASE ReceiveSuccess
  <2>1. Head(results) \in Results /\ leg[Head(results).leg] = "done"
        /\ ~cancelled[Head(results).leg]
    BY <1>2, TailResults DEF ReceiveSuccess, Received, WinnerInv
  <2>2. QED BY <1>2, <2>1, AfterRead DEF WinnerInv, ReceiveSuccess, Received, Results
<1>3. CASE ReceiveFailure
  <2> DEFINE i == Head(results).leg
  <2>1. i \in Legs
    BY <1>3, TailResults DEF ReceiveFailure, Received, Results
  <2>2. results # <<>> /\ results' = Tail(results) /\ race = "select"
    BY <1>3 DEF ReceiveFailure, Received
  <2>3. /\ race' \in {"select", "failed"} /\ UNCHANGED winner
        /\ leg' \in {leg, [leg EXCEPT ![i] = "retrying"]}
        /\ cancelled' \in [Legs -> BOOLEAN]
        /\ race' = "select" => cancelled' = [cancelled EXCEPT ![i] = TRUE]
    <3>1. AfterFailure(i)
      BY <1>3 DEF ReceiveFailure
    <3>2. race' \in {"select", "failed"} /\ leg' \in {leg, [leg EXCEPT ![i] = "retrying"]}
      BY <2>2, <3>1 DEF AfterFailure
    <3>3. /\ cancelled' \in [Legs -> BOOLEAN]
          /\ race' = "select" => cancelled' = [cancelled EXCEPT ![i] = TRUE]
      BY <2>2, <3>1 DEF AfterFailure, CancelAllExcept, WinnerInv
    <3>4. QED BY <1>3, <3>2, <3>3 DEF ReceiveFailure
  <2>4. leg[i] = "done"
    BY <2>2, TailResults DEF WinnerInv
  <2> HIDE DEF i
  <2>5. \A k \in DOMAIN results' : results'[k].leg # i
    BY <2>2, AfterRead DEF i
  <2>6. QED BY <2>1, <2>2, <2>3, <2>4, <2>5, AfterRead DEF WinnerInv
<1>4. CASE Win
  BY <1>4 DEF Win, CancelAllExcept, WinnerInv
<1>5. CASE GiveUp
  BY <1>5 DEF GiveUp, CancelAllExcept, WinnerInv
<1>6. CASE Drain
  BY <1>6, AfterRead DEF Drain, WinnerInv, raceVars
<1>7. CASE CloseWinner
  BY <1>7 DEF CloseWinner, WinnerInv
<1>8. CASE CtxEnds
  BY <1>8 DEF CtxEnds, WinnerInv, raceVars
<1>9. ASSUME NEW i \in Legs, Relaunch(i) PROVE WinnerInv'
  BY <1>9 DEF Relaunch, WinnerInv, raceVars, Results
<1>10. ASSUME NEW i \in Legs, RetryAbandoned(i) PROVE WinnerInv'
  BY <1>10 DEF RetryAbandoned, WinnerInv, raceVars, Results
<1>11. CASE UNCHANGED vars
  BY <1>11 DEF vars, raceVars, WinnerInv
<1>12. QED
  BY <1>1, <1>2, <1>3, <1>4, <1>5, <1>6, <1>7, <1>8, <1>9, <1>10, <1>11 DEF Next, RaceStep

(* race() never cancels the context of the connection it returned, whether *)
(* by cancelling the losers, by a restart that races the win, or by the    *)
(* drain: only closing the connection does.                                *)
THEOREM WinnerContextKept == Spec => []WinnerKeepsContext
<1>1. Init => WinnerInv
  BY DEF Init, WinnerInv
<1>2. WinnerInv => WinnerKeepsContext
  BY DEF WinnerInv, WinnerKeepsContext, AttemptCtxDone
<1>3. QED BY <1>1, <1>2, WinnerInvStep, PTL DEF Spec

-----------------------------------------------------------------------------
(* What is counted, and what is still to come.                             *)

(* What a leg may be doing, the legs that are doing s, and their number.   *)
Occupations == {"running", "retrying", "done"}
Doing(s) == {i \in Legs : leg[i] = s}
Count(s) == Cardinality(Doing(s))

(* How many attempts are running, and how many restarts are pending.       *)
Running == Count("running")
Retrying == Count("retrying")

(* Every leg has at most one thing in hand: an attempt, a pending restart  *)
(* or a result in the channel.  While race() chooses, outstanding counts   *)
(* the attempts and the results; once it has won, a Dial's drain does.     *)
(* Only after a win is there anything to drain.                            *)
CountInv ==
  /\ outstanding \in Nat /\ stillRunning \in 0 .. Capacity /\ drain \in 0 .. Capacity
  /\ Len(results) + Running + Retrying <= Capacity
  /\ outstanding + Retrying <= Capacity
  /\ race \in {"select", "winning"} => outstanding = Len(results) + Running
  /\ race # "won" => drain = 0
  /\ call = "Dial" => /\ Retrying = 0
                      /\ race = "winning" => stillRunning = Len(results) + Running
                      /\ race = "won" => drain = Len(results) + Running

(* A leg that is done while race() waits has told it, or is about to, or   *)
(* was not restarted because the ctx is done; a Dial that knows of every   *)
(* leg's failure does not wait for another result.                         *)
WaitInv ==
  race = "select" =>
    /\ \A i \in Legs : leg[i] = "done" =>
         \/ ctxDone
         \/ call = "Dial" /\ i \in failed
         \/ \E k \in DOMAIN results : results[k].leg = i
    /\ call = "Dial" => ~(failed = Legs /\ outstanding = 0)

TypesInv ==
  /\ call \in Calls /\ held \in BOOLEAN /\ ctxDone \in BOOLEAN /\ failed \subseteq Legs

RaceInv == TypesInv /\ WinnerInv /\ CountInv /\ WaitInv

(* A count is a natural number, 0 exactly when no leg is doing that.       *)
LEMMA Counts ==
  ASSUME NEW s
  PROVE  /\ IsFiniteSet(Doing(s)) /\ Count(s) \in Nat /\ Count(s)' \in Nat
         /\ Count(s) = 0 <=> Doing(s) = {}
<1>1. IsFiniteSet(Doing(s)) /\ IsFiniteSet(Doing(s)')
  BY FS_Subset DEF Doing
<1>2. QED BY <1>1, FS_CardinalityType, FS_EmptySet DEF Count

(* When one leg goes from one occupation to another, the first is counted  *)
(* once less, the second once more, and no other count changes.            *)
LEMMA CountMoves ==
  ASSUME leg \in [Legs -> Occupations], NEW i \in Legs, NEW s \in Occupations, leg[i] # s,
         leg' = [leg EXCEPT ![i] = s]
  PROVE  \A r \in Occupations :
           Count(r)' = Count(r) + (IF r = s THEN 1 ELSE 0) - (IF r = leg[i] THEN 1 ELSE 0)
<1> SUFFICES ASSUME NEW r \in Occupations
             PROVE  Count(r)' = Count(r) + (IF r = s THEN 1 ELSE 0)
                                         - (IF r = leg[i] THEN 1 ELSE 0)
  OBVIOUS
<1> DEFINE S == Doing(r)
<1>1. IsFiniteSet(S) /\ Cardinality(S) \in Nat
  BY Counts DEF Count
<1>2. Doing(r)' = IF r = s THEN S \cup {i} ELSE IF r = leg[i] THEN S \ {i} ELSE S
  BY DEF Doing
<1>3. (r = s => i \notin S) /\ (r = leg[i] => i \in S)
  BY DEF Doing
<1> HIDE DEF S
<1>4. /\ i \notin S => Cardinality(S \cup {i}) = Cardinality(S) + 1
      /\ i \in S => Cardinality(S \ {i}) = Cardinality(S) - 1
  BY <1>1, FS_AddElement, FS_RemoveElement
<1>5. Count(r) = Cardinality(S)
  BY DEF Count, S
<1>6. QED BY <1>1, <1>2, <1>3, <1>4, <1>5 DEF Count

(* How the two counts change when a leg goes from one to another.          *)
Moved(from, to) ==
  /\ Running' = Running + (IF to = "running" THEN 1 ELSE 0)
                        - (IF from = "running" THEN 1 ELSE 0)
  /\ Retrying' = Retrying + (IF to = "retrying" THEN 1 ELSE 0)
                          - (IF from = "retrying" THEN 1 ELSE 0)

LEMMA LegMoves ==
  ASSUME leg \in [Legs -> Occupations], NEW i \in Legs, NEW s \in Occupations, leg[i] # s,
         leg' = [leg EXCEPT ![i] = s]
  PROVE  Moved(leg[i], s)
  BY CountMoves DEF Occupations, Running, Retrying, Count, Doing, Moved

LEMMA LegsStay == UNCHANGED leg => UNCHANGED <<Running, Retrying>>
  BY DEF Running, Retrying, Count, Doing

(* Sending makes the channel one longer, and reading one shorter.          *)
LEMMA ChannelLength ==
  ASSUME results \in Seq(Results)
  PROVE  /\ Len(results) \in Nat
         /\ \A r \in Results : Len(Append(results, r)) = Len(results) + 1
         /\ results # <<>> => Len(Tail(results)) = Len(results) - 1 /\ Len(results) > 0
<1>1. Len(results) \in Nat /\ (results # <<>> => Len(results) > 0)
  OBVIOUS
<1>2. \A r \in Results : Len(Append(results, r)) = Len(results) + 1
  OBVIOUS
<1>3. results # <<>> => Len(Tail(results)) = Len(results) - 1
  OBVIOUS
<1>4. QED BY <1>1, <1>2, <1>3

(* Every step keeps the counts right.                                      *)
LEMMA CountInvStep == WinnerInv /\ CountInv /\ [Next]_vars => CountInv'
<1> SUFFICES ASSUME WinnerInv, CountInv, [Next]_vars PROVE CountInv'
  OBVIOUS
<1>0. /\ Running \in Nat /\ Retrying \in Nat /\ Running' \in Nat /\ Retrying' \in Nat
      /\ Len(results) \in Nat /\ Capacity \in Nat
      /\ results \in Seq(Results) /\ leg \in [Legs -> Occupations]
  BY Counts, ChannelLength, FS_CardinalityType DEF Capacity, WinnerInv, Occupations, Running, Retrying
<1>1. ASSUME NEW i \in Legs, AttemptReturns(i) PROVE CountInv'
  <2>1. leg[i] = "running" /\ leg' = [leg EXCEPT ![i] = "done"]
    BY <1>1 DEF AttemptReturns
  <2>2. Running' = Running - 1 /\ Retrying' = Retrying
    <3>1. Moved("running", "done")
      BY <1>0, <2>1, LegMoves DEF Occupations
    <3>2. QED BY <1>0, <3>1 DEF Moved
  <2>3. Len(results') = Len(results) + 1
    <3>1. \A ok \in BOOLEAN : Outcome(i, ok) \in Results
      BY DEF Outcome, Results
    <3>2. QED BY <1>0, <1>1, <3>1, ChannelLength DEF AttemptReturns
  <2>4. UNCHANGED <<call, race, stillRunning, outstanding, drain>>
    BY <1>1 DEF AttemptReturns, raceVars
  <2>5. QED BY <1>0, <2>2, <2>3, <2>4 DEF CountInv, Capacity
<1>2. CASE ReceiveSuccess
  <2>1. /\ race = "select" /\ race' = "winning" /\ outstanding' = outstanding - 1
        /\ stillRunning' = outstanding' /\ UNCHANGED <<call, leg, drain>>
        /\ Len(results') = Len(results) - 1 /\ Len(results) > 0
    BY <1>0, <1>2, ChannelLength DEF ReceiveSuccess, Received
  <2>2. UNCHANGED <<Running, Retrying>>
    BY <2>1, LegsStay
  <2>3. QED BY <1>0, <2>1, <2>2 DEF CountInv, Capacity
<1>3. CASE ReceiveFailure
  <2> DEFINE i == Head(results).leg
  <2>1. /\ race = "select" /\ outstanding' = outstanding - 1
        /\ UNCHANGED <<call, stillRunning, drain>>
        /\ Len(results') = Len(results) - 1 /\ Len(results) > 0
        /\ i \in Legs /\ leg[i] = "done" /\ AfterFailure(i)
    BY <1>0, <1>3, ChannelLength, TailResults DEF ReceiveFailure, Received, WinnerInv, Results
  <2> HIDE DEF i
  <2>2. CASE call = "Listen" /\ leg' = [leg EXCEPT ![i] = "retrying"] /\ race' = race
    <3>1. Running' = Running /\ Retrying' = Retrying + 1
      <4>1. Moved("done", "retrying")
        BY <1>0, <2>1, <2>2, LegMoves DEF Occupations
      <4>2. QED BY <1>0, <4>1 DEF Moved
    <3>2. QED BY <1>0, <2>1, <2>2, <3>1 DEF CountInv, Capacity
  <2>3. CASE UNCHANGED leg /\ race' \in {"select", "failed"}
    <3>1. UNCHANGED <<Running, Retrying>>
      BY <2>3, LegsStay
    <3>2. QED BY <1>0, <2>1, <2>3, <3>1 DEF CountInv, Capacity
  <2>4. QED BY <2>1, <2>2, <2>3 DEF AfterFailure
<1>4. CASE Win
  <2>1. /\ race = "winning" /\ race' = "won" /\ drain' = stillRunning
        /\ UNCHANGED <<call, stillRunning, leg, results, outstanding>>
    BY <1>4 DEF Win
  <2>2. QED BY <1>0, <2>1, LegsStay DEF CountInv, Capacity
<1>5. CASE GiveUp
  <2>1. /\ race' = "gaveUp" /\ race = "select"
        /\ UNCHANGED <<call, stillRunning, leg, results, outstanding, drain>>
    BY <1>5 DEF GiveUp
  <2>2. QED BY <1>0, <2>1, LegsStay DEF CountInv, Capacity
<1>6. CASE Drain
  <2>1. /\ drain > 0 /\ drain' = drain - 1 /\ Len(results') = Len(results) - 1 /\ Len(results) > 0
        /\ UNCHANGED <<call, race, stillRunning, leg, outstanding>>
    BY <1>0, <1>6, ChannelLength DEF Drain, raceVars
  <2>2. UNCHANGED <<Running, Retrying>>
    BY <2>1, LegsStay
  <2>3. QED BY <1>0, <2>1, <2>2 DEF CountInv, Capacity
<1>7. ASSUME UNCHANGED <<call, race, stillRunning, leg, results, outstanding, drain>>
      PROVE  CountInv'
  BY <1>7, LegsStay DEF CountInv, Capacity
<1>8. ASSUME NEW i \in Legs, Relaunch(i) PROVE CountInv'
  <2>1. /\ leg[i] = "retrying" /\ leg' = [leg EXCEPT ![i] = "running"]
        /\ outstanding' = outstanding + 1
        /\ UNCHANGED <<call, race, stillRunning, results, drain>>
    BY <1>8 DEF Relaunch, raceVars
  <2>2. Running' = Running + 1 /\ Retrying' = Retrying - 1
    <3>1. Moved("retrying", "running")
      BY <1>0, <2>1, LegMoves DEF Occupations
    <3>2. QED BY <1>0, <3>1 DEF Moved
  <2>3. QED BY <1>0, <2>1, <2>2 DEF CountInv, Capacity
<1>9. ASSUME NEW i \in Legs, RetryAbandoned(i) PROVE CountInv'
  <2>1. /\ leg[i] = "retrying" /\ leg' = [leg EXCEPT ![i] = "done"]
        /\ UNCHANGED <<call, race, stillRunning, results, outstanding, drain>>
    BY <1>9 DEF RetryAbandoned, raceVars
  <2>2. Running' = Running /\ Retrying' = Retrying - 1
    <3>1. Moved("retrying", "done")
      BY <1>0, <2>1, LegMoves DEF Occupations
    <3>2. QED BY <1>0, <3>1 DEF Moved
  <2>3. QED BY <1>0, <2>1, <2>2 DEF CountInv, Capacity
<1>10. CASE CloseWinner \/ CtxEnds \/ UNCHANGED vars
  BY <1>7, <1>10 DEF CloseWinner, CtxEnds, vars, raceVars
<1>11. QED
  BY <1>1, <1>2, <1>3, <1>4, <1>5, <1>6, <1>8, <1>9, <1>10 DEF Next, RaceStep

(* Every step keeps the types of the variables nothing counts.             *)
LEMMA TypesInvStep == TypesInv /\ WinnerInv /\ [Next]_vars => TypesInv'
<1> SUFFICES ASSUME TypesInv, WinnerInv, [Next]_vars PROVE TypesInv'
  OBVIOUS
<1>1. CASE ReceiveFailure
  <2>1. Head(results).leg \in Legs
    BY <1>1, TailResults DEF ReceiveFailure, Received, Results
  <2>2. QED BY <1>1, <2>1 DEF TypesInv, ReceiveFailure
<1>2. CASE ReceiveSuccess \/ Win \/ GiveUp
  BY <1>2 DEF TypesInv, ReceiveSuccess, Win, GiveUp
<1>3. CASE Drain \/ CloseWinner \/ CtxEnds \/ UNCHANGED vars
  BY <1>3 DEF TypesInv, Drain, CloseWinner, CtxEnds, vars, raceVars
<1>4. ASSUME NEW i \in Legs, AttemptReturns(i) \/ Relaunch(i) \/ RetryAbandoned(i)
      PROVE  TypesInv'
  BY <1>4 DEF TypesInv, AttemptReturns, Relaunch, RetryAbandoned, raceVars
<1>5. QED BY <1>1, <1>2, <1>3, <1>4 DEF Next, RaceStep

(* Every step keeps race() informed of the legs that are done.             *)
LEMMA WaitInvStep == RaceInv /\ [Next]_vars => WaitInv'
<1> SUFFICES ASSUME RaceInv, [Next]_vars PROVE WaitInv'
  OBVIOUS
<1>0. /\ TypesInv /\ WinnerInv /\ CountInv /\ WaitInv
      /\ leg \in [Legs -> {"running", "retrying", "done"}]
  BY DEF RaceInv, WinnerInv
<1>1. ASSUME NEW i \in Legs, AttemptReturns(i) PROVE WaitInv'
  <2>1. PICK ok \in BOOLEAN : results' = Append(results, Outcome(i, ok))
    BY <1>1 DEF AttemptReturns
  <2>2. Outcome(i, ok) \in Results /\ results \in Seq(Results)
    BY <1>0 DEF Outcome, Results, WinnerInv
  <2>3. /\ \A k \in DOMAIN results : k \in DOMAIN results' /\ results'[k] = results[k]
        /\ Len(results) + 1 \in DOMAIN results' /\ results'[Len(results) + 1] = Outcome(i, ok)
    BY <2>1, <2>2
  <2>4. /\ UNCHANGED <<call, race, ctxDone, failed, outstanding>>
        /\ leg' = [leg EXCEPT ![i] = "done"] /\ leg \in [Legs -> {"running", "retrying", "done"}]
    BY <1>0, <1>1 DEF AttemptReturns, raceVars, WinnerInv
  <2>5. ASSUME race = "select", NEW j \in Legs, leg'[j] = "done"
        PROVE  \/ ctxDone
               \/ call = "Dial" /\ j \in failed
               \/ \E k \in DOMAIN results' : results'[k].leg = j
    <3>1. CASE j = i
      BY <2>3, <3>1 DEF Outcome
    <3>2. CASE j # i
      <4>1. leg[j] = "done"
        BY <2>4, <2>5, <3>2
      <4>2. \/ ctxDone
            \/ call = "Dial" /\ j \in failed
            \/ \E k \in DOMAIN results : results[k].leg = j
        BY <1>0, <2>5, <4>1 DEF WaitInv
      <4>3. QED BY <2>3, <4>2
    <3>3. QED BY <3>1, <3>2
  <2>6. QED BY <1>0, <2>4, <2>5 DEF WaitInv
<1>2. CASE ReceiveFailure
  <2> DEFINE i == Head(results).leg
  <2>1. /\ race = "select" /\ results # <<>> /\ results' = Tail(results) /\ i \in Legs
        /\ failed' = failed \cup {i} /\ AfterFailure(i) /\ UNCHANGED <<call, ctxDone>>
    BY <1>0, <1>2, TailResults DEF ReceiveFailure, Received, Results
  <2>2. \A k \in DOMAIN results : k # 1 => k - 1 \in DOMAIN results' /\ results'[k - 1] = results[k]
    BY <1>0, <2>1 DEF WinnerInv
  <2>3. results[1].leg = i
    BY <2>1, TailResults DEF i
  <2> HIDE DEF i
  <2>4. ASSUME race' = "select", NEW j \in Legs, leg'[j] = "done"
        PROVE  \/ ctxDone
               \/ call = "Dial" /\ j \in failed'
               \/ \E k \in DOMAIN results' : results'[k].leg = j
    <3>1. leg \in [Legs -> {"running", "retrying", "done"}]
      BY <1>0 DEF WinnerInv
    <3>2. call = "Dial" \/ (call = "Listen" /\ j # i)
      BY <2>1, <2>4, <3>1 DEF AfterFailure
    <3>3. leg[j] = "done"
      BY <2>1, <2>4, <3>1 DEF AfterFailure
    <3>4. CASE j = i
      BY <2>1, <3>2, <3>4
    <3>5. CASE j # i
      <4>1. \/ ctxDone
            \/ call = "Dial" /\ j \in failed
            \/ \E k \in DOMAIN results : results[k].leg = j
        BY <1>0, <2>1, <3>3 DEF WaitInv
      <4>2. \A k \in DOMAIN results : results[k].leg = j => k # 1
        BY <2>3, <3>5
      <4>3. QED BY <2>1, <2>2, <4>1, <4>2
    <3>6. QED BY <3>4, <3>5
  <2>5. race' = "select" /\ call = "Dial" => ~(failed' = Legs /\ outstanding' = 0)
    BY <2>1 DEF AfterFailure
  <2>6. QED BY <1>0, <2>1, <2>4, <2>5 DEF WaitInv
<1>3. CASE ReceiveSuccess \/ Win \/ GiveUp
  BY <1>0, <1>3 DEF WaitInv, ReceiveSuccess, Received, Win, GiveUp
<1>4. CASE Drain
  BY <1>0, <1>4 DEF WaitInv, Drain, CountInv, raceVars
<1>5. ASSUME NEW i \in Legs, Relaunch(i) PROVE WaitInv'
  <2>1. call = "Dial" => FALSE
    <3>1. Doing("retrying") # {}
      BY <1>5 DEF Relaunch, Doing
    <3>2. QED BY <1>0, <3>1, Counts DEF CountInv, Retrying
  <2>2. QED BY <1>0, <1>5, <2>1 DEF WaitInv, Relaunch, raceVars, WinnerInv
<1>6. ASSUME NEW i \in Legs, RetryAbandoned(i) PROVE WaitInv'
  BY <1>0, <1>6 DEF WaitInv, RetryAbandoned, raceVars
<1>7. CASE CloseWinner \/ CtxEnds \/ UNCHANGED vars
  BY <1>0, <1>7 DEF WaitInv, CloseWinner, CtxEnds, vars, raceVars
<1>8. QED BY <1>1, <1>2, <1>3, <1>4, <1>5, <1>6, <1>7 DEF Next, RaceStep

(* The invariant of the race: it holds at the start and every step keeps it. *)
THEOREM RaceInvariant == Spec => []RaceInv
<1>1. Init => RaceInv
  <2> SUFFICES ASSUME Init PROVE RaceInv
    OBVIOUS
  <2>1. WinnerInv /\ TypesInv
    <3>1. WinnerInv
      BY DEF Init, WinnerInv
    <3>2. TypesInv
      BY DEF Init, TypesInv
    <3>3. QED BY <3>1, <3>2
  <2>2. /\ Doing("running") = Legs /\ Doing("retrying") = {}
        /\ Capacity \in Nat /\ Len(results) = 0
    BY FS_CardinalityType DEF Init, Doing, Capacity
  <2>3. Running = Capacity /\ Retrying = 0
    BY <2>2, FS_EmptySet DEF Running, Retrying, Count, Capacity
  <2>4. CountInv
    BY <2>2, <2>3 DEF Init, CountInv, Capacity
  <2>5. WaitInv
    BY DEF Init, WaitInv
  <2>6. QED BY <2>1, <2>4, <2>5 DEF RaceInv
<1>2. RaceInv /\ [Next]_vars => RaceInv'
  BY WinnerInvStep, CountInvStep, WaitInvStep, TypesInvStep DEF RaceInv
<1>3. QED BY <1>1, <1>2, PTL DEF Spec

(* The types of the variables; in particular neither the count of          *)
(* outstanding attempts nor the drain's goes below zero.                    *)
THEOREM RaceTypes == Spec => []TypeOK
<1>1. RaceInv => TypeOK
  <2> SUFFICES ASSUME RaceInv PROVE TypeOK
    OBVIOUS
  <2>1. /\ Running \in Nat /\ Retrying \in Nat /\ Capacity \in Nat
        /\ results \in Seq(Results) /\ Len(results) \in Nat
    BY Counts, FS_CardinalityType DEF RaceInv, WinnerInv, Capacity, Running, Retrying
  <2>2. Len(results) <= Capacity /\ outstanding \in 0 .. Capacity
    BY <2>1 DEF RaceInv, CountInv
  <2>3. QED BY <2>1, <2>2 DEF RaceInv, TypesInv, WinnerInv, CountInv, TypeOK, Results
<1>2. QED BY <1>1, RaceInvariant, PTL

(* A Dial that won leaves nothing behind: what closeLateArrivals has still  *)
(* to receive is what is in the channel and what is still to come.         *)
THEOREM NoLateConnectionLeaks == Spec => []LateArrivalsDrained
<1>1. RaceInv => LateArrivalsDrained
  BY DEF RaceInv, CountInv, LateArrivalsDrained, Running, Count, Doing
<1>2. QED BY <1>1, RaceInvariant, PTL

(* race() never waits on a channel nobody will send to, and an attempt     *)
(* never blocks handing in its result, whether or not anybody reads it.    *)
THEOREM RaceNeverStuck == Spec => []NobodyWaitsInVain
<1>1. RaceInv => NeverWaitsForNothing
  <2> SUFFICES ASSUME RaceInv, race = "select", results = <<>>, ~ctxDone,
                      \A i \in Legs : leg[i] \notin {"running", "retrying"}
               PROVE  FALSE
    BY DEF NeverWaitsForNothing
  <2>1. \A i \in Legs : leg[i] = "done"
    BY DEF RaceInv, WinnerInv
  <2>2. call = "Dial" /\ failed = Legs
    BY <2>1 DEF RaceInv, WaitInv, TypesInv
  <2>3. Doing("running") = {}
    BY DEF Doing
  <2>4. Running = 0
    BY <2>3, Counts DEF Running
  <2>5. outstanding = 0
    BY <2>4 DEF RaceInv, CountInv
  <2>6. QED BY <2>2, <2>5 DEF RaceInv, WaitInv
<1>2. RaceInv => SendersNeverBlock
  <2> SUFFICES ASSUME RaceInv, NEW i \in Legs, leg[i] = "running"
               PROVE  Len(results) < Capacity
    BY DEF SendersNeverBlock
  <2>1. Doing("running") # {}
    BY DEF Doing
  <2>2. Running \in Nat \ {0} /\ Retrying \in Nat /\ Capacity \in Nat /\ Len(results) \in Nat
    BY <2>1, Counts, FS_CardinalityType DEF RaceInv, WinnerInv, Capacity, Running, Retrying
  <2>3. QED BY <2>2 DEF RaceInv, CountInv
<1>3. QED BY <1>1, <1>2, RaceInvariant, PTL DEF NobodyWaitsInVain

-----------------------------------------------------------------------------
(* The local leg, which the race starts again when it fails, for any       *)
(* interfaces and any number of listens and of lies.                       *)

USE LocalAssumption

(* Nothing is queued at a port that is closed, nobody is served that was   *)
(* not taken from the queue, and sockets are open in a wait only.          *)
QueueIsOpen == ready # {} => listen = "accepting"
GuestIsInside == guest # Nobody => listen \in {"handshake", "returning", "served"}
SocketsWhileWaiting == dial # "wait" => sockets = {}

(* OneConnection without the counting. *)
InOnePlace ==
  /\ link <=> "holder" \in ready \/ acceptor = "holder" \/ guest = "holder"
  /\ ~("holder" \in ready /\ acceptor = "holder")
  /\ ~("holder" \in ready /\ guest = "holder")
  /\ ~(acceptor = "holder" /\ guest = "holder")
  /\ link => dial \in {"handshake", "connected"}

(* The inductive invariant. *)
LocalInductive == LocalInv /\ QueueIsOpen /\ GuestIsInside /\ SocketsWhileWaiting

LEMMA PlacesCounted == LocalTypeOK => (OneConnection <=> InOnePlace)
<1> SUFFICES ASSUME LocalTypeOK PROVE OneConnection <=> InOnePlace
  OBVIOUS
<1> DEFINE places == {"queue" : c \in ready \cap {"holder"}}
                       \cup {"accept" : c \in {acceptor} \cap {"holder"}}
                       \cup {"guest" : c \in {guest} \cap {"holder"}}
<1>1. /\ "queue" \in places <=> "holder" \in ready
      /\ "accept" \in places <=> acceptor = "holder"
      /\ "guest" \in places <=> guest = "holder"
      /\ \A p \in places : p \in {"queue", "accept", "guest"}
  OBVIOUS
<1>2. OneConnection <=>
        /\ Cardinality(places) = IF link THEN 1 ELSE 0
        /\ link => dial \in {"handshake", "connected"}
  BY DEF OneConnection
<1>3. link \in BOOLEAN
  BY DEF LocalTypeOK
<1>4. IsFiniteSet(places)
  <2>1. IsFiniteSet({"queue", "accept", "guest"})
    <3>1. IsFiniteSet({"queue"})
      BY FS_Singleton
    <3>2. IsFiniteSet({"queue"} \cup {"accept"})
      BY <3>1, FS_AddElement
    <3>3. IsFiniteSet(({"queue"} \cup {"accept"}) \cup {"guest"})
      BY <3>2, FS_AddElement
    <3>4. ({"queue"} \cup {"accept"}) \cup {"guest"} = {"queue", "accept", "guest"}
      OBVIOUS
    <3> QED
      BY <3>3, <3>4
  <2>2. places \in SUBSET {"queue", "accept", "guest"}
    BY <1>1
  <2> HIDE DEF places
  <2> QED
    BY <2>1, <2>2, FS_Subset
<1> HIDE DEF places
<1>5. Cardinality(places) = 0 <=> places = {}
  BY <1>4, FS_EmptySet
<1>6. Cardinality(places) = 1 <=> \E x : places = {x}
  BY <1>4, FS_Singleton
<1>7. places = {} <=> "holder" \notin ready /\ acceptor # "holder" /\ guest # "holder"
  BY <1>1
<1>8. (\E x : places = {x}) <=>
        /\ "holder" \in ready \/ acceptor = "holder" \/ guest = "holder"
        /\ ~("holder" \in ready /\ acceptor = "holder")
        /\ ~("holder" \in ready /\ guest = "holder")
        /\ ~(acceptor = "holder" /\ guest = "holder")
  <2>1. ASSUME NEW x, places = {x}
        PROVE  /\ "holder" \in ready \/ acceptor = "holder" \/ guest = "holder"
               /\ ~("holder" \in ready /\ acceptor = "holder")
               /\ ~("holder" \in ready /\ guest = "holder")
               /\ ~(acceptor = "holder" /\ guest = "holder")
    BY <1>1, <2>1
  <2>2. ASSUME "holder" \in ready, acceptor # "holder", guest # "holder"
        PROVE  places = {"queue"}
    BY <1>1, <2>2
  <2>3. ASSUME "holder" \notin ready, acceptor = "holder", guest # "holder"
        PROVE  places = {"accept"}
    BY <1>1, <2>3
  <2>4. ASSUME "holder" \notin ready, acceptor # "holder", guest = "holder"
        PROVE  places = {"guest"}
    BY <1>1, <2>4
  <2> QED
    BY <2>1, <2>2, <2>3, <2>4
<1>9. CASE link
  <2>1. OneConnection <=> (\E x : places = {x}) /\ dial \in {"handshake", "connected"}
    BY <1>2, <1>6, <1>9
  <2> QED
    BY <1>8, <1>9, <2>1 DEF InOnePlace
<1>10. CASE ~link
  <2>1. OneConnection <=> places = {}
    BY <1>2, <1>5, <1>10
  <2> QED
    BY <1>7, <1>10, <2>1 DEF InOnePlace
<1> QED
  BY <1>3, <1>9, <1>10

USE DEF machineVars, holderVars, netVars

(* The types of the machine's side and of the key holder's, but for what   *)
(* is in the air and what has been heard.                                  *)
MachineTypes ==
  /\ listen \in {"off", "accepting", "handshake", "returning", "givingUp", "served", "failed"}
  /\ port \in 0..MaxListens /\ ready \subseteq Peers
  /\ acceptor \in Peers \cup {"accepting", Nobody} /\ guest \in Peers \cup {Nobody}
  /\ announcer \in {"announcing", "done"} /\ mCtx \in BOOLEAN

HolderTypes ==
  /\ dial \in {"lookup", "wait", "connect", "handshake", "connected", "failed", "noInterface"}
  /\ sockets \subseteq Interfaces /\ readers \subseteq Interfaces
  /\ addr \in Addresses /\ pCtx \in BOOLEAN

LEMMA PortsAreAddresses ==
  /\ \A p \in 0..MaxListens : p \in Addresses /\ p + 1 \in Nat
  /\ Dead \in Addresses /\ Impostor \in Addresses
  BY DEF Addresses, Ports, Lies, Dead, Impostor

LEMMA MachineTypesStep ==
  ASSUME MachineTypes, LocalNext
  PROVE  MachineTypes'
<1> USE DEF MachineTypes, Peers, Nobody
<1>0. MachineTypes
  OBVIOUS
<1>1. CASE StartListen
  <2>1. port + 1 \in 0..MaxListens
    BY <1>1 DEF StartListen
  <2> QED
    BY <1>1, <2>1 DEF StartListen
<1>2. CASE ListenFails
  BY <1>0, <1>2 DEF ListenFails
<1>3. CASE TakeConnection
  BY <1>0, <1>3 DEF TakeConnection, CloseListener
<1>4. CASE ListenCancelled
  BY <1>0, <1>4 DEF ListenCancelled, CloseListener
<1>5. CASE ServerHandshake
  BY <1>0, <1>5 DEF ServerHandshake
<1>6. CASE ListenReturns
  BY <1>0, <1>6 DEF ListenReturns
<1>7. CASE AcceptFails
  BY <1>0, <1>7 DEF AcceptFails
<1>8. CASE AnnounceEnds
  BY <1>0, <1>8 DEF AnnounceEnds
<1>9. CASE EndMachineCtx
  BY <1>0, <1>9 DEF EndMachineCtx
<1>10. CASE Connects
  BY <1>0, <1>10 DEF Connects
<1>11. CASE ClientHandshakeFails
  BY <1>0, <1>11 DEF ClientHandshakeFails
<1>12. CASE Intrude
  BY <1>0, <1>12 DEF Intrude
<1>13. CASE LinkBreaks
  BY <1>0, <1>13 DEF LinkBreaks
<1>14. ASSUME NEW p \in Peers, Accepts(p) PROVE MachineTypes'
  BY <1>0, <1>14 DEF Accepts
<1>15. CASE UNCHANGED machineVars
  BY <1>15
<1> QED
  BY <1>1, <1>2, <1>3, <1>4, <1>5, <1>6, <1>7, <1>8, <1>9, <1>10, <1>11, <1>12, <1>13, <1>14, <1>15
     DEF LocalNext, ListenStep, AcceptStep, Announce,
         EndHolderCtx, DialStep, OpenSockets, DialGivesUp,
         TakeAddress, WaitCancelled, AddressTimeout,
         ClientHandshake, ReadStep, ReaderEnds, Arrival,
         Hears, Lose, Fault, Lie, InterfaceFails

LEMMA HolderTypesStep ==
  ASSUME HolderTypes, found \in Seq(Addresses), LocalNext
  PROVE  HolderTypes'
<1> USE DEF HolderTypes
<1>0. HolderTypes
  OBVIOUS
<1>1. CASE OpenSockets
  <2>1. PICK opened \in SUBSET Interfaces :
          /\ sockets' = opened /\ readers' = opened
          /\ dial' = IF opened = {} THEN "noInterface" ELSE "wait"
    BY <1>1 DEF OpenSockets
  <2> QED
    BY <1>1, <2>1 DEF OpenSockets
<1>2. CASE TakeAddress
  <2>1. Head(found) \in Addresses
    BY <1>2 DEF TakeAddress
  <2> QED
    BY <1>2, <2>1 DEF TakeAddress, CloseSockets
<1>3. CASE DialGivesUp
  BY <1>0, <1>3 DEF DialGivesUp
<1>4. CASE WaitCancelled
  BY <1>0, <1>4 DEF WaitCancelled, CloseSockets
<1>5. CASE Connects
  BY <1>0, <1>5 DEF Connects
<1>6. CASE AddressTimeout
  BY <1>0, <1>6 DEF AddressTimeout
<1>7. CASE ClientHandshake
  BY <1>0, <1>7 DEF ClientHandshake
<1>8. CASE ClientHandshakeFails
  BY <1>0, <1>8 DEF ClientHandshakeFails, AfterImpostor
<1>9. CASE EndHolderCtx
  BY <1>0, <1>9 DEF EndHolderCtx
<1>10. CASE ReadStep
  BY <1>0, <1>10 DEF ReadStep, ReaderEnds
<1>11. ASSUME NEW i, InterfaceFails(i) PROVE HolderTypes'
  BY <1>0, <1>11 DEF InterfaceFails
<1>12. ASSUME NEW i, NEW a, Hears(i, a) PROVE HolderTypes'
  BY <1>0, <1>12 DEF Hears
<1>13. CASE UNCHANGED <<dial, sockets, readers, addr, pCtx>>
  BY <1>13
<1> QED
  BY <1>1, <1>2, <1>3, <1>4, <1>5, <1>6, <1>7, <1>8, <1>9, <1>10, <1>11, <1>12, <1>13
     DEF LocalNext, ListenStep, StartListen, ListenFails,
         TakeConnection, ListenCancelled, ServerHandshake,
         ListenReturns, AcceptStep, AcceptFails, Accepts,
         Announce, AnnounceEnds, EndMachineCtx, DialStep,
         Arrival, Lose, Fault, Lie, Intrude,
         LinkBreaks

LEMMA NetTypesStep ==
  ASSUME LocalTypeOK, LocalNext
  PROVE  link' \in BOOLEAN /\ trouble' \in 0..MaxTrouble
<1> SUFFICES ASSUME link \in BOOLEAN, trouble \in 0..MaxTrouble, LocalNext
             PROVE  link' \in BOOLEAN /\ trouble' \in 0..MaxTrouble
  BY DEF LocalTypeOK
<1>1. CASE OpenSockets
  <2>1. PICK opened \in SUBSET Interfaces :
          /\ trouble + Cardinality(Interfaces \ opened) <= MaxTrouble
          /\ trouble' = trouble + Cardinality(Interfaces \ opened)
    BY <1>1 DEF OpenSockets
  <2>2. Cardinality(Interfaces \ opened) \in Nat
    BY FS_Subset, FS_CardinalityType
  <2>3. trouble' \in 0..MaxTrouble
    BY <2>1, <2>2
  <2> QED
    BY <1>1, <2>3 DEF OpenSockets
<1>2. CASE trouble < MaxTrouble /\ trouble' = trouble + 1 /\ link' \in {link, FALSE}
  <2>1. trouble' \in 0..MaxTrouble
    BY <1>2
  <2>2. link' \in BOOLEAN
    BY <1>2
  <2> QED
    BY <2>1, <2>2
<1>3. CASE trouble' = trouble /\ link' \in BOOLEAN
  BY <1>3
<1> QED
  BY <1>1, <1>2, <1>3
     DEF LocalNext, ListenStep, StartListen, ListenFails,
         TakeConnection, ListenCancelled, ServerHandshake,
         ListenReturns, CloseListener, AcceptStep,
         AcceptFails, Accepts, Announce, AnnounceEnds,
         EndMachineCtx, EndHolderCtx, DialStep, DialGivesUp,
         TakeAddress, WaitCancelled, Connects,
         AddressTimeout, ClientHandshake, ClientHandshakeFails,
         ReadStep, ReaderEnds, Arrival, Hears, Lose,
         Fault, Lie, Intrude, LinkBreaks,
         InterfaceFails

LEMMA FoundStep == LocalTypeOK /\ LocalNext => found' \in Seq(Addresses)
<1> SUFFICES ASSUME found \in Seq(Addresses), LocalNext PROVE found' \in Seq(Addresses)
  BY DEF LocalTypeOK
<1>1. CASE UNCHANGED found
  BY <1>1
<1>2. CASE OpenSockets
  BY <1>2 DEF OpenSockets
<1>3. ASSUME NEW i \in Interfaces, NEW a \in Addresses, Hears(i, a) PROVE found' \in Seq(Addresses)
  BY <1>3 DEF Hears
<1> QED
  BY <1>1, <1>2, <1>3
     DEF LocalNext, ListenStep, StartListen, ListenFails,
         TakeConnection, ListenCancelled, ServerHandshake,
         ListenReturns, AcceptStep, AcceptFails, Accepts,
         Announce, AnnounceEnds, EndMachineCtx,
         EndHolderCtx, DialStep, DialGivesUp, TakeAddress,
         WaitCancelled, Connects, AddressTimeout,
         ClientHandshake, ClientHandshakeFails, AfterImpostor,
         ReadStep, ReaderEnds, Arrival, Lose, Fault,
         Lie, Intrude, LinkBreaks, InterfaceFails

(* What is in the air is meant for a socket that is open.                  *)
OnAir == air \subseteq sockets \X Addresses /\ SocketsWhileWaiting

LEMMA AirStep ==
  ASSUME LocalTypeOK, OnAir, LocalNext
  PROVE  OnAir'
<1> USE DEF OnAir, SocketsWhileWaiting
<1>1. CASE UNCHANGED <<air, sockets, dial>>
  BY <1>1
<1>2. CASE Announce
  <2>1. port \in Addresses
    BY PortsAreAddresses DEF LocalTypeOK
  <2> QED
    BY <1>2, <2>1 DEF Announce
<1>3. CASE OpenSockets
  <2>1. air' = {} /\ (dial' # "wait" => sockets' = {})
    BY <1>3 DEF OpenSockets
  <2> QED
    BY <2>1
<1>4. CASE TakeAddress \/ WaitCancelled
  BY <1>4 DEF TakeAddress, WaitCancelled, CloseSockets
<1>5. CASE /\ UNCHANGED <<air, sockets>> /\ dial # "wait"
  BY <1>5
<1>6. CASE Arrival
  BY <1>6 DEF Arrival, Hears, Lose
<1>7. CASE Lie
  BY <1>7, PortsAreAddresses DEF Lie, Lies
<1>8. ASSUME NEW i \in Interfaces, InterfaceFails(i) PROVE OnAir'
  <2>1. sockets' = sockets \ {i} /\ air' = {m \in air : m[1] # i} /\ dial' = dial
    BY <1>8 DEF InterfaceFails
  <2>2. \A m \in air' : m \in sockets' \X Addresses
    BY <2>1
  <2> QED
    BY <2>1, <2>2
<1> QED
  BY <1>1, <1>2, <1>3, <1>4, <1>5, <1>6, <1>7, <1>8
     DEF LocalNext, ListenStep, StartListen, ListenFails,
         TakeConnection, ListenCancelled, ServerHandshake,
         ListenReturns, AcceptStep, AcceptFails, Accepts,
         AnnounceEnds, EndMachineCtx, EndHolderCtx,
         DialStep, DialGivesUp, Connects, AddressTimeout,
         ClientHandshake, ClientHandshakeFails, ReadStep,
         ReaderEnds, Fault, Intrude, LinkBreaks

(* Every step keeps the types, and opens and closes the sockets together.  *)
LEMMA LocalTypes ==
  ASSUME LocalTypeOK, SocketsWhileWaiting, LocalNext
  PROVE  LocalTypeOK' /\ SocketsWhileWaiting'
<1>1. OnAir
  BY DEF LocalTypeOK, OnAir
<1>2. MachineTypes /\ HolderTypes /\ found \in Seq(Addresses)
  BY DEF LocalTypeOK, MachineTypes, HolderTypes
<1>3. MachineTypes' /\ HolderTypes' /\ link' \in BOOLEAN /\ trouble' \in 0..MaxTrouble
  BY <1>2, MachineTypesStep, HolderTypesStep, NetTypesStep
<1>4. found' \in Seq(Addresses) /\ OnAir'
  BY <1>1, FoundStep, AirStep
<1> QED
  BY <1>3, <1>4 DEF MachineTypes, HolderTypes, OnAir, LocalTypeOK

(* What the machine's side keeps to, whatever arrives there.               *)
Machine == AnnouncesOnlyItsPort /\ StrandedOnlyByCancel /\ QueueIsOpen /\ GuestIsInside

LEMMA MachineStep ==
  ASSUME LocalTypeOK, Machine, LocalNext
  PROVE  Machine'
<1> USE DEF Machine, AnnouncesOnlyItsPort, StrandedOnlyByCancel,
            QueueIsOpen, GuestIsInside, Peers, Nobody
<1>1. CASE ListenStep
  BY <1>1 DEF ListenStep, StartListen, ListenFails,
              TakeConnection, ListenCancelled, ServerHandshake,
              ListenReturns, CloseListener, StopsAnnouncing
<1>2. CASE AcceptStep
  BY <1>2 DEF AcceptStep, AcceptFails, Accepts
<1>3. CASE Announce \/ AnnounceEnds \/ EndMachineCtx \/ EndHolderCtx
  BY <1>3 DEF Announce, AnnounceEnds, EndMachineCtx,
              EndHolderCtx
<1>4. CASE DialStep
  <2>1. CASE Connects
    <3>1. addr = port => listen = "accepting"
      BY <2>1 DEF Connects, Answers, Impostor, LocalTypeOK
    <3> QED
      BY <2>1, <3>1 DEF Connects
  <2>2. CASE ClientHandshakeFails
    BY <2>2 DEF ClientHandshakeFails
  <2> QED
    BY <1>4, <2>1, <2>2 DEF DialStep, OpenSockets, DialGivesUp,
                            TakeAddress, WaitCancelled,
                            AddressTimeout, ClientHandshake
<1>5. CASE ReadStep \/ Arrival
  <2>1. UNCHANGED <<machineVars, dial, link>>
    BY <1>5 DEF ReadStep, ReaderEnds, Arrival, Hears, Lose
  <2> QED
    BY <2>1
<1>6. CASE Fault
  BY <1>6 DEF Fault, Lie, Intrude, LinkBreaks,
              InterfaceFails
<1> QED
  BY <1>1, <1>2, <1>3, <1>4, <1>5, <1>6 DEF LocalNext

(* The key holder's connection is passed on, and not lost.                 *)
LEMMA ConnectionStep ==
  ASSUME LocalTypeOK, Machine, InOnePlace, LocalNext
  PROVE  InOnePlace'
<1> USE DEF InOnePlace, Machine, QueueIsOpen, GuestIsInside,
            StrandedOnlyByCancel, Peers, Nobody
<1>0. link \in BOOLEAN /\ ready \subseteq Peers
  BY DEF LocalTypeOK
<1>1. CASE ListenStep
  <2>1. CASE StartListen
    BY <1>0, <2>1 DEF StartListen
  <2>2. CASE TakeConnection
    BY <1>0, <2>2 DEF TakeConnection, CloseListener
  <2>3. CASE ListenCancelled
    BY <1>0, <2>3 DEF ListenCancelled, CloseListener
  <2>4. CASE ServerHandshake
    BY <1>0, <2>4 DEF ServerHandshake
  <2> QED
    BY <1>0, <1>1, <2>1, <2>2, <2>3, <2>4
       DEF ListenStep, ListenFails, ListenReturns
<1>2. CASE AcceptStep
  BY <1>0, <1>2 DEF AcceptStep, AcceptFails, Accepts
<1>3. CASE Announce \/ AnnounceEnds \/ EndMachineCtx \/ EndHolderCtx
  BY <1>3 DEF Announce, AnnounceEnds, EndMachineCtx,
              EndHolderCtx
<1>4. CASE DialStep
  <2>1. CASE Connects
    BY <2>1 DEF Connects
  <2>2. CASE ClientHandshakeFails
    BY <2>2 DEF ClientHandshakeFails, Stranded
  <2> QED
    BY <1>4, <2>1, <2>2 DEF DialStep, OpenSockets, DialGivesUp,
                            TakeAddress, WaitCancelled,
                            AddressTimeout, ClientHandshake
<1>5. CASE ReadStep \/ Arrival
  <2>1. UNCHANGED <<machineVars, dial, link>>
    BY <1>5 DEF ReadStep, ReaderEnds, Arrival, Hears, Lose
  <2> QED
    BY <2>1
<1>6. CASE Fault
  BY <1>6 DEF Fault, Lie, Intrude, LinkBreaks,
              InterfaceFails
<1> QED
  BY <1>1, <1>2, <1>3, <1>4, <1>5, <1>6 DEF LocalNext

(* A reader that has sent its address has ended.                           *)
LEMMA ReadersStep ==
  ASSUME LocalTypeOK, ReadersNeverBlock, LocalNext
  PROVE  ReadersNeverBlock'
<1> SUFFICES ASSUME dial' = "wait"
             PROVE  Len(found') + Cardinality(readers') <= Cardinality(Interfaces)
  BY DEF ReadersNeverBlock
<1>0. Len(found) \in Nat /\ IsFiniteSet(readers) /\ Cardinality(readers) \in Nat
  BY FS_Subset, FS_CardinalityType DEF LocalTypeOK
<1>1. CASE OpenSockets
  <2>1. readers' \in SUBSET Interfaces /\ found' = <<>>
    BY <1>1 DEF OpenSockets
  <2>2. Cardinality(readers') <= Cardinality(Interfaces) /\ Cardinality(readers') \in Nat
    BY <2>1, FS_Subset, FS_CardinalityType
  <2>3. Len(found') = 0
    BY <2>1
  <2> QED
    BY <2>2, <2>3
<1>2. ASSUME NEW i \in readers, dial = "wait", readers' = readers \ {i},
             Len(found') \in {Len(found), Len(found) + 1}
      PROVE  Len(found') + Cardinality(readers') <= Cardinality(Interfaces)
  <2>1. Cardinality(readers') = Cardinality(readers) - 1
    BY <1>0, <1>2, FS_RemoveElement
  <2>2. Cardinality(Interfaces) \in Nat
    BY FS_CardinalityType
  <2> QED
    BY <1>0, <1>2, <2>1, <2>2 DEF ReadersNeverBlock
<1>3. CASE ReadStep
  BY <1>2, <1>3 DEF ReadStep, ReaderEnds
<1>4. CASE Arrival
  <2>1. ASSUME NEW i \in Interfaces, NEW a \in Addresses, Hears(i, a)
        PROVE  Len(found') = Len(found) + 1
    BY <2>1 DEF Hears, LocalTypeOK
  <2> QED
    BY <1>2, <1>4, <2>1
       DEF Arrival, Hears, Lose, ReadersNeverBlock
<1>5. CASE ~OpenSockets /\ ~ReadStep /\ ~Arrival
  BY <1>5 DEF ReadersNeverBlock, LocalNext, AcceptStep,
                            AcceptFails, Accepts, ListenStep,
                            StartListen, ListenFails,
                            TakeConnection, ListenCancelled,
                            ServerHandshake, ListenReturns,
                            Announce, AnnounceEnds, EndMachineCtx,
                            EndHolderCtx, DialStep, DialGivesUp,
                            TakeAddress, WaitCancelled, Connects,
                            AddressTimeout, ClientHandshake,
                            ClientHandshakeFails, AfterImpostor,
                            Fault, Lie, Intrude, LinkBreaks,
                            InterfaceFails
<1> QED
  BY <1>1, <1>3, <1>4, <1>5

LEMMA LiesStep == LiesDoNotEndTheDial /\ LocalNext => LiesDoNotEndTheDial'
  BY DEF LiesDoNotEndTheDial, LocalNext, AcceptStep, AcceptFails,
         Accepts, ListenStep, StartListen, ListenFails,
         TakeConnection, ListenCancelled, ServerHandshake,
         ListenReturns, Announce, AnnounceEnds,
         EndMachineCtx, EndHolderCtx, DialStep, OpenSockets,
         DialGivesUp, TakeAddress, WaitCancelled, Connects,
         AddressTimeout, ClientHandshake, ClientHandshakeFails,
         AfterImpostor, ReadStep, ReaderEnds, Arrival,
         Hears, Lose, Fault, Lie, Intrude,
         LinkBreaks, InterfaceFails

(* The local leg of both sides keeps its invariant, whatever is announced, *)
(* whoever connects and wherever either ctx ends.                          *)
THEOREM LocalInvariant == LocalSpec => []LocalInductive
<1> DEFINE Parts == /\ LocalTypeOK /\ SocketsWhileWaiting /\ Machine /\ InOnePlace
                    /\ ReadersNeverBlock /\ LiesDoNotEndTheDial
<1>1. LocalInductive <=> Parts
  BY PlacesCounted DEF LocalInductive, LocalInv, Machine
<1>2. LocalInit => Parts
  <2> SUFFICES ASSUME LocalInit PROVE Parts
    OBVIOUS
  <2>1. LocalTypeOK
    <3>1. 0 \in 0..MaxListens /\ 0 \in 0..MaxTrouble /\ Dead \in Addresses
      BY PortsAreAddresses
    <3>2. <<>> \in Seq(Addresses)
      OBVIOUS
    <3>3. MachineTypes /\ HolderTypes
      BY <3>1 DEF LocalInit, MachineTypes, HolderTypes, Nobody
    <3>4. air \subseteq sockets \X Addresses /\ link \in BOOLEAN /\ trouble \in 0..MaxTrouble
      BY <3>1 DEF LocalInit
    <3> QED
      BY <3>2, <3>3, <3>4 DEF LocalInit, LocalTypeOK, MachineTypes, HolderTypes
  <2>2. SocketsWhileWaiting /\ Machine /\ InOnePlace /\ LiesDoNotEndTheDial /\ ReadersNeverBlock
    BY DEF LocalInit, SocketsWhileWaiting, Machine, AnnouncesOnlyItsPort,
           StrandedOnlyByCancel, QueueIsOpen, GuestIsInside, InOnePlace,
           LiesDoNotEndTheDial, ReadersNeverBlock, Peers,
           Nobody
  <2> QED
    BY <2>1, <2>2
<1>3. Parts /\ [LocalNext]_localVars => Parts'
  <2> SUFFICES ASSUME Parts, [LocalNext]_localVars PROVE Parts'
    OBVIOUS
  <2>1. CASE LocalNext
    BY <2>1, LocalTypes, MachineStep, ConnectionStep, ReadersStep, LiesStep
  <2>2. CASE UNCHANGED localVars
    BY <2>2 DEF localVars, LocalTypeOK, SocketsWhileWaiting, Machine,
                AnnouncesOnlyItsPort, StrandedOnlyByCancel, QueueIsOpen,
                GuestIsInside, InOnePlace, LiesDoNotEndTheDial,
                ReadersNeverBlock
  <2> QED
    BY <2>1, <2>2
<1> HIDE DEF Parts
<1> QED
  BY <1>1, <1>2, <1>3, PTL DEF LocalSpec

(* So Listen announces only a port it is waiting on (announceLocally), a   *)
(* lie does not end Dial, and the key holder's connection is in one place: *)
(* in the queue, on its way from Accept (acceptWithContext), or served; it *)
(* is stranded only by a Listen that was cancelled, and no reader of       *)
(* waitForAnnouncement blocks on its channel.                              *)
THEOREM LocalLegIsSound == LocalSpec => []LocalInv
<1>1. LocalInductive => LocalInv
  BY DEF LocalInductive
<1> QED
  BY <1>1, LocalInvariant, PTL
=============================================================================
