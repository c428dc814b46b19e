----------------------------- MODULE RelayProofs -----------------------------
(***************************************************************************)
(* Theorems about the two sides of the relay transport.  RelayDial, for    *)
(* any budget, any answers of the discovery server and any number of       *)
(* addresses: no session is lost track of, a server that says "wait" is    *)
(* not asked too soon, and a dial of ninety seconds asks at most ten       *)
(* times.  RelayListen, for any pool of relays and any number of faults:   *)
(* an attempt keeps its registration while a session needs it, and nothing *)
(* of it survives into the pause before the next.                          *)
(***************************************************************************)
EXTENDS RelayDial, RelayListen, TLAPS


(* Every wait of the schedule is at least the shortest Soonest counts on.  *)
LEMMA Delays ==
  ASSUME NEW n \in Nat, NEW w \in dialRetryDelay(n)
  PROVE  w \in Nat /\ Soonest(n) \in Nat /\ Soonest(n) + w >= Soonest(n + 1)
<1> USE DialAssumption DEF dialRetryDelay, Soonest, dialRetrySchedule, dialRetryMax, Least
<1>1. CASE n = 0
  BY <1>1
<1>2. CASE n = 1
  BY <1>2
<1>3. CASE n = 2
  BY <1>3
<1>4. CASE n = 3
  BY <1>4
<1>5. CASE n >= 4
  BY <1>5
<1> QED
  BY <1>1, <1>2, <1>3, <1>4, <1>5

(* A Retry-After within its bounds never makes the wait shorter than the   *)
(* backoff, nor shorter than what was asked for and still fits the dial.   *)
LEMMA LimitedWaits ==
  ASSUME NEW backoff \in Nat, NEW told \in Nat, NEW remaining \in Nat
  PROVE  /\ LimitedWait(backoff, told, remaining) \in Nat
         /\ LimitedWait(backoff, told, remaining) >= backoff
         /\ LimitedWait(backoff, told, remaining)
              >= Least(Least(told, dialRetryAfterMax), remaining)
  BY DEF LimitedWait, Least, Greatest, dialRetryAfterMax

(* The clock, the wait and the deadline after a 429 received at "at".      *)
LEMMA LimitedClock ==
  ASSUME NEW at \in Nat, NEW end \in Nat, at <= end,
         NEW told \in Nat, NEW w \in Nat,
         w >= Least(Least(told, dialRetryAfterMax), end - at)
  PROVE  /\ at + Least(told, dialRetryAfterMax) \in Nat
         /\ at + w >= Least(at + Least(told, dialRetryAfterMax), end)
  BY DEF Least, dialRetryAfterMax

LEMMA Remains == ASSUME NEW at \in Nat, NEW end \in Nat, at <= end PROVE end - at \in Nat
  OBVIOUS

LEMMA Later ==
  ASSUME NEW a \in Nat, NEW b \in Nat
  PROVE  /\ Greatest(a, b) \in Nat /\ a <= Greatest(a, b)
         /\ (Greatest(a, b) = a \/ Greatest(a, b) = b)
  BY DEF Greatest

(* The dial starts with nothing open.                                      *)
LEMMA InitEstablishes == Init => IInv
<1> SUFFICES ASSUME Init PROVE IInv
  OBVIOUS
<1>1. TypeOK /\ SessionsAccounted
  BY DialAssumption DEF Init, TypeOK, SessionsAccounted, Held
<1>2. EndsInTime /\ RetryAfterHonoured /\ WaitsLongEnough
  BY DialAssumption DEF Init, EndsInTime, RetryAfterHonoured, WaitsLongEnough, CallTimeout, JoinTimeout, defaultRelayTimeout
<1>3. Paced
  BY DialAssumption DEF Init, Paced, Soonest
<1> QED
  BY <1>1, <1>2, <1>3 DEF IInv

USE DEF timeVars, askVars, raceVars, channel, lateVars

(* A failed attempt waits for one of the schedule's delays.                *)
LEMMA Failed ==
  ASSUME TypeOK, AttemptFails
  PROVE  /\ wait' \in Nat /\ Soonest(retry) + wait' >= Soonest(retry + 1)
         /\ dial' = "wait" /\ direct' = 0 /\ relays' = 0
         /\ retry' = retry /\ lookups' = lookups
  BY Delays DEF AttemptFails, TypeOK

(* The clock after a call that looks at the ctx.                           *)
LEMMA Elapsed ==
  ASSUME TypeOK, now <= deadline, NEW d \in Durations, Elapse(d)
  PROVE  now' \in Nat /\ now <= now' /\ now' <= deadline /\ deadline' = deadline
<1>1. d \in Nat /\ now \in Nat /\ deadline \in Nat
  BY DialAssumption DEF TypeOK, CallTimeout
<1> QED
  BY <1>1 DEF Elapse, Least, Greatest

(* What a 429 sets.                                                        *)
LEMMA Limited ==
  ASSUME TypeOK, LookupLimited
  PROVE  /\ now' \in Nat /\ now <= now' /\ now' <= deadline /\ deadline' = deadline
         /\ wait' \in Nat /\ resume' \in Nat
         /\ Soonest(retry) + wait' >= Soonest(retry + 1)
         /\ now' + wait' >= Least(resume', deadline)
<1>1. PICK d \in Durations, told \in RetryAfters, backoff \in dialRetryDelay(retry) :
        /\ Elapse(d)
        /\ wait' = LimitedWait(backoff, told, deadline - now')
        /\ resume' = now' + Least(told, dialRetryAfterMax)
  BY DEF LookupLimited
<1>2. now' \in Nat /\ now <= now' /\ now' <= deadline /\ deadline' = deadline
  <2>1. now <= deadline
    BY DEF LookupLimited, TypeOK
  <2> QED
    BY <1>1, <2>1, Elapsed
<1>3. deadline \in Nat /\ retry \in Nat /\ told \in Nat
  BY DialAssumption DEF TypeOK
<1>4. backoff \in Nat /\ Soonest(retry) \in Nat /\ Soonest(retry) + backoff >= Soonest(retry + 1)
  BY <1>3, Delays
<1>5. Soonest(retry + 1) \in Int
  BY <1>3 DEF Soonest
<1>6. deadline - now' \in Nat
  BY <1>2, <1>3, Remains
<1>7. /\ wait' \in Nat /\ wait' >= backoff
      /\ wait' >= Least(Least(told, dialRetryAfterMax), deadline - now')
  BY <1>1, <1>3, <1>4, <1>6, LimitedWaits
<1>8. resume' \in Nat /\ now' + wait' >= Least(resume', deadline)
  BY <1>1, <1>2, <1>3, <1>7, LimitedClock
<1> QED
  BY <1>2, <1>4, <1>5, <1>7, <1>8

(* The clock when the ctx has cut the wait short.                          *)
LEMMA GivenUp ==
  ASSUME TypeOK, GiveUp
  PROVE  now' \in Nat /\ now <= now' /\ (now' = now \/ now' = deadline) /\ deadline' = deadline
<1>1. now \in Nat /\ deadline \in Nat
  BY DialAssumption DEF TypeOK
<1> QED
  BY <1>1, Later DEF GiveUp, Woken

(* Every step keeps the counts, and the conservation of goroutines.        *)
LEMMA TypeStep == TypeOK /\ SessionsAccounted /\ Next => TypeOK'
<1> SUFFICES ASSUME TypeOK, SessionsAccounted, Next PROVE TypeOK'
  OBVIOUS
<1> USE DialAssumption DEF TypeOK, SessionsAccounted, Held, Least, Greatest, CallTimeout, JoinTimeout, defaultRelayTimeout
<1>1. CASE LookupFails
  <2>1. AttemptFails
    BY <1>1 DEF LookupFails
  <2> QED
    BY <1>1, <2>1, Failed DEF LookupFails, Elapse
<1>2. CASE LookupLimited
  BY <1>2, Limited DEF LookupLimited
<1>3. CASE LookupFinds
  BY <1>3 DEF LookupFinds, Elapse
<1>4. CASE DirectFails
  BY <1>4 DEF DirectFails, Elapse
<1>5. CASE DirectConnects
  BY <1>5 DEF DirectConnects, Elapse
<1>6. CASE NoDirectLeft
  <2>1. AttemptFails
    BY <1>6 DEF NoDirectLeft
  <2> QED
    BY <1>6, <2>1, Failed DEF NoDirectLeft
<1>7. CASE StartRace
  BY <1>7 DEF StartRace
<1>8. CASE JoinEnds
  BY <1>8 DEF JoinEnds
<1>9. CASE RaceWon
  BY <1>9 DEF RaceWon, ElapseRegardless, Drains
<1>10. CASE RaceLost
  <2>1. AttemptFails
    BY <1>10 DEF RaceLost
  <2> QED
    BY <1>10, <2>1, Failed DEF RaceLost, ElapseRegardless
<1>11. CASE HandshakeSucceeds
  BY <1>11 DEF HandshakeSucceeds, ElapseRegardless
<1>12. CASE HandshakeFails
  <2>1. AttemptFails
    BY <1>12 DEF HandshakeFails
  <2> QED
    BY <1>12, <2>1, Failed DEF HandshakeFails, ElapseRegardless, ClosesRaw
<1>13. CASE Retry
  BY <1>13 DEF Retry
<1>14. CASE GiveUp
  BY <1>14, GivenUp DEF GiveUp
<1>15. CASE LateJoinEnds
  BY <1>15 DEF LateJoinEnds
<1>16. CASE DrainCloses
  BY <1>16 DEF DrainCloses
<1>17. CASE Cancel
  BY <1>17 DEF Cancel
<1> QED
  BY <1>1, <1>2, <1>3, <1>4, <1>5, <1>6, <1>7, <1>8, <1>9, <1>10, <1>11, <1>12, <1>13, <1>14, <1>15, <1>16, <1>17
     DEF Next, DialStep

(* Every step keeps track of every open connection.                        *)
LEMMA AccountStep == TypeOK /\ SessionsAccounted /\ Next => SessionsAccounted'
<1> SUFFICES ASSUME TypeOK, SessionsAccounted, Next PROVE SessionsAccounted'
  OBVIOUS
<1> USE DialAssumption DEF TypeOK, SessionsAccounted, Held
<1>1. CASE LookupFails
  BY <1>1 DEF LookupFails, Elapse, AttemptFails
<1>2. CASE LookupLimited
  BY <1>2 DEF LookupLimited, Elapse, LimitedWait
<1>3. CASE LookupFinds
  BY <1>3 DEF LookupFinds, Elapse
<1>4. CASE DirectFails
  BY <1>4 DEF DirectFails, Elapse
<1>5. CASE DirectConnects
  BY <1>5 DEF DirectConnects, Elapse
<1>6. CASE NoDirectLeft
  BY <1>6 DEF NoDirectLeft, AttemptFails
<1>7. CASE StartRace
  BY <1>7 DEF StartRace
<1>8. CASE JoinEnds
  BY <1>8 DEF JoinEnds
<1>9. CASE RaceWon
  BY <1>9 DEF RaceWon, ElapseRegardless, Drains
<1>10. CASE RaceLost
  BY <1>10 DEF RaceLost, ElapseRegardless, AttemptFails
<1>11. CASE HandshakeSucceeds
  BY <1>11 DEF HandshakeSucceeds, ElapseRegardless
<1>12. CASE HandshakeFails
  BY <1>12 DEF HandshakeFails, ElapseRegardless, AttemptFails, ClosesRaw
<1>13. CASE Retry
  BY <1>13 DEF Retry
<1>14. CASE GiveUp
  BY <1>14 DEF GiveUp
<1>15. CASE LateJoinEnds
  BY <1>15 DEF LateJoinEnds
<1>16. CASE DrainCloses
  BY <1>16 DEF DrainCloses
<1>17. CASE Cancel
  BY <1>17 DEF Cancel
<1> QED
  BY <1>1, <1>2, <1>3, <1>4, <1>5, <1>6, <1>7, <1>8, <1>9, <1>10, <1>11, <1>12, <1>13, <1>14, <1>15, <1>16, <1>17
     DEF Next, DialStep

(* Every step keeps to the deadline.                                       *)
LEMMA TimeStep == TypeOK /\ EndsInTime /\ Next => EndsInTime'
<1> SUFFICES ASSUME TypeOK, EndsInTime, Next PROVE EndsInTime'
  OBVIOUS
<1> USE DialAssumption DEF TypeOK, EndsInTime, Least, Greatest, CallTimeout, JoinTimeout, defaultRelayTimeout
<1>1. CASE LookupFails
  <2>1. AttemptFails
    BY <1>1 DEF LookupFails
  <2> QED
    BY <1>1, <2>1, Failed DEF LookupFails, Elapse
<1>2. CASE LookupLimited
  BY <1>2, Limited DEF LookupLimited
<1>3. CASE LookupFinds
  BY <1>3 DEF LookupFinds, Elapse
<1>4. CASE DirectFails
  BY <1>4 DEF DirectFails, Elapse
<1>5. CASE DirectConnects
  BY <1>5 DEF DirectConnects, Elapse
<1>6. CASE NoDirectLeft
  <2>1. AttemptFails
    BY <1>6 DEF NoDirectLeft
  <2> QED
    BY <1>6, <2>1, Failed DEF NoDirectLeft
<1>7. CASE StartRace
  BY <1>7 DEF StartRace
<1>8. CASE JoinEnds
  BY <1>8 DEF JoinEnds
<1>9. CASE RaceWon
  BY <1>9 DEF RaceWon, ElapseRegardless, Drains
<1>10. CASE RaceLost
  <2>1. AttemptFails
    BY <1>10 DEF RaceLost
  <2> QED
    BY <1>10, <2>1, Failed DEF RaceLost, ElapseRegardless
<1>11. CASE HandshakeSucceeds
  BY <1>11 DEF HandshakeSucceeds, ElapseRegardless
<1>12. CASE HandshakeFails
  <2>1. AttemptFails
    BY <1>12 DEF HandshakeFails
  <2> QED
    BY <1>12, <2>1, Failed DEF HandshakeFails, ElapseRegardless, ClosesRaw
<1>13. CASE Retry
  BY <1>13 DEF Retry
<1>14. CASE GiveUp
  BY <1>14, GivenUp DEF GiveUp
<1>15. CASE LateJoinEnds
  BY <1>15 DEF LateJoinEnds
<1>16. CASE DrainCloses
  BY <1>16 DEF DrainCloses
<1>17. CASE Cancel
  BY <1>17 DEF Cancel
<1> QED
  BY <1>1, <1>2, <1>3, <1>4, <1>5, <1>6, <1>7, <1>8, <1>9, <1>10, <1>11, <1>12, <1>13, <1>14, <1>15, <1>16, <1>17
     DEF Next, DialStep

(* The shortest schedule is a number, and grows.                           *)
LEMMA SoonestGrows ==
  ASSUME NEW n \in Nat
  PROVE  Soonest(n) \in Nat /\ Soonest(n) <= Soonest(n + 1)
  BY DEF Soonest

(* Waiting from a later start ends later.                                  *)
LEMMA WaitedFrom ==
  ASSUME NEW a \in Nat, NEW b \in Nat, NEW w \in Nat, NEW soon \in Nat, NEW next \in Nat,
         a <= b, soon <= a, soon + w >= next
  PROVE  b + w >= next /\ soon <= b
  OBVIOUS

(* The clock never goes back.                                              *)
LEMMA ClockGrows ==
  ASSUME TypeOK, EndsInTime, Next
  PROVE  now' \in Nat /\ now <= now'
<1> USE DialAssumption DEF TypeOK, CallTimeout, JoinTimeout, defaultRelayTimeout
<1>1. CASE LookupFails
  BY <1>1, Elapsed DEF LookupFails, EndsInTime
<1>2. CASE LookupLimited
  BY <1>2, Limited
<1>3. CASE LookupFinds
  BY <1>3, Elapsed DEF LookupFinds, EndsInTime
<1>4. CASE DirectFails
  BY <1>4, Elapsed DEF DirectFails, EndsInTime
<1>5. CASE DirectConnects
  BY <1>5, Elapsed DEF DirectConnects, EndsInTime
<1>6. CASE NoDirectLeft
  BY <1>6 DEF NoDirectLeft, AttemptFails
<1>7. CASE StartRace
  BY <1>7 DEF StartRace
<1>8. CASE JoinEnds
  BY <1>8 DEF JoinEnds
<1>9. CASE RaceWon
  BY <1>9 DEF RaceWon, ElapseRegardless, Drains
<1>10. CASE RaceLost
  BY <1>10 DEF RaceLost, ElapseRegardless, AttemptFails
<1>11. CASE HandshakeSucceeds
  BY <1>11 DEF HandshakeSucceeds, ElapseRegardless
<1>12. CASE HandshakeFails
  BY <1>12 DEF HandshakeFails, ElapseRegardless, AttemptFails, ClosesRaw
<1>13. CASE Retry
  BY <1>13 DEF Retry
<1>14. CASE GiveUp
  BY <1>14, GivenUp
<1>15. CASE LateJoinEnds
  BY <1>15 DEF LateJoinEnds
<1>16. CASE DrainCloses
  BY <1>16 DEF DrainCloses
<1>17. CASE Cancel
  BY <1>17 DEF Cancel
<1> QED
  BY <1>1, <1>2, <1>3, <1>4, <1>5, <1>6, <1>7, <1>8, <1>9, <1>10, <1>11, <1>12, <1>13, <1>14, <1>15, <1>16, <1>17
     DEF Next, DialStep

(* No step asks the server too soon.                                       *)
LEMMA WaitStep == TypeOK /\ EndsInTime /\ RetryAfterHonoured /\ WaitsLongEnough /\ Next => (RetryAfterHonoured /\ WaitsLongEnough)'
<1> SUFFICES ASSUME TypeOK, EndsInTime, RetryAfterHonoured, WaitsLongEnough, Next PROVE (RetryAfterHonoured /\ WaitsLongEnough)'
  OBVIOUS
<1> USE DialAssumption DEF TypeOK, RetryAfterHonoured, WaitsLongEnough
<1>1. CASE LookupFails
  <2>1. AttemptFails
    BY <1>1 DEF LookupFails
  <2> QED
    BY <1>1, <2>1, Failed, ClockGrows DEF LookupFails, Elapse, Least
<1>2. CASE LookupLimited
  BY <1>2, Limited DEF LookupLimited
<1>3. CASE LookupFinds
  BY <1>3, ClockGrows DEF LookupFinds
<1>4. CASE DirectFails
  BY <1>4, ClockGrows DEF DirectFails
<1>5. CASE DirectConnects
  BY <1>5, ClockGrows DEF DirectConnects
<1>6. CASE NoDirectLeft
  <2>1. AttemptFails
    BY <1>6 DEF NoDirectLeft
  <2> QED
    BY <1>6, <2>1, Failed, ClockGrows DEF NoDirectLeft, Least
<1>7. CASE StartRace
  BY <1>7 DEF StartRace
<1>8. CASE JoinEnds
  BY <1>8 DEF JoinEnds
<1>9. CASE RaceWon
  BY <1>9, ClockGrows DEF RaceWon
<1>10. CASE RaceLost
  <2>1. AttemptFails
    BY <1>10 DEF RaceLost
  <2> QED
    BY <1>10, <2>1, Failed, ClockGrows DEF RaceLost, ElapseRegardless, Least
<1>11. CASE HandshakeSucceeds
  BY <1>11, ClockGrows DEF HandshakeSucceeds
<1>12. CASE HandshakeFails
  <2>1. AttemptFails
    BY <1>12 DEF HandshakeFails
  <2> QED
    BY <1>12, <2>1, Failed, ClockGrows DEF HandshakeFails, ElapseRegardless, Least
<1>13. CASE Retry
  BY <1>13 DEF Retry, Least
<1>14. CASE GiveUp
  BY <1>14 DEF GiveUp
<1>15. CASE LateJoinEnds
  BY <1>15 DEF LateJoinEnds
<1>16. CASE DrainCloses
  BY <1>16 DEF DrainCloses
<1>17. CASE Cancel
  BY <1>17 DEF Cancel, Least
<1> QED
  BY <1>1, <1>2, <1>3, <1>4, <1>5, <1>6, <1>7, <1>8, <1>9, <1>10, <1>11, <1>12, <1>13, <1>14, <1>15, <1>16, <1>17
     DEF Next, DialStep

(* No step is ahead of the shortest schedule.                              *)
LEMMA PacedStep == TypeOK /\ EndsInTime /\ Paced /\ Next => Paced'
<1> SUFFICES ASSUME TypeOK, EndsInTime, Paced, Next PROVE Paced'
  OBVIOUS
<1> USE DialAssumption DEF Paced
<1>a. /\ now \in Nat /\ wait \in Nat /\ retry \in Nat /\ deadline \in 0..Budget
      /\ Soonest(retry) \in Nat /\ Soonest(retry + 1) \in Nat
      /\ Soonest(retry) <= now
  BY SoonestGrows DEF TypeOK
<1>b. now' \in Nat /\ now <= now' /\ Soonest(retry) <= now'
  <2>1. now' \in Nat /\ now <= now'
    BY ClockGrows
  <2> QED
    BY <2>1, <1>a
<1>1. CASE LookupFails
  <2>1. AttemptFails
    BY <1>1 DEF LookupFails
  <2>2. wait' \in Nat /\ Soonest(retry) + wait' >= Soonest(retry + 1)
    BY <2>1, Failed
  <2>3. now' + wait' >= Soonest(retry + 1)
    BY <2>2, <1>a, <1>b, WaitedFrom
  <2> QED
    BY <2>1, <2>3, <1>a, <1>b DEF AttemptFails
<1>2. CASE LookupLimited
  <2>1. wait' \in Nat /\ Soonest(retry) + wait' >= Soonest(retry + 1)
    BY <1>2, Limited
  <2>2. now' + wait' >= Soonest(retry + 1)
    BY <2>1, <1>a, <1>b, WaitedFrom
  <2> QED
    BY <1>2, <2>2, <1>a, <1>b DEF LookupLimited
<1>3. CASE LookupFinds
  BY <1>3, <1>a, <1>b DEF LookupFinds
<1>4. CASE DirectFails
  BY <1>4, <1>a, <1>b DEF DirectFails
<1>5. CASE DirectConnects
  BY <1>5, <1>a, <1>b DEF DirectConnects
<1>6. CASE NoDirectLeft
  <2>1. AttemptFails
    BY <1>6 DEF NoDirectLeft
  <2>2. wait' \in Nat /\ Soonest(retry) + wait' >= Soonest(retry + 1)
    BY <2>1, Failed
  <2>3. now' + wait' >= Soonest(retry + 1)
    BY <2>2, <1>a, <1>b, WaitedFrom
  <2> QED
    BY <2>1, <2>3, <1>a, <1>b DEF AttemptFails
<1>7. CASE StartRace
  BY <1>7, <1>a, <1>b DEF StartRace
<1>8. CASE JoinEnds
  BY <1>8, <1>a, <1>b DEF JoinEnds
<1>9. CASE RaceWon
  BY <1>9, <1>a, <1>b DEF RaceWon
<1>10. CASE RaceLost
  <2>1. AttemptFails
    BY <1>10 DEF RaceLost
  <2>2. wait' \in Nat /\ Soonest(retry) + wait' >= Soonest(retry + 1)
    BY <2>1, Failed
  <2>3. now' + wait' >= Soonest(retry + 1)
    BY <2>2, <1>a, <1>b, WaitedFrom
  <2> QED
    BY <2>1, <2>3, <1>a, <1>b DEF AttemptFails
<1>11. CASE HandshakeSucceeds
  BY <1>11, <1>a, <1>b DEF HandshakeSucceeds
<1>12. CASE HandshakeFails
  <2>1. AttemptFails
    BY <1>12 DEF HandshakeFails
  <2>2. wait' \in Nat /\ Soonest(retry) + wait' >= Soonest(retry + 1)
    BY <2>1, Failed
  <2>3. now' + wait' >= Soonest(retry + 1)
    BY <2>2, <1>a, <1>b, WaitedFrom
  <2> QED
    BY <2>1, <2>3, <1>a, <1>b DEF AttemptFails
<1>13. CASE Retry
  <2>1. now + wait < Budget
    BY <1>13 DEF Retry, TypeOK
  <2> QED
    BY <1>13, <2>1, <1>a DEF Retry, TypeOK
<1>14. CASE GiveUp
  BY <1>14, <1>a, <1>b DEF GiveUp
<1>15. CASE LateJoinEnds
  BY <1>15, <1>a, <1>b DEF LateJoinEnds
<1>16. CASE DrainCloses
  BY <1>16, <1>a, <1>b DEF DrainCloses
<1>17. CASE Cancel
  BY <1>17, <1>a, <1>b DEF Cancel
<1> QED
  BY <1>1, <1>2, <1>3, <1>4, <1>5, <1>6, <1>7, <1>8, <1>9, <1>10, <1>11, <1>12, <1>13, <1>14, <1>15, <1>16, <1>17
     DEF Next, DialStep

(* The inductive invariant holds of every dial.                            *)
THEOREM DialInvariant == Spec => []IInv
<1>1. IInv /\ [Next]_vars => IInv'
  <2> SUFFICES ASSUME IInv, [Next]_vars PROVE IInv'
    OBVIOUS
  <2>1. CASE Next
    BY <2>1, TypeStep, AccountStep, TimeStep, WaitStep, PacedStep DEF IInv
  <2>2. CASE UNCHANGED vars
    BY <2>2 DEF vars, IInv, TypeOK, SessionsAccounted, Held, EndsInTime, RetryAfterHonoured,
                WaitsLongEnough, Paced
  <2> QED
    BY <2>1, <2>2
<1> QED
  BY <1>1, InitEstablishes, PTL DEF Spec

(* dialRelay's loop with boundedRetryAfter: a discovery server that        *)
(* answered 429 is left alone for as long as it said.                      *)
THEOREM ServerIsLeftAlone == Spec => []RetryAfterHonoured
  BY DialInvariant, PTL DEF IInv

(* dialRelay's loop with dialRetryDelay: ten lookups in ninety seconds,    *)
(* which is what its comment promises.                                     *)
THEOREM TenLookups ==
  ASSUME Budget <= 900, MaxLookups >= 10
  PROVE  Spec => []AsksSparingly
<1>1. IInv => AsksSparingly
  <2> SUFFICES ASSUME IInv PROVE AsksSparingly
    OBVIOUS
  <2>1. retry \in Nat /\ Soonest(retry) <= 900 /\ lookups = retry + 1
    BY DialAssumption DEF IInv, TypeOK, Paced, Soonest
  <2>2. retry <= 9
    BY <2>1 DEF Soonest
  <2> QED
    BY <2>1, <2>2, DialAssumption DEF AsksSparingly
<1> QED
  BY <1>1, DialInvariant, PTL

-----------------------------------------------------------------------------
(* The listening side.                                                     *)

USE RelayAssumption

(* The attempt starts with nothing running.                                *)
LEMMA AttemptStarts == ListenInit => ListenInv
<1> SUFFICES ASSUME ListenInit PROVE ListenInv
  OBVIOUS
<1>1. ListenTypeOK
  <2>1. ctxDone \in BOOLEAN /\ live \in BOOLEAN /\ stopped \in BOOLEAN
        /\ relayLost \in BOOLEAN /\ watch \in BOOLEAN
    BY DEF ListenInit
  <2>2. faults \in 0..MaxFaults
    BY DEF ListenInit
  <2>3. listen \in ListenSteps
    BY DEF ListenInit, ListenSteps
  <2>4. closing \subseteq Cleaners /\ closed \subseteq Cleaners
    BY DEF ListenInit
  <2> QED
    BY <2>1, <2>2, <2>3, <2>4 DEF ListenInit, ListenTypeOK
<1>2. SessionIsLive /\ AttemptIsLive
  BY DEF ListenInit, SessionIsLive, AttemptIsLive, InSession
<1>3. CleaningStops
  BY DEF ListenInit, CleaningStops
<1>4. NothingOutlivesAttempt
  BY Zenon DEF ListenInit, NothingOutlivesAttempt
<1> QED
  BY <1>1, <1>2, <1>3, <1>4 DEF ListenInv

(* The variables an action leaves alone keep their part of the invariant.  *)
USE DEF listenVars, poolVars, annVars

(* The steps of Listen and of the callers of Close.                        *)
LEMMA ListenTypes ==
  ASSUME ListenTypeOK,
         \/ ListenStep \/ StartListen \/ EndCtx
         \/ \E c \in Closers : Close(c)
  PROVE  ListenTypeOK'
<1> USE DEF ListenTypeOK, ListenSteps, Cleaners
<1>1. CASE StartListen
  <2>1. leaving' \subseteq Relays
    BY <1>1 DEF StartListen
  <2> QED
    BY <1>1, <2>1 DEF StartListen
<1>2. CASE SeesRelay
  BY <1>2 DEF SeesRelay, Watches
<1>3. CASE ListenFails
  BY <1>3 DEF ListenFails, GivesUp
<1>4. CASE TakeInvitation
  BY <1>4 DEF TakeInvitation
<1>5. CASE JoinSession
  BY <1>5 DEF JoinSession, Joined
<1>6. CASE JoinFails
  BY <1>6 DEF JoinFails, GivesUp
<1>7. CASE ServerHandshakeSucceeds
  BY <1>7 DEF ServerHandshakeSucceeds
<1>8. CASE ServerHandshakeFails
  BY <1>8 DEF ServerHandshakeFails, GivesUp
<1>9. ASSUME NEW c \in Cleaners, CleanupReturns(c) PROVE ListenTypeOK'
  <2>1. listen' \in ListenSteps /\ live' \in BOOLEAN
    BY <1>9 DEF CleanupReturns, Cleaned
  <2>2. closing' \subseteq Cleaners /\ closed' \subseteq Cleaners
    BY <1>9 DEF CleanupReturns
  <2>3. UNCHANGED <<ctxDone, stopped, poolVars, inv, relayLost, watch, annVars,
                    session, record, faults>>
    BY <1>9 DEF CleanupReturns
  <2> QED
    BY <2>1, <2>2, <2>3
<1>10. ASSUME NEW c \in Closers, Close(c) PROVE ListenTypeOK'
  BY <1>10 DEF Close
<1>11. CASE EndCtx
  <2>1. faults' \in 0..MaxFaults
    BY <1>11 DEF EndCtx, Fault
  <2>2. ctxDone' \in BOOLEAN /\ live' \in BOOLEAN
    BY <1>11 DEF EndCtx
  <2>3. UNCHANGED <<listen, stopped, closing, closed, poolVars, inv, relayLost, watch,
                    annVars, session, record>>
    BY <1>11 DEF EndCtx
  <2> QED
    BY <2>1, <2>2, <2>3
<1> QED
  BY <1>1, <1>2, <1>3, <1>4, <1>5, <1>6, <1>7, <1>8, <1>9, <1>10, <1>11
     DEF ListenStep
(* The steps of the pool client, its forwarder and the watcher.            *)
LEMMA PoolTypes ==
  ASSUME ListenTypeOK,
         \/ PoolStep \/ OldLeaves \/ Invite \/ InvitationDropped
         \/ RelayLoss \/ WatchEnds
  PROVE  ListenTypeOK'
<1> USE DEF ListenTypeOK
<1>1. CASE FetchPool
  BY <1>1 DEF FetchPool
<1>2. CASE FetchFails
  <2>1. faults' \in 0..MaxFaults
    BY <1>2 DEF FetchFails
  <2> QED
    BY <1>2, <2>1 DEF FetchFails
<1>3. CASE TryRelay
  BY <1>3 DEF TryRelay
<1>4. CASE PoolEnds
  BY <1>4 DEF PoolEnds
<1>5. CASE JoinRelay
  BY <1>5 DEF JoinRelay
<1>6. CASE RelayGone
  <2>1. faults' \in 0..MaxFaults
    BY <1>6 DEF RelayGone
  <2> QED
    BY <1>6, <2>1 DEF RelayGone
<1>7. CASE NextRelay
  BY <1>7 DEF NextRelay
<1>8. CASE Invite
  BY <1>8 DEF Invite
<1>9. CASE InvitationDropped
  BY <1>9 DEF InvitationDropped
<1>10. CASE RelayLoss
  <2>1. relayLost' \in BOOLEAN /\ watch' \in BOOLEAN
    BY <1>10 DEF RelayLoss
  <2>2. UNCHANGED <<listenVars, poolVars, inv, annVars, session, record, faults>>
    BY <1>10 DEF RelayLoss
  <2> QED
    BY <2>1, <2>2
<1>11. CASE WatchEnds
  <2>1. watch' \in BOOLEAN
    BY <1>11 DEF WatchEnds
  <2>2. UNCHANGED <<listenVars, poolVars, inv, relayLost, annVars, session, record, faults>>
    BY <1>11 DEF WatchEnds
  <2> QED
    BY <2>1, <2>2
<1>12. CASE OldLeaves
  BY <1>12 DEF OldLeaves
<1> QED
  BY <1>1, <1>2, <1>3, <1>4, <1>5, <1>6, <1>7, <1>8, <1>9, <1>10, <1>11, <1>12
     DEF PoolStep

(* The steps of the announce loop, and of the server.                      *)
LEMMA AnnounceTypes ==
  ASSUME ListenTypeOK,
         Announce \/ AnnounceStep \/ AnnounceEnds \/ Expire
  PROVE  ListenTypeOK'
<1> USE DEF ListenTypeOK
<1>1. CASE Announce
  BY <1>1 DEF Announce
<1>2. CASE NothingDue
  BY <1>2 DEF NothingDue
<1>3. CASE Posted
  <2>1. annAddr \in Relays
    BY <1>3 DEF Posted
  <2> QED
    BY <1>3, <2>1 DEF Posted
<1>4. CASE PostFails
  <2>1. faults' \in 0..MaxFaults
    BY <1>4 DEF PostFails
  <2>2. annAddr \in Relays
    BY <1>4 DEF PostFails
  <2> QED
    BY <1>4, <2>1, <2>2 DEF PostFails
<1>5. CASE Tick
  BY <1>5 DEF Tick
<1>6. CASE AnnounceEnds
  BY <1>6 DEF AnnounceEnds
<1>7. CASE Expire
  <2>1. PICK r \in record : /\ r = lastAnn => faults < MaxFaults
                            /\ faults' = IF r = lastAnn THEN faults + 1 ELSE faults
                            /\ record' = record \ {r}
    BY <1>7 DEF Expire
  <2>2. faults' \in 0..MaxFaults
    BY <2>1
  <2> QED
    BY <1>7, <2>1, <2>2 DEF Expire
<1> QED
  BY <1>1, <1>2, <1>3, <1>4, <1>5, <1>6, <1>7 DEF AnnounceStep
(* What an attempt keeps running, and what it leaves behind.               *)
Attempt == SessionIsLive /\ AttemptIsLive /\ CleaningStops /\ NothingOutlivesAttempt

LEMMA AttemptStep ==
  ASSUME ListenTypeOK, Attempt, ListenNext PROVE Attempt'
<1> USE DEF Attempt, SessionIsLive,
            AttemptIsLive, CleaningStops,
            NothingOutlivesAttempt, InSession, Registered,
            ListenTypeOK, ListenSteps, Cleaners
<1>1. CASE StartListen
  BY <1>1 DEF StartListen
<1>2. CASE SeesRelay
  BY <1>2 DEF SeesRelay, Watches
<1>3. CASE ListenFails
  BY <1>3 DEF ListenFails, GivesUp
<1>4. CASE TakeInvitation
  BY <1>4 DEF TakeInvitation
<1>5. CASE JoinSession
  BY <1>5 DEF JoinSession, Joined, Joinable
<1>6. CASE JoinFails
  BY <1>6 DEF JoinFails, GivesUp, Joinable
<1>7. CASE ServerHandshakeSucceeds
  BY <1>7 DEF ServerHandshakeSucceeds
<1>8. CASE ServerHandshakeFails
  BY <1>8 DEF ServerHandshakeFails, GivesUp
<1>9. CASE EndCtx
  BY <1>9 DEF EndCtx, Fault
<1>10. CASE FetchPool
  BY <1>10 DEF FetchPool
<1>11. CASE FetchFails
  BY <1>11 DEF FetchFails
<1>12. CASE TryRelay
  BY <1>12 DEF TryRelay
<1>13. CASE PoolEnds
  BY <1>13 DEF PoolEnds
<1>14. CASE JoinRelay
  BY <1>14 DEF JoinRelay
<1>15. CASE RelayGone
  BY <1>15 DEF RelayGone
<1>16. CASE NextRelay
  BY <1>16 DEF NextRelay
<1>17. CASE Invite
  BY <1>17 DEF Invite
<1>18. CASE InvitationDropped
  BY <1>18 DEF InvitationDropped
<1>19. CASE RelayLoss
  BY <1>19 DEF RelayLoss, ClientError
<1>20. CASE WatchEnds
  BY <1>20 DEF WatchEnds
<1>21. CASE Announce
  BY <1>21 DEF Announce
<1>22. CASE NothingDue
  BY <1>22 DEF NothingDue
<1>23. CASE Posted
  BY <1>23 DEF Posted
<1>24. CASE PostFails
  BY <1>24 DEF PostFails
<1>25. CASE Tick
  BY <1>25 DEF Tick
<1>26. CASE AnnounceEnds
  BY <1>26 DEF AnnounceEnds
<1>27. CASE Expire
  BY <1>27 DEF Expire
<1>28. ASSUME NEW c \in Cleaners, CleanupReturns(c) PROVE Attempt'
  BY <1>28 DEF CleanupReturns, Cleaned
<1>29. ASSUME NEW c \in Closers, Close(c) PROVE Attempt'
  BY <1>29 DEF Close
<1>30. CASE OldLeaves
  BY <1>30 DEF OldLeaves
<1> QED
  BY <1>1, <1>2, <1>3, <1>4, <1>5, <1>6, <1>7, <1>8, <1>9, <1>10, <1>11, <1>12, <1>13, <1>14,
     <1>15, <1>16, <1>17, <1>18, <1>19, <1>20, <1>21, <1>22, <1>23, <1>24, <1>25, <1>26, <1>27, <1>28, <1>29, <1>30
     DEF ListenNext, ListenStep, PoolStep, AnnounceStep

(* Theorem: the inductive invariant holds in every reachable state.        *)
THEOREM AttemptInvariant == ListenSpec => []ListenInv
<1>1. ListenInv /\ [ListenNext]_attemptVars => ListenInv'
  <2> SUFFICES ASSUME ListenInv, [ListenNext]_attemptVars PROVE ListenInv'
    OBVIOUS
  <2>1. ListenTypeOK /\ Attempt
    BY DEF ListenInv, Attempt
  <2>2. CASE ListenNext
    <3>1. ListenTypeOK'
      BY <2>1, <2>2, ListenTypes, PoolTypes, AnnounceTypes DEF ListenNext
    <3>2. Attempt'
      BY <2>1, <2>2, AttemptStep
    <3> QED
      BY <3>1, <3>2 DEF ListenInv, Attempt
  <2>3. CASE UNCHANGED attemptVars
    BY <2>3 DEF attemptVars, ListenInv, ListenTypeOK, SessionIsLive,
                AttemptIsLive, CleaningStops,
                NothingOutlivesAttempt, Registered
  <2> QED
    BY <2>2, <2>3
<1> QED
  BY AttemptStarts, <1>1, PTL DEF ListenSpec

(* Theorem: the machine never gives up, of its own doing, the registration *)
(* a session runs over.                                                    *)
THEOREM SessionsKeepTheirRelay == ListenSpec => []SessionKeepsRegistration
<1>1. ListenInv => SessionKeepsRegistration
  BY DEF ListenInv, AttemptIsLive, SessionKeepsRegistration
<1> QED
  BY AttemptInvariant, <1>1, PTL

(* Theorem: between attempts the machine is gone from the relay and no     *)
(* loop goes on announcing it.                                             *)
THEOREM AttemptsLeaveNothing == ListenSpec => []NothingOutlivesAttempt
<1>1. ListenInv => NothingOutlivesAttempt
  BY DEF ListenInv
<1> QED
  BY AttemptInvariant, <1>1, PTL
=============================================================================
