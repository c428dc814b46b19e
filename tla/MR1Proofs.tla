------------------------------ MODULE MR1Proofs ------------------------------
(***************************************************************************)
(* Theorems about MR1, for every group of prime order and every way of     *)
(* writing its scalars: the enrolled key always recovers the secret, from  *)
(* a full point and from an x-coordinate alone, what a phone sends opens   *)
(* the volume its point is enrolled for, and the comparison of scalars     *)
(* that does not look at them is right for every two strings.              *)
(***************************************************************************)
EXTENDS MR1, WellFoundedInduction, TLAPS

(* Every byte string can multiply a point.                                 *)
LEMMA Multiplies ==
  ASSUME NEW b \in Strings, NEW P \in Points
  PROVE  ValueOf(b) \in Multipliers /\ Times(ValueOf(b), P) \in Points
  BY SizeAssumption, GroupAssumption

LEMMA ScalarMultiplies ==
  ASSUME NEW k \in Scalars, NEW P \in Points
  PROVE  k \in Multipliers /\ Times(k, P) \in Points
  BY SizeAssumption, GroupAssumption

(* Multiplication by n - 1 is negation.                                    *)
LEMMA Negation ==
  ASSUME NEW P \in Points
  PROVE  Negate(P) \in Points /\ Plus(P, Negate(P)) = Infinity
<1>1. CASE P = Infinity
  BY <1>1, GroupAssumption DEF Negate
<1>2. CASE P # Infinity
  <2>1. Order - 1 \in Multipliers
    <3>1. Order - 1 \in Scalars
      BY SizeAssumption DEF Scalars
    <3> QED
      BY <3>1, SizeAssumption
  <2>2. Times(Order - 1, P) \in Points /\ Plus(P, Times(Order - 1, P)) = Infinity
    BY <2>1, GroupAssumption
  <2> QED
    BY <1>2, <2>2 DEF Negate
<1> QED
  BY <1>1, <1>2

LEMMA Cancels ==
  ASSUME NEW P \in Points, NEW Q \in Points
  PROVE  Plus(Plus(P, Q), Negate(Q)) = P
<1>1. Negate(Q) \in Points /\ Plus(Q, Negate(Q)) = Infinity
  BY Negation
<1>2. Plus(Plus(P, Q), Negate(Q)) = Plus(P, Plus(Q, Negate(Q)))
  BY <1>1, GroupAssumption
<1>3. Plus(P, Infinity) = P
  BY GroupAssumption
<1> QED
  BY <1>1, <1>2, <1>3

(* s.(C + E) = c.S + e.S: what the blinding adds to the answer is known to *)
(* whoever knows e.                                                        *)
LEMMA Blinding ==
  ASSUME NEW k \in Multipliers, NEW c \in Scalars, NEW d \in Scalars
  PROVE  Times(k, Plus(Times(c, Base), Times(d, Base)))
           = Plus(Times(c, Times(k, Base)), Times(d, Times(k, Base)))
<1>1. Base \in Points /\ c \in Multipliers /\ d \in Multipliers
  BY SizeAssumption, GroupAssumption
<1>2. Times(c, Base) \in Points /\ Times(d, Base) \in Points
  BY <1>1, GroupAssumption
<1>3. Times(k, Plus(Times(c, Base), Times(d, Base)))
        = Plus(Times(k, Times(c, Base)), Times(k, Times(d, Base)))
  BY <1>2, GroupAssumption
<1>4. /\ Times(k, Times(c, Base)) = Times(c, Times(k, Base))
      /\ Times(k, Times(d, Base)) = Times(d, Times(k, Base))
  BY <1>1, GroupAssumption
<1> QED
  BY <1>3, <1>4

(* A point is among those its x-coordinate is lifted to.                   *)
LEMMA Lifts ==
  ASSUME NEW P \in Points, P # Infinity
  PROVE  P \in LiftX(XOf(P))
  BY DEF LiftX

(* FinishFullPoint and FinishXOnly succeed on an answer of the enrolled    *)
(* key.                                                                    *)
LEMMA RightAnswerOpens ==
  ASSUME TypeOK, Enrolled, Challenged, Answered,
         answer # None, outcome = "pending", Public(answer.by) = rec.S
  PROVE  \E y \in Candidates : finishWithY(y)
<1> DEFINE k == ValueOf(answer.by)
           y == Times(k, x)
<1>1. /\ answer.by \in Strings /\ x # None /\ rec # None /\ x \in Points
      /\ e \in Scalars /\ x = Plus(rec.C, Times(e, Base))
  BY DEF Answered, Challenged
<1>2. k \in Multipliers /\ y \in Points
  BY <1>1, Multiplies
<1>3. PICK c \in Scalars :
        rec = [S |-> rec.S, C |-> Times(c, Base), ct |-> deriveKey(Times(c, rec.S), rec.S)]
  BY <1>1 DEF Enrolled
<1>4. rec.S \in Points \ {Infinity}
  BY <1>1 DEF Enrolled
<1>5. rec.C = Times(c, Base) /\ rec.ct = deriveKey(Times(c, rec.S), rec.S)
  BY <1>3
<1>6. y = Plus(Times(c, rec.S), Times(e, rec.S))
  BY <1>1, <1>2, <1>5, Blinding DEF Public
<1>7. /\ Times(c, rec.S) \in Points /\ Times(e, rec.S) \in Points
      /\ Times(c, rec.S) # Infinity
  <2>1. Times(c, rec.S) \in Points /\ Times(e, rec.S) \in Points
    BY <1>1, <1>4, ScalarMultiplies
  <2>2. Times(c, rec.S) # Infinity
    BY <1>4, GroupAssumption
  <2> QED
    BY <2>1, <2>2
<1>8. Unblinded(y) = Times(c, rec.S)
  BY <1>6, <1>7, Cancels DEF Unblinded
<1>9. finishWithY(y)
  BY <1>5, <1>7, <1>8 DEF finishWithY, HasKey
<1>10. y \in Candidates
  <2>1. CASE answer.full
    BY <2>1 DEF Candidates, Answered
  <2>2. CASE ~answer.full
    <3>1. y # Infinity /\ answer.y = XOf(y)
      BY <2>2 DEF Answered
    <3> QED
      BY <3>1, <1>2, <2>2, Lifts DEF Candidates
  <2> QED
    BY <2>1, <2>2
<1> QED
  BY <1>9, <1>10

LEMMA InitEstablishes == Init => IInv
  BY DEF Init, IInv, TypeOK, Enrolled, Challenged, Answered, RightKeyRecovers, PhoneAnswersOpen, Wiped

(* The key holder's file does not matter to what the machine has.          *)
LEMMA HolderSteps ==
  ASSUME IInv, MakeKey \/ FileChanges \/ PublicFromFile
  PROVE  IInv'
<1> USE DEF IInv, TypeOK
<1>1. scalar' \in Strings \cup {None} /\ public' \in Points \cup {None}
  <2>1. CASE MakeKey
    <3>1. PICK b \in RandomScalar : scalar' = b /\ public' = Public(b)
      BY <2>1 DEF MakeKey
    <3>2. b \in Strings
      BY DEF RandomScalar
    <3>3. Public(b) \in Points
      BY <3>2, Multiplies, GroupAssumption DEF Public
    <3> QED
      BY <3>1, <3>2, <3>3
  <2>2. CASE FileChanges
    BY <2>2 DEF FileChanges
  <2>3. CASE PublicFromFile
    <3>1. scalar \in Strings
      BY <2>3 DEF PublicFromFile
    <3>2. Public(scalar) \in Points
      BY <3>1, Multiplies, GroupAssumption DEF Public
    <3> QED
      BY <2>3, <3>1, <3>2 DEF PublicFromFile
  <2> QED
    BY <2>1, <2>2, <2>3
<1>2. UNCHANGED <<rec, e, x, answer, outcome>>
  BY DEF MakeKey, FileChanges, PublicFromFile
<1> QED
  BY <1>1, <1>2 DEF Enrolled, Challenged, Answered, RightKeyRecovers, PhoneAnswersOpen

LEMMA AnswerSteps ==
  ASSUME IInv, AnswerFullPoint \/ AnswerXOnly
  PROVE  IInv'
<1>1. UNCHANGED <<scalar, public, rec, e, x, outcome>> /\ outcome = "pending" /\ x # None
  BY DEF AnswerFullPoint, AnswerXOnly
<1>2. TypeOK' /\ Enrolled' /\ Challenged'
  BY <1>1 DEF IInv, TypeOK, Enrolled, Challenged
<1>3. RightKeyRecovers' /\ PhoneAnswersOpen'
  BY <1>1 DEF RightKeyRecovers, PhoneAnswersOpen
<1>4. Answered'
  <2>1. CASE AnswerFullPoint
    <3>1. scalar \in Strings
      BY <2>1 DEF AnswerFullPoint, IInv, TypeOK
    <3> QED
      BY <1>1, <2>1, <3>1 DEF AnswerFullPoint, Answered
  <2>2. CASE AnswerXOnly
    <3>1. scalar \in Strings /\ Public(scalar) = public
      BY <2>2 DEF AnswerXOnly, IInv, TypeOK, checkKeyPair
    <3> QED
      BY <1>1, <2>2, <3>1 DEF AnswerXOnly, Answered
  <2> QED
    BY <2>1, <2>2
<1> QED
  BY <1>2, <1>3, <1>4 DEF IInv

LEMMA EnrolStep ==
  ASSUME IInv, Enrol
  PROVE  IInv'
<1>1. UNCHANGED <<scalar, public, e, x, answer, outcome>> /\ rec = None /\ public # None
  BY DEF Enrol
<1>2. x = None /\ answer = None /\ outcome = "pending"
  BY <1>1 DEF IInv, Challenged, Answered
<1>3. Enrolled'
  <2>1. PICK c \in Scalars :
          /\ HasKey(Times(c, public))
          /\ rec' = [S |-> public, C |-> Times(c, Base), ct |-> deriveKey(Times(c, public), public)]
    BY DEF Enrol
  <2>2. public \in Points
    BY <1>1 DEF IInv, TypeOK
  <2>3. public # Infinity
    <3>1. SUFFICES ASSUME public = Infinity PROVE FALSE
      OBVIOUS
    <3>2. Times(c, Infinity) = Infinity
      <4>1. c \in Multipliers /\ Infinity \in Points /\ Times(c, Infinity) \in Points
        BY ScalarMultiplies, GroupAssumption
      <4>2. Times(c, Infinity) = Plus(Times(c, Infinity), Times(c, Infinity))
        BY <4>1, GroupAssumption
      <4> QED
        BY <4>1, <4>2, Cancels, Negation
    <3> QED
      BY <2>1, <3>1, <3>2 DEF HasKey
  <2> QED
    BY <2>1, <2>2, <2>3 DEF Enrolled
<1>4. TypeOK' /\ Challenged' /\ Answered' /\ RightKeyRecovers' /\ PhoneAnswersOpen'
  BY <1>1, <1>2 DEF IInv, TypeOK, Challenged, Answered, RightKeyRecovers, PhoneAnswersOpen
<1> QED
  BY <1>3, <1>4 DEF IInv

LEMMA ChallengeStep ==
  ASSUME IInv, ChallengeStart
  PROVE  IInv'
<1>1. /\ UNCHANGED <<scalar, public, rec>> /\ rec # None /\ e' \in Scalars
      /\ x' = Plus(rec.C, Times(e', Base)) /\ answer' = None /\ outcome' = "pending"
  BY DEF ChallengeStart
<1>2. rec.C \in Points
  <2>1. PICK c \in Scalars :
          rec = [S |-> rec.S, C |-> Times(c, Base), ct |-> deriveKey(Times(c, rec.S), rec.S)]
    BY <1>1 DEF IInv, Enrolled
  <2>2. Times(c, Base) \in Points
    BY ScalarMultiplies, GroupAssumption
  <2> QED
    BY <2>1, <2>2
<1>3. Times(e', Base) \in Points
  BY <1>1, ScalarMultiplies, GroupAssumption
<1>4. x' \in Points
  BY <1>1, <1>2, <1>3, GroupAssumption
<1>5. Challenged' /\ Answered'
  BY <1>1, <1>4 DEF Challenged, Answered
<1>6. TypeOK' /\ Enrolled' /\ RightKeyRecovers' /\ PhoneAnswersOpen'
  BY <1>1 DEF IInv, TypeOK, Enrolled, RightKeyRecovers, PhoneAnswersOpen
<1> QED
  BY <1>5, <1>6 DEF IInv

LEMMA EndSteps ==
  ASSUME IInv, Finish \/ Abandon
  PROVE  IInv'
<1>1. /\ UNCHANGED <<scalar, public, rec, x, answer>> /\ e' = Wiped /\ outcome = "pending"
      /\ outcome' \in {"recovered", "failed", "abandoned"}
  BY DEF Finish, Abandon, WipesE
<1>2. x # None
  BY DEF Finish, Abandon, IInv, Answered
<1>3. TypeOK' /\ Enrolled' /\ Challenged' /\ Answered'
  BY <1>1, <1>2 DEF IInv, TypeOK, Enrolled, Challenged, Answered
<1>4. RightKeyRecovers'
  <2> SUFFICES ASSUME outcome' = "failed" PROVE Public(answer'.by) # rec'.S
    BY DEF RightKeyRecovers
  <2>1. answer # None /\ ~\E y \in Candidates : finishWithY(y)
    BY DEF Finish, Abandon
  <2> QED
    BY <1>1, <2>1, RightAnswerOpens DEF IInv
<1>5. PhoneAnswersOpen'
  <2> SUFFICES ASSUME outcome' = "failed", ~answer'.full PROVE answer'.point # rec'.S
    BY DEF PhoneAnswersOpen
  <2>1. answer # None
    BY DEF Finish, Abandon
  <2>2. Public(answer.by) = answer.point
    BY <1>1, <2>1 DEF IInv, Answered
  <2> QED
    BY <1>1, <1>4, <2>2 DEF RightKeyRecovers
<1> QED
  BY <1>3, <1>4, <1>5 DEF IInv

(* mr1.go keeps what it enrols recoverable, at every step.                 *)
THEOREM ProtocolInvariant == Spec => []IInv
<1>1. IInv /\ [Next]_vars => IInv'
  <2> SUFFICES ASSUME IInv, [Next]_vars PROVE IInv'
    OBVIOUS
  <2>1. CASE Next
    BY <2>1, HolderSteps, AnswerSteps, EnrolStep, ChallengeStep, EndSteps DEF Next
  <2>2. CASE UNCHANGED vars
    BY <2>2 DEF vars, IInv, TypeOK, Enrolled, Challenged, Answered, RightKeyRecovers, PhoneAnswersOpen
  <2> QED
    BY <2>1, <2>2
<1> QED
  BY <1>1, InitEstablishes, PTL DEF Spec

(* FinishFullPoint and FinishXOnly: in every group, the enrolled key       *)
(* recovers the secret.                                                    *)
THEOREM EnrolledKeyRecovers == Spec => []RightKeyRecovers
  BY ProtocolInvariant, PTL DEF IInv

(* AnswerWithScalar with checkKeyPair: a phone that shows the enrolled     *)
(* point never sends an answer that fails.                                 *)
THEOREM ShownPointAnswers == Spec => []PhoneAnswersOpen
  BY ProtocolInvariant, PTL DEF IInv


-----------------------------------------------------------------------------
(* The range check.                                                        *)

(* A set of numbers has a least one.                                       *)
LEMMA HasLeast ==
  ASSUME NEW S \in SUBSET Nat, S # {}
  PROVE  \E m \in S : \A k \in S : m <= k
<1>1. PICK m \in S : \A k \in S : ~(<<k, m>> \in OpToRel(<, Nat))
  BY NatLessThanWellFounded, WFMin
<1>2. OpToRel(<, Nat) = {p \in Nat \X Nat : p[1] < p[2]}
  BY Zenon DEF OpToRel
<1>3. \A k \in S : ~(k < m)
  BY <1>1, <1>2
<1>4. \A k \in S : m <= k
  BY <1>3
<1> QED
  BY <1>4

(* A sequence of numbers can be defined step by step, from 0.              *)
LEMMA Stepwise ==
  ASSUME NEW N \in Nat, NEW F \in [(1..N) \X Nat -> Nat]
  PROVE  \E f \in [0..N -> Nat] : f[0] = 0 /\ \A i \in 1..N : f[i] = F[<<i, f[i - 1]>>]
<1> DEFINE Goes(n) == \E f \in [0..n -> Nat] :
                        f[0] = 0 /\ \A i \in 1..n : f[i] = F[<<i, f[i - 1]>>]
           stuck == {n \in 0..N : ~Goes(n)}
<1>1. SUFFICES ASSUME stuck # {} PROVE FALSE
  <2>1. N \in 0..N
    OBVIOUS
  <2> QED
    BY <2>1, Zenon
<1>2. PICK m \in stuck : \A k \in stuck : m <= k
  <2>1. stuck \in SUBSET Nat
    OBVIOUS
  <2> HIDE DEF stuck
  <2> QED
    BY <1>1, <2>1, HasLeast
<1>3. m \in 0..N /\ ~Goes(m)
  OBVIOUS
<1>4. m # 0
  <2> DEFINE one == [i \in 0..0 |-> 0]
  <2>1. one \in [0..0 -> Nat] /\ one[0] = 0
    OBVIOUS
  <2>2. \A i \in 1..0 : FALSE
    OBVIOUS
  <2> HIDE DEF one
  <2>3. Goes(0)
    BY <2>1, <2>2
  <2> QED
    BY <1>3, <2>3
<1>5. Goes(m - 1)
  <2> HIDE DEF Goes
  <2>1. m - 1 \in 0..N /\ ~(m <= m - 1)
    BY <1>3, <1>4
  <2> QED
    BY <1>2, <2>1
<1>6. PICK f \in [0..(m - 1) -> Nat] :
        f[0] = 0 /\ \A i \in 1..(m - 1) : f[i] = F[<<i, f[i - 1]>>]
  BY <1>5
<1> DEFINE g == [i \in 0..m |-> IF i = m THEN F[<<m, f[m - 1]>>] ELSE f[i]]
<1>7. F[<<m, f[m - 1]>>] \in Nat
  <2>1. m \in 1..N /\ f[m - 1] \in Nat
    BY <1>3, <1>4
  <2> QED
    BY <2>1
<1>8. g \in [0..m -> Nat]
  <2>1. \A i \in 0..m : i # m => f[i] \in Nat
    BY <1>3
  <2> QED
    BY <1>7, <2>1
<1>9. g[0] = 0
  BY <1>3, <1>4, <1>6
<1>10. \A i \in 1..m : g[i] = F[<<i, g[i - 1]>>]
  <2> SUFFICES ASSUME NEW i \in 1..m PROVE g[i] = F[<<i, g[i - 1]>>]
    OBVIOUS
  <2>1. i - 1 \in 0..m /\ i - 1 # m /\ i \in 0..m
    BY <1>3
  <2>2. g[i - 1] = f[i - 1]
    BY <2>1
  <2>3. CASE i = m
    BY <2>1, <2>2, <2>3
  <2>4. CASE i # m
    <3>1. i \in 1..(m - 1)
      BY <1>3, <2>4
    <3> QED
      BY <1>6, <2>1, <2>2, <2>4, <3>1
  <2> QED
    BY <2>3, <2>4
<1> HIDE DEF g
<1>11. Goes(m)
  BY <1>8, <1>9, <1>10
<1> QED
  BY <1>3, <1>11

(* The bytes of a string.                                                  *)
LEMMA Bytes ==
  ASSUME NEW b \in Strings, NEW i \in 1..Length
  PROVE  b[i] \in Int /\ 0 <= b[i] /\ b[i] < Radix
  BY SizeAssumption, ByteAssumption DEF Strings

(* The value of a string is that of its bytes but the last, and the last.  *)
LEMMA ValueSteps ==
  ASSUME NEW b \in Strings
  PROVE  \E v \in [0..Length -> Nat] :
           /\ v[0] = 0 /\ \A i \in 1..Length : v[i] = v[i - 1] * Radix + b[i]
           /\ ValueOf(b) = v[Length]
<1> DEFINE Reads(v) == v = [i \in 0..Length |-> IF i = 0 THEN 0 ELSE v[i - 1] * Radix + b[i]]
           read == CHOOSE v : Reads(v)
           step == [p \in (1..Length) \X Nat |-> p[2] * Radix + b[p[1]]]
<1> USE SizeAssumption, ByteAssumption
<1>1. step \in [(1..Length) \X Nat -> Nat]
  <2>1. \A p \in (1..Length) \X Nat : p[2] * Radix + b[p[1]] \in Nat
    <3> TAKE p \in (1..Length) \X Nat
    <3>1. p[1] \in 1..Length /\ p[2] \in Nat
      OBVIOUS
    <3>2. b[p[1]] \in Nat
      BY <3>1, Bytes
    <3>3. p[2] * Radix \in Nat
      BY <3>1
    <3> HIDE DEF step
    <3> QED
      BY <3>2, <3>3
  <2> QED
    BY <2>1
<1>2. PICK v \in [0..Length -> Nat] : v[0] = 0 /\ \A i \in 1..Length : v[i] = step[<<i, v[i - 1]>>]
  <2>1. Length \in Nat
    OBVIOUS
  <2> HIDE DEF step
  <2> QED
    BY ONLY <1>1, <2>1, Stepwise
<1>3. \A i \in 1..Length : v[i] = v[i - 1] * Radix + b[i]
  <2> TAKE i \in 1..Length
  <2>1. v[i - 1] \in Nat
    OBVIOUS
  <2>2. step[<<i, v[i - 1]>>] = v[i - 1] * Radix + b[i]
    BY <2>1
  <2> QED
    BY <1>2, <2>2
<1>4. \A i \in 0..Length : v[i] = IF i = 0 THEN 0 ELSE v[i - 1] * Radix + b[i]
  <2> HIDE DEF step
  <2> QED
    BY <1>2, <1>3
<1>5. Reads(v)
  <2> HIDE DEF step
  <2> QED
    BY <1>4
<1>6. Reads(read)
  <2> HIDE DEF Reads
  <2> QED
    BY <1>5, Zenon
<1>7. ValueOf(b) = read[Length]
  BY Zenon DEF ValueOf
<1> HIDE DEF read, step
<1>8. /\ DOMAIN read = 0..Length /\ read = [i \in 0..Length |-> read[i]] /\ read[0] = 0
      /\ \A i \in 1..Length : read[i] = read[i - 1] * Radix + b[i]
  <2>1. \A i \in 0..Length : read[i] = IF i = 0 THEN 0 ELSE read[i - 1] * Radix + b[i]
    BY <1>6, Zenon
  <2>2. DOMAIN read = 0..Length /\ read = [i \in 0..Length |-> read[i]]
    BY <1>6
  <2> HIDE DEF Reads
  <2>3. read[0] = 0
    BY <2>1
  <2>4. \A i \in 1..Length : read[i] = read[i - 1] * Radix + b[i]
    <3> TAKE i \in 1..Length
    <3>1. i \in 0..Length /\ i # 0
      OBVIOUS
    <3> QED
      BY <2>1, <3>1
  <2> QED
    BY <2>2, <2>3, <2>4
<1>9. \A i \in 0..Length : read[i] \in Nat
  <2> DEFINE odd == {i \in 0..Length : read[i] \notin Nat}
  <2>1. SUFFICES ASSUME odd # {} PROVE FALSE
    OBVIOUS
  <2>2. PICK m \in odd : \A k \in odd : m <= k
    <3>1. odd \in SUBSET Nat
      OBVIOUS
    <3> HIDE DEF odd
    <3> QED
      BY <2>1, <3>1, HasLeast
  <2>3. m \in 1..Length
    BY <1>8
  <2>4. m - 1 \in 0..Length /\ m - 1 \notin odd
    BY <2>2, <2>3
  <2>5. read[m - 1] \in Nat
    BY <2>4
  <2>6. b[m] \in Nat
    BY <2>3, Bytes
  <2>7. read[m - 1] * Radix \in Nat
    BY <2>5
  <2>8. read[m] = read[m - 1] * Radix + b[m]
    BY <1>8, <2>3
  <2>9. read[m] \in Nat
    BY <2>6, <2>7, <2>8
  <2> QED
    BY <2>9
<1> HIDE DEF Reads
<1>10. read \in [0..Length -> Nat]
  BY <1>8, <1>9
<1> QED
  BY <1>7, <1>8, <1>10

(* Half of the two-byte words stand for numbers that are not negative, and *)
(* a byte is among them.                                                   *)
LEMMA HalfWord ==
  LET Word == Radix * Radix
      Half == Word \div 2
  IN  Half \in Nat /\ Half > 0 /\ Word = 2 * Half /\ Radix <= Half
<1> USE SizeAssumption, ByteAssumption
<1>1. PICK k \in Nat : Radix = 2 * k /\ k > 0
  <2> DEFINE k == Radix \div 2
  <2>1. k \in Nat /\ Radix = 2 * k /\ k > 0
    OBVIOUS
  <2> QED
    BY <2>1
<1> DEFINE h == k * k
<1>2. h \in Nat /\ k <= h
  BY <1>1
<1>3. Radix * Radix = 2 * (2 * h)
  BY <1>1
<1> HIDE DEF h
<1>4. (2 * (2 * h)) \div 2 = 2 * h
  BY <1>2
<1> QED
  BY <1>1, <1>2, <1>3, <1>4

(* A byte borrows exactly when what is taken from it is larger.            *)
LEMMA BorrowIsSign ==
  ASSUME NEW s, NEW n, NEW i, NEW y \in Int,
         s[i] \in Int, n[i] \in Int,
         -Radix <= s[i] - n[i] - y, s[i] - n[i] - y < Radix
  PROVE  Borrow(s, n, i, y) = IF s[i] - n[i] - y < 0 THEN 1 ELSE 0
<1> DEFINE Word == Radix * Radix
           Half == Word \div 2
           t == s[i] - n[i] - y
           d == t % Word
<1>1. Half \in Nat /\ Half > 0 /\ Word = 2 * Half /\ Radix <= Half
  BY HalfWord
<1>2. Borrow(s, n, i, y) = (d \div Half) % 2
  BY DEF Borrow
<1>3. t \in Int /\ -Radix <= t /\ t < Radix /\ Radix \in Nat
  BY SizeAssumption
<1> HIDE DEF Word, Half, t
<1>4. CASE t < 0
  <2>1. d = t + Word
    BY <1>1, <1>3, <1>4
  <2>2. d \in Nat /\ Half <= d /\ d < 2 * Half
    BY <1>1, <1>3, <1>4, <2>1
  <2> HIDE DEF d
  <2>3. d \div Half = 1
    BY <1>1, <2>2
  <2> QED
    BY <1>2, <1>4, <2>3 DEF t
<1>5. CASE ~(t < 0)
  <2>1. d = t
    BY <1>1, <1>3, <1>5
  <2>2. d \in Nat /\ d < Half
    BY <1>1, <1>3, <1>5, <2>1
  <2> HIDE DEF d
  <2>3. d \div Half = 0
    BY <1>1, <2>2
  <2> QED
    BY <1>2, <1>5, <2>3 DEF t
<1> QED
  BY <1>4, <1>5

(* What leaves a byte is a bit, whatever enters it.                        *)
LEMMA BorrowIsBit ==
  ASSUME NEW s \in Strings, NEW n \in Strings, NEW i \in 1..Length, NEW y \in Int
  PROVE  Borrow(s, n, i, y) \in 0..1
<1> DEFINE Word == Radix * Radix
           Half == Word \div 2
           d == (s[i] - n[i] - y) % Word
<1>1. Half \in Nat /\ Half > 0 /\ Word = 2 * Half
  BY HalfWord
<1>2. s[i] - n[i] - y \in Int
  BY Bytes
<1> HIDE DEF Word, Half
<1>3. d \in Nat
  BY <1>1, <1>2
<1> HIDE DEF d
<1>4. d \div Half \in Int
  BY <1>1, <1>3
<1>5. (d \div Half) % 2 \in 0..1
  BY <1>4
<1> QED
  BY <1>5 DEF Borrow, d, Half, Word

(* The bits scalarInRange computes from the last byte to the first.        *)
LEMMA BorrowSteps ==
  ASSUME NEW s \in Strings, NEW n \in Strings
  PROVE  \E w \in [1..(Length + 1) -> 0..1] :
           /\ w[Length + 1] = 0 /\ \A i \in 1..Length : w[i] = Borrow(s, n, i, w[i + 1])
           /\ scalarInRange(s, n) <=> (\E i \in 1..Length : s[i] # 0) /\ w[1] = 1
<1> DEFINE Subtracts(w) ==
             w = [i \in 1..(Length + 1) |->
                    IF i = Length + 1 THEN 0 ELSE Borrow(s, n, i, w[i + 1])]
           bits == CHOOSE w : Subtracts(w)
           step == [p \in (1..Length) \X Nat |-> Borrow(s, n, Length + 1 - p[1], p[2])]
<1>1. Length \in Nat
  BY SizeAssumption
<1>2. step \in [(1..Length) \X Nat -> Nat]
  <2>1. \A p \in (1..Length) \X Nat : Borrow(s, n, Length + 1 - p[1], p[2]) \in Nat
    <3> TAKE p \in (1..Length) \X Nat
    <3>1. Length + 1 - p[1] \in 1..Length /\ p[2] \in Int
      BY <1>1
    <3>2. Borrow(s, n, Length + 1 - p[1], p[2]) \in 0..1
      BY <3>1, BorrowIsBit
    <3> QED
      BY <3>2
  <2> QED
    BY <2>1
<1>3. PICK f \in [0..Length -> Nat] : f[0] = 0 /\ \A i \in 1..Length : f[i] = step[<<i, f[i - 1]>>]
  <2> HIDE DEF step
  <2> QED
    BY ONLY <1>1, <1>2, Stepwise
<1> DEFINE g == [i \in 1..(Length + 1) |-> f[Length + 1 - i]]
<1>4. \A i \in 1..Length : g[i] = Borrow(s, n, i, g[i + 1])
  <2> TAKE i \in 1..Length
  <2> DEFINE j == Length + 1 - i
  <2>1. /\ j \in 1..Length /\ j - 1 \in 0..Length /\ Length + 1 - j = i
        /\ j - 1 = Length + 1 - (i + 1)
        /\ i \in 1..(Length + 1) /\ i + 1 \in 1..(Length + 1)
    BY <1>1
  <2>2. g[i] = f[j] /\ g[i + 1] = f[j - 1]
    BY <2>1
  <2>3. step[<<j, f[j - 1]>>] = Borrow(s, n, Length + 1 - j, f[j - 1])
    <3>1. f[j - 1] \in Nat
      BY <2>1
    <3> HIDE DEF j
    <3> QED
      BY <2>1, <3>1
  <2> HIDE DEF j, step, g
  <2> QED
    BY <1>3, <2>1, <2>2, <2>3
<1>5. g[Length + 1] = 0
  <2>1. Length + 1 \in 1..(Length + 1) /\ Length + 1 - (Length + 1) = 0
    BY <1>1
  <2> HIDE DEF step
  <2> QED
    BY <1>3, <2>1
<1>6. Subtracts(g)
  <2>1. \A i \in 1..(Length + 1) :
          g[i] = IF i = Length + 1 THEN 0 ELSE Borrow(s, n, i, g[i + 1])
    <3> TAKE i \in 1..(Length + 1)
    <3>1. CASE i = Length + 1
      BY <1>5, <3>1
    <3>2. CASE i # Length + 1
      <4>1. i \in 1..Length
        BY <1>1, <3>2
      <4> HIDE DEF g
      <4> QED
        BY <1>4, <3>2, <4>1
    <3> QED
      BY <3>1, <3>2
  <2>2. g = [i \in 1..(Length + 1) |-> g[i]]
    OBVIOUS
  <2> HIDE DEF g, step
  <2> QED
    BY <2>1, <2>2
<1>7. Subtracts(bits)
  <2> HIDE DEF Subtracts
  <2> QED
    BY <1>6, Zenon
<1>8. scalarInRange(s, n) <=> (\E i \in 1..Length : s[i] # 0) /\ bits[1] = 1
  BY Zenon DEF scalarInRange
<1> HIDE DEF bits, step, g
<1>9. \A i \in 1..(Length + 1) :
        bits[i] = IF i = Length + 1 THEN 0 ELSE Borrow(s, n, i, bits[i + 1])
  BY <1>7, Zenon
<1>10. bits = [i \in 1..(Length + 1) |-> bits[i]]
  BY <1>7
<1> HIDE DEF Subtracts
<1>11. bits[Length + 1] = 0
  BY <1>1, <1>9
<1>12. \A i \in 1..Length : bits[i] = Borrow(s, n, i, bits[i + 1])
  <2> TAKE i \in 1..Length
  <2>1. i \in 1..(Length + 1) /\ i # Length + 1
    BY <1>1
  <2> QED
    BY <1>9, <2>1
<1>13. \A j \in 0..Length : bits[Length + 1 - j] \in 0..1
  <2> DEFINE odd == {j \in 0..Length : bits[Length + 1 - j] \notin 0..1}
  <2>1. SUFFICES ASSUME odd # {} PROVE FALSE
    OBVIOUS
  <2>2. PICK m \in odd : \A k \in odd : m <= k
    <3>1. odd \in SUBSET Nat
      OBVIOUS
    <3> HIDE DEF odd
    <3> QED
      BY <2>1, <3>1, HasLeast
  <2>3. m # 0
    BY <1>1, <1>11
  <2>4. m \in 1..Length /\ m - 1 \in 0..Length /\ ~(m <= m - 1)
    BY <1>1, <2>3
  <2>5. bits[Length + 1 - (m - 1)] \in 0..1
    BY <2>2, <2>4
  <2>6. Length + 1 - m \in 1..Length /\ Length + 1 - m + 1 = Length + 1 - (m - 1)
    BY <1>1, <2>4
  <2>7. bits[Length + 1 - m] = Borrow(s, n, Length + 1 - m, bits[Length + 1 - (m - 1)])
    BY <1>12, <2>6
  <2>8. bits[Length + 1 - m] \in 0..1
    BY <2>5, <2>6, <2>7, BorrowIsBit
  <2> QED
    BY <2>8
<1>14. bits \in [1..(Length + 1) -> 0..1]
  <2>1. \A i \in 1..(Length + 1) : bits[i] \in 0..1
    <3> TAKE i \in 1..(Length + 1)
    <3>1. Length + 1 - i \in 0..Length /\ Length + 1 - (Length + 1 - i) = i
      BY <1>1
    <3> QED
      BY <1>13, <3>1
  <2> QED
    BY <1>10, <2>1
<1> QED
  BY <1>8, <1>11, <1>12, <1>14

(* A byte more makes a number 0 only if both are.                          *)
LEMMA ZeroShifts ==
  ASSUME NEW R \in Nat, R > 0, NEW a \in Nat, NEW p \in Nat
  PROVE  a * R + p = 0 <=> a = 0 /\ p = 0
<1>1. CASE a = 0
  <2>1. a * R = 0
    BY <1>1
  <2> QED
    BY <1>1, <2>1
<1>2. CASE a > 0
  <2>1. a * R > 0
    BY <1>2
  <2> QED
    BY <1>2, <2>1
<1> QED
  BY <1>1, <1>2

(* Two numbers subtracted, their last bytes apart.                         *)
LEMMA LastBytesApart ==
  ASSUME NEW R \in Nat, NEW a \in Nat, NEW c \in Nat,
         NEW p \in 0..(R - 1), NEW q \in 0..(R - 1), NEW y \in 0..1
  PROVE  /\ (a * R + p) - (c * R + q) - y = (a - c) * R + (p - q - y)
         /\ -R <= p - q - y /\ p - q - y < R
  OBVIOUS

(* Only the string of zeros has the value 0.                               *)
LEMMA ZeroIsAllZeros ==
  ASSUME NEW b \in Strings
  PROVE  ValueOf(b) \in Nat /\ (ValueOf(b) = 0 <=> \A i \in 1..Length : b[i] = 0)
<1>1. PICK v \in [0..Length -> Nat] :
        /\ v[0] = 0 /\ \A i \in 1..Length : v[i] = v[i - 1] * Radix + b[i]
        /\ ValueOf(b) = v[Length]
  BY ValueSteps
<1>2. Length \in Nat /\ Radix \in Nat /\ Radix > 0
  BY SizeAssumption, ByteAssumption
<1>3. \A i \in 1..Length : v[i] = 0 <=> v[i - 1] = 0 /\ b[i] = 0
  <2> TAKE i \in 1..Length
  <2>1. v[i - 1] \in Nat /\ v[i] = v[i - 1] * Radix + b[i] /\ b[i] \in Nat
    BY <1>1, <1>2, Bytes
  <2> QED
    BY ONLY <1>2, <2>1, ZeroShifts
<1> DEFINE Zeros(k) == v[k] = 0 <=> \A i \in 1..k : b[i] = 0
           odd == {k \in 0..Length : ~Zeros(k)}
<1>4. odd = {}
  <2>1. SUFFICES ASSUME odd # {} PROVE FALSE
    OBVIOUS
  <2>2. PICK m \in odd : \A k \in odd : m <= k
    <3>1. odd \in SUBSET Nat
      OBVIOUS
    <3> HIDE DEF odd
    <3> QED
      BY <2>1, <3>1, HasLeast
  <2>3. m # 0
    BY <1>1
  <2>4. m \in 1..Length /\ m - 1 \in 0..Length /\ ~(m <= m - 1)
    BY <1>2, <2>3
  <2>5. Zeros(m - 1)
    <3> HIDE DEF Zeros
    <3> QED
      BY <2>2, <2>4
  <2>6. (\A i \in 1..m : b[i] = 0) <=> b[m] = 0 /\ \A i \in 1..(m - 1) : b[i] = 0
    <3>1. m \in 1..m /\ \A i \in 1..m : i = m \/ i \in 1..(m - 1)
      BY <2>4
    <3>2. \A i \in 1..(m - 1) : i \in 1..m
      BY <2>4
    <3> QED
      BY <3>1, <3>2
  <2>7. Zeros(m)
    BY <1>3, <2>4, <2>5, <2>6
  <2>8. ~Zeros(m)
    OBVIOUS
  <2> QED
    BY <2>7, <2>8
<1>5. Zeros(Length)
  <2>1. Length \in 0..Length
    BY <1>2
  <2> HIDE DEF Zeros
  <2> QED
    BY <1>4, <2>1
<1> QED
  BY <1>1, <1>2, <1>5

(* One byte of a long subtraction: with what the bytes above it make, a    *)
(* borrow counts for as much as the byte it comes out of.                  *)
LEMMA BorrowCarries ==
  ASSUME NEW D \in Int, NEW t \in Int, -Radix <= t, t < Radix
  PROVE  D * Radix + t < 0 <=> D - (IF t < 0 THEN 1 ELSE 0) < 0
<1>1. Radix \in Nat /\ Radix > 0
  BY SizeAssumption, ByteAssumption
<1>2. D * Radix \in Int
  BY <1>1
<1>3. CASE D = 0
  <2>1. D * Radix = 0
    BY <1>1, <1>3
  <2> QED
    BY <1>3, <2>1
<1>4. CASE D > 0
  <2>1. D * Radix >= Radix
    BY <1>1, <1>4
  <2> QED
    BY <1>1, <1>2, <1>4, <2>1
<1>5. CASE D < 0
  <2>1. D * Radix <= -Radix
    <3>1. (-D) * Radix >= Radix
      BY <1>1, <1>5
    <3>2. D * Radix = -((-D) * Radix)
      BY <1>1
    <3>3. (-D) * Radix \in Int
      BY <1>1
    <3> QED
      BY <1>1, <3>1, <3>2, <3>3
  <2> QED
    BY <1>1, <1>2, <1>5, <2>1
<1> QED
  BY <1>3, <1>4, <1>5

(* The borrow out of the top says which string is the smaller.             *)
LEMMA TopBorrowCompares ==
  ASSUME NEW s \in Strings, NEW n \in Strings,
         NEW w \in [1..(Length + 1) -> 0..1], w[Length + 1] = 0,
         \A i \in 1..Length : w[i] = Borrow(s, n, i, w[i + 1])
  PROVE  w[1] = 1 <=> ValueOf(s) < ValueOf(n)
<1>1. PICK u \in [0..Length -> Nat] :
        /\ u[0] = 0 /\ \A i \in 1..Length : u[i] = u[i - 1] * Radix + s[i]
        /\ ValueOf(s) = u[Length]
  BY ValueSteps
<1>2. PICK v \in [0..Length -> Nat] :
        /\ v[0] = 0 /\ \A i \in 1..Length : v[i] = v[i - 1] * Radix + n[i]
        /\ ValueOf(n) = v[Length]
  BY ValueSteps
<1>3. Length \in Nat /\ Radix \in Nat
  BY SizeAssumption
<1> DEFINE Less(i) == u[i] - v[i] - w[i + 1] < 0
           odd == {j \in 0..Length : ~(ValueOf(s) < ValueOf(n) <=> Less(Length - j))}
<1>4. \A i \in 1..Length : Less(i) <=> Less(i - 1)
  <2> TAKE i \in 1..Length
  <2> DEFINE D == u[i - 1] - v[i - 1]
             t == s[i] - n[i] - w[i + 1]
  <2>1. /\ i - 1 \in 0..Length /\ i - 1 + 1 = i /\ i \in 0..Length
        /\ i \in 1..(Length + 1) /\ i + 1 \in 1..(Length + 1)
    BY <1>3
  <2>2. u[i - 1] \in Nat /\ v[i - 1] \in Nat /\ w[i + 1] \in 0..1
    BY <2>1
  <2>3. s[i] \in 0..(Radix - 1) /\ n[i] \in 0..(Radix - 1)
    BY DEF Strings
  <2>4. /\ u[i] = u[i - 1] * Radix + s[i] /\ v[i] = v[i - 1] * Radix + n[i]
        /\ w[i] = Borrow(s, n, i, w[i + 1])
    BY <1>1, <1>2
  <2>5. \A a, c \in Nat, p, q \in 0..(Radix - 1), y \in 0..1 :
          /\ (a * Radix + p) - (c * Radix + q) - y = (a - c) * Radix + (p - q - y)
          /\ -Radix <= p - q - y /\ p - q - y < Radix
    BY <1>3, LastBytesApart
  <2>6. /\ (u[i - 1] * Radix + s[i]) - (v[i - 1] * Radix + n[i]) - w[i + 1] = D * Radix + t
        /\ -Radix <= t /\ t < Radix
    BY ONLY <2>2, <2>3, <2>5
  <2>7. D \in Int /\ t \in Int /\ s[i] \in Int /\ n[i] \in Int /\ w[i + 1] \in Int
    <3>1. s[i] \in Int /\ n[i] \in Int
      BY <2>3
    <3>2. w[i + 1] \in Int
      BY <2>2
    <3>3. D \in Int
      BY <2>2
    <3> QED
      BY <3>1, <3>2, <3>3
  <2>8. w[i] = IF t < 0 THEN 1 ELSE 0
    BY <2>4, <2>6, <2>7, BorrowIsSign
  <2>9. u[i] - v[i] - w[i + 1] = D * Radix + t
    BY <2>4, <2>6
  <2> HIDE DEF D, t
  <2>10. D * Radix + t < 0 <=> D - w[i] < 0
    BY <2>6, <2>7, <2>8, BorrowCarries
  <2> QED
    BY <2>1, <2>9, <2>10 DEF D
<1>5. Less(Length) <=> ValueOf(s) < ValueOf(n)
  <2>1. Length \in 0..Length /\ u[Length] \in Nat /\ v[Length] \in Nat
    BY <1>3
  <2> QED
    BY <1>1, <1>2, <2>1
<1>6. Less(0) <=> w[1] = 1
  <2>1. w[1] \in 0..1
    BY <1>3
  <2> QED
    BY <1>1, <1>2, <2>1
<1> HIDE DEF Less
<1>7. odd = {}
  <2>1. SUFFICES ASSUME odd # {} PROVE FALSE
    OBVIOUS
  <2>2. PICK m \in odd : \A k \in odd : m <= k
    <3>1. odd \in SUBSET Nat
      OBVIOUS
    <3> HIDE DEF odd
    <3> QED
      BY <2>1, <3>1, HasLeast
  <2>3. m # 0
    BY <1>3, <1>5
  <2>4. /\ m \in 1..Length /\ m - 1 \in 0..Length /\ ~(m <= m - 1)
        /\ Length - (m - 1) \in 1..Length /\ Length - (m - 1) - 1 = Length - m
    BY <1>3, <2>3
  <2>5. ValueOf(s) < ValueOf(n) <=> Less(Length - (m - 1))
    BY <2>2, <2>4
  <2>6. Less(Length - (m - 1)) <=> Less(Length - m)
    BY <1>4, <2>4
  <2>7. m \notin odd
    BY <2>5, <2>6
  <2> QED
    BY <2>7
<1>8. ValueOf(s) < ValueOf(n) <=> Less(0)
  <2>1. Length \in 0..Length /\ Length - Length = 0
    BY <1>3
  <2> QED
    BY <1>7, <2>1
<1> QED
  BY <1>6, <1>8

(* The comparison that does not look at the bytes and the one that does.   *)
LEMMA RangeCheck ==
  ASSUME NEW s \in Strings, NEW n \in Strings
  PROVE  scalarInRange(s, n) <=> 0 < ValueOf(s) /\ ValueOf(s) < ValueOf(n)
<1>1. PICK w \in [1..(Length + 1) -> 0..1] :
        /\ w[Length + 1] = 0 /\ \A i \in 1..Length : w[i] = Borrow(s, n, i, w[i + 1])
        /\ scalarInRange(s, n) <=> (\E i \in 1..Length : s[i] # 0) /\ w[1] = 1
  BY BorrowSteps
<1>2. w[1] = 1 <=> ValueOf(s) < ValueOf(n)
  BY <1>1, TopBorrowCompares
<1>3. ValueOf(s) \in Nat /\ (0 < ValueOf(s) <=> \E i \in 1..Length : s[i] # 0)
  BY ZeroIsAllZeros
<1> QED
  BY <1>1, <1>2, <1>3

(* scalarInRange accepts the byte strings the rejection sampling draws,    *)
(* and no others, for every even radix, every length and every order.      *)
THEOREM RangeCheckAgrees == Spec => []RangeCheckIsExact
<1>1. TypeOK => RangeCheckIsExact
  <2> SUFFICES ASSUME TypeOK, scalar # None
               PROVE  scalarInRange(scalar, OrderBytes) <=> scalar \in RandomScalar
    BY DEF RangeCheckIsExact
  <2>1. scalar \in Strings /\ OrderBytes \in Strings /\ ValueOf(OrderBytes) = Order
    BY SizeAssumption DEF TypeOK
  <2> QED
    BY <2>1, RangeCheck DEF RandomScalar
<1>2. IInv => TypeOK
  BY DEF IInv
<1> QED
  BY <1>1, <1>2, ProtocolInvariant, PTL
=============================================================================
