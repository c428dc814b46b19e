--------------------------------- MODULE MR1 ---------------------------------
(***************************************************************************)
(* The MR-1 protocol (mr1.go, group.go): enrolment hides a secret behind   *)
(* K = c.S, a recovery blinds C with an ephemeral point, the key holder    *)
(* multiplies the sum by its scalar, and the machine takes the blinding    *)
(* off again.  A phone answers with the x-coordinate only, which leaves    *)
(* the sign open; the AEAD tag decides.                                    *)
(*                                                                         *)
(* The group is any of prime order, the points and the x-coordinates are   *)
(* values of their own.  Scalars are byte strings: they are read from      *)
(* files, and not every string is one.  Hashing and HKDF are injective     *)
(* and the AEAD opens under its own key only.                              *)
(***************************************************************************)
EXTENDS Integers, Sequences

CONSTANTS
  Points, Infinity, Base,          \* the group, written additively
  Plus(_, _), Times(_, _), XOf(_), \* its operations
  Order,                           \* a prime
  Radix, Length,                   \* of a byte string: 256 and 32
  OrderBytes,                      \* Order as one
  Multipliers,                     \* the numbers that fit in one
  None

Scalars == 1..(Order - 1)
Strings == [1..Length -> 0..(Radix - 1)]

(* Big-endian.                                                             *)
ValueOf(b) ==
  LET v[i \in 0..Length] == IF i = 0 THEN 0 ELSE v[i - 1] * Radix + b[i]
  IN  v[Length]

ASSUME SizeAssumption ==
  /\ Order \in Nat /\ Order > 1 /\ Scalars \subseteq Multipliers
  /\ Radix \in Nat /\ Length \in Nat /\ OrderBytes \in Strings
  /\ ValueOf(OrderBytes) = Order
  /\ \A b \in Strings : ValueOf(b) \in Multipliers

(* A byte has a top bit: that of two bytes is the sign of a difference.     *)
ASSUME ByteAssumption == Radix > 0 /\ Radix % 2 = 0

ASSUME NoneAssumption == None \notin Points /\ None \notin Strings

ASSUME GroupAssumption ==
  /\ Infinity \in Points /\ Base \in Points /\ Base # Infinity
  /\ \A P, Q \in Points : Plus(P, Q) \in Points /\ Plus(P, Q) = Plus(Q, P)
  /\ \A P, Q, R \in Points : Plus(Plus(P, Q), R) = Plus(P, Plus(Q, R))
  /\ \A P \in Points : Plus(P, Infinity) = P /\ Plus(P, Times(Order - 1, P)) = Infinity
  /\ \A k \in Multipliers, P \in Points : Times(k, P) \in Points
  /\ \A k \in Multipliers, P, Q \in Points : Times(k, Plus(P, Q)) = Plus(Times(k, P), Times(k, Q))
  /\ \A j, k \in Multipliers, P \in Points : Times(j, Times(k, P)) = Times(k, Times(j, P))
  /\ \A k \in Scalars, P \in Points \ {Infinity} : Times(k, P) # Infinity
  /\ \A P, Q \in Points \ {Infinity} : XOf(P) = XOf(Q) <=> Q \in {P, Times(Order - 1, P)}

VARIABLES
  scalar,  \* the bytes in the key holder's file
  public,  \* the point it saved beside them
  rec,     \* the recipient in the header
  e,       \* the ephemeral scalar
  x,       \* the challenge point
  answer,  \* the last answer to it, and whose bytes it was computed with
  outcome  \* of the attempt

vars == <<scalar, public, rec, e, x, answer, outcome>>

Wiped == 0

-----------------------------------------------------------------------------
(* Scalars (group.go).                                                     *)

(* Mutant of Borrow: the borrow is not carried into the next byte. *)
BorrowAlone(s, n, i, borrow) == IF s[i] < n[i] THEN 1 ELSE 0

(* Out of byte i of s - n, in sixteen bits: two bytes, of which the top    *)
(* bit is the sign.                                                        *)
Borrow(s, n, i, borrow) ==
  LET Word == Radix * Radix
      d == (s[i] - n[i] - borrow) % Word
  IN  (d \div (Word \div 2)) % 2

(* In [1, n-1]: not zero, and s - n borrows from beyond the top.           *)
scalarInRange(s, n) ==
  LET borrow[i \in 1..(Length + 1)] ==
        IF i = Length + 1 THEN 0 ELSE Borrow(s, n, i, borrow[i + 1])
  IN  (\E i \in 1..Length : s[i] # 0) /\ borrow[1] = 1

(* The draws that randomScalarFrom does not reject.                        *)
RandomScalar == {b \in Strings : ValueOf(b) > 0 /\ ValueOf(b) < Order}

Public(b) == Times(ValueOf(b), Base)

-----------------------------------------------------------------------------
(* Points.                                                                 *)

(* Multiplication by n - 1.                                                *)
Negate(P) == IF P = Infinity THEN Infinity ELSE Times(Order - 1, P)

LiftX(c) == {P \in Points \ {Infinity} : XOf(P) = c}

(* The point at infinity has no x-coordinate, and so no key.               *)
HasKey(K) == K # Infinity
deriveKey(K, kid) == <<XOf(K), kid>>

ValidateChallengePoint(P) == P # Infinity

-----------------------------------------------------------------------------
(* The key holder.                                                         *)

(* NewKeyPair, or the key file of the laptop; a new key may replace one    *)
(* that is enrolled.                                                       *)
MakeKey ==
  /\ \E b \in RandomScalar : scalar' = b /\ public' = Public(b)
  /\ UNCHANGED <<rec, e, x, answer, outcome>>

(* The file holds other bytes than it did: written by hand, restored, or   *)
(* replaced when the process died before the point beside it was.          *)
FileChanges ==
  /\ scalar # None
  /\ \E b \in Strings : scalar' = b
  /\ UNCHANGED <<public, rec, e, x, answer, outcome>>

(* The laptop prints the point of whatever its file holds.                 *)
PublicFromFile ==
  /\ scalar # None
  /\ public' = Public(scalar)
  /\ UNCHANGED <<scalar, rec, e, x, answer, outcome>>

(* The laptop answers with the point.                                      *)
AnswerFullPoint ==
  /\ scalar # None /\ x # None /\ answer = None /\ outcome = "pending"
  /\ ValidateChallengePoint(x)
  /\ answer' = [full |-> TRUE, y |-> Times(ValueOf(scalar), x),
                by |-> scalar, point |-> public]
  /\ UNCHANGED <<scalar, public, rec, e, x, outcome>>

checkKeyPair(b, expected) == scalarInRange(b, OrderBytes) /\ Public(b) = expected

(* The phone, with the x-coordinate.                                       *)
AnswerXOnly ==
  /\ scalar # None /\ x # None /\ answer = None /\ outcome = "pending"
  /\ checkKeyPair(scalar, public) /\ ValidateChallengePoint(x)
  /\ LET product == Times(ValueOf(scalar), x)
     IN  /\ product # Infinity
         /\ answer' = [full |-> FALSE, y |-> XOf(product),
                       by |-> scalar, point |-> public]
  /\ UNCHANGED <<scalar, public, rec, e, x, outcome>>

-----------------------------------------------------------------------------
(* The machine.                                                            *)

(* A degenerate public point is refused: there is no key.                  *)
Enrol ==
  /\ rec = None /\ public # None
  /\ \E c \in Scalars :
       /\ HasKey(Times(c, public))
       /\ rec' = [S |-> public, C |-> Times(c, Base), ct |-> deriveKey(Times(c, public), public)]
  /\ UNCHANGED <<scalar, public, e, x, answer, outcome>>

ChallengeStart ==
  /\ rec # None /\ e = Wiped
  /\ e' \in Scalars
  /\ x' = Plus(rec.C, Times(e', Base))
  /\ answer' = None /\ outcome' = "pending"
  /\ UNCHANGED <<scalar, public, rec>>

(* Mutant of Unblinded: the blinding is added once more. *)
UnblindedTwice(y) == Plus(y, Times(e, rec.S))

(* K' = Y - e.S                                                            *)
Unblinded(y) == Plus(y, Negate(Times(e, rec.S)))

finishWithY(y) ==
  LET K == Unblinded(y)
  IN  HasKey(K) /\ deriveKey(K, rec.S) = rec.ct

(* An x-coordinate is lifted to both points.                               *)
Candidates == IF answer.full THEN {answer.y} ELSE LiftX(answer.y)

(* The deferred Wipe.                                                      *)
WipesE == e' = Wiped

Finish ==
  /\ answer # None /\ outcome = "pending"
  /\ outcome' = IF \E y \in Candidates : finishWithY(y) THEN "recovered" ELSE "failed"
  /\ WipesE
  /\ UNCHANGED <<scalar, public, rec, x, answer>>

(* No answer comes.                                                        *)
Abandon ==
  /\ x # None /\ answer = None /\ outcome = "pending"
  /\ outcome' = "abandoned"
  /\ WipesE
  /\ UNCHANGED <<scalar, public, rec, x, answer>>

Init ==
  /\ scalar = None /\ public = None /\ rec = None
  /\ e = Wiped /\ x = None /\ answer = None /\ outcome = "pending"

Next ==
  \/ MakeKey \/ FileChanges \/ PublicFromFile \/ AnswerFullPoint \/ AnswerXOnly
  \/ Enrol \/ ChallengeStart \/ Finish \/ Abandon

Spec == Init /\ [][Next]_vars

-----------------------------------------------------------------------------
(* Properties. *)

TypeOK ==
  /\ scalar \in Strings \cup {None}
  /\ public \in Points \cup {None}
  /\ e \in Scalars \cup {Wiped}
  /\ outcome \in {"pending", "recovered", "failed", "abandoned"}

(* What Enrol leaves in the header, its own scalar being gone.             *)
Enrolled ==
  rec # None =>
    /\ rec.S \in Points \ {Infinity}
    /\ \E c \in Scalars :
         rec = [S |-> rec.S, C |-> Times(c, Base), ct |-> deriveKey(Times(c, rec.S), rec.S)]

(* finishWithY: an answer computed with the scalar behind S opens the      *)
(* volume, whatever the sign of the point, the enrolment and the challenge *)
(* are; so a failure means another key.                                    *)
RightKeyRecovers == outcome = "failed" => Public(answer.by) # rec.S

(* Session.AnswerWithScalar: what the phone sends opens the volume if the  *)
(* point it shows is the one enrolled; bytes that have been changed are    *)
(* noticed before.                                                         *)
PhoneAnswersOpen == outcome = "failed" /\ ~answer.full => answer.point # rec.S

(* scalarInRange, which compares without looking, and the rejection        *)
(* sampling, which compares, agree on what a private key is.               *)
RangeCheckIsExact ==
  scalar # None => (scalarInRange(scalar, OrderBytes) <=> scalar \in RandomScalar)

(* What is known of a challenge and its answer.                            *)
Challenged ==
  /\ x # None => rec # None /\ x \in Points
  /\ x # None /\ outcome = "pending" => e \in Scalars /\ x = Plus(rec.C, Times(e, Base))
  /\ outcome # "pending" => x # None /\ e = Wiped

Answered ==
  answer # None =>
    /\ x # None /\ answer.by \in Strings
    /\ answer.full \in BOOLEAN
    /\ answer.full => answer.y = Times(ValueOf(answer.by), x)
    /\ ~answer.full =>
         /\ Times(ValueOf(answer.by), x) # Infinity
         /\ answer.y = XOf(Times(ValueOf(answer.by), x))
         /\ Public(answer.by) = answer.point

(* The inductive invariant.                                                *)
IInv ==
  /\ TypeOK /\ Enrolled /\ Challenged /\ Answered
  /\ RightKeyRecovers /\ PhoneAnswersOpen
=============================================================================
