-------------------------------- MODULE Link --------------------------------
(***************************************************************************)
(* The connection between the machine and a key holder's attempt, as the   *)
(* transports hand it out: one per attempt at a time, each end closed on   *)
(* its own, and able to die without either end noticing, so that a write   *)
(* into it is accepted and goes nowhere.                                   *)
(***************************************************************************)
EXTENDS Sequences

CONSTANT
  Sessions      \* the key holders' attempts to unlock, or to pair

VARIABLES
  up,         \* the network still joins the two ends
  mOpen,      \* the machine has not closed its end
  pOpen,      \* the key holder has not closed its end
  toP, toM    \* messages in flight, to the key holder and to the machine

linkVars == <<up, mOpen, pOpen, toP, toM>>

LinkInit ==
  /\ up = [s \in Sessions |-> FALSE]
  /\ mOpen = [s \in Sessions |-> FALSE]
  /\ pOpen = [s \in Sessions |-> FALSE]
  /\ toP = [s \in Sessions |-> <<>>]
  /\ toM = [s \in Sessions |-> <<>>]

(* The messages of a channel. *)
InFlight(q) == {q[i] : i \in DOMAIN q}

-----------------------------------------------------------------------------
Deliverable(s) == up[s] /\ mOpen[s] /\ pOpen[s]

(* A write succeeds unless this end is closed; if the other end or the     *)
(* network is gone it either fails or is accepted and lost.                *)
MachineWrites(s, m) ==
  /\ mOpen[s]
  /\ toP' = IF Deliverable(s) THEN [toP EXCEPT ![s] = Append(@, m)] ELSE toP
MachineWriteFails(s) == ~Deliverable(s) /\ UNCHANGED toP

PhoneWrites(s, m) ==
  /\ pOpen[s]
  /\ toM' = IF Deliverable(s) THEN [toM EXCEPT ![s] = Append(@, m)] ELSE toM
PhoneWriteFails(s) == ~Deliverable(s) /\ UNCHANGED toM

(* A read returns what has arrived; it fails once this end is closed, or   *)
(* when nothing is left and the other end is gone.  That the network is    *)
(* gone it may notice, or not: see FairSpec.                               *)
MachineReads(s, m) ==
  /\ mOpen[s] /\ toM[s] # <<>> /\ m = Head(toM[s])
  /\ toM' = [toM EXCEPT ![s] = Tail(@)]
MachineReadFails(s) ==
  /\ \/ ~mOpen[s]
     \/ toM[s] = <<>> /\ (~up[s] \/ ~pOpen[s])
  /\ UNCHANGED toM

PhoneReads(s, m) ==
  /\ pOpen[s] /\ toP[s] # <<>> /\ m = Head(toP[s])
  /\ toP' = [toP EXCEPT ![s] = Tail(@)]
PhoneReadFails(s) ==
  \/ ~pOpen[s]
  \/ toP[s] = <<>> /\ (~up[s] \/ ~mOpen[s])

(* Closing the machine's end drops the relay control connection, and with  *)
(* it, possibly, what the key holder had not yet read.                     *)
MachineCloses(s) ==
  /\ mOpen' = [mOpen EXCEPT ![s] = FALSE]
  /\ \E lost \in BOOLEAN :
       toP' = IF lost THEN [toP EXCEPT ![s] = <<>>] ELSE toP

(* Closing it again only fails when it is a TCP connection.  When it came  *)
(* over the relay every Close runs onClose, whose close(stop) panics the   *)
(* second time: which of the two it is, is left open.                      *)
ClosingAgainPanics(s) == ~mOpen[s]

PhoneCloses(s) ==
  /\ pOpen' = [pOpen EXCEPT ![s] = FALSE]
  /\ toP' = [toP EXCEPT ![s] = <<>>]

(* The transport connects the ends m and p anew. *)
FreshLink(s, m, p) ==
  /\ up' = [up EXCEPT ![s] = TRUE]
  /\ mOpen' = [mOpen EXCEPT ![s] = m]
  /\ pOpen' = [pOpen EXCEPT ![s] = p]
  /\ toP' = [toP EXCEPT ![s] = <<>>]
  /\ toM' = [toM EXCEPT ![s] = <<>>]
=============================================================================
