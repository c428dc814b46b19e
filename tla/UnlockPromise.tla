--------------------------- MODULE UnlockPromise ---------------------------
(***************************************************************************)
(* What one unlock attempt promises the person holding the key, with the   *)
(* network, the timers and the two programs left out: the machine decides  *)
(* an answer at most once, a definite verdict is only ever given after the *)
(* decision and agrees with it, and the only other thing a person may be   *)
(* told is that the outcome is not known.                                  *)
(***************************************************************************)
CONSTANT Sessions      \* unlock attempts, one mobile.Session each

VARIABLES
  truth,    \* what became of the answer: "open", "delivered" or "refused"
  told      \* the screen: "nothing", "unlocked", "rejected" or "unknown"

promiseVars == <<truth, told>>

Init ==
  /\ truth = [s \in Sessions |-> "open"]
  /\ told = [s \in Sessions |-> "nothing"]

(* The machine uses the answer, or finds that it cannot.  It may do so     *)
(* after the key holder has given up waiting, so told is not consulted.    *)
Settle(s) ==
  /\ truth[s] = "open"
  /\ \E v \in {"delivered", "refused"} : truth' = [truth EXCEPT ![s] = v]
  /\ UNCHANGED told

TellUnlocked(s) ==
  /\ told[s] = "nothing"
  /\ truth[s] = "delivered"
  /\ told' = [told EXCEPT ![s] = "unlocked"]
  /\ UNCHANGED truth

TellRejected(s) ==
  /\ told[s] = "nothing"
  /\ truth[s] = "refused"
  /\ told' = [told EXCEPT ![s] = "rejected"]
  /\ UNCHANGED truth

TellUnknown(s) ==
  /\ told[s] = "nothing"
  /\ told' = [told EXCEPT ![s] = "unknown"]
  /\ UNCHANGED truth

Next == \E s \in Sessions :
  \/ Settle(s)
  \/ TellUnlocked(s)
  \/ TellRejected(s)
  \/ TellUnknown(s)

Spec == Init /\ [][Next]_promiseVars
=============================================================================
