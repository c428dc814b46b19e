---------------------------- MODULE MCUnlockFlow ----------------------------
(***************************************************************************)
(* Two dials, two approvals and one errand of the unlock screen.           *)
(***************************************************************************)
EXTENDS UnlockFlow

(* The bound: the flow is followed until it first loses hold of a session. *)
NoMishap == mishaps = {}
=============================================================================
