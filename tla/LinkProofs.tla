----------------------------- MODULE LinkProofs -----------------------------
(* What the operations of a connection do to the messages of a channel, for *)
(* any set S of messages.                                                   *)
EXTENDS Link, Integers, TLAPS

Channels(S) == [Sessions -> Seq(S)]

(* Appending adds one message, taking the first adds none.                  *)
LEMMA InFlightOf ==
  ASSUME NEW S, NEW q \in Seq(S)
  PROVE  /\ InFlight(<<>>) = {}
         /\ \A m \in S : InFlight(Append(q, m)) = InFlight(q) \cup {m}
         /\ q # <<>> => /\ Head(q) \in InFlight(q)
                        /\ Head(q) \in S
                        /\ Tail(q) \in Seq(S)
                        /\ InFlight(Tail(q)) \subseteq InFlight(q)
<1>1. InFlight(<<>>) = {}
  BY DEF InFlight
<1>2. ASSUME NEW m \in S PROVE InFlight(Append(q, m)) = InFlight(q) \cup {m}
  <2>1. DOMAIN Append(q, m) = DOMAIN q \cup {Len(q) + 1}
    OBVIOUS
  <2>2. /\ \A i \in DOMAIN q : Append(q, m)[i] = q[i]
        /\ Append(q, m)[Len(q) + 1] = m
    OBVIOUS
  <2>3. QED BY <2>1, <2>2 DEF InFlight
<1>3. ASSUME q # <<>>
      PROVE  /\ Head(q) \in InFlight(q) /\ Head(q) \in S
             /\ Tail(q) \in Seq(S) /\ InFlight(Tail(q)) \subseteq InFlight(q)
  <2>1. 1 \in DOMAIN q /\ Head(q) = q[1] /\ q[1] \in S /\ Tail(q) \in Seq(S)
    BY <1>3
  <2>2. \A i \in DOMAIN Tail(q) : i + 1 \in DOMAIN q /\ Tail(q)[i] = q[i + 1]
    BY <1>3
  <2>3. QED BY <2>1, <2>2 DEF InFlight
<1>4. QED BY <1>1, <1>2, <1>3

(* new is old with messages lost, or read, and with m added to s's. *)
Gains(new, old, s, m) == \A t \in Sessions :
  InFlight(new[t]) \subseteq InFlight(old[t]) \cup (IF t = s THEN {m} ELSE {})
Loses(new, old) == \A t \in Sessions : InFlight(new[t]) \subseteq InFlight(old[t])

(* One channel emptied, or read from, or added to.                          *)
LEMMA ChannelChanges ==
  ASSUME NEW S, NEW c \in Channels(S), NEW s \in Sessions
  PROVE  /\ [c EXCEPT ![s] = <<>>] \in Channels(S)
         /\ Loses([c EXCEPT ![s] = <<>>], c) /\ Loses(c, c)
         /\ InFlight([c EXCEPT ![s] = <<>>][s]) = {}
         /\ \A m \in S : /\ [c EXCEPT ![s] = Append(@, m)] \in Channels(S)
                         /\ Gains([c EXCEPT ![s] = Append(@, m)], c, s, m)
                         /\ Gains(c, c, s, m)
         /\ c[s] # <<>> => /\ [c EXCEPT ![s] = Tail(@)] \in Channels(S)
                           /\ Loses([c EXCEPT ![s] = Tail(@)], c)
                           /\ Head(c[s]) \in InFlight(c[s]) /\ Head(c[s]) \in S
<1>1. c[s] \in Seq(S) /\ <<>> \in Seq(S) /\ \A m \in S : Append(c[s], m) \in Seq(S)
  BY DEF Channels
<1>2. InFlight(<<>>) = {}
  BY <1>1, InFlightOf
<1>3. \A m \in S : InFlight(Append(c[s], m)) = InFlight(c[s]) \cup {m}
  BY <1>1, InFlightOf
<1>4. c[s] # <<>> => /\ Head(c[s]) \in InFlight(c[s]) /\ Head(c[s]) \in S
                     /\ Tail(c[s]) \in Seq(S) /\ InFlight(Tail(c[s])) \subseteq InFlight(c[s])
  BY <1>1, InFlightOf
<1>5. /\ [c EXCEPT ![s] = <<>>] \in Channels(S)
      /\ Loses([c EXCEPT ![s] = <<>>], c) /\ Loses(c, c)
      /\ InFlight([c EXCEPT ![s] = <<>>][s]) = {}
  BY <1>1, <1>2 DEF Channels, Loses
<1>6. ASSUME NEW m \in S
      PROVE  /\ [c EXCEPT ![s] = Append(@, m)] \in Channels(S)
             /\ Gains([c EXCEPT ![s] = Append(@, m)], c, s, m)
             /\ Gains(c, c, s, m)
  BY <1>1, <1>3 DEF Channels, Gains
<1>7. ASSUME c[s] # <<>>
      PROVE  /\ [c EXCEPT ![s] = Tail(@)] \in Channels(S)
             /\ Loses([c EXCEPT ![s] = Tail(@)], c)
  BY <1>1, <1>4, <1>7 DEF Channels, Loses
<1>8. QED BY <1>4, <1>5, <1>6, <1>7

(* The machine's end: its writes add what they write, its reads return a    *)
(* message that was there, and its close adds nothing.                      *)
LEMMA MachineEnd ==
  ASSUME NEW S, NEW R, NEW s \in Sessions,
         toP \in Channels(S), toM \in Channels(R), mOpen \in [Sessions -> BOOLEAN]
  PROVE  /\ \A m \in S : MachineWrites(s, m) => toP' \in Channels(S) /\ Gains(toP', toP, s, m)
         /\ \A m : MachineReads(s, m) => /\ toM' \in Channels(R) /\ Loses(toM', toM)
                                         /\ m \in InFlight(toM[s]) /\ m \in R
         /\ MachineCloses(s) => /\ toP' \in Channels(S) /\ Loses(toP', toP)
                                /\ mOpen' \in [Sessions -> BOOLEAN]
<1>1. ASSUME NEW m \in S, MachineWrites(s, m)
      PROVE  toP' \in Channels(S) /\ Gains(toP', toP, s, m)
  <2>1. /\ Gains(toP, toP, s, m)
        /\ [toP EXCEPT ![s] = Append(@, m)] \in Channels(S)
        /\ Gains([toP EXCEPT ![s] = Append(@, m)], toP, s, m)
    BY <1>1, ChannelChanges
  <2>2. CASE toP' = toP
    BY <2>1, <2>2
  <2>3. CASE toP' = [toP EXCEPT ![s] = Append(@, m)]
    BY <2>1, <2>3
  <2>4. QED BY <1>1, <2>2, <2>3 DEF MachineWrites
<1>2. ASSUME NEW m, MachineReads(s, m)
      PROVE  /\ toM' \in Channels(R) /\ Loses(toM', toM)
             /\ m \in InFlight(toM[s]) /\ m \in R
  <2>1. toM[s] # <<>> /\ m = Head(toM[s]) /\ toM' = [toM EXCEPT ![s] = Tail(@)]
    BY <1>2 DEF MachineReads
  <2>2. QED BY <2>1, ChannelChanges
<1>3. ASSUME MachineCloses(s)
      PROVE  toP' \in Channels(S) /\ Loses(toP', toP) /\ mOpen' \in [Sessions -> BOOLEAN]
  <2>1. toP' \in {toP, [toP EXCEPT ![s] = <<>>]} /\ mOpen' = [mOpen EXCEPT ![s] = FALSE]
    BY <1>3 DEF MachineCloses
  <2>2. /\ [toP EXCEPT ![s] = <<>>] \in Channels(S)
        /\ Loses([toP EXCEPT ![s] = <<>>], toP) /\ Loses(toP, toP)
    BY ChannelChanges
  <2>3. toP' \in Channels(S) /\ Loses(toP', toP)
    BY <2>1, <2>2
  <2>4. QED BY <2>1, <2>3
<1>4. QED BY <1>1, <1>2, <1>3

(* So does the key holder's.                                                *)
LEMMA PhoneEnd ==
  ASSUME NEW S, NEW R, NEW s \in Sessions,
         toP \in Channels(S), toM \in Channels(R), pOpen \in [Sessions -> BOOLEAN]
  PROVE  /\ \A m \in R : PhoneWrites(s, m) => toM' \in Channels(R) /\ Gains(toM', toM, s, m)
         /\ \A m : PhoneReads(s, m) => /\ toP' \in Channels(S) /\ Loses(toP', toP)
                                       /\ m \in InFlight(toP[s]) /\ m \in S
         /\ PhoneCloses(s) => /\ toP' \in Channels(S) /\ Loses(toP', toP)
                              /\ InFlight(toP'[s]) = {}
                              /\ pOpen' \in [Sessions -> BOOLEAN]
<1>1. ASSUME NEW m \in R, PhoneWrites(s, m)
      PROVE  toM' \in Channels(R) /\ Gains(toM', toM, s, m)
  <2>1. /\ Gains(toM, toM, s, m)
        /\ [toM EXCEPT ![s] = Append(@, m)] \in Channels(R)
        /\ Gains([toM EXCEPT ![s] = Append(@, m)], toM, s, m)
    BY <1>1, ChannelChanges
  <2>2. CASE toM' = toM
    BY <2>1, <2>2
  <2>3. CASE toM' = [toM EXCEPT ![s] = Append(@, m)]
    BY <2>1, <2>3
  <2>4. QED BY <1>1, <2>2, <2>3 DEF PhoneWrites
<1>2. ASSUME NEW m, PhoneReads(s, m)
      PROVE  /\ toP' \in Channels(S) /\ Loses(toP', toP)
             /\ m \in InFlight(toP[s]) /\ m \in S
  <2>1. toP[s] # <<>> /\ m = Head(toP[s]) /\ toP' = [toP EXCEPT ![s] = Tail(@)]
    BY <1>2 DEF PhoneReads
  <2>2. QED BY <2>1, ChannelChanges
<1>3. ASSUME PhoneCloses(s)
      PROVE  /\ toP' \in Channels(S) /\ Loses(toP', toP) /\ InFlight(toP'[s]) = {}
             /\ pOpen' \in [Sessions -> BOOLEAN]
  <2>1. toP' = [toP EXCEPT ![s] = <<>>] /\ pOpen' = [pOpen EXCEPT ![s] = FALSE]
    BY <1>3 DEF PhoneCloses
  <2>2. toP' \in Channels(S) /\ Loses(toP', toP) /\ InFlight(toP'[s]) = {}
    BY <2>1, ChannelChanges
  <2>3. QED BY <2>1, <2>2
<1>4. QED BY <1>1, <1>2, <1>3

(* A fresh connection carries nothing yet.                                  *)
LEMMA Fresh ==
  ASSUME NEW S, NEW R, NEW s \in Sessions, NEW m \in BOOLEAN, NEW p \in BOOLEAN,
         toP \in Channels(S), toM \in Channels(R), up \in [Sessions -> BOOLEAN],
         mOpen \in [Sessions -> BOOLEAN], pOpen \in [Sessions -> BOOLEAN], FreshLink(s, m, p)
  PROVE  /\ toP' \in Channels(S) /\ Loses(toP', toP) /\ InFlight(toP'[s]) = {}
         /\ toM' \in Channels(R) /\ Loses(toM', toM)
         /\ up' \in [Sessions -> BOOLEAN]
         /\ mOpen' \in [Sessions -> BOOLEAN] /\ pOpen' \in [Sessions -> BOOLEAN]
<1>1. toP' = [toP EXCEPT ![s] = <<>>] /\ toM' = [toM EXCEPT ![s] = <<>>]
  BY DEF FreshLink
<1>2. toP' \in Channels(S) /\ Loses(toP', toP) /\ InFlight(toP'[s]) = {}
  BY <1>1, ChannelChanges
<1>3. toM' \in Channels(R) /\ Loses(toM', toM)
  BY <1>1, ChannelChanges
<1>4. /\ up' \in [Sessions -> BOOLEAN]
      /\ mOpen' \in [Sessions -> BOOLEAN] /\ pOpen' \in [Sessions -> BOOLEAN]
  BY DEF FreshLink
<1>5. QED BY <1>2, <1>3, <1>4
=============================================================================
